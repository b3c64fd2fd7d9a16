------------------------------ MODULE SpmdRun ------------------------------
(***************************************************************************)
(* What a cluster of runtimes promises its callers, and nothing else.      *)
(* Every rank is asked to run something.  At most once all of them agree   *)
(* on it; from then on each rank may return, and what it returns is what   *)
(* the agreed plan determines for that rank, never anything partial.  At   *)
(* any time a rank may fail instead.                                       *)
(***************************************************************************)
CONSTANTS
  Ranks,
  Requests,             \* what a rank may be asked to run
  Consistent(_),        \* the ranks' requests are one SPMD program
  Promised(_, _),       \* the artifacts rank r may return under requests q
  Unagreed, Undecided, Failed

VARIABLES agreed, outcome

spmdVars == <<agreed, outcome>>

Init ==
  /\ agreed = Unagreed
  /\ outcome = [r \in Ranks |-> Undecided]

Agree ==
  /\ agreed = Unagreed
  /\ \A r \in Ranks : outcome[r] = Undecided
  /\ \E q \in [Ranks -> Requests] : Consistent(q) /\ agreed' = q
  /\ UNCHANGED outcome

Return(r) ==
  /\ agreed # Unagreed
  /\ outcome[r] = Undecided
  /\ \E artifact \in Promised(agreed, r) : outcome' = [outcome EXCEPT ![r] = artifact]
  /\ UNCHANGED agreed

Fail(r) ==
  /\ outcome[r] = Undecided
  /\ outcome' = [outcome EXCEPT ![r] = Failed]
  /\ UNCHANGED agreed

Next == Agree \/ \E r \in Ranks : Return(r) \/ Fail(r)

Spec == Init /\ [][Next]_spmdVars
=============================================================================
