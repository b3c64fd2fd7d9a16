--------------------------- MODULE MockRefinement ---------------------------
(***************************************************************************)
(* The runtimes of a MockCluster implement the contract of SpmdRun.  The   *)
(* ranks have agreed once the preflight table is full and consistent; an   *)
(* outcome is the artifact of make_artifact, a value's id paired with its  *)
(* contents.                                                               *)
(***************************************************************************)
EXTENDS MockRuntime

CONSTANTS Unagreed, UndecidedRank, FailedRank

ASSUME RefinementConstantsOK == Unagreed \notin [Ranks -> Requests]

Agreement == IF AllArrived(digests) /\ Agreed(digests) THEN digests ELSE Unagreed

Outcome(r) ==
  CASE stage[r] = "done"  -> Artifact(r)
    [] stage[r] = "panic" -> FailedRank
    [] OTHER              -> UndecidedRank

Contract ==
  INSTANCE SpmdRun WITH
    Undecided <- UndecidedRank,
    Failed  <- FailedRank,
    agreed  <- Agreement,
    outcome <- [r \in Ranks |-> Outcome(r)]

\* Every rank that returns gives back exactly the values the agreed plan
\* determines for it, only after all ranks agreed, and never changes its mind.
ImplementsSpmdRun == Contract!Spec
=============================================================================
