------------------------------- MODULE MCMock -------------------------------
(***************************************************************************)
(* MockRuntime on two ranks with one device each and a handful of small    *)
(* plans, chosen so that ranks cross: each waits for the other, a value is *)
(* replicated to both, an operand is used twice, a received value is sent  *)
(* on.                                                                     *)
(***************************************************************************)
EXTENDS MockRefinement, MCPlans

Call(n, r, skip, retain, trace) ==
  [plan |-> n, skip |-> skip, retain |-> retain, devices |-> 1, trace |-> trace,
   inputs |-> LocalExternals(MCPlans[n], r)]

\* Every plan, values released or retained, and one plan with digests skipped:
\* the ranks may disagree on all of it.
AnyPlan ==
  [r \in Ranks |-> {Call(n, r, FALSE, retain, TRUE) : n \in DOMAIN MCPlans, retain \in BOOLEAN}
                   \cup {Call("exchange", r, TRUE, FALSE, TRUE)}]

\* The same plan everywhere, with a call that binds nothing and one for another
\* number of devices.
Misused(n, r) == {[Call(n, r, FALSE, FALSE, TRUE) EXCEPT !.inputs = {}],
                  [Call(n, r, FALSE, FALSE, TRUE) EXCEPT !.devices = 2]}
OnePlan(n)      == [r \in Ranks |-> {Call(n, r, FALSE, FALSE, TRUE)}]
FaultyCalls     == [r \in Ranks |-> {Call(n, r, FALSE, FALSE, TRUE) : n \in {"exchange", "trip", "preload"}}
                                   \cup Misused("exchange", r)]
Exchanges       == OnePlan("exchange")
\* Rank 1 cannot open its trace file.
NoTraceOnRank1  == [r \in Ranks |-> {Call("exchange", r, FALSE, FALSE, r # 1)}]

AllFaults == {"bundle", "preflight", "validate", "synchronize", "wait", "publish",
              "Encode", "Compute", "Comm"}
=============================================================================
