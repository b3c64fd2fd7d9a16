------------------------------- MODULE MCMpi -------------------------------
(***************************************************************************)
(* MpiRuntime on two or three processes and the plans of MCPlans.          *)
(***************************************************************************)
EXTENDS MpiRefinement, MCPlans

Call(n, r, skip) ==
  [plan |-> n, skip |-> skip, retain |-> FALSE, devices |-> 1, trace |-> TRUE,
   inputs |-> LocalExternals(MCPlans[n], r)]

\* Plans that cross, one the verifier refuses, one with digests skipped.
MixedCalls ==
  [r \in Ranks |-> {Call(n, r, FALSE) : n \in {"exchange", "trip", "shared", "split"}}
                   \cup {Call("exchange", r, TRUE)}]

\* Three processes, without and with digests, and a plan whose tags do not fit.
RelayCalls ==
  [r \in Ranks |-> {Call("relay", r, skip) : skip \in BOOLEAN} \cup {Call("far", r, FALSE)}]

\* What TagsNeverClash and MpiValuesAreRight suppose holds of these calls.
ASSUME SkippedAgree == OnePlanIfSkipped

SplitCalls == [r \in Ranks |-> {Call("split", r, FALSE)}]

AllFaults == {"bundle", "preflight", "validate", "synchronize", "wait", "Encode", "Compute", "Comm"}
=============================================================================
