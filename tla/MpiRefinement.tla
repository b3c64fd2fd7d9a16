--------------------------- MODULE MpiRefinement ---------------------------
(***************************************************************************)
(* One run of MpiVecApi processes implements the contract of SpmdRun, as   *)
(* the mock cluster does.  The ranks have agreed once each has entered the *)
(* last collective its flag asks of it and they all brought the same; a    *)
(* process that MPI ends has failed.                                       *)
(***************************************************************************)
EXTENDS MpiRuntime

CONSTANTS Unagreed, UndecidedRank, FailedRank

ASSUME RefinementConstantsOK == Unagreed \notin [Ranks -> Requests]

GathersDue(r) == IF arg[r].skip THEN 1 ELSE 2

AllGathered == \A r \in Ranks : Len(gathers[r]) >= GathersDue(r)

BroughtFirst == [r \in Ranks |-> gathers[r][1]]

Agreement == IF AllGathered /\ Consistent(BroughtFirst) THEN BroughtFirst ELSE Unagreed

Outcome(r) ==
  CASE stage[r] = "done"  -> Artifact(r)
    [] stage[r] = "panic" -> FailedRank
    [] OTHER              -> UndecidedRank

Contract ==
  INSTANCE SpmdRun WITH
    Undecided <- UndecidedRank,
    Failed  <- FailedRank,
    agreed  <- Agreement,
    outcome <- [r \in Ranks |-> Outcome(r)]

\* Every process that returns gives back exactly the values the agreed plan
\* determines for it, only after all processes agreed, and never changes its mind.
ImplementsSpmdRun == Contract!Spec
=============================================================================
