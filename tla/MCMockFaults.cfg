CONSTANTS
  Ranks = {0, 1}
  WorldSize = 2
  ValueIds = {1, 2, 3, 4, 5, 6}
  Plans <- MCPlans
  Args <- FaultyCalls
  Data = {1, 2, 3, 4, 5, 6, 0}
  NoData = NoData
  Garbage = 0
  NotArrived = NotArrived
  MaxRuns = 2
  Faults <- AllFaults
  Unagreed = Unagreed
  UndecidedRank = UndecidedRank
  FailedRank = FailedRank
SPECIFICATION FairMockSpec
INVARIANTS PreflightAgreement SourceHeldWhileSending NothingInFlight
PROPERTIES Termination
