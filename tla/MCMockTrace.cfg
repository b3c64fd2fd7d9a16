CONSTANTS
  Ranks = {0, 1}
  WorldSize = 2
  ValueIds = {1, 2, 3, 4, 5, 6}
  Plans <- MCPlans
  Args <- NoTraceOnRank1
  Data = {1, 2, 3, 4, 5, 6, 0}
  NoData = NoData
  Garbage = 0
  NotArrived = NotArrived
  MaxRuns = 1
  Faults = {}
  Unagreed = Unagreed
  UndecidedRank = UndecidedRank
  FailedRank = FailedRank
SPECIFICATION FairMockSpec

PROPERTY ErrorStopsAll
