CONSTANTS
  Ranks = {0, 1, 2}
  WorldSize = 3
  ValueIds = {1, 2, 3, 4, 5, 6}
  Plans <- MCPlans
  Args <- RelayCalls
  Data = {1, 2, 3, 4, 5, 6, 0}
  NoData = NoData
  Garbage = 0
  EagerParts = {}
  TagUB = 256
  MaxRuns = 1
  Faults = {"Compute", "wait"}
  Unagreed = Unagreed
  UndecidedRank = UndecidedRank
  FailedRank = FailedRank
SPECIFICATION FairMpiSpec
INVARIANTS MpiTypeOK NothingPending
PROPERTIES Termination ImplementsSpmdRun
