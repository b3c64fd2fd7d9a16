CONSTANTS
  Ranks = {0, 1}
  WorldSize = 2
  ValueIds = {1, 2, 3, 4, 5, 6}
  Plans <- MCPlans
  Args <- MixedCalls
  Data = {1, 2, 3, 4, 5, 6, 0}
  NoData = NoData
  Garbage = 0
  EagerParts = {0, 1}
  TagUB = 131
  MaxRuns = 2
  Faults = {}
  Unagreed = Unagreed
  UndecidedRank = UndecidedRank
  FailedRank = FailedRank
SPECIFICATION FairMpiSpec
INVARIANTS NoStoreError RunsAligned NoTagClash CorrectValues UsesExact
PROPERTY Success
