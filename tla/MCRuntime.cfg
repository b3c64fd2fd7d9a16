CONSTANTS
  Ranks = {0}
  WorldSize = 2
  ValueIds = {1, 2, 3, 4, 5, 6, 7}
  Plans <- MCPlans
  Args <- MCArgs
  Data = {"d"}
  NoData = NoData
  MaxRuns = 1
  MaxCode = 4
SPECIFICATION Spec
INVARIANTS TypeOK NoStoreError UsesExact StoreExact WaitedOnce ArtifactComplete
PROPERTY SingleAssignment
CHECK_DEADLOCK FALSE
