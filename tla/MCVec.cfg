CONSTANTS
  p1 = p1
  p2 = p2
  r1 = r1
  r2 = r2
  Places = {p1, p2}
  Readers = {r1, r2}
  Caller = Caller
  Programs <- MCPrograms
SPECIFICATION FairSpec
INVARIANTS TypeOK SameAsSync FailureReported Drained
PROPERTY Termination
