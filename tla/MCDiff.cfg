SPECIFICATION Spec
CONSTANTS
  Pairs <- MCPairs
INVARIANTS
  NoFalseAlarm
  CulpritFound
  TableExact
