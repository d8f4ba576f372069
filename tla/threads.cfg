SPECIFICATION Spec
CONSTANTS
  NumWorkers = 2
  MaxGuards = 1
  Indices = {i, j}
  MaxCount = 2
  MaxGets = 1
INVARIANTS
  TypeOK
  CountsMainGuards
  Exclusion
  NoIncrementLost
  GetWithinBounds
PROPERTIES
  StableWhileRead
CHECK_DEADLOCK FALSE
