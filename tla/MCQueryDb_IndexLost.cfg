SPECIFICATION DbSpec
CONSTANTS
  RowLimit = 2
  NumIndexes = 4
  MaxRequests = 1
  MaxLoads = 1
INVARIANT
  IndexesBuilt
CHECK_DEADLOCK FALSE
