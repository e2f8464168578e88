SPECIFICATION DbSpec
CONSTANTS
  RowLimit = 2
  NumIndexes = 1
  MaxRequests = 1
  MaxLoads = 1
INVARIANT
  TruncationNoticeIsTrue
CHECK_DEADLOCK FALSE
