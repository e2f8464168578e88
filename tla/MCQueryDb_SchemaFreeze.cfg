SPECIFICATION FairDbSpec
CONSTANTS
  RowLimit = 1
  NumIndexes = 1
  MaxRequests = 1
  MaxLoads = 1
PROPERTY
  SchemaBrowserReturns
