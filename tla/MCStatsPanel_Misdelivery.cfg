SPECIFICATION PanelSpec
CONSTANTS
  RowLimit = 1
  NumIndexes = 1
  MaxRequests = 2
  MaxLoads = 1
  Tabs = {t1, t2}
INVARIANT
  DeliveredToRequester
CHECK_DEADLOCK FALSE
