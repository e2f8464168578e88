SPECIFICATION FairDbSpec
CONSTANTS
  RowLimit = 2
  NumIndexes = 2
  MaxRequests = 2
  MaxLoads = 2
INVARIANTS
  TypeOK
  DoneIsCurrent
  RowsOfOneTrace
  TablesReplacedAlone
  HandlerOnlyInQuery
PROPERTIES
  AnswersTheLastQuestion
  CancelEndsQuery
  JoinsEnd
