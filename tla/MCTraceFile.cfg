CONSTANTS
  Writers = {1, 2}
  MaxClock = 2
  MaxScopes = 3
  Numeral <- MCNumeral
  MaxDepth = 255
  MaskDepths = 32
  BlockSize = 2
  Sources = {"self", "document", "reader"}
  KeysOf <- MCKeysOf
  ScalarsOf <- MCScalarsOf
  MaxNesting = 5
  MaxContainers = 6
  MaxSize <- MCMaxSize
  Drafts <- MCDrafts
  MaxDrafts = 3
  FrameSets <- MCFrameSets
INIT Init
NEXT Next
INVARIANTS FileWellFormed HandlerKnowsPlace ReadAsWritten NestingIsContainment SelfTimesAddUp
  IndexLosesNothing StacksAreWhole 
CHECK_DEADLOCK FALSE
