SPECIFICATION FairAppSpec
CONSTANTS
  MaxFiles = 3
  EventIndexes = {1, 2}
INVARIANTS
  AppTypeOK
  CompleteOrNothing
  ShownTogether
  NoStalePanel
  NoLoaderAfterClose
PROPERTIES
  UsesLoader
  KeepsLoadPromise
  ShutdownEnds
  LoadIsCollected
