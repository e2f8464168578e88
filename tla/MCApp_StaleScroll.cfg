SPECIFICATION AppSpec
CONSTANTS
  MaxFiles = 2
  EventIndexes = {1}
INVARIANT
  ScrollsToShownTrace
CHECK_DEADLOCK FALSE
