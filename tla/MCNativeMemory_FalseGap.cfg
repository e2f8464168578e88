SPECIFICATION MemorySpec
CONSTANTS
  Handles = {h1}
  Addresses = {a1, a2}
  Sizes = {1}
  Blocks = {b1, b2, b3}
  Times <- MCTimes
  MaxHeaps = 2
PROPERTY MovedPairIsNoGap
CHECK_DEADLOCK FALSE
