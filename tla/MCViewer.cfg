CONSTANTS
  MaxDepth = 3
  MaskDepths = 2
  BlockSize = 2
  MinPad = 100
  SearchPad = 1000
  TrackWidth = 40
  VisibleHeight = 5
  HeaderHeight = 1
  RowHeight = 2
  TrackPadding = 1
  MinRange = 1
  Near = 3
  Texts = {"", "b"}
  Holding <- MCHolding
  Traces <- MCTraces
  Xs = {4, 20}
  Ys = {2, 4}
  Times = {100}
  Uses <- MCUses
  MaxInputs = 4
INIT Init
NEXT Next
INVARIANTS DetailsMatchSelection PanelsAgree FlameFits ListsAreCurrent PictureIsWhole
PROPERTIES JumpShowsEvent
