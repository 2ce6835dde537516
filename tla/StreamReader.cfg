SPECIFICATION MCSpec
CONSTANTS
  SlotCount = 5
  SlotLength = 2
  LookAhead = 2
  Windows <- MCWindows
  SourceStart = 1
  Locations = {1, 4}
  MaxLocation = 10
  RatesChange = TRUE
  ClipMoves = TRUE
  ClipMutes = TRUE
INVARIANTS
  SlotsKept AudioOutWhileSeeking NoFillFailure
  AlignedUnlessMoved ContiguousOnGrid SeekedSlotsReadyOnGrid
VIEW View
