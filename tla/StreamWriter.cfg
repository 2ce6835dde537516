SPECIFICATION FairSpec
CONSTANTS
  SlotCount = 5
  Frames = 2
  Compensation = 3
  MaxCycles = 7
  WritesFail = TRUE
  PlaysOn = TRUE
INVARIANTS SlotsKept FileIsCapture LengthIsFile
PROPERTIES ClosedForGood TakeEnds
