SPECIFICATION Spec
CONSTANTS
  Frame = {1, 2, 3, 4, 5, 6}
  Size = {"small", "large"}
  None = None
  Tick = 2
  Gap = 0
  Smooth = 2
  MaxVar = 3
  MaxFrames = 3
  MaxUnused = 2
  MaxLate = 2
  MaxCopy = 0
  MaxLeaks = 1
  MaxTime = 13
INVARIANTS
  RefsExact
  NoneWaitsLong
PROPERTIES
  ShownInOrder
CHECK_DEADLOCK FALSE
