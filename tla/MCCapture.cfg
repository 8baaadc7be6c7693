CONSTANTS
  CacheSize = 2
  MaxCount = 2
  MaxFails = 1
  MaxTime = 8
  Interval = 2
  FrameSize = 2
  BlockSize = 3
  FirstBlock = {1, 2}
SPECIFICATION Spec
INVARIANTS FrameIntact VideoKeepsTime PictureLag AudioKeepsTime
CHECK_DEADLOCK FALSE
