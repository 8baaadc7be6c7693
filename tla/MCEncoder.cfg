SPECIFICATION FairSpec
CONSTANTS
  Output = {o1, o2}
  MaxCaptures = 2
  MayFail = {"video", "audio"}
  Free = Free
INVARIANTS
  NoPacketAfterStop
  CodecAlive
  CaptureIsFed
PROPERTIES
  StopReturns
  PairStarts
CHECK_DEADLOCK FALSE
