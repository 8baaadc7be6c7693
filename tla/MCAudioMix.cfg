CONSTANTS
  mic = mic
  remote = remote
  Source = {mic, remote}
  Root = {mic, remote}
  Frames = 2
  Smoothing = 2
  MaxVar = 4
  MaxTicks = 3
  MaxBuf = 6
  Length = {2}
  Lateness <- MCLateness
  SyncOffset <- MCSyncOffset
  MaxLag = 1
  Start = 10
  MaxTime = 16
SPECIFICATION MixSpec
INVARIANTS OutputUnbroken OnTime
PROPERTIES HeardInOrder
CHECK_DEADLOCK FALSE
