SPECIFICATION FairSpec
CONSTANTS
  Option = {"streaming-destinations", "video-w", "offset", "local", "remote", "volume"}
  Kind <- KindOf
  Default <- Initially
  Word = {"-1", "1", "3", "1e999", "[]"}
  Reads <- Numbers
  Infinite = {"1e999"}
  Lists = {"[]"}
  MaxSize = 3
  None = None
  MaxArgs = 4
  Values <- MessageValues
  MaxMessages = 2
INVARIANTS
  ArgsMeant
  SettingsInForce
  UsedWhileAlive
PROPERTIES
  ShutdownEnds
CHECK_DEADLOCK FALSE
