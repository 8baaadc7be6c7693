SPECIFICATION FairSpec
CONSTANTS
  numStreams = 2
  UseVpAudio = TRUE
  MaxRequests = 2
  MaxQueue = 3
INVARIANTS
  StopReachesAll
  StopsHeardBeforeExit
PROPERTIES
  ViewIsLifecycle
  RequestEnds
\* The process ends.
CHECK_DEADLOCK FALSE
