SPECIFICATION Spec
CONSTANTS
  Period <- MCPeriod
  Ahead <- MCAhead
  Epoch = 100
  KeyGap = 9
  Joins <- MCJoins
  EndTime = 15
  MaxCaptures = 2
CHECK_DEADLOCK FALSE
INVARIANTS
  SentInOrder
  WholeFromZero
  StartsInSync
  StartsByKeyframe
