SPECIFICATION RingSpec
CONSTANTS
    BufferSize = 6
    MaxCount = 8
    BlockSizes = {2}
    Word = 1000
    Exclusive = TRUE
    MaxWritten = 20
    MaxLives = 1
INVARIANTS
    UnconsumedIsUnread
CHECK_DEADLOCK FALSE
