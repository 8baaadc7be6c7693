SPECIFICATION RingSpec
CONSTANTS
    BufferSize = 2
    MaxCount = 3
    BlockSizes = {1, 2}
    Word = 1000
    Exclusive = FALSE
    MaxWritten = 4
    MaxLives = 1
INVARIANTS
    WriteInBounds
CHECK_DEADLOCK FALSE
