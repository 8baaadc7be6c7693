SPECIFICATION FairRingSpec
CONSTANTS
    BufferSize = 6
    MaxCount = 8
    BlockSizes = {2}
    Word = 1000
    Exclusive = TRUE
    MaxWritten = 20
    MaxLives = 2
INVARIANTS
    ReadInBounds
PROPERTIES
    CopiedInOrder
    EveryBlockHeard
CHECK_DEADLOCK FALSE
