SPECIFICATION Spec
CONSTANTS
    Capacity = 6
    SampleRate = 1
    MinDelay = 1
    CaptureSizes = {2, 4}
    RequestSizes = {0, 2, 4}
    Delays = {0, 2, 3}
    MaxSamples = 10
INVARIANTS
    BuffersHoldNewestRun
    StereoAligned
PROPERTIES
    LossOnlyAfterRaise
    ImplementsMixedStream
