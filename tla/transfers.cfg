SPECIFICATION TransfersSpec
CONSTANTS
    FileSize = 4
    Counts <- MCThree
    MaxRetries = 1
    MaxAttempts = 2
    MaxPauses = 1
    OneSize = 3
    OneRetries = 2
    One429 = 2
    OneCalls = 3
    HlsSegments = 3
    HlsRetries = 2
    HlsCalls = 3
    HlsPauses = 2
INVARIANTS
    WholeUnlessResumed
    NoWriterAfterJoin
    SingleStreamWhole
    CountIsResumePoint
    CancelRemovesFile
PROPERTIES
    DeliveredBytesKept
    EveryCallReturns
    CancelledStreamEnds
CHECK_DEADLOCK FALSE
