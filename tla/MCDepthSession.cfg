SPECIFICATION FairSession
CONSTANTS
    Events <- MCEvents
    SnapshotIds <- MCSnapshotIds
    MaxBuffer = 2
    MaxChain = 100
    NoId = NoId
    Sentinel = Sentinel
    MaxId = 4
    QueueSize = 1
    MaxReconnects = 2
    RetryRecovery = TRUE
    MaxEvents = 2
    Malformed = TRUE
    Derivatives = FALSE
INVARIANT SessionSound
PROPERTIES ReturnsOrHangs SessionEnds
CHECK_DEADLOCK FALSE
