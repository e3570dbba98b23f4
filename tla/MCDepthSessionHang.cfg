SPECIFICATION FairSession
CONSTANTS
    Events <- MCEvents
    SnapshotIds <- MCSnapshotIds
    MaxBuffer = 2
    MaxChain = 100
    NoId = NoId
    Sentinel = Sentinel
    MaxId = 3
    QueueSize = 1
    MaxReconnects = 1
    RetryRecovery = TRUE
    MaxEvents = 2
    Malformed = FALSE
    Derivatives = FALSE
PROPERTY CycleReturns
CHECK_DEADLOCK FALSE
