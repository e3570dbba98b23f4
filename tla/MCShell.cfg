SPECIFICATION MCFairSpec
CONSTANTS
    MaxOps = 2
    MaxEdits = 1
    MaxFaults = 2
    MaxOutside = 1
    NoGen = NoGen
    NoJournal = NoJournal
    UiThreads = {u1, u2}
    Caller = u1
    Closers = {callback, main}
    Main = main
    Nobody = Nobody
    MaxQueue = 1
    MaxBatch = 2
    MaxJobs = 1
    MaxTicks = 2
    Ids <- MCIds
    Refreshers = {r1}
    Slots = 1
    LiveFor = 1
    CachedFor = 2
    Backoff = 1
    MaxBackoff = 2
    FreshFor = 1
    MaxTime = 3
    MaxFailures = 2
INVARIANTS RestoreSound ShellSound
PROPERTIES RestoreEnds ShutDownEnds QuotesHonest RefreshEnds
CHECK_DEADLOCK FALSE
