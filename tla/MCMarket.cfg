SPECIFICATION MCSpec
CONSTANTS
    Requests = {q1, q2}
    Queries <- MCQueries
    None = None
    MaxPages = 2
    MaxNow = 3
    MaxId = 4
    Events <- MCEvents
    SnapshotIds <- MCSnapshotIds
    MaxBuffer = 2
    MaxChain = 2
    NoId = NoId
    SegmentSize = 2
    Identities = {1, 2, 3, 4}
    Payloads = {1, 2}
    Provenances = {1, 2}
    MaxSequence = 4
    NoManifest = NoManifest
    Reports = {r1, r2}
    Keys = {k1, k2}
    Commands = {o1, o2}
    Prepared = {r1}
    Operator = k1
    MaxRuns = 3
    o1 = o1
    o2 = o2
    o3 = o3
    OrderIds <- MCOrderIds
    Ticks <- MCTicks
    Calls <- MCCalls
    MaxResting = 2
    Symbols <- MCSymbols
    Listed <- MCListed
    Drafts <- MCDrafts
    Entry = 2
    Qty = 2
    ExitPrices = {1, 4}
    Days = {1, 2, 3}
    Unknown = Unknown
    Balances = {0, 3}
INVARIANTS ChartIsCurrent IngestorSound AckedIsStored RootsSound PortfolioSound
PROPERTIES FailsClosed MatchingSound
SYMMETRY MCSymmetry
CHECK_DEADLOCK FALSE
