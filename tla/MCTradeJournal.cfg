CONSTANTS
    th1 = th1  th2 = th2
    t1 = t1  t2 = t2
    s1 = s1  s2 = s2
    Threads = {th1, th2}
    Trades = {t1}
    Sizes = {s1, s2}
    Requests = {"create", "close", "cancel", "edit", "sync", "stop"}
    LegacyTrades = {t1}
    MaxEvents = 4
    NoRow = NoRow
    NoResult = NoResult
    AnyRevision = AnyRevision
SYMMETRY MCSymmetry
SPECIFICATION Spec
INVARIANT JournalSound
PROPERTY ImplementsAtomicJournal
