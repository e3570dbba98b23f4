CONSTANTS
    th1 = th1  th2 = th2
    t1 = t1  t2 = t2
    s1 = s1  s2 = s2
    Threads = {th1}
    Trades = {t1, t2}
    Sizes = {s1, s2}
    Requests = {"create", "close", "cancel", "edit", "sync", "correct", "confirm", "import", "resize"}
    LegacyTrades = {}
    MaxEvents = 4
    NoRow = NoRow
    NoResult = NoResult
    AnyRevision = AnyRevision
SYMMETRY MCSymmetry
SPECIFICATION Spec
INVARIANT ShownSound
PROPERTY CoverageKept
