SPECIFICATION StuckSpec
CONSTANTS
    t1 = t1
    t2 = t2
    c1 = c1
    c2 = c2
    Trades <- OneTrade
    Clients = {c1}
    Quantities = {2, 4}
    Plans <- OnePlan
    Prices = {1}
    Requests = {"plan", "edit"}
    MaxAge = 1
    MaxLead = 0
    Tolerance = 0
    MaxClock = 1
    MaxEvents = 3
    MaxRevision = 3
    NoPlan = NoPlan
    NoStop = NoStop
    NoQuote = NoQuote
    AnyRevision = AnyRevision
CHECK_DEADLOCK FALSE
INVARIANT NextIsRecordable
