SPECIFICATION MCSpec
CONSTANTS
    t1 = t1
    t2 = t2
    c1 = c1
    c2 = c2
    Trades <- TwoTrades
    Clients = {c1}
    Quantities = {4, 8}
    Plans <- OnePlan
    Prices <- ThreePrices
    Requests = {"plan", "manual", "edit", "close", "unit"}
    MaxAge = 1
    MaxLead = 0
    Tolerance = 0
    MaxClock = 1
    MaxEvents = 3
    MaxRevision = 2
    NoPlan = NoPlan
    NoStop = NoStop
    NoQuote = NoQuote
    AnyRevision = AnyRevision
CHECK_DEADLOCK FALSE
INVARIANT TrackingSound
PROPERTIES ClosuresKept StalePlanRefused HitIsTaken
