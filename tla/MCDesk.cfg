SPECIFICATION MCSpec
CONSTANTS
    None = None
    Files <- MCFiles
    Alerts = {a1}
    Unstamped = {a2}
    Confirmers = {u1, u2}
    Prices = {1}
    MaxFileImports = 3
    MaxEvents = 3
    BrokerOrders = {o1}
    Deciders = {d1}
    Decisions = {"ACKNOWLEDGED"}
    PageLimit = 2
    MaxPages = 2
    MaxAttempts = 1
    Bounds <- MCBounds
    MaxBrokerTime = 2
    MaxFills = 3
    MaxImports = 1
    MaxLedger = 2
    Documents <- MCDocuments
    Callers = {w1}
    Statements <- MCStatements
    Partial = FALSE
    MaxRevisions = 3
    Clerks = {u1, u2}
    Holders = {h1, h2}
    Exchanges = {x1}
    StatementIds = {"d1", "d2", "d3", "d4", "d5"}
    Lines <- MCLines
    Claims <- MCClaims
    MaxEntries = 4
    Users = {u1, u2}
    Limits = {1, 2}
    DefaultLimit = 2
    Risks = {2}
    Stops = {TRUE, FALSE}
    Gates = {"calm", "breached"}
    Clear = {"calm"}
    Playbooks = {p1}
    Titles = {A, B}
    Rules = {R}
    AuditedTrades = {t1}
    Notes = {n}
    Asks = {"setting", "order", "playbook", "edit", "audit", "review"}
    MaxEvidence = 3
    MaxClock = 1
    Second = 1
    Missing = Missing
    Reviewers = {v1}
    Values = {1}
    Lookback = 2
    Lookforward = 1
    MaxSessions = 1
    Nil = Nil
    MaxNow = 2
    MaxPlans = 2
    MaxCreated = 2
    Ids = {1, 2, 3}
    EntryTimes = {1, 2}
    OldTrades = {1, 2}
    PageSize = 1
    MaxListed = 3
    MaxWrites = 3
    NoTrade = NoTrade
    Trades = {t1, t2, t3}
    Malformed = {t3}
    Versions = {0, 1, 2, 3}
    MaxStarts = 2
    MaxRuns = 2
    NoFile = NoFile
INVARIANTS ImportsSound BrokerEvidenceSound PropagationSound AccountEvidenceSound RecordsSound ReviewSound ExportsSound UpgradeKeepsJournal
SYMMETRY MCSymmetry
CHECK_DEADLOCK FALSE
