SPECIFICATION MCSpec
CONSTANTS
    Desks = {u1, u2}
    Positions = {p1}
    PaperIds = {i1}
    Results <- MCResults
    Marks <- MCMarks
    Routes = {"order", "fanout"}
    Account = 200
    DailyLimit = 10
    DrawdownLimit = 20
    GuardBand = 1
    Accounts = 2
    MaxOrders = 2
    MaxDays = 1
    Clients = {u1, u2}
    Creds = {"A", "B"}
    WithPass = {"A"}
    NoCred = "none"
    Savers = {u1, u2}
    Archivers = {a1}
    KeptTrades = {t1}
    Candles = {b1}
    Paths = {p1}
    Retention = 0
    MaxSeconds = 1
    MaxShadows = 1
    Absent = Absent
    Verifiers = {u1, u2}
    Chains = {x1, x2}
    Scopes <- MCScopes
    NoCache = NoCache
    MaxRows = 2
    MaxAltered = 1
INVARIANTS FillsWereCleared KeptOrGone BackupHonest ValidMeansProven
SYMMETRY MCSymmetry
CHECK_DEADLOCK FALSE
