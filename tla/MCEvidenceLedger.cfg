CONSTANTS
    w1 = w1  w2 = w2
    e1 = e1  e2 = e2  e3 = e3
    acc = acc
    k1 = k1  k2 = k2  k3 = k3
    d1 = d1  d2 = d2
    c1 = c1  c2 = c2
    Writers = {w1, w2}
    EventIds = {e1, e2, e3}
    Accounts = {acc}
    Keys = {k1, k2, k3}
    Dates = {d1, d2}
    Contents = {c1, c2}
    Genesis = Genesis
    NoWriter = NoWriter
    MaxBatch = 2
SYMMETRY MCSymmetry
SPECIFICATION Spec
INVARIANTS LedgerIntact AckedDurable AnswersTrue
PROPERTY AppendOnly
