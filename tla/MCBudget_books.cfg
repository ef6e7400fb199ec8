SPECIFICATION Spec
CONSTANTS
    r1 = r1
    r2 = r2
    r3 = r3
    r4 = r4
    u = u
    n = n
    t = t
    o = o
    Requests = {r1, r2, r3, u}
    Policies = {t, o}
    NoRequest = NoRequest
    NoRow = NoRow
    Limit <- MCLimit
    Est <- MCEst
    Priced <- MCPriced
    Match <- MCMatch
    CountedBy <- MCCountedBy
    Actuals <- AnyCost
    BlockUnpriced = TRUE
    MaxPeriod = 1
    Overlap = 3
    DbMayFail = TRUE
SYMMETRY PairSymmetry
INVARIANTS TypeOK BooksBalance RefusedLeavesNothing
CHECK_DEADLOCK FALSE
