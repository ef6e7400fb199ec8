SPECIFICATION FairSpec
CONSTANTS
    r1 = r1
    r2 = r2
    r3 = r3
    r4 = r4
    u = u
    n = n
    t = t
    o = o
    Requests = {r1, r3, r4, n}
    Policies = {t, o}
    NoRequest = NoRequest
    NoRow = NoRow
    Limit <- MCTightLimit
    Est <- MCEst
    Priced <- MCPriced
    Match <- MCMatch
    CountedBy <- MCCountedBy
    Actuals <- WithinEst
    BlockUnpriced = TRUE
    MaxPeriod = 0
    Overlap = 2
    DbMayFail = FALSE
INVARIANT OvershootBounded
PROPERTIES EveryRequestEnds AnsweredSettled
CHECK_DEADLOCK FALSE
