SPECIFICATION LocalSpec
SYMMETRY LocalSymmetry
CHECK_DEADLOCK FALSE

CONSTANTS
    k3 = k3
    k4 = k4
    noentry = noentry
    noevent = noevent
    norun = norun
    p1 = p1
    p2 = p2
    q1 = q1
    q2 = q2
    \* Discovery
    Detectors = {p1, p2}
    AssetIds = {q1, q2, k3}
    PageLimit = 1
    Identities = {k3, k4}
    ShadowWindow = 1
    MaxNow = 2
    FewTicks = 1
    FewAssetIds = {q1, q2}
    FewIdentities = {k3}
    \* LocalAlerts
    Finishers = {p1, p2}
    Periods = {1}
    Levels = {1}
    MaxDay = 1
    MaxUnits = 2
    \* Outcomes
    PullRequests = {k3}
    Derivers = {p1, p2}
    MaxEventTime = 2
    MaxCorrections = 1
    \* SemanticCache
    Askers = {p1, p2}
    Customers = {q1, q2}
    Asked = {"q", "r"}
    Alike <- LocalAlike
    Modality <- LocalModality
    CacheTTL = 1
    MaxClock = 1
    NoEntry = noentry
    \* Routing
    Routed = {p1, p2}
    Pricey = {"big"}
    Cheaper <- LocalCheaper
    Price <- LocalPrice
    BudgetUsd = 2
    ThresholdPct = 60
    ThresholdUsd = 0
    TeamTTL = 1
    MaxTicks = 2
    MaxSpent = 2
    \* ScanImport
    Scans = {p1, p2}
    MaxLines = 2
    MaxBubbles = 2
    \* Migrations
    Starters = {p1, p2}
    OldRows = {q1, q2}
    FirstVersions = {0, 6, 15, 18}
    \* Anomaly
    Checkers = {p1, p2}
    Hours <- LocalHours
    LoopMax = 2
    MinSpend = 2
    Multiple = 3
    MinSample = 2
    BaselineHours = 2
    LastHour = 3
    MaxLost = 1
    SampleSize = 4
    SampleMax = 3
    \* UsagePricing
    PricedCalls <- LocalPricedCalls
    Turns <- LocalTurns
    Releases <- LocalReleases
    LastToday = 3
    \* AgentRuns
    RunIds = {k3, k4}
    NoRun = norun
    Spaces = {q1, q2}
    RunWriters = {p1, p2}
    MaxRunSpend = 1
    EventIds = {q1, q2}
    NoEvent = noevent
    LinkWriters = {p1, p2}

INVARIANTS
    LocalTypeOK
    DetectedOnce
    ServedAndBilled
    LedgerFilled
    LedgerLinked
PROPERTIES
    LocalStepsSafe
