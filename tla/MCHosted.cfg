SPECIFICATION HostedSpec
SYMMETRY HostedSymmetry
CHECK_DEADLOCK FALSE

CONSTANTS
    k3 = k3
    k4 = k4
    nosub = nosub
    p1 = p1
    p2 = p2
    q1 = q1
    q2 = q2
    \* Billing
    Subs = {q1, q2}
    NoSub = nosub
    MaxEvents = 3
    MaxPeriod = 1
    MaxCount = 1
    \* Team
    Users = {q1, q2}
    Slots = {p1, p2}
    SeatLimit = 2
    InviteRoles = {"admin"}
    MaxInvites = 1
    MaxUnmarked = 1
    \* Actions
    ActionLinks = {q1, q2}
    Clicks = {p1, p2}
    FreeCap = 2
    PlanCaps = {0, 2, 4}
    MaxCapLevel = 9
    \* Ledger
    LedgerRows = {q1, q2}
    CronRuns = {k4}
    Retentions = {0, 1}
    LastDay = 2
    \* HostedAlerts
    AlertRuns = {p1, p2}
    DigestRuns = {q1, q2}
    QuietTime = 1
    MinGap = 1
    MaxTime = 2
    MaxUsage = 1
    Thresholds = {1, 2}
    \* Findings
    Fingerprints = {k3}
    Passes = {p1, p2}
    Operators = {k4}
    MinVerify = 2
    Measures <- HostedMeasures

INVARIANTS
    HostedTypeOK
    SubscriptionTrue
    ActsOnce
    DecisionsStand
PROPERTIES
    HostedStepsSafe
