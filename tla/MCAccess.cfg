SPECIFICATION AccessSpec
SYMMETRY AccessSymmetry
CHECK_DEADLOCK FALSE

CONSTANTS
    k3 = k3
    k4 = k4
    k5 = k5
    nokey = nokey
    p1 = p1
    p2 = p2
    q1 = q1
    q2 = q2
    \* ApiKeys
    Keys = {q1, q2, k3}
    NoKey = nokey
    Workers = {k4}
    Creators = {p1, p2}
    KeyCaps = {0, 1}
    \* Accounts
    Requests = {p1, p2}
    Codes = {k3, k4}
    Threshold = 2
    MaxStep = 2
    MaxGuesses = 5
    MaxLocks = 1
    Links = {q1, q2, k3}
    \* PiiMigration
    Rows = {q1, q2}
    MaxWrites = 1
    \* StreamIngest
    Posts = {p1, p2}
    Batches = {k3}
    OtelConfigs <- AccessOtelConfigs
    MaxTries = 2
    \* ConnPool
    PoolUsers = {p1, p2, q1, q2}
    PoolSize = 3
    \* AgentApi
    Bearers = {k3}
    Tenants = {q1, q2}
    ApiCalls = {p1, p2}
    Limit = 1
    Planned = 1
    MaxTick = 1
    \* Governance
    SeededPolicy = k3
    Policies = {k3, k4}
    Evaluators = {k5}
    MaxVersion = 2
    MaxAsked = 1
    SeededRules <- AccessSeededRules
    RuleShapes <- AccessRuleShapes
    Questions <- AccessQuestions
    \* Guardrails
    Evals = {p1, p2}
    Events = {q1, q2, k3}
    MaxDeliveries = 4
    HardBudget = 2
    MaxRetries = 2
    MaxToolErrors = 2
    MaxTaskRequests = 4
    Kinds <- AccessKinds
    \* Execution
    Calls = {p1, p2}
    Tokens = {q1, q2}
    IdemKeys = {k3}
    ExecIds = {q1, q2}
    Contents <- AccessContents
    MaxCalls = 2
    \* Autonomy
    Cycles = {p1, p2}
    Agents = {k3}
    Recs = {k4}
    Evidence <- AccessEvidence
    Befores <- AccessBefores
    Afters <- AccessAfters

INVARIANTS
    AccessTypeOK
    SingleUse
    Bounded
    NothingDropped
    Authorised
PROPERTIES
    AccessStepsSafe
