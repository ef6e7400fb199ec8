SPECIFICATION Spec
CONSTANTS
    Slots = {s1, s2}
    NoSlot = NoSlot
    MaxRows <- MCMaxRows
    Refused <- MCRefused
    Dims <- MCDims
    Weight <- MCWeight
    Cap <- MCCap
    CostRows = 2
    OutcomeRows = 1
    RefusedOutcomes = {}
    RequestCap = 0
    TokenCap = 0
    BatchSize = 1
    SeatCount = 1
    MaxMembers = 1
    MaxCycle = 0
    KeyMayEnd = FALSE
    MaxOverride = 0
    MaxCli = 1
    MaxFaults = 1
SYMMETRY SlotSymmetry
INVARIANT UsageExact
CHECK_DEADLOCK FALSE
