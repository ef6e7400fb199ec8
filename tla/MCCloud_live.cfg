SPECIFICATION FairSpec
CONSTANTS
    Slots = {s1, s2}
    NoSlot = NoSlot
    MaxRows <- MCMaxRows
    Refused <- MCRefused
    Dims <- MCDims
    Weight <- MCWeight
    Cap <- MCCap
    CostRows = 1
    OutcomeRows = 2
    RefusedOutcomes = {2}
    RequestCap = 2
    TokenCap = 0
    BatchSize = 1
    SeatCount = 1
    MaxMembers = 2
    MaxCycle = 0
    KeyMayEnd = TRUE
    MaxOverride = 1
    MaxCli = 0
    MaxFaults = 1
PROPERTY Delivered
CHECK_DEADLOCK FALSE
