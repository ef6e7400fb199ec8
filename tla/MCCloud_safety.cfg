SPECIFICATION Spec
CONSTANTS
    Slots = {s1, s2}
    NoSlot = NoSlot
    MaxRows <- MCMaxRows
    Refused <- MCRefused
    Dims <- MCDims
    Weight <- MCWeight
    Cap <- MCCap
    CostRows = 2
    OutcomeRows = 0
    RefusedOutcomes = {}
    RequestCap = 5
    TokenCap = 5
    BatchSize = 2
    SeatCount = 1
    MaxMembers = 0
    MaxCycle = 1
    KeyMayEnd = FALSE
    MaxOverride = 0
    MaxCli = 1
    MaxFaults = 2
SYMMETRY SlotSymmetry
INVARIANTS TypeOK MarkedDelivered StoredOnce SyncedCounted QuotaOvershoot ThresholdsMailed
CHECK_DEADLOCK FALSE
