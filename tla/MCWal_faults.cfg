SPECIFICATION Spec
CONSTANTS
    Events = {e1, e2}
    NoEvent = NoEvent
    QueueSize = 1
    MaxCrashes = 1
    Faults = {"recovery_fail", "partial_append", "stop_race", "cli_race", "cli_kill"}
SYMMETRY EventSymmetry
INVARIANT StoredOnce
CHECK_DEADLOCK FALSE
