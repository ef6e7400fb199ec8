SPECIFICATION Spec
CONSTANTS
    Events = {e1, e2}
    NoEvent = NoEvent
    QueueSize = 1
    MaxCrashes = 1
    Faults = {"recovery_fail"}
SYMMETRY EventSymmetry
PROPERTY TruncateOnlyPersisted
CHECK_DEADLOCK FALSE
