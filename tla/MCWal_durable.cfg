SPECIFICATION FairSpec
CONSTANTS
    Events = {e1, e2, e3}
    NoEvent = NoEvent
    QueueSize = 1
    MaxCrashes = 2
    Faults = {}
INVARIANTS TypeOK Durable LogInHand
PROPERTIES ImplementsEventStore AckedStored
CHECK_DEADLOCK FALSE
