SPECIFICATION Spec
CONSTANTS
    Conns = {c1, c2}
    SendQueueSize = 1
    MaxEvents = 1
INVARIANTS
    AcceptedNotSkipped
CHECK_DEADLOCK FALSE
