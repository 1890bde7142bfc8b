SPECIFICATION Spec
CONSTANTS
    Conns = {c1, c2}
    SendQueueSize = 1
    MaxEvents = 2
INVARIANTS
    TypeOK
    OwnFieldsOnly
    RejectedNeverReceived
    Accounted
    SkippedOnlyIfFiltered
CHECK_DEADLOCK FALSE
