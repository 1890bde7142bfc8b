SPECIFICATION Spec
CONSTANTS
    Nodes = {n1}
    DeadQueueSize = 2
    SendQueueSize = 2
    MaxConns = 3
    MaxEvents = 2
    MaxReplies = 0
    MaxEncodeErrors = 1
    MaxFaults = 1
INVARIANTS
    TypeOK
    StreamAgreement
    NoDuplicateDelivery
    LossOnlyDuringResume
PROPERTIES
    ImplementsEventStream
CHECK_DEADLOCK FALSE
