SPECIFICATION Spec
CONSTANTS
    Nodes = {n1, n2}
    DeadQueueSize = 2
    SendQueueSize = 2
    MaxConns = 3
    MaxEvents = 1
    MaxReplies = 1
    MaxEncodeErrors = 0
    MaxFaults = 1
INVARIANTS
    AgreementUnlessRewound
    SingleOwner
CHECK_DEADLOCK FALSE
