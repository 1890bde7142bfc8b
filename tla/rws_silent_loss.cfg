SPECIFICATION Spec
CONSTANTS
    Nodes = {n1}
    DeadQueueSize = 2
    SendQueueSize = 2
    MaxConns = 2
    MaxEvents = 1
    MaxReplies = 0
    MaxEncodeErrors = 0
    MaxFaults = 1
INVARIANTS
    NoSilentLoss
CHECK_DEADLOCK FALSE
