SPECIFICATION FairSpec
CONSTANTS
    Nodes = {n1}
    DeadQueueSize = 2
    SendQueueSize = 1
    MaxConns = 3
    MaxEvents = 1
    MaxReplies = 0
    MaxEncodeErrors = 0
    MaxFaults = 1
PROPERTIES
    Converges
CHECK_DEADLOCK FALSE
