SPECIFICATION Spec
CONSTANTS
    DeadQueueSize = 4
    MaxSeq = 10
INVARIANTS
    TypeOK
    FindsTheWindow
    LossMeansNotNext
    DrainsTheSuffix
CHECK_DEADLOCK FALSE
