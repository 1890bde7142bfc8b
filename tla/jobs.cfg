SPECIFICATION FairSpec
CONSTANTS
    Nodes = {n1, n2}
    Jobs = {j1, j2}
    Types = {"simple", "migration", "watched", "sync"}
    Deployments <- OneType
    Batches = 2
    MaxTroubles = 1
    NoJob = NoJob
INVARIANTS
    TypeOK
    OneRunner
    OneMigration
    NoBatchSkipped
    ActiveIsHeld
PROPERTIES
    FinalIsFinal
    JobsEnd
CHECK_DEADLOCK FALSE
