SPECIFICATION Spec
CONSTANTS
    Nodes = {n1, n2}
    Jobs = {j1, j2}
    Types = {"sync"}
    Deployments <- OneType
    Batches = 1
    MaxTroubles = 0
    NoJob = NoJob
INVARIANT NeverTwoSyncs
CHECK_DEADLOCK FALSE
