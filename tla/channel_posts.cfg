SPECIFICATION Spec
CONSTANTS
    PerPage = 1
    BurstLimit = 0
    HeldLimit = 1
    MaxPosts = 5
    InitPosts = 2
    MaxCalls = 2
    Scenarios <- MCScenarios
INVARIANTS
    TypeOK
    NoSilentGap
    OldestIsOldest
    OnlyPendingDangles
    OthersOnce
    RecentIsRecent
    NoGhost
    CopiesCurrent
    PendingResolved
CHECK_DEADLOCK FALSE
