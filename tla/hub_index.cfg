SPECIFICATION Spec
CONSTANTS
    Conns = {c1, c2}
    Users = {u1, u2}
    Channels = {k1}
    NoConn = NoConn
    NoUser = NoUser
    MaxChanges = 1
INVARIANTS
    TypeOK
    UserIndexExact
    RoutingComplete
    NoRoutingLeak
    RoutingFollowsMembership
    IdIndexExact
    OpenInIndex
SYMMETRY Symmetry
CHECK_DEADLOCK FALSE
