SPECIFICATION Spec
CONSTANTS
    Conns = {c1, c2}
    Users = {u1, u2}
    Channels = {k1}
    NoConn = NoConn
    NoUser = NoUser
    MaxChanges = 1
INVARIANTS
    ForConnectionFindsIt
CHECK_DEADLOCK FALSE
