SPECIFICATION FairSpec
CONSTANTS
    Addrs = {a1}
    Users = {u1}
    NoUser = NoUser
    Loops = {l1, l2}
    NoLoop = NoLoop
    Stoppers = {p1, p2}
    MaxSessions = 1
PROPERTIES
    StopEndsLoop
CHECK_DEADLOCK FALSE
