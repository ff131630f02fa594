SPECIFICATION Spec
CONSTANTS
    Addrs = {a1, a2}
    Users = {u1}
    NoUser = NoUser
    Loops = {l1}
    NoLoop = NoLoop
    Stoppers = {p1}
    MaxSessions = 3
SYMMETRY Symmetry
INVARIANTS
    TypeOK
    TableKeepsTwo
    
    
CHECK_DEADLOCK FALSE
