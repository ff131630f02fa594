SPECIFICATION FairSpec
CONSTANTS
    Clients = {c1, c2, c3}
    Hasty = {c1}
    MaxLines = 2
INVARIANTS
    TypeOK
    NoLineLost
PROPERTIES
    
    StopDisconnects
CHECK_DEADLOCK FALSE
