SPECIFICATION Spec
CONSTANTS
    Clients = {c1, c2}
    Proxies = {p1, p2}
    NoProxy = NoProxy
    MaxStarts = 1
    MaxCrashes = 1
SYMMETRY Symmetry
INVARIANTS
    TypeOK
    SavedIdsAreUsed
    DestroyedIsStopped
PROPERTIES
    IdsAreStable
CHECK_DEADLOCK FALSE
