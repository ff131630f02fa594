SPECIFICATION Spec
CONSTANTS
    Main = Main
    Handlers = {h1}
    Children = {}
    Tasks = {t1}
    Stoppers = {}
    Viewers = {v1, v2}
    Listener = Listener
    NoOne = NoOne
    ScanThreshold = 3
    LogFaults = FALSE
SYMMETRY Symmetry
INVARIANTS
    TypeOK
    WatchersRegistered
    
CHECK_DEADLOCK FALSE
