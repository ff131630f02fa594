SPECIFICATION Spec
CONSTANTS
    Main = Main
    Handlers = {h1}
    Children = {c1}
    Tasks = {}
    Stoppers = {s1}
    Viewers = {}
    Listener = Listener
    NoOne = NoOne
    ScanThreshold = 3
    LogFaults = TRUE
INVARIANTS
    ThreadCountExact
    ThreadsRecordOneStop
    StopsAfterShutdown
    LogFollowsMemory
CHECK_DEADLOCK FALSE
