SPECIFICATION Spec
CONSTANTS
    Main = Main
    Handlers = {h1}
    Children = {}
    Tasks = {t1}
    Stoppers = {}
    Viewers = {}
    Listener = Listener
    NoOne = NoOne
    ScanThreshold = 3
    LogFaults = FALSE
INVARIANTS
    LogIsJSON
CHECK_DEADLOCK FALSE
