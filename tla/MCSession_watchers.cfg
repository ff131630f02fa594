SPECIFICATION FairSpec
CONSTANTS
    Main = Main
    Handlers = {h1}
    Children = {}
    Tasks = {}
    Stoppers = {}
    Viewers = {v1, v2}
    Listener = Listener
    NoOne = NoOne
    ScanThreshold = 3
    LogFaults = FALSE
PROPERTIES
    FeedSpec
    
    
    
CHECK_DEADLOCK FALSE
