SPECIFICATION FairSpec
CONSTANTS
    a = a
    b = b
    Sessions = {a, b}
    Feed <- MCFeed
    EventIds <- MCEventIds
    IgnoreResize = FALSE
    InitialSize = InitialSize
    Dragged = Dragged
    MaxTimers = 2
    MaxSelections = 2
INVARIANTS
    SessionViewTypeOK
    ScreenIsPrefix
    NotStalled
    LiveIsAcked
    SizeIsFurthest
PROPERTIES
    PlaysToEnd
    
CHECK_DEADLOCK FALSE
