SPECIFICATION FairSpec
CONSTANTS
    a = a
    Keys = {a}
    NoKey = NoKey
    Places <- AllPlaces
    MaxNavs = 1
    MaxMail = 1
INVARIANTS
    TypeOK
    PollersTracked
    OneQuerySocket

    
    
CHECK_DEADLOCK FALSE
