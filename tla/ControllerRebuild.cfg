SPECIFICATION FairSpec
CONSTANTS
    Functions = {f1}
    MaxGeneration = 2
    MaxStamp = 0
    MaxVersion = 2
    ConfigValues = {"true"}
    Limit <- OneServiceReleaseFault
CHECK_DEADLOCK FALSE
INVARIANTS
    
    PendingIsHonest
    FailuresAreRetried

    
