SPECIFICATION FairSpec
CONSTANTS
    Functions = {f1, f2}
    MaxUid <- FirstTwice
    f1 = f1
    f2 = f2
    MaxRelease = 2
    MaxTrouble = 1
CHECK_DEADLOCK FALSE
INVARIANTS
    TypeOK
    PermittedUnlessRecreated
    InstalledIsVerified
    ControllersHaveCli
    
PROPERTIES
    
    CatchesUp
