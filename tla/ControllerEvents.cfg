SPECIFICATION FairSpec
CONSTANTS
    Functions = {f1}
    MaxGeneration = 2
    MaxStamp = 1
    MaxVersion = 1
    ConfigValues = {"true"}
    Limit <- OneServiceFault
CHECK_DEADLOCK FALSE
INVARIANTS
    TypeOK
    
    Inv
PROPERTIES
    
    Settles
