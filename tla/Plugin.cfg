SPECIFICATION FairSpec
CONSTANTS
    Order <- FourResources
    ConfigValues = {"true", "nokey", "absent"}
    Urls = {"u1", "u2"}
    MaxRelease = 2
    Limit <- OneConfigTrouble
CHECK_DEADLOCK FALSE
INVARIANTS
    TypeOK
    PluginHasBackend
    ConfiguredAtRest
PROPERTIES
    Converges
