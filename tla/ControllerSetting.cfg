SPECIFICATION Spec
CONSTANTS
    Functions = {f1}
    MaxGeneration = 2
    MaxStamp = 0
    MaxVersion = 1
    ConfigValues = {"true", "false", "absent"}
    Limit <- TwoConfigServiceCrash
CHECK_DEADLOCK FALSE
INVARIANTS
    SettingObserved
