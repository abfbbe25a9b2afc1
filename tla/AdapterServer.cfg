SPECIFICATION Spec
CONSTANTS
    ConfigMaps <- SecretConfigMaps
    NoConfigMap = NoConfigMap
    Secrets = {s1}
    NoSecret = NoSecret
    s1 = s1
    Contents = {1,2}
    BadContents = {}
    Defaults <- BrokerFlag
    Limit <- OneConfigMapSecret
    MaxFailures = 0
    MaxRequests = 1
CHECK_DEADLOCK FALSE
INVARIANTS
    TypeOK
    WatchFollowsReference
    RunnerIsCurrent
