SPECIFICATION FairSpec
CONSTANTS
    ConfigMaps <- SecretConfigMaps
    NoConfigMap = NoConfigMap
    Secrets = {s1}
    NoSecret = NoSecret
    s1 = s1
    Contents = {1,2}
    BadContents = {2}
    Defaults <- NoFlags
    Limit <- OneConfigMapFault
    MaxFailures = 1
    MaxRequests = 0
CHECK_DEADLOCK FALSE
PROPERTIES
    Converges
