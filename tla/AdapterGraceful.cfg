SPECIFICATION Spec
CONSTANTS
    ConfigMaps <- SinkConfigMap
    NoConfigMap = NoConfigMap
    Secrets = {s1}
    NoSecret = NoSecret
    s1 = s1
    s2 = s2
    Contents = {1,2}
    BadContents = {}
    Defaults <- NoFlags
    Limit <- TwoSecret
    MaxFailures = 0
    MaxRequests = 1
CHECK_DEADLOCK FALSE
INVARIANTS
    GracefulStop
