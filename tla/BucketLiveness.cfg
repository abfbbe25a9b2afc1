SPECIFICATION FairSpec
CONSTANTS
    s1 = s1
    s2 = s2
    Sources = {s1, s2}
    NoSource = NoSource
    c1 = c1
    c2 = c2
    Claims = {c1, c2}
    NoClaim = NoClaim
    created = created
    removed = removed
    Requests = {{created}}
    MaxGeneration = 2
    Limit <- TwoSpecsTrouble
CHECK_DEADLOCK FALSE
PROPERTIES
    ImplementsSubscription
    DeletionCompletes
    EventuallyCovered
