SPECIFICATION Spec
CONSTANTS
    s1 = s1
    s2 = s2
    Sources = {s1, s2}
    NoSource = NoSource
    c1 = c1
    c2 = c2
    Claims = {c1}
    NoClaim = NoClaim
    created = created
    removed = removed
    Requests = {{created}, {removed}}
    MaxGeneration = 2
    Limit <- ThreeSpecsTroubleWithdraw
SYMMETRY Symmetry
CHECK_DEADLOCK FALSE
INVARIANTS
    TypeOK
    SetIsHonest
    CoveredAtRest
PROPERTIES
    TestEventKept
