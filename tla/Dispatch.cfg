SPECIFICATION FairSpec
CONSTANTS
    Sources = {s1, s2}
    Specs <- SomeSpecs
    none = none
    NoSpec = none
    BucketOf <- SameNames
    bad = bad
    Malformed = bad
    Payloads <- SomePayloads
    Partitions = {p1}
    Requests = {q1}
    MaxPayloads = 2
    Limit <- OneEach
CHECK_DEADLOCK FALSE
INVARIANTS
    TypeOK
    DispatchIsExact
    CommittedWasProcessed
PROPERTIES
    ImplementsConsumption
    AllProcessed
