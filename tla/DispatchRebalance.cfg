SPECIFICATION Spec
CONSTANTS
    Sources = {s1}
    Specs <- SomeSpecs
    none = none
    NoSpec = none
    BucketOf <- SameNames
    bad = bad
    Malformed = bad
    Payloads <- SomePayloads
    Partitions = {p1}
    Requests = {}
    MaxPayloads = 2
    Limit <- OneSession
CHECK_DEADLOCK FALSE
INVARIANTS
    LostOnlyBySink
