CONSTANTS
    c1 = c1
    c2 = c2
    c3 = c3
    convA = convA
    convB = convB
    s1 = s1
    s2 = s2
    r1 = r1
    r2 = r2
    small = small
    large = large
    NoID = NoID
    Callers = {c1, c2}
    Inputs <- AllInputs
    External <- MCExternal
    Stamps = {1, 2}
    MaxRecords = 2
    MaxFaults = 2
CHECK_DEADLOCK FALSE
SPECIFICATION FairSpec
INVARIANTS
    TypeOK
    ContentDurable
    DeltaMatchesSource
    AckedIsDurable
PROPERTIES
    ImplementsHistory
    CommittedGetsProjected
