CONSTANTS
    s1 = s1
    s2 = s2
    None = None
    Absent = Absent
    Sessions = {s1, s2}
    ListLimit = 2
    MaxRecords <- MCMaxRecords
    Script <- MCScript
    Queries <- MCQueries
    Foci = {"all", "errors"}
    SlowAfter = 1
    MaxVisits = 1
    MaxFaults = 1
    MaxSteps = 2
CHECK_DEADLOCK FALSE
SPECIFICATION Spec
INVARIANTS
    SettledIsSelected
    OpenedStaysOpen
PROPERTIES
    FilterKeepsOperation
