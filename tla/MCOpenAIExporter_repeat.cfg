CONSTANTS
    c1 = c1
    c2 = c2
    c3 = c3
    NoName = NoName
    Calls = {c1, c2}
    Batches <- Repeated
    Stamps = {1, 2}
    BeforeSend = FALSE
    MaxTraceCache = 1
    MaxFaults = 1
CHECK_DEADLOCK FALSE
SPECIFICATION Spec
INVARIANTS
    RepeatIsAccepted
