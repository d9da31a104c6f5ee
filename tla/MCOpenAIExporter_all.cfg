CONSTANTS
    c1 = c1
    c2 = c2
    c3 = c3
    NoName = NoName
    Calls = {c1, c2, c3}
    Batches <- AllBatches
    Stamps = {1}
    BeforeSend = TRUE
    MaxTraceCache = 2
    MaxFaults = 1
SYMMETRY Symmetry
CHECK_DEADLOCK FALSE
SPECIFICATION Spec
INVARIANTS
    NothingLostQuietly
    NothingStaysBuffered
    SpansFollowTheirTrace
    StoredOnce
