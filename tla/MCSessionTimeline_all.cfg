CONSTANTS
    u1 = u1
    u2 = u2
    u3 = u3
    Absent = Absent
    Uses = {u1, u2, u3}
    Tool <- TwoTools
    Scenarios <- Demos
    SlowAfter = 2
    MaxCaptured = 4
    MaxLate = 1
    MaxMissed = 1
SYMMETRY Alike
CHECK_DEADLOCK FALSE
SPECIFICATION SessionSpec
INVARIANTS
    EveryRecordOnce
    PairedWhenApart
    FailuresStayVisible
PROPERTIES
    PairsStay
