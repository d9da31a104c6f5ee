CONSTANTS
    p1 = p1
    p2 = p2
    c1 = c1
    c2 = c2
    c3 = c3
    a = a
    b = b
    d = d
    Procs = {p1, p2}
    Calls = {c1}
    Source <- One
    Threshold = 1
    MaxFaults = 1
    MaxRestarts = 1
    MaxRebuilds = 1
SPECIFICATION FairSpec
PROPERTIES
    ExternalWritesAppear
