SPECIFICATION FairSpec
CONSTANTS
    c1 = c1
    c2 = c2
    i = i
    x = x
    y = y
    bad = bad
    t1 = t1
    t2 = t2
    none = none
    NoID = none
    NoTime = none
    Nothing = none
    Calls = {c1, c2}
    Captures <- MCCaptures
    Malformed = {bad}
    Times = {t1, t2}
    Rereading = {c1}
    MaxRetries = 1
    MaxTurns = 3
    MaxTroubles = 2
INVARIANTS
    TypeOK
    AnswerIsTrue
    OneSegmentEach
PROPERTIES
    RetryRepairs
CHECK_DEADLOCK FALSE
