CONSTANTS
    s1 = s1
    s2 = s2
    q1 = q1
    q2 = q2
    Sources = {s1, s2}
    Queries = {q1}
    Cached = TRUE
    NoFile = NoFile
    NoOne = NoOne
    Async = Async
    Rebuilder = Rebuilder
    Persister = Persister
    MaxTroubles = 2
SPECIFICATION FairSpec
INVARIANTS
    TypeOK
    MarkedIsIndexed
PROPERTIES
    SyncIsComplete
    CommittedGetsSearchable
    SearchesEnd
