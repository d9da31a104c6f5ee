CONSTANTS
    e1 = e1
    e2 = e2
    e3 = e3
    w1 = w1
    w2 = w2
    convA = convA
    convB = convB
    NoOne = NoOne
    Events = {e1, e2, e3}
    Conversation <- OneTopic
    Waiters = {w1}
    QueueSize = 1
    BatchSize = 1
    MaxFailures = 0
CHECK_DEADLOCK FALSE
SPECIFICATION FairSpec
PROPERTIES
    AdmittedGetsCounted
