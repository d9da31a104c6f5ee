CONSTANTS
    convA = convA
    convB = convB
    NoConversation = NoConversation
    Events <- FourEvents
    Conversations = {convA, convB}
    Waiters <- TwoCalls
    Observers = {}
    BeforeSend = TRUE
    MaxQueueSize = 2
    MaxBatchSize = 2
    MaxFailures = 1
CHECK_DEADLOCK FALSE
SPECIFICATION FairSpec
INVARIANTS
    NothingStranded
PROPERTIES
    ImplementsDelivery
    FlushesEnd
