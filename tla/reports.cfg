CONSTANTS
    t1 = t1
    t2 = t2
    x1 = x1
    x2 = x2
    Streams = {s1, s2}
    Tokens <- MCTokens
    TokenOf <- MCTokenOf
    Threads <- MCThreads
    ThreadOf <- MCThreadOf
    QueueSize = 1
    MaxFrames <- MCMaxFrames
    NULL = NULL
SPECIFICATION FairSpec
CHECK_DEADLOCK FALSE
INVARIANTS
    RepInv
    ObjectBurstBounded
    EventHasOwnTime
PROPERTIES
    MotionOncePerInterval
    ObjectEventsInOrder
    StreamsDoNotWait
