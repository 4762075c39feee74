CONSTANTS
    t1 = t1
    t2 = t2
    x1 = x1
    x2 = x2
    Streams = {s1}
    Tokens <- MCTokens
    TokenOf <- MCTokenOf
    Threads <- MCThreads
    ThreadOf <- MCThreadOf
    QueueSize = 1
    MaxFrames <- MCMaxFrames
    NULL = NULL
SPECIFICATION Spec
CHECK_DEADLOCK FALSE
PROPERTIES
    ObjectOncePerInterval
