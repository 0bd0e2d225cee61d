SPECIFICATION Spec
CONSTANTS
    w1 = w1
    w2 = w2
    Senders <- MCSenders
    Modulus = 4
    BarrageCounts <- MCBarrageCounts
    APICounts <- MCAPICounts
    Count = 2
    MaxMessages = 4
INVARIANTS
    Numbered
    Readable
CHECK_DEADLOCK FALSE
