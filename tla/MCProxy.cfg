SPECIFICATION FairSpec
CONSTANTS
    Targets <- MCTargets
    MaxPackets = 2
    BufCap = 1
INVARIANTS
    BurstRelayed
    CountsConsistent
    StopsForAReason
PROPERTIES
    ImplementsRelay
    NeverHeldUp
    OnlySendsHoldShutdown
CHECK_DEADLOCK FALSE
