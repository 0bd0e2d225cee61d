SPECIFICATION FairSpec
CONSTANTS
    Workers = {"w1", "w2"}
    ChanCap = 2
    MaxRecords = 3
    MaxPasses = 2
INVARIANTS
    ReplayedExactlyOnce
    EachRecordOncePerPass
PROPERTIES
    EndsUnlessLooping
CHECK_DEADLOCK FALSE
