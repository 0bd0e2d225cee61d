SPECIFICATION FairSpec
CONSTANTS
    MaxPackets = 4
    ParseCap = 2
    DataCap = 1
    MaxKey = 3
INVARIANTS
    KeysContiguous
    StoredIsPrefix
    StopsForAReason
PROPERTIES
    NeverOverwritten
    ImplementsLog
    ShutdownCompletes
    EventuallyStored
