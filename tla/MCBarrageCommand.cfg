SPECIFICATION CFairSpec
CONSTANTS
    Workers = {w1, w2}
    FlowCounts = {1}
    ChanCap = 2
    MaxHistory = 1
    MaxFlows = 2
    TemplateInterval = 0
    MaxSignals = 1
INVARIANTS
    EndsAfterEveryone
    CancelledForAReason
PROPERTIES
    ImplementsBarrage
    SignalEnds
CHECK_DEADLOCK FALSE
