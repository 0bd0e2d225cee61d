SPECIFICATION BFairSpec
CONSTANTS
    Workers = {w1, w2}
    FlowCounts = {2}
    ChanCap = 2
    MaxHistory = 1
    MaxFlows = 3
    TemplateInterval = 1
INVARIANTS
    WaitGroupExact
    ReportsCurrent
PROPERTIES
    ShutdownOrStuck
    EventuallyShown
CHECK_DEADLOCK FALSE
