SPECIFICATION BFairSpec
CONSTANTS
    Workers = {w1, w2}
    FlowCounts = {1}
    ChanCap = 2
    MaxHistory = 1
    MaxFlows = 3
    TemplateInterval = 0
PROPERTIES
    ShutdownCompletes
CHECK_DEADLOCK FALSE
