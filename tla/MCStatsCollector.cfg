SPECIFICATION HandlersSpec
CONSTANTS
    w1 = w1
    w2 = w2
    Workers <- MCWorkers
    FlowCounts <- MCFlowCounts
    ChanCap = 2
    MaxHistory = 2
    MaxFlows = 3
INVARIANTS
    RepliesAddUp
    HistoryMonotone
    StopDrains
PROPERTIES
    PollsNeverGoBack
CHECK_DEADLOCK FALSE
