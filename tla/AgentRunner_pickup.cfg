CONSTANTS
    a1 = a1
    a2 = a2
    w1 = w1
    w2 = w2
    NoAgent = NoAgent
    Agents <- TwoAgents
    Workers <- OneWorker
    WallClock = TRUE
    MaxFinishedAgents = 1
    MaxReports = 1
SPECIFICATION Spec
INVARIANTS
    PendingIsReachable
