CONSTANTS
    a1 = a1
    a2 = a2
    w1 = w1
    w2 = w2
    NoAgent = NoAgent
    Agents <- TwoAgents
    Workers <- TwoWorkers
    WallClock = TRUE
    MaxFinishedAgents = 1
    MaxReports = 1
SPECIFICATION FairSpec
INVARIANTS
    TypeOK
    
    WorkIsAccounted
    AcceptedCancelSticks
    WindowHoldsNewestSettled
PROPERTIES
    ImplementsLifecycle
    EveryAgentEnds
    ClosesQuietly
