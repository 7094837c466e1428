CONSTANTS
    f1 = f1
    b1 = b1
    b2 = b2
    Calls <- OneAndTwo
    Background <- BothBackground
    GenerationTimeout = TRUE
SPECIFICATION FairSpec
INVARIANTS
    TypeOK
    OneInference
    GateOwned
    QueueMatchesWaiters
    BehindAtMostOne
    CrashReported
    DepthIsHonest
PROPERTIES
    ImplementsModelTurn
    EveryWaiterLeaves
