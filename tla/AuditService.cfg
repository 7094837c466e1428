CONSTANTS
    r1 = r1
    Requests <- OneRequest
    MaxQueueSize = 2
    BatchMax = 2
    MaxFaults = 3
    LostAck = TRUE
SPECIFICATION FairSpec
INVARIANTS
    OnlyFaultsLose
PROPERTIES
    ImplementsAuditTrail
    EveryEventDecided
