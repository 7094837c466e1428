CONSTANTS
    a1 = a1
    a2 = a2
    Agents <- TwoAgents
    MaxFinishedAgents = 1
    MaxReports = 0
    Bodies <- NoBodies
    MaxQueue = 2
    MaxWire = 1
    MaxSeq = 0
    WsEnabled = TRUE
    MaxPrompts = 1
SPECIFICATION FairSpec
INVARIANTS
    
    NoSilentGap
    StreamContinues

    
    
