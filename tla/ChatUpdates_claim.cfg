CONSTANTS
    mine = mine
    theirs = theirs
    Requests <- OwnAndOther
    Sessions <- BothSessions
    SessionOf <- ThirdIsTheirs
    session = mine
    SessionList <- BothInOrder
    Steps <- FirstAndLast
    MaxPrompts = 2
    MaxFinishedRuns = 1
    Bodies <- NoBodies
    MaxQueue = 3
    MaxWire = 1
    MaxSeq = 0
    WsEnabled = TRUE
SPECIFICATION ChatSpec
INVARIANT ClaimsOwnRun
CHECK_DEADLOCK FALSE
