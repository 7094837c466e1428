CONSTANTS
    mine = mine
    theirs = theirs
    Requests <- OwnRequests
    Sessions <- OwnSession
    SessionOf <- OwnOnly
    session = mine
    SessionList <- OwnSessions
    Steps <- FirstAndLast
    MaxPrompts = 2
    MaxFinishedRuns = 1
    Bodies <- NoBodies
    MaxQueue = 3
    MaxWire = 1
    MaxSeq = 0
    WsEnabled = TRUE
SPECIFICATION ChatFairSpec
INVARIANTS
    ClaimsAreHonest
    

    
