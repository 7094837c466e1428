SPECIFICATION FairSpec
CONSTANTS
    r1 = r1
    r2 = r2
    s1 = s1
    s2 = s2
    b1 = b1
    Requests <- TwoRequests
    Sessions <- TwoSessions
    BackgroundCalls <- OneAgent
    MaxFinishedRuns = 1
    MaxQueueDepth = 2
INVARIANTS
    AnswerRunAndAuditAgree
    TrailRespectsKeys
    PhaseTracksGraph
    IndexesAgree
PROPERTIES
    EndedRunIsFinal
    EveryGraphEnds
