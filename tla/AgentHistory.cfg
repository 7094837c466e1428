CONSTANTS
    a1 = a1
    a2 = a2
    Agents <- TwoAgents
    MaxFinishedAgents = 1
    MaxReports = 0
    Endings <- TwoEndings
    MaxLosses = 1
    HistoryLimit = 2
    MaxRestarts = 1
SPECIFICATION FairSpec
INVARIANTS
    RebuiltAgrees
    HistoryOutlivesProcess
PROPERTIES
    EndIsKept
