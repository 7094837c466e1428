CONSTANTS
    a1 = a1
    a2 = a2
    Agents <- TwoAgents
    MaxFinishedAgents = 1
    MaxReports = 0
    Endings <- TwoEndings
    MaxLosses = 0
    HistoryLimit = 200
    MaxRestarts = 0
SPECIFICATION Spec
INVARIANTS
    EvictedStaysQueryable
