CONSTANTS
    s1 = s1
    r1 = r1
    r2 = r2
    e1 = e1
    Sessions <- OneSession
    Prompts <- TwoPrompts
    AgentEvents <- OneEvent
    Defaults <- OffOrOneDay
    Overrides <- SomeOverrides
    MaxDay = 3
SPECIFICATION RetentionSpec
INVARIANTS
    NextRunFinishesTheJob
    
PROPERTIES
    OnlyExpiredRowsLeave
