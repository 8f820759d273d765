CONSTANTS
    Pipelines = {"watch", "replay"}
    Tails = {"t1", "t2", "replay"}
    PipelineOf <- MCPipelineOf
    Sources = {"a", "b"}
    Harvests = {"c1", "c2"}
    SubmitAtOnce = {"replay"}
    Empty = Empty
    Torn = Torn
    Ids = {1, 2, 3, 4, 5}
    Signatures = {"s1"}
    AgentCommands = {"c1", "c2"}
    NoValue = NoValue
    Repeats = 2
    ErrorWindow = 2
    Errors = 3
    ThrashingWindow = 4
    Cooldown = 2
    Kept = 4
    MaxEvents = 6
    MaxTime = 7
SPECIFICATION MCSpec
INVARIANTS
    MapCurrent
    HarvestKept
    SettledOnce
    StuckIsSignalled
    RowShowsOneIssue
CHECK_DEADLOCK FALSE
