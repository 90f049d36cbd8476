CONSTANTS
    TargetsPerFullUpdate = 1
    FullUpdates = 5
    FinalUpdateTargets = 1
    EventInterval = 1
    RetentionAnchors = {2}
    Procs = {p1}
    RenameReplacesEmpty = FALSE
    Budgets = {}
    ResumeNewest = TRUE
    MaxFaults = 1
SPECIFICATION RunSpec
INVARIANTS StorageBounded
CHECK_DEADLOCK FALSE
