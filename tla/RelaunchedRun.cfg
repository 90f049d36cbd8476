CONSTANTS
    TargetsPerFullUpdate = 2
    FullUpdates = 7
    FinalUpdateTargets = 1
    EventInterval = 3
    RetentionAnchors = {3}
    Procs = {p1}
    RenameReplacesEmpty = FALSE
    Budgets = {1, 6, 13}
    ResumeNewest = TRUE
    MaxFaults = 3
SPECIFICATION FairRunSpec
INVARIANTS ReportedIsDurable SuccessfulPruneIsExact
PROPERTIES EventuallyDurable
\* A finished run is not launched again.
CHECK_DEADLOCK FALSE
