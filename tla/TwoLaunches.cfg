CONSTANTS
    TargetsPerFullUpdate = 1
    FullUpdates = 4
    FinalUpdateTargets = 1
    EventInterval = 1
    RetentionAnchors = {1}
    Procs = {p1, p2}
    RenameReplacesEmpty = TRUE
    Budgets = {2}
    ResumeNewest = FALSE
    MaxFaults = 1
SYMMETRY Symmetry
SPECIFICATION RunSpec
INVARIANTS RetainedKept CompletedOnce
PROPERTIES ResumePointMonotone
\* A finished run is not launched again.
CHECK_DEADLOCK FALSE
