CONSTANTS
    TargetsPerFullUpdate = 3
    FullUpdates = 2
    FinalUpdateTargets = 2
    EventInterval = 4
    RetentionAnchors = {4, 8}
    Faults = {"accumulate", "contribution", "layout", "overflow", "optimizer", "evaluation", "diagnostic"}
    StopsAfter = {"contribution", "layout", "diagnostic"}
    MaxDraws = 2
SPECIFICATION Spec
INVARIANTS SnapshotsExact WeightsMatchCursor
PROPERTIES ImplementsCanonicalRun UpdateKeepsSchedule
