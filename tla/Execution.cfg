SPECIFICATION Spec
CONSTANTS
    Refused = Refused
    Scenarios <- MCScenarios
    Pids = {1, 2, 3, 4}
    CoreLimit = 1
    SystemLimit = 3
    AncestryLimit = 5
    Polls = 2
    ProcessEvents = 3
INVARIANTS
    QualifiedHostWasQuiet
    PassMeansExecuted
    RefusedOnlyFor
PROPERTIES
    EveryAttemptIsClosed
CHECK_DEADLOCK FALSE
