SPECIFICATION RecoverySpec
CONSTANTS
  Procs = {p1, p2}
  MaxRuns = 3
  PlanLength = 1
  MaxStops = 3
  Nobody = nobody
  Abandoned = abandoned
INVARIANTS LaggingPointerIsJournalled OneCommitSettles
PROPERTIES ImplementsAcceptanceLog InterruptedIsClosed
CHECK_DEADLOCK FALSE
