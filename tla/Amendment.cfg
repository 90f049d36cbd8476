SPECIFICATION RecoverySpec
CONSTANTS
  Procs = {p1, p2}
  MaxRuns = 2
  MaxStops = 1
  MaxApprovals = 2
INVARIANTS CheckedBoxVerifies OneOpenPublication
PROPERTIES AttemptsAreClosedOnce SelectedHistoryGrows InterruptedIsFinished
CHECK_DEADLOCK FALSE
