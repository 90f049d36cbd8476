SPECIFICATION RecoverySpec
CONSTANTS
  Procs = {p1}
  MaxRuns = 1
  PlanLength = 1
  MaxStops = 1
  Nobody = nobody
  Abandoned = abandoned
PROPERTY NextInvocationFinishes
CHECK_DEADLOCK FALSE
