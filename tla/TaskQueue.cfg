CONSTANTS
  p1 = p1 p2 = p2 t1 = t1 None = None
  Procs <- TwoProcs Tasks <- OneTask WithCallback <- OneTask
  Capacity = 1 ClaimSize = 1 MaxAttempts = 2 MaxStarts = 2
  Callers <- TheOther Stopping <- OneProc MaxCrashes = 1 MaxFaults = 1
SPECIFICATION FairSpec
INVARIANTS TypeOK DrainedIsTrue
PROPERTIES OnlyHolderPublishes TasksSettle
CHECK_DEADLOCK FALSE
