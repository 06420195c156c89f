CONSTANTS
  b1 = b1 b2 = b2 None = None
  Targets <- TwoTargets Batches <- TwoBatches TargetOf <- OneEach
  MaxInFlight = 1 PerTarget = 1 MaxAttempts = 2 MaxStarts = 1
SPECIFICATION FairSpec
PROPERTIES BatchesSettle StopEndsThreads
CHECK_DEADLOCK FALSE
