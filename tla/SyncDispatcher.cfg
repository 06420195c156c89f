CONSTANTS
  b1 = b1 b2 = b2 None = None
  Targets <- TwoTargets Batches <- TwoBatches TargetOf <- OneEach
  MaxInFlight = 2 PerTarget = 1 MaxAttempts = 2 MaxStarts = 2
SPECIFICATION Spec
INVARIANTS TypeOK  InFlightBounded NothingQueuedAfterStop DrainedIsTrue
CHECK_DEADLOCK FALSE
