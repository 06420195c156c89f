SPECIFICATION FairSpec
CONSTANTS
  r1 = r1
  s1 = s1
  s2 = s2
  Owner = Owner
  Background = Background
  None = None
  Requests <- OneRequest
  Stoppers <- TwoStoppers
  MaxFaults = 1
INVARIANT ReportsAreTrue
PROPERTY StopReturns
CHECK_DEADLOCK FALSE
