SPECIFICATION Spec
CONSTANTS
  p1 = p1
  p2 = p2
  i1 = i1
  i2 = i2
  None = None
  Procs <- TwoProcs
  Ids <- TwoIds
  MaxWrites = 3
  MaxBatches = 2
  MaxFaults = 1
  MaxDepth = 2
INVARIANTS
  CreationsSurvive
  
 
SYMMETRY Symmetry
CHECK_DEADLOCK FALSE
