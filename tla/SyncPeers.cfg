CONSTANTS
  f = f x = x None = None
  Nodes <- ThreeNodes PushLinks <- HubPushes PullLinks <- HubIsPulled
  FunctionIds <- OneFunction Edges <- OneEdge Source <- EdgeFromF
  MaxTime = 2 MaxEvents <- TwoOfTheHub BatchSize = 2 PageSize = 1
SPECIFICATION Spec
INVARIANTS TypeOK Converged NoGap  AppliedOnce
CHECK_DEADLOCK FALSE
