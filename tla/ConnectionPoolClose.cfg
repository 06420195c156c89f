SPECIFICATION Spec
CONSTANTS
  b1 = b1 b2 = b2 c1 = c1 c2 = c2 None = None
  Borrowers <- TwoBorrowers Pools <- OnlyTwoConns ClosersOf <- TwoOrOneCloser
  MaxFaults = 0 MaxLate = 0
INVARIANT ClosedUnderNoLease
CHECK_DEADLOCK FALSE
