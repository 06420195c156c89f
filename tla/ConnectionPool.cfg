SPECIFICATION FairSpec
CONSTANTS
  b1 = b1 b2 = b2 c1 = c1 c2 = c2 None = None
  Borrowers <- TwoBorrowers Pools <- OneOrTwoConns ClosersOf <- TwoOrOneCloser
  MaxFaults = 1 MaxLate = 1
INVARIANTS TypeOK LeasesAccounted ClosedUnreserved
PROPERTY EveryoneReturns
CHECK_DEADLOCK FALSE
