CONSTANTS
  r1 = r1 r2 = r2 s1 = s1 s2 = s2 l1 = l1 l2 = l2
  Local = Local None = None
  Remotes <- OneRemote Origins <- OneRemote Pullers <- OneRemote Sessions <- TwoSessions
  Leases <- OneLease MaxSeq = 2 MaxAttempts = 1 MaxPending = 1 ClaimSize = 1 PageSize = 1
  MaxSnapshotPages = 2 MaxSnapshotsPerRemote = 1
SYMMETRY SessionSymmetry
SPECIFICATION Spec
INVARIANTS StateValidates DeliveredIsReceived CursorIsReceived 
PROPERTY CompactionLosesNothing
CHECK_DEADLOCK FALSE
