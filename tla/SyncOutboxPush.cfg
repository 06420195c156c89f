CONSTANTS
  r1 = r1 r2 = r2 s1 = s1 s2 = s2 l1 = l1 l2 = l2
  Local = Local None = None
  Remotes <- OneRemote Origins <- OneRemote Pullers <- OneRemote Sessions <- OneSession
  Leases <- TwoLeases MaxSeq = 2 MaxAttempts = 2 MaxPending = 2 ClaimSize = 2 PageSize = 1
  MaxSnapshotPages = 0 MaxSnapshotsPerRemote = 0
SPECIFICATION FairSpec
INVARIANT TypeOK
PROPERTIES DeliveredIsFinal LeaseIsRespected LocalEventsSettle
CHECK_DEADLOCK FALSE
