--------------------------- MODULE MCSyncDispatcher ---------------------------
(* Model values for the runs of SyncDispatcher. *)
EXTENDS SyncDispatcher

CONSTANTS b1, b2

TwoTargets == 1 .. 2
TwoBatches == {b1, b2}
OneEach == [b \in TwoBatches |-> IF b = b2 THEN 2 ELSE 1]
=============================================================================
