---------------------------- MODULE MCSyncOutbox ----------------------------
(* Model values for the runs of SyncOutbox. *)
EXTENDS SyncOutbox, TLC

CONSTANTS r1, r2, s1, s2, l1, l2

OneRemote == {r1}
TwoRemotes == {r1, r2}
OneSession == {s1}
TwoSessions == {s1, s2}
OneLease == {l1}
TwoLeases == {l1, l2}

\* The sessions of a remote are interchangeable.
SessionSymmetry == Permutations(TwoSessions)
=============================================================================
