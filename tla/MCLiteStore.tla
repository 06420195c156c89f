------------------------------ MODULE MCLiteStore ------------------------------
(* Model values for the runs of LiteStore. *)
EXTENDS LiteStore, TLC

CONSTANTS p1, p2, i1, i2

TwoProcs == {p1, p2}
TwoIds == {i1, i2}
Symmetry == Permutations(TwoProcs) \cup Permutations(TwoIds)
=============================================================================
