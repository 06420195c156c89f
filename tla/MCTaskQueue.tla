----------------------------- MODULE MCTaskQueue ------------------------------
(* Model values for the runs of TaskQueue. *)
EXTENDS TaskQueue

CONSTANTS p1, p2, t1

TwoProcs == {p1, p2}
OneProc == {p1}
TheOther == {p2}
OneTask == {t1}
=============================================================================
