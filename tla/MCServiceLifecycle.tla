-------------------------- MODULE MCServiceLifecycle --------------------------
(* Model values for the run of ServiceLifecycle. *)
EXTENDS ServiceLifecycle

CONSTANTS r1, s1, s2

OneRequest == {r1}
TwoStoppers == {s1, s2}
=============================================================================
