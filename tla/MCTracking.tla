------------------------------ MODULE MCTracking -------------------------------
(* Four pids for five processes: one of them before the child, the child, a line *)
(* of two below it, and one that reuses a pid. The pids are interchangeable.     *)
EXTENDS Tracking, TLC

PidSymmetry == Permutations(Pids)
=============================================================================
