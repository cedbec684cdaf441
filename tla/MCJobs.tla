------------------------------- MODULE MCJobs -------------------------------
(***************************************************************************)
(* Instances of Jobs for TLC.                                              *)
(***************************************************************************)
EXTENDS Jobs, TLC

CONSTANTS p1, p2, p3   \* pids (model values)

\* Pids differ only by name.
PidSymmetry == Permutations(Pids)

=============================================================================
