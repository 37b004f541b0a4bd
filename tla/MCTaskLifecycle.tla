-------------------------- MODULE MCTaskLifecycle --------------------------
(* Instances of TaskLifecycle for TLC. *)
EXTENDS TaskLifecycle, TLC

\* Tasks are interchangeable: no action orders them.
TaskSymmetry == Permutations(Tasks)

=============================================================================
