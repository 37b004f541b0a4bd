------------------------- MODULE MCProcessExecution -------------------------
(* Instances of ProcessExecution for TLC. *)
EXTENDS ProcessExecution, TLC

CONSTANTS j1, j2

TwoJobs == <<j1, j2>>

\* j1 writes, j2 is silent.
OneWrites == (j1 :> 2) @@ (j2 :> 0)

=============================================================================
