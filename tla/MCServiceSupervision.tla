------------------------ MODULE MCServiceSupervision ------------------------
(* Instances of ServiceSupervision for TLC. *)
EXTENDS ServiceSupervision

=============================================================================
