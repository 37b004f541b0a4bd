--------------------------- MODULE MCBlockingPool ---------------------------
(* Instances of BlockingPool for TLC. *)
EXTENDS BlockingPool

=============================================================================
