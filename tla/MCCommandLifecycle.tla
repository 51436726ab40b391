------------------------- MODULE MCCommandLifecycle -------------------------
(* Instances of CommandLifecycle for TLC. *)
EXTENDS CommandLifecycle

=============================================================================
