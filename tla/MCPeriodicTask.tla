--------------------------- MODULE MCPeriodicTask ---------------------------
(* PeriodicTask for TLC. *)
EXTENDS PeriodicTask

=============================================================================
