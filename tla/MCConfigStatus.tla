--------------------------- MODULE MCConfigStatus ---------------------------
(* ConfigStatus for TLC. *)
EXTENDS ConfigStatus

=============================================================================
