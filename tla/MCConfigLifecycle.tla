-------------------------- MODULE MCConfigLifecycle --------------------------
(* ConfigLifecycle for TLC. *)
EXTENDS ConfigLifecycle

=============================================================================
