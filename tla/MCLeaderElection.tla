-------------------------- MODULE MCLeaderElection --------------------------
(* LeaderElection for TLC; one tick stands for five seconds. *)
EXTENDS LeaderElection

=============================================================================
