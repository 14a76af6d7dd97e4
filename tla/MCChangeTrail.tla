---------------------------- MODULE MCChangeTrail ----------------------------
\* Small instances of ChangeTrail: the requests of a client, served by the
\* process that runs the workers.
EXTENDS ChangeTrail

CONSTANT u1
=============================================================================
