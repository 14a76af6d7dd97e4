---------------------------- MODULE MCDiskCache ----------------------------
EXTENDS DiskCache, TLC
\* k1 and k2 share their first probe, k3 starts where their chain goes on.
CONSTANTS k1, k2, k3
HomeOf == (k1 :> 1) @@ (k2 :> 1) @@ (k3 :> 0)
=============================================================================
