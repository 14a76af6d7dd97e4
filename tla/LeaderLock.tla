---------------------------- MODULE LeaderLock ----------------------------
(***************************************************************************)
(* What the leader lock promises to the workers, whatever keeps it: the    *)
(* one that gets it while it is free runs the background services until it *)
(* stops, nobody takes it from a running worker, and the lock of a worker  *)
(* that died is not given to another one before it has lapsed.             *)
(***************************************************************************)

CONSTANTS Workers,
          None,    \* the lock is free
          Dead     \* it is held for a worker that died

VARIABLES holder,  \* whom the lock belongs to
          serving  \* the workers that run the background services

vars == <<holder, serving>>

Init == holder = None /\ serving = {}

\* A worker that starts gets the lock if it is free.
Acquire(w) ==
    /\ holder = None
    /\ holder' = w
    /\ serving' = serving \cup {w}

\* Its holder stops and gives it back.
Release(w) ==
    /\ holder = w
    /\ holder' = None
    /\ serving' = serving \ {w}

\* Its holder dies.
Die(w) ==
    /\ holder = w
    /\ holder' = Dead
    /\ serving' = serving \ {w}

\* The lock of the dead becomes free.
Lapse ==
    /\ holder = Dead
    /\ holder' = None
    /\ UNCHANGED serving

Next == (\E w \in Workers : Acquire(w) \/ Release(w) \/ Die(w)) \/ Lapse

Spec == Init /\ [][Next]_vars

=============================================================================
