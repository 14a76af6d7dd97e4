--------------------------- MODULE ResponseCache ---------------------------
(***************************************************************************)
(* What the response cache of HAProxy promises, whatever keeps it: a       *)
(* lookup finds either nothing or the last response that was committed     *)
(* under the key, an entry may disappear at any moment, and an entry that  *)
(* disappeared only comes back through a new response.                     *)
(***************************************************************************)
EXTENDS Naturals

CONSTANTS Keys,    \* the cache keys
          None     \* no response

VARIABLES content, \* content[k]: number of the response a lookup of k finds
          writing, \* the response on its way into the cache
          newest   \* number of the last response that started to be stored

vars == <<content, writing, newest>>

Init ==
    /\ content = [k \in Keys |-> None]
    /\ writing = None
    /\ newest = 0

\* A response is about to be stored under k; one at a time.
Begin(k) ==
    /\ writing = None
    /\ newest' = newest + 1
    /\ writing' = [key |-> k, ver |-> newest']
    /\ UNCHANGED content

\* It becomes visible.
Commit ==
    /\ writing # None
    /\ content' = [content EXCEPT ![writing.key] = writing.ver]
    /\ writing' = None
    /\ UNCHANGED newest

\* It is given up.
Abandon ==
    /\ writing # None
    /\ writing' = None
    /\ UNCHANGED <<content, newest>>

\* Some entries are evicted, expire or are reset.
Drop ==
    \E gone \in SUBSET Keys :
        /\ content' = [k \in Keys |-> IF k \in gone THEN None ELSE content[k]]
        /\ UNCHANGED <<writing, newest>>

\* The process ends: nothing is being written any more, entries may be gone.
Restart ==
    \E gone \in SUBSET Keys :
        /\ content' = [k \in Keys |-> IF k \in gone THEN None ELSE content[k]]
        /\ writing' = None
        /\ UNCHANGED newest

Next == (\E k \in Keys : Begin(k)) \/ Commit \/ Abandon \/ Drop \/ Restart

Spec == Init /\ [][Next]_vars

=============================================================================
