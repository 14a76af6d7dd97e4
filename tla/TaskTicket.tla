----------------------------- MODULE TaskTicket -----------------------------
(***************************************************************************)
(* What a request for background work gets: a ticket that is good for one  *)
(* beginning of the work.  A ticket may be lost or called off before it is *)
(* used, and many of them at once; it is then void for good, and nothing   *)
(* brings the work about after all.                                        *)
(***************************************************************************)
EXTENDS Integers

CONSTANT Tasks

VARIABLES ticket,  \* ticket[t]: "none" before the request, "open", "used", "void"
          begun    \* begun[t]: how often the work of t was begun

vars == <<ticket, begun>>

Init == ticket = [t \in Tasks |-> "none"] /\ begun = [t \in Tasks |-> 0]

Open(t) ==
    /\ ticket[t] = "none"
    /\ ticket' = [ticket EXCEPT ![t] = "open"]
    /\ UNCHANGED begun

Use(t) ==
    /\ ticket[t] = "open"
    /\ ticket' = [ticket EXCEPT ![t] = "used"]
    /\ begun' = [begun EXCEPT ![t] = @ + 1]

\* The tickets in lost are void from now on.
Void(lost) ==
    /\ \A t \in lost : ticket[t] = "open"
    /\ ticket' = [t \in Tasks |-> IF t \in lost THEN "void" ELSE ticket[t]]
    /\ UNCHANGED begun

Next == \/ \E t \in Tasks : Open(t) \/ Use(t)
        \/ \E lost \in SUBSET Tasks : Void(lost)

Spec == Init /\ [][Next]_vars

=============================================================================
