--------------------------- MODULE ConfigRegister ---------------------------
(***************************************************************************)
(* What the writers of haproxy.cfg promise together: the file is a         *)
(* register that is written by one of them at a time, in the order of      *)
(* their turns, with configurations that were not rejected; whoever loads  *)
(* it finds one of them whole.  One who has had a turn may put what it     *)
(* published back once, with no regard to the turns since.  Nothing else   *)
(* gets into the file, or to an instance.                                  *)
(***************************************************************************)
EXTENDS Integers

CONSTANTS Threads, Instances,
          Primary,    \* the instance that loads the file by itself
          None,       \* nobody; nothing
          Partial,    \* the file while its contents are replaced
          Contents,   \* what configurations are made from
          Invalid,    \* contents that are rejected
          Unchecked   \* TRUE iff a rejection may be missed

VARIABLES file,    \* what is in the register
          writer,  \* whose turn it is
          turn,    \* turns so far
          due,     \* due[th]: what th has published and is not yet done with
          live     \* live[i]: what instance i runs

vars == <<file, writer, turn, due, live>>

Init ==
    /\ file = None /\ writer = None /\ turn = 0
    /\ due = [th \in Threads |-> None]
    /\ live = [i \in Instances |-> [ver |-> 0, seq |-> 0]]

\* Turns do not overlap.
Begin(th) ==
    /\ writer = None
    /\ writer' = th
    /\ turn' = turn + 1
    /\ UNCHANGED <<file, due, live>>

\* The old configuration goes; a loader sees that it is gone.
Clear(th) ==
    /\ writer = th /\ due[th] = None
    /\ file' = Partial
    /\ UNCHANGED <<writer, turn, due, live>>

\* The new one is there, whole and with the number of the turn; or it is not, if
\* another one has been put back meanwhile.
Publish(th) ==
    /\ writer = th /\ due[th] = None
    /\ \E ver \in IF Unchecked THEN Contents ELSE Contents \ Invalid :
         due' = [due EXCEPT ![th] = [ver |-> ver, seq |-> turn]]
    /\ \/ file' = due'[th]
       \/ file # Partial /\ UNCHANGED file
    /\ UNCHANGED <<writer, turn, live>>

\* What th published goes to some of the instances, to Primary by the file.
Give(th) ==
    \E reached \in SUBSET Instances :
        /\ file' = IF Primary \in reached THEN due[th] ELSE file
        /\ live' = [i \in Instances |-> IF i \in reached \ {Primary} THEN due[th]
                                        ELSE live[i]]

Push(th) ==
    /\ writer = th /\ due[th] # None
    /\ Give(th)
    /\ UNCHANGED <<writer, turn, due>>

Finish(th) ==
    /\ writer = th /\ due[th] # None
    /\ writer' = None
    /\ UNCHANGED <<file, turn, due, live>>

\* At any time Primary loads what is in the file by then.
Load ==
    /\ file \notin {None, Partial} /\ file.ver \notin Invalid
    /\ live' = [live EXCEPT ![Primary] = file]
    /\ UNCHANGED <<file, writer, turn, due>>

\* After the turn: Primary is made to load the file, or fails to.
LastLoad(th) ==
    /\ writer # th /\ due[th] # None
    /\ \/ /\ file \notin {None, Partial} /\ file.ver \notin Invalid
          /\ live' = [live EXCEPT ![Primary] = file]
       \/ UNCHANGED live
    /\ due' = [due EXCEPT ![th] = None]
    /\ UNCHANGED <<file, writer, turn>>

\* After the turn, what was published in it may be given once more.
Repeat(th) ==
    /\ writer # th /\ due[th] # None
    /\ Give(th)
    /\ due' = [due EXCEPT ![th] = None]
    /\ UNCHANGED <<writer, turn>>

\* A writer fails or dies, at any time; what it has put into the file stays.
GiveUp(th) ==
    /\ writer = th \/ due[th] # None
    /\ writer' = IF writer = th THEN None ELSE writer
    /\ due' = [due EXCEPT ![th] = None]
    /\ UNCHANGED <<file, turn, live>>

Next ==
    \/ Load
    \/ \E th \in Threads :
        \/ Begin(th) \/ Clear(th) \/ Publish(th) \/ Push(th) \/ Finish(th)
        \/ LastLoad(th) \/ Repeat(th) \/ GiveUp(th)

Spec == Init /\ [][Next]_vars

=============================================================================
