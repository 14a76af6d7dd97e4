------------------------ MODULE LeaderElectionProofs ------------------------
(***************************************************************************)
(* Proofs about LeaderElection: as long as workers only crash and restart, *)
(* and Valkey answers, at most one worker leads, for every lease length    *)
(* and every renewal period shorter than it.                               *)
(***************************************************************************)
EXTENDS LeaderElection, TLAPS

\* The two renewal delays fit into the renewer's timer.
LEMMA TimerBounds ==
    /\ MaxTimer \in Nat
    /\ FirstRenew \in 0 .. MaxTimer
    /\ RenewEvery \in 0 .. MaxTimer
BY TTLAssumption DEF MaxTimer

\* Every variable of the election keeps its type, whatever faults happen.
THEOREM TypeCorrect == Spec => []TypeOK
<1> USE TTLAssumption, WorkersAssumption, TimerBounds
<1>1. Init => TypeOK
  BY DEF Init, TypeOK
<1>2. TypeOK /\ [Next]_vars => TypeOK'
  <2> SUFFICES ASSUME TypeOK, [Next]_vars
               PROVE  TypeOK'
    OBVIOUS
  <2> USE DEF TypeOK
  <2>1. ASSUME NEW w \in Workers, NEW ok \in BOOLEAN, PgTry(w, ok)
        PROVE  pgLock' \in Workers \cup {None} /\ pgConn' \in [Workers -> BOOLEAN]
    BY <2>1 DEF PgTry
  <2> DEFINE KeyOK == /\ owner \in Workers \cup {None, Dead}
                      /\ ttl \in 0 .. LockTTL
                      /\ (owner = None) <=> (ttl = 0)
  <2>2. ASSUME NEW w \in Workers, NEW ok \in BOOLEAN,
               SetNX(w, ok) \/ CompareAndExpire(w, ok)
               \/ UNCHANGED <<owner, ttl>>
        PROVE  KeyOK'
    BY <2>2 DEF SetNX, CompareAndExpire
  <2> HIDE DEF KeyOK
  <2>3. ASSUME NEW w \in Workers, Start(w)
        PROVE  TypeOK'
    <3>1. PICK ok \in BOOLEAN :
            /\ AcquireLeaderLock(w, ok)
            /\ leader' = [leader EXCEPT ![w] = ok]
            /\ renewing' = [renewing EXCEPT ![w] = ok]
            /\ timer' = [timer EXCEPT ![w] = IF ok THEN FirstRenew ELSE 0]
      BY <2>3 DEF Start
    <3>2. KeyOK'
      BY <3>1, <2>2 DEF AcquireLeaderLock
    <3>3. pgLock' \in Workers \cup {None} /\ pgConn' \in [Workers -> BOOLEAN]
      BY <3>1, <2>1 DEF AcquireLeaderLock
    <3>4. up' \in [Workers -> BOOLEAN] /\ reach' \subseteq Workers
      BY <2>3 DEF Start
    <3>5. /\ leader' \in [Workers -> BOOLEAN]
          /\ renewing' \in [Workers -> BOOLEAN]
      BY <3>1
    <3>6. timer' \in [Workers -> 0 .. MaxTimer]
      BY <3>1
    <3>7. QED BY <3>2, <3>3, <3>4, <3>5, <3>6 DEF KeyOK
  <2>4. ASSUME NEW w \in Workers, Renew(w)
        PROVE  TypeOK'
    <3>1. PICK ok \in BOOLEAN :
            /\ RenewLeaderLock(w, ok)
            /\ renewing' = [renewing EXCEPT ![w] = ok]
            /\ timer' = [timer EXCEPT ![w] = IF ok THEN RenewEvery ELSE 0]
      BY <2>4 DEF Renew
    <3>2. KeyOK'
      BY <3>1, <2>2 DEF RenewLeaderLock
    <3>3. pgLock' \in Workers \cup {None} /\ pgConn' \in [Workers -> BOOLEAN]
      BY <3>1, <2>1 DEF RenewLeaderLock
    <3>4. /\ up' \in [Workers -> BOOLEAN] /\ reach' \subseteq Workers
          /\ leader' \in [Workers -> BOOLEAN]
      BY <2>4 DEF Renew
    <3>5. renewing' \in [Workers -> BOOLEAN]
      BY <3>1
    <3>6. timer' \in [Workers -> 0 .. MaxTimer]
      BY <3>1
    <3>7. QED BY <3>2, <3>3, <3>4, <3>5, <3>6 DEF KeyOK
  <2>5. ASSUME NEW w \in Workers, Shutdown(w)
        PROVE  TypeOK'
    BY <2>5 DEF Shutdown, Stopped, ReleasePg
  <2>6. ASSUME NEW w \in Workers, Crash(w)
        PROVE  TypeOK'
    BY <2>6 DEF Crash, Stopped, ReleasePg
  <2>7. ASSUME NEW w \in Workers,
               LoseValkey(w) \/ RegainValkey(w) \/ PgConnectionDies(w)
        PROVE  TypeOK'
    BY <2>7 DEF LoseValkey, RegainValkey, PgConnectionDies
  <2>8. CASE LoseKey
    BY <2>8 DEF LoseKey
  <2>9. CASE Tick
    <3>1. KeyOK'
      BY <2>9 DEF Tick, KeyOK
    <3>2. timer' \in [Workers -> 0 .. MaxTimer]
      BY <2>9 DEF Tick
    <3>3. QED BY <2>9, <3>1, <3>2 DEF Tick, KeyOK
  <2>10. CASE UNCHANGED vars
    BY <2>10 DEF vars
  <2>11. QED
    BY <2>3, <2>4, <2>5, <2>6, <2>7, <2>8, <2>9, <2>10 DEF Next
<1>3. QED
  BY <1>1, <1>2, PTL DEF Spec

-----------------------------------------------------------------------------

\* Without outages a leader always owns the key and renews it in time.
THEOREM LeaderOwnsKeyCorrect ==
    ASSUME Faults \subseteq {"crash"}
    PROVE  Spec => []IInv
<1> USE TTLAssumption, TimingAssumption, WorkersAssumption, TimerBounds
<1>1. Init => IInv
  BY DEF Init, IInv, TypeOK, LeaderOwnsKey
<1>2. IInv /\ TypeOK' /\ [Next]_vars => IInv'
  <2> SUFFICES ASSUME IInv, TypeOK', [Next]_vars
               PROVE  IInv'
    OBVIOUS
  <2> USE DEF IInv, TypeOK, LeaderOwnsKey
  <2>1. ASSUME NEW w \in Workers, Start(w)
        PROVE  IInv'
    BY <2>1 DEF Start, AcquireLeaderLock, SetNX
  <2>2. ASSUME NEW w \in Workers, Renew(w)
        PROVE  IInv'
    BY <2>2 DEF Renew, RenewLeaderLock, CompareAndExpire
  <2>3. ASSUME NEW w \in Workers, Shutdown(w)
        PROVE  IInv'
    BY <2>3 DEF Shutdown, Stopped, ReleasePg
  <2>4. ASSUME NEW w \in Workers, Crash(w)
        PROVE  IInv'
    BY <2>4 DEF Crash, Stopped, ReleasePg
  <2>5. ASSUME NEW w \in Workers,
               LoseValkey(w) \/ RegainValkey(w) \/ PgConnectionDies(w)
        PROVE  IInv'
    BY <2>5 DEF LoseValkey, RegainValkey, PgConnectionDies
  <2>6. CASE LoseKey
    BY <2>6 DEF LoseKey
  <2>7. CASE Tick
    BY <2>7 DEF Tick
  <2>8. CASE UNCHANGED vars
    BY <2>8 DEF vars
  <2>9. QED
    BY <2>1, <2>2, <2>3, <2>4, <2>5, <2>6, <2>7, <2>8 DEF Next
<1>3. QED
  BY <1>1, <1>2, TypeCorrect, PTL DEF Spec

\* Without outages at most one worker runs migrations and background services,
\* however workers crash, restart and shut down.
THEOREM SingleLeaderCorrect ==
    ASSUME Faults \subseteq {"crash"}
    PROVE  Spec => []SingleLeader
<1>1. IInv => SingleLeader
  BY DEF IInv, LeaderOwnsKey, SingleLeader
<1>2. QED
  BY <1>1, LeaderOwnsKeyCorrect, PTL

-----------------------------------------------------------------------------
(* The election implements the abstract lock.                              *)

\* The other direction of LeaderOwnsKey: a worker that is named by the key leads.
OwnerLeads == owner \in Workers => leader[owner]

LEMMA OwnerLeadsKept ==
    ASSUME Faults \subseteq {"crash"}, IInv, OwnerLeads, [Next]_vars
    PROVE  OwnerLeads'
<1> USE TTLAssumption, WorkersAssumption DEF IInv, TypeOK, LeaderOwnsKey, OwnerLeads
<1>1. ASSUME NEW w \in Workers, Start(w) PROVE OwnerLeads'
    BY <1>1 DEF Start, AcquireLeaderLock, SetNX
<1>2. ASSUME NEW w \in Workers, Renew(w) PROVE OwnerLeads'
    BY <1>2 DEF Renew, RenewLeaderLock, CompareAndExpire
<1>3. ASSUME NEW w \in Workers, Shutdown(w) PROVE OwnerLeads'
    BY <1>3 DEF Shutdown, Stopped
<1>4. ASSUME NEW w \in Workers, Crash(w) PROVE OwnerLeads'
    BY <1>4 DEF Crash, Stopped
<1>5. ASSUME NEW w \in Workers,
             LoseValkey(w) \/ RegainValkey(w) \/ PgConnectionDies(w)
      PROVE  OwnerLeads'
    BY <1>5 DEF LoseValkey, RegainValkey, PgConnectionDies
<1>6. CASE LoseKey
    BY <1>6 DEF LoseKey
<1>7. CASE Tick
    BY <1>7 DEF Tick
<1>8. CASE UNCHANGED vars
    BY <1>8 DEF vars
<1> QED
    BY <1>1, <1>2, <1>3, <1>4, <1>5, <1>6, <1>7, <1>8 DEF Next

Leaders == {w \in Workers : leader[w]}

\* A start is a worker's attempt at the lock: it wins it while it is free, or
\* leaves lock and leader alone.
LEMMA StartImplements ==
    ASSUME IInv, OwnerLeads, NEW w \in Workers, Start(w)
    PROVE  Lock!Acquire(w) \/ UNCHANGED <<owner, Leaders>>
<1>1. PICK ok \in BOOLEAN : /\ SetNX(w, ok) /\ ~up[w]
                            /\ leader' = [leader EXCEPT ![w] = ok]
    BY DEF Start, AcquireLeaderLock, IInv
<1>2. leader \in [Workers -> BOOLEAN] /\ ~leader[w] /\ w \notin {None, Dead}
    BY <1>1, WorkersAssumption DEF IInv, TypeOK, LeaderOwnsKey
<1>3. CASE owner = None
  <2>1. ok /\ owner' = w
      BY <1>1, <1>3 DEF SetNX
  <2>2. Leaders' = Leaders \cup {w}
      BY <1>1, <1>2, <2>1 DEF Leaders
  <2> QED  BY <1>3, <2>1, <2>2 DEF Lock!Acquire, Leaders
<1>4. CASE owner # None
  <2>1. ~ok /\ owner' = owner
      BY <1>1, <1>4 DEF SetNX
  <2>2. Leaders' = Leaders
      BY <1>1, <1>2, <2>1 DEF Leaders
  <2> QED  BY <2>1, <2>2
<1> QED  BY <1>3, <1>4

\* A worker that stops or dies ends its own leadership at most.
LEMMA StopImplements ==
    ASSUME IInv, OwnerLeads, NEW w \in Workers, Shutdown(w) \/ Crash(w)
    PROVE  Lock!Release(w) \/ Lock!Die(w) \/ UNCHANGED <<owner, Leaders>>
<1>1. leader' = [leader EXCEPT ![w] = FALSE] /\ w \in reach
    BY DEF Shutdown, Crash, Stopped, IInv
<1>2. leader \in [Workers -> BOOLEAN] /\ (leader[w] <=> owner = w)
    BY DEF IInv, TypeOK, LeaderOwnsKey, OwnerLeads
<1>3. Leaders' = Leaders \ {w}
    BY <1>1, <1>2 DEF Leaders
<1>4. CASE owner = w
  <2>1. owner' = None \/ owner' = Dead
      BY <1>1, <1>4 DEF Shutdown, Crash
  <2> QED  BY <1>3, <1>4, <2>1 DEF Lock!Release, Lock!Die, Leaders
<1>5. CASE owner # w
  <2>1. owner' = owner
      BY <1>5 DEF Shutdown, Crash
  <2>2. Leaders' = Leaders
      BY <1>2, <1>3, <1>5 DEF Leaders
  <2> QED  BY <2>1, <2>2
<1> QED  BY <1>4, <1>5

\* The clock takes the lock from nobody but the dead.
LEMMA TickImplements ==
    ASSUME IInv, OwnerLeads, Tick
    PROVE  Lock!Lapse \/ UNCHANGED <<owner, Leaders>>
<1>1. Leaders' = Leaders
    BY DEF Tick, Leaders
<1>2. ttl \in Nat /\ timer \in [Workers -> 0 .. MaxTimer] /\ MaxTimer \in Nat
    BY TTLAssumption, TimerBounds DEF IInv, TypeOK
<1>3. ASSUME owner \in Workers PROVE owner' = owner
  <2>1. leader[owner] /\ renewing[owner] /\ timer[owner] < ttl
      BY <1>3 DEF OwnerLeads, IInv, LeaderOwnsKey
  <2>2. timer[owner] > 0
      BY <1>3, <2>1 DEF Tick
  <2>3. ttl > 1
      BY <1>2, <1>3, <2>1, <2>2
  <2> QED  BY <2>3 DEF Tick
<1>4. owner' = owner \/ owner' = None
    BY DEF Tick
<1>5. owner \in Workers \cup {None, Dead}
    BY DEF IInv, TypeOK
<1> QED
    BY <1>1, <1>3, <1>4, <1>5 DEF Lock!Lapse, Leaders

\* While Valkey answers, the election of valkey_client.py is a lock that the
\* workers win when it is free and keep until they stop, for every number of
\* workers, every time to live and every renewal period shorter than it: the
\* lifespans, the renewers and the clock only do what the abstract lock allows.
THEOREM LockRefinement ==
    ASSUME Faults \subseteq {"crash"}
    PROVE  Spec => ImplementsLock
<1>1. Init => Lock!Init
    BY DEF Init, Lock!Init
<1>2. IInv /\ OwnerLeads /\ [Next]_vars => [Lock!Next]_(Lock!vars)
  <2> SUFFICES ASSUME IInv, OwnerLeads, [Next]_vars
               PROVE  Lock!Next \/ UNCHANGED <<owner, Leaders>>
      BY DEF Lock!vars, Leaders
  <2>1. ASSUME NEW w \in Workers, Start(w)
        PROVE  Lock!Next \/ UNCHANGED <<owner, Leaders>>
      BY <2>1, StartImplements DEF Lock!Next
  <2>2. ASSUME NEW w \in Workers, Shutdown(w) \/ Crash(w)
        PROVE  Lock!Next \/ UNCHANGED <<owner, Leaders>>
      BY <2>2, StopImplements DEF Lock!Next
  <2>3. ASSUME NEW w \in Workers, Renew(w) PROVE UNCHANGED <<owner, Leaders>>
      BY <2>3 DEF Renew, RenewLeaderLock, CompareAndExpire, IInv, Leaders
  <2>4. ASSUME NEW w \in Workers,
               LoseValkey(w) \/ RegainValkey(w) \/ PgConnectionDies(w)
        PROVE  UNCHANGED <<owner, Leaders>>
      BY <2>4 DEF LoseValkey, RegainValkey, PgConnectionDies, Leaders
  <2>5. ~LoseKey
      BY DEF LoseKey
  <2>6. CASE Tick
      BY <2>6, TickImplements DEF Lock!Next
  <2>7. CASE UNCHANGED vars
      BY <2>7 DEF vars, Leaders
  <2> QED  BY <2>1, <2>2, <2>3, <2>4, <2>5, <2>6, <2>7 DEF Next
<1>3. Spec => []OwnerLeads
  <2>1. Init => OwnerLeads
      BY WorkersAssumption DEF Init, OwnerLeads
  <2>2. IInv /\ OwnerLeads /\ [Next]_vars => OwnerLeads'
      BY OwnerLeadsKept
  <2> QED  BY <2>1, <2>2, LeaderOwnsKeyCorrect, PTL DEF Spec
<1> QED
    BY <1>1, <1>2, <1>3, LeaderOwnsKeyCorrect, PTL DEF Spec, ImplementsLock, Lock!Spec

=============================================================================
