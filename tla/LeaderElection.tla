--------------------------- MODULE LeaderElection ---------------------------
(***************************************************************************)
(* Which uvicorn worker runs the migrations and the background services:   *)
(* the leader lock of backend/app/core/valkey_client.py as the lifespan of *)
(* backend/app/main.py uses it.  A worker tries to acquire once, at start; *)
(* the winner's renewer thread renews every RenewEvery ticks and gives up  *)
(* the first time a renewal fails, while its background services go on.    *)
(*                                                                         *)
(* Valkey's key corex:leader carries a time to live.  A worker that cannot *)
(* reach Valkey uses the PostgreSQL advisory lock instead.  PostgreSQL and *)
(* Valkey themselves are external and modelled from their use here.        *)
(***************************************************************************)
EXTENDS Naturals, FiniteSets

CONSTANTS
    Workers,      \* uvicorn worker processes (slots; a restart reuses one)
    None,         \* nobody holds a lock
    Dead,         \* the _LEADER_ID of a process that no longer exists
    LockTTL,      \* _LEADER_LOCK_TTL, in ticks of RenewEvery's unit
    RenewEvery,   \* the renewer's period, _LEADER_LOCK_TTL / 3
    FirstRenew,   \* the first renewal: the 8s stagger plus one period
    Faults        \* which of AllFaults may happen

AllFaults == {"crash", "valkey", "keyloss", "pg", "pgconn"}

ASSUME WorkersAssumption == None \notin Workers /\ Dead \notin Workers
                            /\ None # Dead
ASSUME TTLAssumption == LockTTL \in Nat \ {0} /\ RenewEvery \in Nat \ {0}
                        /\ FirstRenew \in Nat \ {0}
ASSUME TimingAssumption == RenewEvery < LockTTL /\ FirstRenew < LockTTL
ASSUME FaultsAssumption == Faults \subseteq AllFaults

VARIABLES
    up,         \* up[w]: the process runs
    leader,     \* leader[w]: is_leader of its lifespan
    renewing,   \* renewing[w]: its renewer thread has not given up
    timer,      \* timer[w]: ticks until its next renewal
    owner,      \* the value of corex:leader
    ttl,        \* ticks until the key expires, 0 if there is none
    pgLock,     \* the session that holds the advisory lock
    pgConn,     \* pgConn[w]: _pg_lock_conn is not None
    reach       \* the workers that can reach Valkey

vars == <<up, leader, renewing, timer, owner, ttl, pgLock, pgConn, reach>>

MaxTimer == IF FirstRenew >= RenewEvery THEN FirstRenew ELSE RenewEvery

TypeOK ==
    /\ up \in [Workers -> BOOLEAN]
    /\ leader \in [Workers -> BOOLEAN]
    /\ renewing \in [Workers -> BOOLEAN]
    /\ timer \in [Workers -> 0 .. MaxTimer]
    /\ owner \in Workers \cup {None, Dead}
    /\ ttl \in 0 .. LockTTL
    /\ (owner = None) <=> (ttl = 0)
    /\ pgLock \in Workers \cup {None}
    /\ pgConn \in [Workers -> BOOLEAN]
    /\ reach \subseteq Workers

Init ==
    /\ up = [w \in Workers |-> FALSE]
    /\ leader = [w \in Workers |-> FALSE]
    /\ renewing = [w \in Workers |-> FALSE]
    /\ timer = [w \in Workers |-> 0]
    /\ owner = None
    /\ ttl = 0
    /\ pgLock = None
    /\ pgConn = [w \in Workers |-> FALSE]
    /\ reach = Workers

-----------------------------------------------------------------------------
(* The two locks.  Each operator describes one call and its result ok.     *)

\* Mutant: SET NX without EX.
SetNX_NoExpiry(w, ok) ==
    \/ /\ owner = None
       /\ ok
       /\ owner' = w
       /\ UNCHANGED ttl
    \/ /\ owner # None
       /\ ~ok
       /\ UNCHANGED <<owner, ttl>>

\* SET corex:leader id NX EX ttl
SetNX(w, ok) ==
    \/ /\ owner = None
       /\ ok
       /\ owner' = w
       /\ ttl' = LockTTL
    \/ /\ owner # None
       /\ ~ok
       /\ UNCHANGED <<owner, ttl>>

\* Mutant: a blind SET instead of the compare-and-expire script.
CompareAndExpire_Blind(w, ok) ==
    /\ ok
    /\ owner' = w
    /\ ttl' = LockTTL

\* The renewal script: extend the key only if it still holds our id.
CompareAndExpire(w, ok) ==
    \/ /\ owner = w
       /\ ok
       /\ ttl' = LockTTL
       /\ UNCHANGED owner
    \/ /\ owner # w
       /\ ~ok
       /\ UNCHANGED <<owner, ttl>>

\* _pg_try_advisory_lock: a connection we still have counts as holding it.
PgTry(w, ok) ==
    \/ /\ pgConn[w]
       /\ ok
       /\ UNCHANGED <<pgLock, pgConn>>
    \/ /\ ~pgConn[w] /\ pgLock = None
       /\ ok
       /\ pgLock' = w
       /\ pgConn' = [pgConn EXCEPT ![w] = TRUE]
    \/ /\ ~pgConn[w] /\ pgLock # None
       /\ ~ok
       /\ UNCHANGED <<pgLock, pgConn>>
    \/ /\ "pg" \in Faults /\ ~pgConn[w]
       /\ ~ok
       /\ UNCHANGED <<pgLock, pgConn>>

\* acquire_leader_lock.  A Valkey call that raises was either never executed
\* or executed without its reply arriving; then the advisory lock decides.
AcquireLeaderLock(w, ok) ==
    \/ /\ w \in reach
       /\ SetNX(w, ok)
       /\ UNCHANGED <<pgLock, pgConn>>
    \/ /\ w \notin reach
       /\ UNCHANGED <<owner, ttl>> \/ \E done \in BOOLEAN : SetNX(w, done)
       /\ PgTry(w, ok)

\* renew_leader_lock
RenewLeaderLock(w, ok) ==
    \/ /\ w \in reach
       /\ CompareAndExpire(w, ok)
       /\ UNCHANGED <<pgLock, pgConn>>
    \/ /\ w \notin reach
       /\ \/ UNCHANGED <<owner, ttl>>
          \/ \E done \in BOOLEAN : CompareAndExpire(w, done)
       /\ PgTry(w, ok)

\* _pg_release_advisory_lock, and what PostgreSQL does when a session ends.
ReleasePg(w) ==
    /\ pgLock' = IF pgLock = w THEN None ELSE pgLock
    /\ pgConn' = [pgConn EXCEPT ![w] = FALSE]

-----------------------------------------------------------------------------
(* The lifespan of a worker.                                               *)

\* Start-up: one attempt.  The winner starts its renewer and its services.
Start(w) ==
    /\ ~up[w]
    /\ up' = [up EXCEPT ![w] = TRUE]
    /\ \E ok \in BOOLEAN :
        /\ AcquireLeaderLock(w, ok)
        /\ leader' = [leader EXCEPT ![w] = ok]
        /\ renewing' = [renewing EXCEPT ![w] = ok]
        /\ timer' = [timer EXCEPT ![w] = IF ok THEN FirstRenew ELSE 0]
    /\ UNCHANGED reach

\* One turn of the renewer's loop; on failure it logs and ends.
Renew(w) ==
    /\ up[w] /\ renewing[w] /\ timer[w] = 0
    /\ \E ok \in BOOLEAN :
        /\ RenewLeaderLock(w, ok)
        /\ renewing' = [renewing EXCEPT ![w] = ok]
        /\ timer' = [timer EXCEPT ![w] = IF ok THEN RenewEvery ELSE 0]
    /\ UNCHANGED <<up, leader, reach>>

Stopped(w) ==
    /\ up' = [up EXCEPT ![w] = FALSE]
    /\ leader' = [leader EXCEPT ![w] = FALSE]
    /\ renewing' = [renewing EXCEPT ![w] = FALSE]
    /\ timer' = [timer EXCEPT ![w] = 0]

\* Mutant: release_leader_lock deletes the key without comparing.
Shutdown_Blind(w) ==
    /\ up[w]
    /\ Stopped(w)
    /\ ReleasePg(w)
    /\ IF w \in reach THEN owner' = None /\ ttl' = 0 ELSE UNCHANGED <<owner, ttl>>
    /\ UNCHANGED reach

\* Orderly shutdown: release_leader_lock drops both locks if they are ours.
\* If Valkey cannot be reached the key stays, with the id of a dead process.
Shutdown(w) ==
    /\ up[w]
    /\ Stopped(w)
    /\ ReleasePg(w)
    /\ \/ owner = w /\ w \in reach /\ owner' = None /\ ttl' = 0
       \/ owner = w /\ w \notin reach /\ owner' = Dead /\ UNCHANGED ttl
       \/ owner # w /\ UNCHANGED <<owner, ttl>>
    /\ UNCHANGED reach

\* The process dies; its database session with it.  Its key lives on.
Crash(w) ==
    /\ "crash" \in Faults
    /\ up[w]
    /\ Stopped(w)
    /\ ReleasePg(w)
    /\ owner' = IF owner = w THEN Dead ELSE owner
    /\ UNCHANGED <<ttl, reach>>

-----------------------------------------------------------------------------
(* The environment.                                                        *)

LoseValkey(w) ==
    /\ "valkey" \in Faults
    /\ w \in reach
    /\ reach' = reach \ {w}
    /\ UNCHANGED <<up, leader, renewing, timer, owner, ttl, pgLock, pgConn>>

RegainValkey(w) ==
    /\ w \in Workers \ reach
    /\ reach' = reach \cup {w}
    /\ UNCHANGED <<up, leader, renewing, timer, owner, ttl, pgLock, pgConn>>

\* Valkey restarts from a dump taken before the key was set.
LoseKey ==
    /\ "keyloss" \in Faults
    /\ owner # None
    /\ owner' = None
    /\ ttl' = 0
    /\ UNCHANGED <<up, leader, renewing, timer, pgLock, pgConn, reach>>

\* PostgreSQL drops the session that holds the lock; _pg_lock_conn remains.
PgConnectionDies(w) ==
    /\ "pgconn" \in Faults
    /\ pgLock = w
    /\ pgLock' = None
    /\ UNCHANGED <<up, leader, renewing, timer, owner, ttl, pgConn, reach>>

\* Time passes unless a renewal is due: renewer threads run on time.
Tick ==
    /\ \A w \in Workers : renewing[w] => timer[w] > 0
    /\ ttl > 0 \/ \E w \in Workers : renewing[w]
    /\ timer' = [w \in Workers |-> IF renewing[w] THEN timer[w] - 1
                                   ELSE timer[w]]
    /\ ttl' = IF ttl > 0 THEN ttl - 1 ELSE 0
    /\ owner' = IF ttl > 1 THEN owner ELSE None
    /\ UNCHANGED <<up, leader, renewing, pgLock, pgConn, reach>>

Next ==
    \/ \E w \in Workers :
        \/ Start(w) \/ Renew(w) \/ Shutdown(w) \/ Crash(w)
        \/ LoseValkey(w) \/ RegainValkey(w) \/ PgConnectionDies(w)
    \/ LoseKey
    \/ Tick

Spec == Init /\ [][Next]_vars

\* The container runtime restarts workers, renewers run, the clock advances.
Fairness ==
    /\ \A w \in Workers : WF_vars(Start(w)) /\ WF_vars(Renew(w))
    /\ WF_vars(Tick)

FairSpec == Spec /\ Fairness

-----------------------------------------------------------------------------
(* Properties.                                                             *)

\* "acquire the leader lock FIRST so only one worker runs init_db" and the
\* background services: no two workers that acquired leadership are running
\* at the same time.
SingleLeader ==
    \A v, w \in Workers : leader[v] /\ leader[w] => v = w

\* The strengthening of SingleLeader that is inductive while Valkey is up: the
\* leader owns the key, and its next renewal comes before the key expires.
LeaderOwnsKey ==
    \A w \in Workers :
        leader[w] => up[w] /\ renewing[w] /\ owner = w /\ timer[w] < ttl

IInv ==
    /\ TypeOK
    /\ reach = Workers
    /\ \A w \in Workers : renewing[w] => leader[w]
    /\ LeaderOwnsKey

\* As long as Valkey answers, the key is the one lock of the workers: it is won
\* while it is free and held until its holder stops, a start or a stop of another
\* worker never takes it away, and the key of a leader that crashed keeps the
\* others from leading until its time to live is over.  The lock has SingleLeader:
\* only its holder serves.
Lock == INSTANCE LeaderLock
            WITH holder <- owner, serving <- {w \in Workers : leader[w]}

ImplementsLock == Lock!Spec

\* Whatever outages came before, once every worker can reach Valkey and the
\* key is no longer lost, at most one renewer thread survives: the compare-
\* and-expire script brings competing renewers back to one.
RenewersConverge ==
    (<>[](reach = Workers) /\ <>[][~LoseKey]_vars)
        => <>[](Cardinality({w \in Workers : renewing[w]}) <= 1)

\* "Lost leader lock; a peer will take over": when a worker's renewer gives
\* up, and the workers stay up and can reach Valkey again, another worker
\* comes to lead and to hold the lock.
PeerTakesOver ==
    (<>[](\A w \in Workers : up[w]) /\ <>[](reach = Workers))
        => \A w \in Workers :
            (leader[w] /\ ~renewing[w])
                ~> \E v \in Workers \ {w} : leader[v] /\ renewing[v]

\* "Another worker is the leader; serving HTTP only": as long as workers run,
\* there is again and again one that leads.
SomeoneLeads ==
    []<>(\E w \in Workers : ~up[w]) \/ []<>(\E w \in Workers : leader[w])

\* renew_leader_lock without Valkey "returns True if we hold it, otherwise
\* tries to acquire it (handles the case where the connection died)": a
\* renewal that succeeds on the advisory lock leaves the worker holding it.
PgRenewalHolds ==
    [][\A w \in Workers :
        (Renew(w) /\ w \notin reach /\ renewing'[w]) => pgLock' = w]_vars

=============================================================================
