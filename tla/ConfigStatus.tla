---------------------------- MODULE ConfigStatus ----------------------------
(***************************************************************************)
(* The in-process cache of the /config/status "unapplied" flag             *)
(* (backend/app/services/config.py) in one uvicorn worker.                 *)
(*                                                                         *)
(* Pollers are the threads that run get_config_status, Mutators the        *)
(* threads that commit a configuration change and then run                 *)
(* invalidate_config_status (the audit middleware, and write_config at its *)
(* end).  A read or write of one of the three module globals is one step:  *)
(* the GIL makes it atomic, nothing makes two of them atomic.              *)
(*                                                                         *)
(* The configuration (database rows and applied files) is the number of    *)
(* changes made to it so far; a flag value is represented by the number of *)
(* changes the regeneration that computed it had seen.                     *)
(***************************************************************************)
EXTENDS Integers

CONSTANTS
    Pollers,           \* threads serving GET /config/status
    Mutators,          \* threads that change the configuration and invalidate
    None,              \* no cached tuple; no lock holder
    TTL,               \* _CONFIG_STATUS_TTL in clock ticks
    MaxVersion,        \* bound on the number of configuration changes
    GenerationRaises   \* TRUE iff _config_status_data may raise

Threads == Pollers \cup Mutators

Version == 0 .. MaxVersion

\* What a non-empty _config_status_cache holds; TTL as age means "too old".
Entry == [ver : Version, age : 0 .. TTL]

ASSUME TTLAssumption == TTL \in Nat \ {0}
ASSUME MaxVersionAssumption == MaxVersion \in Nat
ASSUME RaisesAssumption == GenerationRaises \in BOOLEAN
ASSUME ThreadsAssumption == Pollers \cap Mutators = {} /\ None \notin Threads
ASSUME NoneAssumption == None \notin Entry

VARIABLES
    version,      \* configuration changes committed so far
    cache,        \* _config_status_cache
    dirty,        \* _config_status_dirty
    lock,         \* holder of _config_status_lock
    pc,           \* where each thread is
    cached,       \* local "cached" of get_config_status
    gen,          \* local "unapplied" of a regeneration
    mine,         \* the change whose commit a mutator is announcing
    served,       \* what the poller's last call returned
    \* History variables, read by no guard.
    since,        \* value of invalidated when the poller's call began
    invalidated,  \* newest change whose invalidate_config_status returned
    raised        \* a regeneration raised and the cache was not written since

vars == <<version, cache, dirty, lock, pc, cached, gen, mine, served, since,
          invalidated, raised>>

PollerPC == {"idle", "fast", "wait", "recheck", "clear", "generate",
             "check", "put", "drop", "dropcache", "release"}
MutatorPC == {"idle", "committed", "try", "clearcache", "cleardirty",
              "unlock"}

TypeOK ==
    /\ version \in Version
    /\ cache \in Entry \cup {None}
    /\ dirty \in BOOLEAN
    /\ lock \in Threads \cup {None}
    /\ pc \in [Threads -> PollerPC \cup MutatorPC]
    /\ \A p \in Pollers : pc[p] \in PollerPC
    /\ \A m \in Mutators : pc[m] \in MutatorPC
    /\ cached \in [Pollers -> Entry \cup {None}]
    /\ gen \in [Pollers -> Version]
    /\ mine \in [Mutators -> Version]
    /\ served \in [Pollers -> Version]
    /\ since \in [Pollers -> Version]
    /\ invalidated \in Version
    /\ raised \in BOOLEAN

Init ==
    /\ version = 0
    /\ cache = None
    /\ dirty = FALSE
    /\ lock = None
    /\ pc = [t \in Threads |-> "idle"]
    /\ cached = [p \in Pollers |-> None]
    /\ gen = [p \in Pollers |-> 0]
    /\ mine = [m \in Mutators |-> 0]
    /\ served = [p \in Pollers |-> 0]
    /\ since = [p \in Pollers |-> 0]
    /\ invalidated = 0
    /\ raised = FALSE

Goto(t, label) == pc' = [pc EXCEPT ![t] = label]

Larger(a, b) == IF a >= b THEN a ELSE b

\* Mutant: the age of the tuple is not looked at.
Usable_NoTTL(entry) ==
    /\ entry # None
    /\ ~dirty

\* The hit condition after the dirty flag was read: a tuple that is not dirty
\* and younger than the TTL.
Usable(entry) ==
    /\ entry # None
    /\ ~dirty
    /\ entry.age < TTL

-----------------------------------------------------------------------------
(* Configuration changes and invalidate_config_status.                     *)

\* The request handler (or write_config) commits; invalidation comes later.
Commit(m) ==
    /\ pc[m] = "idle"
    /\ version < MaxVersion
    /\ version' = version + 1
    /\ mine' = [mine EXCEPT ![m] = version + 1]
    /\ Goto(m, "committed")
    /\ UNCHANGED <<cache, dirty, lock, cached, gen, served, since,
                   invalidated, raised>>

\* A change nobody announces in this process: feed refresh, rule-set download,
\* certificate renewal, MCP catalog sync, a request served by another worker.
CommitUnannounced ==
    /\ version < MaxVersion
    /\ version' = version + 1
    /\ UNCHANGED <<cache, dirty, lock, pc, cached, gen, mine, served, since,
                   invalidated, raised>>

\* Mutant: the flag is not raised before the non-blocking acquire.
SetDirty_NoFlag(m) ==
    /\ pc[m] = "committed"
    /\ Goto(m, "try")
    /\ UNCHANGED <<version, cache, dirty, lock, cached, gen, mine, served,
                   since, invalidated, raised>>

SetDirty(m) ==
    /\ pc[m] = "committed"
    /\ dirty' = TRUE
    /\ Goto(m, "try")
    /\ UNCHANGED <<version, cache, lock, cached, gen, mine, served, since,
                   invalidated, raised>>

\* acquire(blocking=False): on failure the call is over, dirty stays set.
TryLock(m) ==
    /\ pc[m] = "try"
    /\ \/ /\ lock = None
          /\ lock' = m
          /\ Goto(m, "clearcache")
          /\ UNCHANGED invalidated
       \/ /\ lock # None
          /\ Goto(m, "idle")
          /\ invalidated' = Larger(invalidated, mine[m])
          /\ UNCHANGED lock
    /\ UNCHANGED <<version, cache, dirty, cached, gen, mine, served, since,
                   raised>>

ClearCache(m) ==
    /\ pc[m] = "clearcache"
    /\ cache' = None
    /\ raised' = FALSE
    /\ Goto(m, "cleardirty")
    /\ UNCHANGED <<version, dirty, lock, cached, gen, mine, served, since,
                   invalidated>>

ClearDirty(m) ==
    /\ pc[m] = "cleardirty"
    /\ dirty' = FALSE
    /\ Goto(m, "unlock")
    /\ UNCHANGED <<version, cache, lock, cached, gen, mine, served, since,
                   invalidated, raised>>

Unlock(m) ==
    /\ pc[m] = "unlock"
    /\ lock' = None
    /\ Goto(m, "idle")
    /\ invalidated' = Larger(invalidated, mine[m])
    /\ UNCHANGED <<version, cache, dirty, cached, gen, mine, served, since,
                   raised>>

-----------------------------------------------------------------------------
(* get_config_status.                                                      *)

\* cached = _config_status_cache, without the lock.
StartPoll(p) ==
    /\ pc[p] = "idle"
    /\ cached' = [cached EXCEPT ![p] = cache]
    /\ since' = [since EXCEPT ![p] = invalidated]
    /\ Goto(p, "fast")
    /\ UNCHANGED <<version, cache, dirty, lock, gen, mine, served,
                   invalidated, raised>>

FastPath(p) ==
    /\ pc[p] = "fast"
    /\ \/ /\ Usable(cached[p])
          /\ served' = [served EXCEPT ![p] = cached[p].ver]
          /\ Goto(p, "idle")
       \/ /\ ~Usable(cached[p])
          /\ Goto(p, "wait")
          /\ UNCHANGED served
    /\ UNCHANGED <<version, cache, dirty, lock, cached, gen, mine, since,
                   invalidated, raised>>

AcquireLock(p) ==
    /\ pc[p] = "wait"
    /\ lock = None
    /\ lock' = p
    /\ Goto(p, "recheck")
    /\ UNCHANGED <<version, cache, dirty, cached, gen, mine, served, since,
                   invalidated, raised>>

\* The same test again under the lock, where the cache cannot change.
Recheck(p) ==
    /\ pc[p] = "recheck"
    /\ cached' = [cached EXCEPT ![p] = cache]
    /\ \/ /\ Usable(cache)
          /\ served' = [served EXCEPT ![p] = cache.ver]
          /\ Goto(p, "release")
       \/ /\ ~Usable(cache)
          /\ Goto(p, "clear")
          /\ UNCHANGED served
    /\ UNCHANGED <<version, cache, dirty, lock, gen, mine, since, invalidated,
                   raised>>

ClearFlag(p) ==
    /\ pc[p] = "clear"
    /\ dirty' = FALSE
    /\ Goto(p, "generate")
    /\ UNCHANGED <<version, cache, lock, cached, gen, mine, served, since,
                   invalidated, raised>>

\* _config_status_data reads the configuration at some moment of its run.
Generate(p) ==
    /\ pc[p] = "generate"
    /\ gen' = [gen EXCEPT ![p] = version]
    /\ Goto(p, "check")
    /\ UNCHANGED <<version, cache, dirty, lock, cached, mine, served, since,
                   invalidated, raised>>

\* It raises: the lock is released by "with", cache and dirty stay as they are,
\* and the request fails without serving a value.
GenerateRaises(p) ==
    /\ GenerationRaises
    /\ pc[p] = "generate"
    /\ lock' = None
    /\ raised' = TRUE
    /\ since' = [since EXCEPT ![p] = 0]
    /\ Goto(p, "idle")
    /\ UNCHANGED <<version, cache, dirty, cached, gen, mine, served,
                   invalidated>>

CheckDirty(p) ==
    /\ pc[p] = "check"
    /\ Goto(p, IF dirty THEN "drop" ELSE "put")
    /\ UNCHANGED <<version, cache, dirty, lock, cached, gen, mine, served,
                   since, invalidated, raised>>

DropDirty(p) ==
    /\ pc[p] = "drop"
    /\ dirty' = FALSE
    /\ Goto(p, "dropcache")
    /\ UNCHANGED <<version, cache, lock, cached, gen, mine, served, since,
                   invalidated, raised>>

DropCache(p) ==
    /\ pc[p] = "dropcache"
    /\ cache' = None
    /\ raised' = FALSE
    /\ served' = [served EXCEPT ![p] = gen[p]]
    /\ Goto(p, "release")
    /\ UNCHANGED <<version, dirty, lock, cached, gen, mine, since,
                   invalidated>>

\* Mutant: the end of the tuple's life is stored as its time stamp.
PutCache_Deadline(p) ==
    /\ pc[p] = "put"
    /\ cache' = [ver |-> gen[p], age |-> 0 - TTL]
    /\ raised' = FALSE
    /\ served' = [served EXCEPT ![p] = gen[p]]
    /\ Goto(p, "release")
    /\ UNCHANGED <<version, dirty, lock, cached, gen, mine, since,
                   invalidated>>

PutCache(p) ==
    /\ pc[p] = "put"
    /\ cache' = [ver |-> gen[p], age |-> 0]
    /\ raised' = FALSE
    /\ served' = [served EXCEPT ![p] = gen[p]]
    /\ Goto(p, "release")
    /\ UNCHANGED <<version, dirty, lock, cached, gen, mine, since,
                   invalidated>>

Release(p) ==
    /\ pc[p] = "release"
    /\ lock' = None
    /\ Goto(p, "idle")
    /\ UNCHANGED <<version, cache, dirty, cached, gen, mine, served, since,
                   invalidated, raised>>

-----------------------------------------------------------------------------
(* The monotonic clock, as the age of every tuple in use.                  *)

Older(entry) ==
    IF entry = None THEN None
    ELSE [entry EXCEPT !.age = IF @ < TTL THEN @ + 1 ELSE TTL]

Tick ==
    /\ cache' = Older(cache)
    /\ cached' = [p \in Pollers |-> Older(cached[p])]
    /\ UNCHANGED <<version, dirty, lock, pc, gen, mine, served, since,
                   invalidated, raised>>

-----------------------------------------------------------------------------

Poll(p) ==
    \/ StartPoll(p) \/ FastPath(p) \/ AcquireLock(p) \/ Recheck(p)
    \/ ClearFlag(p) \/ Generate(p) \/ GenerateRaises(p) \/ CheckDirty(p)
    \/ DropDirty(p) \/ DropCache(p) \/ PutCache(p) \/ Release(p)

Invalidate(m) ==
    SetDirty(m) \/ TryLock(m) \/ ClearCache(m) \/ ClearDirty(m) \/ Unlock(m)

Next ==
    \/ \E p \in Pollers : Poll(p)
    \/ \E m \in Mutators : Commit(m) \/ Invalidate(m)
    \/ CommitUnannounced
    \/ Tick

Spec == Init /\ [][Next]_vars

\* Threads run, browsers keep polling, time passes.  Nothing is assumed about
\* who gets the lock, and nobody is obliged to change the configuration.
Fairness ==
    /\ \A p \in Pollers : WF_vars(Poll(p))
    /\ \A m \in Mutators : WF_vars(Invalidate(m))
    /\ WF_vars(Tick)

FairSpec == Spec /\ Fairness

-----------------------------------------------------------------------------
(* Properties.                                                             *)

\* Once no call holds _config_status_lock and the dirty flag is down, a cached
\* flag reflects every change whose invalidate_config_status has returned: the
\* non-blocking invalidation never loses a change to a regeneration that was
\* in flight.  (A regeneration that raised leaves the old tuple behind.)
SettledFresh ==
    (lock = None /\ ~dirty /\ ~raised /\ cache # None)
        => cache.ver >= invalidated

\* The parts of the invariant.  Known(v): some invalidation of change v has
\* returned, or has raised the dirty flag.
Known(v) ==
    \/ v = invalidated
    \/ \E m \in Mutators : pc[m] = "try" /\ v = mine[m]

HoldsLock(t) ==
    pc[t] \in {"recheck", "clear", "generate", "check", "put", "drop",
              "dropcache", "release", "clearcache", "cleardirty", "unlock"}

Regenerating == lock \in Pollers /\ pc[lock] \in {"clear", "generate",
                    "check", "put", "drop", "dropcache"}

LockInv == \A t \in Threads : HoldsLock(t) <=> lock = t

BoundInv ==
    /\ invalidated <= version
    /\ \A m \in Mutators : mine[m] <= version

EmptyInv ==
    \A m \in Mutators : pc[m] \in {"cleardirty", "unlock"} => cache = None

GenInv ==
    \A p \in Pollers : (pc[p] \in {"check", "put"} /\ ~dirty)
        => \A v \in Version : Known(v) => gen[p] >= v

CacheInv ==
    (~dirty /\ ~raised /\ cache # None /\ ~Regenerating
        /\ \A m \in Mutators : pc[m] # "clearcache")
        => \A v \in Version : Known(v) => cache.ver >= v

\* The strengthening of SettledFresh that is inductive: who holds the lock, and
\* that without the dirty flag neither a result in flight nor the cached tuple
\* is older than a change that invalidate_config_status has announced.
IInv == TypeOK /\ LockInv /\ BoundInv /\ EmptyInv /\ GenInv /\ CacheInv

\* A poll that begins after invalidate_config_status returned does not serve a
\* flag computed before the change: "so the next status check regenerates".
NextPollFresh ==
    \A p \in Pollers : pc[p] = "idle" => served[p] >= since[p]

\* Changes nobody announces are seen as well: when changes stop and
\* regenerations no longer fail, the TTL and the polls leave no tuple older
\* than the last change in the cache.
EventuallyCurrent ==
    <>[][\A p \in Pollers : ~GenerateRaises(p)]_vars
        => <>[](cache = None \/ cache.ver = version)

=============================================================================
