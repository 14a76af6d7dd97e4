----------------------------- MODULE DiskCache -----------------------------
(***************************************************************************)
(* The in-process disk cache of HAProxy (haproxy/disk_cache): a file       *)
(* mapped by every worker thread, with an open addressing hash table that  *)
(* leads to the slots, one spinlock for those who store, and lookups that  *)
(* take no lock.  A response is stored by the filter at the end of a miss  *)
(* and served by the fetch-then-service pair of a hit.                     *)
(*                                                                         *)
(* A response is a number: the order in which the responses took the lock. *)
(***************************************************************************)
EXTENDS Integers, Sequences, FiniteSets

CONSTANTS
    Threads,    \* the worker threads
    Keys,       \* method|host|path|variant
    SlotCount,  \* slots, and entries of the hash table
    Home,       \* Home[k]: hash_key(k) % SLOT_COUNT
    Checked,    \* how many table entries open() looks at (10 in the code)
    TTL,        \* DEFAULT_TTL_SECS
    None,
    MaxStores,  \* bound: responses stored in a behaviour
    MaxServes,  \* bound: requests for a cached path
    MaxTime,    \* bound: ticks of the clock
    MaxEvents   \* bound: resets, and ends of the process, in a behaviour

Idx == 0 .. SlotCount - 1

ASSUME DiskAssumption ==
    /\ SlotCount \in Nat \ {0} /\ Checked \in 0 .. SlotCount
    /\ Home \in [Keys -> Idx] /\ TTL \in Nat
    /\ None \notin Threads \cup Keys \cup Int
    /\ None \notin [key : Keys, ver : Nat]

\* Hash table sentinels; every other entry is a slot number.
HASH_EMPTY == -1
HASH_TOMBSTONE == -2

VARIABLES
    lock,    \* global_lock: the thread that took it, or None
    table,   \* hash_table
    slot,    \* slot[i]: state, key, the responses its headers and body are from, time
    now,     \* the clock
    up,      \* a process has the file open
    pc, key, ver, at, entry, \* per thread: step, key, response, slot and table index
    probe,   \* per thread: probes done by the lookup
    seen,    \* per thread: what read_slot has taken so far
    stored,  \* history: stored[n] is the key of response n
    done,    \* history: the response that finished last under a key
    orphan,  \* history: the owner of the lock is gone for good
    quiet,   \* history: the slot being read has not been written to meanwhile
    floor,   \* history: done of the key when the request began
    serves, events

store == <<lock, table, slot>>
bounds == <<serves, events>>
history == <<stored, done, orphan, quiet, floor>>
locals == <<key, ver, at, entry, probe, seen>>
vars == <<lock, table, slot, now, up, pc, key, ver, at, entry, probe, seen,
          stored, done, orphan, quiet, floor, serves, events>>

Vacant == [state |-> "EMPTY", key |-> None, hdr |-> 0, body |-> 0, ts |-> 0]
Unread == [len |-> 0, hdr |-> 0, body |-> 0]

Init ==
    /\ lock = None
    /\ table = [i \in Idx |-> HASH_EMPTY]
    /\ slot = [i \in Idx |-> Vacant]
    /\ now = 0
    /\ up = TRUE
    /\ pc = [t \in Threads |-> "idle"]
    /\ key = [t \in Threads |-> None]
    /\ ver = [t \in Threads |-> 0]
    /\ at = [t \in Threads |-> None]
    /\ entry = [t \in Threads |-> None]
    /\ probe = [t \in Threads |-> 0]
    /\ seen = [t \in Threads |-> Unread]
    /\ stored = <<>>
    /\ done = [k \in Keys |-> 0]
    /\ orphan = FALSE
    /\ quiet = [t \in Threads |-> TRUE]
    /\ floor = [t \in Threads |-> 0]
    /\ serves = 0
    /\ events = 0

Goto(t, from, to) ==
    /\ up
    /\ pc[t] = from
    /\ pc' = [pc EXCEPT ![t] = to]

-----------------------------------------------------------------------------
(* The probe sequence of a key.                                            *)

EntryOf(k, i) == (Home[k] + i) % SlotCount
Least(S) == CHOOSE i \in S : \A j \in S : i <= j

\* The probes of k that come before the first empty entry.
Chain(k) ==
    {i \in Idx : \A j \in 0 .. i : table[EntryOf(k, j)] # HASH_EMPTY}

\* The probes of k that meet a slot whose key is k.
Matches(k) ==
    {i \in Chain(k) : /\ table[EntryOf(k, i)] \in Idx
                      /\ slot[table[EntryOf(k, i)]].key = k}

\* Mutant: the probe takes the first filled slot without comparing the key.
Hits_AnyKey(k, i) ==
    /\ table[i] \in Idx
    /\ slot[table[i]].state = "READY"
\* What one probe of lookup finds in table entry i for key k.
Hits(k, i) ==
    /\ table[i] \in Idx
    /\ slot[table[i]].key = k
    /\ slot[table[i]].state = "READY"
Expired(i) == now - slot[i].ts > TTL

\* find_free_slot: the first slot that is free, else the least recently written.
FreeSlots == {i \in Idx : slot[i].state \in {"EMPTY", "EVICTED"}}
Oldest ==
    CHOOSE i \in Idx : \A j \in Idx :
        slot[i].ts < slot[j].ts \/ (slot[i].ts = slot[j].ts /\ i <= j)

\* The table entry the eviction of slot s turns into a tombstone.
EvictedEntry(s) ==
    {i \in Chain(slot[s].key) : table[EntryOf(slot[s].key, i)] = s}

\* Mutant: tombstones are not reused.
HashEntry_NoReuse(k) ==
    LET empty == {i \in Idx : table[EntryOf(k, i)] = HASH_EMPTY}
    IN  EntryOf(k, CASE Matches(k) # {} -> Least(Matches(k))
                     [] Matches(k) = {} /\ empty # {} -> Least(empty)
                     [] OTHER -> 0)

\* find_hash_entry
HashEntry(k) ==
    LET tombs == {i \in Chain(k) : table[EntryOf(k, i)] = HASH_TOMBSTONE}
        empty == {i \in Idx : table[EntryOf(k, i)] = HASH_EMPTY}
    IN  EntryOf(k, CASE Matches(k) # {} -> Least(Matches(k))
                     [] tombs # {} /\ Matches(k) = {} -> Least(tombs)
                     [] tombs = {} /\ Matches(k) = {} /\ empty # {} -> Least(empty)
                     [] OTHER -> 0)

-----------------------------------------------------------------------------
(* store: the filter's http_end hands over a complete, cacheable response. *)

HttpEnd(t, k) ==
    /\ Len(stored) + Cardinality({u \in Threads : pc[u] = "spin"}) < MaxStores
    /\ Goto(t, "idle", "spin")
    /\ key' = [key EXCEPT ![t] = k]
    /\ UNCHANGED <<store, now, up, ver, at, entry, probe, seen, history, bounds>>

Lock(t) ==
    /\ Goto(t, "spin", "choose")
    /\ lock = None
    /\ lock' = t
    /\ stored' = Append(stored, key[t])
    /\ ver' = [ver EXCEPT ![t] = Len(stored) + 1]
    /\ UNCHANGED <<table, slot, now, up, key, at, entry, probe, seen, done, orphan, quiet, floor, bounds>>

\* The key is in the table already: update its slot in place.
UpdateInPlace(t) ==
    /\ Goto(t, "choose", "copy")
    /\ Matches(key[t]) # {}
    /\ LET s == table[EntryOf(key[t], Least(Matches(key[t])))]
       IN  /\ at' = [at EXCEPT ![t] = s]
           /\ slot' = [slot EXCEPT ![s].state = "FILLING"]
           /\ quiet' = [u \in Threads |-> quiet[u] /\ at[u] # s]
    /\ entry' = [entry EXCEPT ![t] = None]
    /\ UNCHANGED <<lock, table, now, up, key, ver, probe, seen, stored, done, orphan, floor, bounds>>

TakeFreeSlot(t) ==
    /\ Goto(t, "choose", "fill")
    /\ Matches(key[t]) = {}
    /\ FreeSlots # {}
    /\ at' = [at EXCEPT ![t] = Least(FreeSlots)]
    /\ UNCHANGED <<store, now, up, key, ver, entry, probe, seen, history, bounds>>

EvictOldest(t) ==
    /\ Goto(t, "choose", "unlink")
    /\ Matches(key[t]) = {}
    /\ FreeSlots = {}
    /\ at' = [at EXCEPT ![t] = Oldest]
    /\ slot' = [slot EXCEPT ![Oldest].state = "EVICTED"]
    /\ UNCHANGED <<lock, table, now, up, key, ver, entry, probe, seen, history, bounds>>

\* Mutant: the victim's entry is marked empty.
Unlink_Empty(t) ==
    /\ Goto(t, "unlink", "fill")
    /\ LET s == at[t]
           i == EntryOf(slot[s].key, Least(EvictedEntry(s)))
       IN  table' = IF EvictedEntry(s) = {} THEN table
                    ELSE [table EXCEPT ![i] = HASH_EMPTY]
    /\ UNCHANGED <<lock, slot, now, up, locals, history, bounds>>

\* The victim's entry becomes a tombstone, so that longer chains stay whole.
Unlink(t) ==
    /\ Goto(t, "unlink", "fill")
    /\ LET s == at[t]
           i == EntryOf(slot[s].key, Least(EvictedEntry(s)))
       IN  table' = IF EvictedEntry(s) = {} THEN table
                    ELSE [table EXCEPT ![i] = HASH_TOMBSTONE]
    /\ UNCHANGED <<lock, slot, now, up, locals, history, bounds>>

\* find_hash_entry, and the first store of write_slot.
Fill(t) ==
    /\ Goto(t, "fill", "copy")
    /\ entry' = [entry EXCEPT ![t] = HashEntry(key[t])]
    /\ slot' = [slot EXCEPT ![at[t]].state = "FILLING"]
    /\ quiet' = [u \in Threads |-> quiet[u] /\ at[u] # at[t]]
    /\ UNCHANGED <<lock, table, now, up, key, ver, at, probe, seen, stored, done, orphan, floor, bounds>>

Copy(t) ==
    /\ Goto(t, "copy", "ready")
    /\ slot' = [slot EXCEPT ![at[t]].key = key[t], ![at[t]].hdr = ver[t],
                            ![at[t]].body = ver[t]]
    /\ UNCHANGED <<lock, table, now, up, locals, history, bounds>>

\* Mutant: the update in place returns without the unlock.
Ready_NoUnlock(t) ==
    /\ Goto(t, "ready", IF entry[t] = None THEN "idle" ELSE "publish")
    /\ slot' = [slot EXCEPT ![at[t]].ts = now, ![at[t]].state = "READY"]
    /\ UNCHANGED <<lock, table, now, up, locals, history, bounds>>

Ready(t) ==
    /\ Goto(t, "ready", IF entry[t] = None THEN "unlock" ELSE "publish")
    /\ slot' = [slot EXCEPT ![at[t]].ts = now, ![at[t]].state = "READY"]
    /\ UNCHANGED <<lock, table, now, up, locals, history, bounds>>

Publish(t) ==
    /\ Goto(t, "publish", "unlock")
    /\ table' = [table EXCEPT ![entry[t]] = at[t]]
    /\ UNCHANGED <<lock, slot, now, up, locals, history, bounds>>

\* The locals of a finished call are gone.
Forget(t) ==
    /\ key' = [key EXCEPT ![t] = None]
    /\ ver' = [ver EXCEPT ![t] = 0]
    /\ at' = [at EXCEPT ![t] = None]
    /\ entry' = [entry EXCEPT ![t] = None]
    /\ probe' = [probe EXCEPT ![t] = 0]
    /\ seen' = [seen EXCEPT ![t] = Unread]
    /\ quiet' = [quiet EXCEPT ![t] = TRUE]
    /\ floor' = [floor EXCEPT ![t] = 0]

Unlock(t) ==
    /\ Goto(t, "unlock", "idle")
    /\ lock' = None
    /\ done' = [done EXCEPT ![key[t]] = ver[t]]
    /\ Forget(t)
    /\ UNCHANGED <<table, slot, now, up, stored, orphan, bounds>>

Store(t) ==
    \/ \E k \in Keys : HttpEnd(t, k)
    \/ Lock(t) \/ UpdateInPlace(t) \/ TakeFreeSlot(t) \/ EvictOldest(t) \/ Unlink(t)
    \/ Fill(t) \/ Copy(t) \/ Ready(t) \/ Publish(t) \/ Unlock(t)

-----------------------------------------------------------------------------
(* A request: the fetch looks the key up, the service looks it up again    *)
(* and copies the slot.                                                    *)

Fetch(t, k) ==
    /\ serves < MaxServes
    /\ Goto(t, "idle", "fetch")
    /\ serves' = serves + 1
    /\ key' = [key EXCEPT ![t] = k]
    /\ floor' = [floor EXCEPT ![t] = done[k]]
    /\ UNCHANGED <<store, now, up, ver, at, entry, probe, seen, stored, done, orphan, quiet, events>>

\* Mutant: the probing does not stop after a round of the table.
ProbeOn_Endless(t) ==
    LET i == EntryOf(key[t], probe[t]) IN
    /\ up /\ pc[t] \in {"fetch", "serve"}
    /\ table[i] # HASH_EMPTY /\ ~Hits(key[t], i)
    /\ probe' = [probe EXCEPT ![t] = @ + 1]
    /\ UNCHANGED <<store, now, up, pc, key, ver, at, entry, seen, history, bounds>>

\* One probe that goes on to the next entry.
ProbeOn(t) ==
    LET i == EntryOf(key[t], probe[t]) IN
    /\ up /\ pc[t] \in {"fetch", "serve"}
    /\ probe[t] + 1 \in Idx
    /\ table[i] # HASH_EMPTY /\ ~Hits(key[t], i)
    /\ probe' = [probe EXCEPT ![t] = @ + 1]
    /\ UNCHANGED <<store, now, up, pc, key, ver, at, entry, seen, history, bounds>>

\* The chain ends, or the slot has expired: a miss for the fetch, 503 for the service.
LookupNone(t) ==
    LET i == EntryOf(key[t], probe[t]) IN
    /\ up /\ pc[t] \in {"fetch", "serve"}
    /\ \/ table[i] = HASH_EMPTY
       \/ Hits(key[t], i) /\ Expired(table[i])
       \/ ~Hits(key[t], i) /\ probe[t] + 1 \notin Idx
    /\ pc' = [pc EXCEPT ![t] = "idle"]
    /\ Forget(t)
    /\ UNCHANGED <<store, now, up, stored, done, orphan, bounds>>

LookupHit(t) ==
    LET i == EntryOf(key[t], probe[t]) IN
    /\ up /\ pc[t] \in {"fetch", "serve"}
    /\ Hits(key[t], i) /\ ~Expired(table[i])
    /\ pc' = [pc EXCEPT ![t] = IF @ = "fetch" THEN "serve" ELSE "check"]
    /\ probe' = [probe EXCEPT ![t] = 0]
    /\ at' = [at EXCEPT ![t] = IF pc[t] = "serve" THEN table[i] ELSE @]
    /\ UNCHANGED <<store, now, up, key, ver, entry, seen, history, bounds>>

\* read_slot: the state and the lengths, then the headers, then the body.
ReadGone(t) ==
    /\ Goto(t, "check", "idle")
    /\ slot[at[t]].state # "READY"
    /\ Forget(t)
    /\ UNCHANGED <<store, now, up, stored, done, orphan, bounds>>

ReadLengths(t) ==
    /\ Goto(t, "check", "headers")
    /\ slot[at[t]].state = "READY"
    /\ seen' = [seen EXCEPT ![t].len = slot[at[t]].body]
    /\ UNCHANGED <<store, now, up, key, ver, at, entry, probe, history, bounds>>

ReadHeaders(t) ==
    /\ Goto(t, "headers", "body")
    /\ seen' = [seen EXCEPT ![t].hdr = slot[at[t]].hdr]
    /\ UNCHANGED <<store, now, up, key, ver, at, entry, probe, history, bounds>>

ReadBody(t) ==
    /\ Goto(t, "body", "served")
    /\ seen' = [seen EXCEPT ![t].body = slot[at[t]].body]
    /\ UNCHANGED <<store, now, up, key, ver, at, entry, probe, history, bounds>>

SendDone(t) ==
    /\ Goto(t, "served", "idle")
    /\ Forget(t)
    /\ UNCHANGED <<store, now, up, stored, done, orphan, bounds>>

Serve(t) ==
    \/ \E k \in Keys : Fetch(t, k)
    \/ ProbeOn(t) \/ LookupNone(t) \/ LookupHit(t)
    \/ ReadGone(t) \/ ReadLengths(t) \/ ReadHeaders(t) \/ ReadBody(t) \/ SendDone(t)

-----------------------------------------------------------------------------
(* show disk-cache-reset, the clock, and the life of the process.          *)

ResetLock(t) ==
    /\ events < MaxEvents
    /\ Goto(t, "idle", "wipe")
    /\ lock = None
    /\ lock' = t
    /\ events' = events + 1
    /\ UNCHANGED <<table, slot, now, up, locals, history, serves>>

\* The loop over the states, then the loop over the table.
ResetStates(t) ==
    /\ Goto(t, "wipe", "wipetable")
    /\ slot' = [i \in Idx |-> [slot[i] EXCEPT !.state = "EMPTY"]]
    /\ UNCHANGED <<lock, table, now, up, locals, history, bounds>>

ResetTable(t) ==
    /\ Goto(t, "wipetable", "wiped")
    /\ table' = [i \in Idx |-> HASH_EMPTY]
    /\ UNCHANGED <<lock, slot, now, up, locals, history, bounds>>

ResetUnlock(t) ==
    /\ Goto(t, "wiped", "idle")
    /\ lock' = None
    /\ UNCHANGED <<table, slot, now, up, locals, history, bounds>>

Reset(t) == ResetLock(t) \/ ResetStates(t) \/ ResetTable(t) \/ ResetUnlock(t)

Tick ==
    /\ now < MaxTime
    /\ now' = now + 1
    /\ UNCHANGED <<store, up, pc, locals, history, bounds>>

\* The process ends, at any point; what it wrote stays in the file.
Stop ==
    /\ up
    /\ events < MaxEvents
    /\ up' = FALSE
    /\ events' = events + 1
    /\ pc' = [t \in Threads |-> "idle"]
    /\ key' = [t \in Threads |-> None]
    /\ ver' = [t \in Threads |-> 0]
    /\ at' = [t \in Threads |-> None]
    /\ entry' = [t \in Threads |-> None]
    /\ probe' = [t \in Threads |-> 0]
    /\ seen' = [t \in Threads |-> Unread]
    /\ quiet' = [t \in Threads |-> TRUE]
    /\ floor' = [t \in Threads |-> 0]
    /\ orphan' = (lock # None)
    /\ UNCHANGED <<store, now, stored, done, serves>>

\* open() starts afresh if one of the first entries is in use ("corrupt"),
\* and otherwise takes the file as it is.
NeedsReinit == \E i \in 0 .. Checked - 1 : table[i] # HASH_EMPTY

Open ==
    /\ ~up
    /\ up' = TRUE
    /\ IF NeedsReinit
       THEN /\ lock' = None
            /\ table' = [i \in Idx |-> HASH_EMPTY]
            /\ slot' = [i \in Idx |-> [slot[i] EXCEPT !.state = "EMPTY"]]
       ELSE UNCHANGED store
    /\ orphan' = (orphan /\ lock' # None)
    /\ UNCHANGED <<now, pc, locals, stored, done, quiet, floor, bounds>>

-----------------------------------------------------------------------------

Next ==
    \/ \E t \in Threads : Store(t) \/ Serve(t) \/ Reset(t)
    \/ Tick
    \/ Stop
    \/ Open

Spec == Init /\ [][Next]_vars

\* A thread that has begun a call goes on with it, a stopped process is
\* started again by its supervisor, and the spinlock is retried for ever.
Calls(t) ==
    \/ Lock(t) \/ UpdateInPlace(t) \/ TakeFreeSlot(t) \/ EvictOldest(t) \/ Unlink(t)
    \/ Fill(t) \/ Copy(t) \/ Ready(t) \/ Publish(t) \/ Unlock(t)
    \/ ProbeOn(t) \/ LookupNone(t) \/ LookupHit(t)
    \/ ReadGone(t) \/ ReadLengths(t) \/ ReadHeaders(t) \/ ReadBody(t) \/ SendDone(t)
    \/ ResetStates(t) \/ ResetTable(t) \/ ResetUnlock(t)
Fairness == WF_vars(Open) /\ \A t \in Threads : WF_vars(Calls(t))
FairSpec == Spec /\ Fairness

-----------------------------------------------------------------------------
(* Properties.                                                             *)

InStore == {"choose", "unlink", "fill", "copy", "ready", "publish", "unlock"}
InReset == {"wipe", "wipetable", "wiped"}
Reading == {"fetch", "serve", "check", "headers", "body", "served"}

\* Types of the file and of the threads' locals.
TypeOK ==
    /\ lock \in Threads \cup {None}
    /\ table \in [Idx -> Idx \cup {HASH_EMPTY, HASH_TOMBSTONE}]
    /\ slot \in [Idx -> [state : {"EMPTY", "FILLING", "READY", "EVICTED"},
                         key : Keys \cup {None}, hdr : Nat, body : Nat, ts : Nat]]
    /\ now \in Nat /\ up \in BOOLEAN
    /\ pc \in [Threads -> {"idle", "spin"} \cup InStore \cup InReset \cup Reading]
    /\ key \in [Threads -> Keys \cup {None}]
    /\ ver \in [Threads -> Nat]
    /\ at \in [Threads -> Idx \cup {None}]
    /\ entry \in [Threads -> Idx \cup {None}]
    /\ probe \in [Threads -> Idx]
    /\ seen \in [Threads -> [len : Nat, hdr : Nat, body : Nat]]
    /\ stored \in Seq(Keys) /\ done \in [Keys -> Nat]
    /\ orphan \in BOOLEAN /\ quiet \in [Threads -> BOOLEAN] /\ floor \in [Threads -> Nat]
    /\ serves \in Nat /\ events \in Nat

\* The slots a lookup of k can end at.
Found(k) ==
    {table[EntryOf(k, i)] : i \in {j \in Chain(k) : Hits(k, EntryOf(k, j))}}

\* Whenever nobody is inside store or reset, every response in the file can be
\* found by the probe sequence of its key, however many evictions punched
\* tombstones into it, and no key is found in two slots (store_inner,
\* find_free_slot, find_hash_entry).
TableSound ==
    lock = None =>
        /\ \A s \in Idx : slot[s].state = "READY" => s \in Found(slot[s].key)
        /\ \A k \in Keys : Cardinality(Found(k)) <= 1

\* A response that was copied out of a slot nobody wrote to meanwhile is whole,
\* was stored under the requested key, and is at least as new as the last one
\* stored before the request began (lookup, read_slot).
QuietServe ==
    \A t \in Threads : pc[t] = "served" /\ quiet[t] =>
        /\ seen[t].hdr = seen[t].body /\ seen[t].len = seen[t].body
        /\ stored[seen[t].body] = key[t]
        /\ seen[t].body >= floor[t]

\* Whoever spins for the lock gets it, unless its owner died (store).
StoreReturns ==
    \A t \in Threads : pc[t] = "spin" ~> (pc[t] # "spin" \/ orphan)

\* README: "No durability (crash -> rebuild on startup)".  When the process has
\* been started again the cache is empty and nobody holds its lock.
RebuiltOnStartup ==
    [][Open => /\ lock' = None
               /\ \A s \in Idx : slot'[s].state = "EMPTY"]_vars

-----------------------------------------------------------------------------
(* The cache a client sees.                                                *)

Visible(k) == {slot[s].body : s \in {f \in Found(k) : ~Expired(f)}}
BeforeCommit == {"choose", "unlink", "fill", "copy", "ready", "publish"}
Writers == {t \in Threads : pc[t] \in BeforeCommit}

Cache == INSTANCE ResponseCache WITH
    content <- [k \in Keys |-> IF Visible(k) = {} THEN None ELSE Least(Visible(k))],
    writing <- IF Writers = {} THEN None
               ELSE LET t == CHOOSE u \in Writers : TRUE
                    IN  [key |-> key[t], ver |-> ver[t]],
    newest <- Len(stored)

\* The file, its table and its lock implement the promised cache: an entry is
\* never seen under another key, never returns once it is gone, and a response
\* shows up in one step (store_inner, write_slot, reset, open).
ImplementsCache == Cache!Spec

=============================================================================
