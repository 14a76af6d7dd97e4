--------------------------- MODULE DiskCacheProofs --------------------------
(***************************************************************************)
(* Proofs about DiskCache for any number of threads, any keys, any size    *)
(* of the table and any hash function.                                     *)
(***************************************************************************)
EXTENDS DiskCache, FiniteSetTheorems, WellFoundedInduction, TLAPS

\* A set of numbers that is not empty has a least element.
LEMMA LeastExists ==
    ASSUME NEW S \in SUBSET Nat, S # {}
    PROVE  Least(S) \in S /\ \A j \in S : Least(S) <= j
<1>1. \E x \in S : \A y \in S : ~(<<y, x>> \in OpToRel(<, Nat))
    BY NatLessThanWellFounded, WFMin
<1>2. PICK x \in S : \A y \in S : ~(<<y, x>> \in OpToRel(<, Nat))
    BY <1>1
<1>3. \A y \in S : ~(y < x)
    BY <1>2 DEF OpToRel
<1>4. \A y \in S : x <= y
    BY <1>3
<1> QED
    BY <1>4 DEF Least

\* The probes of a key visit every entry of the table once.
LEMMA EntryOfValue ==
    ASSUME NEW k \in Keys, NEW i \in Idx
    PROVE  /\ EntryOf(k, i) \in Idx
           /\ EntryOf(k, i) = IF Home[k] + i < SlotCount THEN Home[k] + i
                              ELSE Home[k] + i - SlotCount
<1>1. Home[k] \in Idx /\ SlotCount \in Nat \ {0}
    BY DiskAssumption
<1> QED
    BY <1>1 DEF EntryOf, Idx

LEMMA EntryOfOnce ==
    ASSUME NEW k \in Keys
    PROVE  /\ \A i, j \in Idx : EntryOf(k, i) = EntryOf(k, j) => i = j
           /\ \A e \in Idx : \E i \in Idx : EntryOf(k, i) = e
<1>1. Home[k] \in Idx /\ SlotCount \in Nat \ {0}
    BY DiskAssumption
<1>2. \A i, j \in Idx : EntryOf(k, i) = EntryOf(k, j) => i = j
    BY <1>1, EntryOfValue DEF Idx
<1>3. ASSUME NEW e \in Idx PROVE \E i \in Idx : EntryOf(k, i) = e
  <2> DEFINE i == IF e >= Home[k] THEN e - Home[k] ELSE e - Home[k] + SlotCount
  <2>1. i \in Idx /\ EntryOf(k, i) = e
      BY <1>1, EntryOfValue DEF Idx
  <2> QED  BY <2>1
<1> QED  BY <1>2, <1>3

-----------------------------------------------------------------------------
(* Types and the lock.                                                     *)

WithSlot == {"unlink", "fill", "copy", "ready", "publish", "unlock",
             "check", "headers", "body", "served"}

\* A thread inside a call has a key, and from some step on a slot; who is
\* inside store or reset holds the lock; without a process nobody is inside.
CallInv ==
    \A t \in Threads :
        /\ pc[t] \in InStore \cup Reading \cup {"spin"} => key[t] \in Keys
        /\ pc[t] \in WithSlot => at[t] \in Idx
        /\ pc[t] = "publish" => entry[t] \in Idx
        /\ pc[t] \in InStore \cup InReset => lock = t
        /\ ~up => pc[t] = "idle"

\* The owner of the lock is gone only if nobody is inside store or reset.
OrphanInv ==
    /\ orphan => lock # None /\ \A t \in Threads : pc[t] \notin InStore \cup InReset
    /\ ~up /\ lock # None => orphan

BaseInv == TypeOK /\ CallInv /\ OrphanInv

\* A set of probes that is not empty has a first one.
LEMMA FirstProbe ==
    ASSUME NEW S \in SUBSET Idx, S # {}
    PROVE  Least(S) \in S /\ \A j \in S : Least(S) <= j
<1>1. S \in SUBSET Nat
    BY DiskAssumption DEF Idx
<1> QED  BY <1>1, LeastExists

\* The victim of an eviction is a slot.
LEMMA OldestIsSlot ==
    ASSUME TypeOK
    PROVE  Oldest \in Idx
<1> DEFINE Times == {slot[i].ts : i \in Idx}
           First == {i \in Idx : slot[i].ts = Least(Times)}
<1>0. \A i \in Idx : slot[i].ts \in Nat
    BY DEF TypeOK
<1>1. Times \in SUBSET Nat /\ Times # {}
  <2>1. 0 \in Idx
      BY DiskAssumption DEF Idx
  <2> QED  BY <1>0, <2>1
<1> HIDE DEF Times
<1>2. Least(Times) \in Times /\ \A n \in Times : Least(Times) <= n
    BY <1>1, LeastExists
<1> USE DEF Times
<1>3. First \in SUBSET Idx /\ First # {}
    BY <1>2
<1>4. Least(First) \in First /\ \A j \in First : Least(First) <= j
    BY <1>3, FirstProbe
<1> DEFINE m == Least(First)
<1>5. m \in Idx /\ slot[m].ts = Least(Times)
    BY <1>4
<1>6. ASSUME NEW j \in Idx
      PROVE  slot[m].ts < slot[j].ts \/ (slot[m].ts = slot[j].ts /\ m <= j)
  <2>1. slot[j].ts \in Times /\ slot[m].ts <= slot[j].ts
      BY <1>2, <1>5
  <2>2. slot[m].ts = slot[j].ts => m <= j
      BY <1>4, <1>5
  <2>3. slot[m].ts \in Nat /\ slot[j].ts \in Nat
      BY <1>0, <1>5
  <2> HIDE DEF m
  <2> QED  BY <2>1, <2>2, <2>3
<1> HIDE DEF m
<1>7. \E i \in Idx : \A j \in Idx :
        slot[i].ts < slot[j].ts \/ (slot[i].ts = slot[j].ts /\ i <= j)
    BY <1>5, <1>6
<1> QED  BY <1>7 DEF Oldest

\* The entry find_hash_entry returns is one of the table.
LEMMA HashEntryInTable ==
    ASSUME NEW k \in Keys
    PROVE  HashEntry(k) \in Idx
<1> DEFINE tombs == {i \in Chain(k) : table[EntryOf(k, i)] = HASH_TOMBSTONE}
           empty == {i \in Idx : table[EntryOf(k, i)] = HASH_EMPTY}
           i == CASE Matches(k) # {} -> Least(Matches(k))
                  [] tombs # {} /\ Matches(k) = {} -> Least(tombs)
                  [] tombs = {} /\ Matches(k) = {} /\ empty # {} -> Least(empty)
                  [] OTHER -> 0
<1>1. /\ Matches(k) \in SUBSET Idx /\ tombs \in SUBSET Idx
      /\ empty \in SUBSET Idx /\ 0 \in Idx
    BY DiskAssumption DEF Matches, Chain, Idx
<1>2. \A S \in SUBSET Idx : S # {} => Least(S) \in Idx
    BY FirstProbe
<1> HIDE DEF tombs, empty
<1>3. i \in Idx
    BY <1>1, <1>2
<1>4. HashEntry(k) = EntryOf(k, i)
    BY DEF HashEntry, tombs, empty
<1> QED  BY <1>3, <1>4, EntryOfValue

LEMMA BaseInit == Init => BaseInv
<1> SUFFICES ASSUME Init PROVE BaseInv
    OBVIOUS
<1>1. TypeOK
  <2>1. 0 \in Idx
      BY DiskAssumption DEF Idx
  <2>2. slot \in [Idx -> [state : {"EMPTY", "FILLING", "READY", "EVICTED"},
                          key : Keys \cup {None}, hdr : Nat, body : Nat, ts : Nat]]
      BY DEF Init, Vacant
  <2>3. /\ quiet \in [Threads -> BOOLEAN] /\ up \in BOOLEAN /\ orphan \in BOOLEAN
      BY DEF Init
  <2>4. /\ stored \in Seq(Keys) /\ done \in [Keys -> Nat]
      BY DEF Init
  <2>5. /\ seen \in [Threads -> [len : Nat, hdr : Nat, body : Nat]]
      BY DEF Init, Unread
  <2> QED  BY <2>1, <2>2, <2>3, <2>4, <2>5 DEF Init, TypeOK
<1>2. CallInv /\ OrphanInv
    BY DEF Init, CallInv, OrphanInv, InStore, InReset, Reading, WithSlot
<1> QED  BY <1>1, <1>2 DEF BaseInv

\* What a thread's local may be.
PcSet == {"idle", "spin"} \cup InStore \cup InReset \cup Reading

\* A thread that forgets its locals leaves the others theirs.
LEMMA ForgetTypes ==
    ASSUME TypeOK, NEW t \in Threads, Forget(t)
    PROVE  /\ key' \in [Threads -> Keys \cup {None}] /\ ver' \in [Threads -> Nat]
           /\ at' \in [Threads -> Idx \cup {None}]
           /\ entry' \in [Threads -> Idx \cup {None}]
           /\ probe' \in [Threads -> Idx]
           /\ seen' \in [Threads -> [len : Nat, hdr : Nat, body : Nat]]
           /\ quiet' \in [Threads -> BOOLEAN] /\ floor' \in [Threads -> Nat]
           /\ \A u \in Threads \ {t} : key'[u] = key[u] /\ at'[u] = at[u]
                                       /\ entry'[u] = entry[u]
<1>1. 0 \in Idx
    BY DiskAssumption DEF Idx
<1>2. quiet' \in [Threads -> BOOLEAN]
    BY Zenon DEF TypeOK, Forget
<1> QED  BY <1>1, <1>2 DEF TypeOK, Forget, Unread

\* A table or a slot that is written to keeps its type.
LEMMA TableTypes ==
    ASSUME TypeOK, NEW i, NEW e \in Idx \cup {HASH_TOMBSTONE},
           table' = [table EXCEPT ![i] = e]
    PROVE  table' \in [Idx -> Idx \cup {HASH_EMPTY, HASH_TOMBSTONE}]
BY DEF TypeOK

SlotType == [state : {"EMPTY", "FILLING", "READY", "EVICTED"},
             key : Keys \cup {None}, hdr : Nat, body : Nat, ts : Nat]

LEMMA SlotTypes ==
    ASSUME TypeOK, NEW s \in Idx, NEW r \in SlotType, slot' = [slot EXCEPT ![s] = r]
    PROVE  slot' \in [Idx -> SlotType]
BY DEF TypeOK, SlotType

\* A slot whose state is set keeps its key, its content and its time.
LEMMA MarkTypes ==
    ASSUME TypeOK, NEW s \in Idx, NEW x \in {"EMPTY", "FILLING", "READY", "EVICTED"},
           slot' = [slot EXCEPT ![s].state = x]
    PROVE  /\ slot' \in [Idx -> SlotType]
           /\ slot'[s].state = x
           /\ \A i \in Idx \ {s} : slot'[i].state = slot[i].state
           /\ \A i \in Idx : /\ slot'[i].key = slot[i].key
                             /\ slot'[i].hdr = slot[i].hdr
                             /\ slot'[i].body = slot[i].body
                             /\ slot'[i].ts = slot[i].ts
<1> DEFINE r == [slot[s] EXCEPT !.state = x]
<1>1. slot[s] \in SlotType /\ slot \in [Idx -> SlotType]
    BY DEF TypeOK, SlotType
<1>2. /\ r \in SlotType /\ r.state = x /\ r.key = slot[s].key /\ r.hdr = slot[s].hdr
      /\ r.body = slot[s].body /\ r.ts = slot[s].ts
    BY <1>1 DEF SlotType
<1>3. slot' = [slot EXCEPT ![s] = r]
    OBVIOUS
<1> HIDE DEF r
<1>4. slot'[s] = r /\ \A i \in Idx \ {s} : slot'[i] = slot[i]
    BY <1>1, <1>3
<1>5. slot' \in [Idx -> SlotType]
    BY <1>2, <1>3, SlotTypes
<1> QED  BY <1>2, <1>4, <1>5

LEMMA WipedTypes ==
    ASSUME TypeOK, slot' = [i \in Idx |-> [slot[i] EXCEPT !.state = "EMPTY"]]
    PROVE  slot' \in [Idx -> SlotType]
<1>1. ASSUME NEW i \in Idx PROVE [slot[i] EXCEPT !.state = "EMPTY"] \in SlotType
  <2>1. slot[i] \in SlotType
      BY DEF TypeOK, SlotType
  <2> QED  BY <2>1 DEF SlotType
<1> QED  BY <1>1

\* The calls' part of the invariant looks at a few variables only.
Others(t) == \A u \in Threads \ {t} : /\ pc'[u] = pc[u] /\ key'[u] = key[u]
                                      /\ at'[u] = at[u] /\ entry'[u] = entry[u]

\* A step of a thread that leaves the lock alone.
LEMMA CallStep ==
    ASSUME BaseInv, NEW t \in Threads, Others(t), up, up' = up, lock' = lock,
           orphan' = orphan,
           pc'[t] \in InStore \cup InReset => pc[t] \in InStore \cup InReset,
           pc'[t] \in InStore \cup Reading \cup {"spin"} => key'[t] \in Keys,
           pc'[t] \in WithSlot => at'[t] \in Idx,
           pc'[t] = "publish" => entry'[t] \in Idx
    PROVE  CallInv' /\ OrphanInv'
<1>1. CallInv'
    BY DEF BaseInv, CallInv, Others
<1>2. OrphanInv'
    BY DEF BaseInv, OrphanInv, Others
<1> QED  BY <1>1, <1>2

\* The steps of store.
LEMMA StoreTypes ==
    ASSUME BaseInv, NEW t \in Threads, Store(t)
    PROVE  BaseInv'
<1> USE DEF Goto, bounds, history, store, locals
<1>0. TypeOK /\ CallInv /\ OrphanInv
    BY DEF BaseInv
<1>1. ASSUME NEW k \in Keys, HttpEnd(t, k) PROVE BaseInv'
  <2>1. TypeOK'
      BY <1>0, <1>1 DEF HttpEnd, TypeOK
  <2>2. CallInv' /\ OrphanInv'
      BY <1>0, <1>1, CallStep DEF HttpEnd, TypeOK, Others, InStore, InReset, WithSlot
  <2> QED  BY <2>1, <2>2 DEF BaseInv
<1>2. CASE Lock(t)
  <2>1. key[t] \in Keys
      BY <1>0, <1>2 DEF Lock, CallInv
  <2>2. Append(stored, key[t]) \in Seq(Keys) /\ Len(stored) \in Nat
      BY <1>0, <2>1 DEF TypeOK
  <2>3. TypeOK'
    <3>1. lock' = t /\ stored' \in Seq(Keys) /\ ver' \in [Threads -> Nat]
        BY <1>0, <1>2, <2>2 DEF Lock, TypeOK
    <3>2. pc' = [pc EXCEPT ![t] = "choose"]
          /\ UNCHANGED <<table, slot, now, up, key, at, entry, probe, seen, done,
                         orphan, quiet, floor, serves, events>>
        BY <1>2 DEF Lock
    <3> QED  BY <1>0, <3>1, <3>2 DEF TypeOK, InStore
  <2>4. CallInv' /\ OrphanInv'
      BY <1>0, <1>2, <2>1, DiskAssumption
         DEF Lock, CallInv, OrphanInv, TypeOK, InStore, InReset, Reading, WithSlot
  <2> QED  BY <2>3, <2>4 DEF BaseInv
<1>3. CASE UpdateInPlace(t)
  <2> DEFINE i == EntryOf(key[t], Least(Matches(key[t])))
  <2>1. key[t] \in Keys
      BY <1>0, <1>3 DEF UpdateInPlace, CallInv, InStore
  <2>2. Matches(key[t]) \in SUBSET Idx /\ Matches(key[t]) # {}
      BY <1>3 DEF UpdateInPlace, Matches, Chain
  <2>3. table[i] \in Idx
      BY <2>2, FirstProbe DEF Matches
  <2>4. /\ at' = [at EXCEPT ![t] = table[i]]
        /\ slot' = [slot EXCEPT ![table[i]].state = "FILLING"]
        /\ quiet' = [u \in Threads |-> quiet[u] /\ at[u] # table[i]]
        /\ entry' = [entry EXCEPT ![t] = None]
        /\ pc' = [pc EXCEPT ![t] = "copy"] /\ pc[t] = "choose" /\ up
        /\ UNCHANGED <<lock, table, now, up, key, ver, probe, seen, stored, done,
                       orphan, floor, bounds>>
      BY <1>3 DEF UpdateInPlace
  <2> HIDE DEF i
  <2>5. quiet' \in [Threads -> BOOLEAN]
      BY <2>4
  <2>6. TypeOK'
    <3>1. slot' \in [Idx -> SlotType]
      <4> DEFINE s == table[i]
                 r == [slot[s] EXCEPT !.state = "FILLING"]
      <4>0. slot[s] \in SlotType
          BY <1>0, <2>3 DEF TypeOK, SlotType
      <4>1. r \in SlotType
          BY <4>0 DEF SlotType
      <4>2. slot' = [slot EXCEPT ![s] = r]
          BY <2>4
      <4> QED  BY <1>0, <2>3, <4>1, <4>2, SlotTypes
    <3> QED  BY <1>0, <2>3, <2>4, <2>5, <3>1 DEF TypeOK, InStore, SlotType
  <2>7. CallInv' /\ OrphanInv'
      BY <1>0, <2>1, <2>3, <2>4, CallStep
         DEF TypeOK, Others, InStore, InReset, WithSlot, BaseInv
  <2> QED  BY <2>6, <2>7 DEF BaseInv
<1>4. CASE TakeFreeSlot(t)
  <2>1. key[t] \in Keys
      BY <1>0, <1>4 DEF TakeFreeSlot, CallInv, InStore
  <2>2. Least(FreeSlots) \in Idx
      BY <1>4, FirstProbe DEF TakeFreeSlot, FreeSlots
  <2>3. TypeOK'
      BY ZenonT(60), <1>0, <1>4, <2>2 DEF TakeFreeSlot, TypeOK, InStore
  <2>4. CallInv' /\ OrphanInv'
      BY <1>0, <1>4, <2>1, <2>2, CallStep
         DEF TakeFreeSlot, TypeOK, Others, InStore, InReset, WithSlot, BaseInv
  <2> QED  BY <2>3, <2>4 DEF BaseInv
<1>5. CASE EvictOldest(t)
  <2>1. key[t] \in Keys
      BY <1>0, <1>5 DEF EvictOldest, CallInv, InStore
  <2>2. Oldest \in Idx
      BY <1>0, OldestIsSlot
  <2>3. TypeOK'
    <3>1. PICK s \in Idx : s = Oldest
        BY <2>2
    <3>2. slot' = [slot EXCEPT ![s].state = "EVICTED"]
        BY <1>5, <3>1 DEF EvictOldest
    <3>3. slot' \in [Idx -> SlotType]
        BY <1>0, <3>2, MarkTypes
    <3>4. /\ pc' = [pc EXCEPT ![t] = "unlink"] /\ at' = [at EXCEPT ![t] = s]
          /\ UNCHANGED <<lock, table, now, up, key, ver, entry, probe, seen,
                         history, bounds>>
        BY <1>5, <3>1 DEF EvictOldest
    <3> QED  BY <1>0, <3>3, <3>4 DEF TypeOK, InStore, SlotType
  <2>4. CallInv' /\ OrphanInv'
      BY <1>0, <1>5, <2>1, <2>2, CallStep
         DEF EvictOldest, TypeOK, Others, InStore, InReset, WithSlot, BaseInv
  <2> QED  BY <2>3, <2>4 DEF BaseInv
<1>6. CASE Unlink(t)
  <2>1. table' \in [Idx -> Idx \cup {HASH_EMPTY, HASH_TOMBSTONE}]
      BY <1>0, <1>6, TableTypes DEF Unlink, TypeOK
  <2>2. TypeOK'
      BY <1>0, <1>6, <2>1 DEF Unlink, TypeOK, InStore
  <2>3. CallInv' /\ OrphanInv'
      BY <1>0, <1>6, CallStep
         DEF Unlink, CallInv, TypeOK, Others, InStore, InReset, WithSlot, BaseInv
  <2> QED  BY <2>2, <2>3 DEF BaseInv
<1>7. CASE Fill(t)
  <2>1. key[t] \in Keys /\ at[t] \in Idx
      BY <1>0, <1>7 DEF Fill, CallInv, InStore, WithSlot
  <2>2. HashEntry(key[t]) \in Idx
      BY <2>1, HashEntryInTable
  <2>3. quiet' \in [Threads -> BOOLEAN]
      BY <1>7 DEF Fill
  <2>4. TypeOK'
    <3>1. slot' \in [Idx -> SlotType]
      <4> DEFINE r == [slot[at[t]] EXCEPT !.state = "FILLING"]
      <4>0. slot[at[t]] \in SlotType /\ key[t] \in Keys
            /\ ver[t] \in Nat /\ now \in Nat
          BY <1>0, <2>1 DEF TypeOK, SlotType
      <4>1. r \in SlotType
          BY <4>0 DEF SlotType
      <4>2. slot' = [slot EXCEPT ![at[t]] = r]
          BY <1>7 DEF Fill
      <4> QED  BY <1>0, <2>1, <4>1, <4>2, SlotTypes
    <3>2. slot' \in [Idx -> SlotType] => TypeOK'
        BY <1>0, <1>7, <2>2, <2>3 DEF Fill, TypeOK, InStore, SlotType
    <3> QED  BY <3>1, <3>2
  <2>5. CallInv' /\ OrphanInv'
      BY <1>0, <1>7, <2>1, CallStep
         DEF Fill, TypeOK, Others, InStore, InReset, WithSlot, BaseInv
  <2> QED  BY <2>4, <2>5 DEF BaseInv
<1>8. CASE Copy(t)
  <2>1. key[t] \in Keys /\ at[t] \in Idx
      BY <1>0, <1>8 DEF Copy, CallInv, InStore, WithSlot
  <2>2. TypeOK'
    <3>1. slot' \in [Idx -> SlotType]
      <4> DEFINE r == [slot[at[t]] EXCEPT !.key = key[t], !.hdr = ver[t],
                                            !.body = ver[t]]
      <4>0. slot[at[t]] \in SlotType /\ key[t] \in Keys
            /\ ver[t] \in Nat /\ now \in Nat
          BY <1>0, <2>1 DEF TypeOK, SlotType
      <4>1. r \in SlotType
          BY <4>0 DEF SlotType
      <4>2. slot' = [slot EXCEPT ![at[t]] = r]
          BY <1>0, <1>8, <2>1 DEF Copy, TypeOK
      <4> QED  BY <1>0, <2>1, <4>1, <4>2, SlotTypes
    <3>2. slot' \in [Idx -> SlotType] => TypeOK'
        BY <1>0, <1>8, <2>1 DEF Copy, TypeOK, InStore, SlotType
    <3> QED  BY <3>1, <3>2
  <2>3. CallInv' /\ OrphanInv'
      BY <1>0, <1>8, <2>1, CallStep
         DEF Copy, TypeOK, Others, InStore, InReset, WithSlot, BaseInv
  <2> QED  BY <2>2, <2>3 DEF BaseInv
<1>9. CASE Ready(t)
  <2>1. key[t] \in Keys /\ at[t] \in Idx
      BY <1>0, <1>9 DEF Ready, CallInv, InStore, WithSlot
  <2>2. TypeOK'
    <3>1. slot' \in [Idx -> SlotType]
      <4> DEFINE r == [slot[at[t]] EXCEPT !.ts = now, !.state = "READY"]
      <4>0. slot[at[t]] \in SlotType /\ key[t] \in Keys
            /\ ver[t] \in Nat /\ now \in Nat
          BY <1>0, <2>1 DEF TypeOK, SlotType
      <4>1. r \in SlotType
          BY <4>0 DEF SlotType
      <4>2. slot' = [slot EXCEPT ![at[t]] = r]
          BY <1>0, <1>9, <2>1 DEF Ready, TypeOK
      <4> QED  BY <1>0, <2>1, <4>1, <4>2, SlotTypes
    <3>2. slot' \in [Idx -> SlotType] => TypeOK'
        BY <1>0, <1>9, <2>1 DEF Ready, TypeOK, InStore, SlotType
    <3> QED  BY <3>1, <3>2
  <2>3. CallInv' /\ OrphanInv'
      BY <1>0, <1>9, <2>1, CallStep
         DEF Ready, TypeOK, Others, InStore, InReset, WithSlot, BaseInv
  <2> QED  BY <2>2, <2>3 DEF BaseInv
<1>10. CASE Publish(t)
  <2>1. key[t] \in Keys /\ at[t] \in Idx
      BY <1>0, <1>10 DEF Publish, CallInv, InStore, WithSlot
  <2>2. TypeOK'
      BY <1>0, <1>10, <2>1, TableTypes DEF Publish, TypeOK, InStore
  <2>3. CallInv' /\ OrphanInv'
      BY <1>0, <1>10, <2>1, CallStep
         DEF Publish, TypeOK, Others, InStore, InReset, WithSlot, BaseInv
  <2> QED  BY <2>2, <2>3 DEF BaseInv
<1>11. CASE Unlock(t)
  <2>1. Forget(t) /\ pc' = [pc EXCEPT ![t] = "idle"] /\ pc[t] = "unlock" /\ up
        /\ lock' = None /\ done' = [done EXCEPT ![key[t]] = ver[t]]
        /\ UNCHANGED <<table, slot, now, up, stored, orphan, bounds>>
      BY <1>11 DEF Unlock
  <2>2. TypeOK'
      BY <1>0, <2>1, ForgetTypes DEF TypeOK
  <2>3. lock = t /\ ~orphan
      BY <1>0, <2>1 DEF CallInv, OrphanInv, InStore
  <2>4. \A u \in Threads \ {t} : pc[u] \notin InStore \cup InReset
      BY <1>0, <2>3 DEF CallInv
  <2>5. CallInv'
    <3>1. \A u \in Threads \ {t} : /\ pc'[u] = pc[u] /\ key'[u] = key[u]
                                   /\ at'[u] = at[u] /\ entry'[u] = entry[u]
        BY <1>0, <2>1, ForgetTypes DEF TypeOK
    <3>2. pc'[t] = "idle" /\ up' = up
        BY <1>0, <2>1 DEF TypeOK
    <3> QED
        BY <1>0, <2>1, <2>4, <3>1, <3>2
           DEF CallInv, InStore, InReset, Reading, WithSlot
  <2>6. OrphanInv'
      BY <2>1, <2>3 DEF OrphanInv
  <2> QED  BY <2>2, <2>5, <2>6 DEF BaseInv
<1> QED
    BY <1>1, <1>2, <1>3, <1>4, <1>5, <1>6, <1>7, <1>8, <1>9, <1>10, <1>11 DEF Store

\* The steps of a request and of a reset.
LEMMA ServeTypes ==
    ASSUME BaseInv, NEW t \in Threads, Serve(t)
    PROVE  BaseInv'
<1> USE DEF Goto, bounds, history, store, locals
<1>0. TypeOK /\ CallInv /\ OrphanInv
    BY DEF BaseInv
<1>1. ASSUME NEW k \in Keys, Fetch(t, k) PROVE BaseInv'
  <2>1. TypeOK'
    <3>1. floor' \in [Threads -> Nat] /\ serves' \in Nat
          /\ key' \in [Threads -> Keys \cup {None}]
        BY SMTT(60), <1>0, <1>1 DEF Fetch, TypeOK
    <3>2. pc' = [pc EXCEPT ![t] = "fetch"]
          /\ UNCHANGED <<store, now, up, ver, at, entry, probe, seen, stored, done,
                         orphan, quiet, events>>
        BY <1>1 DEF Fetch
    <3> QED  BY <1>0, <3>1, <3>2 DEF TypeOK, Reading
  <2>2. CallInv' /\ OrphanInv'
      BY <1>0, <1>1, CallStep
         DEF Fetch, TypeOK, Others, InStore, InReset, WithSlot, BaseInv
  <2> QED  BY <2>1, <2>2 DEF BaseInv
<1>2. CASE ProbeOn(t)
  <2>1. TypeOK'
      BY <1>0, <1>2 DEF ProbeOn, TypeOK
  <2>2. CallInv' /\ OrphanInv'
      BY <1>0, <1>2 DEF ProbeOn, CallInv, OrphanInv
  <2> QED  BY <2>1, <2>2 DEF BaseInv
<1>3. CASE LookupNone(t) \/ ReadGone(t) \/ SendDone(t)
  <2>1. Forget(t) /\ pc' = [pc EXCEPT ![t] = "idle"] /\ up
        /\ UNCHANGED <<store, now, up, stored, done, orphan, bounds>>
      BY <1>3 DEF LookupNone, ReadGone, SendDone
  <2>2. TypeOK'
      BY <1>0, <2>1, ForgetTypes DEF TypeOK
  <2>3. Others(t) /\ pc'[t] = "idle"
      BY <1>0, <2>1, ForgetTypes DEF TypeOK, Others
  <2>4. CallInv' /\ OrphanInv'
      BY <1>0, <2>1, <2>3, CallStep DEF InStore, InReset, Reading, WithSlot, BaseInv
  <2> QED  BY <2>2, <2>4 DEF BaseInv
<1>4. CASE LookupHit(t)
  <2> DEFINE i == EntryOf(key[t], probe[t])
             step == IF pc[t] = "fetch" THEN "serve" ELSE "check"
             s == IF pc[t] = "serve" THEN table[i] ELSE at[t]
  <2>1. /\ pc[t] \in {"fetch", "serve"} /\ table[i] \in Idx /\ up
        /\ pc' = [pc EXCEPT ![t] = step] /\ probe' = [probe EXCEPT ![t] = 0]
        /\ at' = [at EXCEPT ![t] = s]
        /\ UNCHANGED <<store, now, up, key, ver, entry, seen, history, bounds>>
      BY <1>4 DEF LookupHit, Hits
  <2>2. key[t] \in Keys /\ 0 \in Idx
      BY <1>0, <2>1, DiskAssumption DEF CallInv, Reading, Idx
  <2>3. /\ step \in Reading \ InStore /\ s \in Idx \cup {None}
        /\ step \in WithSlot => s \in Idx
      BY <1>0, <2>1 DEF TypeOK, Reading, InStore, WithSlot
  <2> HIDE DEF i, step, s
  <2>4. TypeOK'
      BY <1>0, <2>1, <2>2, <2>3 DEF TypeOK
  <2>5. Others(t) /\ pc'[t] = step /\ key'[t] = key[t] /\ at'[t] = s
      BY <1>0, <2>1, <2>3 DEF TypeOK, Others
  <2>6. CallInv' /\ OrphanInv'
      BY <1>0, <2>1, <2>2, <2>3, <2>5, CallStep
         DEF InStore, InReset, Reading, BaseInv
  <2> QED  BY <2>4, <2>6 DEF BaseInv
<1>5. CASE ReadLengths(t) \/ ReadHeaders(t) \/ ReadBody(t)
  <2>1. key[t] \in Keys /\ at[t] \in Idx
      BY <1>0, <1>5
         DEF ReadLengths, ReadHeaders, ReadBody, CallInv, Reading, WithSlot
  <2>2. PICK label \in {"headers", "body", "served"} :
             pc' = [pc EXCEPT ![t] = label] /\ up
      BY <1>5 DEF ReadLengths, ReadHeaders, ReadBody
  <2>3. slot[at[t]].body \in Nat /\ slot[at[t]].hdr \in Nat
      BY <1>0, <2>1 DEF TypeOK
  <2>4. seen' \in [Threads -> [len : Nat, hdr : Nat, body : Nat]]
    <3> DEFINE R == [len : Nat, hdr : Nat, body : Nat]
    <3>1. seen[t] \in R
        BY <1>0 DEF TypeOK
    <3>2. /\ [seen[t] EXCEPT !.len = slot[at[t]].body] \in R
          /\ [seen[t] EXCEPT !.hdr = slot[at[t]].hdr] \in R
          /\ [seen[t] EXCEPT !.body = slot[at[t]].body] \in R
        BY <2>3, <3>1
    <3>3. \E r \in R : seen' = [seen EXCEPT ![t] = r]
        BY <1>5, <3>2 DEF ReadLengths, ReadHeaders, ReadBody
    <3> QED  BY <1>0, <3>3 DEF TypeOK
  <2>5. UNCHANGED <<store, now, up, key, ver, at, entry, probe, history, bounds>>
      BY <1>5 DEF ReadLengths, ReadHeaders, ReadBody
  <2>6. TypeOK'
      BY <1>0, <2>2, <2>4, <2>5 DEF TypeOK, Reading
  <2>7. Others(t) /\ pc'[t] = label
      BY <1>0, <2>2, <2>5 DEF TypeOK, Others
  <2>8. CallInv' /\ OrphanInv'
      BY <1>0, <2>1, <2>2, <2>5, <2>7, CallStep DEF InStore, InReset, BaseInv
  <2> QED  BY <2>6, <2>8 DEF BaseInv
<1> QED  BY <1>1, <1>2, <1>3, <1>4, <1>5 DEF Serve

LEMMA ResetTypes ==
    ASSUME BaseInv, NEW t \in Threads, Reset(t)
    PROVE  BaseInv'
<1> USE DEF Goto, bounds, history, store, locals
<1>0. TypeOK /\ CallInv /\ OrphanInv
    BY DEF BaseInv
<1>1. CASE ResetLock(t)
  <2>1. TypeOK'
    <3>1. /\ pc' = [pc EXCEPT ![t] = "wipe"] /\ lock' = t /\ events' = events + 1
          /\ UNCHANGED <<table, slot, now, up, locals, history, serves>>
        BY <1>1 DEF ResetLock
    <3> QED  BY SMTT(60), <1>0, <3>1 DEF TypeOK, InReset
  <2>2. CallInv' /\ OrphanInv'
      BY <1>0, <1>1, DiskAssumption
         DEF ResetLock, CallInv, OrphanInv, TypeOK, InStore, InReset, Reading, WithSlot
  <2> QED  BY <2>1, <2>2 DEF BaseInv
<1>2. CASE ResetStates(t)
  <2>1. slot' \in [Idx -> SlotType]
      BY <1>0, <1>2, WipedTypes DEF ResetStates
  <2>2. TypeOK'
      BY <1>0, <1>2, <2>1 DEF ResetStates, TypeOK, InReset, SlotType
  <2>3. CallInv' /\ OrphanInv'
      BY <1>0, <1>2, CallStep
         DEF ResetStates, TypeOK, Others, InStore, InReset, Reading, WithSlot, BaseInv
  <2> QED  BY <2>2, <2>3 DEF BaseInv
<1>3. CASE ResetTable(t)
  <2>1. TypeOK'
      BY <1>0, <1>3 DEF ResetTable, TypeOK, InReset
  <2>2. CallInv' /\ OrphanInv'
      BY <1>0, <1>3, CallStep
         DEF ResetTable, TypeOK, Others, InStore, InReset, Reading, WithSlot, BaseInv
  <2> QED  BY <2>1, <2>2 DEF BaseInv
<1>4. CASE ResetUnlock(t)
  <2>1. TypeOK'
      BY <1>0, <1>4 DEF ResetUnlock, TypeOK
  <2>2. lock = t /\ ~orphan
      BY <1>0, <1>4 DEF ResetUnlock, CallInv, OrphanInv, InReset
  <2>3. \A u \in Threads \ {t} : pc[u] \notin InStore \cup InReset
      BY <1>0, <2>2 DEF CallInv
  <2>4. CallInv'
      BY <1>0, <1>4, <2>3
         DEF ResetUnlock, CallInv, TypeOK, InStore, InReset, Reading, WithSlot
  <2>5. OrphanInv'
      BY <1>4, <2>2 DEF ResetUnlock, OrphanInv
  <2> QED  BY <2>1, <2>4, <2>5 DEF BaseInv
<1> QED  BY <1>1, <1>2, <1>3, <1>4 DEF Reset

\* The end of the process, its start and the clock.
LEMMA ProcessTypes ==
    ASSUME BaseInv, Tick \/ Stop \/ Open \/ UNCHANGED vars
    PROVE  BaseInv'
<1> USE DEF bounds, history, store, locals
<1>0. TypeOK /\ CallInv /\ OrphanInv
    BY DEF BaseInv
<1>1. CASE Tick \/ UNCHANGED vars
  <2>1. TypeOK'
    <3>1. UNCHANGED <<store, up, pc, locals, history, serves>>
        BY <1>1 DEF Tick, vars
    <3>2. now' \in Nat /\ events' \in Nat
      <4>1. CASE Tick
          BY <1>0, <4>1 DEF Tick, TypeOK
      <4>2. CASE UNCHANGED vars
          BY <1>0, <4>2 DEF TypeOK, vars
      <4> QED  BY <1>1, <4>1, <4>2
    <3> QED  BY <1>0, <3>1, <3>2 DEF TypeOK
  <2>2. CallInv' /\ OrphanInv'
      BY <1>0, <1>1 DEF Tick, CallInv, OrphanInv, vars
  <2> QED  BY <2>1, <2>2 DEF BaseInv
<1>2. CASE Stop
  <2>1. 0 \in Idx
      BY DiskAssumption DEF Idx
  <2>2. /\ quiet' \in [Threads -> BOOLEAN] /\ orphan' \in BOOLEAN /\ up' \in BOOLEAN
        /\ seen' \in [Threads -> [len : Nat, hdr : Nat, body : Nat]]
      BY <1>2 DEF Stop, Unread
  <2>3. TypeOK'
      BY <1>0, <1>2, <2>1, <2>2 DEF Stop, TypeOK
  <2>4. CallInv' /\ OrphanInv'
      BY <1>2 DEF Stop, CallInv, OrphanInv, InStore, InReset, Reading, WithSlot
  <2> QED  BY <2>3, <2>4 DEF BaseInv
<1>3. CASE Open
  <2>1. /\ lock' \in {lock, None} /\ orphan' = (orphan /\ lock' # None)
        /\ ~up /\ up' /\ up' \in BOOLEAN
        /\ UNCHANGED <<now, pc, locals, stored, done, quiet, floor, bounds>>
      BY <1>3 DEF Open
  <2>2. slot' \in [Idx -> SlotType]
      BY <1>0, <1>3, WipedTypes DEF Open, TypeOK, SlotType
  <2>3. table' \in [Idx -> Idx \cup {HASH_EMPTY, HASH_TOMBSTONE}]
      BY <1>0, <1>3 DEF Open, TypeOK
  <2>4. orphan' \in BOOLEAN
      BY <2>1
  <2>5. TypeOK'
      BY <1>0, <2>1, <2>2, <2>3, <2>4 DEF TypeOK, SlotType
  <2>6. CallInv' /\ OrphanInv'
      BY <1>0, <2>1 DEF CallInv, OrphanInv, InStore, InReset, Reading, WithSlot
  <2> QED  BY <2>5, <2>6 DEF BaseInv
<1> QED  BY <1>1, <1>2, <1>3

LEMMA BaseKept == BaseInv /\ [Next]_vars => BaseInv'
BY StoreTypes, ServeTypes, ResetTypes, ProcessTypes DEF Next

\* In every reachable state at most one thread is inside store or reset, with a
\* slot and an entry of the table where it needs them, and a lock that outlived
\* its owner is known as such.
THEOREM BaseInvariant == Spec => []BaseInv
BY BaseInit, BaseKept, PTL DEF Spec

\* The file, the table and the threads' locals stay within their types, whatever
\* the threads interleave, whenever the process ends: in particular
\* find_free_slot and find_hash_entry always return a slot and an entry.
THEOREM TypeCorrect == Spec => []TypeOK
<1>1. BaseInv => TypeOK
    BY DEF BaseInv
<1> QED  BY <1>1, BaseInvariant, PTL

-----------------------------------------------------------------------------
(* The table.                                                              *)

\* An entry that leads to a slot, and a slot an entry leads to.
Listed(e) == table[e] \in Idx
InTable(s) == \E e \in Idx : table[e] = s

\* No empty entry ends the probing of k before it comes to e.
Reachable(k, e) ==
    \A i \in Idx : EntryOf(k, i) = e
                    => \A j \in Idx : j < i => table[EntryOf(k, j)] # HASH_EMPTY

\* Every slot in the table is reached by the probes of its key, and no two
\* entries lead to slots of one key.
TableInv ==
    /\ \A e \in Idx : Listed(e) => /\ slot[table[e]].key \in Keys
                                   /\ Reachable(slot[table[e]].key, e)
    /\ \A d, e \in Idx :
          Listed(d) /\ Listed(e) /\ slot[table[d]].key = slot[table[e]].key => d = e

NoMatch(k) == \A e \in Idx : Listed(e) => slot[table[e]].key # k

\* store_inner writes a slot that is in the table, or one that is to be.
Updating(t) == pc[t] \in {"copy", "ready"} /\ entry[t] = None
Adding(t) == pc[t] = "publish" \/ (pc[t] \in {"copy", "ready"} /\ entry[t] # None)

\* What the owner of the lock has done so far.
OwnerOf(t) ==
    /\ pc[t] = "unlink" => slot[at[t]].state = "EVICTED"
    /\ pc[t] = "fill" => slot[at[t]].state \in {"EMPTY", "EVICTED"}
    /\ pc[t] \in {"copy", "ready"} => slot[at[t]].state = "FILLING"
    /\ pc[t] \in {"publish", "unlock"} => slot[at[t]].state = "READY"
    /\ pc[t] \in {"ready", "publish", "unlock"} => slot[at[t]].key = key[t]
    /\ pc[t] = "fill" \/ Adding(t) => ~InTable(at[t])
    /\ pc[t] \in {"unlink", "fill"} \/ Adding(t) => NoMatch(key[t])
    /\ Adding(t) => ~Listed(entry[t]) /\ Reachable(key[t], entry[t])
    /\ Updating(t) => InTable(at[t]) /\ slot[at[t]].key = key[t]
    /\ pc[t] \in {"wipetable", "wiped"} => \A s \in Idx : slot[s].state = "EMPTY"
    /\ pc[t] = "wiped" => \A e \in Idx : table[e] = HASH_EMPTY

\* Unless the owner of the lock died, what is READY is in the table, or about to
\* be, and what is free is not, or about not to be.
StateInv ==
    ~orphan => \A s \in Idx :
        /\ slot[s].state = "READY" =>
              InTable(s) \/ \E t \in Threads : pc[t] = "publish" /\ at[t] = s
        /\ slot[s].state \in {"EMPTY", "EVICTED"} /\ InTable(s) =>
              \E t \in Threads : \/ pc[t] = "unlink" /\ at[t] = s
                                 \/ pc[t] = "wipetable"

ChainInv == TableInv /\ (\A t \in Threads : OwnerOf(t)) /\ StateInv

\* The lock has one owner.
LEMMA OneOwner ==
    ASSUME BaseInv, NEW t \in Threads, pc[t] \in InStore \cup InReset
    PROVE  /\ ~orphan /\ lock = t /\ up
           /\ \A u \in Threads \ {t} : pc[u] \notin InStore \cup InReset
<1>1. lock = t /\ up
    BY DEF BaseInv, CallInv, InStore, InReset, TypeOK
<1> QED  BY <1>1 DEF BaseInv, CallInv, OrphanInv

\* A thread that is not inside store or reset has done nothing.
LEMMA OutsiderOf ==
    ASSUME NEW t \in Threads, pc[t] \notin InStore \cup InReset
    PROVE  OwnerOf(t)
BY DEF OwnerOf, Adding, Updating, InStore, InReset

\* The sentinels of the table are no slots.
LEMMA Sentinels == HASH_EMPTY \notin Idx /\ HASH_TOMBSTONE \notin Idx
BY DEF HASH_EMPTY, HASH_TOMBSTONE, Idx

\* find_hash_entry looks at the same entries whether it compares keys or not.
LEMMA MatchesOf ==
    ASSUME TypeOK, TableInv, NEW k \in Keys
    PROVE  /\ Matches(k) = {} <=> NoMatch(k)
           /\ \A i \in Matches(k) : /\ i \in Idx /\ EntryOf(k, i) \in Idx
                                    /\ Listed(EntryOf(k, i))
                                    /\ slot[table[EntryOf(k, i)]].key = k
<1>1. \A i \in Matches(k) : /\ i \in Idx /\ EntryOf(k, i) \in Idx
                            /\ Listed(EntryOf(k, i))
                            /\ slot[table[EntryOf(k, i)]].key = k
    BY EntryOfValue DEF Matches, Chain, Listed
<1>2. ASSUME NEW e \in Idx, Listed(e), slot[table[e]].key = k
      PROVE  Matches(k) # {}
  <2>1. PICK i \in Idx : EntryOf(k, i) = e
      BY EntryOfOnce
  <2>2. Reachable(k, e)
      BY <1>2 DEF TableInv
  <2>3. \A j \in 0 .. i : j \in Idx /\ (j < i \/ j = i)
      BY DiskAssumption DEF Idx
  <2>4. \A j \in 0 .. i : table[EntryOf(k, j)] # HASH_EMPTY
      BY <1>2, <2>1, <2>2, <2>3, Sentinels DEF Reachable, Listed
  <2>5. i \in Matches(k)
      BY <1>2, <2>1, <2>4 DEF Matches, Chain, Listed
  <2> QED  BY <2>5
<1> QED  BY <1>1, <1>2 DEF NoMatch

\* If a slot is not in the table, find_hash_entry finds a tombstone or an empty
\* entry for a key that is not there, and its chain reaches it.
LEMMA HashEntryFree ==
    ASSUME TypeOK, TableInv, NEW k \in Keys, NoMatch(k), NEW s \in Idx, ~InTable(s)
    PROVE  /\ HashEntry(k) \in Idx /\ ~Listed(HashEntry(k))
           /\ Reachable(k, HashEntry(k))
<1> DEFINE tombs == {i \in Chain(k) : table[EntryOf(k, i)] = HASH_TOMBSTONE}
           empty == {i \in Idx : table[EntryOf(k, i)] = HASH_EMPTY}
<1>1. Matches(k) = {} /\ tombs \in SUBSET Idx /\ empty \in SUBSET Idx
    BY MatchesOf DEF Chain
<1>2. ASSUME NEW i \in Idx, table[EntryOf(k, i)] \notin Idx,
             \A j \in Idx : j < i => table[EntryOf(k, j)] # HASH_EMPTY,
             HashEntry(k) = EntryOf(k, i)
      PROVE  /\ HashEntry(k) \in Idx /\ ~Listed(HashEntry(k))
             /\ Reachable(k, HashEntry(k))
    BY <1>2, EntryOfValue, EntryOfOnce DEF Reachable, Listed
<1>3. CASE tombs # {}
  <2>1. Least(tombs) \in tombs
      BY <1>1, <1>3, FirstProbe
  <2>2. HashEntry(k) = EntryOf(k, Least(tombs))
      BY <1>1, <1>3 DEF HashEntry
  <2>3. Least(tombs) \in Idx
        /\ \A j \in Idx : j < Least(tombs) => table[EntryOf(k, j)] # HASH_EMPTY
      BY SMTT(60), <2>1, DiskAssumption DEF Chain, Idx
  <2>4. table[EntryOf(k, Least(tombs))] \notin Idx
      BY <2>1, Sentinels
  <2> HIDE DEF tombs
  <2> QED  BY <1>2, <2>2, <2>3, <2>4
<1>4. CASE tombs = {} /\ empty # {}
  <2>1. Least(empty) \in empty /\ \A j \in empty : Least(empty) <= j
      BY <1>1, <1>4, FirstProbe
  <2>2. HashEntry(k) = EntryOf(k, Least(empty))
      BY <1>1, <1>4 DEF HashEntry
  <2>3. Least(empty) \in Idx
        /\ \A j \in Idx : j < Least(empty) => table[EntryOf(k, j)] # HASH_EMPTY
    <3>1. PICK m \in Idx : m = Least(empty) /\ \A j \in empty : m <= j
        BY <2>1
    <3>2. ASSUME NEW j \in Idx, j < m PROVE j \notin empty
      <4>1. m \in Int /\ j \in Int
          BY DiskAssumption DEF Idx
      <4>2. ~(m <= j)
          BY <3>2, <4>1
      <4> QED  BY <3>1, <4>2
    <3> QED  BY <3>1, <3>2
  <2>4. table[EntryOf(k, Least(empty))] \notin Idx
      BY <2>1, Sentinels
  <2> HIDE DEF empty
  <2> QED  BY <1>2, <2>2, <2>3, <2>4
<1>5. CASE tombs = {} /\ empty = {}
  <2>1. \A i \in Idx : table[EntryOf(k, i)] # HASH_EMPTY
      BY <1>5
  <2>2. Chain(k) = Idx
    <3>1. \A i \in Idx : \A j \in 0 .. i : j \in Idx
        BY DiskAssumption DEF Idx
    <3> QED  BY <2>1, <3>1 DEF Chain
  <2>3. \A i \in Idx : table[EntryOf(k, i)] # HASH_TOMBSTONE
      BY <1>5, <2>2
  <2>4. \A e \in Idx : Listed(e)
    <3>1. ASSUME NEW e \in Idx PROVE table[e] \in Idx
      <4>1. PICK i \in Idx : EntryOf(k, i) = e
          BY EntryOfOnce
      <4>2. table[e] # HASH_EMPTY /\ table[e] # HASH_TOMBSTONE
          BY <2>1, <2>3, <4>1
      <4> QED  BY <4>2 DEF TypeOK
    <3> QED  BY <3>1 DEF Listed
  <2>5. table \in [Idx -> Idx \ {s}]
      BY <2>4 DEF TypeOK, Listed, InTable
  <2>6. IsFiniteSet(Idx) /\ Cardinality(Idx) \in Nat
    <3>1. SlotCount - 1 \in Int
        BY DiskAssumption
    <3>2. IsFiniteSet(Idx)
        BY <3>1, FS_Interval DEF Idx
    <3> QED  BY <3>2, FS_CardinalityType
  <2>7. IsFiniteSet(Idx \ {s}) /\ Cardinality(Idx \ {s}) = Cardinality(Idx) - 1
      BY <2>6, FS_RemoveElement
  <2>8. Cardinality(Idx \ {s}) < Cardinality(Idx)
      BY <2>6, <2>7
  <2>9. \E d, e \in Idx : d # e /\ table[d] = table[e]
      BY <2>5, <2>6, <2>7, <2>8, FS_PigeonHole
  <2> QED  BY <2>4, <2>9 DEF TableInv
<1> QED  BY <1>3, <1>4, <1>5

\* Steps that leave the table, the slots and the owner's progress alone, or end
\* what the owner does.
Busy == {"unlink", "fill", "copy", "ready", "publish", "unlock", "wipetable", "wiped"}
Pending == {"unlink", "publish", "wipetable"}

LEMMA FrameStep ==
    ASSUME BaseInv, ChainInv, table' = table, slot' = slot, orphan' = orphan,
           \A t \in Threads :
             /\ pc'[t] \in Busy => /\ pc'[t] = pc[t] /\ at'[t] = at[t]
                                   /\ entry'[t] = entry[t] /\ key'[t] = key[t]
             /\ pc[t] \in Pending => pc'[t] = pc[t] /\ at'[t] = at[t]
    PROVE  ChainInv'
<1>1. TableInv'
    BY DEF ChainInv, TableInv, Listed, Reachable
<1>2. ASSUME NEW t \in Threads PROVE OwnerOf(t)'
    BY DEF ChainInv, OwnerOf, Adding, Updating, NoMatch, InTable, Listed, Reachable,
           Busy
<1>3. StateInv'
    BY DEF ChainInv, StateInv, InTable, Pending
<1> QED  BY <1>1, <1>2, <1>3 DEF ChainInv

\* A step that changes no entry, and no key of a slot in the table.
LEMMA KeysKept ==
    ASSUME TableInv, table' = table,
           \A e \in Idx : table[e] \in Idx => slot'[table[e]].key = slot[table[e]].key
    PROVE  TableInv'
<1>1. ASSUME NEW e \in Idx, table'[e] \in Idx
      PROVE  slot'[table'[e]].key \in Keys /\ Reachable(slot[table[e]].key, e)'
  <2>1. PICK k \in Keys : k = slot[table[e]].key /\ Reachable(k, e)
      BY <1>1 DEF TableInv, Listed
  <2>2. slot'[table'[e]].key = k /\ Reachable(k, e)'
      BY <1>1, <2>1 DEF Reachable
  <2> QED  BY <1>1, <2>2
<1>2. \A d, e \in Idx :
          /\ table'[d] \in Idx /\ table'[e] \in Idx
          /\ slot'[table'[d]].key = slot'[table'[e]].key
          => d = e
    BY DEF TableInv, Listed
<1> QED  BY <1>1, <1>2 DEF TableInv, Listed

\* A step of the owner is about the owner only.
LEMMA OwnerStep ==
    ASSUME BaseInv, NEW t \in Threads, pc[t] \in InStore \cup InReset, Others(t),
           TableInv', OwnerOf(t)', StateInv'
    PROVE  ChainInv'
<1>1. ASSUME NEW u \in Threads \ {t} PROVE OwnerOf(u)'
  <2>1. pc'[u] = pc[u] /\ pc[u] \notin InStore \cup InReset
      BY OneOwner DEF Others
  <2> QED  BY <2>1 DEF OwnerOf, Adding, Updating, InStore, InReset
<1> QED  BY <1>1 DEF ChainInv

\* While the owner is past its exceptions, states say what is in the table.
LEMMA StateOf ==
    ASSUME BaseInv, ChainInv, NEW t \in Threads, pc[t] \in InStore \cup InReset,
           NEW s \in Idx
    PROVE  /\ slot[s].state = "READY" /\ ~(pc[t] = "publish" /\ at[t] = s)
                => InTable(s)
           /\ slot[s].state \in {"EMPTY", "EVICTED"} /\ pc[t] # "wipetable"
              /\ ~(pc[t] = "unlink" /\ at[t] = s)
                => ~InTable(s)
<1>1. ~orphan /\ \A u \in Threads \ {t} : pc[u] \notin InStore \cup InReset
    BY OneOwner
<1>2. /\ \A u \in Threads : pc[u] = "publish" /\ at[u] = s
                            => pc[t] = "publish" /\ at[t] = s
      /\ \A u \in Threads : pc[u] = "unlink" /\ at[u] = s
                            => pc[t] = "unlink" /\ at[t] = s
      /\ \A u \in Threads : pc[u] = "wipetable" => pc[t] = "wipetable"
    BY <1>1 DEF InStore, InReset
<1>3. StateInv /\ ~orphan
    BY <1>1 DEF ChainInv
<1>4. /\ slot[s].state = "READY" =>
            InTable(s) \/ \E u \in Threads : pc[u] = "publish" /\ at[u] = s
      /\ slot[s].state \in {"EMPTY", "EVICTED"} /\ InTable(s) =>
            \E u \in Threads : \/ pc[u] = "unlink" /\ at[u] = s
                               \/ pc[u] = "wipetable"
    BY <1>3 DEF StateInv
<1>5. (\E u \in Threads : pc[u] = "publish" /\ at[u] = s)
        => pc[t] = "publish" /\ at[t] = s
    BY <1>2
<1>6. (\E u \in Threads : (pc[u] = "unlink" /\ at[u] = s) \/ pc[u] = "wipetable")
        => (pc[t] = "unlink" /\ at[t] = s) \/ pc[t] = "wipetable"
    BY <1>2
<1> QED  BY <1>4, <1>5, <1>6

\* The steps of store up to the choice of the slot.
LEMMA UpdateChain ==
    ASSUME BaseInv, BaseInv', ChainInv, NEW t \in Threads, UpdateInPlace(t)
    PROVE  ChainInv'
<1>1. pc[t] = "choose" /\ key[t] \in Keys /\ TypeOK /\ TableInv
    BY DEF UpdateInPlace, Goto, BaseInv, CallInv, InStore, ChainInv
<1>0. PICK e \in Idx : /\ e = EntryOf(key[t], Least(Matches(key[t])))
                       /\ table[e] \in Idx /\ slot[table[e]].key = key[t]
  <2>1. Least(Matches(key[t])) \in Matches(key[t])
      BY <1>1, MatchesOf, FirstProbe DEF UpdateInPlace
  <2> QED  BY <1>1, <2>1, MatchesOf DEF Listed
<1>2. PICK s \in Idx : s = table[e] /\ slot[s].key = key[t]
    BY <1>0
<1>3. /\ at' = [at EXCEPT ![t] = s] /\ slot' = [slot EXCEPT ![s].state = "FILLING"]
      /\ entry' = [entry EXCEPT ![t] = None] /\ pc' = [pc EXCEPT ![t] = "copy"]
      /\ UNCHANGED <<table, key, orphan>>
    BY <1>0, <1>2 DEF UpdateInPlace, Goto
<1>4. /\ slot'[s].state = "FILLING"
      /\ \A i \in Idx \ {s} : slot'[i] = slot[i]
      /\ \A i \in Idx : slot'[i].key = slot[i].key
    BY SMTT(60), <1>1, <1>2, <1>3 DEF TypeOK
<1>5. at'[t] = s /\ entry'[t] = None /\ pc'[t] = "copy" /\ key'[t] = key[t] /\ Others(t)
    BY <1>1, <1>3 DEF TypeOK, Others
<1>6. TableInv'
    BY <1>1, <1>3, <1>4, KeysKept
<1>7. InTable(s) /\ InTable(s)'
  <2>1. table[e] = s /\ table'[e] = s
      BY <1>2, <1>3
  <2> QED  BY <2>1 DEF InTable
<1>8. OwnerOf(t)'
    BY <1>2, <1>4, <1>5, <1>7 DEF OwnerOf, Adding, Updating, InTable
<1>9. StateInv'
  <2>1. \A i \in Idx : /\ slot[i].state = "READY" => InTable(i)
                       /\ slot[i].state \in {"EMPTY", "EVICTED"} => ~InTable(i)
      BY <1>1, StateOf DEF InStore
  <2> QED  BY <1>3, <1>4, <2>1 DEF StateInv, InTable
<1> QED  BY <1>1, <1>5, <1>6, <1>8, <1>9, OwnerStep DEF InStore

LEMMA TakeChain ==
    ASSUME BaseInv, BaseInv', ChainInv, NEW t \in Threads, TakeFreeSlot(t)
    PROVE  ChainInv'
<1>1. pc[t] = "choose" /\ key[t] \in Keys /\ TypeOK /\ TableInv
    BY DEF TakeFreeSlot, Goto, BaseInv, CallInv, InStore, ChainInv
<1>2. PICK s \in Idx : s = Least(FreeSlots) /\ slot[s].state \in {"EMPTY", "EVICTED"}
  <2>1. Least(FreeSlots) \in FreeSlots
      BY FirstProbe DEF TakeFreeSlot, FreeSlots
  <2> QED  BY <2>1 DEF FreeSlots
<1>3. /\ at' = [at EXCEPT ![t] = s] /\ pc' = [pc EXCEPT ![t] = "fill"]
      /\ UNCHANGED <<table, slot, key, entry, orphan>>
    BY <1>2 DEF TakeFreeSlot, Goto, store, history
<1>4. at'[t] = s /\ pc'[t] = "fill" /\ key'[t] = key[t] /\ Others(t)
    BY <1>1, <1>3 DEF TypeOK, Others
<1>5. TableInv'
    BY <1>1, <1>3, KeysKept
<1>6. ~InTable(s) /\ NoMatch(key[t])
  <2>1. ~InTable(s)
      BY <1>1, <1>2, StateOf DEF InStore
  <2>2. Matches(key[t]) = {}
      BY DEF TakeFreeSlot
  <2> QED  BY <1>1, <2>1, <2>2, MatchesOf
<1>7. OwnerOf(t)'
    BY <1>2, <1>3, <1>4, <1>6 DEF OwnerOf, Adding, Updating, InTable, NoMatch, Listed
<1>8. StateInv'
  <2>1. \A i \in Idx : /\ slot[i].state = "READY" => InTable(i)
                       /\ slot[i].state \in {"EMPTY", "EVICTED"} => ~InTable(i)
      BY <1>1, StateOf DEF InStore
  <2> QED  BY <1>3, <2>1 DEF StateInv, InTable
<1> QED  BY <1>1, <1>4, <1>5, <1>7, <1>8, OwnerStep DEF InStore

LEMMA EvictChain ==
    ASSUME BaseInv, BaseInv', ChainInv, NEW t \in Threads, EvictOldest(t)
    PROVE  ChainInv'
<1>1. pc[t] = "choose" /\ key[t] \in Keys /\ TypeOK /\ TableInv
    BY DEF EvictOldest, Goto, BaseInv, CallInv, InStore, ChainInv
<1>2. PICK s \in Idx : s = Oldest
    BY <1>1, OldestIsSlot
<1>3. /\ at' = [at EXCEPT ![t] = s] /\ slot' = [slot EXCEPT ![s].state = "EVICTED"]
      /\ pc' = [pc EXCEPT ![t] = "unlink"]
      /\ UNCHANGED <<table, key, entry, orphan>>
    BY <1>2 DEF EvictOldest, Goto, history
<1>4. /\ slot'[s].state = "EVICTED"
      /\ \A i \in Idx \ {s} : slot'[i] = slot[i]
      /\ \A i \in Idx : slot'[i].key = slot[i].key
    BY SMTT(60), <1>1, <1>2, <1>3 DEF TypeOK
<1>5. at'[t] = s /\ pc'[t] = "unlink" /\ key'[t] = key[t] /\ Others(t)
    BY <1>1, <1>3 DEF TypeOK, Others
<1>6. TableInv'
    BY <1>1, <1>3, <1>4, KeysKept
<1>7. NoMatch(key[t])'
  <2>1. NoMatch(key[t])
      BY <1>1, MatchesOf DEF EvictOldest
  <2> QED  BY <1>3, <1>4, <1>5, <2>1 DEF NoMatch, Listed
<1>8. OwnerOf(t)'
    BY <1>4, <1>5, <1>7 DEF OwnerOf, Adding, Updating
<1>9. StateInv'
  <2>1. \A i \in Idx : /\ slot[i].state = "READY" => InTable(i)
                       /\ slot[i].state \in {"EMPTY", "EVICTED"} => ~InTable(i)
      BY <1>1, StateOf DEF InStore
  <2> QED  BY <1>3, <1>4, <1>5, <2>1 DEF StateInv, InTable
<1> QED  BY <1>1, <1>5, <1>6, <1>8, <1>9, OwnerStep DEF InStore

\* The tombstone leaves the chains of other keys as they are, and the victim is
\* in the table no more.
LEMMA UnlinkChain ==
    ASSUME BaseInv, BaseInv', ChainInv, NEW t \in Threads, Unlink(t)
    PROVE  ChainInv'
<1>1. /\ pc[t] = "unlink" /\ key[t] \in Keys /\ at[t] \in Idx /\ TypeOK /\ TableInv
      /\ slot[at[t]].state = "EVICTED" /\ NoMatch(key[t])
    BY DEF Unlink, Goto, BaseInv, CallInv, InStore, ChainInv, OwnerOf, WithSlot
<1>2. PICK s \in Idx : s = at[t]
    BY <1>1
<1>3. /\ pc' = [pc EXCEPT ![t] = "fill"]
      /\ UNCHANGED <<slot, at, key, entry, orphan>>
    BY DEF Unlink, Goto, locals, history
<1>4. at'[t] = s /\ pc'[t] = "fill" /\ key'[t] = key[t] /\ Others(t)
    BY <1>1, <1>2, <1>3 DEF TypeOK, Others
<1>5. /\ \A e \in Idx : table'[e] = IF table[e] = s THEN HASH_TOMBSTONE ELSE table[e]
  <2>1. CASE ~InTable(s)
    <3> DEFINE gone == EntryOf(slot[s].key, Least(EvictedEntry(s)))
    <3>1. table' = table \/ (/\ EvictedEntry(s) # {}
                             /\ table' = [table EXCEPT ![gone] = HASH_TOMBSTONE])
        BY <1>2 DEF Unlink
    <3>2. EvictedEntry(s) # {} => table[gone] = s
      <4>1. EvictedEntry(s) \in SUBSET Idx
          BY DEF EvictedEntry, Chain
      <4>2. EvictedEntry(s) # {} => Least(EvictedEntry(s)) \in EvictedEntry(s)
          BY <4>1, FirstProbe
      <4> QED  BY <4>2 DEF EvictedEntry
    <3> HIDE DEF gone
    <3>3. \A e \in Idx : table[e] # s
        BY <2>1 DEF InTable
    <3>4. \A e \in Idx : table'[e] = table[e]
        BY <1>1, <3>1, <3>2, <3>3 DEF TypeOK
    <3> QED  BY <3>3, <3>4
  <2>2. CASE InTable(s)
    <3>1. PICK e \in Idx : table[e] = s
        BY <2>2 DEF InTable
    <3>2. PICK k \in Keys : k = slot[s].key /\ Reachable(k, e)
        BY <1>1, <3>1 DEF TableInv, Listed
    <3>3. PICK p \in Idx : EntryOf(k, p) = e
        BY EntryOfOnce
    <3>4. p \in Chain(k)
      <4>1. \A j \in 0 .. p : j \in Idx /\ (j < p \/ j = p)
          BY DiskAssumption DEF Idx
      <4>2. \A j \in 0 .. p : table[EntryOf(k, j)] # HASH_EMPTY
          BY <3>1, <3>2, <3>3, <4>1, Sentinels DEF Reachable
      <4> QED  BY <4>2 DEF Chain
    <3>5. \A d \in Idx : table[d] = s => d = e
        BY <1>1, <3>1 DEF TableInv, Listed
    <3>6. EvictedEntry(s) = {p}
      <4>1. p \in EvictedEntry(s)
          BY <3>1, <3>2, <3>3, <3>4 DEF EvictedEntry
      <4>2. ASSUME NEW i \in EvictedEntry(s) PROVE i = p
        <5>1. i \in Idx /\ table[EntryOf(k, i)] = s
            BY <3>2 DEF EvictedEntry, Chain
        <5> QED  BY <3>3, <3>5, <5>1, EntryOfOnce, EntryOfValue
      <4> QED  BY <4>1, <4>2
    <3>7. Least({p}) = p
        BY FirstProbe
    <3>8. table' = [table EXCEPT ![e] = HASH_TOMBSTONE]
        BY <1>2, <3>2, <3>3, <3>6, <3>7 DEF Unlink
    <3> QED  BY <1>1, <3>1, <3>5, <3>8 DEF TypeOK
  <2> QED  BY <2>1, <2>2
<1>6. ~InTable(s)'
    BY <1>5, Sentinels DEF InTable
<1>7. \A e \in Idx : /\ table'[e] \in Idx => table'[e] = table[e]
                     /\ table[e] # HASH_EMPTY => table'[e] # HASH_EMPTY
    BY <1>5, Sentinels DEF HASH_EMPTY, HASH_TOMBSTONE
<1>8. TableInv' /\ NoMatch(key[t])'
  <2>1. \A k \in Keys, e \in Idx : Reachable(k, e) => Reachable(k, e)'
      BY <1>7, EntryOfValue DEF Reachable
  <2>2. \A e \in Idx : Listed(e)' => Listed(e) /\ table'[e] = table[e]
      BY <1>7 DEF Listed
  <2>3. TableInv'
      BY <1>1, <1>3, <2>1, <2>2 DEF TableInv, Listed
  <2>4. NoMatch(key[t])'
      BY <1>1, <1>3, <1>4, <2>2 DEF NoMatch, Listed
  <2> QED  BY <2>3, <2>4
<1>9. OwnerOf(t)'
    BY <1>1, <1>2, <1>3, <1>4, <1>6, <1>8 DEF OwnerOf, Adding, Updating, InTable
<1>10. StateInv'
  <2>1. \A i \in Idx : /\ slot[i].state = "READY" => InTable(i)
                       /\ slot[i].state \in {"EMPTY", "EVICTED"} /\ i # s => ~InTable(i)
      BY <1>1, <1>2, StateOf DEF InStore
  <2>2. \A i \in Idx \ {s} : InTable(i)' <=> InTable(i)
      BY <1>5, Sentinels DEF InTable
  <2>3. slot[s].state # "READY"
      BY <1>1, <1>2
  <2>4. \A i \in Idx : /\ slot'[i].state = "READY" => InTable(i)'
                       /\ slot'[i].state \in {"EMPTY", "EVICTED"} => ~InTable(i)'
      BY <1>3, <1>6, <2>1, <2>2, <2>3
  <2> QED  BY <2>4 DEF StateInv
<1> QED  BY <1>1, <1>4, <1>8, <1>9, <1>10, OwnerStep DEF InStore

\* The steps of write_slot.
LEMMA FillChain ==
    ASSUME BaseInv, BaseInv', ChainInv, NEW t \in Threads, Fill(t)
    PROVE  ChainInv'
<1>1. /\ pc[t] = "fill" /\ key[t] \in Keys /\ at[t] \in Idx /\ TypeOK /\ TableInv
      /\ ~InTable(at[t]) /\ NoMatch(key[t])
    BY DEF Fill, Goto, BaseInv, CallInv, InStore, ChainInv, OwnerOf, WithSlot
<1>2. PICK s \in Idx, e \in Idx :
         /\ s = at[t] /\ e = HashEntry(key[t])
         /\ ~Listed(e) /\ Reachable(key[t], e)
    BY <1>1, HashEntryFree
<1>3. /\ pc' = [pc EXCEPT ![t] = "copy"] /\ entry' = [entry EXCEPT ![t] = e]
      /\ slot' = [slot EXCEPT ![s].state = "FILLING"]
      /\ UNCHANGED <<table, at, key, orphan>>
    BY <1>2 DEF Fill, Goto
<1>4. /\ slot'[s].state = "FILLING"
      /\ \A i \in Idx \ {s} : slot'[i] = slot[i]
      /\ \A i \in Idx : slot'[i].key = slot[i].key
    BY <1>1, <1>3 DEF TypeOK
<1>5. /\ at'[t] = s /\ pc'[t] = "copy" /\ key'[t] = key[t] /\ entry'[t] = e
      /\ e # None /\ Others(t)
    BY <1>1, <1>2, <1>3, DiskAssumption DEF TypeOK, Others, Idx
<1>6. TableInv'
    BY <1>1, <1>3, <1>4, KeysKept
<1>7. ~InTable(s)' /\ NoMatch(key[t])' /\ ~Listed(e)' /\ Reachable(key[t], e)'
    BY <1>1, <1>2, <1>3, <1>4, <1>5 DEF InTable, NoMatch, Listed, Reachable
<1>8. OwnerOf(t)'
  <2>1. ~Listed(entry[t])' /\ Reachable(key[t], entry[t])' /\ ~InTable(at[t])'
      BY <1>2, <1>3, <1>5, <1>1 DEF InTable, Listed, Reachable
  <2> QED  BY <1>4, <1>5, <1>7, <2>1 DEF OwnerOf, Adding, Updating
<1>9. StateInv'
  <2>1. \A i \in Idx : /\ slot[i].state = "READY" => InTable(i)
                       /\ slot[i].state \in {"EMPTY", "EVICTED"} => ~InTable(i)
      BY <1>1, StateOf DEF InStore
  <2> QED  BY <1>3, <1>4, <2>1 DEF StateInv, InTable
<1> QED  BY <1>1, <1>5, <1>6, <1>8, <1>9, OwnerStep DEF InStore

LEMMA CopyChain ==
    ASSUME BaseInv, BaseInv', ChainInv, NEW t \in Threads, Copy(t)
    PROVE  ChainInv'
<1>1. /\ pc[t] = "copy" /\ key[t] \in Keys /\ at[t] \in Idx /\ TypeOK /\ TableInv
      /\ slot[at[t]].state = "FILLING" /\ OwnerOf(t)
    BY DEF Copy, Goto, BaseInv, CallInv, InStore, ChainInv, OwnerOf, WithSlot
<1>2. PICK s \in Idx : s = at[t]
    BY <1>1
<1>3. /\ pc' = [pc EXCEPT ![t] = "ready"]
      /\ slot' = [slot EXCEPT ![s].key = key[t], ![s].hdr = ver[t], ![s].body = ver[t]]
      /\ UNCHANGED <<table, at, key, entry, orphan>>
    BY <1>2 DEF Copy, Goto, locals, history
<1>4. /\ slot'[s].state = "FILLING" /\ slot'[s].key = key[t]
      /\ \A i \in Idx \ {s} : slot'[i] = slot[i]
      /\ \A i \in Idx : slot'[i].state = slot[i].state
    BY <1>1, <1>2, <1>3 DEF TypeOK
<1>5. /\ at'[t] = s /\ pc'[t] = "ready" /\ key'[t] = key[t] /\ entry'[t] = entry[t]
      /\ Others(t)
    BY <1>1, <1>2, <1>3 DEF TypeOK, Others
<1>6. slot[s].key = key[t] \/ ~InTable(s)
    BY <1>1, <1>2 DEF OwnerOf, Adding, Updating
<1>7. \A e \in Idx : Listed(e) => slot'[table[e]].key = slot[table[e]].key
    BY <1>4, <1>6 DEF Listed, InTable
<1>8. TableInv'
    BY <1>1, <1>3, <1>7, KeysKept DEF Listed
<1>9. OwnerOf(t)'
  <2>1. CASE entry[t] = None
    <3>1. InTable(s)'
        BY <1>1, <1>2, <1>3, <2>1 DEF OwnerOf, Updating, InTable
    <3> QED
        BY <1>2, <1>3, <1>4, <1>5, <2>1, <3>1 DEF OwnerOf, Adding, Updating, InTable
  <2>2. CASE entry[t] # None
    <3>1. /\ ~InTable(s) /\ NoMatch(key[t]) /\ ~Listed(entry[t])
          /\ Reachable(key[t], entry[t])
        BY <1>1, <1>2, <2>2 DEF OwnerOf, Adding
    <3>2. /\ ~InTable(at[t])' /\ NoMatch(key[t])' /\ ~Listed(entry[t])'
          /\ Reachable(key[t], entry[t])'
        BY <1>2, <1>3, <1>5, <1>7, <3>1 DEF InTable, NoMatch, Listed, Reachable
    <3> QED
        BY <1>2, <1>4, <1>5, <2>2, <3>2 DEF OwnerOf, Adding, Updating
  <2> QED  BY <2>1, <2>2
<1>10. StateInv'
  <2>1. \A i \in Idx : /\ slot[i].state = "READY" => InTable(i)
                       /\ slot[i].state \in {"EMPTY", "EVICTED"} => ~InTable(i)
      BY <1>1, StateOf DEF InStore
  <2> QED  BY <1>3, <1>4, <2>1 DEF StateInv, InTable
<1> QED  BY <1>1, <1>5, <1>8, <1>9, <1>10, OwnerStep DEF InStore

LEMMA ReadyChain ==
    ASSUME BaseInv, BaseInv', ChainInv, NEW t \in Threads, Ready(t)
    PROVE  ChainInv'
<1> DEFINE to == IF entry[t] = None THEN "unlock" ELSE "publish"
<1>1. /\ pc[t] = "ready" /\ key[t] \in Keys /\ at[t] \in Idx /\ TypeOK /\ TableInv
      /\ slot[at[t]].key = key[t] /\ OwnerOf(t)
    BY DEF Ready, Goto, BaseInv, CallInv, InStore, ChainInv, OwnerOf, WithSlot
<1>2. PICK s \in Idx : s = at[t]
    BY <1>1
<1>3. /\ pc' = [pc EXCEPT ![t] = to]
      /\ slot' = [slot EXCEPT ![s].ts = now, ![s].state = "READY"]
      /\ UNCHANGED <<table, at, key, entry, orphan>>
    BY <1>2 DEF Ready, Goto, locals, history
<1>4. /\ slot'[s].state = "READY"
      /\ \A i \in Idx \ {s} : slot'[i] = slot[i]
      /\ \A i \in Idx : slot'[i].key = slot[i].key
    BY SMTT(60), <1>1, <1>2, <1>3 DEF TypeOK
<1>5. /\ at'[t] = s /\ pc'[t] = to /\ key'[t] = key[t] /\ entry'[t] = entry[t]
      /\ Others(t)
    BY <1>1, <1>2, <1>3 DEF TypeOK, Others
<1>6. TableInv'
    BY <1>1, <1>3, <1>4, KeysKept
<1>7. slot'[s].key = key[t]
    BY <1>1, <1>2, <1>4
<1>8. OwnerOf(t)'
  <2>1. CASE entry[t] = None
    <3>1. pc'[t] = "unlock"
        BY <1>5, <2>1
    <3> QED
        BY <1>4, <1>5, <1>7, <3>1 DEF OwnerOf, Adding, Updating
  <2>2. CASE entry[t] # None
    <3>1. /\ ~InTable(s) /\ NoMatch(key[t]) /\ ~Listed(entry[t])
          /\ Reachable(key[t], entry[t])
        BY <1>1, <1>2, <2>2 DEF OwnerOf, Adding
    <3>2. ~InTable(at[t])' /\ ~Listed(entry[t])' /\ Reachable(key[t], entry[t])'
        BY <1>2, <1>3, <1>5, <3>1 DEF InTable, Listed, Reachable
    <3>4. NoMatch(key[t])'
      <4>1. \A e \in Idx : table[e] \in Idx => slot'[table[e]].key # key[t]
          BY <1>4, <3>1 DEF NoMatch, Listed
      <4> QED  BY <1>3, <1>5, <4>1 DEF NoMatch, Listed
    <3>3. pc'[t] = "publish"
        BY <1>5, <2>2
    <3> QED
        BY <1>4, <1>5, <1>7, <3>2, <3>3, <3>4 DEF OwnerOf, Adding, Updating
  <2> QED  BY <2>1, <2>2
<1>9. StateInv'
  <2>1. \A i \in Idx : /\ slot[i].state = "READY" => InTable(i)
                       /\ slot[i].state \in {"EMPTY", "EVICTED"} => ~InTable(i)
      BY <1>1, StateOf DEF InStore
  <2>2. InTable(s)' \/ (pc'[t] = "publish" /\ at'[t] = s)
      BY <1>1, <1>2, <1>3, <1>5 DEF OwnerOf, Updating, InTable
  <2>3. \A i \in Idx \ {s} : /\ slot'[i].state = "READY" => InTable(i)'
                             /\ slot'[i].state \in {"EMPTY", "EVICTED"} => ~InTable(i)'
      BY <1>3, <1>4, <2>1 DEF InTable
  <2> QED  BY <1>4, <2>2, <2>3 DEF StateInv
<1> QED  BY <1>1, <1>5, <1>6, <1>8, <1>9, OwnerStep DEF InStore

\* The new entry makes no chain shorter, and it is in reach of its key.
LEMMA PublishChain ==
    ASSUME BaseInv, BaseInv', ChainInv, NEW t \in Threads, Publish(t)
    PROVE  ChainInv'
<1>1. /\ pc[t] = "publish" /\ key[t] \in Keys /\ at[t] \in Idx /\ entry[t] \in Idx
      /\ TypeOK /\ TableInv
      /\ slot[at[t]].state = "READY" /\ slot[at[t]].key = key[t]
      /\ ~InTable(at[t]) /\ NoMatch(key[t]) /\ ~Listed(entry[t])
      /\ Reachable(key[t], entry[t])
    BY DEF Publish, Goto, BaseInv, CallInv, InStore, ChainInv, OwnerOf, WithSlot, Adding
<1>2. PICK s \in Idx, e \in Idx : s = at[t] /\ e = entry[t]
    BY <1>1
<1>3. /\ pc' = [pc EXCEPT ![t] = "unlock"]
      /\ table' = [table EXCEPT ![e] = s]
      /\ UNCHANGED <<slot, at, key, entry, orphan>>
    BY <1>2 DEF Publish, Goto, locals, history
<1>4. /\ table'[e] = s /\ \A d \in Idx \ {e} : table'[d] = table[d]
      /\ at'[t] = s /\ pc'[t] = "unlock" /\ key'[t] = key[t] /\ Others(t)
    BY <1>1, <1>2, <1>3 DEF TypeOK, Others
<1>5. \A d \in Idx : table[d] # HASH_EMPTY => table'[d] # HASH_EMPTY
    BY <1>4, Sentinels
<1>6. \A k \in Keys, d \in Idx : Reachable(k, d) => Reachable(k, d)'
    BY <1>5, EntryOfValue DEF Reachable
<1>7. /\ \A d \in Idx : Listed(d)' => d = e \/ Listed(d)
      /\ \A d \in Idx : Listed(d) => d # e /\ Listed(d)'
    BY <1>1, <1>2, <1>4 DEF Listed
<1>8. TableInv'
  <2>1. ASSUME NEW d \in Idx, table'[d] \in Idx
        PROVE  slot'[table'[d]].key \in Keys /\ Reachable(slot[table[d]].key, d)'
    <3>1. PICK k \in Keys : k = slot[table'[d]].key /\ Reachable(k, d)
        BY <1>1, <1>2, <1>4, <2>1 DEF TableInv, Listed
    <3>2. Reachable(k, d)'
        BY <1>6, <3>1
    <3>3. slot'[table'[d]].key = k
        BY <1>3, <3>1
    <3> QED  BY <3>1, <3>2, <3>3 DEF Reachable
  <2>2. \A c, d \in Idx : /\ table'[c] \in Idx /\ table'[d] \in Idx
                          /\ slot'[table'[c]].key = slot'[table'[d]].key
                          => c = d
      BY <1>1, <1>2, <1>3, <1>4 DEF TableInv, NoMatch, Listed
  <2> QED  BY <2>1, <2>2 DEF TableInv, Listed
<1>9. OwnerOf(t)'
    BY <1>1, <1>2, <1>3, <1>4 DEF OwnerOf, Adding, Updating
<1>10. StateInv'
  <2>1. \A i \in Idx \ {s} : /\ slot[i].state = "READY" => InTable(i)
                             /\ slot[i].state \in {"EMPTY", "EVICTED"} => ~InTable(i)
      BY <1>1, <1>2, StateOf DEF InStore
  <2>2. \A i \in Idx \ {s} : InTable(i)' <=> InTable(i)
      BY <1>1, <1>2, <1>4 DEF InTable, Listed
  <2>3. InTable(s)' /\ slot[s].state = "READY"
      BY <1>1, <1>2, <1>4 DEF InTable
  <2> QED  BY <1>3, <2>1, <2>2, <2>3 DEF StateInv
<1> QED  BY <1>1, <1>4, <1>8, <1>9, <1>10, OwnerStep DEF InStore

LEMMA UnlockChain ==
    ASSUME BaseInv, ChainInv, NEW t \in Threads, Unlock(t)
    PROVE  ChainInv'
<1>1. /\ pc[t] = "unlock" /\ pc' = [pc EXCEPT ![t] = "idle"]
      /\ at' = [at EXCEPT ![t] = None] /\ entry' = [entry EXCEPT ![t] = None]
      /\ key' = [key EXCEPT ![t] = None] /\ UNCHANGED <<table, slot, orphan>>
    BY DEF Unlock, Goto, Forget
<1>2. pc'[t] = "idle" /\ Others(t)
    BY <1>1 DEF Others, BaseInv, TypeOK
<1> QED  BY <1>1, <1>2, FrameStep DEF Others, Busy, Pending

\* A request, the wait for the lock, and the steps of reset that touch no slot.
LEMMA ServeChain ==
    ASSUME BaseInv, ChainInv, NEW t \in Threads,
           Serve(t) \/ (\E k \in Keys : HttpEnd(t, k)) \/ Lock(t)
    PROVE  ChainInv'
<1> USE DEF store, locals, history, bounds
<1>1. TypeOK
    BY DEF BaseInv
<1>2. UNCHANGED <<table, slot, orphan>>
    BY DEF Serve, Fetch, ProbeOn, LookupNone, LookupHit, ReadGone, ReadLengths,
           ReadHeaders, ReadBody, SendDone, HttpEnd, Lock
<1>3. Others(t)
    BY <1>1 DEF Serve, Fetch, ProbeOn, LookupNone, LookupHit, ReadGone, ReadLengths,
           ReadHeaders, ReadBody, SendDone, HttpEnd, Lock, Goto, Forget, Others, TypeOK
<1>4. pc[t] \notin Pending /\ pc'[t] \notin Busy
    BY ZenonT(60), <1>1 DEF Serve, Fetch, ProbeOn, LookupNone, LookupHit, ReadGone, ReadLengths,
           ReadHeaders, ReadBody, SendDone, HttpEnd, Lock, Goto, TypeOK, Pending, Busy
<1> QED  BY <1>2, <1>3, <1>4, FrameStep DEF Others

LEMMA ResetChain ==
    ASSUME BaseInv, BaseInv', ChainInv, NEW t \in Threads, Reset(t)
    PROVE  ChainInv'
<1> USE DEF locals, history, bounds
<1>0. TypeOK /\ TableInv
    BY DEF BaseInv, ChainInv
<1>1. CASE ResetLock(t)
  <2>1. UNCHANGED <<table, slot, orphan, at, entry, key>>
      BY <1>1 DEF ResetLock
  <2>2. pc[t] = "idle" /\ pc'[t] = "wipe" /\ \A u \in Threads \ {t} : pc'[u] = pc[u]
      BY <1>0, <1>1 DEF ResetLock, Goto, TypeOK
  <2> QED  BY <2>1, <2>2, FrameStep DEF Busy, Pending
<1>2. CASE ResetUnlock(t)
  <2>1. UNCHANGED <<table, slot, orphan, at, entry, key>>
      BY <1>2 DEF ResetUnlock
  <2>2. pc[t] = "wiped" /\ pc'[t] = "idle" /\ \A u \in Threads \ {t} : pc'[u] = pc[u]
      BY <1>0, <1>2 DEF ResetUnlock, Goto, TypeOK
  <2> QED  BY <2>1, <2>2, FrameStep DEF Busy, Pending
<1>3. CASE ResetStates(t)
  <2>1. /\ pc[t] = "wipe" /\ pc'[t] = "wipetable" /\ Others(t)
        /\ UNCHANGED <<table, key, orphan>>
      BY <1>0, <1>3 DEF ResetStates, Goto, Others, TypeOK
  <2>2. \A s \in Idx : slot'[s].state = "EMPTY" /\ slot'[s].key = slot[s].key
    <3>1. slot' = [i \in Idx |-> [slot[i] EXCEPT !.state = "EMPTY"]]
        BY <1>3 DEF ResetStates
    <3>2. ASSUME NEW s \in Idx
          PROVE  slot'[s].state = "EMPTY" /\ slot'[s].key = slot[s].key
      <4>1. slot[s] \in SlotType
          BY <1>0 DEF TypeOK, SlotType
      <4>2. slot'[s] = [slot[s] EXCEPT !.state = "EMPTY"]
          BY <3>1
      <4> QED  BY <4>1, <4>2 DEF SlotType
    <3> QED  BY <3>2
  <2>3. TableInv'
      BY <1>0, <2>1, <2>2, KeysKept
  <2>4. OwnerOf(t)'
      BY <2>1, <2>2 DEF OwnerOf, Adding, Updating
  <2>5. StateInv'
      BY <2>1, <2>2 DEF StateInv
  <2> QED  BY <2>1, <2>3, <2>4, <2>5, OwnerStep DEF InReset
<1>4. CASE ResetTable(t)
  <2>1. /\ pc[t] = "wipetable" /\ pc'[t] = "wiped" /\ Others(t)
        /\ UNCHANGED <<slot, key, orphan>>
      BY <1>0, <1>4 DEF ResetTable, Goto, Others, TypeOK
  <2>2. \A e \in Idx : table'[e] = HASH_EMPTY
      BY <1>4 DEF ResetTable
  <2>3. \A s \in Idx : slot'[s].state = "EMPTY"
      BY <2>1 DEF ChainInv, OwnerOf
  <2>4. TableInv'
      BY <2>2, Sentinels DEF TableInv, Listed
  <2>5. OwnerOf(t)'
      BY <2>1, <2>2, <2>3 DEF OwnerOf, Adding, Updating
  <2>6. StateInv'
      BY <2>2, <2>3, Sentinels DEF StateInv, InTable
  <2> QED  BY <2>1, <2>4, <2>5, <2>6, OwnerStep DEF InReset
<1> QED  BY <1>1, <1>2, <1>3, <1>4 DEF Reset

\* A process that ends inside store leaves the table in order, but not the states.
LEMMA StopChain ==
    ASSUME BaseInv, ChainInv, Stop
    PROVE  ChainInv'
<1>1. /\ UNCHANGED <<table, slot, lock>> /\ orphan' = (lock # None)
      /\ pc' = [t \in Threads |-> "idle"] /\ up
    BY DEF Stop, store
<1>2. TableInv'
    BY <1>1, KeysKept DEF ChainInv
<1>3. \A t \in Threads : OwnerOf(t)'
    BY <1>1 DEF OwnerOf, Adding, Updating
<1>4. StateInv'
  <2>1. CASE lock # None
      BY <1>1, <2>1 DEF StateInv
  <2>2. CASE lock = None
    <3>1. ~orphan /\ \A t \in Threads : pc[t] \notin InStore \cup InReset
        BY <2>2, DiskAssumption DEF BaseInv, CallInv, OrphanInv
    <3>2. \A s \in Idx : /\ slot[s].state = "READY" => InTable(s)
                         /\ slot[s].state \in {"EMPTY", "EVICTED"} => ~InTable(s)
        BY <3>1 DEF ChainInv, StateInv, InStore, InReset
    <3> QED  BY <1>1, <3>2 DEF StateInv, InTable
  <2> QED  BY <2>1, <2>2
<1> QED  BY <1>2, <1>3, <1>4 DEF ChainInv

\* open() starts afresh or takes the file as it is.
LEMMA OpenChain ==
    ASSUME BaseInv, ChainInv, Open
    PROVE  ChainInv'
<1>1. /\ ~up /\ UNCHANGED <<pc, at, entry, key>> /\ orphan' = (orphan /\ lock' # None)
    BY DEF Open, locals
<1>2. CASE NeedsReinit
  <2>1. \A e \in Idx : table'[e] = HASH_EMPTY
      BY <1>2 DEF Open
  <2>2. \A s \in Idx : slot'[s].state = "EMPTY"
      BY <1>2 DEF Open, BaseInv, TypeOK
  <2>3. TableInv'
      BY <2>1, Sentinels DEF TableInv, Listed
  <2>4. \A t \in Threads : pc'[t] \notin InStore \cup InReset
      BY <1>1 DEF BaseInv, CallInv, InStore, InReset, Reading
  <2>5. \A t \in Threads : OwnerOf(t)'
      BY <2>4 DEF OwnerOf, Adding, Updating, InStore, InReset
  <2>6. StateInv'
      BY <2>1, <2>2, Sentinels DEF StateInv, InTable
  <2> QED  BY <2>3, <2>5, <2>6 DEF ChainInv
<1>3. CASE ~NeedsReinit
  <2>1. UNCHANGED <<lock, table, slot>>
      BY <1>3 DEF Open, store
  <2>2. orphan' = orphan
      BY <1>1, <2>1 DEF BaseInv, OrphanInv, TypeOK
  <2> QED  BY <1>1, <2>1, <2>2, FrameStep DEF Pending
<1> QED  BY <1>2, <1>3

LEMMA ChainInit == Init => ChainInv
<1> SUFFICES ASSUME Init PROVE ChainInv
    OBVIOUS
<1>1. TableInv
    BY Sentinels DEF Init, TableInv, Listed
<1>2. \A t \in Threads : OwnerOf(t)
    BY DEF Init, OwnerOf, Adding, Updating
<1>3. StateInv
    BY Sentinels DEF Init, StateInv, InTable, Vacant
<1> QED  BY <1>1, <1>2, <1>3 DEF ChainInv

LEMMA ChainKept == BaseInv /\ BaseInv' /\ ChainInv /\ [Next]_vars => ChainInv'
<1> SUFFICES ASSUME BaseInv, BaseInv', ChainInv, [Next]_vars PROVE ChainInv'
    OBVIOUS
<1>1. ASSUME NEW t \in Threads, Store(t) PROVE ChainInv'
    BY <1>1, ServeChain, UpdateChain, TakeChain, EvictChain, UnlinkChain, FillChain,
       CopyChain, ReadyChain, PublishChain, UnlockChain DEF Store
<1>2. ASSUME NEW t \in Threads, Serve(t) \/ Reset(t) PROVE ChainInv'
    BY <1>2, ServeChain, ResetChain
<1>3. CASE Tick \/ UNCHANGED vars
  <2>1. UNCHANGED <<table, slot, orphan, pc, at, entry, key>>
      BY <1>3 DEF Tick, vars, store, locals, history
  <2> QED  BY <2>1, FrameStep
<1> QED  BY <1>1, <1>2, <1>3, StopChain, OpenChain DEF Next

\* The table is in order at every moment, and the states of the slots say what
\* is in it unless the owner of the lock died.
THEOREM ChainInvariant == Spec => []ChainInv
BY BaseInvariant, ChainInit, ChainKept, PTL DEF Spec

\* A key is never found in two slots, not even by a lookup that runs while a
\* response is being stored.
LEMMA FoundOnce ==
    ASSUME BaseInv, ChainInv, NEW k \in Keys
    PROVE  /\ Found(k) \in SUBSET Idx
           /\ \A r, s \in Found(k) : r = s
           /\ \A s \in Idx : s \in Found(k) <=>
                 slot[s].state = "READY" /\ slot[s].key = k /\ InTable(s)
<1>1. TypeOK /\ TableInv
    BY DEF BaseInv, ChainInv
<1>2. \A i \in Chain(k) : i \in Idx /\ EntryOf(k, i) \in Idx
    BY EntryOfValue DEF Chain
<1>3. ASSUME NEW s \in Found(k)
      PROVE  s \in Idx /\ slot[s].state = "READY" /\ slot[s].key = k /\ InTable(s)
    BY <1>2 DEF Found, Hits, InTable
<1>4. ASSUME NEW s \in Idx, slot[s].state = "READY", slot[s].key = k, InTable(s)
      PROVE  s \in Found(k)
  <2>1. PICK e \in Idx : table[e] = s
      BY <1>4 DEF InTable
  <2>2. Reachable(k, e)
      BY <1>1, <1>4, <2>1 DEF TableInv, Listed
  <2>3. PICK i \in Idx : EntryOf(k, i) = e
      BY EntryOfOnce
  <2>4. i \in Chain(k)
    <3>1. \A j \in 0 .. i : j \in Idx /\ (j < i \/ j = i)
        BY DiskAssumption DEF Idx
    <3>2. \A j \in 0 .. i : table[EntryOf(k, j)] # HASH_EMPTY
        BY <2>1, <2>2, <2>3, <3>1, Sentinels DEF Reachable
    <3> QED  BY <3>2 DEF Chain
  <2> QED  BY <1>4, <2>1, <2>3, <2>4 DEF Found, Hits
<1>5. ASSUME NEW r \in Found(k), NEW s \in Found(k) PROVE r = s
  <2>1. PICK d \in Idx, e \in Idx : table[d] = r /\ table[e] = s
      BY <1>3 DEF InTable
  <2>2. r \in Idx /\ s \in Idx /\ slot[r].key = k /\ slot[s].key = k
      BY <1>3
  <2> QED  BY <1>1, <2>1, <2>2 DEF TableInv, Listed
<1> QED  BY <1>3, <1>4, <1>5

\* Between two stores every response in the file is found under its key, and
\* no key is found in two slots, whatever the evictions, updates, resets and
\* restarts before (store_inner, find_free_slot, find_hash_entry).
THEOREM TableSoundCorrect == Spec => []TableSound
<1>1. BaseInv /\ ChainInv => TableSound
  <2> SUFFICES ASSUME BaseInv, ChainInv, lock = None PROVE
          /\ \A s \in Idx : slot[s].state = "READY" => s \in Found(slot[s].key)
          /\ \A k \in Keys : Cardinality(Found(k)) <= 1
      BY DEF TableSound
  <2>1. ~orphan /\ \A t \in Threads : pc[t] \notin InStore \cup InReset
      BY DiskAssumption DEF BaseInv, CallInv, OrphanInv
  <2>2. ASSUME NEW s \in Idx, slot[s].state = "READY" PROVE s \in Found(slot[s].key)
    <3>1. InTable(s)
        BY <2>1, <2>2 DEF ChainInv, StateInv, InStore
    <3>2. slot[s].key \in Keys
        BY <3>1 DEF ChainInv, TableInv, InTable, Listed
    <3> QED  BY <2>2, <3>1, <3>2, FoundOnce
  <2>3. ASSUME NEW k \in Keys PROVE Cardinality(Found(k)) <= 1
    <3>1. CASE Found(k) = {}
        BY <3>1, FS_EmptySet
    <3>2. CASE Found(k) # {}
      <4>0. \A r, s \in Found(k) : r = s
          BY FoundOnce
      <4>1. PICK s \in Found(k) : TRUE
          BY <3>2
      <4>2. Found(k) = {s}
          BY <4>0, <4>1
      <4>3. Cardinality({s}) = 1
          BY FS_Singleton
      <4> QED  BY <4>2, <4>3
    <3> QED  BY <3>1, <3>2
  <2> QED  BY <2>2, <2>3
<1> QED  BY <1>1, BaseInvariant, ChainInvariant, PTL

-----------------------------------------------------------------------------
(* The responses.                                                          *)

\* A response in slot s that a lookup of k takes: all of one response, which was
\* stored under k.
Holds(s, k) ==
    /\ slot[s].hdr = slot[s].body
    /\ slot[s].body \in 1 .. Len(stored)
    /\ stored[slot[s].body] = k

\* The owner of the lock stores the last response, and at the end it is there.
WriterOf(t) ==
    /\ pc[t] \in InStore => /\ ver[t] = Len(stored) /\ ver[t] \in 1 .. Len(stored)
                            /\ stored[ver[t]] = key[t]
    /\ pc[t] \in {"ready", "publish", "unlock"} => /\ slot[at[t]].hdr = ver[t]
                                                   /\ slot[at[t]].body = ver[t]

\* What a reader has taken is what its slot holds, unless somebody wrote to it;
\* nobody is about to.
CopyingTo(s) == \E t \in Threads : pc[t] = "copy" /\ at[t] = s
InRead == {"check", "headers", "body", "served"}

ReaderOf(t) ==
    /\ pc[t] \in {"fetch", "serve"} => floor[t] <= done[key[t]]
    /\ pc[t] \in InRead /\ quiet[t] =>
          /\ Holds(at[t], key[t]) /\ slot[at[t]].body >= floor[t]
          /\ ~CopyingTo(at[t])
          /\ pc[t] # "check" => seen[t].len = slot[at[t]].body
          /\ pc[t] \in {"body", "served"} => seen[t].hdr = slot[at[t]].hdr
          /\ pc[t] = "served" => seen[t].body = slot[at[t]].body

\* A READY slot holds a whole response, the last one stored under its key.
ContentInv ==
    /\ \A k \in Keys : done[k] <= Len(stored)
    /\ \A s \in Idx : slot[s].state = "READY" =>
          /\ slot[s].key \in Keys /\ Holds(s, slot[s].key)
          /\ slot[s].body >= done[slot[s].key]
    /\ \A t \in Threads : WriterOf(t) /\ ReaderOf(t)

\* A step of one thread that writes no response and makes none READY.
Stays(t) ==
    /\ Others(t)
    /\ \A u \in Threads \ {t} : /\ ver'[u] = ver[u] /\ seen'[u] = seen[u]
                                /\ floor'[u] = floor[u] /\ (quiet'[u] => quiet[u])
SameContent ==
    \A s \in Idx : /\ slot'[s].key = slot[s].key /\ slot'[s].hdr = slot[s].hdr
                   /\ slot'[s].body = slot[s].body
                   /\ (slot'[s].state = "READY" => slot[s].state = "READY")

LEMMA ContentFrame ==
    ASSUME BaseInv, ContentInv, NEW t \in Threads, Stays(t), SameContent,
           stored' = stored, done' = done, WriterOf(t)', ReaderOf(t)',
           pc'[t] = "copy" => \A u \in Threads \ {t} : at[u] = at'[t] => ~quiet'[u]
    PROVE  ContentInv'
<1>1. \A k \in Keys : done'[k] <= Len(stored')
    BY DEF ContentInv
<1>2. \A s \in Idx : slot'[s].state = "READY" =>
          /\ slot'[s].key \in Keys /\ Holds(s, slot[s].key)'
          /\ slot'[s].body >= done'[slot'[s].key]
  <2>1. ASSUME NEW s \in Idx, slot'[s].state = "READY"
        PROVE  /\ slot'[s].key \in Keys /\ Holds(s, slot[s].key)'
               /\ slot'[s].body >= done'[slot'[s].key]
    <3>1. /\ slot'[s].key = slot[s].key /\ slot'[s].hdr = slot[s].hdr
          /\ slot'[s].body = slot[s].body /\ slot[s].state = "READY"
        BY <2>1 DEF SameContent
    <3>2. /\ slot[s].key \in Keys /\ Holds(s, slot[s].key)
          /\ slot[s].body >= done[slot[s].key]
        BY <3>1 DEF ContentInv
    <3> QED  BY <3>1, <3>2 DEF Holds
  <2> QED  BY <2>1
<1>3. ASSUME NEW u \in Threads \ {t} PROVE WriterOf(u)' /\ ReaderOf(u)'
  <2>1. /\ pc'[u] = pc[u] /\ key'[u] = key[u] /\ at'[u] = at[u] /\ ver'[u] = ver[u]
        /\ seen'[u] = seen[u] /\ floor'[u] = floor[u] /\ (quiet'[u] => quiet[u])
      BY DEF Stays, Others
  <2>2. pc[u] \in WithSlot => at[u] \in Idx
      BY DEF BaseInv, CallInv
  <2>3. WriterOf(u) /\ ReaderOf(u)
      BY DEF ContentInv
  <2>4. WriterOf(u)'
    <3>1. pc[u] \in {"ready", "publish", "unlock"} =>
             slot'[at[u]].hdr = slot[at[u]].hdr /\ slot'[at[u]].body = slot[at[u]].body
        BY <2>2 DEF SameContent, WithSlot
    <3> QED  BY <2>1, <2>3, <3>1 DEF WriterOf
  <2>5. ASSUME pc[u] \in InRead, quiet'[u] PROVE ~CopyingTo(at[u])'
    <3>1. ~CopyingTo(at[u])
        BY <2>1, <2>3, <2>5 DEF ReaderOf
    <3>2. \A w \in Threads \ {t} : ~(pc'[w] = "copy" /\ at'[w] = at'[u])
        BY <2>1, <3>1 DEF CopyingTo, Stays, Others
    <3>3. ~(pc'[t] = "copy" /\ at'[t] = at'[u])
        BY <2>1, <2>5
    <3> QED  BY <3>2, <3>3 DEF CopyingTo
  <2>6. ReaderOf(u)'
    <3>1. pc'[u] \in {"fetch", "serve"} => floor'[u] <= done'[key'[u]]
        BY <2>1, <2>3 DEF ReaderOf
    <3>2. ASSUME pc'[u] \in InRead, quiet'[u]
          PROVE  /\ Holds(at[u], key[u])' /\ slot'[at'[u]].body >= floor'[u]
                 /\ ~CopyingTo(at[u])'
                 /\ pc'[u] # "check" => seen'[u].len = slot'[at'[u]].body
                 /\ pc'[u] \in {"body", "served"} => seen'[u].hdr = slot'[at'[u]].hdr
                 /\ pc'[u] = "served" => seen'[u].body = slot'[at'[u]].body
      <4>1. at[u] \in Idx /\ ~CopyingTo(at[u])'
          BY <2>1, <2>2, <2>5, <3>2 DEF InRead, WithSlot
      <4>2. /\ Holds(at[u], key[u]) /\ slot[at[u]].body >= floor[u]
            /\ pc[u] # "check" => seen[u].len = slot[at[u]].body
            /\ pc[u] \in {"body", "served"} => seen[u].hdr = slot[at[u]].hdr
            /\ pc[u] = "served" => seen[u].body = slot[at[u]].body
          BY <2>1, <2>3, <3>2 DEF ReaderOf
      <4>3. slot'[at[u]].hdr = slot[at[u]].hdr /\ slot'[at[u]].body = slot[at[u]].body
          BY <4>1 DEF SameContent
      <4>4. Holds(at[u], key[u])'
          BY <2>1, <4>2, <4>3 DEF Holds
      <4> QED  BY <2>1, <4>1, <4>2, <4>3, <4>4
    <3> QED  BY <3>1, <3>2 DEF ReaderOf
  <2> QED  BY <2>4, <2>6
<1> QED  BY <1>1, <1>2, <1>3 DEF ContentInv

\* A step out of a call, or in one that has nothing to do with responses.
LEMMA IdleContent ==
    ASSUME BaseInv, ContentInv, NEW t \in Threads, Stays(t), SameContent,
           stored' = stored, done' = done, pc'[t] \notin InStore \cup Reading
    PROVE  ContentInv'
<1>1. WriterOf(t)' /\ ReaderOf(t)' /\ pc'[t] # "copy"
    BY DEF WriterOf, ReaderOf, InStore, InRead, Reading
<1> QED  BY <1>1, ContentFrame

\* A step inside store that leaves the contents of the slots alone.
LEMMA StoreContent ==
    ASSUME BaseInv, ContentInv, NEW t \in Threads, Stays(t), SameContent,
           stored' = stored, done' = done, pc[t] \in InStore, pc'[t] \in InStore,
           key'[t] = key[t], ver'[t] = ver[t],
           pc'[t] = "copy" => \A u \in Threads \ {t} : at[u] = at'[t] => ~quiet'[u],
           pc'[t] \in {"ready", "publish", "unlock"} =>
             /\ pc[t] \in {"ready", "publish", "unlock"}
             /\ at[t] \in Idx /\ at'[t] = at[t]
    PROVE  ContentInv'
<1>1. WriterOf(t)
    BY DEF ContentInv
<1>2. WriterOf(t)'
    BY <1>1 DEF WriterOf, SameContent
<1>3. ReaderOf(t)'
    BY DEF ReaderOf, InStore, InRead
<1> QED  BY <1>2, <1>3, ContentFrame

LEMMA StoreStepsContent ==
    ASSUME BaseInv, ChainInv, ContentInv, NEW t \in Threads,
           \/ (\E k \in Keys : HttpEnd(t, k)) \/ UpdateInPlace(t) \/ TakeFreeSlot(t)
           \/ EvictOldest(t) \/ Unlink(t) \/ Fill(t) \/ Publish(t)
    PROVE  ContentInv'
<1>0. TypeOK
    BY DEF BaseInv
<1>1. CASE \E k \in Keys : HttpEnd(t, k)
  <2>1. /\ pc' = [pc EXCEPT ![t] = "spin"] /\ \E k \in Keys : key' = [key EXCEPT ![t] = k]
        /\ UNCHANGED <<slot, stored, done, ver, at, entry, seen, floor, quiet>>
      BY <1>1 DEF HttpEnd, Goto, store, history
  <2>2. Stays(t) /\ SameContent /\ pc'[t] = "spin"
      BY <1>0, <2>1 DEF TypeOK, Stays, Others, SameContent
  <2> QED  BY <2>1, <2>2, IdleContent DEF InStore, Reading
<1>2. CASE UpdateInPlace(t)
  <2>1. PICK s : /\ at' = [at EXCEPT ![t] = s]
                 /\ slot' = [slot EXCEPT ![s].state = "FILLING"]
                 /\ quiet' = [u \in Threads |-> quiet[u] /\ at[u] # s]
      BY <1>2 DEF UpdateInPlace
  <2>2. /\ pc[t] = "choose" /\ pc' = [pc EXCEPT ![t] = "copy"]
        /\ entry' = [entry EXCEPT ![t] = None]
        /\ UNCHANGED <<key, ver, seen, stored, done, floor>>
      BY <1>2 DEF UpdateInPlace, Goto
  <2>3. Stays(t) /\ pc'[t] = "copy"
    <3>1. \A u \in Threads : quiet'[u] => quiet[u]
        BY <2>1
    <3> QED  BY <1>0, <2>1, <2>2, <3>1 DEF TypeOK, Stays, Others
  <2>4. SameContent
    <3>1. \A i \in Idx : \/ slot'[i] = [slot[i] EXCEPT !.state = "FILLING"]
                         \/ slot'[i] = slot[i]
        BY <1>0, <2>1 DEF TypeOK
    <3>2. \A i \in Idx : slot[i] \in SlotType
        BY <1>0 DEF TypeOK, SlotType
    <3> QED  BY <3>1, <3>2 DEF SameContent, SlotType
  <2>5. \A u \in Threads \ {t} : at[u] = at'[t] => ~quiet'[u]
      BY <1>0, <2>1 DEF TypeOK
  <2> QED  BY <2>2, <2>3, <2>4, <2>5, StoreContent DEF InStore
<1>3. CASE TakeFreeSlot(t)
  <2>1. /\ pc[t] = "choose" /\ pc' = [pc EXCEPT ![t] = "fill"]
        /\ at' = [at EXCEPT ![t] = Least(FreeSlots)]
        /\ UNCHANGED <<slot, key, ver, entry, seen, stored, done, floor, quiet>>
      BY <1>3 DEF TakeFreeSlot, Goto, store, history
  <2>2. Stays(t) /\ SameContent /\ pc'[t] = "fill"
      BY <1>0, <2>1 DEF TypeOK, Stays, Others, SameContent
  <2> QED  BY <2>1, <2>2, StoreContent DEF InStore
<1>4. CASE EvictOldest(t)
  <2>1. /\ pc[t] = "choose" /\ pc' = [pc EXCEPT ![t] = "unlink"]
        /\ at' = [at EXCEPT ![t] = Oldest]
        /\ slot' = [slot EXCEPT ![Oldest].state = "EVICTED"]
        /\ UNCHANGED <<key, ver, entry, seen, stored, done, floor, quiet>>
      BY <1>4 DEF EvictOldest, Goto, history
  <2>2. Stays(t) /\ SameContent /\ pc'[t] = "unlink"
    <3>1. PICK s \in Idx : s = Oldest
        BY <1>0, OldestIsSlot
    <3>2. slot' = [slot EXCEPT ![s].state = "EVICTED"]
        BY <2>1, <3>1
    <3>3. SameContent
      <4>1. /\ slot'[s].state = "EVICTED"
            /\ \A i \in Idx \ {s} : slot'[i].state = slot[i].state
            /\ \A i \in Idx : /\ slot'[i].key = slot[i].key
                              /\ slot'[i].hdr = slot[i].hdr
                              /\ slot'[i].body = slot[i].body
          BY <1>0, <3>2, MarkTypes
      <4> QED  BY <4>1 DEF SameContent
    <3> QED  BY <1>0, <2>1, <3>3 DEF TypeOK, Stays, Others
  <2> QED  BY <2>1, <2>2, StoreContent DEF InStore
<1>5. CASE Unlink(t)
  <2>1. /\ pc[t] = "unlink" /\ pc' = [pc EXCEPT ![t] = "fill"]
        /\ UNCHANGED <<slot, at, key, ver, entry, seen, stored, done, floor, quiet>>
      BY <1>5 DEF Unlink, Goto, locals, history
  <2>2. Stays(t) /\ SameContent /\ pc'[t] = "fill"
      BY <1>0, <2>1 DEF TypeOK, Stays, Others, SameContent
  <2> QED  BY <2>1, <2>2, StoreContent DEF InStore
<1>6. CASE Fill(t)
  <2>1. /\ pc[t] = "fill" /\ pc' = [pc EXCEPT ![t] = "copy"]
        /\ entry' = [entry EXCEPT ![t] = HashEntry(key[t])]
        /\ slot' = [slot EXCEPT ![at[t]].state = "FILLING"]
        /\ quiet' = [u \in Threads |-> quiet[u] /\ at[u] # at[t]]
        /\ UNCHANGED <<at, key, ver, seen, stored, done, floor>>
      BY <1>6 DEF Fill, Goto
  <2>2. Stays(t) /\ pc'[t] = "copy"
    <3>1. \A u \in Threads : quiet'[u] => quiet[u]
        BY <2>1
    <3> QED  BY <1>0, <2>1, <3>1 DEF TypeOK, Stays, Others
  <2>3. SameContent
    <3>1. at[t] \in Idx
        BY <2>1 DEF BaseInv, CallInv, WithSlot
    <3>2. PICK s \in Idx : s = at[t]
        BY <3>1
    <3>3. slot' = [slot EXCEPT ![s].state = "FILLING"]
        BY <2>1, <3>2
    <3>4. /\ slot'[s].state = "FILLING"
          /\ \A i \in Idx \ {s} : slot'[i].state = slot[i].state
          /\ \A i \in Idx : /\ slot'[i].key = slot[i].key
                            /\ slot'[i].hdr = slot[i].hdr
                            /\ slot'[i].body = slot[i].body
        BY <1>0, <3>3, MarkTypes
    <3> QED  BY <3>4 DEF SameContent
  <2>4. \A u \in Threads \ {t} : at[u] = at'[t] => ~quiet'[u]
      BY <1>0, <2>1 DEF TypeOK
  <2> QED  BY <2>1, <2>2, <2>3, <2>4, StoreContent DEF InStore
<1>7. CASE Publish(t)
  <2>1. /\ pc[t] = "publish" /\ pc' = [pc EXCEPT ![t] = "unlock"]
        /\ UNCHANGED <<slot, at, key, ver, entry, seen, stored, done, floor, quiet>>
      BY <1>7 DEF Publish, Goto, locals, history
  <2>2. Stays(t) /\ SameContent /\ pc'[t] = "unlock" /\ at[t] \in Idx
      BY <1>0, <2>1 DEF TypeOK, Stays, Others, SameContent, BaseInv, CallInv, WithSlot
  <2> QED  BY <2>1, <2>2, StoreContent DEF InStore
<1> QED  BY <1>1, <1>2, <1>3, <1>4, <1>5, <1>6, <1>7

LEMMA ServeContent ==
    ASSUME BaseInv, ChainInv, ContentInv, NEW t \in Threads, Serve(t)
    PROVE  ContentInv'
<1>0. TypeOK
    BY DEF BaseInv
<1>1. ASSUME NEW k \in Keys, Fetch(t, k) PROVE ContentInv'
  <2>1. /\ pc' = [pc EXCEPT ![t] = "fetch"] /\ key' = [key EXCEPT ![t] = k]
        /\ floor' = [floor EXCEPT ![t] = done[k]]
        /\ UNCHANGED <<slot, stored, done, ver, at, entry, seen, quiet>>
      BY <1>1 DEF Fetch, Goto, store
  <2>2. Stays(t) /\ SameContent /\ pc'[t] = "fetch"
      BY <1>0, <2>1 DEF TypeOK, Stays, Others, SameContent
  <2>3. WriterOf(t)' /\ ReaderOf(t)'
      BY <1>0, <2>1, <2>2 DEF TypeOK, WriterOf, ReaderOf, InStore, InRead
  <2> QED  BY <2>1, <2>2, <2>3, ContentFrame
<1>2. CASE ProbeOn(t)
  <2>1. /\ pc[t] \in {"fetch", "serve"}
        /\ UNCHANGED <<slot, stored, done, pc, key, ver, at, entry, seen, quiet, floor>>
      BY <1>2 DEF ProbeOn, store, history
  <2>2. Stays(t) /\ SameContent
      BY <1>0, <2>1 DEF TypeOK, Stays, Others, SameContent
  <2>3. WriterOf(t)' /\ ReaderOf(t)'
      BY <2>1 DEF ContentInv, WriterOf, ReaderOf, InStore, InRead
  <2> QED  BY <2>1, <2>2, <2>3, ContentFrame
<1>3. CASE LookupNone(t) \/ ReadGone(t) \/ SendDone(t)
  <2>1. Forget(t) /\ pc' = [pc EXCEPT ![t] = "idle"] /\ UNCHANGED <<slot, stored, done>>
      BY <1>3 DEF LookupNone, ReadGone, SendDone, Goto, store
  <2>2. Stays(t) /\ SameContent /\ pc'[t] = "idle"
      BY <1>0, <2>1 DEF TypeOK, Forget, Stays, Others, SameContent
  <2> QED  BY <2>1, <2>2, IdleContent DEF InStore, Reading
<1>4. CASE LookupHit(t)
  <2> DEFINE i == EntryOf(key[t], probe[t])
  <2>1. /\ pc[t] \in {"fetch", "serve"} /\ key[t] \in Keys /\ probe[t] \in Idx
        /\ Hits(key[t], i) /\ floor[t] <= done[key[t]]
        /\ pc' = [pc EXCEPT ![t] = IF @ = "fetch" THEN "serve" ELSE "check"]
        /\ at' = [at EXCEPT ![t] = IF pc[t] = "serve" THEN table[i] ELSE @]
        /\ UNCHANGED <<slot, stored, done, key, ver, entry, seen, quiet, floor>>
      BY <1>0, <1>4
         DEF LookupHit, store, history, ContentInv, ReaderOf, BaseInv, CallInv, Reading,
             TypeOK
  <2>2. PICK s \in Idx : s = table[i] /\ slot[s].state = "READY" /\ slot[s].key = key[t]
      BY <2>1 DEF Hits
  <2> HIDE DEF i
  <2>3. Stays(t) /\ SameContent /\ pc'[t] # "copy"
      BY <1>0, <2>1 DEF TypeOK, Stays, Others, SameContent
  <2>4. WriterOf(t)'
      BY <1>0, <2>1 DEF TypeOK, WriterOf, InStore
  <2>5. CASE pc[t] = "fetch"
    <3>1. pc'[t] = "serve" /\ ReaderOf(t)'
        BY <1>0, <2>1, <2>5 DEF TypeOK, ReaderOf, InRead
    <3> QED  BY <2>1, <2>3, <2>4, <3>1, ContentFrame
  <2>6. CASE pc[t] = "serve"
    <3>1. pc'[t] = "check" /\ at'[t] = s
        BY <1>0, <2>1, <2>2, <2>6 DEF TypeOK
    <3>2. Holds(s, key[t]) /\ slot[s].body >= done[key[t]]
        BY <2>2 DEF ContentInv
    <3>3. Holds(s, key[t])' /\ slot[s].body >= floor[t]
      <4>1. slot[s].body \in Nat /\ floor[t] \in Nat /\ done[key[t]] \in Nat
          BY <1>0, <2>1 DEF TypeOK
      <4> QED  BY <2>1, <3>2, <4>1 DEF Holds
    <3>4. ~CopyingTo(s)'
      <4>1. \A w \in Threads : pc[w] = "copy" => at[w] # s
          BY <2>2 DEF ChainInv, OwnerOf
      <4>2. \A w \in Threads \ {t} : pc'[w] = pc[w] /\ at'[w] = at[w]
          BY <2>3 DEF Stays, Others
      <4> QED  BY <3>1, <4>1, <4>2 DEF CopyingTo
    <3>5. ReaderOf(t)'
      <4>1. Holds(at[t], key[t])' /\ ~CopyingTo(at[t])'
          BY <3>1, <3>3, <3>4 DEF Holds, CopyingTo
      <4> QED  BY <2>1, <3>1, <3>3, <4>1 DEF ReaderOf, InRead
    <3> QED  BY <2>1, <2>3, <2>4, <3>5, ContentFrame
  <2> QED  BY <2>1, <2>5, <2>6
<1>5. CASE ReadLengths(t) \/ ReadHeaders(t) \/ ReadBody(t)
  <2>1. /\ pc[t] \in {"check", "headers", "body"} /\ at[t] \in Idx
        /\ UNCHANGED <<slot, stored, done, key, ver, at, entry, quiet, floor>>
      BY <1>5 DEF ReadLengths, ReadHeaders, ReadBody, Goto, store, history, BaseInv,
                  CallInv, WithSlot
  <2>2. PICK to \in {"headers", "body", "served"} : pc' = [pc EXCEPT ![t] = to]
      BY <1>5 DEF ReadLengths, ReadHeaders, ReadBody, Goto
  <2>3. \E r : seen' = [seen EXCEPT ![t] = r]
      BY <1>5 DEF ReadLengths, ReadHeaders, ReadBody
  <2>4. Stays(t) /\ SameContent /\ pc'[t] = to
      BY <1>0, <2>1, <2>2, <2>3 DEF TypeOK, Stays, Others, SameContent
  <2>5. /\ seen'[t].len = IF pc[t] = "check" THEN slot[at[t]].body ELSE seen[t].len
        /\ seen'[t].hdr = IF pc[t] = "headers" THEN slot[at[t]].hdr ELSE seen[t].hdr
        /\ seen'[t].body = IF pc[t] = "body" THEN slot[at[t]].body ELSE seen[t].body
        /\ pc[t] = "check" <=> to = "headers"
        /\ pc[t] = "headers" <=> to = "body"
    <3>0. pc'[t] = to /\ seen[t] \in [len : Nat, hdr : Nat, body : Nat]
        BY <1>0, <2>4 DEF TypeOK
    <3>1. CASE ReadLengths(t)
        BY <1>0, <3>0, <3>1 DEF ReadLengths, Goto, TypeOK
    <3>2. CASE ReadHeaders(t)
        BY <1>0, <3>0, <3>2 DEF ReadHeaders, Goto, TypeOK
    <3>3. CASE ReadBody(t)
        BY <1>0, <3>0, <3>3 DEF ReadBody, Goto, TypeOK
    <3> QED  BY <1>5, <3>1, <3>2, <3>3
  <2>6. WriterOf(t)'
      BY <2>4 DEF WriterOf, InStore
  <2>7. ReaderOf(t)'
    <3>1. ASSUME quiet[t]
          PROVE  /\ Holds(at[t], key[t])' /\ ~CopyingTo(at[t])'
                 /\ slot[at[t]].body >= floor[t]
                 /\ seen'[t].len = slot[at[t]].body
                 /\ to \in {"body", "served"} => seen'[t].hdr = slot[at[t]].hdr
                 /\ to = "served" => seen'[t].body = slot[at[t]].body
      <4>1. /\ Holds(at[t], key[t]) /\ ~CopyingTo(at[t])
            /\ slot[at[t]].body >= floor[t]
            /\ pc[t] # "check" => seen[t].len = slot[at[t]].body
            /\ pc[t] \in {"body", "served"} => seen[t].hdr = slot[at[t]].hdr
          BY <2>1, <3>1 DEF ContentInv, ReaderOf, InRead
      <4>2. Holds(at[t], key[t])'
          BY <2>1, <4>1 DEF Holds
      <4>3. ~CopyingTo(at[t])'
          BY <2>1, <2>4, <4>1 DEF CopyingTo, Stays, Others
      <4>4. to # "headers" => pc[t] # "check"
          BY <2>1, <2>5
      <4> QED  BY <2>1, <2>5, <4>1, <4>2, <4>3, <4>4
    <3> QED  BY <2>1, <2>4, <3>1 DEF ReaderOf, InRead
  <2> QED  BY <2>1, <2>4, <2>6, <2>7, ContentFrame
<1> QED  BY <1>1, <1>2, <1>3, <1>4, <1>5 DEF Serve

\* A reader whose slot nobody writes to is where it was.
LEMMA ReaderKept ==
    ASSUME BaseInv, ContentInv, NEW u \in Threads,
           /\ pc'[u] = pc[u] /\ key'[u] = key[u] /\ at'[u] = at[u]
           /\ seen'[u] = seen[u] /\ floor'[u] = floor[u] /\ (quiet'[u] => quiet[u]),
           \A k \in Keys : done[k] <= done'[k] /\ done'[k] \in Nat,
           pc[u] \in InRead /\ quiet[u] =>
             /\ slot'[at[u]].hdr = slot[at[u]].hdr /\ slot'[at[u]].body = slot[at[u]].body
             /\ Len(stored) \in Nat /\ Len(stored') \in Nat /\ Len(stored) <= Len(stored')
             /\ \A n \in 1 .. Len(stored) : stored'[n] = stored[n]
             /\ \A w \in Threads : pc'[w] = "copy" => at'[w] # at[u]
    PROVE  ReaderOf(u)'
<1>1. ReaderOf(u)
    BY DEF ContentInv
<1>2. pc'[u] \in {"fetch", "serve"} => floor'[u] <= done'[key'[u]]
  <2>1. pc[u] \in {"fetch", "serve"} => key[u] \in Keys
      BY DEF BaseInv, CallInv, Reading
  <2>2. floor[u] \in Nat /\ (key[u] \in Keys => done[key[u]] \in Nat)
      BY DEF BaseInv, TypeOK
  <2> QED  BY <1>1, <2>1, <2>2 DEF ReaderOf
<1>3. ASSUME pc[u] \in InRead, quiet[u]
      PROVE  /\ Holds(at[u], key[u])' /\ ~CopyingTo(at[u])'
             /\ slot'[at[u]].body >= floor[u]
             /\ pc[u] # "check" => seen[u].len = slot'[at[u]].body
             /\ pc[u] \in {"body", "served"} => seen[u].hdr = slot'[at[u]].hdr
             /\ pc[u] = "served" => seen[u].body = slot'[at[u]].body
  <2>1. /\ slot'[at[u]].hdr = slot[at[u]].hdr /\ slot'[at[u]].body = slot[at[u]].body
        /\ Len(stored) \in Nat /\ Len(stored') \in Nat /\ Len(stored) <= Len(stored')
        /\ \A n \in 1 .. Len(stored) : stored'[n] = stored[n]
        /\ \A w \in Threads : pc'[w] = "copy" => at'[w] # at[u]
      BY <1>3
  <2>2. /\ Holds(at[u], key[u]) /\ slot[at[u]].body >= floor[u]
        /\ pc[u] # "check" => seen[u].len = slot[at[u]].body
        /\ pc[u] \in {"body", "served"} => seen[u].hdr = slot[at[u]].hdr
        /\ pc[u] = "served" => seen[u].body = slot[at[u]].body
      BY <1>1, <1>3 DEF ReaderOf
  <2>3. Holds(at[u], key[u])'
      BY <2>1, <2>2 DEF Holds
  <2>4. ~CopyingTo(at[u])'
      BY <2>1 DEF CopyingTo
  <2> QED  BY <2>1, <2>2, <2>3, <2>4
<1> QED  BY <1>2, <1>3 DEF ReaderOf

\* The response gets its number.
LEMMA LockContent ==
    ASSUME BaseInv, BaseInv', ContentInv, NEW t \in Threads, Lock(t)
    PROVE  ContentInv'
<1>1. /\ pc[t] = "spin" /\ key[t] \in Keys /\ TypeOK /\ lock = None
      /\ pc' = [pc EXCEPT ![t] = "choose"] /\ ver' = [ver EXCEPT ![t] = Len(stored) + 1]
      /\ stored' = Append(stored, key[t])
      /\ UNCHANGED <<slot, key, at, seen, floor, quiet, done>>
    BY DEF Lock, Goto, BaseInv, CallInv
<1>2. /\ Len(stored) \in Nat /\ Len(stored') = Len(stored) + 1
      /\ \A n \in 1 .. Len(stored) : stored'[n] = stored[n]
      /\ stored'[Len(stored) + 1] = key[t]
    BY <1>1 DEF TypeOK
<1>3. /\ \A u \in Threads \ {t} : pc'[u] = pc[u] /\ ver'[u] = ver[u]
      /\ pc'[t] = "choose" /\ ver'[t] = Len(stored) + 1
    BY <1>1 DEF TypeOK
<1>4. \A k \in Keys : done'[k] = done[k] /\ done[k] \in Nat /\ done[k] <= Len(stored)
    BY <1>1 DEF TypeOK, ContentInv
<1>5. \A s \in Idx : slot'[s].state = "READY" =>
          /\ slot'[s].key \in Keys /\ Holds(s, slot[s].key)'
          /\ slot'[s].body >= done'[slot'[s].key]
  <2>1. \A s \in Idx : slot[s].state = "READY" =>
          /\ slot[s].key \in Keys /\ Holds(s, slot[s].key)
          /\ slot[s].body >= done[slot[s].key]
      BY DEF ContentInv
  <2> QED  BY <1>1, <1>2, <2>1 DEF Holds
<1>6. ASSUME NEW u \in Threads PROVE WriterOf(u)'
  <2>1. CASE u = t
      BY <1>1, <1>2, <1>3, <2>1 DEF WriterOf
  <2>2. CASE u # t
    <3>1. pc'[u] \notin InStore
        BY <1>1, <1>3, <2>2, DiskAssumption DEF BaseInv, CallInv
    <3> QED  BY <3>1 DEF WriterOf, InStore
  <2> QED  BY <2>1, <2>2
<1>7. ASSUME NEW u \in Threads PROVE ReaderOf(u)'
  <2>1. CASE u = t
      BY <1>3, <2>1 DEF ReaderOf, InRead
  <2>2. CASE u # t
    <3>1. \A w \in Threads : pc'[w] # "copy"
        BY <1>1, <1>3, DiskAssumption DEF BaseInv, CallInv, InStore
    <3>2. \A k \in Keys : done[k] <= done'[k] /\ done'[k] \in Nat
        BY <1>4
    <3> QED  BY <1>1, <1>2, <1>3, <2>2, <3>1, <3>2, ReaderKept
  <2> QED  BY <2>1, <2>2
<1> QED  BY <1>2, <1>4, <1>5, <1>6, <1>7 DEF ContentInv

\* write_slot overwrites a slot that no undisturbed reader has.
LEMMA CopyContent ==
    ASSUME BaseInv, ChainInv, ContentInv, NEW t \in Threads, Copy(t)
    PROVE  ContentInv'
<1>1. /\ pc[t] = "copy" /\ key[t] \in Keys /\ at[t] \in Idx /\ TypeOK
      /\ slot[at[t]].state = "FILLING" /\ WriterOf(t)
    BY DEF Copy, Goto, BaseInv, CallInv, InStore, WithSlot, ChainInv, OwnerOf, ContentInv
<1>2. PICK s \in Idx : s = at[t]
    BY <1>1
<1>3. /\ pc' = [pc EXCEPT ![t] = "ready"]
      /\ slot' = [slot EXCEPT ![s].key = key[t], ![s].hdr = ver[t], ![s].body = ver[t]]
      /\ UNCHANGED <<at, key, ver, seen, stored, done, floor, quiet>>
    BY <1>2 DEF Copy, Goto, locals, history
<1>4. /\ slot'[s].state = "FILLING" /\ slot'[s].hdr = ver[t] /\ slot'[s].body = ver[t]
      /\ \A i \in Idx \ {s} : slot'[i] = slot[i]
      /\ pc'[t] = "ready" /\ \A u \in Threads \ {t} : pc'[u] = pc[u]
    BY <1>1, <1>2, <1>3 DEF TypeOK
<1>5. \A u \in Threads \ {t} : pc[u] \notin InStore
    BY <1>1, OneOwner DEF InStore
<1>6. \A i \in Idx : slot'[i].state = "READY" =>
          /\ slot'[i].key \in Keys /\ Holds(i, slot[i].key)'
          /\ slot'[i].body >= done'[slot'[i].key]
  <2>1. ASSUME NEW i \in Idx, slot'[i].state = "READY"
        PROVE  /\ slot'[i].key \in Keys /\ Holds(i, slot[i].key)'
               /\ slot'[i].body >= done'[slot'[i].key]
    <3>1. slot'[i] = slot[i]
        BY <1>4, <2>1
    <3>2. /\ slot[i].key \in Keys /\ Holds(i, slot[i].key)
          /\ slot[i].body >= done[slot[i].key]
        BY <2>1, <3>1 DEF ContentInv
    <3> QED  BY <1>3, <3>1, <3>2 DEF Holds
  <2> QED  BY <2>1
<1>7. ASSUME NEW u \in Threads PROVE WriterOf(u)' /\ ReaderOf(u)'
  <2>1. CASE u = t
      BY <1>1, <1>2, <1>3, <1>4, <2>1 DEF WriterOf, ReaderOf, InStore, InRead
  <2>2. CASE u # t
    <3>1. WriterOf(u)'
        BY <1>4, <1>5, <2>2 DEF WriterOf, InStore
    <3>2. \A w \in Threads : pc'[w] # "copy"
        BY <1>4, <1>5 DEF InStore
    <3>3. \A k \in Keys : done[k] <= done'[k] /\ done'[k] \in Nat
        BY <1>1, <1>3 DEF TypeOK
    <3>4. pc[u] \in InRead /\ quiet[u] => at[u] # s /\ at[u] \in Idx
        BY <1>1, <1>2 DEF ContentInv, ReaderOf, CopyingTo, BaseInv, CallInv, WithSlot,
                          InRead
    <3>5. Len(stored) \in Nat /\ stored' = stored
        BY <1>1, <1>3 DEF TypeOK
    <3>6. /\ pc'[u] = pc[u] /\ key'[u] = key[u] /\ at'[u] = at[u]
          /\ seen'[u] = seen[u] /\ floor'[u] = floor[u] /\ (quiet'[u] => quiet[u])
        BY <1>3, <1>4, <2>2
    <3>7. pc[u] \in InRead /\ quiet[u] =>
            /\ slot'[at[u]].hdr = slot[at[u]].hdr /\ slot'[at[u]].body = slot[at[u]].body
            /\ Len(stored) \in Nat /\ Len(stored') \in Nat /\ Len(stored) <= Len(stored')
            /\ \A n \in 1 .. Len(stored) : stored'[n] = stored[n]
            /\ \A w \in Threads : pc'[w] = "copy" => at'[w] # at[u]
        BY <1>4, <3>2, <3>4, <3>5
    <3> QED  BY <3>1, <3>3, <3>6, <3>7, ReaderKept
  <2> QED  BY <2>1, <2>2
<1> QED  BY <1>3, <1>6, <1>7 DEF ContentInv

LEMMA ReadyContent ==
    ASSUME BaseInv, ChainInv, ContentInv, NEW t \in Threads, Ready(t)
    PROVE  ContentInv'
<1> DEFINE to == IF entry[t] = None THEN "unlock" ELSE "publish"
<1>1. /\ pc[t] = "ready" /\ key[t] \in Keys /\ at[t] \in Idx /\ TypeOK
      /\ slot[at[t]].key = key[t] /\ WriterOf(t)
    BY DEF Ready, Goto, BaseInv, CallInv, InStore, WithSlot, ChainInv, OwnerOf, ContentInv
<1>2. PICK s \in Idx : s = at[t]
    BY <1>1
<1>3. /\ pc' = [pc EXCEPT ![t] = to]
      /\ slot' = [slot EXCEPT ![s].ts = now, ![s].state = "READY"]
      /\ UNCHANGED <<at, key, ver, seen, stored, done, floor, quiet>>
    BY <1>2 DEF Ready, Goto, locals, history
<1>4. /\ slot'[s].key = key[t] /\ slot'[s].hdr = ver[t] /\ slot'[s].body = ver[t]
      /\ \A i \in Idx \ {s} : slot'[i] = slot[i]
      /\ \A i \in Idx : slot'[i].hdr = slot[i].hdr /\ slot'[i].body = slot[i].body
      /\ pc'[t] = to /\ \A u \in Threads \ {t} : pc'[u] = pc[u]
  <2>1. /\ \A i \in Idx \ {s} : slot'[i] = slot[i]
        /\ slot'[s].key = slot[s].key /\ slot'[s].hdr = slot[s].hdr
        /\ slot'[s].body = slot[s].body
      BY <1>1, <1>3 DEF TypeOK
  <2>2. slot[s].key = key[t] /\ slot[s].hdr = ver[t] /\ slot[s].body = ver[t]
      BY <1>1, <1>2 DEF WriterOf
  <2>3. pc'[t] = to /\ \A u \in Threads \ {t} : pc'[u] = pc[u]
      BY <1>1, <1>3 DEF TypeOK
  <2> QED  BY <2>1, <2>2, <2>3
<1>5. \A u \in Threads \ {t} : pc[u] \notin InStore
    BY <1>1, OneOwner DEF InStore
<1>6. /\ ver[t] = Len(stored) /\ ver[t] \in 1 .. Len(stored) /\ stored[ver[t]] = key[t]
      /\ Len(stored) \in Nat /\ done[key[t]] \in Nat /\ done[key[t]] <= Len(stored)
    BY <1>1 DEF WriterOf, InStore, TypeOK, ContentInv
<1>7. \A i \in Idx : slot'[i].state = "READY" =>
          /\ slot'[i].key \in Keys /\ Holds(i, slot[i].key)'
          /\ slot'[i].body >= done'[slot'[i].key]
  <2>1. ASSUME NEW i \in Idx, slot'[i].state = "READY"
        PROVE  /\ slot'[i].key \in Keys /\ Holds(i, slot[i].key)'
               /\ slot'[i].body >= done'[slot'[i].key]
    <3>1. CASE i # s
      <4>1. slot'[i] = slot[i]
          BY <1>4, <3>1
      <4>2. /\ slot[i].key \in Keys /\ Holds(i, slot[i].key)
            /\ slot[i].body >= done[slot[i].key]
          BY <2>1, <4>1 DEF ContentInv
      <4> QED  BY <1>3, <4>1, <4>2 DEF Holds
    <3>2. CASE i = s
        BY <1>1, <1>3, <1>4, <1>6, <3>2 DEF Holds
    <3> QED  BY <3>1, <3>2
  <2> QED  BY <2>1
<1>8. ASSUME NEW u \in Threads PROVE WriterOf(u)' /\ ReaderOf(u)'
  <2>1. CASE u = t
    <3>1. WriterOf(t)'
        BY <1>2, <1>3, <1>4, <1>6 DEF WriterOf
    <3>2. ReaderOf(t)'
        BY <1>4 DEF ReaderOf, InRead
    <3> QED  BY <2>1, <3>1, <3>2
  <2>2. CASE u # t
    <3>1. WriterOf(u)'
        BY <1>4, <1>5, <2>2 DEF WriterOf, InStore
    <3>2. \A w \in Threads : pc'[w] # "copy"
        BY <1>4, <1>5 DEF InStore
    <3>3. \A k \in Keys : done[k] <= done'[k] /\ done'[k] \in Nat
        BY <1>1, <1>3 DEF TypeOK
    <3>4. pc[u] \in InRead => at[u] \in Idx
        BY DEF BaseInv, CallInv, WithSlot, InRead
    <3>6. /\ pc'[u] = pc[u] /\ key'[u] = key[u] /\ at'[u] = at[u]
          /\ seen'[u] = seen[u] /\ floor'[u] = floor[u] /\ (quiet'[u] => quiet[u])
        BY <1>3, <1>4, <2>2
    <3>7. pc[u] \in InRead /\ quiet[u] =>
            /\ slot'[at[u]].hdr = slot[at[u]].hdr /\ slot'[at[u]].body = slot[at[u]].body
            /\ Len(stored) \in Nat /\ Len(stored') \in Nat /\ Len(stored) <= Len(stored')
            /\ \A n \in 1 .. Len(stored) : stored'[n] = stored[n]
            /\ \A w \in Threads : pc'[w] = "copy" => at'[w] # at[u]
      <4>1. Len(stored) \in Nat /\ stored' = stored
          BY <1>3, <1>6
      <4>2. \A i \in Idx : slot'[i].hdr = slot[i].hdr /\ slot'[i].body = slot[i].body
          BY <1>4
      <4> QED  BY <3>2, <3>4, <4>1, <4>2
    <3> QED  BY <3>1, <3>3, <3>6, <3>7, ReaderKept
  <2> QED  BY <2>1, <2>2
<1> QED  BY <1>3, <1>7, <1>8 DEF ContentInv

\* The slot just written is the only one with the key, so nothing older is left.
LEMMA UnlockContent ==
    ASSUME BaseInv, ChainInv, ContentInv, NEW t \in Threads, Unlock(t)
    PROVE  ContentInv'
<1>1. /\ pc[t] = "unlock" /\ key[t] \in Keys /\ at[t] \in Idx /\ TypeOK
      /\ slot[at[t]].state = "READY" /\ slot[at[t]].key = key[t]
      /\ WriterOf(t) /\ TableInv
    BY DEF Unlock, Goto, BaseInv, CallInv, InStore, WithSlot, ChainInv, OwnerOf, ContentInv
<1>2. /\ pc' = [pc EXCEPT ![t] = "idle"] /\ done' = [done EXCEPT ![key[t]] = ver[t]]
      /\ Forget(t) /\ UNCHANGED <<slot, stored>>
    BY DEF Unlock, Goto
<1>3. /\ pc'[t] = "idle"
      /\ \A u \in Threads \ {t} :
           /\ pc'[u] = pc[u] /\ key'[u] = key[u] /\ at'[u] = at[u] /\ ver'[u] = ver[u]
           /\ seen'[u] = seen[u] /\ floor'[u] = floor[u] /\ quiet'[u] = quiet[u]
    BY <1>1, <1>2 DEF TypeOK, Forget
<1>4. /\ ver[t] = Len(stored) /\ ver[t] \in Nat /\ slot[at[t]].body = ver[t]
      /\ \A k \in Keys : done[k] \in Nat /\ done[k] <= Len(stored)
    BY <1>1 DEF WriterOf, InStore, TypeOK, ContentInv
<1>5. \A k \in Keys : done'[k] = IF k = key[t] THEN ver[t] ELSE done[k]
    BY <1>1, <1>2 DEF TypeOK
<1>6. \A u \in Threads \ {t} : pc[u] \notin InStore
    BY <1>1, OneOwner DEF InStore
<1>7. ASSUME NEW s \in Idx, slot[s].state = "READY", slot[s].key = key[t]
      PROVE  s = at[t]
  <2>1. InTable(s) /\ InTable(at[t])
      BY <1>1, <1>7, StateOf DEF InStore
  <2>2. PICK d \in Idx, e \in Idx : table[d] = s /\ table[e] = at[t]
      BY <2>1 DEF InTable
  <2> QED  BY <1>1, <1>7, <2>2 DEF TableInv, Listed
<1>8. \A s \in Idx : slot'[s].state = "READY" =>
          /\ slot'[s].key \in Keys /\ Holds(s, slot[s].key)'
          /\ slot'[s].body >= done'[slot'[s].key]
  <2>1. ASSUME NEW s \in Idx, slot[s].state = "READY"
        PROVE  /\ slot[s].key \in Keys /\ Holds(s, slot[s].key)'
               /\ slot[s].body >= done'[slot[s].key]
    <3>1. /\ slot[s].key \in Keys /\ Holds(s, slot[s].key)
          /\ slot[s].body >= done[slot[s].key]
        BY <2>1 DEF ContentInv
    <3>2. Holds(s, slot[s].key)'
        BY <1>2, <3>1 DEF Holds
    <3>3. slot[s].body >= done'[slot[s].key]
        BY <1>4, <1>5, <1>7, <2>1, <3>1
    <3> QED  BY <3>1, <3>2, <3>3
  <2> QED  BY <1>2, <2>1
<1>9. \A k \in Keys : /\ done[k] <= done'[k] /\ done'[k] \in Nat
                      /\ done'[k] <= Len(stored')
    BY <1>2, <1>4, <1>5
<1>10. ASSUME NEW u \in Threads PROVE WriterOf(u)' /\ ReaderOf(u)'
  <2>1. CASE u = t
      BY <1>3, <2>1 DEF WriterOf, ReaderOf, InStore, InRead
  <2>2. CASE u # t
    <3>1. WriterOf(u)'
        BY <1>3, <1>6, <2>2 DEF WriterOf, InStore
    <3>2. \A w \in Threads : pc'[w] # "copy"
        BY <1>3, <1>6 DEF InStore
    <3>3. Len(stored) \in Nat
        BY <1>4
    <3> QED  BY <1>2, <1>3, <1>9, <2>2, <3>1, <3>2, <3>3, ReaderKept
  <2> QED  BY <2>1, <2>2
<1> QED  BY <1>8, <1>9, <1>10 DEF ContentInv

LEMMA ResetContent ==
    ASSUME BaseInv, ContentInv, NEW t \in Threads, Reset(t)
    PROVE  ContentInv'
<1>0. TypeOK
    BY DEF BaseInv
<1>1. UNCHANGED <<key, ver, at, entry, seen, stored, done, quiet, floor>>
    BY DEF Reset, ResetLock, ResetStates, ResetTable, ResetUnlock, locals, history
<1>2. SameContent
  <2>1. CASE ResetStates(t)
    <3>1. \A s \in Idx : slot'[s] = [slot[s] EXCEPT !.state = "EMPTY"]
        BY <2>1 DEF ResetStates
    <3>2. \A s \in Idx : slot[s] \in SlotType
        BY <1>0 DEF TypeOK, SlotType
    <3> QED  BY <3>1, <3>2 DEF SameContent, SlotType
  <2>2. CASE ResetLock(t) \/ ResetTable(t) \/ ResetUnlock(t)
    <3>1. slot' = slot
        BY <2>2 DEF ResetLock, ResetTable, ResetUnlock
    <3> QED  BY <3>1 DEF SameContent
  <2> QED  BY <2>1, <2>2 DEF Reset
<1>3. pc'[t] \in InReset \cup {"idle"} /\ \A u \in Threads \ {t} : pc'[u] = pc[u]
    BY <1>0 DEF Reset, ResetLock, ResetStates, ResetTable, ResetUnlock, Goto, InReset,
                TypeOK
<1>4. Stays(t)
    BY <1>1, <1>3 DEF Stays, Others
<1> QED  BY <1>1, <1>2, <1>3, <1>4, IdleContent DEF InReset, InStore, Reading

LEMMA ProcessContent ==
    ASSUME BaseInv, ContentInv, Tick \/ Stop \/ Open \/ UNCHANGED vars
    PROVE  ContentInv'
<1>0. TypeOK
    BY DEF BaseInv
<1>1. stored' = stored /\ done' = done
    BY DEF Tick, Stop, Open, vars, history
<1>2. SameContent
    BY <1>0 DEF Tick, Stop, Open, vars, store, SameContent, TypeOK
<1>3. \A k \in Keys : done'[k] <= Len(stored')
    BY <1>1 DEF ContentInv
<1>4. \A s \in Idx : slot'[s].state = "READY" =>
          /\ slot'[s].key \in Keys /\ Holds(s, slot[s].key)'
          /\ slot'[s].body >= done'[slot'[s].key]
  <2>1. ASSUME NEW s \in Idx, slot'[s].state = "READY"
        PROVE  /\ slot'[s].key \in Keys /\ Holds(s, slot[s].key)'
               /\ slot'[s].body >= done'[slot'[s].key]
    <3>1. /\ slot'[s].key = slot[s].key /\ slot'[s].hdr = slot[s].hdr
          /\ slot'[s].body = slot[s].body /\ slot[s].state = "READY"
        BY <1>2, <2>1 DEF SameContent
    <3>2. /\ slot[s].key \in Keys /\ Holds(s, slot[s].key)
          /\ slot[s].body >= done[slot[s].key]
        BY <3>1 DEF ContentInv
    <3> QED  BY <1>1, <3>1, <3>2 DEF Holds
  <2> QED  BY <2>1
<1>5. CASE Tick \/ UNCHANGED vars
  <2>1. UNCHANGED <<slot, pc, key, ver, at, seen, stored, done, quiet, floor>>
      BY <1>5 DEF Tick, vars, store, locals, history
  <2>2. \A t \in Threads : WriterOf(t)' /\ ReaderOf(t)'
      BY <2>1 DEF ContentInv, WriterOf, ReaderOf, Holds, CopyingTo
  <2> QED  BY <1>3, <1>4, <2>2 DEF ContentInv
<1>6. CASE Stop \/ Open
  <2>1. \A t \in Threads : pc'[t] = "idle"
      BY <1>6 DEF Stop, Open, BaseInv, CallInv
  <2>2. \A t \in Threads : WriterOf(t)' /\ ReaderOf(t)'
      BY <2>1 DEF WriterOf, ReaderOf, InStore, InRead
  <2> QED  BY <1>3, <1>4, <2>2 DEF ContentInv
<1> QED  BY <1>5, <1>6

LEMMA ContentInit == Init => ContentInv
<1> SUFFICES ASSUME Init PROVE ContentInv
    OBVIOUS
<1>1. \A s \in Idx : slot[s].state = "EMPTY"
    BY DEF Init, Vacant
<1>2. \A t \in Threads : WriterOf(t) /\ ReaderOf(t)
    BY DEF Init, WriterOf, ReaderOf, InStore, InRead
<1>3. \A k \in Keys : done[k] <= Len(stored)
    BY DEF Init
<1> QED  BY <1>1, <1>2, <1>3 DEF ContentInv

LEMMA ContentKept ==
    BaseInv /\ BaseInv' /\ ChainInv /\ ContentInv /\ [Next]_vars => ContentInv'
<1> SUFFICES ASSUME BaseInv, BaseInv', ChainInv, ContentInv, [Next]_vars
             PROVE  ContentInv'
    OBVIOUS
<1>1. ASSUME NEW t \in Threads, Store(t) PROVE ContentInv'
    BY <1>1, StoreStepsContent, LockContent, CopyContent, ReadyContent, UnlockContent
       DEF Store
<1>2. ASSUME NEW t \in Threads, Serve(t) \/ Reset(t) PROVE ContentInv'
    BY <1>2, ServeContent, ResetContent
<1> QED  BY <1>1, <1>2, ProcessContent DEF Next

\* Whatever is READY is one whole response, the last one stored under its key,
\* and a reader nobody disturbed has taken exactly that.
THEOREM ContentInvariant == Spec => []ContentInv
BY BaseInvariant, ChainInvariant, ContentInit, ContentKept, PTL DEF Spec

\* A response copied out of a slot nobody wrote to meanwhile is whole, belongs to
\* the requested key and is not older than the last one stored before the request
\* began, however the lookup without a lock interleaves with stores, evictions,
\* resets and restarts (lookup, read_slot, write_slot).
THEOREM QuietServeCorrect == Spec => []QuietServe
<1>1. BaseInv /\ ContentInv => QuietServe
  <2> SUFFICES ASSUME BaseInv, ContentInv, NEW t \in Threads, pc[t] = "served", quiet[t]
               PROVE  /\ seen[t].hdr = seen[t].body /\ seen[t].len = seen[t].body
                      /\ stored[seen[t].body] = key[t]
                      /\ seen[t].body >= floor[t]
      BY DEF QuietServe
  <2>1. ReaderOf(t)
      BY DEF ContentInv
  <2> QED  BY <2>1 DEF ReaderOf, InRead, Holds
<1> QED  BY <1>1, BaseInvariant, ContentInvariant, PTL

-----------------------------------------------------------------------------
(* The refinement of ResponseCache.                                        *)

\* What the mapping of ImplementsCache makes of the state.
View == [k \in Keys |-> IF Visible(k) = {} THEN None ELSE Least(Visible(k))]
Writing ==
    IF Writers = {} THEN None
    ELSE LET t == CHOOSE u \in Writers : TRUE
         IN  [key |-> key[t], ver |-> ver[t]]

\* The steps of the promised cache under the mapping.
LEMMA CacheVars == Cache!vars = <<View, Writing, Len(stored)>>
BY DEF Cache!vars, View, Writing

LEMMA CacheBegin ==
    ASSUME NEW k \in Keys, Writing = None, Len(stored') = Len(stored) + 1,
           Writing' = [key |-> k, ver |-> Len(stored')], View' = View
    PROVE  Cache!Next
BY DEF Cache!Next, Cache!Begin, View, Writing

LEMMA CacheCommit ==
    ASSUME Writing # None, View' = [View EXCEPT ![Writing.key] = Writing.ver],
           Writing' = None, Len(stored') = Len(stored)
    PROVE  Cache!Next
BY DEF Cache!Next, Cache!Commit, View, Writing

LEMMA CacheAbandon ==
    ASSUME Writing # None, View' = View, Writing' = None, Len(stored') = Len(stored)
    PROVE  Cache!Next
BY DEF Cache!Next, Cache!Abandon, View, Writing

\* Entries of the view that are still there or gone.
Shrinks == View' = [k \in Keys |-> IF View'[k] = None THEN None ELSE View[k]]

LEMMA CacheDrop ==
    ASSUME Shrinks, Writing' = Writing, Len(stored') = Len(stored)
    PROVE  Cache!Next
<1> DEFINE gone == {k \in Keys : View'[k] = None}
<1>1. View' = [k \in Keys |-> IF k \in gone THEN None ELSE View[k]]
    BY DEF Shrinks
<1>2. gone \in SUBSET Keys
    OBVIOUS
<1> HIDE DEF gone
<1> QED  BY <1>1, <1>2 DEF Cache!Next, Cache!Drop, View, Writing

LEMMA CacheRestart ==
    ASSUME Shrinks, Writing' = None, Len(stored') = Len(stored)
    PROVE  Cache!Next
<1> DEFINE gone == {k \in Keys : View'[k] = None}
<1>1. View' = [k \in Keys |-> IF k \in gone THEN None ELSE View[k]]
    BY DEF Shrinks
<1>2. gone \in SUBSET Keys
    OBVIOUS
<1> HIDE DEF gone
<1> QED  BY <1>1, <1>2 DEF Cache!Next, Cache!Restart, View, Writing


\* A lookup of slot[s].key ends at s, and finds it fresh.
Shows(s) == slot[s].state = "READY" /\ InTable(s) /\ ~Expired(s)

\* What a client finds under a key is what the slot that shows it holds.
ViewIs ==
    \A k \in Keys :
        /\ \A s \in Idx : Shows(s) /\ slot[s].key = k => View[k] = slot[s].body
        /\ (\A s \in Idx : ~(Shows(s) /\ slot[s].key = k)) => View[k] = None

LEMMA ViewFacts == BaseInv /\ ChainInv => ViewIs
<1> SUFFICES ASSUME BaseInv, ChainInv, NEW k \in Keys
             PROVE  /\ \A s \in Idx : Shows(s) /\ slot[s].key = k => View[k] = slot[s].body
                    /\ (\A s \in Idx : ~(Shows(s) /\ slot[s].key = k)) => View[k] = None
    BY DEF ViewIs
<1>1. ASSUME NEW s \in Idx, Shows(s), slot[s].key = k PROVE View[k] = slot[s].body
  <2>1. s \in Found(k) /\ \A r \in Found(k) : r = s
      BY <1>1, FoundOnce DEF Shows
  <2>2. {f \in Found(k) : ~Expired(f)} = {s}
      BY <1>1, <2>1 DEF Shows
  <2>3. Visible(k) = {slot[s].body}
      BY <2>2 DEF Visible
  <2>4. slot[s].body \in Nat
      BY DEF BaseInv, TypeOK
  <2>5. Least({slot[s].body}) = slot[s].body
      BY <2>4, LeastExists
  <2> QED  BY <2>3, <2>5 DEF View
<1>2. ASSUME \A s \in Idx : ~(Shows(s) /\ slot[s].key = k) PROVE View[k] = None
  <2>1. \A f \in Found(k) : f \in Idx /\ slot[f].state = "READY" /\ slot[f].key = k
                            /\ InTable(f)
      BY FoundOnce
  <2>2. {f \in Found(k) : ~Expired(f)} = {}
      BY <1>2, <2>1 DEF Shows
  <2>3. Visible(k) = {}
      BY <2>2 DEF Visible
  <2> QED  BY <2>3 DEF View
<1> QED  BY <1>1, <1>2

LEMMA ViewFactsNext == (BaseInv /\ ChainInv)' => ViewIs'
BY ViewFacts, PTL

\* A step that shows nothing new.
LEMMA ViewShrinks ==
    ASSUME ViewIs, ViewIs',
           \A s \in Idx : Shows(s)' => /\ Shows(s) /\ slot'[s].key = slot[s].key
                                       /\ slot'[s].body = slot[s].body
    PROVE  Shrinks
<1>1. ASSUME NEW k \in Keys, View'[k] # None PROVE View'[k] = View[k]
  <2>1. PICK s \in Idx : Shows(s)' /\ slot'[s].key = k
      BY <1>1 DEF ViewIs
  <2>2. Shows(s) /\ slot[s].key = k /\ slot'[s].body = slot[s].body
      BY <2>1
  <2> QED  BY <2>1, <2>2 DEF ViewIs
<1>2. View' = [k \in Keys |-> View'[k]]
    BY DEF View
<1> QED  BY <1>1, <1>2 DEF Shrinks

\* A step that shows what was shown before.
LEMMA ViewSame ==
    ASSUME ViewIs, ViewIs',
           \A s \in Idx : Shows(s)' <=> Shows(s),
           \A s \in Idx : Shows(s) => /\ slot'[s].key = slot[s].key
                                      /\ slot'[s].body = slot[s].body
    PROVE  View' = View
<1>1. ASSUME NEW k \in Keys PROVE View'[k] = View[k]
  <2>1. CASE \E s \in Idx : Shows(s) /\ slot[s].key = k
    <3>1. PICK s \in Idx : Shows(s) /\ slot[s].key = k
        BY <2>1
    <3>2. Shows(s)' /\ slot'[s].key = k /\ slot'[s].body = slot[s].body
        BY <3>1
    <3> QED  BY <3>1, <3>2 DEF ViewIs
  <2>2. CASE \A s \in Idx : ~(Shows(s) /\ slot[s].key = k)
    <3>1. \A s \in Idx : ~(Shows(s)' /\ slot'[s].key = k)
        BY <2>2
    <3>2. View[k] = None
        BY <2>2 DEF ViewIs
    <3>3. View'[k] = None
        BY <3>1 DEF ViewIs
    <3> QED  BY <3>2, <3>3
  <2> QED  BY <2>1, <2>2
<1>2. View' = [k \in Keys |-> View'[k]] /\ View = [k \in Keys |-> View[k]]
    BY DEF View
<1> QED  BY <1>1, <1>2

\* A step that shows one slot more.
LEMMA ViewGrows ==
    ASSUME ViewIs, ViewIs', NEW s \in Idx, ~Shows(s), Shows(s)', slot'[s].key \in Keys,
           \A r \in Idx \ {s} : Shows(r)' <=> Shows(r),
           \A r \in Idx \ {s} : Shows(r) => /\ slot'[r].key = slot[r].key
                                            /\ slot'[r].body = slot[r].body
    PROVE  View' = [View EXCEPT ![slot'[s].key] = slot'[s].body]
<1>1. ASSUME NEW k \in Keys, k # slot'[s].key PROVE View'[k] = View[k]
  <2>1. CASE \E r \in Idx \ {s} : Shows(r) /\ slot[r].key = k
    <3>1. PICK r \in Idx \ {s} : Shows(r) /\ slot[r].key = k
        BY <2>1
    <3>2. Shows(r)' /\ slot'[r].key = k /\ slot'[r].body = slot[r].body
        BY <3>1
    <3> QED  BY <3>1, <3>2 DEF ViewIs
  <2>2. CASE \A r \in Idx \ {s} : ~(Shows(r) /\ slot[r].key = k)
    <3>1. \A r \in Idx : ~(Shows(r)' /\ slot'[r].key = k)
        BY <1>1, <2>2
    <3>2. \A r \in Idx : ~(Shows(r) /\ slot[r].key = k)
        BY <2>2
    <3>3. View[k] = None
        BY <3>2 DEF ViewIs
    <3>4. View'[k] = None
        BY <3>1 DEF ViewIs
    <3> QED  BY <3>3, <3>4
  <2> QED  BY <2>1, <2>2
<1>2. View'[slot'[s].key] = slot'[s].body
    BY DEF ViewIs
<1>3. View' = [k \in Keys |-> View'[k]] /\ View = [k \in Keys |-> View[k]]
    BY DEF View
<1> QED  BY <1>1, <1>2, <1>3


\* What is being written is the response of the one thread inside store.
WritingIs ==
    /\ \A t \in Threads : pc[t] \in BeforeCommit =>
          Writing = [key |-> key[t], ver |-> ver[t]] /\ Writing # None
    /\ (\A t \in Threads : pc[t] \notin BeforeCommit) => Writing = None

LEMMA WritingFacts == BaseInv => WritingIs
<1> SUFFICES ASSUME BaseInv PROVE WritingIs
    OBVIOUS
<1>1. ASSUME NEW t \in Threads, pc[t] \in BeforeCommit
      PROVE  Writing = [key |-> key[t], ver |-> ver[t]] /\ Writing # None
  <2>1. pc[t] \in InStore /\ key[t] \in Keys /\ ver[t] \in Nat
      BY <1>1 DEF BaseInv, TypeOK, CallInv, BeforeCommit, InStore
  <2>2. \A u \in Threads \ {t} : pc[u] \notin BeforeCommit
      BY <2>1, OneOwner DEF BeforeCommit, InStore
  <2>3. Writers = {t}
      BY <1>1, <2>2 DEF Writers
  <2>4. (CHOOSE u \in Writers : TRUE) = t
      BY <2>3
  <2>5. Writing = [key |-> key[t], ver |-> ver[t]]
      BY <2>3, <2>4 DEF Writing
  <2>6. [key |-> key[t], ver |-> ver[t]] \in [key : Keys, ver : Nat]
      BY <2>1
  <2> QED  BY <2>5, <2>6, DiskAssumption
<1>2. (\A t \in Threads : pc[t] \notin BeforeCommit) => Writing = None
    BY DEF Writing, Writers
<1> QED  BY <1>1, <1>2 DEF WritingIs

\* The invariants the refinement rests on, and what they say about the mapping.
FileInv == BaseInv /\ ChainInv /\ ContentInv
Mapped == ViewIs /\ WritingIs

LEMMA MappedFacts == FileInv => Mapped
BY ViewFacts, WritingFacts DEF FileInv, Mapped

LEMMA MappedFactsNext == FileInv' => Mapped'
BY MappedFacts, PTL

SameWriters ==
    \A t \in Threads : /\ pc'[t] \in BeforeCommit <=> pc[t] \in BeforeCommit
                       /\ (pc[t] \in BeforeCommit => key'[t] = key[t] /\ ver'[t] = ver[t])

LEMMA WritingSame ==
    ASSUME Mapped, Mapped', SameWriters
    PROVE  Writing' = Writing
<1>1. CASE \E t \in Threads : pc[t] \in BeforeCommit
  <2>1. PICK t \in Threads : pc[t] \in BeforeCommit
      BY <1>1
  <2>2. pc'[t] \in BeforeCommit /\ key'[t] = key[t] /\ ver'[t] = ver[t]
      BY <2>1 DEF SameWriters
  <2>3. Writing = [key |-> key[t], ver |-> ver[t]]
      BY <2>1 DEF Mapped, WritingIs
  <2>4. Writing' = [key |-> key'[t], ver |-> ver'[t]]
      BY <2>2 DEF Mapped, WritingIs, BeforeCommit
  <2> QED  BY <2>2, <2>3, <2>4
<1>2. CASE \A t \in Threads : pc[t] \notin BeforeCommit
  <2>1. \A t \in Threads : pc'[t] \notin BeforeCommit
      BY <1>2 DEF SameWriters
  <2>2. Writing = None
      BY <1>2 DEF Mapped, WritingIs
  <2>3. Writing' = None
      BY <2>1 DEF Mapped, WritingIs, BeforeCommit
  <2> QED  BY <2>2, <2>3
<1> QED  BY <1>1, <1>2

\* A step that makes no slot READY and puts none into the table hides entries
\* from the client, or changes nothing he sees.
Hides ==
    /\ now \in Nat /\ now' \in Nat /\ now <= now'
    /\ \A s \in Idx : slot'[s].state = "READY" => slot'[s] = slot[s]
    /\ \A s \in Idx : InTable(s)' => InTable(s)

LEMMA HidesShrinks ==
    ASSUME BaseInv, Mapped, Mapped', Hides
    PROVE  Shrinks
<1>1. ASSUME NEW s \in Idx, Shows(s)'
      PROVE  /\ Shows(s) /\ slot'[s].key = slot[s].key
             /\ slot'[s].body = slot[s].body
  <2>1. slot'[s] = slot[s] /\ InTable(s)
      BY <1>1 DEF Hides, Shows
  <2>2. slot[s].ts \in Nat /\ TTL \in Nat /\ now \in Nat /\ now' \in Nat /\ now <= now'
      BY DiskAssumption DEF Hides, BaseInv, TypeOK
  <2>3. ~(now' - slot[s].ts > TTL)
      BY <1>1, <2>1 DEF Shows, Expired
  <2>4. ~(now - slot[s].ts > TTL)
      BY <2>2, <2>3
  <2> QED  BY <1>1, <2>1, <2>4 DEF Shows, Expired
<1> QED  BY <1>1, ViewShrinks DEF Mapped

LEMMA HidesDrops ==
    ASSUME BaseInv, Mapped, Mapped', Hides, SameWriters, stored' = stored
    PROVE  Cache!Next
BY HidesShrinks, WritingSame, CacheDrop


\* The steps of store that hide the old response, or change nothing.
LEMMA StoreRefines ==
    ASSUME FileInv, Mapped, Mapped', NEW t \in Threads,
           \/ (\E k \in Keys : HttpEnd(t, k)) \/ UpdateInPlace(t) \/ TakeFreeSlot(t)
           \/ EvictOldest(t) \/ Unlink(t) \/ Fill(t) \/ Copy(t) \/ Unlock(t)
    PROVE  Cache!Next
<1>0. TypeOK /\ BaseInv
    BY DEF FileInv, BaseInv
<1>1. CASE \E k \in Keys : HttpEnd(t, k)
  <2>1. /\ pc[t] = "idle" /\ pc' = [pc EXCEPT ![t] = "spin"]
        /\ \E k \in Keys : key' = [key EXCEPT ![t] = k]
        /\ UNCHANGED <<table, slot, now, ver, stored>>
      BY <1>1 DEF HttpEnd, Goto, store, history
  <2>2. SameWriters
      BY <1>0, <2>1 DEF SameWriters, BeforeCommit, TypeOK
  <2>3. Hides
      BY <1>0, <2>1 DEF Hides, InTable, TypeOK
  <2> QED  BY <1>0, <2>1, <2>2, <2>3, HidesDrops
<1>2. CASE Unlock(t)
  <2>1. /\ pc[t] = "unlock" /\ pc' = [pc EXCEPT ![t] = "idle"]
        /\ key' = [key EXCEPT ![t] = None] /\ ver' = [ver EXCEPT ![t] = 0]
        /\ UNCHANGED <<table, slot, now, stored>>
      BY <1>2 DEF Unlock, Goto, Forget
  <2>2. SameWriters
      BY <1>0, <2>1 DEF SameWriters, BeforeCommit, TypeOK
  <2>3. Hides
      BY <1>0, <2>1 DEF Hides, InTable, TypeOK
  <2> QED  BY <1>0, <2>1, <2>2, <2>3, HidesDrops
<1>3. CASE \/ UpdateInPlace(t) \/ TakeFreeSlot(t) \/ EvictOldest(t) \/ Unlink(t)
           \/ Fill(t) \/ Copy(t)
  <2>1. /\ pc[t] \in BeforeCommit
        /\ \E to \in BeforeCommit : pc' = [pc EXCEPT ![t] = to]
        /\ UNCHANGED <<now, key, ver, stored>>
      BY <1>3 DEF UpdateInPlace, TakeFreeSlot, EvictOldest, Unlink, Fill, Copy, Goto,
                  BeforeCommit, locals, history
  <2>2. SameWriters
      BY <1>0, <2>1 DEF SameWriters, TypeOK
  <2>3. \A s \in Idx : slot'[s].state = "READY" => slot'[s] = slot[s]
    <3>1. CASE UpdateInPlace(t)
      <4>1. PICK s : slot' = [slot EXCEPT ![s].state = "FILLING"]
          BY <3>1 DEF UpdateInPlace
      <4> QED  BY <1>0, <4>1 DEF TypeOK
    <3>2. CASE TakeFreeSlot(t) \/ Unlink(t)
        BY <3>2 DEF TakeFreeSlot, Unlink, store
    <3>3. CASE EvictOldest(t)
      <4>1. PICK s \in Idx : s = Oldest
          BY <1>0, OldestIsSlot
      <4>2. slot' = [slot EXCEPT ![s].state = "EVICTED"]
          BY <3>3, <4>1 DEF EvictOldest
      <4> QED  BY <1>0, <4>2 DEF TypeOK
    <3>4. CASE Fill(t)
        BY <1>0, <3>4 DEF Fill, TypeOK
    <3>5. CASE Copy(t)
      <4>1. pc[t] = "copy" /\ slot[at[t]].state = "FILLING" /\ at[t] \in Idx
          BY <1>0, <3>5 DEF Copy, Goto, FileInv, ChainInv, OwnerOf, BaseInv, CallInv,
                            WithSlot
      <4>2. PICK s \in Idx : s = at[t]
          BY <4>1
      <4>3. slot' = [slot EXCEPT ![s].key = key[t], ![s].hdr = ver[t], ![s].body = ver[t]]
          BY <3>5, <4>2 DEF Copy
      <4>4. slot'[s].state = "FILLING" /\ \A i \in Idx \ {s} : slot'[i] = slot[i]
          BY <1>0, <4>1, <4>2, <4>3 DEF TypeOK
      <4> QED  BY <4>4
    <3> QED  BY <1>3, <3>1, <3>2, <3>3, <3>4, <3>5
  <2>4. \A s \in Idx : InTable(s)' => InTable(s)
    <3>1. CASE Unlink(t)
      <4>1. \E i : table' = table \/ table' = [table EXCEPT ![i] = HASH_TOMBSTONE]
          BY <3>1 DEF Unlink
      <4>2. \A e \in Idx : table'[e] = table[e] \/ table'[e] = HASH_TOMBSTONE
          BY <1>0, <4>1 DEF TypeOK
      <4> QED  BY <4>2, Sentinels DEF InTable
    <3>2. CASE ~Unlink(t)
      <4>1. table' = table
          BY <1>3, <3>2 DEF UpdateInPlace, TakeFreeSlot, EvictOldest, Fill, Copy, store
      <4> QED  BY <4>1 DEF InTable
    <3> QED  BY <3>1, <3>2
  <2>5. Hides
      BY <1>0, <2>1, <2>3, <2>4 DEF Hides, TypeOK
  <2> QED  BY <1>0, <2>1, <2>2, <2>5, HidesDrops
<1> QED  BY <1>1, <1>2, <1>3

\* The response takes its number and is on its way.
LEMMA LockRefines ==
    ASSUME FileInv, Mapped, Mapped', NEW t \in Threads, Lock(t)
    PROVE  Cache!Next
<1>0. TypeOK /\ BaseInv
    BY DEF FileInv, BaseInv
<1>1. /\ pc[t] = "spin" /\ key[t] \in Keys /\ lock = None
      /\ pc' = [pc EXCEPT ![t] = "choose"] /\ ver' = [ver EXCEPT ![t] = Len(stored) + 1]
      /\ stored' = Append(stored, key[t])
      /\ UNCHANGED <<table, slot, now, key>>
    BY <1>0 DEF Lock, Goto, BaseInv, CallInv
<1>2. Len(stored') = Len(stored) + 1
    BY <1>0, <1>1 DEF TypeOK
<1>3. Writing = None
  <2>1. \A u \in Threads : pc[u] \notin BeforeCommit
      BY <1>0, <1>1, DiskAssumption DEF BaseInv, CallInv, InStore, BeforeCommit
  <2> QED  BY <2>1 DEF Mapped, WritingIs
<1>4. Writing' = [key |-> key[t], ver |-> Len(stored')]
  <2>1. pc'[t] \in BeforeCommit /\ key'[t] = key[t] /\ ver'[t] = Len(stored')
      BY <1>0, <1>1, <1>2 DEF TypeOK, BeforeCommit
  <2> QED  BY <2>1 DEF Mapped, WritingIs, BeforeCommit
<1>5. View' = View
    BY <1>1, ViewSame DEF Mapped, Shows, InTable, Expired
<1> QED  BY <1>1, <1>2, <1>3, <1>4, <1>5, CacheBegin

\* The one thread inside store leaves the steps before the commit.
LEMMA WritingEnds ==
    ASSUME FileInv, Mapped, Mapped', NEW t \in Threads, pc[t] \in BeforeCommit,
           pc' = [pc EXCEPT ![t] = "unlock"]
    PROVE  /\ Writing # None /\ Writing.key = key[t] /\ Writing.ver = ver[t]
           /\ Writing' = None
<1>1. Writing = [key |-> key[t], ver |-> ver[t]] /\ Writing # None
    BY DEF Mapped, WritingIs
<1>2. \A u \in Threads : pc'[u] \notin BeforeCommit
  <2>1. \A u \in Threads \ {t} : pc[u] \notin BeforeCommit
      BY OneOwner DEF FileInv, BeforeCommit, InStore
  <2> QED  BY <2>1 DEF FileInv, BaseInv, TypeOK, BeforeCommit
<1>3. Writing' = None
    BY <1>2 DEF Mapped, WritingIs, BeforeCommit
<1> QED  BY <1>1, <1>3

\* An update in place is seen when the slot is READY again.
LEMMA ReadyRefines ==
    ASSUME FileInv, Mapped, Mapped', NEW t \in Threads, Ready(t)
    PROVE  Cache!Next
<1>0. TypeOK /\ BaseInv
    BY DEF FileInv, BaseInv
<1>1. /\ pc[t] = "ready" /\ key[t] \in Keys /\ at[t] \in Idx /\ OwnerOf(t) /\ WriterOf(t)
      /\ slot[at[t]].state = "FILLING" /\ slot[at[t]].key = key[t]
    BY <1>0 DEF Ready, Goto, BaseInv, CallInv, InStore, WithSlot, FileInv, ChainInv,
                OwnerOf, ContentInv
<1>2. PICK s \in Idx : s = at[t]
    BY <1>1
<1>3. /\ pc' = [pc EXCEPT ![t] = IF entry[t] = None THEN "unlock" ELSE "publish"]
      /\ slot' = [slot EXCEPT ![s].ts = now, ![s].state = "READY"]
      /\ UNCHANGED <<table, now, key, ver, stored>>
    BY <1>2 DEF Ready, Goto, locals, history
<1>4. /\ slot'[s].state = "READY" /\ slot'[s].key = slot[s].key /\ slot'[s].ts = now
      /\ slot'[s].body = slot[s].body
      /\ \A i \in Idx \ {s} : slot'[i] = slot[i]
    BY <1>0, <1>3 DEF TypeOK
<1>5. slot'[s].key = key[t] /\ slot'[s].body = ver[t]
    BY <1>1, <1>2, <1>4 DEF WriterOf
<1>6. \A r \in Idx \ {s} : Shows(r)' <=> Shows(r)
    BY <1>3, <1>4 DEF Shows, InTable, Expired
<1>7. \A r \in Idx \ {s} : slot'[r].key = slot[r].key /\ slot'[r].body = slot[r].body
    BY <1>4
<1>8. ~Shows(s)
    BY <1>1, <1>2 DEF Shows
<1>9. CASE entry[t] = None
  <2>1. InTable(s)'
      BY <1>1, <1>2, <1>3, <1>9 DEF OwnerOf, Updating, InTable
  <2>2. ~Expired(s)'
      BY <1>0, <1>3, <1>4, DiskAssumption DEF Expired, TypeOK
  <2>3. Shows(s)'
      BY <1>4, <2>1, <2>2 DEF Shows
  <2>4. View' = [View EXCEPT ![key[t]] = ver[t]]
      BY <1>1, <1>5, <1>6, <1>7, <1>8, <2>3, ViewGrows DEF Mapped
  <2>5. pc[t] \in BeforeCommit /\ pc' = [pc EXCEPT ![t] = "unlock"]
      BY <1>1, <1>3, <1>9 DEF BeforeCommit
  <2>6. Writing # None /\ Writing.key = key[t] /\ Writing.ver = ver[t] /\ Writing' = None
      BY <2>5, WritingEnds
  <2> QED  BY <1>3, <2>4, <2>6, CacheCommit
<1>10. CASE entry[t] # None
  <2>1. ~Shows(s)'
      BY <1>1, <1>2, <1>3, <1>10 DEF OwnerOf, Adding, Shows, InTable
  <2>2. View' = View
      BY <1>6, <1>7, <1>8, <2>1, ViewSame DEF Mapped
  <2>3. SameWriters
      BY <1>0, <1>1, <1>3, <1>10 DEF SameWriters, BeforeCommit, TypeOK
  <2>4. Writing' = Writing
      BY <2>3, WritingSame
  <2>5. Shrinks
    <3>1. View = [k \in Keys |-> View[k]]
        BY DEF View
    <3> QED  BY <2>2, <3>1 DEF Shrinks
  <2> QED  BY <1>3, <2>4, <2>5, CacheDrop
<1> QED  BY <1>9, <1>10

\* A new slot is seen when the table leads to it; if it expired before that, the
\* response is never seen.
LEMMA PublishRefines ==
    ASSUME FileInv, Mapped, Mapped', NEW t \in Threads, Publish(t)
    PROVE  Cache!Next
<1>0. TypeOK /\ BaseInv
    BY DEF FileInv, BaseInv
<1>1. /\ pc[t] = "publish" /\ key[t] \in Keys /\ at[t] \in Idx /\ entry[t] \in Idx
      /\ WriterOf(t) /\ slot[at[t]].state = "READY" /\ slot[at[t]].key = key[t]
      /\ ~InTable(at[t]) /\ ~Listed(entry[t])
    BY <1>0 DEF Publish, Goto, BaseInv, CallInv, InStore, WithSlot, FileInv, ChainInv,
                OwnerOf, Adding, ContentInv
<1>2. PICK s \in Idx, e \in Idx : s = at[t] /\ e = entry[t]
    BY <1>1
<1>3. /\ pc' = [pc EXCEPT ![t] = "unlock"] /\ table' = [table EXCEPT ![e] = s]
      /\ UNCHANGED <<slot, now, key, ver, stored>>
    BY <1>2 DEF Publish, Goto, locals, history
<1>4. table'[e] = s /\ \A d \in Idx \ {e} : table'[d] = table[d]
    BY <1>0, <1>2, <1>3 DEF TypeOK
<1>5. \A r \in Idx \ {s} : InTable(r)' <=> InTable(r)
    BY <1>1, <1>2, <1>4 DEF InTable, Listed
<1>6. \A r \in Idx \ {s} : Shows(r)' <=> Shows(r)
    BY <1>3, <1>5 DEF Shows, Expired
<1>7. ~Shows(s)
    BY <1>1, <1>2 DEF Shows
<1>8. slot[s].key = key[t] /\ slot[s].body = ver[t]
    BY <1>1, <1>2 DEF WriterOf
<1>9. Writing # None /\ Writing.key = key[t] /\ Writing.ver = ver[t] /\ Writing' = None
    BY <1>1, <1>3, WritingEnds DEF BeforeCommit
<1>10. CASE ~Expired(s)
  <2>1. InTable(s)'
      BY <1>2, <1>4 DEF InTable
  <2>2. Shows(s)'
      BY <1>1, <1>2, <1>3, <1>10, <2>1 DEF Shows, Expired
  <2>3. View' = [View EXCEPT ![key[t]] = ver[t]]
    <3>1. slot'[s].key = key[t] /\ slot'[s].body = ver[t]
        BY <1>3, <1>8
    <3>2. \A r \in Idx \ {s} : slot'[r].key = slot[r].key /\ slot'[r].body = slot[r].body
        BY <1>3
    <3> QED  BY <1>1, <1>6, <1>7, <2>2, <3>1, <3>2, ViewGrows DEF Mapped
  <2> QED  BY <1>3, <1>9, <2>3, CacheCommit
<1>11. CASE Expired(s)
  <2>1. ~Shows(s)'
      BY <1>3, <1>11 DEF Shows, Expired
  <2>2. \A r \in Idx : slot'[r].key = slot[r].key /\ slot'[r].body = slot[r].body
      BY <1>3
  <2>3. View' = View
      BY <1>6, <1>7, <2>1, <2>2, ViewSame DEF Mapped
  <2> QED  BY <1>3, <1>9, <2>3, CacheAbandon
<1> QED  BY <1>10, <1>11


\* Requests change nothing a client sees, resets empty the cache for him.
LEMMA ServeRefines ==
    ASSUME FileInv, Mapped, Mapped', NEW t \in Threads, Serve(t) \/ Reset(t)
    PROVE  Cache!Next
<1>0. TypeOK /\ BaseInv
    BY DEF FileInv, BaseInv
<1>1. now' = now /\ stored' = stored
    BY DEF Serve, Fetch, ProbeOn, LookupNone, LookupHit, ReadGone, ReadLengths,
           ReadHeaders, ReadBody, SendDone, Reset, ResetLock, ResetStates, ResetTable,
           ResetUnlock, store, locals, history
<1>2. SameWriters
  <2>1. pc[t] \notin BeforeCommit /\ pc'[t] \notin BeforeCommit
      BY ZenonT(60), <1>0
         DEF Serve, Fetch, ProbeOn, LookupNone, LookupHit, ReadGone, ReadLengths,
             ReadHeaders, ReadBody, SendDone, Reset, ResetLock, ResetStates,
             ResetTable, ResetUnlock, Goto, TypeOK, BeforeCommit, history
  <2>2. \A u \in Threads \ {t} : pc'[u] = pc[u] /\ key'[u] = key[u] /\ ver'[u] = ver[u]
    <3>1. CASE Serve(t)
        BY <1>0, <3>1 DEF Serve, Fetch, ProbeOn, LookupNone, LookupHit, ReadGone,
                          ReadLengths, ReadHeaders, ReadBody, SendDone, Goto, Forget,
                          TypeOK
    <3>2. CASE Reset(t)
        BY <1>0, <3>2 DEF Reset, ResetLock, ResetStates, ResetTable, ResetUnlock, Goto,
                          locals, TypeOK
    <3> QED  BY <3>1, <3>2
  <2> QED  BY <2>1, <2>2 DEF SameWriters
<1>3. \A s \in Idx : slot'[s].state = "READY" => slot'[s] = slot[s]
  <2>1. CASE ResetStates(t)
    <3>1. \A s \in Idx : slot'[s].state = "EMPTY"
        BY <1>0, <2>1 DEF ResetStates, TypeOK
    <3> QED  BY <3>1
  <2>2. CASE ~ResetStates(t)
      BY <2>2 DEF Serve, Fetch, ProbeOn, LookupNone, LookupHit, ReadGone, ReadLengths,
                  ReadHeaders, ReadBody, SendDone, Reset, ResetLock, ResetTable,
                  ResetUnlock, store
  <2> QED  BY <2>1, <2>2
<1>4. \A s \in Idx : InTable(s)' => InTable(s)
  <2>1. CASE ResetTable(t)
      BY <2>1, Sentinels DEF ResetTable, InTable
  <2>2. CASE ~ResetTable(t)
    <3>1. table' = table
        BY <2>2 DEF Serve, Fetch, ProbeOn, LookupNone, LookupHit, ReadGone, ReadLengths,
                    ReadHeaders, ReadBody, SendDone, Reset, ResetLock, ResetStates,
                    ResetUnlock, store
    <3> QED  BY <3>1 DEF InTable
  <2> QED  BY <2>1, <2>2
<1>5. Hides
    BY <1>0, <1>1, <1>3, <1>4 DEF Hides, TypeOK
<1> QED  BY <1>0, <1>1, <1>2, <1>5, HidesDrops

\* Entries expire, go with the file, or stay; what was being written is given up.
LEMMA ProcessRefines ==
    ASSUME FileInv, Mapped, Mapped', Tick \/ Stop \/ Open
    PROVE  Cache!Next
<1>0. TypeOK /\ BaseInv
    BY DEF FileInv, BaseInv
<1>1. stored' = stored
    BY DEF Tick, Stop, Open, history
<1>2. Hides
  <2>1. now \in Nat /\ now' \in Nat /\ now <= now'
      BY <1>0 DEF Tick, Stop, Open, TypeOK
  <2>2. CASE Tick \/ Stop \/ (Open /\ ~NeedsReinit)
    <3>1. slot' = slot /\ table' = table
        BY <2>2 DEF Tick, Stop, Open, store
    <3> QED  BY <2>1, <3>1 DEF Hides, InTable
  <2>3. CASE Open /\ NeedsReinit
    <3>1. \A s \in Idx : slot'[s].state = "EMPTY" /\ table'[s] = HASH_EMPTY
        BY <1>0, <2>3 DEF Open, TypeOK
    <3> QED  BY <2>1, <3>1, Sentinels DEF Hides, InTable
  <2> QED  BY <2>2, <2>3
<1>3. CASE Tick
  <2>1. SameWriters
      BY <1>3 DEF Tick, SameWriters, locals
  <2> QED  BY <1>0, <1>1, <1>2, <2>1, HidesDrops
<1>4. CASE Stop \/ Open
  <2>1. \A t \in Threads : pc'[t] = "idle"
      BY <1>0, <1>4 DEF Stop, Open, BaseInv, CallInv
  <2>2. Writing' = None
      BY <2>1 DEF Mapped, WritingIs, BeforeCommit
  <2> QED  BY <1>0, <1>1, <1>2, <2>2, HidesShrinks, CacheRestart
<1> QED  BY <1>3, <1>4

LEMMA RefinesInit == Init => Cache!Init
<1> SUFFICES ASSUME Init PROVE Cache!Init
    OBVIOUS
<1>1. Mapped
    BY BaseInit, ChainInit, ContentInit, MappedFacts DEF FileInv
<1>2. \A s \in Idx : ~Shows(s)
    BY DEF Init, Shows, Vacant
<1>3. \A k \in Keys : View[k] = None
    BY <1>1, <1>2 DEF Mapped, ViewIs
<1>4. View = [k \in Keys |-> None]
  <2>1. View = [k \in Keys |-> View[k]]
      BY DEF View
  <2> QED  BY <1>3, <2>1
<1>5. Writing = None
    BY <1>1 DEF Mapped, WritingIs, Init, BeforeCommit
<1>6. Len(stored) = 0
    BY DEF Init
<1> QED  BY <1>4, <1>5, <1>6 DEF Cache!Init, View, Writing

LEMMA RefinesNext ==
    FileInv /\ Mapped /\ Mapped' /\ [Next]_vars => [Cache!Next]_(Cache!vars)
<1> SUFFICES ASSUME FileInv, Mapped, Mapped', [Next]_vars
             PROVE  Cache!Next \/ Cache!vars' = Cache!vars
    OBVIOUS
<1>1. ASSUME NEW t \in Threads, Store(t) PROVE Cache!Next
    BY <1>1, StoreRefines, LockRefines, ReadyRefines, PublishRefines DEF Store
<1>2. ASSUME NEW t \in Threads, Serve(t) \/ Reset(t) PROVE Cache!Next
    BY <1>2, ServeRefines
<1>3. CASE UNCHANGED vars
  <2>1. View' = View /\ Writing' = Writing /\ stored' = stored
    <3>1. UNCHANGED <<table, slot, now, pc, key, ver, stored>>
        BY <1>3 DEF vars
    <3>2. View' = View
        BY <3>1, ViewSame DEF Mapped, Shows, InTable, Expired
    <3>3. Writing' = Writing
        BY <3>1, WritingSame DEF SameWriters
    <3> QED  BY <3>1, <3>2, <3>3
  <2> QED  BY <2>1 DEF Cache!vars, View, Writing
<1> QED  BY <1>1, <1>2, <1>3, ProcessRefines DEF Next

\* The file, its hash table, the lock and the lookups without a lock implement the
\* promised cache: an entry is only seen under the key it was stored for, shows up
\* in one step when its slot is READY and the table leads to it, and once gone comes
\* back only through a new response (store_inner, write_slot, lookup, reset, open).
THEOREM Refinement == Spec => ImplementsCache
<1>1. FileInv => Mapped
    BY MappedFacts
<1>2. FileInv' => Mapped'
    BY MappedFactsNext
<1>3. BaseInv /\ ChainInv /\ ContentInv => FileInv
    BY DEF FileInv
<1>4. Spec => []FileInv
    BY <1>3, BaseInvariant, ChainInvariant, ContentInvariant, PTL
<1> QED
    BY <1>1, <1>2, <1>4, RefinesInit, RefinesNext, PTL DEF Spec, ImplementsCache, Cache!Spec

=============================================================================
