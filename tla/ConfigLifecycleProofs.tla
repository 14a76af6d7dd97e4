----------------------- MODULE ConfigLifecycleProofs ------------------------
(***************************************************************************)
(* Proofs about ConfigLifecycle for any number of threads, instances,      *)
(* operations and edits, and any max_snapshots.                            *)
(***************************************************************************)
EXTENDS ConfigLifecycle, FiniteSetTheorems, TLAPS

-----------------------------------------------------------------------------
(* Finite sets.                                                            *)

\* A nonempty set of numbers has a least one, and a finite one a largest.
LEMMA LeastExists ==
    ASSUME NEW S \in SUBSET Nat, S # {}
    PROVE  \E x \in S : \A y \in S : x <= y
<1>1. PICK x \in S : \A y \in S : ~ (<<y, x>> \in OpToRel(<, Nat))
    BY NatLessThanWellFounded, WFMin
<1>2. \A y \in S : ~ (y < x)
    BY <1>1 DEF OpToRel
<1> QED  BY <1>2

LEMMA MaxExists ==
    ASSUME NEW n \in Nat, NEW S \in SUBSET (1 .. n), S # {}
    PROVE  Max(S) \in S /\ \A y \in S : y <= Max(S)
<1> DEFINE T == {n - x : x \in S}
<1>1. T \in SUBSET Nat /\ T # {}
  <2>1. ASSUME NEW x \in S PROVE n - x \in Nat
      BY 1 .. n \subseteq Nat
  <2>2. PICK x \in S : TRUE
      OBVIOUS
  <2>3. n - x \in T
      BY <2>2
  <2> QED  BY <2>1, <2>3
<1>2. PICK t \in T : \A y \in T : t <= y
    BY <1>1, LeastExists
<1>3. PICK x \in S : t = n - x
    BY <1>2
<1>4. \A y \in S : x >= y
  <2> TAKE y \in S
  <2>1. n - x <= n - y
      BY <1>2, <1>3
  <2> QED  BY <2>1
<1>5. \E m \in S : \A y \in S : m >= y
    BY <1>4
<1>6. Max(S) \in S /\ \A y \in S : Max(S) >= y
    BY <1>5 DEF Max
<1> QED  BY <1>6

\* The bounds on operations make config_snapshots finite.
LEMMA RowFinite == IsFiniteSet(Row)
<1> DEFINE T == ((1 .. MaxOps) \X (1 .. MaxOps)) \X BOOLEAN
           f == [r \in Row |-> <<<<r.id, r.at>>, r.kept>>]
<1>1. IsFiniteSet(1 .. MaxOps)
    BY FS_Interval, BoundsAssumption
<1>2. IsFiniteSet((1 .. MaxOps) \X (1 .. MaxOps))
    BY <1>1, FS_Product
<1>3. IsFiniteSet(BOOLEAN)
  <2>1. IsFiniteSet({TRUE})
      BY FS_Singleton
  <2>2. IsFiniteSet({TRUE} \cup {FALSE})
      BY <2>1, FS_AddElement
  <2>3. BOOLEAN = {TRUE} \cup {FALSE}
      OBVIOUS
  <2> QED  BY <2>2, <2>3
<1>4. IsFiniteSet(T)
    BY <1>2, <1>3, FS_Product
<1>5. f \in Injection(Row, T)
  <2>1. f \in [Row -> T]
      BY DEF Row
  <2>2. \A r, s \in Row : f[r] = f[s] => r = s
      BY DEF Row
  <2> QED  BY <2>1, <2>2 DEF Injection, IsInjective
<1> QED  BY <1>4, <1>5, FS_Injection

\* _prune_snapshots keeps no more than the newest n: of the rows it keeps, the
\* oldest has all the others before it, and there are fewer than n of those.
LEMMA NewestAreFew ==
    ASSUME NEW n \in Nat, NEW R \in SUBSET Row,
           \A r, s \in R : r.at = s.at => r = s
    PROVE  Cardinality({r \in R :
             Cardinality({s \in R : s.at > r.at}) < n}) <= n
<1> DEFINE After(r) == {s \in R : s.at > r.at}
           K == {r \in R : Cardinality(After(r)) < n}
<1>1. IsFiniteSet(R) /\ IsFiniteSet(K)
    BY RowFinite, FS_Subset
<1> SUFFICES Cardinality(K) <= n
    OBVIOUS
<1>2. CASE K = {}
  <2>1. Cardinality(K) = 0
      BY <1>2, FS_EmptySet
  <2> QED  BY <2>1
<1>3. CASE K # {}
  <2>1. PICK r \in K : \A s \in K : r.at <= s.at
    <3> DEFINE A == {s.at : s \in K}
    <3>1. A \in SUBSET Nat /\ A # {}
      <4>1. \A s \in K : s.at \in Nat
          BY DEF Row
      <4>2. PICK x \in K : TRUE
          BY <1>3
      <4>3. \E a : a \in A
        <5>1. x.at \in A
            BY <4>2
        <5> QED  BY <5>1
      <4>4. A \subseteq Nat
          BY <4>1
      <4> QED  BY <4>3, <4>4
    <3>2. \E r \in K : \A s \in K : r.at <= s.at
      <4>1. PICK a \in A : \A b \in A : a <= b
        <5> HIDE DEF A
        <5> QED  BY <3>1, LeastExists
      <4>2. PICK r \in K : r.at = a
          OBVIOUS
      <4>3. \A s \in K : s.at \in A
          OBVIOUS
      <4> QED  BY <4>1, <4>2, <4>3
    <3> QED  BY <3>2
  <2>2. K \ {r} \subseteq After(r)
    <3> SUFFICES ASSUME NEW s \in K, s # r PROVE s.at > r.at
        OBVIOUS
    <3>1. r.at <= s.at /\ s.at # r.at /\ r.at \in Nat /\ s.at \in Nat
        BY <2>1 DEF Row
    <3> QED  BY <3>1
  <2>3. IsFiniteSet(After(r)) /\ Cardinality(After(r)) < n
      BY <1>1, <2>1, FS_Subset
  <2>4. Cardinality(K \ {r}) <= Cardinality(After(r))
      BY <2>2, <2>3, FS_Subset
  <2>5. Cardinality(K \ {r}) = Cardinality(K) - 1
      BY <1>1, <2>1, FS_RemoveElement
  <2>6. /\ Cardinality(K) \in Nat /\ Cardinality(K \ {r}) \in Nat
        /\ Cardinality(After(r)) \in Nat
      BY <1>1, <2>3, FS_CardinalityType, FS_RemoveElement
  <2> QED  BY <2>3, <2>4, <2>5, <2>6
<1> QED  BY <1>2, <1>3

-----------------------------------------------------------------------------
(* How many threads are at some of the steps.                              *)

At(S) == {th \in Threads : pc[th] \in S}
Pending(S) == Cardinality(At(S))

LEMMA PendingType ==
    ASSUME NEW S
    PROVE  IsFiniteSet(At(S)) /\ Pending(S) \in Nat
BY FS_Subset, FS_CardinalityType, ThreadsAssumption DEF At, Pending

LEMMA PendingMove ==
    ASSUME NEW S, NEW th \in Threads, NEW label, pc \in [Threads -> Steps],
           pc' = [pc EXCEPT ![th] = label]
    PROVE  Pending(S)' = Pending(S) + (IF label \in S THEN 1 ELSE 0)
                                    - (IF pc[th] \in S THEN 1 ELSE 0)
<1>1. /\ IsFiniteSet(At(S)) /\ Pending(S) \in Nat
    BY PendingType
<1>2. At(S)' = IF label \in S THEN At(S) \cup {th} ELSE At(S) \ {th}
    BY DEF At
<1>3. th \in At(S) <=> pc[th] \in S
    BY DEF At
<1>4. CASE label \in S
  <2>1. Cardinality(At(S) \cup {th}) = IF th \in At(S) THEN Pending(S)
                                       ELSE Pending(S) + 1
      BY <1>1, FS_AddElement DEF Pending
  <2>2. Pending(S)' = Cardinality(At(S) \cup {th})
      BY <1>2, <1>4 DEF Pending
  <2> QED  BY <1>1, <1>3, <1>4, <2>1, <2>2
<1>5. CASE label \notin S
  <2>1. Cardinality(At(S) \ {th}) = IF th \in At(S) THEN Pending(S) - 1
                                    ELSE Pending(S)
      BY <1>1, FS_RemoveElement DEF Pending
  <2>2. Pending(S)' = Cardinality(At(S) \ {th})
      BY <1>2, <1>5 DEF Pending
  <2> QED  BY <1>1, <1>3, <1>5, <2>1, <2>2
<1> QED  BY <1>4, <1>5

-----------------------------------------------------------------------------
(* The base invariant: types, the lock, the counters and the row ids.      *)

\* The steps inside write_config, between the flock and its release.
Held == {"generate", "side", "validate", "truncate", "write", "writeapplied",
         "build", "truncsnap", "writesnap", "insert", "prune", "push",
         "unlock"}

\* The steps before an operation's generation, its dated snapshot, its row.
ToGenerate == {"lookup", "read", "restore", "reset", "lock", "generate"}
ToSave == ToGenerate \cup {"side", "validate", "truncate", "write",
                           "writeapplied", "build", "truncsnap", "writesnap"}
ToInsert == ToSave \cup {"insert"}

\* The steps that follow the first truncation of haproxy.cfg.
Opened == {"write", "writeapplied", "build", "truncsnap", "writesnap",
           "insert", "prune", "push", "unlock", "reload", "repush"}

\* flock: the holder is the one thread inside write_config.
LockInv == \A th \in Threads : lock = th <=> pc[th] \in Held

CountInv ==
    /\ seq + Pending(ToGenerate) <= ops
    /\ Len(saved) + Pending(ToSave) <= ops
    /\ nextId - 1 + Pending(ToInsert) <= ops

\* The dated file that the row being inserted names is newer than every other.
Inserting == \E th \in Threads : pc[th] = "insert"
NewestListed == IF Inserting THEN Len(saved) - 1 ELSE Len(saved)

\* The ids that were given out, less those that pending operations may take.
IdsGiven == ops - Pending(ToInsert)

\* A config_snapshots table, wherever it is kept: no two rows share an id or a
\* file, and the files and the ids are among the first n and the first k.
Listed(R, n, k) ==
    /\ R \subseteq Row
    /\ \A r, s \in R : r.id = s.id => r = s
    /\ \A r, s \in R : r.at = s.at => r = s
    /\ \A r \in R : r.at <= n /\ r.id <= k

\* The tables are also in the snapshots that threads have read or built, in
\* the dated files and in the latest one.
Snapshots ==
    {snap[th] : th \in Threads} \cup {saved[n] : n \in 1 .. Len(saved)}
        \cup ({latest} \ {None, Partial})

RowsInv ==
    /\ Listed(rows, NewestListed, IdsGiven)
    /\ \A s \in Snapshots : Listed(s.rows, NewestListed, IdsGiven)

SourceInv ==
    \A th \in Threads :
        pc[th] = "insert" => source[th] = Len(saved) /\ saved # <<>>

OpenedInv == \A th \in Threads : pc[th] \in Opened => cfg # None

BaseInv ==
    TypeOK /\ LockInv /\ CountInv /\ RowsInv /\ SourceInv /\ OpenedInv

-----------------------------------------------------------------------------

\* What the constants rule out about the two markers.
LEMMA Markers ==
    /\ None # Partial
    /\ None \notin Config /\ Partial \notin Config
    /\ None \notin Snapshot /\ Partial \notin Snapshot
    /\ None \notin Threads
BY FilesAssumption, ThreadsAssumption

\* A thread that does not move to a step before its generation leaves the
\* counters where they were, or lower.
LEMMA PendingDrops ==
    ASSUME NEW S, NEW th \in Threads, NEW label, pc \in [Threads -> Steps],
           pc' = [pc EXCEPT ![th] = label],
           label \in S => pc[th] \in S
    PROVE  /\ Pending(S)' <= Pending(S)
           /\ Pending(S) \in Nat /\ Pending(S)' \in Nat
           /\ pc[th] \in S /\ label \notin S => Pending(S)' = Pending(S) - 1
           /\ pc[th] \in S <=> label \in S => Pending(S)' = Pending(S)
<1>1. Pending(S) \in Nat
    BY PendingType
<1>2. Pending(S)' = Pending(S) + (IF label \in S THEN 1 ELSE 0)
                               - (IF pc[th] \in S THEN 1 ELSE 0)
    BY PendingMove
<1>3. Pending(S)' \in Nat
  <2>1. At(S)' \in SUBSET Threads
      BY DEF At
  <2> QED
      BY <2>1, FS_Subset, FS_CardinalityType, ThreadsAssumption DEF Pending
<1> QED  BY <1>1, <1>2, <1>3

\* Only one thread is inside write_config.
LEMMA OneHolder ==
    ASSUME LockInv, NEW th \in Threads, NEW o \in Threads,
           pc[th] \in Held, pc[o] \in Held
    PROVE  th = o
BY DEF LockInv

\* Every step of a thread moves it, and only it, to a step of the program.
LEMMA OneMoves ==
    ASSUME TypeOK, NEW th \in Threads, Request(th) \/ Step(th) \/ Crash(th)
    PROVE  \E label \in Steps \ {pc[th]} : pc' = [pc EXCEPT ![th] = label]
<1> USE DEF Goto, Raise, Leave, Steps
<1>1. CASE Request(th)
  <2>1. CASE Goto(th, "lookup")
      BY <1>1, <2>1 DEF Request
  <2>2. CASE ~ Goto(th, "lookup")
    <3>1. PICK o \in Ops : Goto(th, IF o = "revert" THEN "read" ELSE "lock")
        BY <1>1, <2>2 DEF Request
    <3> QED  BY <1>1, <3>1 DEF Request
  <2> QED  BY <2>1, <2>2
<1>2. CASE Crash(th)
    BY <1>2 DEF Crash
<1>3. CASE Step(th)
  <2>1. CASE Lookup(th) \/ ReadSnapshot(th) \/ Restore(th)
             \/ ResetSequences(th) \/ AcquireLock(th)
      BY <2>1 DEF Lookup, ReadSnapshot, Restore, ResetSequences, AcquireLock
  <2>2. CASE GenerateConfig(th) \/ WriteSideFiles(th)
             \/ ValidateConfigText(th) \/ TruncateConfig(th)
             \/ WriteConfig(th) \/ WriteApplied(th)
      BY <2>2 DEF GenerateConfig, WriteSideFiles, ValidateConfigText,
                  TruncateConfig, WriteConfig, WriteApplied
  <2>3. CASE BuildSnapshot(th) \/ TruncateSnapshot(th) \/ WriteSnapshot(th)
             \/ InsertRow(th) \/ PruneSnapshots(th)
      BY <2>3 DEF BuildSnapshot, TruncateSnapshot, WriteSnapshot, InsertRow,
                  PruneSnapshots, PruneBeyond
  <2>4. CASE Push(th) \/ Unlock(th) \/ Repush(th) \/ Reload(th)
      BY <2>4 DEF Push, Unlock, Repush, Reload
  <2> QED  BY <1>3, <2>1, <2>2, <2>3, <2>4 DEF Step
<1> QED  BY <1>1, <1>2, <1>3

\* The lock is taken only while it is free, and given back on every way out of
\* write_config.
LEMMA LockKept ==
    ASSUME TypeOK, LockInv, [Next]_vars
    PROVE  LockInv'
<1>1. CASE Edit \/ DataPlaneReload \/ UNCHANGED vars
    BY <1>1 DEF Edit, DataPlaneReload, vars, LockInv
<1>2. ASSUME NEW th \in Threads, Request(th) \/ Step(th) \/ Crash(th)
      PROVE  LockInv'
  <2>1. PICK label \in Steps \ {pc[th]} : pc' = [pc EXCEPT ![th] = label]
      BY <1>2, OneMoves
  <2>2. /\ pc'[th] = label
        /\ \A o \in Threads \ {th} : pc'[o] = pc[o]
      BY <2>1 DEF TypeOK
  <2>3. lock = th <=> pc[th] \in Held
      BY DEF LockInv
  <2>4. ASSUME lock' = lock, label \in Held <=> pc[th] \in Held
        PROVE  LockInv'
      BY <2>2, <2>4 DEF LockInv
  <2>5. ASSUME lock = None, lock' = th, label \in Held
        PROVE  LockInv'
      BY <2>2, <2>5, Markers DEF LockInv
  <2>6. ASSUME lock' = (IF lock = th THEN None ELSE lock), label \notin Held
        PROVE  LockInv'
      BY <2>2, <2>6, Markers DEF LockInv
  <2> USE DEF Goto, Raise, Leave, Held
  <2>7. CASE Request(th)
    <3>1. /\ lock' = lock /\ pc[th] = "idle"
          /\ label \in {"lookup", "read", "lock"}
        BY <1>2, <2>2, <2>7 DEF Request, TypeOK
    <3> QED  BY <2>4, <3>1
  <2>8. CASE Crash(th)
      BY <2>2, <2>6, <2>8 DEF Crash, TypeOK
  <2>9. CASE Lookup(th) \/ ReadSnapshot(th) \/ Restore(th)
    <3>1. \/ lock' = lock /\ label \in {"read", "restore", "reset"}
          \/ lock' = (IF lock = th THEN None ELSE lock) /\ label = "idle"
        BY <2>2, <2>9 DEF Lookup, ReadSnapshot, Restore, TypeOK
    <3>2. pc[th] \notin Held
        BY <2>9 DEF Lookup, ReadSnapshot, Restore
    <3> QED  BY <2>4, <2>6, <3>1, <3>2
  <2>10. CASE ResetSequences(th) \/ Repush(th) \/ Reload(th)
      BY <2>2, <2>4, <2>10 DEF ResetSequences, Repush, Reload, TypeOK
  <2>11. CASE AcquireLock(th)
      BY <2>2, <2>5, <2>11 DEF AcquireLock, TypeOK
  <2>12. CASE GenerateConfig(th) \/ WriteSideFiles(th) \/ TruncateConfig(th)
              \/ WriteConfig(th) \/ WriteApplied(th)
      BY <2>2, <2>4, <2>12
         DEF GenerateConfig, WriteSideFiles, TruncateConfig, WriteConfig,
             WriteApplied, TypeOK
  <2>13. CASE BuildSnapshot(th) \/ TruncateSnapshot(th) \/ WriteSnapshot(th)
              \/ PruneSnapshots(th) \/ Push(th)
      BY <2>2, <2>4, <2>13
         DEF BuildSnapshot, TruncateSnapshot, WriteSnapshot, PruneSnapshots, PruneBeyond,
             Push, TypeOK
  <2>14. CASE ValidateConfigText(th) \/ InsertRow(th)
    <3>1. \/ lock' = lock /\ label \in {"truncate", "prune"}
          \/ lock' = (IF lock = th THEN None ELSE lock) /\ label = "idle"
        BY <2>2, <2>14 DEF ValidateConfigText, InsertRow, TypeOK
    <3>2. pc[th] \in Held
        BY <2>14 DEF ValidateConfigText, InsertRow
    <3> QED  BY <2>4, <2>6, <3>1, <3>2
  <2>15. CASE Unlock(th)
    <3>1. lock = th /\ lock' = None /\ label \in {"repush", "reload"}
        BY <2>2, <2>3, <2>15 DEF Unlock, TypeOK
    <3> QED  BY <2>6, <3>1
  <2> QED
      BY <1>2, <2>7, <2>8, <2>9, <2>10, <2>11, <2>12, <2>13, <2>14, <2>15
         DEF Step
<1> QED  BY <1>1, <1>2 DEF Next

\* An operation runs through its steps once: none leads back behind the
\* generation, the dated snapshot or the row.
LEMMA NeverBack ==
    ASSUME TypeOK, NEW th \in Threads, Step(th) \/ Crash(th)
    PROVE  \E label \in Steps \ {pc[th]} :
              /\ pc' = [pc EXCEPT ![th] = label]
              /\ label \in ToGenerate => pc[th] \in ToGenerate \ {"generate"}
              /\ label \in ToSave => pc[th] \in ToSave \ {"writesnap"}
              /\ label \in ToInsert => pc[th] \in ToInsert \ {"insert"}
<1>1. PICK label \in Steps \ {pc[th]} : pc' = [pc EXCEPT ![th] = label]
    BY OneMoves
<1>2. pc'[th] = label
    BY <1>1 DEF TypeOK
<1> USE DEF Goto, Raise, Leave, ToGenerate, ToSave, ToInsert
<1> SUFFICES
      /\ label \in ToGenerate => pc[th] \in ToGenerate \ {"generate"}
      /\ label \in ToSave => pc[th] \in ToSave \ {"writesnap"}
      /\ label \in ToInsert => pc[th] \in ToInsert \ {"insert"}
    BY <1>1
<1>3. CASE Crash(th)
    BY <1>2, <1>3 DEF Crash, TypeOK
<1>4. CASE Lookup(th) \/ ReadSnapshot(th) \/ Restore(th)
           \/ ResetSequences(th) \/ AcquireLock(th)
    BY <1>2, <1>4 DEF Lookup, ReadSnapshot, Restore, ResetSequences,
                      AcquireLock, TypeOK
<1>5. CASE GenerateConfig(th) \/ WriteSideFiles(th) \/ ValidateConfigText(th)
           \/ TruncateConfig(th) \/ WriteConfig(th) \/ WriteApplied(th)
    BY <1>2, <1>5 DEF GenerateConfig, WriteSideFiles, ValidateConfigText,
                      TruncateConfig, WriteConfig, WriteApplied, TypeOK
<1>6. CASE BuildSnapshot(th) \/ TruncateSnapshot(th) \/ WriteSnapshot(th)
           \/ InsertRow(th) \/ PruneSnapshots(th)
    BY <1>2, <1>6 DEF BuildSnapshot, TruncateSnapshot, WriteSnapshot,
                      InsertRow, PruneSnapshots, PruneBeyond, TypeOK
<1>7. CASE Push(th) \/ Unlock(th) \/ Repush(th) \/ Reload(th)
    BY <1>2, <1>7 DEF Push, Unlock, Repush, Reload, TypeOK
<1> QED  BY <1>3, <1>4, <1>5, <1>6, <1>7 DEF Step

\* The rows of the snapshot a thread has read were given out.
LEMMA LargestId ==
    ASSUME BaseInv, NEW th \in Threads, snap[th].rows # {}
    PROVE  LET m == Max({r.id : r \in snap[th].rows}) IN
             /\ m \in 1 .. MaxOps
             /\ m <= IdsGiven
             /\ \A r \in snap[th].rows : r.id <= m
<1> DEFINE Ids == {r.id : r \in snap[th].rows}
           m == Max(Ids)
<1>1. Listed(snap[th].rows, NewestListed, IdsGiven)
    BY DEF BaseInv, RowsInv, Snapshots
<1>2. \A r \in snap[th].rows : r.id \in 1 .. MaxOps
    BY <1>1 DEF Listed, Row
<1>3. Ids \in SUBSET (1 .. MaxOps) /\ Ids # {}
  <2>1. PICK r \in snap[th].rows : TRUE
      OBVIOUS
  <2>2. r.id \in Ids
      BY <2>1
  <2> QED  BY <1>2, <2>2
<1>4. m \in Ids /\ \A i \in Ids : i <= m
    BY <1>3, MaxExists, BoundsAssumption
<1> HIDE DEF m
<1>5. PICK r \in snap[th].rows : r.id = m
    BY <1>4
<1>6. m \in 1 .. MaxOps /\ m <= IdsGiven
    BY <1>1, <1>2, <1>5 DEF Listed
<1> QED  BY <1>4, <1>6 DEF m

\* A generation, a dated snapshot and a row id are each paid for by one of the
\* operations that were asked for.  Ids and files that were given out stay so.
LEMMA CountKept ==
    ASSUME BaseInv, [Next]_vars
    PROVE  /\ CountInv'
           /\ IdsGiven \in Int /\ IdsGiven' \in Int /\ IdsGiven <= IdsGiven'
           /\ ops' \in 0 .. MaxOps
<1> DEFINE Goal == /\ CountInv'
                   /\ IdsGiven \in Int /\ IdsGiven' \in Int
                   /\ IdsGiven <= IdsGiven'
                   /\ ops' \in 0 .. MaxOps
<1>1. /\ seq \in Nat /\ ops \in Nat /\ nextId \in Nat /\ Len(saved) \in Nat
      /\ MaxOps \in Nat /\ ops <= MaxOps
    BY BoundsAssumption DEF BaseInv, TypeOK
<1>2. /\ Pending(ToGenerate) \in Nat /\ Pending(ToSave) \in Nat
      /\ Pending(ToInsert) \in Nat
    BY PendingType
<1>3. /\ seq + Pending(ToGenerate) <= ops
      /\ Len(saved) + Pending(ToSave) <= ops
      /\ nextId - 1 + Pending(ToInsert) <= ops
    BY DEF BaseInv, CountInv
<1>4. TypeOK /\ pc \in [Threads -> Steps]
    BY DEF BaseInv, TypeOK
<1>5. CASE Edit \/ DataPlaneReload \/ UNCHANGED vars
  <2>1. UNCHANGED <<pc, seq, ops, nextId, saved>>
      BY <1>5 DEF Edit, DataPlaneReload, vars, dbVars, history
  <2>2. /\ Pending(ToGenerate)' = Pending(ToGenerate)
        /\ Pending(ToSave)' = Pending(ToSave)
        /\ Pending(ToInsert)' = Pending(ToInsert)
      BY <2>1 DEF Pending, At
  <2> QED  BY <1>1, <1>2, <1>3, <2>1, <2>2 DEF CountInv, IdsGiven
<1>6. ASSUME NEW th \in Threads, Request(th) PROVE Goal
  <2>1. PICK label \in {"lookup", "read", "lock"} :
                                        pc' = [pc EXCEPT ![th] = label]
    <3>1. CASE Goto(th, "lookup")
        BY <3>1 DEF Goto
    <3>2. CASE ~ Goto(th, "lookup")
      <4>1. PICK o \in Ops : Goto(th, IF o = "revert" THEN "read" ELSE "lock")
          BY <1>6, <3>2 DEF Request
      <4> QED  BY <4>1 DEF Goto
    <3> QED  BY <3>1, <3>2
  <2>2. /\ pc[th] = "idle" /\ ops < MaxOps /\ ops' = ops + 1
        /\ UNCHANGED <<seq, nextId, saved>>
      BY <1>6 DEF Request, dbVars
  <2>3. /\ Pending(ToGenerate)' = Pending(ToGenerate) + 1
        /\ Pending(ToSave)' = Pending(ToSave) + 1
        /\ Pending(ToInsert)' = Pending(ToInsert) + 1
    <3>1. /\ label \in ToGenerate /\ label \in ToSave /\ label \in ToInsert
          /\ pc[th] \notin ToGenerate /\ pc[th] \notin ToSave
          /\ pc[th] \notin ToInsert
        BY <2>2 DEF ToGenerate, ToSave, ToInsert
    <3>2. Pending(ToGenerate)' = Pending(ToGenerate) + 1 - 0
        BY <1>4, <2>1, <3>1, PendingMove
    <3>3. Pending(ToSave)' = Pending(ToSave) + 1 - 0
        BY <1>4, <2>1, <3>1, PendingMove
    <3>4. Pending(ToInsert)' = Pending(ToInsert) + 1 - 0
        BY <1>4, <2>1, <3>1, PendingMove
    <3> QED  BY <1>2, <3>2, <3>3, <3>4
  <2>4. seq' + Pending(ToGenerate)' <= ops'
      BY <1>1, <1>2, <1>3, <2>2, <2>3
  <2>5. Len(saved') + Pending(ToSave)' <= ops'
      BY <1>1, <1>2, <1>3, <2>2, <2>3
  <2>6. nextId' - 1 + Pending(ToInsert)' <= ops'
      BY <1>1, <1>2, <1>3, <2>2, <2>3
  <2>7. CountInv'
      BY <2>4, <2>5, <2>6 DEF CountInv
  <2> QED  BY <1>1, <1>2, <2>2, <2>3, <2>7 DEF IdsGiven
<1>7. ASSUME NEW th \in Threads, Step(th) \/ Crash(th) PROVE Goal
  <2>1. PICK label \in Steps \ {pc[th]} :
              /\ pc' = [pc EXCEPT ![th] = label]
              /\ label \in ToGenerate => pc[th] \in ToGenerate \ {"generate"}
              /\ label \in ToSave => pc[th] \in ToSave \ {"writesnap"}
              /\ label \in ToInsert => pc[th] \in ToInsert \ {"insert"}
      BY <1>4, <1>7, NeverBack
  <2>2. /\ Pending(ToGenerate)' <= Pending(ToGenerate)
        /\ Pending(ToSave)' <= Pending(ToSave)
        /\ Pending(ToInsert)' <= Pending(ToInsert)
        /\ Pending(ToGenerate)' \in Nat /\ Pending(ToSave)' \in Nat
        /\ Pending(ToInsert)' \in Nat
      BY <1>4, <2>1, PendingDrops
  <2>3. /\ pc[th] = "generate" => Pending(ToGenerate)' = Pending(ToGenerate) - 1
        /\ pc[th] = "writesnap" => Pending(ToSave)' = Pending(ToSave) - 1
        /\ pc[th] = "insert" => Pending(ToInsert)' = Pending(ToInsert) - 1
    <3>1. /\ pc[th] = "generate" => pc[th] \in ToGenerate
          /\ pc[th] = "writesnap" => pc[th] \in ToSave
          /\ pc[th] = "insert" => pc[th] \in ToInsert
        BY DEF ToGenerate, ToSave, ToInsert
    <3> QED  BY <1>4, <2>1, <3>1, PendingDrops
  <2>4. ops' = ops
      BY <1>7 DEF Step, Crash, Lookup, ReadSnapshot, Restore, ResetSequences,
                  AcquireLock, GenerateConfig, WriteSideFiles,
                  ValidateConfigText, TruncateConfig, WriteConfig,
                  WriteApplied, BuildSnapshot, TruncateSnapshot, WriteSnapshot,
                  InsertRow, PruneSnapshots, PruneBeyond, Push, Unlock, Repush, Reload,
                  history
  <2>5. seq' = seq \/ (seq' = seq + 1 /\ pc[th] = "generate")
      BY <1>7 DEF Step, Crash, Lookup, ReadSnapshot, Restore, ResetSequences,
                  AcquireLock, GenerateConfig, WriteSideFiles,
                  ValidateConfigText, TruncateConfig, WriteConfig,
                  WriteApplied, BuildSnapshot, TruncateSnapshot, WriteSnapshot,
                  InsertRow, PruneSnapshots, PruneBeyond, Push, Unlock, Repush, Reload,
                  history
  <2>6. saved' = saved
        \/ (saved' = Append(saved, snap[th]) /\ pc[th] = "writesnap")
      BY <1>7 DEF Step, Crash, Lookup, ReadSnapshot, Restore, ResetSequences,
                  AcquireLock, GenerateConfig, WriteSideFiles,
                  ValidateConfigText, TruncateConfig, WriteConfig,
                  WriteApplied, BuildSnapshot, TruncateSnapshot, WriteSnapshot,
                  InsertRow, PruneSnapshots, PruneBeyond, Push, Unlock, Repush, Reload,
                  history
  <2>7. Len(saved') = Len(saved)
        \/ (Len(saved') = Len(saved) + 1 /\ pc[th] = "writesnap")
      BY <1>4, <2>6 DEF TypeOK
  <2>8. \/ nextId' = nextId
        \/ nextId' = nextId + 1 /\ pc[th] = "insert"
        \/ ResetSequences(th)
      BY <1>7 DEF Step, Crash, Lookup, ReadSnapshot, Restore,
                  AcquireLock, GenerateConfig, WriteSideFiles,
                  ValidateConfigText, TruncateConfig, WriteConfig,
                  WriteApplied, BuildSnapshot, TruncateSnapshot, WriteSnapshot,
                  InsertRow, PruneSnapshots, PruneBeyond, Push, Unlock, Repush, Reload,
                  dbVars
  <2>9. nextId' \in Nat /\ nextId' - 1 + Pending(ToInsert)' <= ops
    <3>1. CASE nextId' = nextId
      <4>1. nextId - 1 + Pending(ToInsert) <= ops
            /\ Pending(ToInsert)' <= Pending(ToInsert)
          BY <1>3, <2>2
      <4> QED  BY <1>1, <1>2, <2>2, <3>1, <4>1
    <3>2. CASE nextId' = nextId + 1 /\ pc[th] = "insert"
      <4>1. nextId - 1 + Pending(ToInsert) <= ops
            /\ Pending(ToInsert)' = Pending(ToInsert) - 1
          BY <1>3, <2>3, <3>2
      <4> QED  BY <1>1, <1>2, <3>2, <4>1
    <3>3. CASE ResetSequences(th) /\ nextId' # nextId
      <4> DEFINE m == Max({r.id : r \in snap[th].rows})
      <4>1. snap[th].rows # {} /\ nextId' = m + 1
          BY <3>3 DEF ResetSequences
      <4>2. m \in 1 .. MaxOps /\ m <= IdsGiven
          BY <4>1, LargestId
      <4> HIDE DEF m
      <4> QED  BY <1>1, <1>2, <2>2, <4>1, <4>2 DEF IdsGiven
    <3> QED  BY <2>8, <3>1, <3>2, <3>3
  <2>10. seq' \in Nat /\ seq' + Pending(ToGenerate)' <= ops
    <3>1. seq + Pending(ToGenerate) <= ops /\ Pending(ToGenerate) \in Nat
          /\ seq \in Nat /\ ops \in Nat
        BY <1>1, <1>2, <1>3
    <3>2. CASE seq' = seq
      <4>1. Pending(ToGenerate)' \in Nat
            /\ Pending(ToGenerate)' <= Pending(ToGenerate)
          BY <2>2
      <4> QED  BY <3>1, <3>2, <4>1
    <3>3. CASE seq' = seq + 1 /\ pc[th] = "generate"
      <4>1. Pending(ToGenerate)' = Pending(ToGenerate) - 1
          BY <2>3, <3>3
      <4> QED  BY <3>1, <3>3, <4>1
    <3> QED  BY <2>5, <3>2, <3>3
  <2>11. Len(saved') \in Nat /\ Len(saved') + Pending(ToSave)' <= ops
    <3>1. Len(saved) + Pending(ToSave) <= ops /\ Pending(ToSave) \in Nat
          /\ Len(saved) \in Nat /\ ops \in Nat
        BY <1>1, <1>2, <1>3
    <3>2. CASE Len(saved') = Len(saved)
      <4>1. Pending(ToSave)' \in Nat /\ Pending(ToSave)' <= Pending(ToSave)
          BY <2>2
      <4> QED  BY <3>1, <3>2, <4>1
    <3>3. CASE Len(saved') = Len(saved) + 1 /\ pc[th] = "writesnap"
      <4>1. Pending(ToSave)' = Pending(ToSave) - 1
          BY <2>3, <3>3
      <4> QED  BY <3>1, <3>3, <4>1
    <3> QED  BY <2>7, <3>2, <3>3
  <2>12. CountInv'
      BY <2>4, <2>9, <2>10, <2>11 DEF CountInv
  <2> QED  BY <1>1, <1>2, <2>2, <2>4, <2>12 DEF IdsGiven
<1> QED  BY <1>5, <1>6, <1>7 DEF Next

\* What is listed stays so when more files and ids have been given out.
LEMMA ListedGrows ==
    ASSUME NEW n \in Int, NEW k \in Int, NEW m \in Int, NEW l \in Int,
           n <= m, k <= l, NEW R, Listed(R, n, k)
    PROVE  Listed(R, m, l)
BY DEF Listed, Row

\* Files are only added, and the newest is listed once its row is in or its
\* insert is over.
LEMMA NewestGrows ==
    ASSUME BaseInv, [Next]_vars
    PROVE  /\ NewestListed \in Int /\ NewestListed' \in Int
           /\ NewestListed <= NewestListed'
<1>1. Len(saved) \in Nat /\ Len(saved') \in Nat /\ TypeOK
    BY DEF BaseInv, TypeOK, Next, vars, Edit, DataPlaneReload, history, Request, Step, Crash,
       Lookup, ReadSnapshot, Restore, ResetSequences, AcquireLock,
       GenerateConfig, WriteSideFiles, ValidateConfigText, TruncateConfig,
       WriteConfig, WriteApplied, BuildSnapshot, TruncateSnapshot,
       WriteSnapshot, InsertRow, PruneSnapshots, PruneBeyond, Push, Unlock, Repush, Reload
<1>2. CASE \E th \in Threads : WriteSnapshot(th)
  <2>1. Len(saved') = Len(saved) + 1
      BY <1>1, <1>2 DEF WriteSnapshot, TypeOK
  <2> QED  BY <1>1, <2>1 DEF NewestListed
<1>3. CASE ~ \E th \in Threads : WriteSnapshot(th)
  <2>1. saved' = saved
      BY ZenonT(60), <1>3 DEF Next, vars, Edit, DataPlaneReload, history, Request, Step, Crash,
         Lookup, ReadSnapshot, Restore, ResetSequences, AcquireLock,
         GenerateConfig, WriteSideFiles, ValidateConfigText, TruncateConfig,
         WriteConfig, WriteApplied, BuildSnapshot, TruncateSnapshot,
         InsertRow, PruneSnapshots, PruneBeyond, Push, Unlock, Repush, Reload
  <2>2. Inserting' => Inserting
    <3>1. CASE Edit \/ DataPlaneReload \/ UNCHANGED vars
        BY <3>1 DEF Edit, DataPlaneReload, vars, Inserting
    <3>2. ASSUME NEW th \in Threads, Request(th) \/ Step(th) \/ Crash(th)
          PROVE  Inserting' => Inserting
      <4>1. PICK label \in Steps \ {pc[th]} : pc' = [pc EXCEPT ![th] = label]
          BY <1>1, <3>2, OneMoves
      <4>2. label # "insert"
        <5>1. pc'[th] = label
            BY <1>1, <4>1 DEF TypeOK
        <5>2. CASE Request(th) \/ Crash(th)
            BY <1>1, <5>1, <5>2
               DEF Request, Crash, Goto, Raise, Leave, TypeOK, AllOps
        <5>3. CASE Step(th)
            BY <1>1, <1>3, <5>1, <5>3
               DEF Step, Lookup, ReadSnapshot, Restore, ResetSequences,
                   AcquireLock, GenerateConfig, WriteSideFiles,
                   ValidateConfigText, TruncateConfig, WriteConfig,
                   WriteApplied, BuildSnapshot, TruncateSnapshot, InsertRow,
                   PruneSnapshots, PruneBeyond, Push, Unlock, Repush, Reload, Goto, Raise, Leave,
                   TypeOK
        <5> QED  BY <3>2, <5>2, <5>3
      <4> QED  BY <1>1, <4>1, <4>2 DEF Inserting, TypeOK
    <3> QED  BY <3>1, <3>2 DEF Next
  <2> QED  BY <1>1, <2>1, <2>2 DEF NewestListed
<1> QED  BY <1>2, <1>3

\* A thread leaves a step either for good, without its locals, or with them.
LEMMA LeavesOrKeeps ==
    ASSUME NEW th \in Threads, Step(th)
    PROVE  \/ Leave(th) /\ UNCHANGED <<saved, latest>>
           \/ ReadSnapshot(th) \/ BuildSnapshot(th) \/ TruncateSnapshot(th)
           \/ WriteSnapshot(th)
           \/ UNCHANGED <<snap, saved, latest>>
BY DEF Step, Lookup, Restore, ResetSequences, AcquireLock,
   GenerateConfig, WriteSideFiles, ValidateConfigText, TruncateConfig,
   WriteConfig, WriteApplied, InsertRow, PruneSnapshots, PruneBeyond, Push, Unlock,
   Repush, Reload, Raise, locals, history, fileVars

\* A snapshot is a copy of the tables, made by save_config_snapshot, or of
\* another snapshot; or nothing is left of it.
LEMMA SnapshotsCopied ==
    ASSUME TypeOK, [Next]_vars
    PROVE  \/ Snapshots' \subseteq Snapshots \cup {EmptySnapshot}
           \/ /\ \E th \in Threads : BuildSnapshot(th)
              /\ Snapshots'
                   \subseteq Snapshots \cup {[db |-> db, rows |-> rows]}
<1>1. ASSUME UNCHANGED <<snap, saved, latest>>
      PROVE  Snapshots' \subseteq Snapshots
    BY <1>1 DEF Snapshots
<1>0. ASSUME NEW th \in Threads, Leave(th), UNCHANGED <<saved, latest>>
      PROVE  Snapshots' \subseteq Snapshots \cup {EmptySnapshot}
  <2>1. ASSUME NEW o \in Threads PROVE snap'[o] = snap[o] \/ snap'[o] = EmptySnapshot
      BY <1>0 DEF Leave, TypeOK
  <2> QED  BY <1>0, <2>1 DEF Snapshots
<1>2. CASE Edit \/ DataPlaneReload \/ UNCHANGED vars
    BY <1>1, <1>2 DEF Edit, DataPlaneReload, vars, locals, history, fileVars
<1>3. ASSUME NEW th \in Threads, Request(th) \/ Crash(th)
      PROVE  Snapshots' \subseteq Snapshots \cup {EmptySnapshot}
  <2>1. CASE Request(th)
      BY <1>1, <2>1 DEF Request, fileVars
  <2>2. CASE Crash(th)
      BY <1>0, <2>2 DEF Crash, Raise, fileVars
  <2> QED  BY <1>3, <2>1, <2>2
<1>4. ASSUME NEW th \in Threads, Step(th)
      PROVE  \/ Snapshots' \subseteq Snapshots \cup {EmptySnapshot}
             \/ /\ BuildSnapshot(th)
                /\ Snapshots'
                     \subseteq Snapshots \cup {[db |-> db, rows |-> rows]}
  <2>1. /\ snap[th] \in Snapshots
        /\ latest \notin {None, Partial} => latest \in Snapshots
      BY DEF Snapshots
  <2>2. CASE ReadSnapshot(th) /\ ~ Leave(th)
    <3>1. UNCHANGED <<saved, latest>>
        BY <2>2 DEF ReadSnapshot, fileVars, history
    <3>2. \A o \in Threads : snap'[o] \in Snapshots
      <4>1. CASE snap' = snap
          BY <4>1 DEF Snapshots
      <4>2. CASE snap' # snap
        <5>1. PICK s \in Snapshots : snap' = [snap EXCEPT ![th] = s]
          <6>1. CASE source[th] = 0
              BY <2>1, <2>2, <4>2, <6>1 DEF ReadSnapshot, Raise
          <6>2. CASE source[th] # 0
            <7>1. /\ source[th] \in files
                  /\ snap' = [snap EXCEPT ![th] = saved[source[th]]]
                BY <2>2, <4>2, <6>2 DEF ReadSnapshot, Raise
            <7>2. source[th] \in 1 .. Len(saved)
                BY <7>1 DEF TypeOK
            <7> QED  BY <7>1, <7>2 DEF Snapshots
          <6> QED  BY <6>1, <6>2
        <5>2. ASSUME NEW o \in Threads PROVE snap'[o] = s \/ snap'[o] = snap[o]
            BY <5>1 DEF TypeOK
        <5> QED  BY <5>2 DEF Snapshots
      <4> QED  BY <4>1, <4>2
    <3> QED  BY <3>1, <3>2 DEF Snapshots
  <2>3. CASE BuildSnapshot(th)
    <3>1. UNCHANGED <<saved, latest>>
        BY <2>3 DEF BuildSnapshot, fileVars, history
    <3>2. ASSUME NEW o \in Threads
          PROVE  snap'[o] \in Snapshots \cup {[db |-> db, rows |-> rows]}
      <4>1. snap'[o] = snap[o] \/ snap'[o] = [db |-> db, rows |-> rows]
          BY <2>3 DEF BuildSnapshot, TypeOK
      <4> QED  BY <4>1 DEF Snapshots
    <3> QED  BY <2>3, <3>1, <3>2 DEF Snapshots
  <2>4. CASE TruncateSnapshot(th)
    <3>1. UNCHANGED <<saved, snap>> /\ latest' = Partial
        BY <2>4 DEF TruncateSnapshot, locals, history
    <3> QED  BY <3>1 DEF Snapshots
  <2>5. CASE WriteSnapshot(th)
    <3>1. snap' = snap /\ latest' = snap[th] /\ saved' = Append(saved, snap[th])
        BY <2>5 DEF WriteSnapshot
    <3>2. ASSUME NEW n \in 1 .. Len(saved') PROVE saved'[n] \in Snapshots
      <4>1. n \in 1 .. Len(saved) \/ saved'[n] = snap[th]
          BY <3>1 DEF TypeOK
      <4>2. n \in 1 .. Len(saved) => saved'[n] = saved[n]
          BY <3>1 DEF TypeOK
      <4> QED  BY <2>1, <4>1, <4>2 DEF Snapshots
    <3> QED  BY <2>1, <3>1, <3>2 DEF Snapshots
  <2>6. CASE UNCHANGED <<snap, saved, latest>>
      BY <1>1, <2>6
  <2>7. CASE ReadSnapshot(th) /\ Leave(th)
    <3>1. UNCHANGED <<saved, latest>>
        BY <2>7 DEF ReadSnapshot, fileVars, history
    <3> QED  BY <1>0, <2>7, <3>1
  <2>8. CASE Leave(th) /\ UNCHANGED <<saved, latest>>
      BY <1>0, <2>8
  <2> QED  BY <1>4, <2>2, <2>3, <2>4, <2>5, <2>6, <2>7, <2>8, LeavesOrKeeps
<1> QED  BY <1>2, <1>3, <1>4 DEF Next

\* Only a restore, an insert and the pruning change config_snapshots.
LEMMA RowsChange ==
    ASSUME TypeOK, [Next]_vars
    PROVE  \/ rows' = rows
           \/ \E th \in Threads :
                \/ Restore(th) /\ rows' = snap[th].rows
                \/ /\ InsertRow(th) /\ pc'[th] = "prune"
                   /\ \A r \in rows : r.id # nextId
                   /\ rows' = rows \cup {[id |-> nextId, at |-> source[th],
                                         kept |-> TRUE]}
                \/ PruneSnapshots(th)
<1>1. CASE Edit \/ DataPlaneReload \/ UNCHANGED vars
    BY <1>1 DEF Edit, DataPlaneReload, vars, dbVars
<1>2. ASSUME NEW th \in Threads, Request(th) \/ Crash(th)
      PROVE  rows' = rows
    BY <1>2 DEF Request, Crash, dbVars
<1>3. ASSUME NEW th \in Threads, Step(th)
      PROVE  \/ rows' = rows
             \/ Restore(th) /\ rows' = snap[th].rows
             \/ /\ InsertRow(th) /\ pc'[th] = "prune"
                /\ \A r \in rows : r.id # nextId
                /\ rows' = rows \cup {[id |-> nextId, at |-> source[th],
                                      kept |-> TRUE]}
             \/ PruneSnapshots(th)
  <2>1. CASE InsertRow(th)
      BY <2>1 DEF InsertRow, Goto, TypeOK
  <2>2. CASE Restore(th)
      BY <2>2 DEF Restore
  <2>3. CASE ~ InsertRow(th) /\ ~ Restore(th) /\ ~ PruneSnapshots(th)
      BY <1>3, <2>3 DEF Step, Lookup, ReadSnapshot, ResetSequences, AcquireLock,
         GenerateConfig, WriteSideFiles, ValidateConfigText, TruncateConfig,
         WriteConfig, WriteApplied, BuildSnapshot, TruncateSnapshot,
         WriteSnapshot, Push, Unlock, Repush, Reload, dbVars
  <2> QED  BY <2>1, <2>2, <2>3
<1> QED  BY <1>1, <1>2, <1>3 DEF Next

\* The new row has the id that was drawn and the file that was just written.
LEMMA InsertedListed ==
    ASSUME BaseInv, LockInv', CountInv', NEW th \in Threads,
           InsertRow(th), pc'[th] = "prune", \A r \in rows : r.id # nextId,
           rows' = rows \cup {[id |-> nextId, at |-> source[th],
                               kept |-> TRUE]},
           NewestListed <= NewestListed', IdsGiven <= IdsGiven',
           IdsGiven' \in Int, NewestListed' \in Int, IdsGiven \in Int,
           ops' \in 0 .. MaxOps
    PROVE  Listed(rows', NewestListed', IdsGiven')
<1> DEFINE new == [id |-> nextId, at |-> source[th], kept |-> TRUE]
<1>1. /\ pc[th] = "insert" /\ TypeOK /\ nextId' = nextId + 1
      /\ saved' = saved /\ pc' = [pc EXCEPT ![th] = "prune"]
      /\ Len(saved) \in Nat /\ Len(saved) <= MaxOps /\ MaxOps \in Nat
    BY BoundsAssumption DEF BaseInv, InsertRow, history, TypeOK, Goto, Raise, Leave
<1>2. source[th] = Len(saved) /\ Len(saved) >= 1
    BY <1>1 DEF BaseInv, SourceInv, TypeOK
<1>3. NewestListed = Len(saved) - 1
    BY <1>1 DEF NewestListed, Inserting
<1>4. NewestListed' = Len(saved)
  <2>1. ASSUME NEW o \in Threads PROVE pc'[o] # "insert"
    <3>1. pc'[th] = "prune"
        OBVIOUS
    <3>2. CASE o # th
      <4>1. pc[o] # "insert"
          BY <1>1, <3>2, OneHolder DEF Held, BaseInv
      <4> QED  BY <1>1, <3>2, <4>1 DEF TypeOK
    <3> QED  BY <3>1, <3>2
  <2>2. ~ Inserting'
      BY <2>1 DEF Inserting
  <2> QED  BY <1>1, <2>2 DEF NewestListed
<1>5. nextId \in 1 .. MaxOps /\ nextId <= IdsGiven'
  <2>1. Pending(ToInsert)' \in Nat
    <3>1. At(ToInsert)' \in SUBSET Threads
        BY DEF At
    <3> QED
        BY <3>1, FS_Subset, FS_CardinalityType, ThreadsAssumption DEF Pending
  <2>2. nextId + Pending(ToInsert)' <= ops' /\ nextId \in 1 .. MaxOps + 1
      BY <1>1 DEF CountInv, TypeOK
  <2> QED  BY <1>1, <2>1, <2>2 DEF IdsGiven
<1>6. Listed(rows, NewestListed, IdsGiven)
    BY DEF BaseInv, RowsInv
<1>7. new \in Row
    BY <1>1, <1>2, <1>5 DEF Row
<1>8. \A r \in rows : /\ r.id # new.id /\ r.at # new.at
                      /\ r.at <= NewestListed' /\ r.id <= IdsGiven'
  <2> TAKE r \in rows
  <2>1. r.id # nextId /\ r.at <= Len(saved) - 1 /\ r.id <= IdsGiven
        /\ r.at \in Nat /\ r.id \in Nat
      BY <1>3, <1>6 DEF Listed, Row
  <2> QED  BY <1>1, <1>2, <1>4, <2>1
<1>9. new.at <= NewestListed' /\ new.id <= IdsGiven'
    BY <1>2, <1>4, <1>5
<1>10. rows' = rows \cup {new}
    OBVIOUS
<1> HIDE DEF new
<1> QED  BY <1>6, <1>7, <1>8, <1>9, <1>10 DEF Listed

\* Pruning blanks paths and changes nothing else.
LEMMA PrunedListed ==
    ASSUME NEW th \in Threads, PruneSnapshots(th), NEW n, NEW k,
           Listed(rows, n, k)
    PROVE  Listed(rows', n, k)
<1>0. PICK old \in SUBSET rows :
        rows' = (rows \ old) \cup {[r EXCEPT !.kept = FALSE] : r \in old}
  <2>1. PICK m \in MaxKeep .. MaxKeep + MaxOps :
          LET done == Beyond(MaxKeep) \ Beyond(m)
          IN rows' = (rows \ done) \cup {[r EXCEPT !.kept = FALSE] : r \in done}
      BY DEF PruneSnapshots, PruneBeyond
  <2>2. Beyond(MaxKeep) \ Beyond(m) \in SUBSET rows
      BY DEF Beyond
  <2> QED  BY <2>1, <2>2
<1> DEFINE Pruned(r) == IF r \in old THEN [r EXCEPT !.kept = FALSE] ELSE r
<1>1. old \subseteq rows /\ rows \subseteq Row
    BY DEF Listed
<1>2. rows' = (rows \ old) \cup {[r EXCEPT !.kept = FALSE] : r \in old}
    BY <1>0
<1>3. ASSUME NEW s \in rows' PROVE \E r \in rows : s = Pruned(r)
    BY <1>1, <1>2
<1>4. ASSUME NEW r \in rows
      PROVE  Pruned(r) \in Row /\ Pruned(r).id = r.id /\ Pruned(r).at = r.at
    BY <1>1 DEF Row
<1> HIDE DEF Pruned
<1>5. rows' \subseteq Row
    BY <1>3, <1>4
<1>6. ASSUME NEW s \in rows', NEW t \in rows'
      PROVE  /\ s.id = t.id => s = t
             /\ s.at = t.at => s = t
             /\ s.at <= n /\ s.id <= k
  <2>1. PICK r \in rows : s = Pruned(r)
      BY <1>3
  <2>2. PICK q \in rows : t = Pruned(q)
      BY <1>3
  <2>3. s.id = r.id /\ s.at = r.at /\ t.id = q.id /\ t.at = q.at
      BY <1>4, <2>1, <2>2
  <2> QED  BY <2>1, <2>2, <2>3 DEF Listed
<1> QED  BY <1>5, <1>6 DEF Listed

\* Restores and inserts keep the ids and the files of every table distinct.
LEMMA RowsKept ==
    ASSUME BaseInv, LockInv', CountInv', [Next]_vars
    PROVE  RowsInv'
<1>1. /\ IdsGiven \in Int /\ IdsGiven' \in Int /\ IdsGiven <= IdsGiven'
      /\ ops' \in 0 .. MaxOps
    BY CountKept
<1>2. /\ NewestListed \in Int /\ NewestListed' \in Int
      /\ NewestListed <= NewestListed'
    BY NewestGrows
<1>3. \A R : Listed(R, NewestListed, IdsGiven)
               => Listed(R, NewestListed', IdsGiven')
    BY <1>1, <1>2, ListedGrows
<1>4. \A s \in Snapshots' : Listed(s.rows, NewestListed', IdsGiven')
  <2>1. \A s \in Snapshots \cup {[db |-> db, rows |-> rows]} :
                                  Listed(s.rows, NewestListed, IdsGiven)
      BY DEF BaseInv, RowsInv
  <2>2. Snapshots' \subseteq
          Snapshots \cup {[db |-> db, rows |-> rows]} \cup {EmptySnapshot}
      BY SnapshotsCopied DEF BaseInv
  <2>3. EmptySnapshot.rows = {} /\ \A n, k : Listed({}, n, k)
      BY DEF EmptySnapshot, Listed
  <2> QED  BY <1>3, <2>1, <2>2, <2>3
<1>5. Listed(rows', NewestListed', IdsGiven')
  <2>1. CASE rows' = rows
      BY <1>3, <2>1 DEF BaseInv, RowsInv
  <2>2. ASSUME NEW th \in Threads, rows' = snap[th].rows
        PROVE  Listed(rows', NewestListed', IdsGiven')
    <3>1. Listed(snap[th].rows, NewestListed, IdsGiven)
        BY DEF BaseInv, RowsInv, Snapshots
    <3> QED  BY <1>3, <2>2, <3>1
  <2>3. ASSUME NEW th \in Threads, InsertRow(th), pc'[th] = "prune",
               \A r \in rows : r.id # nextId,
               rows' = rows \cup {[id |-> nextId, at |-> source[th],
                                   kept |-> TRUE]}
        PROVE  Listed(rows', NewestListed', IdsGiven')
      BY <1>1, <1>2, <2>3, InsertedListed
  <2>4. ASSUME NEW th \in Threads, PruneSnapshots(th)
        PROVE  Listed(rows', NewestListed', IdsGiven')
      BY <1>3, <2>4, PrunedListed DEF BaseInv, RowsInv
  <2> QED  BY <2>1, <2>2, <2>3, <2>4, RowsChange DEF BaseInv
<1> QED  BY <1>4, <1>5 DEF RowsInv

\* The dated file that a thread's row will name stays the newest: nobody else
\* can save one under the lock.
LEMMA SourceKept ==
    ASSUME BaseInv, [Next]_vars
    PROVE  SourceInv'
<1> USE DEF BaseInv
<1> SUFFICES ASSUME NEW th \in Threads, pc'[th] = "insert"
             PROVE  source'[th] = Len(saved') /\ saved' # <<>>
    BY DEF SourceInv
<1>1. CASE UNCHANGED <<pc, source, saved>>
    BY <1>1 DEF SourceInv
<1>2. ASSUME NEW o \in Threads, Request(o) \/ Crash(o)
      PROVE  source'[th] = Len(saved') /\ saved' # <<>>
  <2>1. pc[th] = "insert" /\ o # th /\ saved' = saved
      BY <1>2 DEF Request, Crash, Goto, Raise, Leave, TypeOK, AllOps
  <2>2. source'[th] = source[th]
      BY <1>2, <2>1 DEF Request, Crash, Raise, Leave, TypeOK
  <2> QED  BY <2>1, <2>2 DEF SourceInv
<1>3. ASSUME NEW o \in Threads, Step(o)
      PROVE  source'[th] = Len(saved') /\ saved' # <<>>
  <2>1. CASE WriteSnapshot(o)
    <3>1. CASE o = th
        BY <2>1, <3>1 DEF WriteSnapshot, TypeOK
    <3>2. CASE o # th
      <4>1. pc[th] = "insert" /\ pc[o] = "writesnap"
          BY <2>1, <3>2 DEF WriteSnapshot, Goto, TypeOK
      <4> QED  BY <3>2, <4>1, OneHolder DEF Held
    <3> QED  BY <3>1, <3>2
  <2>2. CASE ~ WriteSnapshot(o)
    <3>1. saved' = saved
        BY <1>3, <2>2 DEF history, Step, Lookup, ReadSnapshot, Restore,
           ResetSequences, AcquireLock, GenerateConfig, WriteSideFiles,
           ValidateConfigText, TruncateConfig, WriteConfig, WriteApplied,
           BuildSnapshot, TruncateSnapshot, InsertRow, PruneSnapshots, PruneBeyond, Push,
           Unlock, Repush, Reload
    <3>2. pc[th] = "insert" /\ o # th
      <4>1. PICK label \in Steps \ {pc[o]} : pc' = [pc EXCEPT ![o] = label]
          BY <1>3, OneMoves
      <4>2. label # "insert"
        <5>1. pc'[o] = label
            BY <4>1 DEF TypeOK
        <5> QED
            BY <1>3, <2>2, <5>1
               DEF Step, Lookup, ReadSnapshot, Restore, ResetSequences,
                   AcquireLock, GenerateConfig, WriteSideFiles,
                   ValidateConfigText, TruncateConfig, WriteConfig,
                   WriteApplied, BuildSnapshot, TruncateSnapshot, InsertRow,
                   PruneSnapshots, PruneBeyond, Push, Unlock, Repush, Reload, Goto, Raise, Leave,
                   TypeOK
      <4> QED  BY <4>1, <4>2 DEF TypeOK
    <3>3. source'[th] = source[th]
        BY <1>3, <2>2, <3>2 DEF locals, Step, Lookup, ReadSnapshot, Restore,
           ResetSequences, AcquireLock, GenerateConfig, WriteSideFiles,
           ValidateConfigText, TruncateConfig, WriteConfig, WriteApplied,
           BuildSnapshot, TruncateSnapshot, InsertRow, PruneSnapshots, PruneBeyond, Push,
           Unlock, Repush, Reload, Raise, Leave, TypeOK
    <3> QED  BY <3>1, <3>2, <3>3 DEF SourceInv
  <2> QED  BY <2>1, <2>2
<1> QED
    BY <1>1, <1>2, <1>3 DEF Next, Edit, DataPlaneReload, vars, locals, history

\* Once write_config has opened haproxy.cfg the file exists.
LEMMA OpenedKept ==
    ASSUME BaseInv, [Next]_vars
    PROVE  OpenedInv'
<1> USE DEF BaseInv
<1>1. CASE Edit \/ DataPlaneReload \/ UNCHANGED vars
    BY <1>1 DEF Edit, DataPlaneReload, vars, fileVars, OpenedInv
<1>2. ASSUME NEW th \in Threads, Request(th) \/ Step(th) \/ Crash(th)
      PROVE  OpenedInv'
  <2>1. PICK label \in Steps \ {pc[th]} : pc' = [pc EXCEPT ![th] = label]
      BY <1>2, OneMoves
  <2>2. pc'[th] = label /\ \A o \in Threads \ {th} : pc'[o] = pc[o]
      BY <2>1 DEF TypeOK
  <2>3. CASE TruncateConfig(th)
    <3>1. cfg' = Partial
        BY <2>3 DEF TruncateConfig
    <3> QED  BY <3>1, Markers DEF OpenedInv
  <2>5. CASE WriteConfig(th)
    <3>1. pc[th] \in Opened /\ (cfg' = cfg \/ cfg' = conf[th])
        BY <2>5 DEF WriteConfig, Opened
    <3>2. cfg' # None
        BY <3>1, Markers DEF TypeOK, OpenedInv
    <3> QED  BY <3>2 DEF OpenedInv
  <2>4. CASE ~ TruncateConfig(th) /\ ~ WriteConfig(th)
    <3>1. cfg' = cfg \/ cfg' # None
      <4>1. conf[th] # None
          BY Markers DEF TypeOK
      <4> QED
        BY <1>2, <2>4, <4>1 DEF PushTo, fileVars, Request, Crash, Step, Lookup, ReadSnapshot,
           Restore, ResetSequences, AcquireLock, GenerateConfig,
           WriteSideFiles, ValidateConfigText, WriteApplied, BuildSnapshot,
           TruncateSnapshot, WriteSnapshot, InsertRow, PruneSnapshots, PruneBeyond, Push,
           Unlock, Repush, Reload
    <3>2. label \in Opened => pc[th] \in Opened
      <4>1. CASE Request(th) \/ Crash(th)
          BY <2>2, <4>1 DEF Request, Crash, Goto, Raise, Leave, TypeOK, AllOps, Opened
      <4>2. CASE Step(th)
          BY <2>2, <2>4, <4>2
             DEF Step, Lookup, ReadSnapshot, Restore, ResetSequences,
                 AcquireLock, GenerateConfig, WriteSideFiles,
                 ValidateConfigText, WriteApplied, BuildSnapshot,
                 TruncateSnapshot, WriteSnapshot, InsertRow, PruneSnapshots, PruneBeyond,
                 Push, Unlock, Repush, Reload, Goto, Raise, Leave, TypeOK, Opened
      <4> QED  BY <1>2, <4>1, <4>2
    <3> QED  BY <2>2, <3>1, <3>2 DEF OpenedInv
  <2> QED  BY <2>3, <2>4, <2>5
<1> QED  BY <1>1, <1>2 DEF Next

\* What the counters and the tables' rows say about the types of the next state.
LEMMA CountersTyped ==
    ASSUME BaseInv, CountInv', RowsInv', [Next]_vars
    PROVE  /\ rows' \subseteq Row
           /\ \A r, s \in rows' : r.id = s.id => r = s
           /\ nextId' \in 1 .. MaxOps + 1
           /\ ops' \in 0 .. MaxOps /\ seq' \in 0 .. MaxOps
           /\ saved' \in Seq(Snapshot) /\ Len(saved') <= MaxOps
<1> USE DEF BaseInv
<1>1. ops' \in 0 .. MaxOps
    BY CountKept
<1>2. \A S : Pending(S)' \in Nat
  <2> TAKE S
  <2>1. At(S)' \in SUBSET Threads
      BY DEF At
  <2> QED
      BY <2>1, FS_Subset, FS_CardinalityType, ThreadsAssumption DEF Pending
<1>3. saved' \in Seq(Snapshot)
  <2>1. saved' = saved \/ \E th \in Threads : saved' = Append(saved, snap[th])
      BY ZenonT(60) DEF Next, vars, Edit, DataPlaneReload, history, Request, Step, Crash, Lookup,
         ReadSnapshot, Restore, ResetSequences, AcquireLock, GenerateConfig,
         WriteSideFiles, ValidateConfigText, TruncateConfig, WriteConfig,
         WriteApplied, BuildSnapshot, TruncateSnapshot, WriteSnapshot,
         InsertRow, PruneSnapshots, PruneBeyond, Push, Unlock, Repush, Reload
  <2>2. \A th \in Threads : Append(saved, snap[th]) \in Seq(Snapshot)
      BY DEF TypeOK
  <2> QED  BY <2>1, <2>2 DEF TypeOK
<1>4. seq' \in Nat
  <2>1. seq' = seq \/ seq' = seq + 1
      BY ZenonT(60) DEF Next, vars, Edit, DataPlaneReload, history, Request, Step, Crash, Lookup,
         ReadSnapshot, Restore, ResetSequences, AcquireLock, GenerateConfig,
         WriteSideFiles, ValidateConfigText, TruncateConfig, WriteConfig,
         WriteApplied, BuildSnapshot, TruncateSnapshot, WriteSnapshot,
         InsertRow, PruneSnapshots, PruneBeyond, Push, Unlock, Repush, Reload
  <2> QED  BY <2>1 DEF TypeOK
<1>5. nextId' \in Nat /\ nextId' >= 1
  <2>1. \/ nextId' = nextId \/ nextId' = nextId + 1
        \/ \E th \in Threads : ResetSequences(th)
      BY DEF Next, vars, Edit, DataPlaneReload, dbVars, Request, Step, Crash, Lookup,
         ReadSnapshot, Restore, AcquireLock, GenerateConfig, WriteSideFiles,
         ValidateConfigText, TruncateConfig, WriteConfig, WriteApplied,
         BuildSnapshot, TruncateSnapshot, WriteSnapshot, InsertRow,
         PruneSnapshots, PruneBeyond, Push, Unlock, Repush, Reload
  <2>2. CASE nextId' = nextId \/ nextId' = nextId + 1
      BY <2>2 DEF TypeOK
  <2>3. ASSUME NEW th \in Threads, ResetSequences(th), nextId' # nextId
        PROVE  nextId' \in Nat /\ nextId' >= 1
    <3> DEFINE m == Max({r.id : r \in snap[th].rows})
    <3>1. snap[th].rows # {} /\ nextId' = m + 1
        BY <2>3 DEF ResetSequences
    <3>2. m \in 1 .. MaxOps
        BY <3>1, LargestId
    <3> HIDE DEF m
    <3> QED  BY <3>1, <3>2
  <2> QED  BY <2>1, <2>2, <2>3
<1>6. /\ seq' <= MaxOps /\ Len(saved') <= MaxOps /\ nextId' <= MaxOps + 1
  <2>1. Len(saved') \in Nat /\ MaxOps \in Nat
      BY <1>3, BoundsAssumption
  <2>2. /\ Pending(ToGenerate)' \in Nat /\ Pending(ToSave)' \in Nat
        /\ Pending(ToInsert)' \in Nat
      BY <1>2
  <2>3. /\ seq' + Pending(ToGenerate)' <= ops'
        /\ Len(saved') + Pending(ToSave)' <= ops'
        /\ nextId' - 1 + Pending(ToInsert)' <= ops'
      BY DEF CountInv
  <2> QED  BY <1>1, <1>4, <1>5, <2>1, <2>2, <2>3
<1>7. rows' \subseteq Row /\ \A r, s \in rows' : r.id = s.id => r = s
    BY DEF RowsInv, Listed
<1> QED
  <2>1. MaxOps \in Nat
      BY BoundsAssumption
  <2> QED  BY <1>1, <1>3, <1>4, <1>5, <1>6, <1>7, <2>1

\* What a thread that is done leaves of its locals.
LEMMA LeaveTyped ==
    ASSUME TypeOK, NEW th \in Threads, Leave(th)
    PROVE  /\ op' \in [Threads -> AllOps]
           /\ target' \in [Threads -> 0 .. MaxOps]
           /\ source' \in [Threads -> 0 .. MaxOps]
           /\ snap' \in [Threads -> Snapshot]
           /\ conf' \in [Threads -> Config]
           /\ chosen' \in [Threads -> 0 .. MaxOps]
<1>1. 0 \in 0 .. MaxOps /\ 0 \in Contents
    BY BoundsAssumption DEF Contents
<1>2. "apply" \in AllOps
    BY DEF AllOps
<1>3. EmptySnapshot \in Snapshot /\ FirstConfig \in Config
    BY <1>1 DEF EmptySnapshot, FirstConfig, Snapshot, Config
<1> QED  BY <1>1, <1>2, <1>3 DEF TypeOK, Leave

\* An exception ends the operation and touches nothing else that has a type.
LEMMA RaiseTyped ==
    ASSUME TypeOK, NEW th \in Threads, Raise(th), pc' \in [Threads -> Steps],
           rows' \subseteq Row, \A r, s \in rows' : r.id = s.id => r = s,
           nextId' \in 1 .. MaxOps + 1, db' \in Contents,
           UNCHANGED <<edits, fileVars, running, history>>
    PROVE  TypeOK'
<1>1. lock' \in Threads \cup {None} /\ Leave(th)
    BY DEF Raise, TypeOK
<1>2. /\ op' \in [Threads -> AllOps]
      /\ target' \in [Threads -> 0 .. MaxOps]
      /\ source' \in [Threads -> 0 .. MaxOps]
      /\ snap' \in [Threads -> Snapshot]
      /\ conf' \in [Threads -> Config]
      /\ chosen' \in [Threads -> 0 .. MaxOps]
    BY <1>1, LeaveTyped
<1>3. UNCHANGED <<edits, side, cfg, applied, latest, files, running, ops, seq, saved,
                  torn, spilled, pushedOver>>
    BY DEF fileVars, history
<1> QED  BY <1>1, <1>2, <1>3 DEF TypeOK

\* The default instance runs what it has loaded or what it ran before.
LEMMA LoadTyped ==
    ASSUME TypeOK, LoadFile
    PROVE  cfg \in Config /\ running' \in [Instances -> Config]
BY DEF TypeOK, LoadFile

\* The other variables, action by action.
LEMMA TypeKept ==
    ASSUME BaseInv, CountInv', RowsInv', [Next]_vars
    PROVE  TypeOK'
<1> USE DEF BaseInv
<1>1. /\ rows' \subseteq Row
      /\ \A r, s \in rows' : r.id = s.id => r = s
      /\ nextId' \in 1 .. MaxOps + 1
      /\ ops' \in 0 .. MaxOps /\ seq' \in 0 .. MaxOps
      /\ saved' \in Seq(Snapshot) /\ Len(saved') <= MaxOps
    BY CountersTyped
<1>2. CASE UNCHANGED vars
    BY <1>2 DEF vars, TypeOK
<1>3. CASE Edit
    BY <1>1, <1>3, BoundsAssumption
       DEF Edit, DataPlaneReload, TypeOK, Contents, fileVars, locals, history
<1>5. CASE DataPlaneReload
  <2>1. running' \in [Instances -> Config]
      BY <1>5, LoadTyped DEF DataPlaneReload
  <2> QED  BY <1>5, <2>1 DEF DataPlaneReload, TypeOK, dbVars, fileVars, locals, history
<1>4. ASSUME NEW th \in Threads, Request(th) \/ Step(th) \/ Crash(th)
      PROVE  TypeOK'
  <2>1. pc' \in [Threads -> Steps]
    <3>1. PICK label \in Steps \ {pc[th]} : pc' = [pc EXCEPT ![th] = label]
        BY <1>4, OneMoves
    <3> QED  BY <3>1 DEF TypeOK
  <2> USE <1>1, <2>1 DEF TypeOK, fileVars, locals, history, dbVars
  <2>2. CASE Request(th)
    <3>1. op' \in [Threads -> AllOps]
      <4>1. \E o \in Ops \cup {"rollback"} : op' = [op EXCEPT ![th] = o]
          BY <2>2 DEF Request
      <4>2. Ops \cup {"rollback"} \subseteq AllOps
          BY OpsAssumption DEF AllOps
      <4> QED  BY <4>1, <4>2
    <3>2. /\ target' \in [Threads -> 0 .. MaxOps]
          /\ source' \in [Threads -> 0 .. MaxOps]
          /\ chosen' \in [Threads -> 0 .. MaxOps]
      <4>1. CASE UNCHANGED <<target, chosen>>
        <5>1. source' = [source EXCEPT ![th] = 0] \/ source' = source
            BY <2>2 DEF Request
        <5>2. 0 \in 0 .. MaxOps
            BY BoundsAssumption
        <5> QED  BY <4>1, <5>1, <5>2
      <4>2. ASSUME NEW r \in rows,
                   target' = [target EXCEPT ![th] = r.id],
                   chosen' = [chosen EXCEPT ![th] = r.at],
                   UNCHANGED source
            PROVE  /\ target' \in [Threads -> 0 .. MaxOps]
                   /\ source' \in [Threads -> 0 .. MaxOps]
                   /\ chosen' \in [Threads -> 0 .. MaxOps]
        <5>1. r.id \in 1 .. MaxOps /\ r.at \in 1 .. MaxOps
            BY SMTT(60) DEF Row
        <5>2. r.id \in 0 .. MaxOps /\ r.at \in 0 .. MaxOps
            BY <5>1, BoundsAssumption
        <5> QED  BY <4>2, <5>2
      <4> QED  BY <2>2, <4>1, <4>2 DEF Request
    <3> QED  BY <2>2, <3>1, <3>2 DEF Request
  <2>3. CASE Crash(th)
    <3>1. torn' \in BOOLEAN /\ spilled' \in BOOLEAN
        BY <2>3, Zenon DEF Crash
    <3>2. Leave(th) /\ lock' \in Threads \cup {None}
        BY <2>3 DEF Crash, Raise
    <3> QED  BY <2>3, <3>1, <3>2, LeaveTyped DEF Crash
  <2>4. CASE Lookup(th)
    <3>1. CASE Raise(th)
      <4>1. db' \in Contents /\ UNCHANGED <<edits, fileVars, running, history>>
          BY <2>4 DEF Lookup
      <4> QED  BY <3>1, <4>1, RaiseTyped
    <3>2. CASE ~ Raise(th)
      <4>1. \A r \in rows : (IF r.kept THEN r.at ELSE 0) \in 0 .. MaxOps
          BY BoundsAssumption DEF Row
      <4>2. \E r \in rows :
                source' = [source EXCEPT ![th] = IF r.kept THEN r.at ELSE 0]
          BY <2>4, <3>2 DEF Lookup
      <4>3. source' \in [Threads -> 0 .. MaxOps]
          BY <4>1, <4>2
      <4> QED  BY <2>4, <3>2, <4>3 DEF Lookup
    <3> QED  BY <3>1, <3>2
  <2>5. CASE ReadSnapshot(th)
    <3>1. CASE Raise(th)
      <4>1. db' \in Contents /\ UNCHANGED <<edits, fileVars, running, history>>
          BY <2>5 DEF ReadSnapshot
      <4> QED  BY <3>1, <4>1, RaiseTyped
    <3>2. CASE ~ Raise(th)
      <4>1. source[th] # 0 /\ source[th] \in files
               => saved[source[th]] \in Snapshot
          OBVIOUS
      <4>2. snap' \in [Threads -> Snapshot]
          BY <2>5, <3>2, <4>1 DEF ReadSnapshot
      <4> QED  BY <2>5, <3>2, <4>2 DEF ReadSnapshot
    <3> QED  BY <3>1, <3>2
  <2>6. CASE Restore(th)
    <3>1. CASE Raise(th)
      <4>1. db' \in Contents /\ UNCHANGED <<edits, fileVars, running, history>>
          BY <2>6 DEF Restore, Snapshot
      <4> QED  BY <3>1, <4>1, RaiseTyped
    <3>2. CASE ~ Raise(th)
        BY <2>6, <3>2 DEF Restore, Snapshot
    <3> QED  BY <3>1, <3>2
  <2>7. CASE ResetSequences(th)
      BY <2>7 DEF ResetSequences
  <2>8. CASE AcquireLock(th)
      BY <2>8 DEF AcquireLock
  <2>9. CASE GenerateConfig(th)
    <3>1. seq' = seq + 1 /\ [ver |-> db, seq |-> seq + 1] \in Config
        BY <2>9 DEF GenerateConfig, Config
    <3>2. conf' \in [Threads -> Config]
        BY <2>9, <3>1 DEF GenerateConfig
    <3> QED  BY <2>9, <3>2 DEF GenerateConfig
  <2>10. CASE WriteSideFiles(th)
      BY <2>10 DEF WriteSideFiles
  <2>11. CASE ValidateConfigText(th)
    <3>1. CASE Raise(th)
      <4>1. db' \in Contents /\ UNCHANGED <<edits, fileVars, running, history>>
          BY <2>11 DEF ValidateConfigText
      <4> QED  BY <3>1, <4>1, RaiseTyped
    <3>2. CASE ~ Raise(th)
        BY <2>11, <3>2 DEF ValidateConfigText
    <3> QED  BY <3>1, <3>2
  <2>12. CASE TruncateConfig(th) \/ WriteConfig(th) \/ WriteApplied(th)
    <3>1. CASE TruncateConfig(th)
        BY <3>1 DEF TruncateConfig
    <3>2. CASE WriteConfig(th)
      <4>1. cfg' \in Config \cup {None, Partial}
          BY <3>2 DEF WriteConfig
      <4>2. pushedOver' \in BOOLEAN
          BY <3>2, Zenon DEF WriteConfig
      <4> QED  BY <3>2, <4>1, <4>2 DEF WriteConfig
    <3>3. CASE WriteApplied(th)
        BY <3>3 DEF WriteApplied
    <3> QED  BY <2>12, <3>1, <3>2, <3>3
  <2>13. CASE BuildSnapshot(th)
      BY <2>13 DEF BuildSnapshot, Snapshot
  <2>14. CASE TruncateSnapshot(th)
      BY <2>14 DEF TruncateSnapshot
  <2>15. CASE WriteSnapshot(th)
    <3>1. Len(saved') = Len(saved) + 1 /\ Len(saved) \in Nat
        BY <2>15 DEF WriteSnapshot
    <3>2. source' \in [Threads -> 0 .. MaxOps]
        BY <2>15, <3>1, BoundsAssumption DEF WriteSnapshot
    <3>3. files' \subseteq DOMAIN saved'
        BY <2>15, <3>1 DEF WriteSnapshot
    <3> QED  BY <2>15, <3>2, <3>3 DEF WriteSnapshot
  <2>16. CASE InsertRow(th)
    <3>1. CASE Raise(th)
      <4>1. db' \in Contents /\ UNCHANGED <<edits, fileVars, running, history>>
          BY <2>16 DEF InsertRow
      <4> QED  BY <3>1, <4>1, RaiseTyped
    <3>2. CASE ~ Raise(th)
        BY <2>16, <3>2 DEF InsertRow
    <3> QED  BY <3>1, <3>2
  <2>17. CASE PruneSnapshots(th)
    <3>1. files' \subseteq files
        BY <2>17 DEF PruneSnapshots, PruneBeyond
    <3>2. spilled' \in BOOLEAN
        BY <2>17, Zenon DEF PruneSnapshots, PruneBeyond
    <3> QED  BY <2>17, <3>1, <3>2 DEF PruneSnapshots, PruneBeyond
  <2>18. CASE Push(th)
    <3>1. running' \in [Instances -> Config] /\ cfg' \in Config \cup {None, Partial}
        BY <2>18 DEF Push, PushTo
    <3>2. pushedOver' \in BOOLEAN
        BY <2>18, Zenon DEF Push
    <3> QED  BY <2>18, <3>1, <3>2 DEF Push
  <2>21. CASE Repush(th)
    <3>1. running' \in [Instances -> Config] /\ cfg' \in Config \cup {None, Partial}
        BY <2>21 DEF Repush, PushTo
    <3>2. pushedOver' \in BOOLEAN
        BY <2>21, Zenon DEF Repush
    <3>3. Leave(th)
        BY <2>21 DEF Repush
    <3> QED  BY <2>21, <3>1, <3>2, <3>3, LeaveTyped DEF Repush
  <2>19. CASE Unlock(th)
      BY <2>19 DEF Unlock
  <2>20. CASE Reload(th)
    <3>1. running' \in [Instances -> Config]
        BY <2>20, LoadTyped DEF Reload
    <3>2. Leave(th)
        BY <2>20 DEF Reload
    <3>3. /\ op' \in [Threads -> AllOps]
          /\ target' \in [Threads -> 0 .. MaxOps]
          /\ source' \in [Threads -> 0 .. MaxOps]
          /\ snap' \in [Threads -> Snapshot]
          /\ conf' \in [Threads -> Config]
          /\ chosen' \in [Threads -> 0 .. MaxOps]
        BY <3>2, LeaveTyped
    <3>4. UNCHANGED <<db, edits, side, cfg, applied, latest, files, lock, torn, spilled,
                      pushedOver, saved>>
        BY <2>20 DEF Reload
    <3> QED  BY <3>1, <3>3, <3>4
  <2> QED
      BY <1>4, <2>2, <2>3, <2>4, <2>5, <2>6, <2>7, <2>8, <2>9, <2>10, <2>11,
         <2>12, <2>13, <2>14, <2>15, <2>16, <2>17, <2>18, <2>19, <2>20, <2>21
         DEF Step
<1> QED  BY <1>2, <1>3, <1>4, <1>5 DEF Next

LEMMA BaseInductive == BaseInv /\ [Next]_vars => BaseInv'
<1> SUFFICES ASSUME BaseInv, [Next]_vars PROVE BaseInv'
    OBVIOUS
<1>1. LockInv'
    BY LockKept DEF BaseInv
<1>2. CountInv'
    BY CountKept
<1>3. RowsInv'
    BY <1>1, <1>2, RowsKept
<1>4. TypeOK'
    BY <1>2, <1>3, TypeKept
<1> QED  BY <1>1, <1>2, <1>3, <1>4, SourceKept, OpenedKept DEF BaseInv

LEMMA BaseInit == Init => BaseInv
<1> SUFFICES ASSUME Init PROVE BaseInv
    OBVIOUS
<1>1. TypeOK
  <2>1. torn \in BOOLEAN /\ spilled \in BOOLEAN /\ pushedOver \in BOOLEAN
      BY Zenon DEF Init
  <2>2. 0 \in Contents /\ 0 \in 0 .. MaxOps /\ 1 \in 1 .. MaxOps + 1
      BY BoundsAssumption DEF Contents
  <2>3. FirstConfig \in Config /\ EmptySnapshot \in Snapshot
      BY <2>2 DEF FirstConfig, Config, EmptySnapshot, Snapshot
  <2>4. "apply" \in AllOps /\ "idle" \in Steps
      BY DEF AllOps, Steps
  <2>5. /\ saved \in Seq(Snapshot) /\ Len(saved) <= MaxOps
        /\ files \subseteq DOMAIN saved
      BY BoundsAssumption DEF Init
  <2> QED  BY <2>1, <2>2, <2>3, <2>4, <2>5 DEF Init, TypeOK
<1>2. LockInv /\ SourceInv /\ OpenedInv
    BY Markers DEF Init, LockInv, SourceInv, OpenedInv, Held, Opened
<1>3. \A S \in {ToGenerate, ToSave, ToInsert} : Pending(S) = 0
  <2>1. \A S \in {ToGenerate, ToSave, ToInsert} : At(S) = {}
      BY DEF Init, At, ToGenerate, ToSave, ToInsert
  <2> QED  BY <2>1, FS_EmptySet DEF Pending
<1>4. CountInv
    BY <1>3 DEF Init, CountInv
<1>5. \A n, k : Listed({}, n, k)
    BY DEF Listed
<1>6. \A s \in Snapshots : s = EmptySnapshot
    BY DEF Init, Snapshots
<1>7. RowsInv
  <2>1. rows = {} /\ \A s \in Snapshots : s.rows = {}
      BY <1>6 DEF Init, EmptySnapshot
  <2> QED  BY <1>5, <2>1 DEF RowsInv
<1> QED  BY <1>1, <1>2, <1>4, <1>7 DEF BaseInv

\* In every reachable state one thread at most is inside write_config, and the
\* rows of config_snapshots, of every snapshot and of every dated file are
\* distinct by id and by file.
THEOREM BaseInvariant == Spec => []BaseInv
BY BaseInit, BaseInductive, PTL DEF Spec

\* Whatever crashes, restores and failed inserts do, the files, the rows and
\* the threads' locals stay within their types, and no id is used twice.
THEOREM TypeCorrect == Spec => []TypeOK
<1>1. BaseInv => TypeOK
    BY DEF BaseInv
<1> QED  BY <1>1, BaseInvariant, PTL

-----------------------------------------------------------------------------
(* FilesAgree.  What the holder of the lock has done to the files so far.   *)

Early == {"generate", "side", "validate", "truncate"}
Late == {"build", "truncsnap", "writesnap", "insert", "prune", "push",
         "unlock"}
Loaded == {"insert", "prune", "push", "unlock"}

\* haproxy.cfg and its .applied copy agree unless a thread is between opening
\* the one and writing the other, or write_config ended early; what the holder has
\* written is what it generated.  What the second push of POST /ha/apply puts
\* over it is whole, and marked by pushedOver.
FileInv ==
    /\ (~ torn /\ \A th \in Threads : pc[th] \in Held => pc[th] \in Early)
          => /\ cfg = applied \/ pushedOver
             /\ cfg # Partial
    /\ (~ torn /\ \A th \in Threads : pc[th] # "writesnap")
          => latest # Partial
    /\ \A th \in Threads :
        /\ pc[th] = "write" => cfg = Partial \/ pushedOver
        /\ pc[th] = "writeapplied" =>
              /\ cfg = conf[th] \/ pushedOver
              /\ cfg # Partial
        /\ pc[th] \in Late =>
              /\ cfg = conf[th] \/ pushedOver
              /\ cfg # Partial /\ applied = conf[th]
        /\ pc[th] \in Loaded => latest # Partial

\* A thread outside write_config touches none of these files.
LEMMA OutsideFiles ==
    ASSUME TypeOK, FileInv, NEW th \in Threads, NEW label,
           pc' = [pc EXCEPT ![th] = label],
           pc[th] \notin Held, label \notin Held \ Early,
           \A o \in Threads \ {th} : conf'[o] = conf[o],
           UNCHANGED <<cfg, applied, latest, torn, pushedOver>>
    PROVE  FileInv'
<1>1. pc'[th] = label /\ \A o \in Threads \ {th} : pc'[o] = pc[o]
    BY DEF TypeOK
<1>2. /\ pc[th] \notin Late /\ pc[th] # "writesnap" /\ pc[th] \notin Loaded
      /\ pc[th] \notin {"write", "writeapplied"}
      /\ label \notin Late /\ label # "writesnap" /\ label \notin Loaded
      /\ label \notin {"write", "writeapplied"}
    BY DEF Held, Early, Late, Loaded
<1>3. \A o \in Threads :
        /\ pc'[o] = "write" => pc[o] = "write"
        /\ pc'[o] = "writeapplied" => pc[o] = "writeapplied" /\ conf'[o] = conf[o]
        /\ pc'[o] \in Late => pc[o] \in Late /\ conf'[o] = conf[o]
        /\ pc'[o] \in Loaded => pc[o] \in Loaded
    BY <1>1, <1>2
<1>4. (\A o \in Threads : pc'[o] # "writesnap")
         => \A o \in Threads : pc[o] # "writesnap"
    BY <1>1, <1>2
<1>5. (\A o \in Threads : pc'[o] \in Held => pc'[o] \in Early)
         => \A o \in Threads : pc[o] \in Held => pc[o] \in Early
    BY <1>1
<1> QED  BY <1>3, <1>4, <1>5 DEF FileInv

\* The second push of POST /ha/apply, whoever holds the lock by then.
LEMMA RepushFiles ==
    ASSUME BaseInv, FileInv, NEW th \in Threads, Repush(th)
    PROVE  FileInv'
<1> USE DEF BaseInv
<1>1. /\ pc[th] = "repush" /\ pc' = [pc EXCEPT ![th] = "idle"]
      /\ UNCHANGED <<applied, latest, torn>>
      /\ \A o \in Threads \ {th} : conf'[o] = conf[o]
    BY DEF Repush, Leave, Goto, TypeOK
<1>2. CASE cfg' = cfg
  <2>1. pushedOver' = pushedOver
      BY <1>2, Zenon DEF Repush, TypeOK
  <2> QED  BY <1>1, <1>2, <2>1, OutsideFiles DEF Held
<1>3. CASE cfg' # cfg
  <2>1. pushedOver'
      BY <1>3 DEF Repush
  <2>2. cfg' = conf[th] /\ cfg' # Partial
      BY <1>3, Markers DEF Repush, PushTo, TypeOK
  <2>3. pc'[th] = "idle" /\ \A o \in Threads \ {th} : pc'[o] = pc[o]
      BY <1>1 DEF TypeOK
  <2>4. \A o \in Threads :
          /\ pc'[o] \in Late => pc[o] \in Late /\ conf'[o] = conf[o]
          /\ pc'[o] \in Loaded => pc[o] \in Loaded
      BY <1>1, <2>3 DEF Late, Loaded
  <2>5. (\A o \in Threads : pc'[o] # "writesnap")
           => \A o \in Threads : pc[o] # "writesnap"
      BY <1>1, <2>3
  <2> QED  BY <1>1, <2>1, <2>2, <2>4, <2>5 DEF FileInv
<1> QED  BY <1>2, <1>3

\* The steps of write_config.
LEMMA HolderFiles ==
    ASSUME BaseInv, FileInv, NEW th \in Threads, Step(th), pc[th] \in Held
    PROVE  FileInv'
<1> USE DEF BaseInv
<1>1. PICK label \in Steps \ {pc[th]} : pc' = [pc EXCEPT ![th] = label]
    BY OneMoves
<1>2. pc'[th] = label /\ \A o \in Threads \ {th} : pc'[o] = pc[o]
    BY <1>1 DEF TypeOK
<1>3. \A o \in Threads \ {th} : pc[o] \notin Held
    BY OneHolder
<1>4. /\ conf[th] # None /\ conf[th] # Partial
      /\ snap[th] # Partial
    BY Markers DEF TypeOK
\* Only the holder's own step matters for the invariant of the next state.
<1>5. ASSUME (~ torn' /\ (label \in Held => label \in Early))
                => /\ cfg' = applied' \/ pushedOver'
                   /\ cfg' # Partial,
             (~ torn' /\ label # "writesnap") => latest' # Partial,
             label = "write" => cfg' = Partial \/ pushedOver',
             label = "writeapplied" \/ label \in Late =>
                /\ cfg' = conf'[th] \/ pushedOver'
                /\ cfg' # Partial,
             label \in Late => applied' = conf'[th],
             label \in Loaded => latest' # Partial
      PROVE  FileInv'
  <2>1. \A o \in Threads \ {th} : /\ pc'[o] \notin {"write", "writeapplied"}
                                   /\ pc'[o] \notin Late
                                   /\ pc'[o] \notin Loaded
      BY <1>2, <1>3 DEF Held, Late, Loaded
  <2> QED  BY <1>2, <1>5, <2>1 DEF FileInv
<1>6. /\ pc[th] \in Early /\ ~ torn =>
            /\ cfg = applied \/ pushedOver
            /\ cfg # Partial
      /\ pc[th] # "writesnap" /\ ~ torn => latest # Partial
      /\ pc[th] = "write" => cfg = Partial \/ pushedOver
      /\ pc[th] = "writeapplied" \/ pc[th] \in Late =>
            /\ cfg = conf[th] \/ pushedOver
            /\ cfg # Partial
      /\ pc[th] \in Late => applied = conf[th]
      /\ pc[th] \in Loaded => latest # Partial
  <2>1. "writesnap" \in Held
      BY DEF Held
  <2> QED  BY <1>3, <2>1 DEF FileInv
<1> USE DEF Early, Late, Loaded, Held, Goto, Raise, Leave
<1>7. CASE GenerateConfig(th) \/ WriteSideFiles(th)
  <2>1. /\ pc[th] \in {"generate", "side"} /\ label \in {"side", "validate"}
        /\ UNCHANGED <<cfg, applied, latest, torn, pushedOver>>
      BY <1>2, <1>7
         DEF GenerateConfig, WriteSideFiles, TypeOK, fileVars, history
  <2> QED  BY <1>5, <1>6, <2>1
<1>8. CASE ValidateConfigText(th)
  <2>1. /\ pc[th] = "validate" /\ label \in {"truncate", "idle"}
        /\ UNCHANGED <<cfg, applied, latest, torn, pushedOver>>
      BY <1>2, <1>8 DEF ValidateConfigText, TypeOK, fileVars, locals, history
  <2> QED  BY <1>5, <1>6, <2>1
<1>9. CASE TruncateConfig(th)
  <2>1. /\ pc[th] = "truncate" /\ label = "write" /\ cfg' = Partial
        /\ UNCHANGED <<latest, torn>>
      BY <1>2, <1>9 DEF TruncateConfig, TypeOK, history
  <2> QED  BY <1>5, <1>6, <2>1
<1>10. CASE WriteConfig(th)
  <2>1. /\ pc[th] = "write" /\ label = "writeapplied"
        /\ UNCHANGED <<latest, conf, torn>>
      BY <1>2, <1>10 DEF WriteConfig, TypeOK, locals
  <2>2. \/ cfg' = conf[th]
        \/ cfg' = cfg /\ cfg # Partial /\ pushedOver' = pushedOver
      BY <1>10 DEF WriteConfig
  <2> QED  BY <1>4, <1>5, <1>6, <2>1, <2>2
<1>11. CASE WriteApplied(th)
  <2>1. /\ pc[th] = "writeapplied" /\ label = "build" /\ applied' = conf[th]
        /\ UNCHANGED <<cfg, latest, conf, torn, pushedOver>>
      BY <1>2, <1>11 DEF WriteApplied, TypeOK, locals, history
  <2> QED  BY <1>5, <1>6, <2>1
<1>12. CASE BuildSnapshot(th)
  <2>1. /\ pc[th] = "build" /\ label = "truncsnap"
        /\ UNCHANGED <<cfg, applied, latest, conf, torn, pushedOver>>
      BY <1>2, <1>12 DEF BuildSnapshot, TypeOK, fileVars, history
  <2> QED  BY <1>5, <1>6, <2>1
<1>13. CASE TruncateSnapshot(th)
  <2>1. /\ pc[th] = "truncsnap" /\ label = "writesnap"
        /\ UNCHANGED <<cfg, applied, conf, torn, pushedOver>>
      BY <1>2, <1>13 DEF TruncateSnapshot, TypeOK, locals, history
  <2> QED  BY <1>5, <1>6, <2>1
<1>14. CASE WriteSnapshot(th)
  <2>1. /\ pc[th] = "writesnap" /\ label = "insert" /\ latest' = snap[th]
        /\ UNCHANGED <<cfg, applied, conf, torn, pushedOver>>
      BY <1>2, <1>14 DEF WriteSnapshot, TypeOK
  <2> QED  BY <1>4, <1>5, <1>6, <2>1
<1>15. CASE InsertRow(th)
  <2>1. /\ pc[th] = "insert" /\ label \in {"prune", "idle"}
        /\ label = "idle" \/ conf' = conf
        /\ UNCHANGED <<cfg, applied, latest, torn, pushedOver>>
      BY <1>2, <1>15 DEF InsertRow, TypeOK, fileVars, locals, history
  <2> QED  BY <1>4, <1>5, <1>6, <2>1
<1>16. CASE PruneSnapshots(th)
  <2>1. /\ pc[th] = "prune" /\ label = "push"
        /\ UNCHANGED <<cfg, applied, latest, conf, torn, pushedOver>>
      BY <1>2, <1>16 DEF PruneSnapshots, PruneBeyond, TypeOK, locals
  <2> QED  BY <1>5, <1>6, <2>1
<1>18. CASE Push(th)
  <2>1. /\ pc[th] = "push" /\ label = "unlock"
        /\ UNCHANGED <<applied, latest, conf, torn>>
      BY <1>2, <1>18 DEF Push, TypeOK, locals
  <2>2. cfg' = conf[th] \/ (cfg' = cfg /\ pushedOver' = pushedOver)
    <3>1. PICK reached \in SUBSET Instances :
              PushTo(th, reached) /\ pushedOver' = (pushedOver /\ Primary \notin reached)
        BY <1>18 DEF Push
    <3>2. CASE Primary \in reached
        BY <3>1, <3>2 DEF PushTo
    <3>3. CASE Primary \notin reached
      <4>1. pushedOver' = pushedOver
          BY <3>1, <3>3, Zenon DEF TypeOK
      <4> QED  BY <3>1, <3>3, <4>1 DEF PushTo
    <3> QED  BY <3>2, <3>3
  <2> QED  BY <1>4, <1>5, <1>6, <2>1, <2>2
<1>17. CASE Unlock(th)
  <2>1. /\ pc[th] = "unlock" /\ label \in {"repush", "reload"}
        /\ UNCHANGED <<cfg, applied, latest, pushedOver>>
      BY <1>2, <1>17 DEF Unlock, TypeOK, fileVars
  <2> QED  BY <1>4, <1>5, <1>6, <2>1
<1> QED
    BY <1>7, <1>8, <1>9, <1>10, <1>11, <1>12, <1>13, <1>14, <1>15, <1>16,
       <1>17, <1>18
       DEF Step, Lookup, ReadSnapshot, Restore, ResetSequences, AcquireLock,
           Repush, Reload

\* Every step keeps FileInv; the early end of the holder is what torn records.
LEMMA FileInductive == BaseInv /\ FileInv /\ [Next]_vars => FileInv'
<1> SUFFICES ASSUME BaseInv, FileInv, [Next]_vars PROVE FileInv'
    OBVIOUS
<1> USE DEF BaseInv
<1>1. CASE Edit \/ DataPlaneReload \/ UNCHANGED vars
    BY <1>1 DEF Edit, DataPlaneReload, vars, fileVars, locals, history, FileInv
<1>2. ASSUME NEW th \in Threads, Request(th) \/ Step(th) \/ Crash(th)
      PROVE  FileInv'
  <2>1. PICK label \in Steps \ {pc[th]} : pc' = [pc EXCEPT ![th] = label]
      BY <1>2, OneMoves
  <2>2. pc'[th] = label /\ \A o \in Threads \ {th} : pc'[o] = pc[o]
      BY <2>1 DEF TypeOK
  <2>3. CASE Request(th)
    <3>1. pc[th] = "idle" /\ label \notin Held
        BY <2>2, <2>3 DEF Request, Goto, TypeOK, Held
    <3>2. UNCHANGED <<cfg, applied, latest, conf, torn, pushedOver>>
        BY <2>3 DEF Request, fileVars
    <3> QED  BY <2>1, <3>1, <3>2, OutsideFiles DEF Held
  <2>4. CASE Crash(th) /\ pc[th] \in Held
    <3>1. torn' /\ UNCHANGED <<cfg, applied, latest>>
        BY <2>4 DEF Crash, fileVars, LockInv
    <3>2. \A o \in Threads : pc'[o] \notin Held
      <4>1. label = "idle"
          BY <2>2, <2>4 DEF Crash, Raise, Leave, Goto, TypeOK
      <4> QED  BY <2>2, <2>4, <4>1, OneHolder DEF Held
    <3> QED  BY <3>1, <3>2 DEF FileInv, Held, Late, Loaded
  <2>5. CASE Crash(th) /\ pc[th] \notin Held
    <3>1. /\ label = "idle" /\ UNCHANGED <<cfg, applied, latest, pushedOver>>
          /\ \A o \in Threads \ {th} : conf'[o] = conf[o]
        BY <2>2, <2>5 DEF Crash, Raise, Leave, Goto, TypeOK, fileVars
    <3>2. torn' = torn
      <4>1. lock # th
          BY <2>5 DEF LockInv
      <4>2. torn' = (torn \/ lock = th) /\ torn \in BOOLEAN
          BY <2>5 DEF Crash, TypeOK
      <4> QED  BY <4>1, <4>2, Zenon
    <3> QED  BY <2>1, <2>5, <3>1, <3>2, OutsideFiles DEF Held
  <2>6. CASE Step(th) /\ pc[th] \in Held
      BY <2>6, HolderFiles
  <2>7. CASE Step(th) /\ pc[th] \notin Held
    <3>1. \/ Lookup(th) \/ ReadSnapshot(th) \/ Restore(th)
          \/ ResetSequences(th) \/ AcquireLock(th) \/ Reload(th)
          \/ Repush(th)
        BY <2>7 DEF Step, Held, GenerateConfig, WriteSideFiles,
           ValidateConfigText, TruncateConfig, WriteConfig, WriteApplied,
           BuildSnapshot, TruncateSnapshot, WriteSnapshot, InsertRow,
           PruneSnapshots, PruneBeyond, Push, Unlock
    <3>2. CASE Repush(th)
        BY <3>2, RepushFiles
    <3>3. CASE ~ Repush(th)
      <4>1. label \in {"idle", "read", "restore", "reset", "lock", "generate"}
          BY <2>2, <3>1, <3>3 DEF Lookup, ReadSnapshot, Restore, ResetSequences,
             AcquireLock, Reload, Goto, Raise, Leave, TypeOK
      <4>2. UNCHANGED <<cfg, applied, latest, torn, pushedOver>>
          BY <3>1, <3>3 DEF Lookup, ReadSnapshot, Restore, ResetSequences,
             AcquireLock, Reload, fileVars, history
      <4>3. \A o \in Threads \ {th} : conf'[o] = conf[o]
          BY <3>1, <3>3 DEF Lookup, ReadSnapshot, Restore, ResetSequences,
             AcquireLock, Reload, Raise, Leave, locals, TypeOK
      <4> QED  BY <2>1, <2>7, <4>1, <4>2, <4>3, OutsideFiles DEF Held, Early
    <3> QED  BY <3>2, <3>3
  <2> QED  BY <1>2, <2>3, <2>4, <2>5, <2>6, <2>7
<1> QED  BY <1>1, <1>2 DEF Next

\* What the holder has done so far accounts for the files in every state.
THEOREM FilesInvariant == Spec => []FileInv
<1>1. Init => FileInv
    BY Markers DEF Init, FileInv, Held, Late, Loaded
<1> QED  BY <1>1, FileInductive, BaseInvariant, PTL DEF Spec

\* Between write_config calls haproxy.cfg is complete and equals its .applied
\* copy, and the latest snapshot can be loaded: for any number of threads and
\* operations, unless a write_config ended early and none has returned since.
\* Only the second push of POST /ha/apply, which the default instance's Data Plane
\* API writes into the file at any time, makes the two differ; it is never partial.
THEOREM FilesAgreeCorrect == Spec => []FilesAgree
<1>1. BaseInv /\ FileInv => FilesAgree
  <2> SUFFICES ASSUME BaseInv, FileInv, lock = None, ~ torn
               PROVE  /\ cfg = applied \/ pushedOver
                      /\ cfg # Partial /\ latest # Partial
      BY DEF FilesAgree
  <2>1. \A th \in Threads : pc[th] \notin Held
      BY Markers DEF BaseInv, LockInv
  <2> QED  BY <2>1 DEF FileInv, Held
<1> QED  BY <1>1, BaseInvariant, FilesInvariant, PTL

-----------------------------------------------------------------------------
(* The order of generations.                                               *)

\* Past the generation inside write_config; and from the moment the thread's own
\* configuration is written to its last reload or push.
Generated == Held \ {"generate"}
Written == {"writeapplied", "build", "truncsnap", "writesnap", "insert",
            "prune", "push", "unlock", "reload", "repush"}

\* The holder's configuration is the newest there is.  Nothing that runs is
\* newer than haproxy.cfg, and what a thread may still push is not either, until
\* the second push of POST /ha/apply has put an older one there.
OrderInv ==
    /\ \A th \in Threads :
        /\ conf[th].seq <= seq
        /\ pc[th] \in Generated => conf[th].seq = seq
        /\ (pc[th] \in Written /\ cfg # Partial /\ ~ pushedOver)
              => conf[th].seq <= cfg.seq
    /\ cfg \in Config => cfg.seq <= seq
    /\ \A i \in Instances :
        /\ running[i].seq <= seq
        /\ (cfg \in Config /\ ~ pushedOver) => running[i].seq <= cfg.seq

\* A thread that has not reached its generation, or is done, and the steps
\* that write neither haproxy.cfg nor an instance.
LEMMA OrderMoves ==
    ASSUME TypeOK, OrderInv, NEW th \in Threads, NEW label,
           pc' = [pc EXCEPT ![th] = label],
           label \in Generated => pc[th] \in Generated,
           label \in Written => pc[th] \in Written,
           label \in Written => conf'[th] = conf[th],
           label \in Generated => conf'[th] = conf[th],
           conf'[th] = conf[th] \/ conf'[th] = FirstConfig,
           \A o \in Threads \ {th} : conf'[o] = conf[o],
           UNCHANGED <<cfg, running, seq, pushedOver>>
    PROVE  OrderInv'
<1>1. pc'[th] = label /\ \A o \in Threads \ {th} : pc'[o] = pc[o]
    BY DEF TypeOK
<1>2. \A o \in Threads :
        /\ pc'[o] \in Generated => pc[o] \in Generated /\ conf'[o] = conf[o]
        /\ pc'[o] \in Written => pc[o] \in Written /\ conf'[o] = conf[o]
    BY <1>1
<1>3. \A o \in Threads : conf'[o].seq <= seq
  <2>1. FirstConfig.seq = 0 /\ seq \in Nat
      BY BoundsAssumption DEF FirstConfig, TypeOK
  <2> QED  BY <2>1 DEF OrderInv
<1> QED  BY <1>2, <1>3 DEF OrderInv

\* What the default instance loads is in the order of generation, unless the file
\* was pushed over.
LEMMA LoadOrder ==
    ASSUME BaseInv, OrderInv, LoadFile
    PROVE  \A i \in Instances :
             /\ running'[i].seq <= seq
             /\ (cfg \in Config /\ ~ pushedOver) => running'[i].seq <= cfg.seq
<1>1. cfg \in Config /\ \A i \in Instances : running'[i] = running[i] \/ running'[i] = cfg
    BY LoadTyped DEF LoadFile, BaseInv, TypeOK
<1>2. cfg.seq \in Nat /\ cfg.seq <= seq
    BY <1>1 DEF Config, OrderInv
<1> TAKE i \in Instances
<1>3. CASE running'[i] = running[i]
    BY <1>3 DEF OrderInv
<1>4. CASE running'[i] = cfg
    BY <1>2, <1>4
<1> QED  BY <1>1, <1>3, <1>4

LEMMA OrderInductive ==
    BaseInv /\ FileInv /\ OrderInv /\ [Next]_vars => OrderInv'
<1> SUFFICES ASSUME BaseInv, FileInv, OrderInv, [Next]_vars PROVE OrderInv'
    OBVIOUS
<1> USE DEF BaseInv
<1>1. CASE Edit \/ UNCHANGED vars
    BY <1>1 DEF Edit, vars, fileVars, locals, history, OrderInv
<1>3. CASE DataPlaneReload
  <2>1. UNCHANGED <<cfg, pc, conf, seq, pushedOver>>
      BY <1>3 DEF DataPlaneReload, fileVars, locals, history
  <2>2. \A i \in Instances :
          /\ running'[i].seq <= seq
          /\ (cfg \in Config /\ ~ pushedOver) => running'[i].seq <= cfg.seq
      BY <1>3, LoadOrder DEF DataPlaneReload
  <2> QED  BY <2>1, <2>2 DEF OrderInv
<1>2. ASSUME NEW th \in Threads, Request(th) \/ Step(th) \/ Crash(th)
      PROVE  OrderInv'
  <2>1. PICK label \in Steps \ {pc[th]} : pc' = [pc EXCEPT ![th] = label]
      BY <1>2, OneMoves
  <2>2. pc'[th] = label /\ \A o \in Threads \ {th} : pc'[o] = pc[o]
      BY <2>1 DEF TypeOK
  <2>3. /\ seq \in Nat /\ seq' \in Nat
        /\ \A o \in Threads : conf[o] \in Config /\ conf[o].seq \in Nat
        /\ \A i \in Instances : running[i].seq \in Nat
        /\ cfg \in Config => cfg.seq \in Nat
        /\ conf[th] # Partial /\ conf[th] # None
    <3>1. TypeOK' /\ \A c \in Config : c.seq \in Nat
        BY BaseInductive, BoundsAssumption DEF Config
    <3>2. /\ seq \in Nat /\ seq' \in Nat
        BY <3>1, BoundsAssumption DEF TypeOK
    <3>3. /\ \A o \in Threads : conf[o] \in Config
          /\ \A i \in Instances : running[i] \in Config
        BY DEF TypeOK
    <3> QED  BY <3>1, <3>2, <3>3, Markers
  <2>12. \A i \in Instances :
           /\ running[i].seq <= seq
           /\ (cfg \in Config /\ ~ pushedOver) => running[i].seq <= cfg.seq
      BY DEF OrderInv
  <2> USE DEF Goto, Raise, Leave, Held, Generated, Written
  <2>4. CASE Request(th) \/ Crash(th)
    <3>1. label \in {"idle", "lookup", "read", "lock"}
        BY <2>2, <2>4 DEF Request, Crash, TypeOK
    <3>2. /\ UNCHANGED <<cfg, running, seq, pushedOver>>
          /\ conf'[th] = conf[th] \/ conf'[th] = FirstConfig
          /\ \A o \in Threads \ {th} : conf'[o] = conf[o]
        BY <2>4 DEF Request, Crash, fileVars, TypeOK
    <3> QED  BY <2>1, <3>1, <3>2, OrderMoves
  <2>5. CASE GenerateConfig(th)
    <3>1. /\ pc[th] = "generate" /\ label = "side" /\ seq' = seq + 1
          /\ conf' = [conf EXCEPT ![th] = [ver |-> db, seq |-> seq + 1]]
          /\ UNCHANGED <<cfg, running, pushedOver>>
        BY <2>2, <2>5 DEF GenerateConfig, TypeOK, fileVars
    <3>2. /\ conf'[th].seq = seq + 1
          /\ \A o \in Threads \ {th} : conf'[o] = conf[o]
        BY <3>1 DEF TypeOK
    <3>3. \A o \in Threads \ {th} : pc'[o] \notin Held
        BY <2>2, <3>1, OneHolder
    <3>4. \A o \in Threads :
            /\ conf'[o].seq <= seq'
            /\ pc'[o] \in Generated => conf'[o].seq = seq'
            /\ (pc'[o] \in Written /\ cfg' # Partial /\ ~ pushedOver')
                  => conf'[o].seq <= cfg'.seq
      <4> TAKE o \in Threads
      <4>1. CASE o = th
          BY <2>2, <2>3, <3>1, <3>2, <4>1
      <4>2. CASE o # th
          BY <2>2, <2>3, <3>1, <3>2, <3>3, <4>2 DEF OrderInv
      <4> QED  BY <4>1, <4>2
    <3>5. cfg \in Config => cfg.seq <= seq'
        BY <2>3, <3>1 DEF OrderInv
    <3>6. \A i \in Instances : running[i].seq <= seq'
      <4> TAKE i \in Instances
      <4>1. running[i].seq \in Nat /\ running[i].seq <= seq
          BY <2>3, <2>12, Zenon
      <4> QED  BY <2>3, <3>1, <4>1
    <3>7. ASSUME NEW i \in Instances, cfg \in Config, ~ pushedOver
          PROVE  running[i].seq <= cfg.seq
        BY <2>12, <3>7, Zenon
    <3> QED  BY <3>1, <3>4, <3>5, <3>6, <3>7 DEF OrderInv
  <2>6. CASE TruncateConfig(th)
    <3>1. /\ pc[th] = "truncate" /\ label = "write" /\ cfg' = Partial
          /\ UNCHANGED <<running, conf, seq>>
        BY <2>2, <2>6 DEF TruncateConfig, TypeOK, locals
    <3> QED  BY <2>2, <3>1, Markers DEF OrderInv
  <2>7. CASE WriteConfig(th)
    <3>1. /\ pc[th] = "write" /\ label = "writeapplied"
          /\ UNCHANGED <<running, conf, seq>>
        BY <2>2, <2>7 DEF WriteConfig, TypeOK, locals
    <3>2. conf[th].seq = seq
        BY <3>1 DEF OrderInv
    <3>3. CASE cfg' = conf[th]
        BY <2>2, <2>3, <3>1, <3>2, <3>3 DEF OrderInv
    <3>4. CASE cfg' # conf[th]
      <4>1. cfg' = cfg /\ cfg # Partial /\ pushedOver' = pushedOver
          BY <2>7, <3>4 DEF WriteConfig
      <4>2. pushedOver
          BY <3>1, <4>1 DEF FileInv
      <4> QED  BY <2>2, <3>1, <3>2, <4>1, <4>2 DEF OrderInv
    <3> QED  BY <3>3, <3>4
  <2>8. CASE Push(th)
    <3>1. /\ pc[th] = "push" /\ label = "unlock" /\ UNCHANGED <<conf, seq>>
        BY <2>2, <2>8 DEF Push, TypeOK, locals
    <3>2. \A i \in Instances :
            running'[i] = running[i] \/ running'[i] = conf[th]
        BY <2>8 DEF Push, PushTo
    <3>3. /\ conf[th].seq = seq
          /\ cfg \in Config /\ ~ pushedOver => conf[th].seq <= cfg.seq
        BY <3>1, Markers DEF OrderInv
    <3>4. \/ cfg' = conf[th]
          \/ cfg' = cfg /\ pushedOver' = pushedOver
      <4>1. PICK reached \in SUBSET Instances :
              PushTo(th, reached) /\ pushedOver' = (pushedOver /\ Primary \notin reached)
          BY <2>8 DEF Push
      <4>2. CASE Primary \in reached
          BY <4>1, <4>2 DEF PushTo
      <4>3. CASE Primary \notin reached
        <5>1. pushedOver' = pushedOver
            BY <4>1, <4>3, Zenon DEF TypeOK
        <5> QED  BY <4>1, <4>3, <5>1 DEF PushTo
      <4> QED  BY <4>2, <4>3
    <3>5. \A i \in Instances :
            /\ running'[i].seq <= seq'
            /\ (cfg' \in Config /\ ~ pushedOver') => running'[i].seq <= cfg'.seq
      <4> TAKE i \in Instances
      <4>1. running'[i].seq <= seq'
        <5>1. CASE running'[i] = running[i]
            BY <2>12, <3>1, <5>1, Zenon
        <5>2. CASE running'[i] = conf[th]
            BY <2>3, <3>1, <3>3, <5>2
        <5> QED  BY <3>2, <5>1, <5>2
      <4>2. CASE cfg' = conf[th]
        <5>1. cfg'.seq = seq'
            BY <3>1, <3>3, <4>2
        <5> QED  BY <4>1, <5>1
      <4>3. CASE cfg' = cfg /\ pushedOver' = pushedOver
        <5>1. CASE running'[i] = running[i]
            BY <2>12, <4>1, <4>3, <5>1
        <5>2. CASE running'[i] = conf[th]
            BY <3>3, <4>1, <4>3, <5>2
        <5> QED  BY <3>2, <5>1, <5>2
      <4> QED  BY <3>4, <4>2, <4>3
    <3>6. \A o \in Threads : /\ pc'[o] \in Generated => pc[o] \in Generated
                             /\ pc'[o] \in Written => pc[o] \in Written
        BY <2>2, <3>1
    <3>7. cfg' \in Config => cfg'.seq <= seq'
      <4>1. CASE cfg' = conf[th]
          BY <2>3, <3>1, <3>3, <4>1
      <4>2. CASE cfg' = cfg
          BY <3>1, <4>2 DEF OrderInv
      <4> QED  BY <3>4, <4>1, <4>2
    <3>8. ASSUME NEW o \in Threads, pc'[o] \in Written, cfg' # Partial, ~ pushedOver'
          PROVE  conf[o].seq <= cfg'.seq
      <4>1. CASE cfg' = conf[th]
          BY <3>3, <4>1 DEF OrderInv
      <4>2. CASE cfg' = cfg /\ pushedOver' = pushedOver
          BY <3>6, <3>8, <4>2 DEF OrderInv
      <4> QED  BY <3>4, <4>1, <4>2
    <3>9. \A o \in Threads : /\ conf'[o].seq <= seq'
                             /\ pc'[o] \in Generated => conf'[o].seq = seq'
        BY <3>1, <3>6 DEF OrderInv
    <3> QED  BY <3>1, <3>5, <3>7, <3>8, <3>9 DEF OrderInv
  <2>13. CASE Repush(th)
    <3>1. /\ pc[th] = "repush" /\ label = "idle" /\ seq' = seq
          /\ conf'[th] = FirstConfig /\ \A o \in Threads \ {th} : conf'[o] = conf[o]
        BY <2>2, <2>13 DEF Repush, TypeOK
    <3>2. /\ \A i \in Instances : running'[i] = running[i] \/ running'[i] = conf[th]
          /\ cfg' = cfg \/ cfg' = conf[th]
          /\ ~ pushedOver' => ~ pushedOver /\ cfg' = cfg
        BY <2>13 DEF Repush, PushTo
    <3>3. /\ conf[th].seq <= seq
          /\ (cfg \in Config /\ ~ pushedOver) => conf[th].seq <= cfg.seq
        BY <3>1, Markers DEF OrderInv
    <3>4. \A i \in Instances :
            /\ running'[i].seq <= seq'
            /\ (cfg' \in Config /\ ~ pushedOver') => running'[i].seq <= cfg'.seq
      <4> TAKE i \in Instances
      <4>1. CASE running'[i] = running[i]
          BY <2>12, <3>1, <3>2, <4>1
      <4>2. CASE running'[i] = conf[th]
          BY <3>1, <3>2, <3>3, <4>2
      <4> QED  BY <3>2, <4>1, <4>2
    <3>5. \A o \in Threads :
            /\ pc'[o] \in Generated => pc[o] \in Generated /\ conf'[o] = conf[o]
            /\ pc'[o] \in Written => pc[o] \in Written /\ conf'[o] = conf[o]
        BY <2>2, <3>1
    <3>6. \A o \in Threads : conf'[o].seq <= seq'
      <4>1. FirstConfig.seq = 0
          BY DEF FirstConfig
      <4> QED  BY <2>3, <3>1, <4>1 DEF OrderInv
    <3>7. cfg' \in Config => cfg'.seq <= seq'
      <4>1. CASE cfg' = conf[th]
          BY <3>1, <3>3, <4>1
      <4>2. CASE cfg' = cfg
          BY <3>1, <4>2 DEF OrderInv
      <4> QED  BY <3>2, <4>1, <4>2
    <3>8. \A o \in Threads :
            /\ pc'[o] \in Generated => conf'[o].seq = seq'
            /\ (pc'[o] \in Written /\ cfg' # Partial /\ ~ pushedOver')
                  => conf'[o].seq <= cfg'.seq
        BY <3>1, <3>2, <3>5 DEF OrderInv
    <3> QED  BY <3>4, <3>6, <3>7, <3>8 DEF OrderInv
  <2>9. CASE Reload(th)
    <3>1. /\ pc[th] = "reload" /\ label = "idle" /\ UNCHANGED <<cfg, seq, pushedOver>>
          /\ conf'[th] = FirstConfig /\ \A o \in Threads \ {th} : conf'[o] = conf[o]
        BY <2>2, <2>9 DEF Reload, TypeOK, fileVars, history
    <3>2. \A i \in Instances :
            /\ running'[i].seq <= seq
            /\ (cfg \in Config /\ ~ pushedOver) => running'[i].seq <= cfg.seq
      <4>1. CASE LoadFile
          BY <4>1, LoadOrder
      <4>2. CASE running' = running
          BY <2>12, <4>2
      <4> QED  BY <2>9, <4>1, <4>2 DEF Reload
    <3>3. \A o \in Threads :
            /\ pc'[o] \in Generated => pc[o] \in Generated /\ conf'[o] = conf[o]
            /\ pc'[o] \in Written => pc[o] \in Written /\ conf'[o] = conf[o]
        BY <2>2, <3>1
    <3>4. \A o \in Threads : conf'[o].seq <= seq'
      <4>1. FirstConfig.seq = 0
          BY DEF FirstConfig
      <4> QED  BY <2>3, <3>1, <4>1 DEF OrderInv
    <3>5. \A o \in Threads :
            /\ pc'[o] \in Generated => conf'[o].seq = seq'
            /\ (pc'[o] \in Written /\ cfg' # Partial /\ ~ pushedOver')
                  => conf'[o].seq <= cfg'.seq
        BY <3>1, <3>3 DEF OrderInv
    <3>6. cfg' \in Config => cfg'.seq <= seq'
        BY <3>1 DEF OrderInv
    <3> QED  BY <3>1, <3>2, <3>4, <3>5, <3>6 DEF OrderInv
  <2>10. CASE Lookup(th) \/ ReadSnapshot(th) \/ Restore(th)
              \/ ResetSequences(th) \/ AcquireLock(th)
    <3>1. label \in {"idle", "read", "restore", "reset", "lock", "generate"}
        BY <2>2, <2>10 DEF Lookup, ReadSnapshot, Restore, ResetSequences,
           AcquireLock, TypeOK
    <3>2. /\ UNCHANGED <<cfg, running, seq, pushedOver>>
          /\ label # "idle" => conf' = conf
          /\ conf'[th] = conf[th] \/ conf'[th] = FirstConfig
          /\ \A o \in Threads \ {th} : conf'[o] = conf[o]
        BY <2>2, <2>10 DEF Lookup, ReadSnapshot, Restore, ResetSequences,
           AcquireLock, fileVars, locals, history, TypeOK
    <3> QED  BY <2>1, <3>1, <3>2, OrderMoves
  <2>11. CASE WriteSideFiles(th) \/ ValidateConfigText(th) \/ WriteApplied(th)
              \/ BuildSnapshot(th) \/ TruncateSnapshot(th)
              \/ WriteSnapshot(th) \/ InsertRow(th) \/ PruneSnapshots(th)
              \/ Unlock(th)
    <3>1. /\ label \in Generated => pc[th] \in Generated
          /\ label \in Written => pc[th] \in Written
        BY <2>2, <2>11 DEF WriteSideFiles, ValidateConfigText, WriteApplied,
           BuildSnapshot, TruncateSnapshot, WriteSnapshot, InsertRow,
           PruneSnapshots, PruneBeyond, Unlock, TypeOK
    <3>2. /\ UNCHANGED <<cfg, running, seq, pushedOver>>
          /\ label # "idle" => conf' = conf
          /\ conf'[th] = conf[th] \/ conf'[th] = FirstConfig
          /\ \A o \in Threads \ {th} : conf'[o] = conf[o]
        BY <2>2, <2>11 DEF WriteSideFiles, ValidateConfigText, WriteApplied,
           BuildSnapshot, TruncateSnapshot, WriteSnapshot, InsertRow,
           PruneSnapshots, PruneBeyond, Unlock, fileVars, locals, history, TypeOK
    <3> QED  BY <2>1, <3>1, <3>2, OrderMoves
  <2> QED
      BY <1>2, <2>4, <2>5, <2>6, <2>7, <2>8, <2>9, <2>10, <2>11, <2>13 DEF Step
<1> QED  BY <1>1, <1>2, <1>3 DEF Next

\* In every reachable state nothing that runs, and nothing that a thread may
\* still push, is newer than a complete haproxy.cfg; unless the second push of
\* POST /ha/apply has replaced the file since it was written last.
THEOREM OrderInvariant == Spec => []OrderInv
<1>1. Init => OrderInv
  <2> SUFFICES ASSUME Init PROVE OrderInv
      OBVIOUS
  <2>1. \A th \in Threads : conf[th].seq = 0 /\ pc[th] = "idle"
      BY DEF Init, FirstConfig
  <2>2. \A i \in Instances : running[i].seq = 0
      BY DEF Init, FirstConfig
  <2>3. seq = 0 /\ cfg \notin Config
      BY Markers DEF Init
  <2> QED  BY <2>1, <2>2, <2>3 DEF OrderInv, Generated, Held, Written
<1> QED
    BY <1>1, OrderInductive, BaseInvariant, FilesInvariant, PTL DEF Spec

\* reload_haproxy, which holds no lock, never makes the default instance run a
\* configuration older than the one of the operation it ends, as long as no second
\* push has replaced haproxy.cfg: for any number of overlapping operations.
THEOREM ReloadRunsOwnOrLaterCorrect == Spec => ReloadRunsOwnOrLater
<1>1. BaseInv /\ OrderInv /\ [Next]_vars =>
        [\A th \in Threads :
            (Reload(th) /\ running' # running /\ ~ pushedOver)
                => running'[Primary].seq >= conf[th].seq]_vars
  <2> SUFFICES ASSUME BaseInv, OrderInv, NEW th \in Threads, Reload(th),
                      running' # running, ~ pushedOver
               PROVE  running'[Primary].seq >= conf[th].seq
      OBVIOUS
  <2>1. pc[th] = "reload" /\ LoadFile
      BY DEF Reload
  <2>2. running'[Primary] = cfg
      BY <2>1, InstancesAssumption DEF BaseInv, TypeOK, LoadFile
  <2>3. cfg \in Config /\ cfg # Partial
      BY <2>1, LoadTyped, Markers DEF BaseInv
  <2>4. conf[th].seq <= cfg.seq
      BY <2>1, <2>3 DEF OrderInv, Written
  <2>5. conf[th].seq \in Int /\ cfg.seq \in Int
      BY <2>3, BoundsAssumption DEF BaseInv, TypeOK, Config
  <2> QED  BY <2>2, <2>4, <2>5
<1> QED
    BY <1>1, BaseInvariant, OrderInvariant, PTL
       DEF Spec, ReloadRunsOwnOrLater

\* What changes an instance: a load of the file, or a push.
LEMMA RunningChanges ==
    ASSUME [Next]_vars, running' # running
    PROVE  \/ LoadFile
           \/ \E th \in Threads : Push(th) \/ Repush(th)
BY ZenonT(60) DEF Next, vars, Edit, DataPlaneReload, Request, Step, Crash, Lookup,
   ReadSnapshot, Restore, ResetSequences, AcquireLock, GenerateConfig,
   WriteSideFiles, ValidateConfigText, TruncateConfig, WriteConfig,
   WriteApplied, BuildSnapshot, TruncateSnapshot, WriteSnapshot,
   InsertRow, PruneSnapshots, PruneBeyond, Unlock, Reload

\* The pushes made under the lock and the loads of haproxy.cfg, whenever they come,
\* are in the order of the generations: an instance goes back only by the second
\* push of /ha/apply, and the default one by a load of what that push left.
THEOREM NeverOlderCorrect == Spec => NeverOlder
<1>1. BaseInv /\ OrderInv /\ [Next]_vars =>
        [\A i \in Instances :
            running'[i].seq < running[i].seq
                => \/ i = Primary /\ pushedOver
                   \/ i # Primary /\ \E th \in Threads : Repush(th)]_vars
  <2> SUFFICES ASSUME BaseInv, OrderInv, [Next]_vars,
                      NEW i \in Instances, running'[i].seq < running[i].seq
               PROVE  \/ i = Primary /\ pushedOver
                      \/ i # Primary /\ \E th \in Threads : Repush(th)
      OBVIOUS
  <2>1. \A c \in Config : c.seq \in Int
      BY BoundsAssumption DEF Config
  <2>2. running[i].seq \in Int /\ seq \in Int
      BY <2>1, BoundsAssumption DEF BaseInv, TypeOK
  <2>3. running'[i] # running[i] /\ running' # running
      BY <2>2
  <2>4. CASE LoadFile
    <3>1. cfg \in Config /\ i = Primary /\ running'[i] = cfg
        BY <2>3, <2>4, LoadTyped DEF LoadFile, BaseInv, TypeOK
    <3>2. ~ pushedOver => running[i].seq <= cfg.seq
        BY <3>1 DEF OrderInv
    <3>3. cfg.seq \in Int
        BY <2>1, <3>1
    <3> QED  BY <2>2, <3>1, <3>2, <3>3
  <2>5. ASSUME NEW th \in Threads, Push(th) PROVE FALSE
    <3>1. running'[i] = conf[th]
        BY <2>3, <2>5 DEF Push, PushTo
    <3>2. conf[th].seq = seq
        BY <2>5 DEF Push, OrderInv, Generated, Held
    <3>3. running[i].seq <= seq
        BY DEF OrderInv
    <3> QED  BY <2>2, <3>1, <3>2, <3>3
  <2>6. ASSUME NEW th \in Threads, Repush(th) PROVE i # Primary
      BY <2>3, <2>6 DEF Repush, PushTo
  <2> QED  BY <2>3, <2>4, <2>5, <2>6, RunningChanges
<1> QED
    BY <1>1, BaseInvariant, OrderInvariant, PTL DEF Spec, NeverOlder

-----------------------------------------------------------------------------
(* OnlyValidated.                                                          *)

\* The steps after the validation.
Checked == {"truncate"} \cup Opened

\* What was rejected is in no file and on no instance, and nobody is about to
\* write or push it.
ValidInv ==
    /\ \A th \in Threads : pc[th] \in Checked => conf[th].ver \notin Invalid
    /\ cfg \in Config => cfg.ver \notin Invalid
    /\ \A i \in Instances : running[i].ver \notin Invalid

LEMMA ValidInductive ==
    ASSUME ~ Unchecked
    PROVE  BaseInv /\ ValidInv /\ [Next]_vars => ValidInv'
<1> SUFFICES ASSUME BaseInv, ValidInv, [Next]_vars PROVE ValidInv'
    OBVIOUS
<1> USE DEF BaseInv
<1>1. CASE Edit \/ UNCHANGED vars
    BY <1>1 DEF Edit, vars, fileVars, locals, ValidInv
<1>3. CASE DataPlaneReload
  <2>1. UNCHANGED <<cfg, pc, conf>>
      BY <1>3 DEF DataPlaneReload, fileVars, locals
  <2>2. \A i \in Instances : \/ running'[i] = running[i]
                             \/ running'[i] = cfg /\ cfg.ver \notin Invalid
      BY <1>3 DEF DataPlaneReload, LoadFile, TypeOK
  <2>3. \A i \in Instances : running'[i].ver \notin Invalid
    <3> TAKE i \in Instances
    <3> QED  BY <2>2 DEF ValidInv
  <2> QED  BY <2>1, <2>3 DEF ValidInv
<1>2. ASSUME NEW th \in Threads, Request(th) \/ Step(th) \/ Crash(th)
      PROVE  ValidInv'
  <2>1. PICK label \in Steps \ {pc[th]} : pc' = [pc EXCEPT ![th] = label]
      BY <1>2, OneMoves
  <2>2. pc'[th] = label /\ \A o \in Threads \ {th} : pc'[o] = pc[o]
      BY <2>1 DEF TypeOK
  <2> USE DEF Goto, Raise, Leave, Checked, Opened
  <2>3. ASSUME label \in Checked => conf'[th].ver \notin Invalid,
               \A o \in Threads \ {th} : conf'[o] = conf[o],
               cfg' \in Config => cfg'.ver \notin Invalid,
               \A i \in Instances : running'[i].ver \notin Invalid
        PROVE  ValidInv'
      BY <2>2, <2>3 DEF ValidInv
  <2>4. CASE GenerateConfig(th)
    <3>1. label = "side" /\ UNCHANGED <<cfg, running>>
          /\ \A o \in Threads \ {th} : conf'[o] = conf[o]
        BY <2>2, <2>4 DEF GenerateConfig, TypeOK, fileVars
    <3> QED  BY <2>3, <3>1 DEF ValidInv
  <2>5. CASE ValidateConfigText(th)
    <3>1. UNCHANGED <<cfg, running>> /\ \A o \in Threads \ {th} : conf'[o] = conf[o]
        BY <2>5 DEF ValidateConfigText, fileVars, locals, TypeOK
    <3>2. label \in Checked => conf'[th].ver \notin Invalid
        BY <2>2, <2>5 DEF ValidateConfigText, locals, TypeOK
    <3> QED  BY <2>3, <3>1, <3>2 DEF ValidInv
  <2>6. CASE TruncateConfig(th) \/ WriteConfig(th)
    <3>1. /\ cfg' = Partial \/ cfg' = conf[th] \/ cfg' = cfg
          /\ UNCHANGED <<running, conf>>
          /\ pc[th] \in {"truncate", "write"}
        BY <2>6 DEF TruncateConfig, WriteConfig, locals
    <3> QED  BY <2>3, <3>1, Markers DEF ValidInv
  <2>7. CASE Push(th) \/ Repush(th)
    <3>1. /\ pc[th] \in {"push", "repush"}
          /\ label \in Checked => conf'[th] = conf[th]
          /\ \A o \in Threads \ {th} : conf'[o] = conf[o]
          /\ cfg' = cfg \/ cfg' = conf[th]
          /\ \A i \in Instances : running'[i] = running[i]
                                   \/ running'[i] = conf[th]
        BY <2>2, <2>7 DEF Push, Repush, PushTo, locals, TypeOK
    <3>2. conf[th].ver \notin Invalid
        BY <3>1 DEF ValidInv
    <3>3. \A i \in Instances : running'[i].ver \notin Invalid
      <4> TAKE i \in Instances
      <4> QED  BY <3>1, <3>2 DEF ValidInv
    <3> QED  BY <2>3, <3>1, <3>2, <3>3 DEF ValidInv
  <2>8. CASE Reload(th)
    <3>1. label = "idle" /\ cfg' = cfg /\ \A o \in Threads \ {th} : conf'[o] = conf[o]
        BY <2>2, <2>8 DEF Reload, TypeOK, fileVars
    <3>2. \A i \in Instances : \/ running'[i] = running[i]
                               \/ running'[i] = cfg /\ cfg.ver \notin Invalid
        BY <2>8 DEF Reload, LoadFile, TypeOK
    <3>3. \A i \in Instances : running'[i].ver \notin Invalid
      <4> TAKE i \in Instances
      <4> QED  BY <3>2 DEF ValidInv
    <3> QED  BY <2>3, <3>1, <3>3 DEF ValidInv
  <2>9. CASE /\ ~ GenerateConfig(th) /\ ~ ValidateConfigText(th)
             /\ ~ TruncateConfig(th) /\ ~ WriteConfig(th) /\ ~ Push(th)
             /\ ~ Repush(th) /\ ~ Reload(th)
    <3>1. UNCHANGED <<cfg, running>>
        BY <1>2, <2>9 DEF Request, Crash, Step, Lookup, ReadSnapshot,
           Restore, ResetSequences, AcquireLock, WriteSideFiles,
           WriteApplied, BuildSnapshot, TruncateSnapshot, WriteSnapshot,
           InsertRow, PruneSnapshots, PruneBeyond, Unlock, fileVars
    <3>3. /\ label \in Checked => conf'[th] = conf[th]
          /\ \A o \in Threads \ {th} : conf'[o] = conf[o]
      <4>1. CASE Request(th) \/ Crash(th)
          BY <2>2, <4>1 DEF Request, Crash, TypeOK
      <4>2. CASE Step(th)
          BY <2>2, <2>9, <4>2 DEF Step, Lookup, ReadSnapshot,
             Restore, ResetSequences, AcquireLock, WriteSideFiles,
             WriteApplied, BuildSnapshot, TruncateSnapshot, WriteSnapshot,
             InsertRow, PruneSnapshots, PruneBeyond, Unlock, locals, TypeOK
      <4> QED  BY <1>2, <4>1, <4>2
    <3>2. label \in Checked => pc[th] \in Checked
      <4>1. CASE Request(th) \/ Crash(th)
          BY <2>2, <4>1 DEF Request, Crash, TypeOK
      <4>2. CASE Step(th)
          BY <2>2, <2>9, <4>2 DEF Step, Lookup, ReadSnapshot,
             Restore, ResetSequences, AcquireLock, WriteSideFiles,
             WriteApplied, BuildSnapshot, TruncateSnapshot, WriteSnapshot,
             InsertRow, PruneSnapshots, PruneBeyond, Unlock, TypeOK
      <4> QED  BY <1>2, <4>1, <4>2
    <3> QED  BY <2>3, <3>1, <3>2, <3>3 DEF ValidInv
  <2> QED  BY <2>4, <2>5, <2>6, <2>7, <2>8, <2>9
<1> QED  BY <1>1, <1>2, <1>3 DEF Next

\* HAProxy begins with contents that are not rejected.
LEMMA ValidInit == Init => ValidInv
<1>1. 0 \notin Invalid
    BY InvalidAssumption, BoundsAssumption
<1> QED
    BY <1>1, Markers DEF Init, ValidInv, FirstConfig, Checked, Opened

\* As long as haproxy -c can be run, what it rejects reaches neither haproxy.cfg
\* nor an instance: for any number of operations and edits, crashes included.
THEOREM OnlyValidatedCorrect ==
    ASSUME ~ Unchecked
    PROVE  Spec => []OnlyValidated
<1>1. BaseInv /\ ValidInv => OnlyValidated
    BY DEF BaseInv, TypeOK, ValidInv, OnlyValidated
<1> QED  BY <1>1, ValidInit, ValidInductive, BaseInvariant, PTL DEF Spec

-----------------------------------------------------------------------------
(* The register.                                                           *)

\* Either haproxy -c may be out of reach, or what it rejects goes nowhere.
LEMMA ValidUnless == Spec => [](Unchecked \/ ValidInv)
<1>1. CASE Unchecked
    BY <1>1, PTL
<1>2. CASE ~ Unchecked
  <2>1. BaseInv /\ ValidInv /\ [Next]_vars => ValidInv'
      BY <1>2, ValidInductive
  <2> QED  BY <2>1, ValidInit, BaseInvariant, PTL DEF Spec
<1> QED  BY <1>1, <1>2

\* Whose turn it is, and what is due, in terms of the threads' steps.
TurnInv ==
    /\ \A th \in Threads :
        /\ writer = th <=> pc[th] \in Generated
        /\ due[th] = IF pc[th] \in Written THEN conf[th] ELSE None
        /\ due[th] = None <=> pc[th] \notin Written
    /\ (\A th \in Threads : pc[th] \notin Generated) => writer = None

LEMMA TurnIs == BaseInv => TurnInv
<1> SUFFICES ASSUME BaseInv PROVE TurnInv
    OBVIOUS
<1>1. \A o \in Threads : conf[o] # None /\ None # o
    BY Markers DEF BaseInv, TypeOK
<1>2. \A o \in Threads : pc[o] \in Generated => lock = o
    BY DEF BaseInv, LockInv, Generated
<1>3. writer = IF \E o \in Threads : pc[o] \in Generated THEN lock ELSE None
    BY DEF writer, Generated, Held
<1>4. \A th \in Threads : writer = th <=> pc[th] \in Generated
    BY <1>1, <1>2, <1>3
<1>5. \A th \in Threads : due[th] = IF pc[th] \in Written THEN conf[th] ELSE None
    BY DEF due, Written
<1> QED  BY <1>1, <1>3, <1>4, <1>5 DEF TurnInv

\* How a step of a thread changes both.
LEMMA TurnMoves ==
    ASSUME BaseInv, BaseInv', NEW th \in Threads, NEW label,
           pc' = [pc EXCEPT ![th] = label],
           \A o \in Threads \ {th} : conf'[o] = conf[o]
    PROVE  /\ writer' = IF label \in Generated THEN th
                        ELSE IF pc[th] \in Generated THEN None ELSE writer
           /\ due' = [due EXCEPT ![th] =
                        IF label \in Written THEN conf'[th] ELSE None]
<1>1. pc'[th] = label /\ \A o \in Threads \ {th} : pc'[o] = pc[o]
    BY DEF BaseInv, TypeOK
<1>2. TurnInv /\ TurnInv'
  <2>1. BaseInv' => TurnInv'
      BY TurnIs, PTL
  <2> QED  BY <2>1, TurnIs
<1>3. CASE label \in Generated
  <2>1. writer' = th
      BY <1>1, <1>2, <1>3 DEF TurnInv
  <2> QED  BY <1>1, <1>3, <2>1 DEF due, Written
<1>4. CASE label \notin Generated /\ pc[th] \in Generated
  <2>1. \A o \in Threads \ {th} : pc[o] \notin Generated
      BY <1>4, OneHolder DEF BaseInv, Generated
  <2>2. writer' = None
      BY <1>1, <1>2, <1>4, <2>1 DEF TurnInv
  <2> QED  BY <1>1, <1>4, <2>2 DEF due, Written
<1>5. CASE label \notin Generated /\ pc[th] \notin Generated
  <2>1. writer' = writer
    <3>1. CASE \E o \in Threads : pc[o] \in Generated
      <4>1. PICK o \in Threads : pc[o] \in Generated
          BY <3>1
      <4>2. pc'[o] \in Generated
          BY <1>1, <1>5, <4>1
      <4> QED  BY <1>2, <4>1, <4>2 DEF TurnInv
    <3>2. CASE \A o \in Threads : pc[o] \notin Generated
      <4>1. \A o \in Threads : pc'[o] \notin Generated
          BY <1>1, <1>5, <3>2
      <4> QED  BY <1>2, <3>2, <4>1 DEF TurnInv
    <3> QED  BY <3>1, <3>2
  <2> QED  BY <1>1, <1>5, <2>1 DEF due, Written
<1> QED  BY <1>3, <1>4, <1>5

\* Steps that the register does not see.
LEMMA Unseen ==
    ASSUME BaseInv, BaseInv', NEW th \in Threads, NEW label,
           pc' = [pc EXCEPT ![th] = label],
           label \in Generated <=> pc[th] \in Generated,
           label \in Written <=> pc[th] \in Written,
           label \in Written => conf'[th] = conf[th],
           \A o \in Threads \ {th} : conf'[o] = conf[o],
           UNCHANGED <<cfg, running, seq>>
    PROVE  UNCHANGED Register!vars
<1>1. writer' = writer
  <2>1. writer' = IF label \in Generated THEN th
                  ELSE IF pc[th] \in Generated THEN None ELSE writer
      BY TurnMoves
  <2> QED  BY <2>1, TurnIs DEF TurnInv
<1>2. pc'[th] = label /\ \A o \in Threads \ {th} : pc'[o] = pc[o]
    BY DEF BaseInv, TypeOK
<1>3. due' = due
    BY <1>2 DEF due, Written
<1> QED  BY <1>1, <1>3 DEF Register!vars

\* A step by which a thread ends its operation without a reload or a last push.
LEMMA GivesUp ==
    ASSUME BaseInv, BaseInv', NEW th \in Threads, pc' = [pc EXCEPT ![th] = "idle"],
           \A o \in Threads \ {th} : conf'[o] = conf[o],
           UNCHANGED <<cfg, running, seq>>
    PROVE  [Register!Next]_(Register!vars)
<1>1. CASE pc[th] \notin Generated \cup Written
    BY <1>1, Unseen DEF Generated, Held, Written
<1>2. CASE pc[th] \in Generated \cup Written
  <2>1. writer = th \/ due[th] # None
      BY <1>2, TurnIs DEF TurnInv
  <2>2. /\ writer' = IF writer = th THEN None ELSE writer
        /\ due' = [due EXCEPT ![th] = None]
    <3>1. "idle" \notin Generated /\ "idle" \notin Written
        BY DEF Generated, Held, Written
    <3>2. /\ writer' = IF pc[th] \in Generated THEN None ELSE writer
          /\ due' = [due EXCEPT ![th] = None]
        BY <3>1, TurnMoves
    <3> QED  BY <3>2, TurnIs DEF TurnInv
  <2>3. Register!GiveUp(th)
      BY <2>1, <2>2 DEF Register!GiveUp
  <2> QED  BY <2>3 DEF Register!Next
<1> QED  BY <1>1, <1>2

\* The step of a thread is a step of its turn.
LEMMA RegisterStep ==
    ASSUME BaseInv, BaseInv', OrderInv, Unchecked \/ ValidInv,
           NEW th \in Threads, Request(th) \/ Step(th) \/ Crash(th)
    PROVE  [Register!Next]_(Register!vars)
<1>1. PICK label \in Steps \ {pc[th]} : pc' = [pc EXCEPT ![th] = label]
    BY OneMoves DEF BaseInv
<1>2. pc'[th] = label
    BY <1>1 DEF BaseInv, TypeOK
<1>3. /\ writer = th <=> pc[th] \in Generated
      /\ due[th] = IF pc[th] \in Written THEN conf[th] ELSE None
      /\ due[th] = None <=> pc[th] \notin Written
    BY TurnIs DEF TurnInv
<1>4. (\A o \in Threads \ {th} : conf'[o] = conf[o])
        => /\ writer' = IF label \in Generated THEN th
                        ELSE IF pc[th] \in Generated THEN None ELSE writer
           /\ due' = [due EXCEPT ![th] =
                        IF label \in Written THEN conf'[th] ELSE None]
    BY <1>1, TurnMoves
<1>5. ASSUME label \in Generated <=> pc[th] \in Generated,
             label \in Written <=> pc[th] \in Written,
             UNCHANGED <<cfg, running, conf, seq>>
      PROVE  [Register!Next]_(Register!vars)
    BY <1>1, <1>5, Unseen
<1>6. ASSUME label = "idle", \A o \in Threads \ {th} : conf'[o] = conf[o],
             UNCHANGED <<cfg, running, seq>>
      PROVE  [Register!Next]_(Register!vars)
    BY <1>1, <1>6, GivesUp
<1> USE DEF Goto, Raise, Leave
<1>7. CASE Request(th) \/ Crash(th)
  <2>1. /\ UNCHANGED <<cfg, running, seq>>
        /\ label # "idle" => conf' = conf
        /\ \A o \in Threads \ {th} : conf'[o] = conf[o]
      BY <1>2, <1>7 DEF Request, Crash, fileVars, BaseInv, TypeOK
  <2>2. label = "idle" \/ (pc[th] = "idle" /\ label \in {"lookup", "read", "lock"})
      BY <1>2, <1>7 DEF Request, Crash, BaseInv, TypeOK
  <2> QED  BY <1>5, <1>6, <2>1, <2>2 DEF Generated, Held, Written
<1>8. CASE \/ Lookup(th) \/ ReadSnapshot(th) \/ Restore(th)
           \/ ResetSequences(th) \/ AcquireLock(th)
  <2>3. UNCHANGED <<cfg, running, seq>>
      BY <1>8 DEF Lookup, ReadSnapshot, Restore, ResetSequences, AcquireLock,
         fileVars, history
  <2>4. conf' = conf \/ Leave(th)
      BY <1>8 DEF Lookup, ReadSnapshot, Restore, ResetSequences, AcquireLock, locals
  <2>1. /\ UNCHANGED <<cfg, running, seq>>
        /\ label # "idle" => conf' = conf
        /\ \A o \in Threads \ {th} : conf'[o] = conf[o]
      BY <1>2, <2>3, <2>4 DEF BaseInv, TypeOK
  <2>2. /\ pc[th] \in {"lookup", "read", "restore", "reset", "lock"}
        /\ label \in {"idle", "read", "restore", "reset", "lock", "generate"}
      BY <1>2, <1>8 DEF Lookup, ReadSnapshot, Restore, ResetSequences, AcquireLock,
         BaseInv, TypeOK
  <2> QED  BY <1>5, <1>6, <2>1, <2>2 DEF Generated, Held, Written
<1>9. CASE GenerateConfig(th)
  <2>1. /\ pc[th] = "generate" /\ label = "side" /\ seq' = seq + 1
        /\ UNCHANGED <<cfg, running>>
        /\ \A o \in Threads \ {th} : conf'[o] = conf[o]
      BY <1>2, <1>9 DEF GenerateConfig, BaseInv, TypeOK, fileVars
  <2>2. writer = None
    <3>1. \A o \in Threads : pc[o] \notin Generated
        BY <2>1, OneHolder DEF BaseInv, Generated, Held
    <3> QED  BY <3>1, TurnIs DEF TurnInv
  <2>3. writer' = th /\ due' = due
    <3>1. writer' = th
        BY <1>4, <2>1 DEF Generated, Held
    <3>2. \A o \in Threads : pc'[o] \in Written <=> pc[o] \in Written
        BY <1>1, <2>1 DEF Written, BaseInv, TypeOK
    <3>3. \A o \in Threads : pc[o] \in Written => conf'[o] = conf[o]
        BY <2>1 DEF Written
    <3> QED  BY <3>1, <3>2, <3>3 DEF due, Written
  <2>4. Register!Begin(th)
      BY <2>1, <2>2, <2>3 DEF Register!Begin
  <2> QED  BY <2>4 DEF Register!Next
<1>10. CASE WriteSideFiles(th) \/ ValidateConfigText(th) \/ InsertRow(th)
            \/ WriteApplied(th) \/ BuildSnapshot(th) \/ TruncateSnapshot(th)
            \/ WriteSnapshot(th) \/ PruneSnapshots(th)
  <2>3. UNCHANGED <<cfg, running, seq>>
      BY <1>10 DEF WriteSideFiles, ValidateConfigText, WriteApplied,
         BuildSnapshot, TruncateSnapshot, WriteSnapshot, InsertRow,
         PruneSnapshots, PruneBeyond, fileVars, history
  <2>4. conf' = conf \/ Leave(th)
      BY <1>10 DEF WriteSideFiles, ValidateConfigText, WriteApplied,
         BuildSnapshot, TruncateSnapshot, WriteSnapshot, InsertRow,
         PruneSnapshots, PruneBeyond, locals
  <2>1. /\ UNCHANGED <<cfg, running, seq>>
        /\ label # "idle" => conf' = conf
        /\ \A o \in Threads \ {th} : conf'[o] = conf[o]
      BY <1>2, <2>3, <2>4 DEF BaseInv, TypeOK
  <2>2. \/ label = "idle"
        \/ pc[th] \in {"side", "validate"} /\ label \in {"validate", "truncate"}
        \/ /\ pc[th] \in {"writeapplied", "build", "truncsnap", "writesnap", "insert",
                          "prune"}
           /\ label \in {"build", "truncsnap", "writesnap", "insert", "prune", "push"}
      BY <1>2, <1>10 DEF WriteSideFiles, ValidateConfigText, WriteApplied,
         BuildSnapshot, TruncateSnapshot, WriteSnapshot, InsertRow,
         PruneSnapshots, PruneBeyond, BaseInv, TypeOK
  <2> QED  BY <1>5, <1>6, <2>1, <2>2 DEF Generated, Held, Written
<1>11. CASE TruncateConfig(th)
  <2>1. /\ pc[th] = "truncate" /\ label = "write" /\ cfg' = Partial
        /\ UNCHANGED <<running, conf, seq>>
      BY <1>2, <1>11 DEF TruncateConfig, BaseInv, TypeOK, locals, history
  <2>2. writer' = writer /\ due' = due
    <3>1. writer' = writer
        BY <1>3, <1>4, <2>1 DEF Generated, Held
    <3>2. \A o \in Threads : pc'[o] \in Written <=> pc[o] \in Written
        BY <1>1, <2>1 DEF Written, BaseInv, TypeOK
    <3> QED  BY <2>1, <3>1, <3>2 DEF due, Written
  <2>3. writer = th /\ due[th] = None
      BY <1>3, <2>1 DEF Generated, Held, Written
  <2>4. Register!Clear(th)
      BY <2>1, <2>2, <2>3 DEF Register!Clear
  <2> QED  BY <2>4 DEF Register!Next
<1>12. CASE WriteConfig(th)
  <2>1. /\ pc[th] = "write" /\ label = "writeapplied"
        /\ cfg' = conf[th] \/ (cfg # Partial /\ cfg' = cfg)
        /\ UNCHANGED <<running, conf, seq>>
      BY <1>2, <1>12 DEF WriteConfig, BaseInv, TypeOK, locals
  <2>2. writer = th /\ due[th] = None
      BY <1>3, <2>1 DEF Generated, Held, Written
  <2>3. writer' = writer /\ due' = [due EXCEPT ![th] = conf[th]]
      BY <1>4, <2>1, <2>2 DEF Generated, Held, Written
  <2>4. conf[th] = [ver |-> conf[th].ver, seq |-> seq] /\ conf[th].ver \in Contents
    <3>1. conf[th] \in Config /\ conf[th].seq = seq
        BY <2>1 DEF BaseInv, TypeOK, OrderInv, Generated, Held
    <3> QED  BY <3>1 DEF Config
  <2>5. conf[th].ver \in IF Unchecked THEN Contents ELSE Contents \ Invalid
      BY <2>1, <2>4 DEF ValidInv, Checked, Opened
  <2>6. \E ver \in IF Unchecked THEN Contents ELSE Contents \ Invalid :
           due' = [due EXCEPT ![th] = [ver |-> ver, seq |-> seq]]
      BY <2>3, <2>4, <2>5
  <2>7. due'[th] = conf[th]
      BY <2>3 DEF due
  <2>8. Register!Publish(th)
      BY <2>1, <2>2, <2>3, <2>6, <2>7 DEF Register!Publish
  <2> QED  BY <2>8 DEF Register!Next
<1>13. CASE Push(th)
  <2>1. /\ pc[th] = "push" /\ label = "unlock"
        /\ \E reached \in SUBSET Instances : PushTo(th, reached)
        /\ UNCHANGED <<conf, seq>>
      BY <1>2, <1>13 DEF Push, BaseInv, TypeOK, locals
  <2>2. writer = th /\ due[th] # None /\ due[th] = conf[th]
      BY <1>3, <2>1 DEF Generated, Held, Written
  <2>3. writer' = writer /\ due' = due
    <3>1. writer' = writer
        BY <1>3, <1>4, <2>1 DEF Generated, Held
    <3>2. \A o \in Threads : pc'[o] \in Written <=> pc[o] \in Written
        BY <1>1, <2>1 DEF Written, BaseInv, TypeOK
    <3> QED  BY <2>1, <3>1, <3>2 DEF due, Written
  <2>4. Register!Give(th)
      BY <2>1, <2>2 DEF Register!Give, PushTo
  <2>5. Register!Push(th)
      BY <2>1, <2>2, <2>3, <2>4 DEF Register!Push
  <2> QED  BY <2>5 DEF Register!Next
<1>14. CASE Unlock(th)
  <2>1. /\ pc[th] = "unlock" /\ label \in {"reload", "repush"}
        /\ UNCHANGED <<cfg, running, conf, seq>>
      BY <1>2, <1>14 DEF Unlock, BaseInv, TypeOK, fileVars, locals, history
  <2>3. writer = th /\ due[th] # None
      BY <1>3, <2>1 DEF Generated, Held, Written
  <2>4. writer' = None /\ due' = due
    <3>1. writer' = None
        BY <1>4, <2>1 DEF Generated, Held
    <3>2. \A o \in Threads : pc'[o] \in Written <=> pc[o] \in Written
        BY <1>1, <2>1 DEF Written, BaseInv, TypeOK
    <3> QED  BY <2>1, <3>1, <3>2 DEF due, Written
  <2>5. Register!Finish(th)
      BY <2>1, <2>3, <2>4 DEF Register!Finish
  <2> QED  BY <2>5 DEF Register!Next
<1>15. CASE Reload(th) \/ Repush(th)
  <2>1. /\ pc[th] \in {"reload", "repush"} /\ label = "idle" /\ seq' = seq
        /\ \A o \in Threads \ {th} : conf'[o] = conf[o]
      BY <1>2, <1>15 DEF Reload, Repush, BaseInv, TypeOK, history
  <2>2. writer # th /\ due[th] # None /\ due[th] = conf[th]
      BY <1>3, <2>1 DEF Generated, Held, Written
  <2>3. writer' = writer /\ due' = [due EXCEPT ![th] = None]
      BY <1>4, <2>1, <2>2, <1>3 DEF Generated, Held, Written
  <2>4. CASE Reload(th)
    <3>1. Register!LastLoad(th)
        BY <2>1, <2>2, <2>3, <2>4 DEF Register!LastLoad, Reload, LoadFile, fileVars
    <3> QED  BY <3>1 DEF Register!Next
  <2>5. CASE Repush(th)
    <3>1. \E reached \in SUBSET Instances : PushTo(th, reached)
        BY <2>5 DEF Repush
    <3>2. Register!Give(th)
        BY <2>2, <3>1 DEF Register!Give, PushTo
    <3>3. Register!Repeat(th)
        BY <2>1, <2>2, <2>3, <3>2 DEF Register!Repeat
    <3> QED  BY <3>3 DEF Register!Next
  <2> QED  BY <1>15, <2>4, <2>5
<1> QED
    BY <1>7, <1>8, <1>9, <1>10, <1>11, <1>12, <1>13, <1>14, <1>15 DEF Step

\* haproxy.cfg, with the Data Plane API as its second writer, is a register of
\* validated configurations for any number of threads, instances, operations and
\* edits, whether or not haproxy -c can be run, early ends at any step included.
THEOREM RegisterRefinement == Spec => ImplementsRegister
<1>1. Init => Register!Init
  <2> SUFFICES ASSUME Init PROVE Register!Init
      OBVIOUS
  <2>1. writer = None /\ due = [th \in Threads |-> None]
      BY DEF Init, writer, due
  <2> QED  BY <2>1 DEF Init, FirstConfig, Register!Init
<1>2. BaseInv /\ BaseInv' /\ OrderInv /\ (Unchecked \/ ValidInv) /\ [Next]_vars
        => [Register!Next]_(Register!vars)
  <2> SUFFICES ASSUME BaseInv, BaseInv', OrderInv, Unchecked \/ ValidInv,
                      [Next]_vars
               PROVE  [Register!Next]_(Register!vars)
      OBVIOUS
  <2>3. CASE DataPlaneReload
    <3>1. UNCHANGED <<cfg, seq, pc, lock, conf>> /\ LoadFile
        BY <2>3 DEF DataPlaneReload, fileVars, locals, history
    <3>2. writer' = writer /\ due' = due
        BY <3>1 DEF writer, due
    <3>3. Register!Load
        BY <3>1, <3>2 DEF Register!Load, LoadFile
    <3> QED  BY <3>3 DEF Register!Next
  <2>1. CASE Edit \/ UNCHANGED vars
    <3>1. UNCHANGED <<cfg, running, seq, pc, lock, conf>>
        BY <2>1 DEF Edit, vars, fileVars, locals, history
    <3>2. writer' = writer /\ due' = due
        BY <3>1 DEF writer, due
    <3> QED  BY <3>1, <3>2 DEF Register!vars
  <2>2. CASE \E th \in Threads : Request(th) \/ Step(th) \/ Crash(th)
      BY <2>2, RegisterStep
  <2> QED  BY <2>1, <2>2, <2>3 DEF Next
<1> QED
    BY <1>1, <1>2, BaseInvariant, OrderInvariant, ValidUnless, PTL
       DEF Spec, ImplementsRegister, Register!Spec

-----------------------------------------------------------------------------
(* KeptBounded.                                                            *)

KeptIn(R) == {r \in R : r.kept}
Pruning == \E th \in Threads : pc[th] = "prune"

\* No snapshot claims more than max_snapshots dated files, and the table only
\* while its newest row waits for the pruning.
KeptInv ==
    ~spilled =>
      /\ \A s \in Snapshots : Cardinality(KeptIn(s.rows)) <= MaxKeep
      /\ Cardinality(KeptIn(rows)) <= IF Pruning THEN MaxKeep + 1 ELSE MaxKeep

LEMMA KeptFinite ==
    ASSUME NEW R \in SUBSET Row
    PROVE  IsFiniteSet(KeptIn(R)) /\ Cardinality(KeptIn(R)) \in Nat
<1>1. KeptIn(R) \in SUBSET Row
    BY DEF KeptIn
<1> QED  BY <1>1, RowFinite, FS_Subset, FS_CardinalityType

\* Nobody inserts or takes a snapshot while a row waits for the pruning.
LEMMA PruningAlone ==
    ASSUME LockInv, NEW th \in Threads, pc[th] \in Held \ {"prune"}
    PROVE  ~ Pruning
<1>1. ASSUME NEW o \in Threads, pc[o] = "prune" PROVE FALSE
    BY <1>1, OneHolder DEF Held
<1> QED  BY <1>1 DEF Pruning

\* A row that was inserted waits until it is pruned, unless the operation ends early.
LEMMA PruningLasts ==
    ASSUME TypeOK, [Next]_vars, ~ spilled', Pruning,
           \A th \in Threads : ~ PruneSnapshots(th)
    PROVE  Pruning'
<1>1. CASE Edit \/ DataPlaneReload \/ UNCHANGED vars
    BY <1>1 DEF Edit, DataPlaneReload, vars, Pruning
<1>2. ASSUME NEW th \in Threads, Request(th) \/ Step(th) \/ Crash(th)
      PROVE  Pruning'
  <2>1. PICK label \in Steps \ {pc[th]} : pc' = [pc EXCEPT ![th] = label]
      BY <1>2, OneMoves
  <2>2. pc[th] # "prune"
      BY <1>2 DEF Request, Crash, Step, Lookup, ReadSnapshot, Restore,
         ResetSequences, AcquireLock, GenerateConfig, WriteSideFiles,
         ValidateConfigText, TruncateConfig, WriteConfig, WriteApplied,
         BuildSnapshot, TruncateSnapshot, WriteSnapshot, InsertRow, Push,
         Unlock, Repush, Reload
  <2> QED  BY <2>1, <2>2 DEF Pruning, TypeOK
<1> QED  BY <1>1, <1>2 DEF Next

\* What the pruning leaves with a path, if it is not cut short, are the newest
\* max_snapshots rows.
LEMMA PrunedAreFew ==
    ASSUME BaseInv, NEW th \in Threads, PruneSnapshots(th), ~ spilled'
    PROVE  Cardinality(KeptIn(rows')) <= MaxKeep
<1> DEFINE Newest == {r \in rows :
                        Cardinality({s \in rows : s.at > r.at}) < MaxKeep}
<1>1. rows \in SUBSET Row /\ MaxKeep \in Nat
    BY KeepAssumption DEF BaseInv, TypeOK
<1>2. \A r, s \in rows : r.at = s.at => r = s
    BY DEF BaseInv, RowsInv, Listed
<1>3. Cardinality(Newest) <= MaxKeep
    BY <1>1, <1>2, NewestAreFew
<1>4. KeptIn(rows') \subseteq Newest
  <2> SUFFICES ASSUME NEW r \in rows', r.kept PROVE r \in Newest
      BY DEF KeptIn
  <2>1. PICK n \in MaxKeep .. MaxKeep + MaxOps :
          LET done == Beyond(MaxKeep) \ Beyond(n)
          IN /\ rows' = (rows \ done) \cup {[q EXCEPT !.kept = FALSE] : q \in done}
             /\ \A q \in Beyond(n) : ~ q.kept
      BY DEF PruneSnapshots, PruneBeyond
  <2>2. ASSUME NEW q \in Beyond(MaxKeep)
        PROVE  [q EXCEPT !.kept = FALSE].kept = FALSE
    <3>1. q \in Row
        BY <1>1 DEF Beyond
    <3> QED  BY <3>1 DEF Row
  <2>3. r \in rows /\ r \notin Beyond(MaxKeep)
      BY <2>1, <2>2
  <2>4. IsFiniteSet({s \in rows : s.at > r.at})
    <3>1. {s \in rows : s.at > r.at} \in SUBSET Row
        BY <1>1
    <3> QED  BY <3>1, RowFinite, FS_Subset
  <2>5. Cardinality({s \in rows : s.at > r.at}) \in Nat
      BY <2>4, FS_CardinalityType
  <2> QED  BY <1>1, <2>3, <2>5 DEF Beyond
<1>5. IsFiniteSet(Newest)
  <2>1. Newest \in SUBSET Row
      BY <1>1
  <2> QED  BY <2>1, RowFinite, FS_Subset
<1>6. /\ Cardinality(KeptIn(rows')) <= Cardinality(Newest)
      /\ Cardinality(Newest) \in Nat /\ Cardinality(KeptIn(rows')) \in Nat
    BY <1>4, <1>5, FS_Subset, FS_CardinalityType
<1> QED  BY <1>1, <1>3, <1>6

LEMMA KeptInductive == BaseInv /\ KeptInv /\ [Next]_vars => KeptInv'
<1> SUFFICES ASSUME BaseInv, KeptInv, [Next]_vars, ~ spilled'
             PROVE  /\ \A s \in Snapshots' :
                          Cardinality(KeptIn(s.rows)) <= MaxKeep
                    /\ Cardinality(KeptIn(rows'))
                         <= IF Pruning' THEN MaxKeep + 1 ELSE MaxKeep
    BY DEF KeptInv, KeptIn
<1>1. TypeOK /\ LockInv /\ rows \in SUBSET Row /\ MaxKeep \in Nat
    BY KeepAssumption DEF BaseInv, TypeOK
<1>2. ~ spilled
    BY ZenonT(60) DEF Next, vars, Edit, DataPlaneReload, history, Request, Step, Crash,
       Lookup, ReadSnapshot, Restore, ResetSequences, AcquireLock,
       GenerateConfig, WriteSideFiles, ValidateConfigText, TruncateConfig,
       WriteConfig, WriteApplied, BuildSnapshot, TruncateSnapshot,
       WriteSnapshot, InsertRow, PruneSnapshots, PruneBeyond, Push, Unlock, Repush, Reload
<1>3. /\ \A s \in Snapshots : Cardinality(KeptIn(s.rows)) <= MaxKeep
      /\ Cardinality(KeptIn(rows))
           <= IF Pruning THEN MaxKeep + 1 ELSE MaxKeep
    BY <1>2 DEF KeptInv
<1>4. \A s \in Snapshots' : Cardinality(KeptIn(s.rows)) <= MaxKeep
  <2>1. CASE Snapshots' \subseteq Snapshots \cup {EmptySnapshot}
    <3>1. KeptIn(EmptySnapshot.rows) = {}
        BY DEF KeptIn, EmptySnapshot
    <3>2. Cardinality(KeptIn(EmptySnapshot.rows)) <= MaxKeep
        BY <1>1, <3>1, FS_EmptySet
    <3> QED  BY <1>3, <2>1, <3>2
  <2>2. ASSUME NEW th \in Threads, BuildSnapshot(th),
               Snapshots' \subseteq Snapshots \cup {[db |-> db, rows |-> rows]}
        PROVE  \A s \in Snapshots' : Cardinality(KeptIn(s.rows)) <= MaxKeep
    <3>1. ~ Pruning
        BY <1>1, <2>2, PruningAlone DEF BuildSnapshot, Held
    <3>2. Cardinality(KeptIn(rows)) <= MaxKeep
        BY <1>3, <3>1
    <3> QED  BY <1>3, <2>2, <3>2
  <2> QED  BY <1>1, <2>1, <2>2, SnapshotsCopied
<1>5. Cardinality(KeptIn(rows')) <= IF Pruning' THEN MaxKeep + 1 ELSE MaxKeep
  <2>1. CASE rows' = rows /\ \A th \in Threads : ~ PruneSnapshots(th)
    <3>1. Pruning => Pruning'
        BY <1>1, <2>1, PruningLasts
    <3>2. Cardinality(KeptIn(rows)) \in Nat
        BY <1>1, KeptFinite
    <3> QED  BY <1>1, <1>3, <2>1, <3>1, <3>2
  <2>2. ASSUME NEW th \in Threads, rows' = snap[th].rows
        PROVE  Cardinality(KeptIn(rows'))
                 <= IF Pruning' THEN MaxKeep + 1 ELSE MaxKeep
    <3>1. snap[th] \in Snapshots /\ snap[th].rows \in SUBSET Row
        BY <1>1 DEF Snapshots, TypeOK, Snapshot
    <3>2. Cardinality(KeptIn(rows')) <= MaxKeep
        BY <1>3, <2>2, <3>1
    <3>3. Cardinality(KeptIn(rows')) \in Nat
        BY <2>2, <3>1, KeptFinite
    <3> QED  BY <1>1, <3>2, <3>3
  <2>3. ASSUME NEW th \in Threads, InsertRow(th), pc'[th] = "prune",
               rows' = rows \cup {[id |-> nextId, at |-> source[th],
                                   kept |-> TRUE]}
        PROVE  Cardinality(KeptIn(rows'))
                 <= IF Pruning' THEN MaxKeep + 1 ELSE MaxKeep
    <3> DEFINE new == [id |-> nextId, at |-> source[th], kept |-> TRUE]
    <3>1. ~ Pruning
        BY <1>1, <2>3, PruningAlone DEF InsertRow, Held
    <3>2. Pruning'
        BY <2>3 DEF Pruning
    <3>3. KeptIn(rows') = KeptIn(rows) \cup {new}
        BY <2>3 DEF KeptIn
    <3>4. IsFiniteSet(KeptIn(rows)) /\ Cardinality(KeptIn(rows)) \in Nat
        BY <1>1, KeptFinite
    <3>5. Cardinality(KeptIn(rows'))
            = IF new \in KeptIn(rows) THEN Cardinality(KeptIn(rows))
              ELSE Cardinality(KeptIn(rows)) + 1
        BY <3>3, <3>4, FS_AddElement
    <3> HIDE DEF new
    <3> QED  BY <1>1, <1>3, <3>1, <3>2, <3>4, <3>5
  <2>4. ASSUME NEW th \in Threads, PruneSnapshots(th)
        PROVE  Cardinality(KeptIn(rows'))
                 <= IF Pruning' THEN MaxKeep + 1 ELSE MaxKeep
    <3>1. Cardinality(KeptIn(rows')) <= MaxKeep
        BY <2>4, PrunedAreFew
    <3>2. Cardinality(KeptIn(rows')) \in Nat
      <4>1. rows' \in SUBSET Row
        <5>1. Listed(rows, NewestListed, IdsGiven)
            BY DEF BaseInv, RowsInv
        <5> QED  BY <2>4, <5>1, PrunedListed DEF Listed
      <4> QED  BY <4>1, KeptFinite
    <3> QED  BY <1>1, <3>1, <3>2
  <2> QED  BY <1>1, <2>1, <2>2, <2>3, <2>4, RowsChange
<1> QED  BY <1>4, <1>5

\* Between operations at most max_snapshots rows claim a dated file, whatever
\* was restored, as long as no pruning was skipped or cut short.
THEOREM KeptBoundedCorrect == Spec => []KeptBounded
<1>1. Init => KeptInv
  <2> SUFFICES ASSUME Init PROVE KeptInv
      OBVIOUS
  <2>1. \A s \in Snapshots : s = EmptySnapshot
      BY Markers DEF Init, Snapshots
  <2>2. KeptIn({}) = {}
      BY DEF KeptIn
  <2>3. Cardinality(KeptIn({})) = 0
      BY <2>2, FS_EmptySet
  <2>4. ~ Pruning
      BY DEF Init, Pruning
  <2>5. \A s \in Snapshots : s.rows = {}
      BY <2>1 DEF EmptySnapshot
  <2>6. rows = {} /\ MaxKeep \in Nat
      BY KeepAssumption DEF Init
  <2> QED  BY <2>3, <2>4, <2>5, <2>6 DEF KeptInv
<1>2. BaseInv /\ KeptInv => KeptBounded
  <2> SUFFICES ASSUME BaseInv, KeptInv, lock = None, ~ spilled
               PROVE  Cardinality({r \in rows : r.kept}) <= MaxKeep
      BY DEF KeptBounded
  <2>1. ~ Pruning
      BY Markers DEF BaseInv, LockInv, Held, Pruning
  <2> QED  BY <2>1 DEF KeptInv, KeptIn
<1> QED  BY <1>1, <1>2, KeptInductive, BaseInvariant, PTL DEF Spec
=============================================================================
