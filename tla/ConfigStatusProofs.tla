------------------------- MODULE ConfigStatusProofs -------------------------
(***************************************************************************)
(* Proofs about ConfigStatus: type correctness, and that an invalidation   *)
(* which could not take the lock is not lost.                              *)
(***************************************************************************)
EXTENDS ConfigStatus, TLAPS

\* The initial state of the status cache is well typed.
LEMMA TypeAtInit == Init => TypeOK
<1> SUFFICES ASSUME Init PROVE TypeOK
  OBVIOUS
<1>1. 0 \in Version
  BY MaxVersionAssumption DEF Version
<1>2. pc \in [Threads -> PollerPC \cup MutatorPC]
  BY DEF Init, PollerPC
<1>3. \A t \in Threads : pc[t] \in PollerPC /\ pc[t] \in MutatorPC
  BY DEF Init, PollerPC, MutatorPC
<1>4. QED
  BY <1>1, <1>2, <1>3 DEF Init, TypeOK, Threads

\* One step of get_config_status keeps the types.
LEMMA PollTypes ==
    ASSUME TypeOK, NEW p \in Pollers, Poll(p)
    PROVE  TypeOK'
<1> USE TTLAssumption, MaxVersionAssumption, ThreadsAssumption, NoneAssumption
<1> USE DEF TypeOK, Version, Threads, PollerPC, MutatorPC, Goto
<1>start. CASE StartPoll(p) BY <1>start DEF StartPoll
<1>fast. CASE FastPath(p) BY <1>fast DEF FastPath, Usable, Entry
<1>lock. CASE AcquireLock(p) BY <1>lock DEF AcquireLock
<1>recheck. CASE Recheck(p) BY <1>recheck DEF Recheck, Usable, Entry
<1>flag. CASE ClearFlag(p) BY <1>flag DEF ClearFlag
<1>gen. CASE Generate(p) BY <1>gen DEF Generate
<1>raise. CASE GenerateRaises(p) BY <1>raise DEF GenerateRaises
<1>dirty. CASE CheckDirty(p) BY <1>dirty DEF CheckDirty
<1>undirty. CASE DropDirty(p) BY <1>undirty DEF DropDirty
<1>drop. CASE DropCache(p) BY <1>drop DEF DropCache
<1>put. CASE PutCache(p)
  <2>entry. cache' \in Entry
    BY <1>put DEF PutCache, Entry
  <2> QED BY <1>put, <2>entry DEF PutCache
<1>free. CASE Release(p) BY <1>free DEF Release
<1> QED
  BY <1>start, <1>fast, <1>lock, <1>recheck, <1>flag, <1>gen, <1>raise, <1>dirty,
     <1>undirty, <1>drop, <1>put, <1>free DEF Poll

\* A configuration change and one step of invalidate_config_status keep them.
LEMMA InvalidateTypes ==
    ASSUME TypeOK, NEW m \in Mutators, Commit(m) \/ Invalidate(m)
    PROVE  TypeOK'
<1> USE TTLAssumption, MaxVersionAssumption, ThreadsAssumption, NoneAssumption
<1> USE DEF TypeOK, Version, Threads, PollerPC, MutatorPC, Goto
<1>commit. CASE Commit(m) BY <1>commit DEF Commit
<1>dirty. CASE SetDirty(m) BY <1>dirty DEF SetDirty
<1>try. CASE TryLock(m) BY <1>try DEF TryLock, Larger
<1>clear. CASE ClearCache(m) BY <1>clear DEF ClearCache
<1>undirty. CASE ClearDirty(m) BY <1>undirty DEF ClearDirty
<1>unlock. CASE Unlock(m) BY <1>unlock DEF Unlock, Larger
<1> QED
  BY <1>commit, <1>dirty, <1>try, <1>clear, <1>undirty, <1>unlock DEF Invalidate

\* So do a change nobody announces and the passing of time, hence every step.
LEMMA TypeStep ==
    ASSUME TypeOK, [Next]_vars
    PROVE  TypeOK'
<1>time. ASSUME Tick PROVE TypeOK'
  <2>older. \A e \in Entry \cup {None} : Older(e) \in Entry \cup {None}
    BY TTLAssumption, NoneAssumption DEF Older, Entry, Version
  <2> QED
    BY <1>time, <2>older DEF Tick, TypeOK, Threads
<1>silent. ASSUME CommitUnannounced PROVE TypeOK'
  BY <1>silent, MaxVersionAssumption DEF CommitUnannounced, TypeOK, Version, Threads
<1>stutter. ASSUME UNCHANGED vars PROVE TypeOK'
  BY <1>stutter DEF TypeOK, vars
<1> QED
  BY <1>time, <1>silent, <1>stutter, PollTypes, InvalidateTypes DEF Next

\* Every variable of the status cache keeps its type.
THEOREM TypeCorrect == Spec => []TypeOK
<1> QED
  BY TypeAtInit, TypeStep, PTL DEF Spec

-----------------------------------------------------------------------------
(* The inductive step, one lemma per actor.                                *)

\* A step of get_config_status preserves the inductive invariant.
LEMMA PollStep ==
    ASSUME IInv, TypeOK', NEW p \in Pollers, Poll(p)
    PROVE  IInv'
<1> USE TTLAssumption, MaxVersionAssumption, ThreadsAssumption, NoneAssumption
<1> USE DEF IInv, TypeOK, Version, Threads, PollerPC, MutatorPC, Goto
<1>1. CASE StartPoll(p)
  <2>1. LockInv' BY <1>1 DEF StartPoll, LockInv, HoldsLock
  <2>2. BoundInv' BY <1>1 DEF StartPoll, BoundInv
  <2>3. EmptyInv' BY <1>1 DEF StartPoll, EmptyInv, LockInv, HoldsLock
  <2>4. GenInv' BY <1>1 DEF StartPoll, GenInv, Known, BoundInv, LockInv, HoldsLock
  <2>5. CacheInv' BY <1>1 DEF StartPoll, CacheInv, Known, Regenerating, BoundInv, EmptyInv, GenInv, LockInv, HoldsLock
  <2>6. QED BY <2>1, <2>2, <2>3, <2>4, <2>5
<1>2. CASE FastPath(p)
  <2>1. LockInv' BY <1>2 DEF FastPath, LockInv, HoldsLock, Usable
  <2>2. BoundInv' BY <1>2 DEF FastPath, BoundInv, Usable
  <2>3. EmptyInv' BY <1>2 DEF FastPath, EmptyInv, LockInv, HoldsLock, Usable
  <2>4. GenInv' BY <1>2 DEF FastPath, GenInv, Known, BoundInv, LockInv, HoldsLock, Usable
  <2>5. CacheInv' BY <1>2 DEF FastPath, CacheInv, Known, Regenerating, BoundInv, EmptyInv, GenInv, LockInv, HoldsLock, Usable
  <2>6. QED BY <2>1, <2>2, <2>3, <2>4, <2>5
<1>3. CASE AcquireLock(p)
  <2>1. LockInv' BY <1>3 DEF AcquireLock, LockInv, HoldsLock
  <2>2. BoundInv' BY <1>3 DEF AcquireLock, BoundInv
  <2>3. EmptyInv' BY <1>3 DEF AcquireLock, EmptyInv, LockInv, HoldsLock
  <2>4. GenInv' BY <1>3 DEF AcquireLock, GenInv, Known, BoundInv, LockInv, HoldsLock
  <2>5. CacheInv' BY <1>3 DEF AcquireLock, CacheInv, Known, Regenerating, BoundInv, EmptyInv, GenInv, LockInv, HoldsLock
  <2>6. QED BY <2>1, <2>2, <2>3, <2>4, <2>5
<1>4. CASE Recheck(p)
  <2>1. LockInv' BY <1>4 DEF Recheck, LockInv, HoldsLock, Usable
  <2>2. BoundInv' BY <1>4 DEF Recheck, BoundInv, Usable
  <2>3. EmptyInv' BY <1>4 DEF Recheck, EmptyInv, LockInv, HoldsLock, Usable
  <2>4. GenInv' BY <1>4 DEF Recheck, GenInv, Known, BoundInv, LockInv, HoldsLock, Usable
  <2>5. CacheInv' BY <1>4 DEF Recheck, CacheInv, Known, Regenerating, BoundInv, EmptyInv, GenInv, LockInv, HoldsLock, Usable
  <2>6. QED BY <2>1, <2>2, <2>3, <2>4, <2>5
<1>5. CASE ClearFlag(p)
  <2>1. LockInv' BY <1>5 DEF ClearFlag, LockInv, HoldsLock
  <2>2. BoundInv' BY <1>5 DEF ClearFlag, BoundInv
  <2>3. EmptyInv' BY <1>5 DEF ClearFlag, EmptyInv, LockInv, HoldsLock
  <2>4. GenInv' BY <1>5 DEF ClearFlag, GenInv, Known, BoundInv, LockInv, HoldsLock
  <2>5. CacheInv' BY <1>5 DEF ClearFlag, CacheInv, Known, Regenerating, BoundInv, EmptyInv, GenInv, LockInv, HoldsLock
  <2>6. QED BY <2>1, <2>2, <2>3, <2>4, <2>5
<1>6. CASE Generate(p)
  <2>1. LockInv' BY <1>6 DEF Generate, LockInv, HoldsLock
  <2>2. BoundInv' BY <1>6 DEF Generate, BoundInv
  <2>3. EmptyInv' BY <1>6 DEF Generate, EmptyInv, LockInv, HoldsLock
  <2>4. GenInv' BY <1>6 DEF Generate, GenInv, Known, BoundInv, LockInv, HoldsLock
  <2>5. CacheInv' BY <1>6 DEF Generate, CacheInv, Known, Regenerating, BoundInv, EmptyInv, GenInv, LockInv, HoldsLock
  <2>6. QED BY <2>1, <2>2, <2>3, <2>4, <2>5
<1>7. CASE GenerateRaises(p)
  <2>1. LockInv' BY <1>7 DEF GenerateRaises, LockInv, HoldsLock
  <2>2. BoundInv' BY <1>7 DEF GenerateRaises, BoundInv
  <2>3. EmptyInv' BY <1>7 DEF GenerateRaises, EmptyInv, LockInv, HoldsLock
  <2>4. GenInv' BY <1>7 DEF GenerateRaises, GenInv, Known, BoundInv, LockInv, HoldsLock
  <2>5. CacheInv' BY <1>7 DEF GenerateRaises, CacheInv, Known, Regenerating, BoundInv, EmptyInv, GenInv, LockInv, HoldsLock
  <2>6. QED BY <2>1, <2>2, <2>3, <2>4, <2>5
<1>8. CASE CheckDirty(p)
  <2>1. LockInv' BY <1>8 DEF CheckDirty, LockInv, HoldsLock
  <2>2. BoundInv' BY <1>8 DEF CheckDirty, BoundInv
  <2>3. EmptyInv' BY <1>8 DEF CheckDirty, EmptyInv, LockInv, HoldsLock
  <2>4. GenInv' BY <1>8 DEF CheckDirty, GenInv, Known, BoundInv, LockInv, HoldsLock
  <2>5. CacheInv' BY <1>8 DEF CheckDirty, CacheInv, Known, Regenerating, BoundInv, EmptyInv, GenInv, LockInv, HoldsLock
  <2>6. QED BY <2>1, <2>2, <2>3, <2>4, <2>5
<1>9. CASE DropDirty(p)
  <2>1. LockInv' BY <1>9 DEF DropDirty, LockInv, HoldsLock
  <2>2. BoundInv' BY <1>9 DEF DropDirty, BoundInv
  <2>3. EmptyInv' BY <1>9 DEF DropDirty, EmptyInv, LockInv, HoldsLock
  <2>4. GenInv' BY <1>9 DEF DropDirty, GenInv, Known, BoundInv, LockInv, HoldsLock
  <2>5. CacheInv' BY <1>9 DEF DropDirty, CacheInv, Known, Regenerating, BoundInv, EmptyInv, GenInv, LockInv, HoldsLock
  <2>6. QED BY <2>1, <2>2, <2>3, <2>4, <2>5
<1>10. CASE DropCache(p)
  <2>1. LockInv' BY <1>10 DEF DropCache, LockInv, HoldsLock
  <2>2. BoundInv' BY <1>10 DEF DropCache, BoundInv
  <2>3. EmptyInv' BY <1>10 DEF DropCache, EmptyInv, LockInv, HoldsLock
  <2>4. GenInv' BY <1>10 DEF DropCache, GenInv, Known, BoundInv, LockInv, HoldsLock
  <2>5. CacheInv' BY <1>10 DEF DropCache, CacheInv, Known, Regenerating, BoundInv, EmptyInv, GenInv, LockInv, HoldsLock
  <2>6. QED BY <2>1, <2>2, <2>3, <2>4, <2>5
<1>11. CASE PutCache(p)
  <2>1. LockInv' BY <1>11 DEF PutCache, LockInv, HoldsLock, Entry
  <2>2. BoundInv' BY <1>11 DEF PutCache, BoundInv, Entry
  <2>3. EmptyInv' BY <1>11 DEF PutCache, EmptyInv, LockInv, HoldsLock, Entry
  <2>4. GenInv' BY <1>11 DEF PutCache, GenInv, Known, BoundInv, LockInv, HoldsLock, Entry
  <2>5. CacheInv' BY <1>11 DEF PutCache, CacheInv, Known, Regenerating, BoundInv, EmptyInv, GenInv, LockInv, HoldsLock, Entry
  <2>6. QED BY <2>1, <2>2, <2>3, <2>4, <2>5
<1>12. CASE Release(p)
  <2>1. LockInv' BY <1>12 DEF Release, LockInv, HoldsLock
  <2>2. BoundInv' BY <1>12 DEF Release, BoundInv
  <2>3. EmptyInv' BY <1>12 DEF Release, EmptyInv, LockInv, HoldsLock
  <2>4. GenInv' BY <1>12 DEF Release, GenInv, Known, BoundInv, LockInv, HoldsLock
  <2>5. CacheInv' BY <1>12 DEF Release, CacheInv, Known, Regenerating, BoundInv, EmptyInv, GenInv, LockInv, HoldsLock
  <2>6. QED BY <2>1, <2>2, <2>3, <2>4, <2>5
<1>20. QED
  BY <1>1, <1>2, <1>3, <1>4, <1>5, <1>6, <1>7, <1>8, <1>9, <1>10, <1>11, <1>12
  DEF Poll

\* A configuration change or a step of invalidate_config_status preserves the
\* inductive invariant.
LEMMA InvalidateStep ==
    ASSUME IInv, TypeOK', NEW m \in Mutators, Commit(m) \/ Invalidate(m)
    PROVE  IInv'
<1> USE TTLAssumption, MaxVersionAssumption, ThreadsAssumption, NoneAssumption
<1> USE DEF IInv, TypeOK, Version, Threads, PollerPC, MutatorPC, Goto
<1>1. CASE Commit(m)
  <2>1. LockInv' BY <1>1 DEF Commit, LockInv, HoldsLock
  <2>2. BoundInv' BY <1>1 DEF Commit, BoundInv
  <2>3. EmptyInv' BY <1>1 DEF Commit, EmptyInv, LockInv, HoldsLock
  <2>4. GenInv' BY <1>1 DEF Commit, GenInv, Known, BoundInv, LockInv, HoldsLock
  <2>5. CacheInv' BY <1>1 DEF Commit, CacheInv, Known, Regenerating, BoundInv, EmptyInv, GenInv, LockInv, HoldsLock
  <2>6. QED BY <2>1, <2>2, <2>3, <2>4, <2>5
<1>2. CASE SetDirty(m)
  <2>1. LockInv' BY <1>2 DEF SetDirty, LockInv, HoldsLock
  <2>2. BoundInv' BY <1>2 DEF SetDirty, BoundInv
  <2>3. EmptyInv' BY <1>2 DEF SetDirty, EmptyInv, LockInv, HoldsLock
  <2>4. GenInv' BY <1>2 DEF SetDirty, GenInv, Known, BoundInv, LockInv, HoldsLock
  <2>5. CacheInv' BY <1>2 DEF SetDirty, CacheInv, Known, Regenerating, BoundInv, EmptyInv, GenInv, LockInv, HoldsLock
  <2>6. QED BY <2>1, <2>2, <2>3, <2>4, <2>5
<1>3. CASE TryLock(m)
  <2>1. LockInv' BY <1>3 DEF TryLock, LockInv, HoldsLock, Larger
  <2>2. BoundInv' BY <1>3 DEF TryLock, BoundInv, Larger
  <2>3. EmptyInv' BY <1>3 DEF TryLock, EmptyInv, LockInv, HoldsLock, Larger
  <2>4. GenInv' BY <1>3 DEF TryLock, GenInv, Known, BoundInv, LockInv, HoldsLock, Larger
  <2>5. CacheInv' BY <1>3 DEF TryLock, CacheInv, Known, Regenerating, BoundInv, EmptyInv, GenInv, LockInv,
       HoldsLock, Larger
  <2>6. QED BY <2>1, <2>2, <2>3, <2>4, <2>5
<1>4. CASE ClearCache(m)
  <2>1. LockInv' BY <1>4 DEF ClearCache, LockInv, HoldsLock
  <2>2. BoundInv' BY <1>4 DEF ClearCache, BoundInv
  <2>3. EmptyInv' BY <1>4 DEF ClearCache, EmptyInv, LockInv, HoldsLock
  <2>4. GenInv' BY <1>4 DEF ClearCache, GenInv, Known, BoundInv, LockInv, HoldsLock
  <2>5. CacheInv' BY <1>4 DEF ClearCache, CacheInv, Known, Regenerating, BoundInv, EmptyInv, GenInv, LockInv, HoldsLock
  <2>6. QED BY <2>1, <2>2, <2>3, <2>4, <2>5
<1>5. CASE ClearDirty(m)
  <2>1. LockInv' BY <1>5 DEF ClearDirty, LockInv, HoldsLock
  <2>2. BoundInv' BY <1>5 DEF ClearDirty, BoundInv
  <2>3. EmptyInv' BY <1>5 DEF ClearDirty, EmptyInv, LockInv, HoldsLock
  <2>4. GenInv' BY <1>5 DEF ClearDirty, GenInv, Known, BoundInv, LockInv, HoldsLock
  <2>5. CacheInv' BY <1>5 DEF ClearDirty, CacheInv, Known, Regenerating, BoundInv, EmptyInv, GenInv, LockInv, HoldsLock
  <2>6. QED BY <2>1, <2>2, <2>3, <2>4, <2>5
<1>6. CASE Unlock(m)
  <2>1. LockInv' BY <1>6 DEF Unlock, LockInv, HoldsLock, Larger
  <2>2. BoundInv' BY <1>6 DEF Unlock, BoundInv, Larger
  <2>3. EmptyInv' BY <1>6 DEF Unlock, EmptyInv, LockInv, HoldsLock, Larger
  <2>4. GenInv' BY <1>6 DEF Unlock, GenInv, Known, BoundInv, LockInv, HoldsLock, Larger
  <2>5. CacheInv' BY <1>6 DEF Unlock, CacheInv, Known, Regenerating, BoundInv, EmptyInv, GenInv, LockInv,
       HoldsLock, Larger
  <2>6. QED BY <2>1, <2>2, <2>3, <2>4, <2>5
<1>20. QED
  BY <1>1, <1>2, <1>3, <1>4, <1>5, <1>6 DEF Invalidate

-----------------------------------------------------------------------------

\* Nothing is cached and nobody holds the lock when the first worker starts.
LEMMA InvAtInit == ASSUME Init PROVE IInv
<1>types. TypeOK
  BY TypeAtInit
<1>lock. LockInv
  BY ThreadsAssumption DEF Init, LockInv, HoldsLock
<1>rest. BoundInv /\ EmptyInv /\ GenInv /\ CacheInv
  BY <1>types DEF Init, Threads, BoundInv, EmptyInv, GenInv, CacheInv
<1> QED
  BY <1>types, <1>lock, <1>rest DEF IInv

\* An unannounced change only moves the version forward.
LEMMA SilentCommitStep == ASSUME IInv, TypeOK', CommitUnannounced PROVE IInv'
<1> USE MaxVersionAssumption, NoneAssumption DEF IInv
<1>bound. BoundInv'
  BY DEF CommitUnannounced, BoundInv, TypeOK, Version
<1>rest. LockInv' /\ EmptyInv' /\ GenInv' /\ CacheInv'
  BY DEF CommitUnannounced, LockInv, HoldsLock, EmptyInv, GenInv,
         CacheInv, Known, Regenerating
<1> QED BY <1>bound, <1>rest

\* An entry that ages keeps the version it was computed from, or expires.
LEMMA AgeStep == ASSUME IInv, TypeOK', Tick PROVE IInv'
<1> USE MaxVersionAssumption, NoneAssumption DEF IInv
<1>same. cache' # None => cache # None /\ cache'.ver = cache.ver
  BY DEF Tick, Older, TypeOK, Entry
<1>cache. CacheInv'
  BY <1>same DEF Tick, CacheInv, Known, Regenerating
<1>empty. EmptyInv'
  BY DEF Tick, EmptyInv, Older
<1>rest. LockInv' /\ BoundInv' /\ GenInv'
  BY DEF Tick, LockInv, HoldsLock, BoundInv, GenInv, Known
<1> QED BY <1>cache, <1>empty, <1>rest

\* No step of any actor breaks the inductive invariant.
LEMMA InductiveStep == ASSUME IInv, [Next]_vars PROVE IInv'
<1>types. TypeOK'
  BY TypeStep DEF IInv
<1>stutter. ASSUME UNCHANGED vars PROVE IInv'
  BY <1>stutter, <1>types DEF IInv, vars, TypeOK, LockInv, HoldsLock, BoundInv, EmptyInv,
                 GenInv, CacheInv, Known, Regenerating
<1> QED
  BY <1>types, <1>stutter, PollStep, InvalidateStep, SilentCommitStep, AgeStep DEF Next

\* The inductive invariant of the status cache holds in every reachable state.
THEOREM InductiveInvariant == Spec => []IInv
<1> QED
  BY InvAtInit, InductiveStep, PTL DEF Spec

\* The non-blocking invalidate_config_status loses no change: once the lock is
\* free and the dirty flag is down, the cached flag was computed after every
\* change whose invalidation has returned.
THEOREM SettledFreshCorrect == Spec => []SettledFresh
<1>1. IInv => SettledFresh
  BY ThreadsAssumption DEF IInv, SettledFresh, CacheInv, LockInv, HoldsLock, Known,
         Regenerating, TypeOK, Threads
<1>2. QED
  BY <1>1, InductiveInvariant, PTL

=============================================================================
