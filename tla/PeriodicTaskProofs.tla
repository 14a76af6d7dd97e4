------------------------- MODULE PeriodicTaskProofs -------------------------
(***************************************************************************)
(* Proofs about PeriodicTask for every interval.                           *)
(***************************************************************************)
EXTENDS PeriodicTask, TLAPS

\* A tick of the clock makes an age one older, or leaves it at the bound.
LEMMA OlderAge ==
    ASSUME NEW a \in Age
    PROVE  /\ Older(a) \in Age
           /\ a # Never => /\ Older(a) # Never
                           /\ Older(a) = IF a < MaxAge THEN a + 1 ELSE MaxAge
           /\ a = Never => Older(a) = Never
           /\ \A b \in Age : a # Never /\ b # Never /\ a >= b => Older(a) >= Older(b)
BY IntervalAssumption, NeverAssumption DEF Older, Age, MaxAge

\* Every step of a PeriodicTask thread, of its restarts, of a restored settings
\* table and of the clock keeps the inductive invariant.
LEMMA Inductive == IInv /\ [Next]_vars => IInv'
<1> SUFFICES ASSUME IInv, [Next]_vars PROVE IInv'
    OBVIOUS
<1> USE IntervalAssumption, NeverAssumption DEF IInv, TypeOK, MaxAge, Age
<1>1. CASE Start
    BY <1>1 DEF Start, Old, WaitInv
<1>2. CASE Remaining
    BY <1>2 DEF Remaining, Old, WaitInv
<1>3. CASE RunTick
  <2>0. files' \in BOOLEAN /\ failed' \in BOOLEAN
      BY <1>3, Zenon DEF RunTick
  <2>1. TypeOK'
      BY <1>3, <2>0 DEF RunTick
  <2>2. WaitInv'
      BY <1>3 DEF RunTick, WaitInv
  <2> QED  BY <2>1, <2>2
<1>4. CASE RemainingOver
    BY <1>4 DEF RemainingOver, WaitInv
<1>5. CASE IntervalOver
    BY <1>5 DEF IntervalOver, WaitInv
<1>6. CASE Stop
    BY <1>6 DEF Stop, WaitInv
<1>7. CASE RestoreStamp
    BY <1>7 DEF RestoreStamp, WaitInv
<1>8. CASE LoseFiles
    BY <1>8 DEF LoseFiles, WaitInv
<1>9. CASE Clock
  <2>1. TypeOK'
      BY <1>9, OlderAge DEF Clock
  <2>2. age' # Never => age' = IF age < MaxAge THEN age + 1 ELSE MaxAge
      BY <1>9, OlderAge DEF Clock
  <2>3. recent' # Never => recent' = IF recent < MaxAge THEN recent + 1 ELSE MaxAge
      BY <1>9, OlderAge DEF Clock
  <2>4. (age = Never <=> age' = Never) /\ (recent = Never <=> recent' = Never)
      BY <1>9, OlderAge DEF Clock
  <2>5. WaitInv'
    <3>1. CASE pc \in {"down", "ended"}
        BY <1>9, <3>1, <2>2, <2>3, <2>4 DEF Clock, WaitInv
    <3>2. CASE pc \in {"remaining", "interval"} /\ timer > 0
        BY <1>9, <3>2, <2>2, <2>3, <2>4 DEF Clock, WaitInv
    <3> QED  BY <1>9, <3>1, <3>2 DEF Clock
  <2> QED  BY <2>1, <2>5
<1>10. CASE UNCHANGED vars
    BY <1>10 DEF vars, WaitInv
<1> QED
    BY <1>1, <1>2, <1>3, <1>4, <1>5, <1>6, <1>7, <1>8, <1>9, <1>10 DEF Next

\* The inductive invariant of the scheduler holds in every reachable state: the
\* wait that is left and the time since the last run add up to the schedule,
\* although reverts change the stamp, and no stamp is younger than that run.
THEOREM WaitsCorrect == Spec => []IInv
<1>1. Init => TypeOK
  <2>1. Init => failed \in BOOLEAN
      BY Zenon DEF Init
  <2> QED
      BY <2>1, IntervalAssumption DEF Init, TypeOK, Age, MaxAge
<1>2. Init => WaitInv
    BY DEF Init, WaitInv
<1> QED
    BY <1>1, <1>2, Inductive, PTL DEF Spec, IInv

\* The ages, the thread's step and its timer stay within their ranges, whatever
\* stops, failures, restored tables and lost files do to a PeriodicTask.
THEOREM TypeCorrect == Spec => []TypeOK
<1>1. IInv => TypeOK
    BY DEF IInv
<1> QED
    BY <1>1, WaitsCorrect, PTL

\* No restart, failed run, restored table or lost file makes _run begin a run
\* while the stamp is younger than the interval and its files are there.
THEOREM NoRedundantRunCorrect == Spec => NoRedundantRun
<1> DEFINE Due == pc # "tick" /\ pc' = "tick" => Old \/ ~files
<1>1. IInv /\ [Next]_vars => [Due]_vars
  <2> SUFFICES ASSUME IInv, Next, pc # "tick", pc' = "tick"
               PROVE  Old \/ ~files
      OBVIOUS
  <2>1. Start \/ IntervalOver
      BY DEF Next, Start, Remaining, RunTick, RemainingOver, IntervalOver, Stop,
             RestoreStamp, LoseFiles, Clock
  <2>2. CASE Start
      BY <2>2 DEF Start
  <2>3. CASE IntervalOver
      BY <2>3, IntervalAssumption, NeverAssumption
         DEF IntervalOver, IInv, TypeOK, Age, MaxAge, WaitInv, Old
  <2> QED  BY <2>1, <2>2, <2>3
<1> QED
    BY <1>1, WaitsCorrect, PTL DEF Spec, NoRedundantRun

\* Without failed runs _run never lets the last run be more than two intervals
\* ago while its thread waits, whatever becomes of the stamp.
THEOREM LateByOneIntervalCorrect == Spec => []LateByOneInterval
<1>1. IInv => LateByOneInterval
    BY IntervalAssumption, NeverAssumption
       DEF IInv, TypeOK, Age, MaxAge, WaitInv, LateByOneInterval
<1> QED
    BY <1>1, WaitsCorrect, PTL
=============================================================================
