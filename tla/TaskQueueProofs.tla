-------------------------- MODULE TaskQueueProofs ---------------------------
(***************************************************************************)
(* Proofs about TaskQueue for any number of tasks and workers.             *)
(*                                                                         *)
(* What lets a thread run a task is one of three things: the request that  *)
(* has not queued it yet, its item in the list, and a thread that has not  *)
(* begun the work.  Left(t) counts them, as a lost reply of LPUSH doubles  *)
(* the first; together with the runs so far they never exceed Limit.       *)
(***************************************************************************)
EXTENDS TaskQueue, TLAPS

\* The groups of variables are only ways to write UNCHANGED.
USE DEF requests, cert, history

Before == {"begin", "start", "work", "check", "generate"}

Limit == IF "reply" \in Faults THEN 2 ELSE 1

InQueue(t) == \E i \in 1 .. Len(queue) : queue[i] = t

DirectLeft(t) ==
    IF pc[<<t, "direct">>] = "enqueue" THEN Limit
    ELSE IF pc[<<t, "direct">>] \in Before THEN 1 ELSE 0
QueueLeft(t) == IF InQueue(t) THEN 1 ELSE 0
QueuedLeft(t) == IF pc[<<t, "queued">>] \in Before THEN 1 ELSE 0

Left(t) == DirectLeft(t) + QueueLeft(t) + QueuedLeft(t)

\* The types without the bound of runs, which takes RunsInv to show.
TypeInv ==
    /\ row \in [Tasks -> Unfinished \cup Terminal \cup {"absent", "deleted"}]
    /\ queue \in Seq(Tasks)
    /\ valkeyUp \in BOOLEAN
    /\ cancelKey \subseteq Tasks
    /\ local \in [Workers -> SUBSET Tasks]
    /\ up \in [Workers -> BOOLEAN]
    /\ leads \subseteq {w \in Workers : up[w]}
    /\ pc \in [Threads -> {"none", "enqueue", "begin", "start", "work",
                           "check", "generate", "refresh", "recheck",
                           "finish"}]
    /\ at \in [Threads -> Workers]
    /\ result \in [Threads -> {"success", "failed"}]
    /\ cancel \in [Tasks -> [step : {"idle", "read", "write"},
                             worker : Workers]]
    /\ deletion \in [step : {"idle", "cancel", "read", "write", "files"},
                     worker : Workers, todo : SUBSET Tasks, rows : SUBSET Tasks,
                     task : Tasks \cup {0}]
    /\ deletion.step \in {"read", "write"} => deletion.task \in Tasks
    /\ poll \in [worker : Workers, task : Tasks \cup {0}]
    /\ certRow \in BOOLEAN
    /\ certFile \in BOOLEAN
    /\ runs \in [Tasks -> Nat]
    /\ issued \subseteq Issue
    /\ acked \subseteq Tasks
    /\ stranded \subseteq Tasks

\* acme.sh is run for issue_certificate tasks only.
IssueInv ==
    \A th \in Threads : pc[th] \in {"check", "generate"} => th[1] \in Issue

\* No item is in the list twice.
ListedOnce ==
    \A i, j \in 1 .. Len(queue) : queue[i] = queue[j] => i = j

RunsInv ==
    \A t \in Tasks : /\ runs[t] + Left(t) <= Limit
                     /\ row[t] = "absent" => runs[t] + Left(t) = 0

\* The four are inductive together.
QueueInv == TypeInv /\ IssueInv /\ ListedOnce /\ RunsInv

\* A step takes nothing back that was done of t and adds no way to run it.
NoMore(t) ==
    /\ runs'[t] + Left(t)' <= runs[t] + Left(t)
    /\ row'[t] = "absent" => row[t] = "absent"

-----------------------------------------------------------------------------

\* What is left to run of a task is a number.
LEMMA LeftType ==
    ASSUME TypeInv, NEW t \in Tasks
    PROVE  /\ DirectLeft(t) \in 0 .. 2 /\ QueueLeft(t) \in 0 .. 1
           /\ QueuedLeft(t) \in 0 .. 1 /\ Left(t) \in 0 .. 4
           /\ runs[t] \in Nat
<1>1. DirectLeft(t) \in 0 .. 2
    BY DEF DirectLeft, Limit, Before
<1>2. QueueLeft(t) \in 0 .. 1 /\ QueuedLeft(t) \in 0 .. 1
    BY DEF QueueLeft, QueuedLeft
<1>3. runs[t] \in Nat
    BY DEF TypeInv
<1> QED  BY <1>1, <1>2, <1>3 DEF Left

\* One thread moves within, out of or after the steps before the work, and
\* the list is left alone: nothing is added for any task.
LEMMA MoveAddsNothing ==
    ASSUME TypeInv, NEW th \in Threads, NEW t \in Tasks,
           NEW label,
           pc' = [pc EXCEPT ![th] = label],
           pc[th] # "enqueue",
           label \in Before => pc[th] \in Before,
           label # "enqueue",
           UNCHANGED queue
    PROVE  Left(t)' <= Left(t)
<1>1. <<t, "direct">> \in Threads /\ <<t, "queued">> \in Threads
    BY DEF Threads
<1>2. QueueLeft(t)' = QueueLeft(t)
    BY DEF QueueLeft, InQueue
<1>3. /\ pc'[<<t, "direct">>] = IF th = <<t, "direct">> THEN label
                                ELSE pc[<<t, "direct">>]
      /\ pc'[<<t, "queued">>] = IF th = <<t, "queued">> THEN label
                                ELSE pc[<<t, "queued">>]
    BY <1>1 DEF TypeInv
<1>4. DirectLeft(t)' <= DirectLeft(t) /\ QueuedLeft(t)' <= QueuedLeft(t)
    BY <1>3 DEF DirectLeft, QueuedLeft, Limit
<1>5. /\ QueueLeft(t) \in 0 .. 1
      /\ DirectLeft(t) \in 0 .. 2 /\ DirectLeft(t)' \in 0 .. 2
      /\ QueuedLeft(t) \in 0 .. 1 /\ QueuedLeft(t)' \in 0 .. 1
    BY DEF QueueLeft, DirectLeft, QueuedLeft, Before, Limit
<1> QED  BY <1>2, <1>4, <1>5 DEF Left

\* The step that begins the work takes one of the ways to run the task away.
LEMMA WorkTakesOne ==
    ASSUME TypeInv, NEW th \in Threads, NEW label,
           pc' = [pc EXCEPT ![th] = label],
           pc[th] \in Before, label \notin Before, label # "enqueue",
           UNCHANGED queue
    PROVE  Left(th[1])' + 1 = Left(th[1])
<1>1. PICK t \in Tasks, k \in {"direct", "queued"} : th = <<t, k>>
    BY DEF Threads
<1>2. <<t, "direct">> \in Threads /\ <<t, "queued">> \in Threads
    BY DEF Threads
<1>3. th[1] = t
    BY <1>1
<1>4. QueueLeft(t)' = QueueLeft(t)
    BY DEF QueueLeft, InQueue
<1>5. CASE k = "direct"
  <2>1. DirectLeft(t) = 1 /\ DirectLeft(t)' = 0
      BY <1>1, <1>2, <1>5 DEF DirectLeft, TypeInv, Before
  <2>2. QueuedLeft(t)' = QueuedLeft(t)
      BY <1>1, <1>2, <1>5 DEF QueuedLeft, TypeInv, Before
  <2> QED  BY <1>3, <1>4, <2>1, <2>2 DEF Left, QueueLeft, QueuedLeft
<1>6. CASE k = "queued"
  <2>1. QueuedLeft(t) = 1 /\ QueuedLeft(t)' = 0
      BY <1>1, <1>2, <1>6 DEF QueuedLeft, TypeInv, Before
  <2>2. DirectLeft(t)' = DirectLeft(t)
      BY <1>1, <1>2, <1>6 DEF DirectLeft, TypeInv, Before
  <2>3. DirectLeft(t) \in 0 .. 2
      BY DEF DirectLeft, Limit
  <2> QED  BY <1>3, <1>4, <2>1, <2>2, <2>3 DEF Left, QueueLeft
<1> QED  BY <1>1, <1>5, <1>6

-----------------------------------------------------------------------------

\* Clearing a flag leaves sets of tasks.
LEMMA ClearTyped ==
    ASSUME TypeInv, NEW t \in Tasks, NEW w \in Workers, ClearCancelled(t, w)
    PROVE  local' \in [Workers -> SUBSET Tasks] /\ cancelKey' \subseteq Tasks
BY DEF ClearCancelled, TypeInv

\* A thread that goes to a known step, or gives up, leaves pc well typed.
LEMMA GotoTyped ==
    ASSUME TypeInv, NEW th \in Threads,
           NEW label \in {"none", "enqueue", "begin", "start", "work", "check",
                          "generate", "refresh", "recheck", "finish"},
           Goto(th, label)
    PROVE  pc' \in [Threads -> {"none", "enqueue", "begin", "start", "work",
                                "check", "generate", "refresh", "recheck",
                                "finish"}]
BY DEF Goto, TypeInv

\* Every step of a task's thread leaves a well-typed state.
LEMMA RunTaskTyped ==
    ASSUME TypeInv, IssueInv, NEW th \in Threads, RunTask(th)
    PROVE  TypeInv'
<1>1. PICK t \in Tasks : t = th[1]
    BY DEF Threads
<1>2. at[th] \in Workers
    BY DEF TypeInv
<1> USE <1>1
<1>3. ASSUME Abandon(th)
      PROVE  /\ row' \in [Tasks -> Unfinished \cup Terminal
                                      \cup {"absent", "deleted"}]
             /\ local' \in [Workers -> SUBSET Tasks]
             /\ cancelKey' \subseteq Tasks
             /\ Goto(th, "none")
    BY <1>2, <1>3, ClearTyped DEF Abandon, SetStatus, TypeInv, Terminal
<1>4. CASE Begin(th)
  <2>1. CASE Abandon(th)
      BY <1>3, <1>4, <2>1, GotoTyped DEF Begin, TypeInv
  <2>2. CASE ~Abandon(th)
      BY <1>4, <2>2, GotoTyped DEF Begin, TypeInv
  <2> QED  BY <2>1, <2>2
<1>5. CASE SetRunning(th)
    BY <1>5 DEF SetRunning, SetStatus, Goto, Unfinished, Terminal, TypeInv
<1>6. CASE Work(th)
    BY <1>6 DEF Work, Goto, TypeInv
<1>7. CASE CheckCert(th)
  <2>1. result' \in [Threads -> {"success", "failed"}]
      BY <1>7 DEF CheckCert, TypeInv
  <2>2. CASE Abandon(th)
      BY <1>3, <1>7, <2>1, <2>2, GotoTyped DEF CheckCert, TypeInv
  <2>3. CASE ~Abandon(th)
    <3>1. \E label \in {"none", "generate", "finish"} : Goto(th, label)
        BY <1>7, <2>3 DEF CheckCert
    <3>2. UNCHANGED <<row, local, cancelKey>>
        BY <1>7, <2>3 DEF CheckCert
    <3> QED  BY <1>7, <2>1, <3>1, <3>2, GotoTyped DEF CheckCert, TypeInv
  <2> QED  BY <2>2, <2>3
<1>8. CASE Generate(th)
  <2>1. certFile' \in BOOLEAN
      BY <1>8, Zenon DEF Generate, TypeInv
  <2>2. result' \in [Threads -> {"success", "failed"}]
      BY <1>8 DEF Generate, TypeInv
  <2>3. issued' \subseteq Issue
    <3>1. t \in Issue
        BY <1>8 DEF Generate, IssueInv
    <3> QED  BY <1>8, <3>1 DEF Generate, TypeInv
  <2>4. \E label \in {"recheck", "finish", "refresh", "none"} : Goto(th, label)
      BY <1>8 DEF Generate
  <2>5. stranded' \subseteq Tasks
      BY <1>8 DEF Generate, TypeInv
  <2>6. UNCHANGED <<row, queue, valkeyUp, cancelKey, local, up, leads, at, requests,
                    certRow, acked>>
      BY <1>8 DEF Generate
  <2>7. runs' \in [Tasks -> Nat]
      BY <1>8 DEF Generate, TypeInv
  <2> QED
      BY <2>1, <2>2, <2>3, <2>4, <2>5, <2>6, <2>7, GotoTyped DEF TypeInv
<1>9. CASE Refresh(th)
    BY <1>9 DEF Refresh, Goto, TypeInv
<1>10. CASE Recheck(th)
  <2>1. certFile' \in BOOLEAN
      BY <1>10, Zenon DEF Recheck, TypeInv
  <2>2. \E label \in {"none", "finish"} : Goto(th, label)
      BY <1>10 DEF Recheck
  <2>3. local' \in [Workers -> SUBSET Tasks] /\ cancelKey' \subseteq Tasks
      BY <1>2, <1>10, ClearTyped DEF Recheck, TypeInv
  <2> QED  BY <1>10, <2>1, <2>2, <2>3, GotoTyped DEF Recheck, TypeInv
<1>11. CASE Finish(th)
    BY <1>11 DEF Finish, SetStatus, Goto, Unfinished, Terminal, TypeInv
<1> QED
    BY <1>4, <1>5, <1>6, <1>7, <1>8, <1>9, <1>10, <1>11 DEF RunTask

\* So does every other step.
LEMMA OthersTyped ==
    ASSUME TypeInv, [Next]_vars, ~ \E th \in Threads : RunTask(th)
    PROVE  TypeInv'
<1> USE LeaderAssumption DEF TypeInv, Goto, SetStatus
<1>1. ASSUME NEW t \in Tasks, NEW w \in Workers, QueueTask(t, w)
      PROVE  TypeInv'
    BY <1>1 DEF QueueTask, Unfinished
<1>2. ASSUME NEW t \in Tasks, NEW w \in Workers, CancelTask(t, w)
      PROVE  TypeInv'
    BY <1>2 DEF CancelTask, FlagCancelled
<1>3. ASSUME NEW t \in Tasks, Enqueue(t) PROVE TypeInv'
  <2>1. queue' \in Seq(Tasks)
    <3>1. queue' = Append(queue, t) \/ queue' = queue
        BY <1>3 DEF Enqueue
    <3>2. Append(queue, t) \in Seq(Tasks)
        OBVIOUS
    <3> QED  BY <3>1, <3>2
  <2>2. <<t, "direct">> \in Threads
      BY DEF Threads
  <2>3. \E label \in {"none", "begin"} : Goto(<<t, "direct">>, label)
      BY <1>3 DEF Enqueue
  <2>4. pc' \in [Threads -> {"none", "enqueue", "begin", "start", "work", "check",
                             "generate", "refresh", "recheck", "finish"}]
      BY <2>2, <2>3, GotoTyped
  <2>5. UNCHANGED <<row, valkeyUp, cancelKey, local, up, leads, at, result, requests,
                    cert, history>>
      BY <1>3 DEF Enqueue
  <2> QED  BY <2>1, <2>4, <2>5
<1>4. ASSUME NEW t \in Tasks, CancelRead(t) PROVE TypeInv'
  <2>1. \/ cancel' = [cancel EXCEPT ![t].step = "write"]
        \/ cancel' = [cancel EXCEPT ![t] = NoCancel]
      BY <1>4 DEF CancelRead
  <2>2. UNCHANGED <<row, queue, valkeyUp, cancelKey, local, up, leads, pc, at, result,
                    deletion, poll, cert, history>>
      BY <1>4 DEF CancelRead
  <2>3. cancel' \in [Tasks -> [step : {"idle", "read", "write"}, worker : Workers]]
    <3>1. CASE cancel' = [cancel EXCEPT ![t].step = "write"]
        BY <3>1
    <3>2. CASE cancel' = [cancel EXCEPT ![t] = NoCancel]
        BY <3>2 DEF NoCancel
    <3> QED  BY <2>1, <3>1, <3>2
  <2> QED  BY <2>2, <2>3
<1>5. ASSUME NEW t \in Tasks, CancelWrite(t) PROVE TypeInv'
    BY <1>5 DEF CancelWrite, CommitCancelled, NoCancel, Terminal
<1>6. ASSUME NEW t \in Tasks, DeleteCancel(t) PROVE TypeInv'
    BY <1>6 DEF DeleteCancel, FlagCancelled
<1>7. ASSUME NEW t \in Tasks, ExpireCancelKey(t) PROVE TypeInv'
    BY <1>7 DEF ExpireCancelKey
<1>8. ASSUME NEW w \in Workers, DeleteCert(w) PROVE TypeInv'
    BY <1>8, TasksAssumption DEF DeleteCert
<1>9. ASSUME NEW w \in Workers, Crash(w) PROVE TypeInv'
  <2>1. stranded' \subseteq Tasks
      BY <1>9 DEF Crash, InHands
  <2>2. leads' \subseteq {v \in Workers : up'[v]}
      BY <1>9 DEF Crash
  <2>3. pc' \in [Threads -> {"none", "enqueue", "begin", "start", "work", "check",
                             "generate", "refresh", "recheck", "finish"}]
      BY <1>9 DEF Crash
  <2>4. cancel' \in [Tasks -> [step : {"idle", "read", "write"}, worker : Workers]]
      BY <1>9 DEF Crash, NoCancel
  <2>5. deletion' = deletion \/ deletion' = NoDeletion
      BY <1>9 DEF Crash
  <2>6. poll' \in [worker : Workers, task : Tasks \cup {0}]
      BY <1>9 DEF Crash, NoPoll
  <2>7. UNCHANGED <<row, queue, valkeyUp, cancelKey, at, result, cert, runs, issued,
                    acked>>
      BY <1>9 DEF Crash
  <2>8. local' \in [Workers -> SUBSET Tasks] /\ up' \in [Workers -> BOOLEAN]
      BY <1>9 DEF Crash
  <2> QED
      BY <2>1, <2>2, <2>3, <2>4, <2>5, <2>6, <2>7, <2>8 DEF NoDeletion
<1>10. ASSUME NEW w \in Workers, Restart(w) PROVE TypeInv'
  <2>1. leads' \subseteq {v \in Workers : up'[v]}
      BY <1>10 DEF Restart, Lead
  <2>2. row' \in [Tasks -> Unfinished \cup Terminal \cup {"absent", "deleted"}]
      BY <1>10 DEF Restart, Lead, Reconciled, Terminal
  <2>3. UNCHANGED queue /\ stranded' \subseteq Tasks
      BY <1>10 DEF Restart, Lead
  <2> QED  BY <1>10, <2>1, <2>2, <2>3 DEF Restart
<1>11. ASSUME NEW w \in Workers, Dequeue(w) PROVE TypeInv'
  <2>1. queue' \in Seq(Tasks) /\ Head(queue) \in Tasks
      BY <1>11 DEF Dequeue
  <2>2. <<Head(queue), "queued">> \in Threads
      BY <2>1 DEF Threads
  <2> QED  BY <1>11, <2>1, <2>2, GotoTyped DEF Dequeue
<1>12. ASSUME NEW w \in Workers, DequeueLost(w) PROVE TypeInv'
  <2>1. queue' \in Seq(Tasks) /\ Head(queue) \in Tasks
      BY <1>12 DEF DequeueLost
  <2> QED  BY <1>12, <2>1 DEF DequeueLost
<1>13. CASE DeleteRead
    BY <1>13 DEF DeleteRead
<1>14. CASE DeleteWrite
    BY <1>14 DEF DeleteWrite, CommitCancelled, Terminal
<1>15. CASE DeleteCommit
    BY <1>15 DEF DeleteCommit
<1>16. CASE DeleteFiles
    BY <1>16 DEF DeleteFiles, NoDeletion
<1>17. ASSUME NEW w \in Workers, PollRead(w) PROVE TypeInv'
    BY <1>17, TasksAssumption DEF PollRead
<1>18. CASE PollWrite
    BY <1>18 DEF PollWrite, NoPoll, Terminal
<1>19. CASE ValkeyGoes \/ ValkeyReturns
  <2>1. UNCHANGED <<row, queue, cancelKey, local, up, leads, pc, at, result, requests,
                    cert, history>>
      BY <1>19 DEF ValkeyGoes, ValkeyReturns
  <2>2. valkeyUp' \in BOOLEAN
      BY <1>19, Zenon DEF ValkeyGoes, ValkeyReturns
  <2> QED  BY <2>1, <2>2
<1>20. CASE UNCHANGED vars
    BY <1>20 DEF vars
<1> HIDE DEF TypeInv
<1> QED
    BY <1>1, <1>2, <1>3, <1>4, <1>5, <1>6, <1>7, <1>8, <1>9, <1>10, <1>11,
       <1>12, <1>13, <1>14, <1>15, <1>16, <1>17, <1>18, <1>19, <1>20 DEF Next

\* What a step does to the threads, the list and the runs: one of these, or nothing.
LEMMA StepKinds ==
    ASSUME [Next]_vars
    PROVE  \/ \E th \in Threads : RunTask(th)
           \/ \E t \in Tasks, w \in Workers : QueueTask(t, w)
           \/ \E t \in Tasks : Enqueue(t)
           \/ \E w \in Workers : Dequeue(w) \/ DequeueLost(w) \/ Crash(w)
           \/ UNCHANGED <<pc, queue, runs>>
<1>1. ASSUME NEW t \in Tasks, NEW w \in Workers, CancelTask(t, w)
      PROVE  UNCHANGED <<pc, queue, runs>>
    BY <1>1 DEF CancelTask
<1>2. ASSUME NEW t \in Tasks, CancelRead(t) \/ CancelWrite(t) \/ DeleteCancel(t)
                                \/ ExpireCancelKey(t)
      PROVE  UNCHANGED <<pc, queue, runs>>
    BY <1>2 DEF CancelRead, CancelWrite, DeleteCancel, ExpireCancelKey
<1>3. ASSUME NEW w \in Workers, DeleteCert(w) \/ PollRead(w) \/ Restart(w)
      PROVE  UNCHANGED <<pc, queue, runs>>
    BY <1>3 DEF DeleteCert, PollRead, Restart, Lead
<1>4. CASE DeleteRead \/ DeleteWrite \/ DeleteCommit \/ DeleteFiles \/ PollWrite
    BY <1>4 DEF DeleteRead, DeleteWrite, DeleteCommit, DeleteFiles, PollWrite
<1>5. CASE ValkeyGoes \/ ValkeyReturns \/ UNCHANGED vars
    BY <1>5 DEF ValkeyGoes, ValkeyReturns, vars
<1> QED  BY <1>1, <1>2, <1>3, <1>4, <1>5 DEF Next

\* A row is inserted by queue_task, and never taken back; a deletion marks those that
\* it has listed.
LEMMA RowsStay ==
    ASSUME TypeInv, [Next]_vars
    PROVE  \/ \E t \in Tasks, w \in Workers : QueueTask(t, w)
           \/ \A t \in Tasks : row'[t] = "absent" <=> row[t] = "absent"
           \/ DeleteCommit /\ \A t \in Tasks : row'[t] = "absent" => row[t] = "absent"
<1> USE DEF TypeInv
<1> DEFINE Kept == \A t \in Tasks : row'[t] = "absent" <=> row[t] = "absent"
<1>0. ASSUME NEW s, NEW status \in Terminal \cup {"running"}, SetStatus(s, status)
      PROVE  Kept
    BY <1>0 DEF SetStatus, Exists, Terminal
<1>1. ASSUME NEW th \in Threads, RunTask(th) PROVE Kept
  <2>1. row' = row \/ \E status \in Terminal \cup {"running"} :
                                          SetStatus(th[1], status)
      BY <1>1 DEF RunTask, Begin, Abandon, SetRunning, Work, CheckCert, Generate,
             Refresh, Recheck, Finish, Terminal
  <2> QED  BY <1>0, <2>1
<1>2. ASSUME NEW t \in Tasks, NEW w \in Workers, CancelTask(t, w)
      PROVE  Kept
    BY <1>2 DEF CancelTask
<1>3. ASSUME NEW t \in Tasks, Enqueue(t) \/ CancelRead(t) \/ DeleteCancel(t)
                                \/ ExpireCancelKey(t)
      PROVE  Kept
    BY <1>3 DEF Enqueue, CancelRead, DeleteCancel, ExpireCancelKey
<1>4. ASSUME NEW t \in Tasks, CancelWrite(t) PROVE Kept
    BY <1>0, <1>4 DEF CancelWrite, CommitCancelled, Terminal
<1>5. ASSUME NEW w \in Workers, Dequeue(w) \/ DequeueLost(w) \/ DeleteCert(w)
                                  \/ PollRead(w) \/ Crash(w)
      PROVE  Kept
    BY <1>5 DEF Dequeue, DequeueLost, DeleteCert, PollRead, Crash
<1>6. ASSUME NEW w \in Workers, Restart(w) PROVE Kept
  <2>1. ASSUME NEW t \in Tasks PROVE Reconciled(t) = "absent" <=> row[t] = "absent"
      BY DEF Reconciled, Unfinished
  <2> QED  BY <1>6, <2>1 DEF Restart, Lead
<1>7. ASSUME DeleteRead \/ DeleteFiles \/ ValkeyGoes \/ ValkeyReturns \/ UNCHANGED vars
      PROVE  Kept
    BY <1>7 DEF DeleteRead, DeleteFiles, ValkeyGoes, ValkeyReturns, vars
<1>8. ASSUME DeleteWrite PROVE Kept
    BY <1>0, <1>8 DEF DeleteWrite, CommitCancelled, Terminal
<1>9. ASSUME PollWrite PROVE Kept
    BY <1>0, <1>9 DEF PollWrite, Terminal
<1>10. CASE DeleteCommit
    BY <1>10 DEF DeleteCommit
<1> HIDE DEF TypeInv, Kept
<1> QED
  <2>1. \/ \E t \in Tasks, w \in Workers : QueueTask(t, w)
        \/ Kept \/ DeleteCommit
      BY <1>1, <1>2, <1>3, <1>4, <1>5, <1>6, <1>7, <1>8, <1>9 DEF Next
  <2> QED  BY <1>10, <2>1 DEF Kept

\* A thread comes to acme.sh only by the branch for issue_certificate.
LEMMA IssueKept ==
    ASSUME TypeInv, IssueInv, [Next]_vars
    PROVE  IssueInv'
<1> SUFFICES ASSUME NEW th \in Threads, pc'[th] \in {"check", "generate"}
             PROVE  th[1] \in Issue
    BY DEF IssueInv
<1> USE DEF TypeInv, IssueInv, Goto
<1>1. CASE pc'[th] = pc[th]
    BY <1>1
<1>2. CASE pc'[th] # pc[th]
  <2>1. ASSUME NEW t \in Tasks, NEW w \in Workers, QueueTask(t, w)
        PROVE  FALSE
      BY <1>2, <2>1 DEF QueueTask, Threads
  <2>2. ASSUME NEW t \in Tasks, Enqueue(t) PROVE FALSE
      BY <1>2, <2>2 DEF Enqueue, Threads
  <2>3. ASSUME NEW w \in Workers, Dequeue(w) PROVE FALSE
      BY <1>2, <2>3 DEF Dequeue, Threads
  <2>4. ASSUME NEW w \in Workers, Crash(w) \/ DequeueLost(w) PROVE FALSE
      BY <1>2, <2>4 DEF Crash, DequeueLost
  <2>5. ASSUME NEW h \in Threads, RunTask(h) PROVE th[1] \in Issue
    <3>1. CASE SetRunning(h)
        BY <1>2, <3>1 DEF SetRunning
    <3>2. CASE CheckCert(h)
        BY <1>2, <3>2 DEF CheckCert, Abandon
    <3>3. CASE Begin(h) \/ Work(h) \/ Generate(h)
        BY <1>2, <3>3 DEF Begin, Abandon, Work, Generate
    <3>4. CASE Refresh(h) \/ Recheck(h) \/ Finish(h)
        BY <1>2, <3>4 DEF Refresh, Recheck, Finish
    <3> QED  BY <2>5, <3>1, <3>2, <3>3, <3>4 DEF RunTask
  <2>6. CASE UNCHANGED pc
      BY <1>2, <2>6
  <2> QED  BY <2>1, <2>2, <2>3, <2>4, <2>5, <2>6, StepKinds
<1> QED  BY <1>1, <1>2

-----------------------------------------------------------------------------

\* Steps that add no way to run a task, and take back no run, keep RunsInv.
LEMMA NoMoreKeeps ==
    ASSUME TypeInv, TypeInv', RunsInv, \A t \in Tasks : NoMore(t)
    PROVE  RunsInv'
<1> SUFFICES ASSUME NEW t \in Tasks
             PROVE  /\ (runs[t] + Left(t) <= Limit)'
                    /\ (row[t] = "absent" => runs[t] + Left(t) = 0)'
    BY DEF RunsInv, Limit
<1>1. runs[t] \in Nat /\ Left(t) \in 0 .. 4
    BY LeftType
<1>2. runs'[t] \in Nat /\ Left(t)' \in 0 .. 4
  <2>1. runs'[t] \in Nat
      BY DEF TypeInv
  <2> QED  BY <2>1 DEF Left, DirectLeft, QueueLeft, QueuedLeft, Limit
<1>3. NoMore(t)
    OBVIOUS
<1> QED
    BY <1>1, <1>2, <1>3 DEF NoMore, RunsInv, Limit

\* Every step of a task's thread: the work is counted as it begins, and
\* nothing leads back to a step before it.
LEMMA RunTaskNoMore ==
    ASSUME QueueInv, NEW th \in Threads, RunTask(th), NEW t \in Tasks
    PROVE  NoMore(t)
<1> USE DEF QueueInv
<1>0. runs[t] \in Nat /\ Left(t) \in 0 .. 4
    BY LeftType
<1>1. row'[t] = "absent" => row[t] = "absent"
  <2>1. row' = row \/ \E status \in Terminal \cup {"running"} :
                                          SetStatus(th[1], status)
      BY DEF RunTask, Begin, Abandon, SetRunning, Work, CheckCert, Generate,
             Refresh, Recheck, Finish, Terminal, TypeInv
  <2> QED  BY <2>1 DEF SetStatus, TypeInv, Exists, Terminal
<1>2. UNCHANGED queue
    BY DEF RunTask, Begin, SetRunning, Work, CheckCert, Generate, Refresh,
           Recheck, Finish
<1>3. ASSUME UNCHANGED runs, NEW label, Goto(th, label), pc[th] # "enqueue",
             label # "enqueue", label \in Before => pc[th] \in Before
      PROVE  NoMore(t)
  <2>1. Left(t)' <= Left(t)
      BY <1>2, <1>3, MoveAddsNothing DEF Goto
  <2>2. Left(t)' \in 0 .. 4
      BY DEF Left, DirectLeft, QueueLeft, QueuedLeft, Limit
  <2> QED  BY <1>0, <1>1, <1>3, <2>1, <2>2 DEF NoMore
<1>4. ASSUME runs' = [runs EXCEPT ![th[1]] = @ + 1],
             NEW label \in {"finish", "recheck", "refresh", "none"},
             Goto(th, label), pc[th] \in {"work", "generate"}
      PROVE  NoMore(t)
  <2>1. /\ label \notin Before /\ label # "enqueue"
        /\ pc[th] \in Before /\ pc[th] # "enqueue"
      BY <1>4 DEF Before
  <2>2. Left(t)' <= Left(t)
      BY <1>2, <1>4, <2>1, MoveAddsNothing DEF Goto
  <2>3. Left(th[1])' + 1 = Left(th[1])
      BY <1>2, <1>4, <2>1, WorkTakesOne DEF Goto
  <2>4. Left(t)' \in 0 .. 4
      BY DEF Left, DirectLeft, QueueLeft, QueuedLeft, Limit
  <2>5. runs'[t] = IF t = th[1] THEN runs[t] + 1 ELSE runs[t]
      BY <1>4 DEF TypeInv
  <2> QED  BY <1>0, <1>1, <2>2, <2>3, <2>4, <2>5 DEF NoMore
<1>5. CASE Begin(th)
  <2>1. \E label \in {"none", "start"} : Goto(th, label)
      BY <1>5 DEF Begin, Abandon
  <2> QED  BY <1>3, <1>5, <2>1 DEF Begin, Before
<1>6. CASE SetRunning(th)
  <2>1. \E label \in {"none", "check", "work"} : Goto(th, label)
      BY <1>6 DEF SetRunning
  <2> QED  BY <1>3, <1>6, <2>1 DEF SetRunning, Before
<1>7. CASE Work(th)
    BY <1>4, <1>7 DEF Work
<1>8. CASE CheckCert(th)
  <2>1. \E label \in {"none", "generate", "finish"} : Goto(th, label)
      BY <1>8 DEF CheckCert, Abandon
  <2> QED  BY <1>3, <1>8, <2>1 DEF CheckCert, Before
<1>9. CASE Generate(th)
  <2>1. \E label \in {"finish", "recheck", "refresh", "none"} : Goto(th, label)
      BY <1>9 DEF Generate
  <2> QED  BY <1>4, <1>9, <2>1 DEF Generate
<1>10. CASE Refresh(th) \/ Recheck(th) \/ Finish(th)
  <2>1. \E label \in {"none", "recheck", "finish"} : Goto(th, label)
      BY <1>10 DEF Refresh, Recheck, Finish
  <2> QED  BY <1>3, <1>10, <2>1 DEF Refresh, Recheck, Finish, Before
<1> QED
    BY <1>5, <1>6, <1>7, <1>8, <1>9, <1>10 DEF RunTask

\* A new task has one way to run, or two where a reply may be lost: the request.
LEMMA QueueTaskKeeps ==
    ASSUME QueueInv, TypeInv', NEW s \in Tasks, NEW w \in Workers,
           QueueTask(s, w)
    PROVE  ListedOnce' /\ RunsInv'
<1> USE DEF QueueInv
<1>1. ListedOnce'
    BY DEF QueueTask, ListedOnce
<1>2. ASSUME NEW t \in Tasks
      PROVE  /\ (runs[t] + Left(t) <= Limit)'
             /\ (row[t] = "absent" => runs[t] + Left(t) = 0)'
  <2>1. QueueLeft(t)' = QueueLeft(t) /\ runs'[t] = runs[t]
      BY DEF QueueTask, QueueLeft, InQueue
  <2>2. /\ <<t, "direct">> \in Threads /\ <<t, "queued">> \in Threads
        /\ <<s, "direct">> \in Threads
      BY DEF Threads
  <2>3. pc'[<<t, "queued">>] = pc[<<t, "queued">>]
      BY <2>2 DEF QueueTask, Goto, TypeInv
  <2>4. QueuedLeft(t)' = QueuedLeft(t)
      BY <2>3 DEF QueuedLeft
  <2>5. CASE s = t
    <3>1. row'[t] = "pending" /\ runs[t] + Left(t) = 0
        BY <2>5 DEF QueueTask, TypeInv, RunsInv
    <3>2. DirectLeft(t)' = Limit
        BY <2>2, <2>5 DEF QueueTask, Goto, TypeInv, DirectLeft, Limit
    <3>3. runs[t] = 0 /\ QueueLeft(t) = 0 /\ QueuedLeft(t) = 0
        BY <3>1, LeftType DEF Left
    <3> QED  BY <2>1, <2>4, <3>1, <3>2, <3>3 DEF Left, Limit
  <2>6. CASE s # t
    <3>1. row'[t] = row[t] /\ pc'[<<t, "direct">>] = pc[<<t, "direct">>]
        BY <2>2, <2>6 DEF QueueTask, Goto, TypeInv
    <3>2. DirectLeft(t)' = DirectLeft(t)
        BY <3>1 DEF DirectLeft, Limit
    <3> QED  BY <2>1, <2>4, <3>1, <3>2 DEF Left, RunsInv, Limit
  <2> QED  BY <2>5, <2>6
<1> QED  BY <1>1, <1>2 DEF RunsInv

\* The request becomes an item, or a thread of its own, or both where the reply
\* may be lost.
LEMMA EnqueueKeeps ==
    ASSUME QueueInv, TypeInv', NEW s \in Tasks, Enqueue(s)
    PROVE  ListedOnce' /\ RunsInv'
<1> USE DEF QueueInv
<1>1. /\ runs[s] \in Nat
      /\ QueueLeft(s) \in 0 .. 1 /\ QueuedLeft(s) \in 0 .. 1
    BY LeftType
<1>2. /\ \A t \in Tasks, k \in {"direct", "queued"} : <<t, k>> \in Threads
      /\ pc[<<s, "direct">>] = "enqueue"
    BY DEF Enqueue, Threads
<1>3. /\ DirectLeft(s) = Limit
      /\ runs[s] = 0 /\ QueueLeft(s) = 0 /\ QueuedLeft(s) = 0
  <2>1. DirectLeft(s) = Limit
      BY <1>2 DEF DirectLeft
  <2> QED  BY <1>1, <2>1 DEF RunsInv, Left, Limit
<1>4. queue' = queue \/ queue' = Append(queue, s)
    BY DEF Enqueue
<1>5. ListedOnce'
  <2>1. CASE queue' = queue
      BY <2>1 DEF ListedOnce
  <2>2. CASE queue' = Append(queue, s)
    <3>1. \A i \in 1 .. Len(queue) : queue[i] # s
        BY <1>3 DEF QueueLeft, InQueue
    <3>2. /\ Len(queue') = Len(queue) + 1 /\ queue'[Len(queue) + 1] = s
          /\ \A i \in 1 .. Len(queue) : queue'[i] = queue[i]
          /\ Len(queue) \in Nat
        BY <2>2 DEF TypeInv
    <3> QED  BY <3>1, <3>2 DEF ListedOnce
  <2> QED  BY <1>4, <2>1, <2>2
<1>6. ASSUME NEW t \in Tasks PROVE row'[t] = row[t] /\ runs'[t] = runs[t]
    BY DEF Enqueue
<1>7. ASSUME NEW t \in Tasks, t # s PROVE Left(t)' = Left(t)
  <2>1. \A k \in {"direct", "queued"} : pc'[<<t, k>>] = pc[<<t, k>>]
    <3>1. \E label : pc' = [pc EXCEPT ![<<s, "direct">>] = label]
        BY DEF Enqueue, Goto
    <3>2. /\ <<t, "direct">> # <<s, "direct">>
          /\ <<t, "queued">> # <<s, "direct">>
          /\ <<t, "direct">> \in Threads /\ <<t, "queued">> \in Threads
        BY <1>2, <1>7
    <3> QED  BY <3>1, <3>2 DEF TypeInv
  <2>2. QueueLeft(t)' = QueueLeft(t)
    <3>1. InQueue(t)' <=> InQueue(t)
      <4>1. CASE queue' = queue
          BY <4>1 DEF InQueue
      <4>2. CASE queue' = Append(queue, s)
        <5>1. /\ Len(queue') = Len(queue) + 1 /\ queue'[Len(queue) + 1] = s
              /\ \A i \in 1 .. Len(queue) : queue'[i] = queue[i]
              /\ Len(queue) \in Nat
            BY <4>2 DEF TypeInv
        <5> QED  BY <1>7, <5>1 DEF InQueue
      <4> QED  BY <1>4, <4>1, <4>2
    <3> QED  BY <3>1 DEF QueueLeft
  <2> QED  BY <2>1, <2>2 DEF Left, DirectLeft, QueuedLeft, Limit
<1>8. Left(s)' <= Limit
  <2>1. QueuedLeft(s)' = 0
    <3>1. pc'[<<s, "queued">>] = pc[<<s, "queued">>]
        BY <1>2 DEF Enqueue, Goto, TypeInv
    <3> QED  BY <1>3, <3>1 DEF QueuedLeft
  <2>2. \/ pc'[<<s, "direct">>] = "none"
        \/ pc'[<<s, "direct">>] = "begin" /\ queue' = queue
        \/ pc'[<<s, "direct">>] = "begin" /\ "reply" \in Faults
    <3>1. \/ Goto(<<s, "direct">>, "none")
          \/ Goto(<<s, "direct">>, "begin") /\ queue' = queue
          \/ Goto(<<s, "direct">>, "begin") /\ "reply" \in Faults
        BY DEF Enqueue
    <3>2. ASSUME NEW label, Goto(<<s, "direct">>, label)
          PROVE  pc'[<<s, "direct">>] = label
        BY <1>2, <3>2 DEF Goto, TypeInv
    <3> QED  BY <3>1, <3>2
  <2>3. queue' = queue => QueueLeft(s)' = 0
      BY <1>3 DEF QueueLeft, InQueue
  <2> QED
      BY <2>1, <2>2, <2>3 DEF Left, DirectLeft, QueueLeft, Before, Limit
<1>9. row[s] # "absent"
    BY <1>3 DEF RunsInv, Left, Limit
<1>10. RunsInv'
  <2> SUFFICES ASSUME NEW t \in Tasks
               PROVE  /\ (runs[t] + Left(t) <= Limit)'
                      /\ (row[t] = "absent" => runs[t] + Left(t) = 0)'
      BY DEF RunsInv
  <2>1. CASE t = s
    <3>1. Left(s)' \in 0 .. 4
        BY DEF Left, DirectLeft, QueueLeft, QueuedLeft, Limit
    <3> QED  BY <1>3, <1>6, <1>8, <1>9, <2>1, <3>1 DEF Limit
  <2>2. CASE t # s
      BY <1>6, <1>7, <2>2 DEF RunsInv, Limit
  <2> QED  BY <2>1, <2>2
<1> QED  BY <1>5, <1>10

\* The head of the list becomes a thread and is in the list no longer.
LEMMA DequeueKeeps ==
    ASSUME QueueInv, TypeInv', NEW w \in Workers, Dequeue(w)
    PROVE  ListedOnce' /\ RunsInv'
<1> USE DEF QueueInv
<1> DEFINE s == Head(queue)
<1>1. /\ s \in Tasks /\ s = queue[1]
      /\ Len(queue) \in Nat /\ 1 \in 1 .. Len(queue)
      /\ Len(queue') = Len(queue) - 1
      /\ \A i \in 1 .. Len(queue') : queue'[i] = queue[i + 1]
    BY DEF Dequeue, TypeInv
<1>2. \A t \in Tasks, k \in {"direct", "queued"} : <<t, k>> \in Threads
    BY DEF Threads
<1>3. ListedOnce'
    BY <1>1 DEF ListedOnce
<1>4. pc' = [pc EXCEPT ![<<s, "queued">>] = "begin"]
    BY DEF Dequeue, Goto
<1> HIDE DEF s
<1>5. ASSUME NEW t \in Tasks PROVE NoMore(t)
  <2>1. row'[t] = row[t] /\ runs'[t] = runs[t] /\ runs[t] \in Nat
      BY DEF Dequeue, TypeInv
  <2>2. /\ Left(t) \in 0 .. 4
        /\ QueueLeft(t) \in 0 .. 1 /\ QueuedLeft(t) \in 0 .. 1
        /\ DirectLeft(t) \in 0 .. 2
      BY LeftType
  <2>3. DirectLeft(t)' = DirectLeft(t)
    <3>1. pc'[<<t, "direct">>] = pc[<<t, "direct">>]
        BY <1>1, <1>2, <1>4 DEF TypeInv
    <3> QED  BY <3>1 DEF DirectLeft, Limit
  <2>4. CASE t = s
    <3>1. QueueLeft(t) = 1
        BY <1>1, <2>4 DEF QueueLeft, InQueue
    <3>2. QueueLeft(t)' = 0
      <4>1. \A i \in 1 .. Len(queue') : queue'[i] # queue[1]
          BY <1>1 DEF ListedOnce
      <4> QED  BY <1>1, <2>4, <4>1 DEF QueueLeft, InQueue
    <3>3. QueuedLeft(t)' <= 1 /\ QueuedLeft(t)' \in Nat
        BY DEF QueuedLeft
    <3> QED  BY <2>1, <2>2, <2>3, <3>1, <3>2, <3>3 DEF NoMore, Left
  <2>5. CASE t # s
    <3>1. QueuedLeft(t)' = QueuedLeft(t)
      <4>1. pc'[<<t, "queued">>] = pc[<<t, "queued">>]
          BY <1>1, <1>2, <1>4, <2>5 DEF TypeInv
      <4> QED  BY <4>1 DEF QueuedLeft
    <3>2. InQueue(t)' => InQueue(t)
        BY <1>1 DEF InQueue
    <3>3. QueueLeft(t)' <= QueueLeft(t) /\ QueueLeft(t)' \in Nat
        BY <3>2 DEF QueueLeft
    <3> QED  BY <2>1, <2>2, <2>3, <3>1, <3>3 DEF NoMore, Left
  <2> QED  BY <2>4, <2>5
<1> QED  BY <1>3, <1>5, NoMoreKeeps

\* An item that is lost is in the list no longer.
LEMMA DequeueLostKeeps ==
    ASSUME QueueInv, TypeInv', NEW w \in Workers, DequeueLost(w)
    PROVE  ListedOnce' /\ RunsInv'
<1> USE DEF QueueInv
<1>1. /\ Len(queue) \in Nat /\ Len(queue') = Len(queue) - 1
      /\ \A i \in 1 .. Len(queue') : queue'[i] = queue[i + 1]
    BY DEF DequeueLost, TypeInv
<1>2. ListedOnce'
    BY <1>1 DEF ListedOnce
<1>3. ASSUME NEW t \in Tasks PROVE NoMore(t)
  <2>1. row'[t] = row[t] /\ runs'[t] = runs[t] /\ runs[t] \in Nat /\ pc' = pc
      BY DEF DequeueLost, TypeInv
  <2>2. /\ QueueLeft(t) \in 0 .. 1 /\ QueuedLeft(t) \in 0 .. 1
        /\ DirectLeft(t) \in 0 .. 2
      BY LeftType
  <2>3. DirectLeft(t)' = DirectLeft(t) /\ QueuedLeft(t)' = QueuedLeft(t)
      BY <2>1 DEF DirectLeft, QueuedLeft, Limit
  <2>4. InQueue(t)' => InQueue(t)
      BY <1>1 DEF InQueue
  <2>5. QueueLeft(t)' <= QueueLeft(t) /\ QueueLeft(t)' \in Nat
      BY <2>4 DEF QueueLeft
  <2> QED  BY <2>1, <2>2, <2>3, <2>5 DEF NoMore, Left
<1> QED  BY <1>2, <1>3, NoMoreKeeps

\* Every step that is not named above leaves the threads, the list and the runs
\* alone; a crash only ends threads.
LEMMA OthersNoMore ==
    ASSUME QueueInv, NEW t \in Tasks,
           \/ UNCHANGED <<pc, queue, runs>>
           \/ \E w \in Workers : Crash(w),
           row'[t] = "absent" => row[t] = "absent"
    PROVE  NoMore(t) /\ UNCHANGED queue
<1> USE DEF QueueInv
<1>1. /\ runs[t] \in Nat /\ Left(t) \in 0 .. 4
      /\ QueueLeft(t) \in 0 .. 1 /\ QueuedLeft(t) \in 0 .. 1
      /\ DirectLeft(t) \in 0 .. 2
    BY LeftType
<1>2. UNCHANGED <<queue, runs>>
    BY DEF Crash
<1>3. QueueLeft(t)' = QueueLeft(t)
    BY <1>2 DEF QueueLeft, InQueue
<1>4. \A k \in {"direct", "queued"} :
         pc'[<<t, k>>] = pc[<<t, k>>] \/ pc'[<<t, k>>] = "none"
    BY DEF Crash, Threads
<1>5. DirectLeft(t)' <= DirectLeft(t) /\ DirectLeft(t)' \in Nat
    BY <1>4 DEF DirectLeft, Before, Limit
<1>6. QueuedLeft(t)' <= QueuedLeft(t) /\ QueuedLeft(t)' \in Nat
    BY <1>4 DEF QueuedLeft, Before
<1> QED  BY <1>1, <1>2, <1>3, <1>5, <1>6 DEF NoMore, Left

-----------------------------------------------------------------------------

\* No step of tasks.py or of the routes, no crash and no restart with its
\* cleanup_stale_tasks adds a way to run a task that was queued.
LEMMA QueueInductive == QueueInv /\ [Next]_vars => QueueInv'
<1> SUFFICES ASSUME QueueInv, [Next]_vars PROVE QueueInv'
    OBVIOUS
<1>1. TypeInv'
    BY RunTaskTyped, OthersTyped DEF QueueInv
<1>2. IssueInv'
    BY IssueKept DEF QueueInv
<1>3. ListedOnce' /\ RunsInv'
  <2>1. CASE \E th \in Threads : RunTask(th)
    <3>1. UNCHANGED queue
        BY <2>1 DEF RunTask, Begin, SetRunning, Work, CheckCert, Generate,
                    Refresh, Recheck, Finish
    <3>2. RunsInv'
        BY <1>1, <2>1, RunTaskNoMore, NoMoreKeeps DEF QueueInv
    <3> QED  BY <3>1, <3>2 DEF QueueInv, ListedOnce
  <2>2. CASE \E t \in Tasks, w \in Workers : QueueTask(t, w)
      BY <1>1, <2>2, QueueTaskKeeps
  <2>3. CASE \E t \in Tasks : Enqueue(t)
      BY <1>1, <2>3, EnqueueKeeps
  <2>4. CASE \E w \in Workers : Dequeue(w) \/ DequeueLost(w)
      BY <1>1, <2>4, DequeueKeeps, DequeueLostKeeps
  <2>5. CASE /\ \/ UNCHANGED <<pc, queue, runs>>
                \/ \E w \in Workers : Crash(w)
             /\ \A t \in Tasks : row'[t] = "absent" => row[t] = "absent"
    <3>1. \A t \in Tasks : NoMore(t) /\ UNCHANGED queue
        BY <2>5, OthersNoMore
    <3>2. UNCHANGED queue
        BY <2>5 DEF Crash
    <3> QED
        BY <1>1, <3>1, <3>2, NoMoreKeeps DEF QueueInv, ListedOnce
  <2> QED
      BY <2>1, <2>2, <2>3, <2>4, <2>5, StepKinds, RowsStay DEF QueueInv
<1> QED  BY <1>1, <1>2, <1>3 DEF QueueInv

LEMMA QueueInit == Init => QueueInv
<1> SUFFICES ASSUME Init PROVE QueueInv
    OBVIOUS
<1>1. TypeInv
  <2>1. valkeyUp \in BOOLEAN /\ certRow \in BOOLEAN /\ certFile \in BOOLEAN
      BY Zenon DEF Init
  <2>2. cancel \in [Tasks -> [step : {"idle", "read", "write"},
                              worker : Workers]]
      BY LeaderAssumption DEF Init, NoCancel
  <2>3. /\ deletion \in [step : {"idle", "cancel", "read", "write", "files"},
                         worker : Workers, todo : SUBSET Tasks, rows : SUBSET Tasks,
                         task : Tasks \cup {0}]
        /\ deletion.step = "idle"
        /\ poll \in [worker : Workers, task : Tasks \cup {0}]
      BY LeaderAssumption DEF Init, NoDeletion, NoPoll
  <2>4. leads \subseteq {w \in Workers : up[w]} /\ up \in [Workers -> BOOLEAN]
      BY LeaderAssumption DEF Init
  <2> QED  BY <2>1, <2>2, <2>3, <2>4, LeaderAssumption DEF Init, TypeInv
<1>2. IssueInv /\ ListedOnce
    BY DEF Init, IssueInv, ListedOnce
<1>3. ASSUME NEW t \in Tasks PROVE runs[t] + Left(t) = 0
  <2>1. <<t, "direct">> \in Threads /\ <<t, "queued">> \in Threads
      BY DEF Threads
  <2> QED
      BY <2>1 DEF Init, Left, DirectLeft, QueueLeft, InQueue, QueuedLeft, Before
<1>4. RunsInv
    BY <1>3 DEF RunsInv, Limit
<1> QED  BY <1>1, <1>2, <1>4 DEF QueueInv

\* In every reachable state, what was run of a task and the ways that are left
\* to run it add up to one, or to two where a reply of LPUSH may be lost.
THEOREM WaysToRunBounded == Spec => []QueueInv
BY QueueInit, QueueInductive, PTL DEF Spec

\* The number of runs stays within its type: with every fault tasks.py meets,
\* the lost reply included, no task is run more than twice.
THEOREM TypeCorrect == Spec => []TypeOK
<1>1. QueueInv => TypeOK
  <2> SUFFICES ASSUME QueueInv PROVE TypeOK
      OBVIOUS
  <2>1. runs \in [Tasks -> 0 .. 2]
    <3>1. ASSUME NEW t \in Tasks PROVE runs[t] \in 0 .. 2
        BY LeftType DEF QueueInv, RunsInv, Limit
    <3> QED  BY <3>1 DEF QueueInv, TypeInv
  <2> QED  BY <2>1 DEF QueueInv, TypeInv, TypeOK
<1> QED  BY <1>1, WaysToRunBounded, PTL

\* Unless LPUSH can take effect while its reply is lost, no task is run a second
\* time: for any number of tasks and workers, under crashes, restarts, outages
\* of Valkey and cancellations.
THEOREM RunAtMostOnceCorrect ==
    ASSUME "reply" \notin Faults
    PROVE  Spec => []RunAtMostOnce
<1>1. QueueInv => RunAtMostOnce
    BY LeftType DEF QueueInv, RunsInv, Limit, RunAtMostOnce
<1> QED  BY <1>1, WaysToRunBounded, PTL

-----------------------------------------------------------------------------
(* Tickets.  A task that waits has not begun, unless a reply was lost; and *)
(* no longer waits never does again.                                        *)

\* A deletion removes rows that it has listed, and rows are never taken back.
ListedRows == \A t \in deletion.rows \cup deletion.todo : row[t] # "absent"

\* What the ticket of a task says of its row and its runs.
TicketInv ==
    \A t \in Tasks : /\ runs[t] \in Nat
                     /\ Waits(t) => runs[t] = 0 /\ row[t] # "absent"
                     /\ row[t] = "absent" => runs[t] = 0

LEMMA TicketIs ==
    ASSUME "reply" \notin Faults
    PROVE  QueueInv => TicketInv
<1> SUFFICES ASSUME QueueInv, NEW t \in Tasks
             PROVE  /\ runs[t] \in Nat
                    /\ Waits(t) => runs[t] = 0 /\ row[t] # "absent"
                    /\ row[t] = "absent" => runs[t] = 0
    BY DEF TicketInv
<1>1. /\ runs[t] \in Nat /\ DirectLeft(t) \in 0 .. 2 /\ QueueLeft(t) \in 0 .. 1
      /\ QueuedLeft(t) \in 0 .. 1
    BY LeftType DEF QueueInv
<1>2. Waits(t) => DirectLeft(t) >= 1 \/ QueueLeft(t) >= 1 \/ QueuedLeft(t) >= 1
    BY DEF Waits, DirectLeft, QueueLeft, QueuedLeft, InQueue, Before, Limit
<1>3. /\ runs[t] + (DirectLeft(t) + QueueLeft(t) + QueuedLeft(t)) <= 1
      /\ row[t] = "absent"
           => runs[t] + (DirectLeft(t) + QueueLeft(t) + QueuedLeft(t)) = 0
    BY DEF QueueInv, RunsInv, Limit, Left
<1> QED  BY <1>1, <1>2, <1>3

\* Tickets are lost, none or more.
LEMMA Loses ==
    ASSUME TicketInv, TicketInv', runs' = runs,
           \A t \in Tasks : /\ row'[t] = "absent" <=> row[t] = "absent"
                            /\ Waits(t)' => Waits(t)
    PROVE  [Ticket!Next]_(Ticket!vars)
<1> DEFINE lost == {t \in Tasks : Waits(t) /\ ~ Waits(t)'}
<1>1. ticket' = [t \in Tasks |-> IF t \in lost THEN "void" ELSE ticket[t]]
    BY DEF ticket, TicketInv
<1>2. \A t \in lost : ticket[t] = "open"
    BY DEF ticket, TicketInv
<1>3. Ticket!Void(lost)
    BY <1>1, <1>2 DEF Ticket!Void
<1> QED  BY <1>3 DEF Ticket!Next

\* One ticket is used.
LEMMA Uses ==
    ASSUME TicketInv, NEW s \in Tasks, Waits(s), runs' = [runs EXCEPT ![s] = @ + 1],
           runs \in [Tasks -> Nat],
           \A t \in Tasks \ {s} : /\ row'[t] = "absent" <=> row[t] = "absent"
                                  /\ Waits(t)' <=> Waits(t)
    PROVE  [Ticket!Next]_(Ticket!vars)
<1>1. runs'[s] = runs[s] + 1 /\ \A t \in Tasks \ {s} : runs'[t] = runs[t]
    OBVIOUS
<1>2. runs[s] = 0 /\ row[s] # "absent" /\ runs'[s] > 0
    BY <1>1 DEF TicketInv
<1>3. ticket[s] = "open"
    BY <1>2 DEF ticket
<1>4. ticket' = [ticket EXCEPT ![s] = "used"]
    BY <1>1, <1>2 DEF ticket
<1>5. Ticket!Use(s)
    BY <1>3, <1>4 DEF Ticket!Use
<1> QED  BY <1>5 DEF Ticket!Next

\* One ticket is issued.
LEMMA Issues ==
    ASSUME TicketInv, NEW s \in Tasks, row[s] = "absent", row'[s] # "absent", Waits(s)',
           runs' = runs,
           \A t \in Tasks \ {s} : /\ row'[t] = "absent" <=> row[t] = "absent"
                                  /\ Waits(t)' <=> Waits(t)
    PROVE  [Ticket!Next]_(Ticket!vars)
<1>1. runs[s] = 0 /\ ~ (runs[s] > 0)
    BY DEF TicketInv
<1>2. ticket[s] = "none"
    BY <1>1 DEF ticket
<1>3. ticket' = [ticket EXCEPT ![s] = "open"]
    BY <1>1 DEF ticket
<1>4. Ticket!Open(s)
    BY <1>2, <1>3 DEF Ticket!Open
<1> QED  BY <1>4 DEF Ticket!Next

\* A step of a task's thread: it uses the ticket, or it may lose it.
LEMMA RunTaskTicket ==
    ASSUME QueueInv, TicketInv, TicketInv', NEW th \in Threads, RunTask(th)
    PROVE  [Ticket!Next]_(Ticket!vars)
<1> USE DEF QueueInv
<1>1. PICK s \in Tasks, j \in {"direct", "queued"} : th = <<s, j>>
    BY DEF Threads
<1>2. th[1] = s
    BY <1>1
<1>3. UNCHANGED queue
    BY DEF RunTask, Begin, SetRunning, Work, CheckCert, Generate, Refresh,
           Recheck, Finish
<1>4. \A t \in Tasks : row'[t] = "absent" <=> row[t] = "absent"
  <2>1. row' = row \/ \E status \in Terminal \cup {"running"} :
                                          SetStatus(th[1], status)
      BY DEF RunTask, Begin, Abandon, SetRunning, Work, CheckCert, Generate,
             Refresh, Recheck, Finish, Terminal, TypeInv
  <2> QED  BY <2>1 DEF SetStatus, TypeInv, Exists, Terminal
<1>5. \A t \in Tasks, k \in {"direct", "queued"} : <<t, k>> \in Threads
    BY DEF Threads
<1>6. ASSUME NEW label, Goto(th, label)
      PROVE  /\ \A t \in Tasks \ {s} : Waits(t)' <=> Waits(t)
             /\ (/\ label \in Before => pc[th] \in Before
                 /\ label # "enqueue") => (Waits(s)' => Waits(s))
  <2>1. pc'[th] = label /\ \A h \in Threads \ {th} : pc'[h] = pc[h]
      BY <1>6 DEF Goto, TypeInv
  <2>2. ASSUME NEW t \in Tasks \ {s}
        PROVE  Waits(t)' <=> Waits(t)
    <3>1. \A k \in {"direct", "queued"} : pc'[<<t, k>>] = pc[<<t, k>>]
        BY <1>1, <1>5, <2>1
    <3> QED  BY <1>3, <3>1 DEF Waits
  <2>3. ASSUME label \in Before => pc[th] \in Before, label # "enqueue", Waits(s)'
        PROVE  Waits(s)
    <3>1. \A k \in {"direct", "queued"} :
            <<s, k>> # th => pc'[<<s, k>>] = pc[<<s, k>>]
        BY <1>5, <2>1
    <3>2. CASE InQueue(s)'
        BY <1>3, <3>2 DEF InQueue, Waits
    <3>3. CASE pc'[<<s, "direct">>] = "enqueue"
        BY <1>5, <2>1, <2>3, <3>1, <3>3 DEF Waits
    <3>4. ASSUME NEW k \in {"direct", "queued"}, pc'[<<s, k>>] \in Before
          PROVE  Waits(s)
      <4>1. pc[<<s, k>>] \in Before
          BY <2>1, <2>3, <3>1, <3>4
      <4> QED  BY <4>1 DEF Waits, Before
    <3>5. \/ InQueue(s)' \/ pc'[<<s, "direct">>] = "enqueue"
          \/ \E k \in {"direct", "queued"} : pc'[<<s, k>>] \in Before
        BY <2>3 DEF Waits, InQueue, Before
    <3> QED  BY <3>2, <3>3, <3>4, <3>5
  <2> QED  BY <2>2, <2>3
<1>7. ASSUME NEW label, Goto(th, label), label \in Before => pc[th] \in Before,
             label # "enqueue", UNCHANGED runs
      PROVE  [Ticket!Next]_(Ticket!vars)
  <2>1. \A t \in Tasks : Waits(t)' => Waits(t)
      BY <1>6, <1>7
  <2> QED  BY <1>4, <1>7, <2>1, Loses
<1>8. ASSUME NEW label \in {"finish", "recheck", "refresh", "none"}, Goto(th, label),
             pc[th] \in {"work", "generate"}, runs' = [runs EXCEPT ![s] = @ + 1]
      PROVE  [Ticket!Next]_(Ticket!vars)
  <2>1. Waits(s)
      BY <1>1, <1>8 DEF Waits
  <2>2. \A t \in Tasks \ {s} : Waits(t)' <=> Waits(t)
      BY <1>6, <1>8
  <2>3. runs \in [Tasks -> Nat]
      BY DEF TypeInv
  <2> QED  BY <1>4, <1>8, <2>1, <2>2, <2>3, Uses
<1>9. CASE Begin(th)
  <2>1. \E label \in {"none", "start"} : Goto(th, label)
      BY <1>9 DEF Begin, Abandon
  <2> QED  BY <1>7, <1>9, <2>1 DEF Begin, Before
<1>10. CASE SetRunning(th)
  <2>1. \E label \in {"none", "check", "work"} : Goto(th, label)
      BY <1>10 DEF SetRunning
  <2> QED  BY <1>7, <1>10, <2>1 DEF SetRunning, Before
<1>11. CASE Work(th)
    BY <1>2, <1>8, <1>11 DEF Work
<1>12. CASE CheckCert(th)
  <2>1. \E label \in {"none", "generate", "finish"} : Goto(th, label)
      BY <1>12 DEF CheckCert, Abandon
  <2> QED  BY <1>7, <1>12, <2>1 DEF CheckCert, Before
<1>13. CASE Generate(th)
  <2>1. \E label \in {"finish", "recheck", "refresh", "none"} : Goto(th, label)
      BY <1>13 DEF Generate
  <2> QED  BY <1>2, <1>8, <1>13, <2>1 DEF Generate
<1>14. CASE Refresh(th) \/ Recheck(th) \/ Finish(th)
  <2>1. \E label \in {"none", "recheck", "finish"} : Goto(th, label)
      BY <1>14 DEF Refresh, Recheck, Finish
  <2> QED  BY <1>7, <1>14, <2>1 DEF Refresh, Recheck, Finish, Before
<1> QED
    BY <1>9, <1>10, <1>11, <1>12, <1>13, <1>14 DEF RunTask

\* A new row is a ticket.
LEMMA QueueTaskTicket ==
    ASSUME QueueInv, TicketInv, NEW s \in Tasks, NEW w \in Workers, QueueTask(s, w)
    PROVE  [Ticket!Next]_(Ticket!vars)
<1> USE DEF QueueInv, TypeInv
<1>1. \A t \in Tasks, k \in {"direct", "queued"} : <<t, k>> \in Threads
    BY DEF Threads
<1>2. /\ row[s] = "absent" /\ row' = [row EXCEPT ![s] = "pending"]
      /\ pc' = [pc EXCEPT ![<<s, "direct">>] = "enqueue"]
      /\ UNCHANGED <<queue, runs>>
    BY DEF QueueTask, Goto
<1>3. Waits(s)' /\ row'[s] # "absent"
    BY <1>1, <1>2 DEF Waits
<1>4. ASSUME NEW t \in Tasks \ {s}
      PROVE  /\ row'[t] = "absent" <=> row[t] = "absent"
             /\ Waits(t)' <=> Waits(t)
  <2>1. row'[t] = row[t]
      BY <1>2
  <2>2. \A k \in {"direct", "queued"} : pc'[<<t, k>>] = pc[<<t, k>>]
      BY <1>1, <1>2
  <2> QED  BY <1>2, <2>1, <2>2 DEF Waits
<1> QED  BY <1>2, <1>3, <1>4, Issues

\* The request, the item and the thread are the same ticket.
LEMMA EnqueueTicket ==
    ASSUME QueueInv, TicketInv, TicketInv', NEW s \in Tasks, Enqueue(s)
    PROVE  [Ticket!Next]_(Ticket!vars)
<1> USE DEF QueueInv, TypeInv
<1>1. \A t \in Tasks, k \in {"direct", "queued"} : <<t, k>> \in Threads
    BY DEF Threads
<1>2. UNCHANGED <<row, runs>> /\ pc[<<s, "direct">>] = "enqueue"
    BY DEF Enqueue
<1>3. ASSUME NEW t \in Tasks \ {s} PROVE Waits(t)' => Waits(t)
  <2>1. \A k \in {"direct", "queued"} : pc'[<<t, k>>] = pc[<<t, k>>]
    <3>1. \E label : pc' = [pc EXCEPT ![<<s, "direct">>] = label]
        BY DEF Enqueue, Goto
    <3>2. \A k \in {"direct", "queued"} : <<t, k>> # <<s, "direct">>
        BY <1>3
    <3> QED  BY <1>1, <3>1, <3>2
  <2>2. InQueue(t)' => InQueue(t)
    <3>1. CASE queue' = queue
        BY <3>1 DEF InQueue
    <3>2. CASE queue' = Append(queue, s)
      <4>1. /\ Len(queue') = Len(queue) + 1 /\ queue'[Len(queue) + 1] = s
            /\ \A i \in 1 .. Len(queue) : queue'[i] = queue[i]
            /\ Len(queue) \in Nat
          BY <3>2
      <4>2. t # s
          OBVIOUS
      <4> HIDE DEF QueueInv, TypeInv
      <4>3. ASSUME NEW i \in 1 .. Len(queue'), queue'[i] = t
            PROVE  i \in 1 .. Len(queue) /\ queue[i] = t
          BY <4>1, <4>2, <4>3
      <4> QED  BY <4>3 DEF InQueue
    <3> QED  BY <3>1, <3>2 DEF Enqueue
  <2> QED  BY <2>1, <2>2 DEF Waits, InQueue
<1>4. Waits(s)
    BY <1>2 DEF Waits
<1> QED  BY <1>2, <1>3, <1>4, Loses

\* So are the head of the list and its thread.
LEMMA DequeueTicket ==
    ASSUME QueueInv, TicketInv, TicketInv', NEW w \in Workers, Dequeue(w)
    PROVE  [Ticket!Next]_(Ticket!vars)
<1> USE DEF QueueInv, TypeInv
<1> DEFINE s == Head(queue)
<1>1. /\ s \in Tasks /\ s = queue[1]
      /\ Len(queue) \in Nat /\ 1 \in 1 .. Len(queue)
      /\ Len(queue') = Len(queue) - 1
      /\ \A i \in 1 .. Len(queue') : queue'[i] = queue[i + 1]
    BY DEF Dequeue
<1>2. \A t \in Tasks, k \in {"direct", "queued"} : <<t, k>> \in Threads
    BY DEF Threads
<1>3. pc' = [pc EXCEPT ![<<s, "queued">>] = "begin"]
    BY DEF Dequeue, Goto
<1>4. UNCHANGED <<row, runs>>
    BY DEF Dequeue
<1> HIDE DEF s
<1>5. ASSUME NEW t \in Tasks \ {s} PROVE Waits(t)' => Waits(t)
  <2>1. \A k \in {"direct", "queued"} : pc'[<<t, k>>] = pc[<<t, k>>]
    <3>1. \A k \in {"direct", "queued"} : <<t, k>> # <<s, "queued">>
        BY <1>5
    <3> QED  BY <1>2, <1>3, <3>1
  <2>2. InQueue(t)' => InQueue(t)
    <3> HIDE DEF QueueInv, TypeInv
    <3>1. ASSUME NEW i \in 1 .. Len(queue'), queue'[i] = t
          PROVE  i + 1 \in 1 .. Len(queue) /\ queue[i + 1] = t
        BY <1>1, <3>1
    <3> QED  BY <3>1 DEF InQueue
  <2> QED  BY <2>1, <2>2 DEF Waits, InQueue
<1>6. Waits(s)
    BY <1>1 DEF Waits
<1> QED  BY <1>4, <1>5, <1>6, Loses

\* An item that is lost takes its ticket away.
LEMMA DequeueLostTicket ==
    ASSUME QueueInv, TicketInv, TicketInv', NEW w \in Workers, DequeueLost(w)
    PROVE  [Ticket!Next]_(Ticket!vars)
<1>1. /\ Len(queue) \in Nat /\ Len(queue') = Len(queue) - 1
      /\ \A i \in 1 .. Len(queue') : queue'[i] = queue[i + 1]
    BY DEF DequeueLost, QueueInv, TypeInv
<1>2. UNCHANGED <<row, runs, pc>>
    BY DEF DequeueLost
<1>3. ASSUME NEW t \in Tasks PROVE Waits(t)' => Waits(t)
  <2>1. InQueue(t)' => InQueue(t)
      BY <1>1 DEF InQueue
  <2> QED  BY <1>2, <2>1 DEF Waits, InQueue
<1> QED  BY <1>2, <1>3, Loses

\* A crash ends threads; no other step adds one.
LEMMA OthersTicket ==
    ASSUME QueueInv, TicketInv, TicketInv',
           \/ UNCHANGED <<pc, queue, runs>>
           \/ \E w \in Workers : Crash(w),
           \A t \in Tasks : row'[t] = "absent" <=> row[t] = "absent"
    PROVE  [Ticket!Next]_(Ticket!vars)
<1>1. UNCHANGED <<queue, runs>>
    BY DEF Crash
<1>2. \A th \in Threads : pc'[th] = pc[th] \/ pc'[th] = "none"
    BY DEF Crash
<1>3. ASSUME NEW t \in Tasks PROVE Waits(t)' => Waits(t)
  <2>1. \A k \in {"direct", "queued"} :
           pc'[<<t, k>>] = pc[<<t, k>>] \/ pc'[<<t, k>>] = "none"
      BY <1>2 DEF Threads
  <2> QED  BY <1>1, <2>1 DEF Waits
<1> QED  BY <1>1, <1>3, Loses

-----------------------------------------------------------------------------

\* The steps of delete_cert, and the crash of its process.
LEMMA DeletionSteps ==
    ASSUME [Next]_vars
    PROVE  \/ UNCHANGED deletion
           \/ \E w \in Workers : DeleteCert(w) \/ Crash(w)
           \/ \E t \in Tasks : DeleteCancel(t)
           \/ DeleteRead \/ DeleteWrite \/ DeleteCommit \/ DeleteFiles
<1>1. ASSUME NEW th \in Threads, RunTask(th) PROVE UNCHANGED deletion
    BY <1>1 DEF RunTask, Begin, SetRunning, Work, CheckCert, Generate, Refresh,
                Recheck, Finish
<1>2. ASSUME NEW t \in Tasks, NEW w \in Workers, QueueTask(t, w) \/ CancelTask(t, w)
      PROVE  UNCHANGED deletion
    BY <1>2 DEF QueueTask, CancelTask
<1>3. ASSUME NEW t \in Tasks, Enqueue(t) \/ CancelRead(t) \/ CancelWrite(t)
                                \/ ExpireCancelKey(t)
      PROVE  UNCHANGED deletion
    BY <1>3 DEF Enqueue, CancelRead, CancelWrite, ExpireCancelKey
<1>4. ASSUME NEW w \in Workers, Dequeue(w) \/ DequeueLost(w) \/ PollRead(w) \/ Restart(w)
      PROVE  UNCHANGED deletion
    BY <1>4 DEF Dequeue, DequeueLost, PollRead, Restart
<1>5. CASE PollWrite \/ ValkeyGoes \/ ValkeyReturns \/ UNCHANGED vars
    BY <1>5 DEF PollWrite, ValkeyGoes, ValkeyReturns, vars
<1> QED  BY <1>1, <1>2, <1>3, <1>4, <1>5 DEF Next

\* A deletion marks only rows that were there.
LEMMA ListedRowsAppear ==
    ASSUME QueueInv, ListedRows, DeleteCommit
    PROVE  \A t \in Tasks : row'[t] = "absent" <=> row[t] = "absent"
BY DEF DeleteCommit, ListedRows, QueueInv, TypeInv

LEMMA ListedRowsInductive ==
    ASSUME QueueInv, QueueInv', ListedRows, [Next]_vars
    PROVE  ListedRows'
<1>1. \A t \in Tasks : row[t] # "absent" => row'[t] # "absent"
  <2>1. ASSUME NEW t \in Tasks, NEW w \in Workers, QueueTask(t, w)
        PROVE  \A s \in Tasks : row[s] # "absent" => row'[s] # "absent"
      BY <2>1 DEF QueueTask, QueueInv, TypeInv
  <2> QED  BY <2>1, RowsStay DEF QueueInv
<1> DEFINE Listed == deletion.rows \cup deletion.todo
<1>2. Listed' \subseteq Listed \cup {t \in Tasks : row[t] # "absent"}
  <2>1. CASE UNCHANGED deletion
      BY <2>1
  <2>2. ASSUME NEW w \in Workers, DeleteCert(w)
        PROVE  Listed' \subseteq {t \in Tasks : row[t] # "absent"}
      BY <2>2, TasksAssumption DEF DeleteCert, Exists, Unfinished
  <2>3. ASSUME NEW w \in Workers, Crash(w)
        PROVE  Listed' \subseteq Listed
      BY <2>3 DEF Crash, NoDeletion
  <2>4. ASSUME NEW t \in Tasks, DeleteCancel(t)
        PROVE  Listed' \subseteq Listed
      BY <2>4 DEF DeleteCancel, QueueInv, TypeInv
  <2>5. CASE DeleteRead \/ DeleteWrite
    <3>1. \E step : deletion' = [deletion EXCEPT !.step = step]
        BY <2>5 DEF DeleteRead, DeleteWrite
    <3> QED  BY <3>1 DEF QueueInv, TypeInv
  <2>6. CASE DeleteCommit
      BY <2>6 DEF DeleteCommit, QueueInv, TypeInv
  <2>7. CASE DeleteFiles
      BY <2>7 DEF DeleteFiles, NoDeletion
  <2> QED  BY <2>1, <2>2, <2>3, <2>4, <2>5, <2>6, <2>7, DeletionSteps
<1>3. Listed \subseteq Tasks
    BY DEF QueueInv, TypeInv
<1> QED  BY <1>1, <1>2, <1>3 DEF ListedRows

LEMMA ListedRowsAlways == Spec => []ListedRows
<1>1. Init => ListedRows
    BY DEF Init, ListedRows, NoDeletion
<1>2. QueueInv /\ QueueInv' /\ ListedRows /\ [Next]_vars => ListedRows'
    BY ListedRowsInductive
<1> QED  BY <1>1, <1>2, WaysToRunBounded, PTL DEF Spec

\* Unless LPUSH can take effect while its reply is lost, a task is a ticket for
\* one beginning of its work, void for good once nothing is left to bring it: for
\* any number of tasks and workers, under crashes, restarts with
\* cleanup_stale_tasks, outages of Valkey, cancellations and deletions.
THEOREM TicketRefinement ==
    ASSUME "reply" \notin Faults
    PROVE  Spec => ImplementsTicket
<1>1. Init => Ticket!Init
  <2> SUFFICES ASSUME Init PROVE Ticket!Init
      OBVIOUS
  <2>1. \A t \in Tasks : runs[t] = 0 /\ row[t] = "absent"
      BY DEF Init
  <2>2. ticket = [t \in Tasks |-> "none"]
      BY <2>1 DEF ticket
  <2> QED  BY <2>2 DEF Init, Ticket!Init
<1>2. QueueInv => TicketInv
    BY TicketIs
<1>3. QueueInv' => TicketInv'
    BY <1>2, PTL
<1>4. QueueInv /\ QueueInv' /\ ListedRows /\ [Next]_vars => [Ticket!Next]_(Ticket!vars)
    BY <1>2, <1>3, StepKinds, RowsStay, ListedRowsAppear, RunTaskTicket,
       QueueTaskTicket, EnqueueTicket, DequeueTicket, DequeueLostTicket, OthersTicket
       DEF QueueInv
<1> QED
    BY <1>1, <1>4, ListedRowsAlways, WaysToRunBounded, PTL
       DEF Spec, ImplementsTicket, Ticket!Spec

-----------------------------------------------------------------------------
(* CancelSeen.  While Valkey answers and cancel keys do not expire, the flag *)
(* of a cancelled task stays until a thread of the task has consumed it, and *)
(* then nothing is left that could come to the re-check.                     *)

\* The conditions under which the routes promise it: the run of tasks_settle
\* has the others, and the death of any process.
Reliable == Faults \cap {"valkey", "expiry", "reply"} = {}

\* No step leads thread t's work to the re-check again.
Over(t) ==
    /\ row[t] # "absent"
    /\ pc[<<t, "direct">>] = "none"
    /\ ~InQueue(t)
    /\ pc[<<t, "queued">>] \in {"none", "finish"}

\* A cancel_task call for t has set the flag: it is under way, or has returned True.
Cancelled(t) ==
    \/ t \in acked
    \/ cancel[t].step # "idle"
    \/ deletion.step \in {"read", "write"} /\ deletion.task = t

\* Of a cancelled task, the flag is up or everything is over.  What is past
\* acme.sh was counted.
FlagInv(t) ==
    /\ pc[<<t, "direct">>] \in {"none", "enqueue"}
    /\ pc[<<t, "queued">>] \in {"refresh", "recheck"} => runs[t] >= 1
    /\ Cancelled(t) => row[t] # "absent" /\ (t \in cancelKey \/ Over(t))

CancelInv == valkeyUp /\ \A t \in Tasks : FlagInv(t)

\* A queued thread that may still reach the re-check, or is there, is the only
\* way that is left to run its task.
LEMMA QueuedIsOnly ==
    ASSUME Reliable, QueueInv, NEW t \in Tasks, FlagInv(t),
           pc[<<t, "queued">>] \in Before \cup {"refresh", "recheck"}
    PROVE  ~InQueue(t) /\ pc[<<t, "direct">>] = "none"
<1>1. /\ DirectLeft(t) \in 0 .. 2 /\ QueueLeft(t) \in 0 .. 1
      /\ QueuedLeft(t) \in 0 .. 1 /\ runs[t] \in Nat
    BY LeftType DEF QueueInv
<1>2. runs[t] + (DirectLeft(t) + QueueLeft(t) + QueuedLeft(t)) <= 1
    BY DEF QueueInv, RunsInv, Left, Limit, Reliable
<1>3. QueuedLeft(t) = 1 \/ runs[t] >= 1
    BY DEF QueuedLeft, FlagInv
<1>4. DirectLeft(t) = 0 /\ QueueLeft(t) = 0
    BY <1>1, <1>2, <1>3
<1> QED  BY <1>4 DEF DirectLeft, QueueLeft, Limit, FlagInv

\* A thread that runs a task is its queued one.
LEMMA RunsQueued ==
    ASSUME CancelInv, NEW th \in Threads, RunTask(th)
    PROVE  \E t \in Tasks : th = <<t, "queued">>
<1>1. PICK t \in Tasks, k \in {"direct", "queued"} : th = <<t, k>>
    BY DEF Threads
<1>2. pc[th] \notin {"none", "enqueue"}
    BY DEF RunTask, Begin, SetRunning, Work, CheckCert, Generate, Refresh,
           Recheck, Finish
<1>3. k # "direct"
    BY <1>1, <1>2 DEF CancelInv, FlagInv
<1> QED  BY <1>1, <1>3

\* The steps of a thread keep FlagInv of its own task and of all others.
LEMMA RunTaskFlag ==
    ASSUME Reliable, QueueInv, CancelInv, NEW s \in Tasks,
           RunTask(<<s, "queued">>), NEW t \in Tasks
    PROVE  FlagInv(t)'
<1> DEFINE th == <<s, "queued">>
<1> USE DEF QueueInv
<1>1. /\ th \in Threads /\ <<t, "direct">> \in Threads
      /\ <<t, "queued">> \in Threads
      /\ th # <<t, "direct">> /\ (t # s => th # <<t, "queued">>)
      /\ th[1] = s
    BY DEF Threads
<1>2. \E label : Goto(th, label)
    BY DEF RunTask, Begin, Abandon, SetRunning, Work, CheckCert, Generate,
           Refresh, Recheck, Finish
<1>3. /\ pc'[<<t, "direct">>] = pc[<<t, "direct">>]
      /\ t # s => pc'[<<t, "queued">>] = pc[<<t, "queued">>]
    BY <1>1, <1>2 DEF Goto, TypeInv
<1>4. UNCHANGED <<queue, cancel, deletion, acked, valkeyUp>>
    BY DEF RunTask, Begin, SetRunning, Work, CheckCert, Generate, Refresh,
           Recheck, Finish
<1>5. row' = row \/ \E status \in Terminal \cup {"running"} :
                                        SetStatus(s, status)
    BY <1>1 DEF RunTask, Begin, Abandon, SetRunning, Work, CheckCert, Generate,
                Refresh, Recheck, Finish, Terminal, TypeInv
<1>6. row[t] # "absent" => row'[t] # "absent"
    BY <1>5 DEF SetStatus, TypeInv, Exists, Terminal
<1>7. runs'[t] >= runs[t] /\ (t # s => runs'[t] = runs[t])
  <2>1. runs' = runs \/ runs' = [runs EXCEPT ![s] = @ + 1]
      BY <1>1 DEF RunTask, Begin, SetRunning, Work, CheckCert, Generate,
                  Refresh, Recheck, Finish
  <2> QED  BY <2>1 DEF TypeInv
<1>8. FlagInv(t) /\ FlagInv(s) /\ valkeyUp
    BY DEF CancelInv
<1>9. InQueue(t)' = InQueue(t)
    BY <1>4 DEF InQueue
<1>10. cancelKey' = cancelKey \/ (cancelKey' = cancelKey \ {s}
                                     /\ ClearCancelled(s, at[th]))
    BY <1>1, <1>8
       DEF RunTask, Begin, Abandon, SetRunning, Work, CheckCert, Generate,
           Refresh, Recheck, Finish, ClearCancelled
<1>11. CASE t # s
  <2>1. Over(t) => Over(t)'
      BY <1>3, <1>6, <1>9, <1>11 DEF Over
  <2>2. t \in cancelKey => t \in cancelKey'
      BY <1>10, <1>11
  <2> QED
      BY <1>3, <1>4, <1>6, <1>7, <1>8, <1>11, <2>1, <2>2
         DEF FlagInv, Cancelled
<1>12. CASE t = s
  <2>1. pc'[th] \in {"refresh", "recheck"} => runs'[t] >= 1
    <3>1. runs[t] \in Nat
        BY DEF TypeInv
    <3>2. CASE Generate(th)
        BY <1>1, <1>12, <3>1, <3>2 DEF Generate, TypeInv
    <3>3. CASE Refresh(th)
        BY <1>1, <1>7, <1>8, <1>12, <3>3 DEF Refresh, FlagInv
    <3>4. CASE ~Generate(th) /\ ~Refresh(th)
      <4>1. pc'[th] \notin {"refresh", "recheck"}
          BY <1>1, <3>4
             DEF RunTask, Begin, Abandon, SetRunning, Work, CheckCert,
                 Recheck, Finish, Goto, TypeInv
      <4> QED  BY <4>1
    <3> QED  BY <3>2, <3>3, <3>4
  <2>2. Over(t) => Over(t)'
    <3>1. pc[th] = "finish" => pc'[th] = "none"
        BY <1>1
           DEF RunTask, Begin, SetRunning, Work, CheckCert, Generate, Refresh,
               Recheck, Finish, Goto, TypeInv
    <3>2. pc[th] # "none"
        BY DEF RunTask, Begin, SetRunning, Work, CheckCert, Generate, Refresh,
               Recheck, Finish
    <3> QED
        BY <1>3, <1>6, <1>9, <1>12, <3>1, <3>2 DEF Over
  <2>3. ASSUME t \in cancelKey, t \notin cancelKey', row[t] # "absent"
        PROVE  Over(t)'
    <3>1. /\ pc[th] \in {"begin", "check", "recheck"}
          /\ pc'[th] = "none"
        BY <1>1, <1>8, <2>3
           DEF RunTask, Begin, Abandon, SetRunning, Work, CheckCert, Generate,
               Refresh, Recheck, Finish, Goto, TypeInv
    <3>2. ~InQueue(t) /\ pc[<<t, "direct">>] = "none"
        BY <1>8, <1>12, <3>1, QueuedIsOnly DEF Before
    <3> QED  BY <1>3, <1>6, <1>9, <1>12, <2>3, <3>1, <3>2 DEF Over
  <2>4. Cancelled(t)' = Cancelled(t)
      BY <1>4 DEF Cancelled
  <2>5. Cancelled(t)' =>
          row'[t] # "absent" /\ (t \in cancelKey' \/ Over(t)')
      BY <1>6, <1>8, <2>2, <2>3, <2>4 DEF FlagInv
  <2> QED
      BY <1>3, <1>8, <1>12, <2>1, <2>5 DEF FlagInv
<1> QED  BY <1>11, <1>12

\* A request for a new task, its being queued and its being dequeued: none of
\* them concerns a task that is over.
LEMMA QueueStepsFlag ==
    ASSUME Reliable, QueueInv, CancelInv, NEW s \in Tasks,
           \/ \E w \in Workers : QueueTask(s, w)
           \/ Enqueue(s)
           \/ \E w \in Workers : Dequeue(w) /\ s = Head(queue),
           NEW t \in Tasks
    PROVE  FlagInv(t)'
<1> USE DEF QueueInv, TypeInv
<1>1. /\ \A k \in {"direct", "queued"} :
             <<t, k>> \in Threads /\ <<s, k>> \in Threads
      /\ FlagInv(t) /\ FlagInv(s) /\ valkeyUp
    BY DEF Threads, CancelInv
<1>2. UNCHANGED <<acked, cancel, deletion, cancelKey, runs>>
    BY DEF QueueTask, Enqueue, Dequeue
<1>3. Cancelled(t)' = Cancelled(t)
    BY <1>2 DEF Cancelled
<1>4. ASSUME NEW w \in Workers, QueueTask(s, w) PROVE FlagInv(t)'
  <2>1. pc' = [pc EXCEPT ![<<s, "direct">>] = "enqueue"]
      BY <1>4 DEF QueueTask, Goto
  <2>2. /\ pc'[<<t, "queued">>] = pc[<<t, "queued">>]
        /\ pc'[<<t, "direct">>] = IF t = s THEN "enqueue"
                                  ELSE pc[<<t, "direct">>]
      BY <1>1, <2>1
  <2>3. t = s => ~Cancelled(t)
      BY <1>1, <1>4 DEF QueueTask, FlagInv
  <2>4. t # s => row'[t] = row[t] /\ (Over(t) => Over(t)')
      BY <1>4, <2>2 DEF QueueTask, Over, InQueue
  <2> QED  BY <1>1, <1>2, <1>3, <2>2, <2>3, <2>4 DEF FlagInv
<1>5. CASE Enqueue(s)
  <2>1. /\ pc' = [pc EXCEPT ![<<s, "direct">>] = "none"]
        /\ pc[<<s, "direct">>] = "enqueue"
      BY <1>1, <1>5 DEF Enqueue, Goto, Reliable
  <2>2. /\ pc'[<<t, "queued">>] = pc[<<t, "queued">>]
        /\ pc'[<<t, "direct">>] = IF t = s THEN "none"
                                  ELSE pc[<<t, "direct">>]
      BY <1>1, <2>1
  <2>3. row'[t] = row[t]
      BY <1>5 DEF Enqueue
  <2>4. Over(t) => Over(t)'
    <3>1. Over(t) => t # s
        BY <2>1 DEF Over
    <3>2. /\ Len(queue') = Len(queue) + 1 /\ queue'[Len(queue) + 1] = s
          /\ \A i \in 1 .. Len(queue) : queue'[i] = queue[i]
          /\ Len(queue) \in Nat
      <4>1. queue' = Append(queue, s)
          BY <1>1, <1>5 DEF Enqueue, Reliable
      <4> QED  BY <4>1
    <3>3. ASSUME t # s, NEW i \in 1 .. Len(queue'), queue'[i] = t
          PROVE  i \in 1 .. Len(queue) /\ queue[i] = t
        BY <3>2, <3>3
    <3> QED  BY <2>2, <2>3, <3>1, <3>3 DEF Over, InQueue
  <2> QED  BY <1>1, <1>2, <1>3, <2>2, <2>3, <2>4 DEF FlagInv
<1>6. ASSUME NEW w \in Workers, Dequeue(w), s = Head(queue) PROVE FlagInv(t)'
  <2>1. pc' = [pc EXCEPT ![<<s, "queued">>] = "begin"]
      BY <1>6 DEF Dequeue, Goto
  <2>2. /\ pc'[<<t, "direct">>] = pc[<<t, "direct">>]
        /\ pc'[<<t, "queued">>] = IF t = s THEN "begin"
                                  ELSE pc[<<t, "queued">>]
      BY <1>1, <2>1
  <2>3. row'[t] = row[t]
      BY <1>6 DEF Dequeue
  <2>4. Over(t) => Over(t)'
    <3>1. /\ s = queue[1] /\ 1 \in 1 .. Len(queue) /\ Len(queue) \in Nat
          /\ Len(queue') = Len(queue) - 1
          /\ \A i \in 1 .. Len(queue') : queue'[i] = queue[i + 1]
        BY <1>6 DEF Dequeue
    <3>2. (Over(t) => t # s) /\ (InQueue(t)' => InQueue(t))
        BY <3>1 DEF Over, InQueue
    <3> QED  BY <2>2, <2>3, <3>2 DEF Over
  <2> QED  BY <1>1, <1>2, <1>3, <2>2, <2>3, <2>4 DEF FlagInv
<1> QED  BY <1>4, <1>5, <1>6

\* The steps of cancel_task, called by either route: whoever sets the flag sets the
\* key too, as Valkey answers.
LEMMA CancelStepsFlag ==
    ASSUME Reliable, QueueInv, CancelInv, ListedRows, NEW s \in Tasks,
           \/ \E w \in Workers : CancelTask(s, w)
           \/ CancelRead(s) \/ CancelWrite(s) \/ DeleteCancel(s)
           \/ (DeleteRead \/ DeleteWrite) /\ s = deletion.task,
           NEW t \in Tasks
    PROVE  FlagInv(t)'
<1> USE DEF QueueInv, TypeInv
<1>1. FlagInv(t) /\ FlagInv(s) /\ valkeyUp
    BY DEF CancelInv
<1>2. UNCHANGED <<pc, queue, runs>>
    BY DEF CancelTask, CancelRead, CancelWrite, DeleteCancel, DeleteRead, DeleteWrite
<1>3. row[t] # "absent" => row'[t] # "absent"
    BY DEF CancelTask, CancelRead, CancelWrite, DeleteCancel, DeleteRead, DeleteWrite,
           CommitCancelled, SetStatus
<1>4. Over(t) => Over(t)'
    BY <1>2, <1>3 DEF Over, InQueue
<1>5. cancelKey \subseteq cancelKey'
    BY DEF CancelTask, CancelRead, CancelWrite, DeleteCancel, DeleteRead, DeleteWrite,
           FlagCancelled
<1>6. Cancelled(t)' => Cancelled(t) \/ (t \in cancelKey' /\ row[t] # "absent")
  <2>1. ASSUME NEW w \in Workers, CancelTask(s, w)
        PROVE  Cancelled(t)' => Cancelled(t)
                                \/ (t \in cancelKey' /\ row[t] # "absent")
    <3>1. t # s => cancel'[t] = cancel[t]
        BY <2>1 DEF CancelTask
    <3>2. /\ s \in cancelKey' /\ row[s] # "absent"
          /\ UNCHANGED <<acked, deletion>>
        BY <1>1, <2>1 DEF CancelTask, FlagCancelled, Unfinished
    <3> QED  BY <3>1, <3>2 DEF Cancelled
  <2>2. CASE CancelRead(s) \/ CancelWrite(s)
    <3>1. t # s => cancel'[t] = cancel[t]
        BY <2>2 DEF CancelRead, CancelWrite
    <3>2. /\ cancel[s].step # "idle" /\ acked' \subseteq acked \cup {s}
          /\ UNCHANGED deletion
        BY <2>2 DEF CancelRead, CancelWrite, CommitCancelled
    <3> QED  BY <3>1, <3>2 DEF Cancelled
  <2>3. CASE DeleteCancel(s)
    <3>1. /\ UNCHANGED <<cancel, acked>> /\ s \in cancelKey'
          /\ deletion'.task = s
        BY <1>1, <2>3 DEF DeleteCancel, FlagCancelled
    <3>2. row[s] # "absent"
        BY <2>3 DEF DeleteCancel, ListedRows
    <3> QED  BY <3>1, <3>2 DEF Cancelled
  <2>4. CASE (DeleteRead \/ DeleteWrite) /\ s = deletion.task
    <3>1. /\ UNCHANGED cancel /\ deletion'.task = deletion.task
          /\ deletion.step \in {"read", "write"} /\ acked' \subseteq acked \cup {s}
        BY <2>4 DEF DeleteRead, DeleteWrite, CommitCancelled
    <3> QED  BY <2>4, <3>1 DEF Cancelled
  <2> QED  BY <2>1, <2>2, <2>3, <2>4
<1> QED  BY <1>1, <1>2, <1>3, <1>4, <1>5, <1>6 DEF FlagInv

\* What else can happen leaves the key alone and adds nothing to the list; a crash
\* only ends threads and requests, and a restart only settles rows.
LEMMA OthersFlag ==
    ASSUME QueueInv, CancelInv,
           UNCHANGED <<runs, cancelKey, acked>>,
           \A t \in Tasks : InQueue(t)' => InQueue(t),
           \A t \in Tasks : row[t] # "absent" => row'[t] # "absent",
           \A t \in Tasks : cancel'[t] = cancel[t] \/ cancel'[t] = NoCancel,
           deletion' = deletion \/ deletion'.step \notin {"read", "write"},
           \A th \in Threads : pc'[th] = pc[th] \/ pc'[th] = "none",
           NEW t \in Tasks
    PROVE  FlagInv(t)'
<1>1. FlagInv(t)
    BY DEF CancelInv
<1>2. /\ <<t, "direct">> \in Threads /\ <<t, "queued">> \in Threads
    BY DEF Threads
<1>3. Cancelled(t)' => Cancelled(t)
    BY DEF Cancelled, NoCancel
<1>4. Over(t) => Over(t)'
    BY <1>2 DEF Over
<1> QED  BY <1>1, <1>2, <1>3, <1>4 DEF FlagInv

\* Valkey stays up, and cancel keys stay.
LEMMA ReliableSteps ==
    ASSUME Reliable, valkeyUp, [Next]_vars
    PROVE  valkeyUp' /\ ~ \E t \in Tasks : ExpireCancelKey(t)
<1>1. ASSUME NEW th \in Threads, RunTask(th) PROVE UNCHANGED valkeyUp
    BY <1>1 DEF RunTask, Begin, SetRunning, Work, CheckCert, Generate, Refresh,
                Recheck, Finish
<1>2. ASSUME NEW t \in Tasks, NEW w \in Workers, QueueTask(t, w) \/ CancelTask(t, w)
      PROVE  UNCHANGED valkeyUp
    BY <1>2 DEF QueueTask, CancelTask
<1>3. ASSUME NEW t \in Tasks, Enqueue(t) \/ CancelRead(t) \/ CancelWrite(t)
                                \/ DeleteCancel(t) \/ ExpireCancelKey(t)
      PROVE  UNCHANGED valkeyUp
    BY <1>3 DEF Enqueue, CancelRead, CancelWrite, DeleteCancel, ExpireCancelKey
<1>4. ASSUME NEW w \in Workers, \/ Dequeue(w) \/ DequeueLost(w) \/ DeleteCert(w)
                                \/ PollRead(w) \/ Crash(w) \/ Restart(w)
      PROVE  UNCHANGED valkeyUp
    BY <1>4 DEF Dequeue, DequeueLost, DeleteCert, PollRead, Crash, Restart
<1>5. ASSUME DeleteRead \/ DeleteWrite \/ DeleteCommit \/ DeleteFiles \/ PollWrite
      PROVE  UNCHANGED valkeyUp
    BY <1>5 DEF DeleteRead, DeleteWrite, DeleteCommit, DeleteFiles, PollWrite
<1>6. ASSUME UNCHANGED vars PROVE UNCHANGED valkeyUp
    BY <1>6 DEF vars
<1>7. ~ ValkeyGoes /\ ~ ValkeyReturns /\ ~ \E t \in Tasks : ExpireCancelKey(t)
    BY DEF ValkeyGoes, ValkeyReturns, ExpireCancelKey, Reliable
<1>8. UNCHANGED valkeyUp
    BY <1>1, <1>2, <1>3, <1>4, <1>5, <1>6, <1>7 DEF Next
<1> QED  BY <1>7, <1>8

LEMMA CancelInductive ==
    ASSUME Reliable
    PROVE  QueueInv /\ CancelInv /\ ListedRows /\ [Next]_vars => CancelInv'
<1> SUFFICES ASSUME QueueInv, CancelInv, ListedRows, [Next]_vars PROVE CancelInv'
    OBVIOUS
<1>1. valkeyUp' /\ ~ \E t \in Tasks : ExpireCancelKey(t)
    BY ReliableSteps DEF CancelInv
<1>2. ASSUME NEW t \in Tasks PROVE FlagInv(t)'
  <2>1. CASE \E th \in Threads : RunTask(th)
      BY <2>1, RunsQueued, RunTaskFlag
  <2>2. CASE \E s \in Tasks : \/ \E w \in Workers : QueueTask(s, w)
                              \/ Enqueue(s)
      BY <2>2, QueueStepsFlag
  <2>3. ASSUME NEW w \in Workers, Dequeue(w) PROVE FlagInv(t)'
    <3>1. Head(queue) \in Tasks
        BY <2>3 DEF Dequeue, QueueInv, TypeInv
    <3> QED  BY <2>3, <3>1, QueueStepsFlag
  <2>4. CASE \E s \in Tasks : \/ \E w \in Workers : CancelTask(s, w)
                              \/ CancelRead(s) \/ CancelWrite(s)
                              \/ DeleteCancel(s)
      BY <2>4, CancelStepsFlag
  <2>5. CASE DeleteRead \/ DeleteWrite
    <3>1. deletion.task \in Tasks
        BY <2>5 DEF DeleteRead, DeleteWrite, QueueInv, TypeInv
    <3> QED  BY <2>5, <3>1, CancelStepsFlag
  <2>6. ASSUME \/ \E w \in Workers : \/ DequeueLost(w) \/ DeleteCert(w) \/ PollRead(w)
                                     \/ Crash(w) \/ Restart(w)
               \/ DeleteCommit \/ DeleteFiles \/ PollWrite \/ UNCHANGED vars
        PROVE  FlagInv(t)'
    <3>1. UNCHANGED <<runs, cancelKey, acked>>
        BY <2>6 DEF DequeueLost, DeleteCert, PollRead, Crash, Restart, DeleteCommit,
                    DeleteFiles, PollWrite, vars
    <3>2. \A s \in Tasks : row[s] # "absent" => row'[s] # "absent"
      <4>1. ASSUME NEW s \in Tasks, NEW w \in Workers, QueueTask(s, w)
            PROVE  \A r \in Tasks : row[r] # "absent" => row'[r] # "absent"
          BY <4>1 DEF QueueTask, QueueInv, TypeInv
      <4> QED  BY <4>1, RowsStay DEF QueueInv
    <3>3. \A s \in Tasks : InQueue(s)' => InQueue(s)
      <4>1. ASSUME NEW w \in Workers, DequeueLost(w), NEW s \in Tasks
            PROVE  InQueue(s)' => InQueue(s)
        <5>1. /\ Len(queue) \in Nat /\ Len(queue') = Len(queue) - 1
              /\ \A i \in 1 .. Len(queue') : queue'[i] = queue[i + 1]
            BY <4>1 DEF DequeueLost, QueueInv, TypeInv
        <5> QED  BY <5>1 DEF InQueue
      <4>2. CASE UNCHANGED queue
          BY <4>2 DEF InQueue
      <4>3. UNCHANGED queue \/ \E w \in Workers : DequeueLost(w)
          BY <2>6 DEF DeleteCert, PollRead, Crash, Restart, Lead, DeleteCommit,
                      DeleteFiles, PollWrite, vars
      <4> QED  BY <4>1, <4>2, <4>3
    <3>4. \A s \in Tasks : cancel'[s] = cancel[s] \/ cancel'[s] = NoCancel
        BY <2>6 DEF DequeueLost, DeleteCert, PollRead, Crash, Restart, DeleteCommit,
                    DeleteFiles, PollWrite, vars
    <3>5. deletion' = deletion \/ deletion'.step \notin {"read", "write"}
      <4>1. ASSUME NEW w \in Workers, DeleteCert(w) \/ Crash(w)
            PROVE  deletion' = deletion \/ deletion'.step \notin {"read", "write"}
          BY <4>1 DEF DeleteCert, Crash, NoDeletion
      <4>2. CASE DeleteCommit
          BY <4>2 DEF DeleteCommit, QueueInv, TypeInv
      <4>3. CASE DeleteFiles
          BY <4>3 DEF DeleteFiles, NoDeletion
      <4> QED
          BY <2>6, <4>1, <4>2, <4>3 DEF DequeueLost, PollRead, Restart, PollWrite, vars
    <3>6. \A th \in Threads : pc'[th] = pc[th] \/ pc'[th] = "none"
        BY <2>6 DEF DequeueLost, DeleteCert, PollRead, Crash, Restart, DeleteCommit,
                    DeleteFiles, PollWrite, vars
    <3> QED  BY <3>1, <3>2, <3>3, <3>4, <3>5, <3>6, OthersFlag
  <2>7. ~ ValkeyGoes /\ ~ ValkeyReturns
      BY DEF ValkeyGoes, ValkeyReturns, CancelInv, Reliable
  <2> QED  BY <1>1, <2>1, <2>2, <2>3, <2>4, <2>5, <2>6, <2>7 DEF Next
<1> QED  BY <1>1, <1>2 DEF CancelInv

\* In every reachable state the flag of a cancelled task is up, unless nothing
\* of the task can come to a check any more.
THEOREM FlagStaysUp ==
    ASSUME Reliable
    PROVE  Spec => []CancelInv
<1>1. Init => CancelInv
  <2> SUFFICES ASSUME Init PROVE CancelInv
      OBVIOUS
  <2>1. ASSUME NEW t \in Tasks PROVE FlagInv(t)
    <3>1. <<t, "direct">> \in Threads /\ <<t, "queued">> \in Threads
        BY DEF Threads
    <3> QED  BY <3>1 DEF Init, FlagInv, Cancelled, NoCancel, NoDeletion
  <2> QED  BY <2>1 DEF Init, CancelInv
<1>2. QueueInv /\ CancelInv /\ ListedRows /\ [Next]_vars => CancelInv'
    BY CancelInductive
<1> QED  BY <1>1, <1>2, ListedRowsAlways, WaysToRunBounded, PTL DEF Spec

\* The re-check after acme.sh sees every cancel_task call that has returned
\* True, wherever it was served: for any number of tasks and workers, with
\* crashes, as long as Valkey answers and cancel keys do not expire.
THEOREM CancelSeenCorrect ==
    ASSUME Reliable
    PROVE  Spec => CancelSeen
<1>1. QueueInv /\ CancelInv /\ [Next]_vars =>
        [\A th \in Threads :
            (Recheck(th) /\ pc'[th] = "finish") => th[1] \notin acked]_vars
  <2> SUFFICES ASSUME QueueInv, CancelInv, NEW th \in Threads,
                      Recheck(th),
                      pc'[th] = "finish", th[1] \in acked
               PROVE  FALSE
      OBVIOUS
  <2>1. PICK t \in Tasks : th = <<t, "queued">>
      BY RunsQueued DEF RunTask
  <2>2. th[1] = t /\ pc[<<t, "queued">>] = "recheck"
      BY <2>1 DEF Recheck
  <2>3. ~IsCancelled(t, at[th])
    <3>1. CASE IsCancelled(t, at[th])
      <4>1. pc' = [pc EXCEPT ![th] = "none"]
          BY <2>2, <3>1 DEF Recheck, Goto
      <4> QED  BY <4>1 DEF QueueInv, TypeInv
    <3> QED  BY <3>1
  <2>4. t \notin cancelKey
      BY <2>3 DEF IsCancelled, CancelInv
  <2> QED
      BY <2>2, <2>4 DEF CancelInv, FlagInv, Cancelled, Over
<1> QED  BY <1>1, FlagStaysUp, WaysToRunBounded, PTL DEF Spec, CancelSeen
=============================================================================
