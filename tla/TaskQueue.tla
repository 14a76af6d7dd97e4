----------------------------- MODULE TaskQueue ------------------------------
(***************************************************************************)
(* Background tasks: backend/app/services/tasks.py, the two API routes     *)
(* that cancel tasks and the ones that issue and delete a certificate      *)
(* (backend/app/api/v1/tasks.py, certificates.py).                         *)
(*                                                                         *)
(* A task is a database row and, usually, an item in a Valkey list.  The   *)
(* single worker thread of a leader pops items; an issue_certificate task  *)
(* then runs in a thread of its own, any other inside the worker thread.   *)
(* A process leads if it won the lock when it started: who does, is the    *)
(* subject of LeaderElection; here it may be nobody, and more than one.    *)
(* If the item cannot be queued the worker that got the request runs the   *)
(* task itself.  A task can therefore be run by two threads: its Direct    *)
(* one and its Queued one.                                                 *)
(*                                                                         *)
(* Every issue_certificate task concerns the same certificate.  Any other  *)
(* task stands for apply, revert, rollback and renewal, whose effect on    *)
(* the configuration is ConfigLifecycle's subject.                         *)
(***************************************************************************)
EXTENDS Integers, Sequences, FiniteSets

CONSTANTS
    NumTasks,    \* bound on the rows ever inserted into tasks
    Issue,       \* the ids whose task_type is issue_certificate
    Workers,     \* uvicorn worker processes
    Leader,      \* the one that runs the task worker at first
    Mortal,      \* the ones that may die
    Faults       \* which of AllFaults may happen

Tasks == 1 .. NumTasks

\* crash: a process dies; valkey: outages; reply: LPUSH takes effect but its
\* answer is lost; pop: so does BRPOP; expiry: the cancel key's hour passes;
\* poll: somebody asks for the issue status.
AllFaults == {"crash", "valkey", "reply", "pop", "expiry", "poll"}

ASSUME TasksAssumption == NumTasks \in Nat /\ Issue \subseteq Tasks
ASSUME LeaderAssumption == Leader \in Workers /\ Mortal \subseteq Workers
ASSUME FaultsAssumption == Faults \subseteq AllFaults

Threads == Tasks \X {"direct", "queued"}

VARIABLES
    row,        \* row[t]: status column, or absent / deleted
    queue,      \* the Valkey list haproxy_tasks, oldest item first
    valkeyUp,
    cancelKey,  \* ids with a key task:cancel:{id}
    local,      \* local[w]: _cancelled_tasks of worker w
    up,         \* up[w]: the process runs
    leads,      \* the processes that run the task worker
    pc,         \* pc[th]: where each thread of a task is
    at,         \* at[th]: the worker it runs on
    result,     \* result[th]: status of the result it is about to record
    cancel,     \* cancel[t]: progress of a cancel_task call for t
    deletion,   \* progress of delete_cert
    poll,       \* progress of get_cert_issue_status
    certRow,    \* the certificates row exists
    certFile,   \* cert_path exists on disk
    \* History variables, read by no guard.
    runs,       \* runs[t]: how often the task's work was begun
    issued,     \* tasks whose own generate_certificate returned ok
    acked,      \* tasks whose cancel_task call returned True
    stranded    \* tasks whose thread or item is gone before its time

vars == <<row, queue, valkeyUp, cancelKey, local, up, leads, pc, at, result, cancel,
          deletion, poll, certRow, certFile, runs, issued, acked, stranded>>

\* The requests that are in progress, the certificate, and the history.
requests == <<cancel, deletion, poll>>
cert == <<certRow, certFile>>
history == <<runs, issued, acked, stranded>>

Unfinished == {"pending", "running"}
Terminal == {"success", "failed", "cancelled"}

NoCancel == [step |-> "idle", worker |-> Leader]
NoDeletion == [step |-> "idle", worker |-> Leader, todo |-> {}, rows |-> {}, task |-> 0]
NoPoll == [worker |-> Leader, task |-> 0]

TypeOK ==
    /\ row \in [Tasks -> Unfinished \cup Terminal \cup {"absent", "deleted"}]
    /\ queue \in Seq(Tasks)
    /\ valkeyUp \in BOOLEAN
    /\ cancelKey \subseteq Tasks
    /\ local \in [Workers -> SUBSET Tasks]
    /\ up \in [Workers -> BOOLEAN]
    /\ leads \subseteq {w \in Workers : up[w]}
    /\ pc \in [Threads -> {"none", "enqueue", "begin", "start", "work",
                           "check", "generate", "refresh", "recheck",
                           "finish"}]
    /\ at \in [Threads -> Workers]
    /\ result \in [Threads -> {"success", "failed"}]
    /\ cancel \in [Tasks -> [step : {"idle", "read", "write"},
                             worker : Workers]]
    /\ deletion \in [step : {"idle", "cancel", "read", "write", "files"},
                     worker : Workers, todo : SUBSET Tasks, rows : SUBSET Tasks,
                     task : Tasks \cup {0}]
    /\ poll \in [worker : Workers, task : Tasks \cup {0}]
    /\ certRow \in BOOLEAN
    /\ certFile \in BOOLEAN
    /\ runs \in [Tasks -> 0 .. 2]
    /\ issued \subseteq Issue
    /\ acked \subseteq Tasks
    /\ stranded \subseteq Tasks

Init ==
    /\ row = [t \in Tasks |-> "absent"]
    /\ queue = <<>>
    /\ valkeyUp = TRUE
    /\ cancelKey = {}
    /\ local = [w \in Workers |-> {}]
    /\ up = [w \in Workers |-> TRUE]
    /\ leads = {Leader}
    /\ pc = [th \in Threads |-> "none"]
    /\ at = [th \in Threads |-> Leader]
    /\ result = [th \in Threads |-> "failed"]
    /\ cancel = [t \in Tasks |-> NoCancel]
    /\ deletion = NoDeletion
    /\ poll = NoPoll
    /\ certRow = TRUE
    /\ certFile = FALSE
    /\ runs = [t \in Tasks |-> 0]
    /\ issued = {}
    /\ acked = {}
    /\ stranded = {}

Exists(t) == row[t] \notin {"absent", "deleted"}

Goto(th, label) == pc' = [pc EXCEPT ![th] = label]

\* An UPDATE of a row that is gone changes nothing (and raises).
SetStatus(t, status) ==
    row' = [row EXCEPT ![t] = IF Exists(t) THEN status ELSE @]

\* _is_cancelled: the in-process set, then Valkey if it answers.
IsCancelled(t, w) == t \in local[w] \/ (valkeyUp /\ t \in cancelKey)

\* _clear_cancelled
ClearCancelled(t, w) ==
    /\ local' = [local EXCEPT ![w] = @ \ {t}]
    /\ cancelKey' = IF valkeyUp THEN cancelKey \ {t} ELSE cancelKey

\* Mutant: only this process learns of the cancellation.
FlagCancelled_LocalOnly(t, w) ==
    /\ local' = [local EXCEPT ![w] = @ \cup {t}]
    /\ UNCHANGED cancelKey

\* The first half of cancel_task.
FlagCancelled(t, w) ==
    /\ local' = [local EXCEPT ![w] = @ \cup {t}]
    /\ cancelKey' = IF valkeyUp THEN cancelKey \cup {t} ELSE cancelKey

-----------------------------------------------------------------------------
(* queue_task, on worker w.                                                *)

\* The row is committed before anything is queued.  An issue request needs its
\* certificate, which a deletion under way has not removed yet.
QueueTask(t, w) ==
    /\ up[w]
    /\ row[t] = "absent"
    /\ \A s \in 1 .. t - 1 : row[s] # "absent"
    /\ t \in Issue => certRow
    /\ row' = [row EXCEPT ![t] = "pending"]
    /\ Goto(<<t, "direct">>, "enqueue")
    /\ at' = [at EXCEPT ![<<t, "direct">>] = w]
    /\ UNCHANGED <<queue, valkeyUp, cancelKey, local, up, leads, result, requests,
                   cert, history>>

\* is_available and enqueue, or else _dispatch_task on this worker.
Enqueue(t) ==
    LET th == <<t, "direct">> IN
    /\ pc[th] = "enqueue"
    /\ \/ /\ valkeyUp
          /\ queue' = Append(queue, t)
          /\ Goto(th, "none")
       \/ /\ ~valkeyUp
          /\ Goto(th, "begin")
          /\ UNCHANGED queue
       \/ /\ "reply" \in Faults /\ valkeyUp
          /\ queue' = Append(queue, t)
          /\ Goto(th, "begin")
    /\ UNCHANGED <<row, valkeyUp, cancelKey, local, up, leads, at, result, requests,
                   cert, history>>

-----------------------------------------------------------------------------
(* _worker_loop and process_task, on a leader.                             *)

\* The worker thread is free: it runs only tasks that get no thread of their
\* own, one at a time.
WorkerFree(w) ==
    \A t \in Tasks \ Issue : pc[<<t, "queued">>] = "none" \/ at[<<t, "queued">>] # w

Dequeue(w) ==
    /\ w \in leads /\ valkeyUp
    /\ WorkerFree(w)
    /\ queue # <<>>
    /\ queue' = Tail(queue)
    /\ Goto(<<Head(queue), "queued">>, "begin")
    /\ at' = [at EXCEPT ![<<Head(queue), "queued">>] = w]
    /\ UNCHANGED <<row, valkeyUp, cancelKey, local, up, leads, result, requests,
                   cert, history>>

\* BRPOP has taken the item and its answer is lost: dequeue returns None.
DequeueLost(w) ==
    /\ "pop" \in Faults
    /\ w \in leads /\ valkeyUp
    /\ WorkerFree(w)
    /\ queue # <<>>
    /\ queue' = Tail(queue)
    /\ stranded' = stranded \cup {Head(queue)}
    /\ UNCHANGED <<row, valkeyUp, cancelKey, local, up, leads, pc, at, result,
                   requests, cert, runs, issued, acked>>

-----------------------------------------------------------------------------
(* _run_task.                                                              *)

Abandon(th) ==
    /\ SetStatus(th[1], "cancelled")
    /\ ClearCancelled(th[1], at[th])
    /\ Goto(th, "none")

\* Load the row; end if it is gone; end if the task was cancelled.
Begin(th) ==
    LET t == th[1] IN
    /\ pc[th] = "begin"
    /\ \/ /\ ~Exists(t)
          /\ Goto(th, "none")
          /\ UNCHANGED <<row, local, cancelKey>>
       \/ /\ Exists(t)
          /\ IsCancelled(t, at[th])
          /\ Abandon(th)
       \/ /\ Exists(t)
          /\ ~IsCancelled(t, at[th])
          /\ Goto(th, "start")
          /\ UNCHANGED <<row, local, cancelKey>>
    /\ UNCHANGED <<queue, valkeyUp, up, leads, at, result, requests, cert, history>>

\* status = "running", whatever it was; the commit raises if the row is gone.
SetRunning(th) ==
    LET t == th[1] IN
    /\ pc[th] = "start"
    /\ SetStatus(t, "running")
    /\ Goto(th, IF ~Exists(t) THEN "none"
                ELSE IF t \in Issue THEN "check" ELSE "work")
    /\ UNCHANGED <<queue, valkeyUp, cancelKey, local, up, leads, at, result, requests,
                   cert, history>>

\* Every other task type: the work succeeds, or fails or raises.  Nothing
\* looks at the cancel flag again.
Work(th) ==
    /\ pc[th] = "work"
    /\ runs' = [runs EXCEPT ![th[1]] = @ + 1]
    /\ \E outcome \in {"success", "failed"} :
        result' = [result EXCEPT ![th] = outcome]
    /\ Goto(th, "finish")
    /\ UNCHANGED <<row, queue, valkeyUp, cancelKey, local, up, leads, at, requests,
                   cert, issued, acked, stranded>>

\* issue_certificate: look at the flag again, then at the certificate row.
\* The commit expired the Task object: if its row is gone by now, reading its
\* id raises, in the handler of that exception too, and the thread ends.
CheckCert(th) ==
    LET t == th[1] IN
    /\ pc[th] = "check"
    /\ \/ /\ ~Exists(t)
          /\ Goto(th, "none")
          /\ UNCHANGED <<row, local, cancelKey, result>>
       \/ /\ Exists(t)
          /\ IsCancelled(t, at[th])
          /\ Abandon(th)
          /\ UNCHANGED result
       \/ /\ Exists(t)
          /\ ~IsCancelled(t, at[th])
          /\ certRow
          /\ Goto(th, "generate")
          /\ UNCHANGED <<row, local, cancelKey, result>>
       \/ /\ Exists(t)
          /\ ~IsCancelled(t, at[th])
          /\ ~certRow
          /\ Goto(th, "finish")
          /\ result' = [result EXCEPT ![th] = "failed"]
          /\ UNCHANGED <<row, local, cancelKey>>
    /\ UNCHANGED <<queue, valkeyUp, up, leads, at, requests, cert, history>>

\* generate_certificate raises, acme.sh fails, or it installs the files and commits.
\* The flush fails if the certificate row has been deleted meanwhile; nobody rolls
\* the session back, so that reading task.id raises, in the handler too, and the
\* thread ends with the row as it is.
Generate(th) ==
    LET t == th[1] IN
    /\ pc[th] = "generate"
    /\ runs' = [runs EXCEPT ![t] = @ + 1]
    /\ \/ /\ result' = [result EXCEPT ![th] = "failed"]
          /\ Goto(th, "recheck") \/ Goto(th, "finish")
          /\ UNCHANGED <<certFile, issued, stranded>>
       \/ /\ certRow
          /\ certFile' = TRUE
          /\ Goto(th, "refresh")
          /\ result' = [result EXCEPT ![th] = "success"]
          /\ issued' = issued \cup {t}
          /\ UNCHANGED stranded
       \/ /\ ~certRow
          /\ certFile' = TRUE
          /\ Goto(th, "none")
          /\ stranded' = stranded \cup {t}
          /\ UNCHANGED <<result, issued>>
    /\ UNCHANGED <<row, queue, valkeyUp, cancelKey, local, up, leads, at, requests,
                   certRow, acked>>

\* The commit expired the Task object; see CheckCert.
Refresh(th) ==
    /\ pc[th] = "refresh"
    /\ Goto(th, IF Exists(th[1]) THEN "recheck" ELSE "none")
    /\ UNCHANGED <<row, queue, valkeyUp, cancelKey, local, up, leads, at, result,
                   requests, cert, history>>

\* Cancelled while acme.sh ran: delete the files, leave the row alone.
Recheck(th) ==
    LET t == th[1] IN
    /\ pc[th] = "recheck"
    /\ \/ /\ IsCancelled(t, at[th])
          /\ ClearCancelled(t, at[th])
          /\ certFile' = FALSE
          /\ Goto(th, "none")
       \/ /\ ~IsCancelled(t, at[th])
          /\ Goto(th, "finish")
          /\ UNCHANGED <<local, cancelKey, certFile>>
    /\ UNCHANGED <<row, queue, valkeyUp, up, leads, at, result, requests, certRow,
                   history>>

\* Mutant: a status that no other part of the program knows.
Finish_Done(th) ==
    /\ pc[th] = "finish"
    /\ SetStatus(th[1], "done")
    /\ Goto(th, "none")
    /\ UNCHANGED <<queue, valkeyUp, cancelKey, local, up, leads, at, result, requests,
                   cert, history>>

\* The last commit: records the result over whatever the status is by now.
Finish(th) ==
    /\ pc[th] = "finish"
    /\ SetStatus(th[1], result[th])
    /\ Goto(th, "none")
    /\ UNCHANGED <<queue, valkeyUp, cancelKey, local, up, leads, at, result, requests,
                   cert, history>>

RunTask(th) ==
    \/ Begin(th) \/ SetRunning(th) \/ Work(th) \/ CheckCert(th)
    \/ Generate(th) \/ Refresh(th) \/ Recheck(th) \/ Finish(th)

-----------------------------------------------------------------------------
(* POST /tasks/{id}/cancel and cancel_task, on worker w.                   *)

CancelTask(t, w) ==
    /\ up[w]
    /\ row[t] \in Unfinished
    /\ cancel[t].step = "idle"
    /\ FlagCancelled(t, w)
    /\ cancel' = [cancel EXCEPT ![t] = [step |-> "read", worker |-> w]]
    /\ UNCHANGED <<row, queue, valkeyUp, up, leads, pc, at, result, deletion, poll,
                   cert, history>>

CancelRead(t) ==
    /\ cancel[t].step = "read"
    /\ cancel' = [cancel EXCEPT ![t] = IF row[t] \in Unfinished
                                       THEN [@ EXCEPT !.step = "write"]
                                       ELSE NoCancel]
    /\ UNCHANGED <<row, queue, valkeyUp, cancelKey, local, up, leads, pc, at, result,
                   deletion, poll, cert, history>>

\* The second half: the call returns True.
CommitCancelled(t) ==
    /\ SetStatus(t, "cancelled")
    /\ acked' = IF Exists(t) THEN acked \cup {t} ELSE acked

CancelWrite(t) ==
    /\ cancel[t].step = "write"
    /\ CommitCancelled(t)
    /\ cancel' = [cancel EXCEPT ![t] = NoCancel]
    /\ UNCHANGED <<queue, valkeyUp, cancelKey, local, up, leads, pc, at, result,
                   deletion, poll, cert, runs, issued, stranded>>

-----------------------------------------------------------------------------
(* DELETE /certificates/{id}, on worker w.                                 *)

DeleteCert(w) ==
    /\ up[w]
    /\ certRow
    /\ deletion.step = "idle"
    /\ deletion' = [step |-> "cancel", worker |-> w,
                    todo |-> {t \in Issue : row[t] \in Unfinished},
                    rows |-> {t \in Issue : Exists(t)}, task |-> 0]
    /\ UNCHANGED <<row, queue, valkeyUp, cancelKey, local, up, leads, pc, at, result,
                   cancel, poll, cert, history>>

\* cancel_task for a task that was unfinished when the tasks were listed.
DeleteCancel(t) ==
    /\ deletion.step = "cancel"
    /\ t \in deletion.todo
    /\ FlagCancelled(t, deletion.worker)
    /\ deletion' = [deletion EXCEPT !.step = "read", !.todo = @ \ {t}, !.task = t]
    /\ UNCHANGED <<row, queue, valkeyUp, up, leads, pc, at, result, cancel, poll,
                   cert, history>>

DeleteRead ==
    /\ deletion.step = "read"
    /\ deletion' = [deletion EXCEPT !.step = IF row[deletion.task] \in Unfinished
                                             THEN "write" ELSE "cancel"]
    /\ UNCHANGED <<row, queue, valkeyUp, cancelKey, local, up, leads, pc, at, result,
                   cancel, poll, cert, history>>

DeleteWrite ==
    /\ deletion.step = "write"
    /\ CommitCancelled(deletion.task)
    /\ deletion' = [deletion EXCEPT !.step = "cancel"]
    /\ UNCHANGED <<queue, valkeyUp, cancelKey, local, up, leads, pc, at, result,
                   cancel, poll, cert, runs, issued, stranded>>

\* One transaction removes the listed tasks and the certificate.
DeleteCommit ==
    /\ deletion.step = "cancel"
    /\ deletion.todo = {}
    /\ row' = [t \in Tasks |-> IF t \in deletion.rows THEN "deleted"
                               ELSE row[t]]
    /\ certRow' = FALSE
    /\ deletion' = [deletion EXCEPT !.step = "files", !.rows = {}]
    /\ UNCHANGED <<queue, valkeyUp, cancelKey, local, up, leads, pc, at, result,
                   cancel, poll, certFile, history>>

DeleteFiles ==
    /\ deletion.step = "files"
    /\ certFile' = FALSE
    /\ deletion' = NoDeletion
    /\ UNCHANGED <<row, queue, valkeyUp, cancelKey, local, up, leads, pc, at, result,
                   cancel, poll, certRow, history>>

-----------------------------------------------------------------------------
(* GET /certificates/issue-status reconciles the newest issue task.        *)

Newest(t) == Exists(t) /\ \A s \in Issue : Exists(s) => s <= t

PollRead(w) ==
    /\ "poll" \in Faults
    /\ up[w]
    /\ poll.task = 0
    /\ certRow /\ certFile
    /\ \E t \in Issue :
        /\ Newest(t)
        /\ row[t] \in {"failed", "running", "pending"}
        /\ poll' = [worker |-> w, task |-> t]
    /\ UNCHANGED <<row, queue, valkeyUp, cancelKey, local, up, leads, pc, at, result,
                   cancel, deletion, cert, history>>

PollWrite ==
    /\ poll.task # 0
    /\ SetStatus(poll.task, "success")
    /\ poll' = NoPoll
    /\ UNCHANGED <<queue, valkeyUp, cancelKey, local, up, leads, pc, at, result,
                   cancel, deletion, cert, history>>

-----------------------------------------------------------------------------
(* Crashes, restarts, outages.                                             *)

\* The tasks a request or a thread of w is about to settle.
InHands(w) ==
    {t \in Tasks :
        \/ \E k \in {"direct", "queued"} : pc[<<t, k>>] # "none" /\ at[<<t, k>>] = w
        \/ cancel[t].step # "idle" /\ cancel[t].worker = w
        \/ deletion.step # "idle" /\ deletion.worker = w /\ deletion.task = t}

\* Every thread and every request of the process is gone, with its memory.
Crash(w) ==
    /\ "crash" \in Faults /\ w \in Mortal
    /\ up[w]
    /\ up' = [up EXCEPT ![w] = FALSE]
    /\ leads' = leads \ {w}
    /\ local' = [local EXCEPT ![w] = {}]
    /\ pc' = [th \in Threads |-> IF at[th] = w THEN "none" ELSE pc[th]]
    /\ cancel' = [t \in Tasks |-> IF cancel[t].worker = w THEN NoCancel
                                  ELSE cancel[t]]
    /\ deletion' = IF deletion.worker = w THEN NoDeletion ELSE deletion
    /\ poll' = IF poll.worker = w THEN NoPoll ELSE poll
    /\ stranded' = stranded \cup (IF leads \subseteq {w} THEN {} ELSE InHands(w))
    /\ UNCHANGED <<row, queue, valkeyUp, cancelKey, at, result, cert, runs, issued,
                   acked>>

\* Mutant: rows that are still pending are left to the queue.
Reconciled_RunningOnly(t) ==
    IF row[t] # "running" THEN row[t]
    ELSE IF t \in Issue /\ certRow /\ certFile THEN "success" ELSE "failed"

\* cleanup_stale_tasks, run by a leader before its worker thread starts.
Reconciled(t) ==
    IF row[t] \notin Unfinished THEN row[t]
    ELSE IF t \in Issue /\ certRow /\ certFile THEN "success" ELSE "failed"

\* Mutant: a task that is still pending is queued again.
Lead_Requeues(w) ==
    /\ leads' = leads \cup {w}
    /\ row' = [t \in Tasks |-> Reconciled_RunningOnly(t)]
    /\ IF \E t \in Tasks : row[t] = "pending"
       THEN \E t \in Tasks : row[t] = "pending" /\ queue' = Append(queue, t)
       ELSE UNCHANGED queue
    /\ stranded' = {}

\* start_task_worker, in a process that has won the lock.
Lead(w) ==
    /\ leads' = leads \cup {w}
    /\ row' = [t \in Tasks |-> Reconciled(t)]
    /\ stranded' = {}
    /\ UNCHANGED queue

Restart(w) ==
    /\ ~up[w]
    /\ up' = [up EXCEPT ![w] = TRUE]
    /\ \/ Lead(w)
       \/ UNCHANGED <<leads, row, queue, stranded>>
    /\ UNCHANGED <<valkeyUp, cancelKey, local, pc, at, result, requests, cert, runs,
                   issued, acked>>

ValkeyGoes ==
    /\ "valkey" \in Faults
    /\ valkeyUp
    /\ valkeyUp' = FALSE
    /\ UNCHANGED <<row, queue, cancelKey, local, up, leads, pc, at, result, requests,
                   cert, history>>

ValkeyReturns ==
    /\ ~valkeyUp
    /\ valkeyUp' = TRUE
    /\ UNCHANGED <<row, queue, cancelKey, local, up, leads, pc, at, result, requests,
                   cert, history>>

\* _CANCEL_TTL has passed.
ExpireCancelKey(t) ==
    /\ "expiry" \in Faults
    /\ t \in cancelKey
    /\ cancelKey' = cancelKey \ {t}
    /\ UNCHANGED <<row, queue, valkeyUp, local, up, leads, pc, at, result, requests,
                   cert, history>>

-----------------------------------------------------------------------------

Next ==
    \/ \E t \in Tasks, w \in Workers : QueueTask(t, w) \/ CancelTask(t, w)
    \/ \E t \in Tasks : \/ Enqueue(t) \/ CancelRead(t) \/ CancelWrite(t)
                        \/ DeleteCancel(t) \/ ExpireCancelKey(t)
    \/ \E th \in Threads : RunTask(th)
    \/ \E w \in Workers : \/ Dequeue(w) \/ DequeueLost(w) \/ DeleteCert(w)
                          \/ PollRead(w) \/ Crash(w) \/ Restart(w)
    \/ DeleteRead \/ DeleteWrite \/ DeleteCommit \/ DeleteFiles \/ PollWrite
    \/ ValkeyGoes \/ ValkeyReturns

Spec == Init /\ [][Next]_vars

\* Threads that have begun go on, processes are restarted and Valkey comes
\* back.  The worker loop polls every few seconds for ever: a queue that is
\* reachable again and again is popped.  Nobody has to send requests, and no
\* process that is restarted has to win the lock.
Fairness ==
    /\ \A th \in Threads : WF_vars(RunTask(th))
    /\ \A t \in Tasks : /\ WF_vars(Enqueue(t)) /\ WF_vars(CancelRead(t))
                        /\ WF_vars(CancelWrite(t))
                        /\ WF_vars(DeleteCancel(t))
    /\ \A w \in Workers : SF_vars(Dequeue(w)) /\ WF_vars(Restart(w))
    /\ WF_vars(DeleteRead) /\ WF_vars(DeleteWrite)
    /\ WF_vars(DeleteCommit) /\ WF_vars(DeleteFiles)
    /\ WF_vars(ValkeyReturns)

FairSpec == Spec /\ Fairness

-----------------------------------------------------------------------------
(* Properties.                                                             *)

\* No thread runs a task's work a second time, across crashes, restarts with
\* cleanup_stale_tasks, outages of Valkey between insert and enqueue, and
\* cancellation: BRPOP hands an item to one worker, once, and a task that was
\* queued is not dispatched as well.
RunAtMostOnce == \A t \in Tasks : runs[t] <= 1

\* What may still begin the work of t: its item, the request that is about to queue
\* it, or a thread that has not come to it.
Waits(t) ==
    \/ \E i \in 1 .. Len(queue) : queue[i] = t
    \/ pc[<<t, "direct">>] = "enqueue"
    \/ \E k \in {"direct", "queued"} :
         pc[<<t, k>>] \in {"begin", "start", "work", "check", "generate"}

ticket ==
    [t \in Tasks |-> IF runs[t] > 0          THEN "used"
                     ELSE IF row[t] = "absent" THEN "none"
                     ELSE IF Waits(t)          THEN "open"
                     ELSE "void"]

Ticket == INSTANCE TaskTicket WITH begun <- runs

\* A request for a task is a ticket for one beginning of its work.  Whatever takes
\* the ticket away before (a cancel that was seen, a deleted row, the death of the
\* process that had the item or was about to queue it) takes it away for good: no
\* restart, no outage and no late answer brings the work about after all.  A ticket
\* is used once, which is RunAtMostOnce.
ImplementsTicket == Ticket!Spec

\* An issue task whose cancel_task call returned True before acme.sh was done
\* is not taken to its end: the re-check sees the flag wherever the request
\* was served.
CancelSeen ==
    [][\A th \in Threads :
        (Recheck(th) /\ pc'[th] = "finish") => th[1] \notin acked]_vars

\* Deleting a certificate and its tasks leaves no files behind once the threads
\* that were issuing it are gone: "Cert was deleted during issue - clean up
\* orphaned files".
NoOrphanFiles ==
    (/\ ~certRow /\ \A t \in Issue : ~Exists(t)
     /\ deletion.step = "idle" /\ \A th \in Threads : pc[th] = "none")
        => ~certFile

\* "Cert was deleted during issue; cleaned up orphaned files": the re-check
\* removes files only of a certificate that is deleted or being deleted.
CleanupMeansDeleted ==
    [][\A th \in Threads :
        (Recheck(th) /\ certFile /\ ~certFile')
            => ~certRow \/ deletion.step # "idle"]_vars

\* As long as there is a leader again and again, every task that was inserted comes
\* to an end, even if processes die while it runs or waits: cleanup_stale_tasks
\* settles what they left behind.  A task whose item or thread has been lost under a
\* leader that goes on is stranded: it is settled when the next one starts.
EveryTaskSettles ==
    []<>(leads # {}) =>
        \A t \in Tasks : []<>(row[t] \notin Unfinished \/ t \in stranded)

\* "Task cancelled": once cancel_task has returned True the task is not
\* reported as running or finished again.
CancelledStays ==
    [][\A t \in acked : row[t] = "cancelled"
        => row'[t] \in {"cancelled", "deleted"}]_vars

\* "Certificate was issued successfully": an issue task is reported as a
\* success only if that task issued the certificate.
SuccessMeansIssued ==
    \A t \in Issue : row[t] = "success" => t \in issued

\* "mark as 'failed' so the user knows to retry": a task that was declared
\* failed is not run after all.
FailedIsOver ==
    [][\A t \in Tasks : row[t] = "failed" => row'[t] # "running"]_vars

=============================================================================
