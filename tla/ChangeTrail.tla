----------------------------- MODULE ChangeTrail -----------------------------
(***************************************************************************)
(* The way of a change from its commit to the running configuration and to *)
(* the audit log: AuditEventMiddleware (core/middleware.py), the audit     *)
(* worker (services/audit.py), the feed updater and its automatic apply    *)
(* (services/security_list_feeds.py), and the parts of write_config and    *)
(* save_config_snapshot (services/haproxy.py) that stamp an apply with the *)
(* time by which audit_events.py tells applied changes from pending ones.  *)
(*                                                                         *)
(* A change is one edit of the configuration tables, of a security list or *)
(* of anything else; the tables and the generated files are the sets of    *)
(* the changes they contain.  Applies are taken one at a time: how the     *)
(* queue, the task rows and the file lock make them so is the subject of   *)
(* TaskQueue and ConfigLifecycle.                                          *)
(***************************************************************************)
EXTENDS Integers, Sequences, FiniteSets, FiniteSetsExt

CONSTANTS
    Users,       \* requests that may be in progress at once
    OnLeader,    \* those served by the process that runs the workers
    None,
    Kinds,       \* the tasks users ask for, out of AllKinds
    Bad,         \* the changes whose haproxy.cfg "haproxy -c" rejects
    Faults,      \* what may go wrong, out of AllFaults
    MaxChanges,  \* bound on the changes
    MaxRefreshes,\* bound on those among them a feed makes
    MaxTasks,    \* bound on the tasks users ask for
    MaxFaults    \* bound on the faults

AllKinds == {"apply", "revert", "rollback"}

\* flip: Valkey goes; reply: it does what it is asked and the answer is lost; write:
\* an insert into audit_events fails; crash: the leader dies; cancel: a user cancels
\* a task that waits; raise: a comparison, a rendering or the start of a task fails.
AllFaults == {"flip", "reply", "write", "crash", "cancel", "raise"}

ASSUME UsersAssumption == OnLeader \subseteq Users
ASSUME KindsAssumption == Kinds \subseteq AllKinds
ASSUME FaultsAssumption == Faults \subseteq AllFaults
ASSUME BoundsAssumption ==
    MaxChanges \in Nat /\ MaxRefreshes \in Nat /\ MaxTasks \in Nat /\ MaxFaults \in Nat

VARIABLES
    \* The database.
    tables,    \* the changes the configuration tables contain
    records,   \* config_snapshots: the created_at of each row
    marker,    \* the setting last_applied_at, 0 when there is none
    log,       \* audit_events
    \* Files.
    lists,     \* the list changes in the lists/ files
    cfg,       \* the other changes in haproxy.cfg.applied
    latest,    \* haproxy_config_snapshot.json
    files,     \* files[r]: the snapshot file of the row r
    \* Valkey.
    up,        \* it answers
    queue,     \* audit_queue
    tasks,     \* task_queue
    \* Threads.
    leads,     \* a process runs the workers: this one, or none
    request,   \* request[u]: the change u's request committed, None when idle
    held,      \* the event the audit worker took and has not written
    feed,      \* the feed updater
    job,       \* the task being executed
    \* Counters and history.
    clock,     \* time of the last row that was stamped
    changes, refreshes, asked, faults,
    began,     \* when the newest finished apply began
    cut,       \* an apply ended without its stamp, and none finished since
    lost,      \* changes whose event a fault destroyed
    missed,    \* feed changes left to the next manual apply
    returned   \* changes that a restore has put back into the tables

vars == <<tables, records, marker, log, lists, cfg, latest, files, up, queue, tasks,
          leads, request, held, feed, job, clock, changes, refreshes, asked, faults,
          began, cut, lost, missed, returned>>

Change == [no : 1 .. MaxChanges, list : BOOLEAN, fed : BOOLEAN]

\* What save_config_snapshot writes.
Snapshot == [tables : SUBSET Change, records : SUBSET Nat, marker : Nat]
ASSUME NoneAssumption == None \notin Snapshot

Lists(s) == {c \in s : c.list}
Others(s) == {c \in s : ~c.list}

Idle == [at |-> "idle", change |-> None, seen |-> {}]
Task(kind, auto, seen) == [kind |-> kind, auto |-> auto, seen |-> seen]
NoJob == [at |-> "idle", auto |-> FALSE, seen |-> {}, rend |-> {}, began |-> 0, stamp |-> 0]

JobSteps == {"idle", "restore", "rollback", "render", "lists", "install", "snapshot", "record", "stamp"}

TypeOK ==
    /\ tables \subseteq Change
    /\ \A c, d \in tables : c.no = d.no => c = d
    /\ records \subseteq 1 .. clock
    /\ marker \in records \cup {0}
    /\ \A e \in log : e.at \in 1 .. clock /\ ~e.change.fed
    /\ lists \subseteq Lists(Change) /\ cfg \subseteq Others(Change)
    /\ latest = None \/ latest.tables \subseteq Change
    /\ records \subseteq DOMAIN files /\ DOMAIN files \subseteq 1 .. clock
    /\ up \in BOOLEAN /\ leads \in BOOLEAN
    /\ \A i \in 1 .. Len(queue) : queue[i] \in Change
    /\ \A i \in 1 .. Len(tasks) : tasks[i].kind \in AllKinds
    /\ \A u \in Users : request[u] = None \/ request[u] \in Change
    /\ held = None \/ held \in Change
    /\ feed.at \in {"idle", "generate", "compare"}
    /\ job.at \in JobSteps /\ job.rend \subseteq Change
    /\ began <= clock /\ cut \in BOOLEAN
    /\ \A c \in missed : c.fed
    /\ \A c \in lost : ~c.fed

Init ==
    /\ tables = {} /\ records = {} /\ marker = 0 /\ log = {}
    /\ lists = {} /\ cfg = {} /\ latest = None /\ files = [r \in {} |-> None]
    /\ up = TRUE /\ leads \in BOOLEAN /\ queue = <<>> /\ tasks = <<>>
    /\ request = [u \in Users |-> None]
    /\ held = None /\ feed = Idle /\ job = NoJob
    /\ clock = 0 /\ changes = 0 /\ refreshes = 0 /\ asked = 0 /\ faults = 0
    /\ began = 0 /\ cut = FALSE /\ lost = {} /\ missed = {}
    /\ returned = {}

fileVars == <<lists, cfg, latest, files>>
dbVars == <<tables, records, marker, returned>>
auditVars == <<log, queue, request, held, lost>>
service == <<up, leads>>
applyVars == <<feed, tasks, job, began, cut, missed>>
counters == <<changes, refreshes, asked, faults>>

Fault(f) == f \in Faults /\ faults < MaxFaults /\ faults' = faults + 1

\* A row's created_at: every row of the model is stamped at a time of its own.
Stamped(c, at) == [change |-> c, at |-> at]

-----------------------------------------------------------------------------
(* Requests and the audit log.                                             *)

\* The handler commits its change; the response then passes the middleware.
Edit(u) ==
    /\ request[u] = None
    /\ changes < MaxChanges
    /\ changes' = changes + 1
    /\ \E list \in BOOLEAN :
         LET c == [no |-> changes + 1, list |-> list, fed |-> FALSE]
         IN  tables' = tables \cup {c} /\ request' = [request EXCEPT ![u] = c]
    /\ UNCHANGED <<records, marker, returned, log, fileVars, service, queue, held,
                   lost, applyVars, clock, refreshes, asked, faults>>

\* Whether enqueue_audit_event finds the worker in this process and Valkey.
CanEnqueue(u) == u \in OnLeader /\ leads /\ up

Enqueue(u) ==
    /\ request[u] # None
    /\ CanEnqueue(u)
    /\ queue' = Append(queue, request[u])
    /\ request' = [request EXCEPT ![u] = None]
    /\ UNCHANGED <<dbVars, log, fileVars, service, held, lost, applyVars, clock,
                   counters>>

\* write_audit_event; created_at is the time of the insert.
Write(c) ==
    /\ clock' = clock + 1
    /\ log' = log \cup {Stamped(c, clock + 1)}

\* Variant: the request does not fall back to writing the event itself.
WriteThrough_Dropped(u) ==
    /\ request[u] # None
    /\ ~CanEnqueue(u)
    /\ request' = [request EXCEPT ![u] = None]
    /\ UNCHANGED <<dbVars, log, fileVars, service, queue, held, lost, applyVars,
                   clock, counters>>

\* Otherwise the request writes it itself.
WriteThrough(u) ==
    /\ request[u] # None
    /\ ~CanEnqueue(u)
    /\ Write(request[u])
    /\ request' = [request EXCEPT ![u] = None]
    /\ UNCHANGED <<dbVars, fileVars, service, queue, held, lost, applyVars, counters>>

\* write_audit_event catches what the database raises and drops the event.
WriteFails(u) ==
    /\ request[u] # None
    /\ ~CanEnqueue(u)
    /\ Fault("write")
    /\ lost' = lost \cup {request[u]}
    /\ request' = [request EXCEPT ![u] = None]
    /\ UNCHANGED <<dbVars, log, fileVars, service, queue, held, applyVars, clock,
                   changes, refreshes, asked>>

\* The push is done and its answer lost: enqueue returns False, and the request
\* writes an event that is in the queue as well (or drops it, as after Enqueue).
EnqueueTwice(u) ==
    /\ request[u] # None
    /\ CanEnqueue(u)
    /\ Fault("reply")
    /\ queue' = Append(queue, request[u])
    /\ Write(request[u])
    /\ request' = [request EXCEPT ![u] = None]
    /\ UNCHANGED <<dbVars, fileVars, service, held, lost, applyVars, changes,
                   refreshes, asked>>

\* One turn of _audit_worker_loop.
Dequeue ==
    /\ held = None /\ leads /\ up /\ queue # <<>>
    /\ held' = Head(queue)
    /\ queue' = Tail(queue)
    /\ UNCHANGED <<dbVars, log, fileVars, service, request, lost, applyVars, clock,
                   counters>>

\* BRPOP has taken the event and its answer is lost: dequeue returns None.
DequeueLost ==
    /\ held = None /\ leads /\ up /\ queue # <<>>
    /\ Fault("reply")
    /\ lost' = lost \cup {Head(queue)}
    /\ queue' = Tail(queue)
    /\ UNCHANGED <<dbVars, log, fileVars, service, request, held, applyVars, clock,
                   changes, refreshes, asked>>

WriteHeld ==
    /\ held # None
    /\ Write(held)
    /\ held' = None
    /\ UNCHANGED <<dbVars, fileVars, service, queue, request, lost, applyVars,
                   counters>>

WriteHeldFails ==
    /\ held # None
    /\ Fault("write")
    /\ lost' = lost \cup {held}
    /\ held' = None
    /\ UNCHANGED <<dbVars, log, fileVars, service, queue, request, applyVars, clock,
                   changes, refreshes, asked>>

-----------------------------------------------------------------------------
(* The feed updater.                                                       *)

\* refresh_feed found other values: it replaces the entries of the list.
Refresh ==
    /\ feed.at = "idle" /\ leads
    /\ changes < MaxChanges /\ refreshes < MaxRefreshes
    /\ changes' = changes + 1
    /\ refreshes' = refreshes + 1
    /\ LET c == [no |-> changes + 1, list |-> TRUE, fed |-> TRUE]
       IN  /\ tables' = tables \cup {c}
           /\ feed' = [at |-> "generate", change |-> c, seen |-> {}]
    /\ UNCHANGED <<records, marker, returned, auditVars, fileVars, service, tasks,
                   job, began, cut, missed, clock, asked, faults>>

\* Variant: the files are generated from what was read before the refresh.
Generate_Stale ==
    /\ feed.at = "generate"
    /\ feed' = [feed EXCEPT !.at = "compare", !.seen = tables \ {feed.change}]
    /\ UNCHANGED <<dbVars, auditVars, fileVars, service, tasks, job, began, cut,
                   missed, clock, counters>>

\* security_list_files_unapplied generates the files from the tables ...
Generate ==
    /\ feed.at = "generate"
    /\ feed' = [feed EXCEPT !.at = "compare", !.seen = tables]
    /\ UNCHANGED <<dbVars, auditVars, fileVars, service, tasks, job, began, cut,
                   missed, clock, counters>>

ListsDiffer == lists # Lists(feed.seen)

\* Variant: the rest of the configuration is not compared.
OthersDiffer_Ignored == FALSE

OthersDiffer == cfg # Others(feed.seen)

\* What raises in between, up to queue_task, is caught: nothing is queued.
FeedRaises ==
    /\ feed.at # "idle"
    /\ Fault("raise")
    /\ feed' = Idle
    /\ missed' = missed \cup {feed.change}
    /\ UNCHANGED <<dbVars, auditVars, fileVars, service, tasks, job, began, cut,
                   clock, changes, refreshes, asked>>

\* ... and compares them with the applied ones; an apply is queued if lists
\* differ and nothing else does.
Compare ==
    /\ feed.at = "compare"
    /\ feed' = Idle
    /\ \/ /\ ~ListsDiffer
          /\ UNCHANGED <<tasks, missed>>
       \/ /\ ListsDiffer /\ OthersDiffer
          /\ missed' = missed \cup {feed.change}
          /\ UNCHANGED tasks
       \/ /\ ListsDiffer /\ ~OthersDiffer
          /\ tasks' = Append(tasks, Task("apply", TRUE, feed.seen))
          /\ UNCHANGED missed
    /\ UNCHANGED <<dbVars, auditVars, fileVars, service, job, began, cut, clock,
                   counters>>

-----------------------------------------------------------------------------
(* Applies and reverts.                                                    *)

Ask ==
    /\ asked < MaxTasks
    /\ asked' = asked + 1
    /\ \E kind \in Kinds : tasks' = Append(tasks, Task(kind, FALSE, {}))
    /\ UNCHANGED <<dbVars, auditVars, fileVars, service, feed, job, began, cut,
                   missed, clock, changes, refreshes, faults>>

Take ==
    /\ job.at = "idle" /\ leads /\ tasks # <<>>
    /\ LET t == Head(tasks)
       IN  job' = [NoJob EXCEPT !.at = CASE t.kind = "apply" -> "render"
                                         [] t.kind = "revert" -> "restore"
                                         [] t.kind = "rollback" -> "rollback",
                                !.auto = t.auto, !.seen = t.seen, !.began = clock]
    /\ tasks' = Tail(tasks)
    /\ UNCHANGED <<dbVars, auditVars, fileVars, service, feed, began, cut, missed,
                   clock, counters>>

\* The task is taken and not executed: it has been cancelled, the answer of BRPOP
\* is lost, or its row cannot be read.
TakeNothing ==
    /\ job.at = "idle" /\ leads /\ tasks # <<>>
    /\ Fault("cancel") \/ Fault("reply") \/ Fault("raise")
    /\ missed' = missed \cup {c \in Head(tasks).seen : c.fed}
    /\ tasks' = Tail(tasks)
    /\ UNCHANGED <<dbVars, auditVars, fileVars, service, feed, job, began, cut, clock,
                   changes, refreshes, asked>>

Goto(step) == job' = [job EXCEPT !.at = step]

Unfinished == job' = NoJob /\ cut' = TRUE

\* Variant: a restore takes the rows of config_snapshots and keeps the marker.
RestoreFrom_KeepsMarker(snapshot) ==
    /\ tables' = snapshot.tables
    /\ records' = snapshot.records
    /\ UNCHANGED marker
    /\ returned' = returned \cup (snapshot.tables \ tables)
    /\ Goto("render")
    /\ UNCHANGED cut

\* load_config_snapshot: the setting last_applied_at and config_snapshots are
\* among the tables the snapshot restores.
RestoreFrom(snapshot) ==
    /\ tables' = snapshot.tables
    /\ records' = snapshot.records
    /\ marker' = snapshot.marker
    /\ returned' = returned \cup (snapshot.tables \ tables)
    /\ Goto("render")
    /\ UNCHANGED cut

\* A revert reads the latest snapshot, a rollback the file of a row, which may
\* have been pruned since it was asked for.
Restore ==
    /\ \/ job.at = "restore" /\ latest # None /\ RestoreFrom(latest)
       \/ job.at = "rollback" /\ \E r \in records : RestoreFrom(files[r])
       \/ /\ \/ job.at = "restore" /\ latest = None
             \/ job.at = "rollback"
          /\ Unfinished
          /\ UNCHANGED dbVars
    /\ UNCHANGED <<auditVars, fileVars, service, feed, tasks, began, missed, clock,
                   counters>>

\* write_config, step 1.
Render ==
    /\ job.at = "render"
    /\ job' = [job EXCEPT !.at = "lists", !.rend = tables]
    /\ UNCHANGED <<dbVars, auditVars, fileVars, service, feed, tasks, began, cut,
                   missed, clock, counters>>

\* generate_config fails: nothing has been written.
RenderRaises ==
    /\ job.at = "render"
    /\ Fault("raise")
    /\ Unfinished
    /\ missed' = missed \cup {c \in tables : c.fed}
    /\ UNCHANGED <<dbVars, auditVars, fileVars, service, feed, tasks, began, clock,
                   changes, refreshes, asked>>

\* Step 2 reads the lists from the tables again.
WriteLists ==
    /\ job.at = "lists"
    /\ lists' = Lists(tables)
    /\ Goto("install")
    /\ UNCHANGED <<dbVars, auditVars, cfg, latest, files, service, feed, tasks, began,
                   cut, missed, clock, counters>>

\* Steps 6 and 7.
Install ==
    /\ job.at = "install"
    /\ \/ /\ \E c \in Others(job.rend) : c.no \in Bad
          /\ Unfinished
          /\ UNCHANGED cfg
       \/ /\ \A c \in Others(job.rend) : c.no \notin Bad
          /\ cfg' = Others(job.rend)
          /\ Goto("snapshot")
          /\ UNCHANGED cut
    /\ UNCHANGED <<dbVars, auditVars, lists, latest, files, service, feed, tasks,
                   began, missed, clock, counters>>

\* Step 9, save_config_snapshot: the tables are read once more, before this
\* apply's row and marker are in them.
BuildSnapshot ==
    /\ job.at = "snapshot"
    /\ latest' = [tables |-> tables, records |-> records, marker |-> marker]
    /\ Goto("record")
    /\ UNCHANGED <<dbVars, auditVars, lists, cfg, files, service, feed, tasks, began,
                   cut, missed, clock, counters>>

CommitRecord ==
    /\ job.at = "record"
    /\ clock' = clock + 1
    /\ records' = records \cup {clock + 1}
    /\ files' = [r \in DOMAIN files \cup {clock + 1} |->
                   IF r = clock + 1 THEN latest ELSE files[r]]
    /\ job' = [job EXCEPT !.at = "stamp", !.stamp = clock + 1]
    /\ UNCHANGED <<tables, marker, returned, auditVars, lists, cfg, latest, service,
                   feed, tasks, began, cut, missed, counters>>

\* Variant: the marker is set once and kept.
Stamp_Once ==
    /\ job.at = "stamp"
    /\ marker' = IF marker = 0 THEN job.stamp ELSE marker
    /\ began' = job.began
    /\ cut' = FALSE
    /\ job' = NoJob
    /\ UNCHANGED <<tables, records, returned, auditVars, fileVars, service, feed,
                   tasks, missed, clock, counters>>

\* The marker is set in a transaction of its own.
Stamp ==
    /\ job.at = "stamp"
    /\ marker' = job.stamp
    /\ began' = job.began
    /\ cut' = FALSE
    /\ job' = NoJob
    /\ UNCHANGED <<tables, records, returned, auditVars, fileVars, service, feed,
                   tasks, missed, clock, counters>>

-----------------------------------------------------------------------------
(* Faults.                                                                 *)

\* Valkey stops answering, and comes back with what it held.
GoDown ==
    /\ up
    /\ Fault("flip")
    /\ up' = FALSE
    /\ UNCHANGED <<leads, dbVars, auditVars, fileVars, applyVars, clock, changes,
                   refreshes, asked>>

ComeBack ==
    /\ ~up
    /\ up' = TRUE
    /\ UNCHANGED <<leads, dbVars, auditVars, fileVars, applyVars, clock, counters>>

\* The leader dies: its requests, the event in the worker's hands, the refresh and
\* the apply in progress are gone.
Crash ==
    /\ Fault("crash")
    /\ leads' = FALSE
    /\ LET mine == {u \in OnLeader : request[u] # None}
       IN  /\ request' = [u \in Users |-> IF u \in mine THEN None ELSE request[u]]
           /\ lost' = lost \cup {request[u] : u \in mine}
                           \cup (IF held = None THEN {} ELSE {held})
    /\ held' = None
    /\ missed' = missed \cup (IF feed.at = "idle" THEN {} ELSE {feed.change})
                        \cup (IF job.at = "idle" THEN {} ELSE {c \in tables : c.fed})
    /\ feed' = Idle
    /\ job' = NoJob
    /\ cut' = (cut \/ job.at # "idle")
    /\ UNCHANGED <<dbVars, log, fileVars, up, queue, tasks, began, clock, changes,
                   refreshes, asked>>

\* Only a process that wins the lock at its start runs the workers, be it this one
\* or another: at its first try, at a later one, or never.
Lead ==
    /\ ~leads
    /\ leads' = TRUE
    /\ UNCHANGED <<up, dbVars, auditVars, fileVars, applyVars, clock, counters>>

-----------------------------------------------------------------------------

Audit == Dequeue \/ WriteHeld
Feed == Generate \/ Compare
Apply ==
    \/ Take \/ Restore \/ Render \/ WriteLists \/ Install
    \/ BuildSnapshot \/ CommitRecord \/ Stamp

Next ==
    \/ \E u \in Users :
        \/ Edit(u) \/ Enqueue(u) \/ WriteThrough(u)
        \/ WriteFails(u) \/ EnqueueTwice(u)
    \/ Audit \/ DequeueLost \/ WriteHeldFails
    \/ Refresh \/ Feed \/ FeedRaises
    \/ Ask \/ Apply \/ TakeNothing \/ RenderRaises
    \/ GoDown \/ ComeBack \/ Crash \/ Lead

Spec == Init /\ [][Next]_vars

\* Running threads run on, and a service that is down is brought back.
FairSpec ==
    /\ Spec
    /\ \A u \in Users : WF_vars(Enqueue(u) \/ WriteThrough(u))
    /\ WF_vars(Audit) /\ WF_vars(Feed) /\ WF_vars(Apply) /\ WF_vars(ComeBack)

-----------------------------------------------------------------------------
(* Properties.                                                             *)

\* _get_last_applied_at: the marker, else the newest snapshot row, else None.
LastApplied == IF marker # 0 THEN marker ELSE Max(records \cup {0})
ShownApplied(e) == e.at <= LastApplied

\* An automatic apply brings no change outside the lists live that was already
\* in the tables when the refresh compared them with the files: what it sweeps
\* up came later, or was brought back (_maybe_auto_apply_after_feed_refresh).
LateSweepOnly ==
    job.auto /\ job.at \in {"lists", "install"} =>
        (Others(job.rend) \ cfg) \cap job.seen \subseteq returned

\* When no apply runs and the last one was not cut short, the audit log shows
\* every event as applied that was written before that apply began, whatever
\* markers a revert or a rollback has restored meanwhile.
AppliedShown ==
    job.at = "idle" /\ ~cut => \A e \in log : e.at <= began => ShownApplied(e)

\* Every change a user commits gets its audit event, by the queue or by the
\* request itself, unless the event was destroyed in the worker's hands, on its
\* way there, with the process or by a failed write, or waits for a leader.
Recorded ==
    \A n \in 1 .. MaxChanges :
        (\E c \in tables : c.no = n /\ ~c.fed)
            ~> \/ \E e \in log : e.change.no = n
               \/ \E c \in lost : c.no = n
               \/ ~leads /\ \E i \in 1 .. Len(queue) : queue[i].no = n

\* A list a feed has changed is written to its file without anybody's help,
\* unless something else was pending when the refresh looked, the leader died or
\* another fault stopped the comparison or the apply, the apply waits for a leader,
\* or a revert or a rollback took the change back.
FeedArrives ==
    \A n \in 1 .. MaxChanges :
        (\E c \in tables : c.no = n /\ c.fed)
            ~> \/ \E c \in lists \cup missed : c.no = n
               \/ ~leads /\ \E i \in 1 .. Len(tasks) : \E c \in tasks[i].seen : c.no = n
               \/ \A c \in tables : c.no # n

\* "unrelated pending config edits (...) are never swept up by an automatic
\* apply": an automatic apply changes nothing but the lists.  It does, when an
\* edit is committed between the comparison and the apply.
NeverSweptUp ==
    job.auto /\ job.at = "install" => Others(job.rend) = cfg

\* The marker is "the source of truth for pending vs applied": an event shown
\* as applied belongs to a change that is in the files.  It need not be: the
\* tables are rendered before, and the marker is the time after.
ShownAppliedIsLive ==
    \A e \in log : ShownApplied(e) => e.change \in lists \cup cfg

\* An event once shown as applied stays so, since snapshots restore no log.
\* It does not: the marker itself is restored with the settings.
AppliedStays == [][\A e \in log : ShownApplied(e) => ShownApplied(e)']_vars

=============================================================================
