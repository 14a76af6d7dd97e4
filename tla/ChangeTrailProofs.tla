------------------------- MODULE ChangeTrailProofs --------------------------
(***************************************************************************)
(* Proofs about ChangeTrail for any number of requests, changes, tasks and *)
(* faults.                                                                 *)
(***************************************************************************)
EXTENDS ChangeTrail, TLAPS

\* The changes among the first n, the users' and the feeds' ones.
Known(n) == {c \in Change : c.no <= n}
UserChange == {c \in Change : ~c.fed}
FedChange == {c \in Change : c.fed}

-----------------------------------------------------------------------------
(* The base invariant: types, and what a snapshot may hold.                *)

CountInv == clock \in Nat /\ changes \in 0 .. MaxChanges

\* The changes the tables contain, or would after a revert or a rollback.
Kept == tables \cup (IF latest = None THEN {} ELSE latest.tables)
               \cup UNION {files[r].tables : r \in DOMAIN files}

\* Only changes that were made are there, each of them once.
TablesInv ==
    /\ Kept \in SUBSET Known(changes)
    /\ \A c, d \in Kept : c.no = d.no => c = d

\* What a restore makes of the rows and of the marker: every row has its file,
\* and the marker is the time of a row.
Sound(s) ==
    /\ s.records \in SUBSET (1 .. clock)
    /\ s.records \subseteq DOMAIN files
    /\ s.marker \in s.records \cup {0}

\* So it is in the database, in the latest snapshot and in those of the rows;
\* the apply that is about to stamp has its row.
MarkInv ==
    /\ Sound([records |-> records, marker |-> marker])
    /\ DOMAIN files \in SUBSET (1 .. clock)
    /\ latest # None => Sound(latest)
    /\ \A r \in DOMAIN files : Sound(files[r])
    /\ job.at = "record" => latest # None
    /\ job.at = "stamp" => job.stamp \in records

\* Events are about users' changes, wherever they are.
LogInv ==
    /\ \A e \in log : e.at \in 1 .. clock /\ e.change \in UserChange
    /\ queue \in Seq(UserChange)
    /\ request \in [Users -> UserChange \cup {None}]
    /\ held \in UserChange \cup {None}
    /\ lost \subseteq UserChange

FileInv == lists \subseteq Lists(Change) /\ cfg \subseteq Others(Known(changes))

FeedInv ==
    /\ feed \in [at : {"idle", "generate", "compare"},
                 change : FedChange \cup {None}, seen : SUBSET Known(changes)]
    /\ feed.at # "idle" => feed.change \in FedChange
    /\ missed \subseteq FedChange

Tasks(n) ==
    [kind : AllKinds, auto : BOOLEAN, seen : SUBSET Known(n)]

JobInv ==
    /\ tasks \in Seq(Tasks(changes))
    /\ job \in [at : JobSteps, auto : BOOLEAN, seen : SUBSET Known(changes),
                rend : SUBSET Known(changes), began : Nat, stamp : Nat]
    /\ job.began <= clock
    /\ began \in Nat /\ began <= clock

SwitchInv == up \in BOOLEAN /\ leads \in BOOLEAN /\ cut \in BOOLEAN

BaseInv ==
    /\ CountInv /\ TablesInv /\ MarkInv /\ LogInv /\ FileInv /\ FeedInv
    /\ JobInv /\ SwitchInv

-----------------------------------------------------------------------------
(* What the steps leave alone.                                             *)

\* Steps of the requests and of the audit worker.
LogStep ==
    \/ \E u \in Users :
         Enqueue(u) \/ WriteThrough(u) \/ WriteFails(u) \/ EnqueueTwice(u)
    \/ Audit \/ DequeueLost \/ WriteHeldFails

\* Steps of the feed updater after its refresh, of the queue and of the services.
SideStep ==
    \/ Feed \/ FeedRaises \/ Ask \/ TakeNothing
    \/ GoDown \/ ComeBack \/ Lead \/ UNCHANGED vars

LEMMA NextSteps ==
    ASSUME [Next]_vars
    PROVE  \/ \E u \in Users : Edit(u)
           \/ Refresh
           \/ LogStep
           \/ SideStep
           \/ Apply
           \/ RenderRaises
           \/ Crash
BY ZenonT(60) DEF Next, LogStep, SideStep

LEMMA LogFrame ==
    ASSUME LogStep
    PROVE  /\ UNCHANGED <<tables, records, marker, returned, lists, cfg, latest, files>>
           /\ UNCHANGED <<up, leads, feed, tasks, job, began, cut, missed, changes>>
           /\ clock' = clock \/ clock' = clock + 1
<1>1. CASE \E u \in Users :
             Enqueue(u) \/ WriteThrough(u) \/ WriteFails(u) \/ EnqueueTwice(u)
    BY <1>1 DEF Enqueue, WriteThrough, WriteFails, EnqueueTwice, Write, dbVars,
       fileVars, service, applyVars, counters
<1>2. CASE Audit \/ DequeueLost \/ WriteHeldFails
    BY <1>2 DEF Audit, Dequeue, WriteHeld, DequeueLost, WriteHeldFails, Write, dbVars,
       fileVars, service, applyVars, counters
<1> QED  BY <1>1, <1>2 DEF LogStep

LEMMA SideFrame ==
    ASSUME SideStep
    PROVE  /\ UNCHANGED <<tables, records, marker, returned, lists, cfg, latest, files>>
           /\ UNCHANGED <<log, queue, request, held, lost, job, began, cut>>
           /\ UNCHANGED <<clock, changes>>
<1>1. CASE Feed \/ FeedRaises
    BY <1>1 DEF Feed, Generate, Compare, FeedRaises, dbVars, fileVars, auditVars,
       counters
<1>2. CASE Ask \/ TakeNothing
    BY <1>2 DEF Ask, TakeNothing, dbVars, fileVars, auditVars
<1>3. CASE GoDown \/ ComeBack \/ Lead
    BY <1>3 DEF GoDown, ComeBack, Lead, dbVars, fileVars, auditVars, applyVars,
       counters
<1>4. CASE UNCHANGED vars
    BY <1>4 DEF vars
<1> QED  BY <1>1, <1>2, <1>3, <1>4 DEF SideStep

\* A step of an apply leaves the requests and the feed alone.
LEMMA ApplyFrame ==
    ASSUME Apply \/ RenderRaises
    PROVE  /\ UNCHANGED <<log, queue, request, held, lost, up, leads, feed, changes>>
           /\ \/ clock' = clock
              \/ CommitRecord /\ clock' = clock + 1
           /\ missed' = missed \/ RenderRaises
           /\ tasks' = tasks \/ Take
<1>1. CASE Take
    BY <1>1 DEF Take, auditVars, service, counters
<1>2. CASE Restore
    BY <1>2 DEF Restore, auditVars, service, counters
<1>3. CASE Render \/ WriteLists \/ BuildSnapshot \/ Stamp
    BY <1>3 DEF Render, WriteLists, BuildSnapshot, Stamp, auditVars, service, counters
<1>4. CASE Install
    BY <1>4 DEF Install, auditVars, service, counters
<1>5. CASE CommitRecord
    BY <1>5 DEF CommitRecord, auditVars, service, counters
<1>6. CASE RenderRaises
    BY <1>6 DEF RenderRaises, auditVars, service
<1> QED  BY <1>1, <1>2, <1>3, <1>4, <1>5, <1>6 DEF Apply

\* Restores apart, an apply leaves the database to its last two steps, and the
\* files to the steps that write them.
LEMMA RenderFrame ==
    ASSUME Apply \/ RenderRaises, ~ Restore
    PROVE  /\ UNCHANGED <<tables, returned>>
           /\ UNCHANGED records \/ CommitRecord
           /\ UNCHANGED marker \/ Stamp
           /\ UNCHANGED latest \/ BuildSnapshot
           /\ UNCHANGED files \/ CommitRecord
           /\ UNCHANGED cfg \/ Install
           /\ UNCHANGED lists \/ WriteLists
<1>1. CASE Take \/ Render \/ RenderRaises
    BY <1>1 DEF Take, Render, RenderRaises, dbVars, fileVars
<1>2. CASE WriteLists \/ Install
    BY <1>2 DEF WriteLists, Install, dbVars
<1>3. CASE BuildSnapshot \/ CommitRecord \/ Stamp
    BY <1>3 DEF BuildSnapshot, CommitRecord, Stamp, dbVars, fileVars
<1> QED  BY <1>1, <1>2, <1>3 DEF Apply

\* What a restore takes the tables from.
Snapshots ==
    (IF latest = None THEN {} ELSE {latest}) \cup {files[r] : r \in DOMAIN files}

\* The database afterwards.
Back(s) ==
    /\ tables' = s.tables /\ records' = s.records /\ marker' = s.marker
    /\ returned' = returned \cup (s.tables \ tables)

\* A restore that fails changes nothing.
LEMMA RestoreFrame ==
    ASSUME Restore, records \subseteq DOMAIN files
    PROVE  /\ UNCHANGED <<fileVars, tasks, began, missed, clock>>
           /\ \/ /\ UNCHANGED <<tables, records, marker, returned>>
                 /\ job' = NoJob /\ cut' = TRUE
              \/ /\ \E s \in Snapshots : Back(s)
                 /\ Goto("render") /\ cut' = cut
           /\ job.at \in {"restore", "rollback"}
<1>1. ASSUME NEW snapshot \in Snapshots, RestoreFrom(snapshot)
      PROVE  /\ \E s \in Snapshots : Back(s)
             /\ Goto("render") /\ cut' = cut
    BY <1>1 DEF RestoreFrom, Back
<1>2. CASE job.at = "restore" /\ latest # None /\ RestoreFrom(latest)
  <2>1. latest \in Snapshots
      BY <1>2 DEF Snapshots
  <2> QED  BY <1>1, <1>2, <2>1 DEF Restore
<1>3. ASSUME job.at = "rollback", NEW r \in records, RestoreFrom(files[r])
      PROVE  /\ \E s \in Snapshots : Back(s)
             /\ Goto("render") /\ cut' = cut
  <2>1. files[r] \in Snapshots
      BY <1>3 DEF Snapshots
  <2> QED  BY <1>1, <1>3, <2>1
<1>4. CASE /\ job.at = "restore" \/ job.at = "rollback"
           /\ Unfinished /\ UNCHANGED dbVars
    BY <1>4 DEF Restore, Unfinished, dbVars
<1> QED  BY <1>2, <1>3, <1>4 DEF Restore

-----------------------------------------------------------------------------
(* The base invariant is inductive.                                        *)

\* Time and the number of changes only grow.
LEMMA CountKept ==
    ASSUME CountInv, [Next]_vars
    PROVE  CountInv' /\ clock <= clock' /\ changes <= changes'
<1>1. /\ clock \in Nat /\ changes \in Nat /\ MaxChanges \in Nat
      /\ changes <= MaxChanges
    BY BoundsAssumption DEF CountInv
<1>2. CASE Refresh \/ \E u \in Users : Edit(u)
  <2>1. clock' = clock /\ changes' = changes + 1 /\ changes < MaxChanges
      BY <1>2 DEF Refresh, Edit
  <2> QED  BY <1>1, <2>1 DEF CountInv
<1>3. CASE LogStep \/ SideStep \/ Apply \/ RenderRaises \/ Crash
  <2>1. /\ changes' = changes
        /\ clock' = clock \/ clock' = clock + 1
      BY <1>3, LogFrame, SideFrame, ApplyFrame DEF Crash
  <2> QED  BY <1>1, <2>1 DEF CountInv
<1> QED  BY <1>2, <1>3, NextSteps

\* What is known stays known.
LEMMA KnownGrows ==
    ASSUME NEW n \in Nat, NEW m \in Nat, n <= m
    PROVE  Known(n) \subseteq Known(m)
BY DEF Known, Change

\* A change that is made now is not in any set of earlier ones.
LEMMA FreshChange ==
    ASSUME CountInv, changes < MaxChanges, NEW list \in BOOLEAN,
           NEW fed \in BOOLEAN
    PROVE  LET c == [no |-> changes + 1, list |-> list, fed |-> fed]
           IN  c \in Known(changes + 1) \ Known(changes)
BY BoundsAssumption DEF CountInv, Known, Change

\* A change is made by an edit or a refresh.
Made(list, fed) ==
    /\ changes < MaxChanges
    /\ changes' = changes + 1
    /\ tables' = tables \cup {[no |-> changes + 1, list |-> list, fed |-> fed]}
    /\ UNCHANGED <<records, marker, returned, latest, files, lists, cfg, job, tasks>>
    /\ UNCHANGED <<clock, up, leads, began, cut>>

LEMMA Making ==
    ASSUME Refresh \/ \E u \in Users : Edit(u)
    PROVE  \E list \in BOOLEAN, fed \in BOOLEAN : Made(list, fed)
<1>1. ASSUME NEW u \in Users, Edit(u)
      PROVE  \E list \in BOOLEAN, fed \in BOOLEAN : Made(list, fed)
    BY <1>1 DEF Edit, Made, fileVars, applyVars, service
<1>2. CASE Refresh
    BY <1>2 DEF Refresh, Made, fileVars, service
<1> QED  BY <1>1, <1>2

\* The tables change by an edit, a refresh or a restore only.
LEMMA TablesChange ==
    ASSUME BaseInv, [Next]_vars
    PROVE  \/ UNCHANGED <<tables, returned>>
           \/ \E list \in BOOLEAN, fed \in BOOLEAN : Made(list, fed)
           \/ /\ Restore
              /\ tables' \subseteq Kept /\ cfg' = cfg
              /\ returned' = returned \cup (tables' \ tables)
<1>1. CASE Restore
  <2>1. records \subseteq DOMAIN files
      BY DEF BaseInv, MarkInv, Sound
  <2>2. ASSUME NEW s \in Snapshots PROVE s.tables \subseteq Kept
      BY DEF Snapshots, Kept
  <2>3. cfg' = cfg
      BY <1>1 DEF Restore, fileVars
  <2> QED  BY <1>1, <2>1, <2>2, <2>3, RestoreFrame DEF Back
<1>2. CASE ~ Restore /\ (Apply \/ RenderRaises)
    BY <1>2, RenderFrame
<1>3. CASE LogStep \/ SideStep \/ Crash
    BY <1>3, LogFrame, SideFrame DEF Crash, dbVars
<1> QED  BY <1>1, <1>2, <1>3, Making, NextSteps

LEMMA TablesKept ==
    ASSUME BaseInv, [Next]_vars
    PROVE  TablesInv'
<1> USE DEF BaseInv
<1>1. CountInv' /\ changes <= changes' /\ changes \in Nat /\ changes' \in Nat
    BY CountKept DEF CountInv
<1>2. Known(changes) \subseteq Known(changes')
    BY <1>1, KnownGrows
<1>3. CASE Kept' \subseteq Kept
    BY <1>2, <1>3 DEF TablesInv
<1>4. ASSUME NEW list \in BOOLEAN, NEW fed \in BOOLEAN, Made(list, fed)
      PROVE  TablesInv'
  <2> DEFINE c == [no |-> changes + 1, list |-> list, fed |-> fed]
  <2>1. c \in Known(changes')
      BY <1>4, FreshChange DEF Made
  <2>2. \A d \in Kept : d.no # c.no
      BY <1>1 DEF TablesInv, Known, Change
  <2> HIDE DEF c
  <2>3. Kept' = Kept \cup {c}
      BY <1>4 DEF Made, Kept, c
  <2> QED  BY <1>2, <2>1, <2>2, <2>3 DEF TablesInv
<1>5. CASE Restore
  <2>1. tables' \subseteq Kept /\ UNCHANGED <<latest, files>>
    <3>1. UNCHANGED <<latest, files>>
        BY <1>5 DEF Restore, fileVars
    <3>2. records \subseteq DOMAIN files
        BY DEF MarkInv, Sound
    <3>3. ASSUME NEW s \in Snapshots PROVE s.tables \subseteq Kept
        BY DEF Snapshots, Kept
    <3>4. tables \subseteq Kept
        BY DEF Kept
    <3> QED  BY <1>5, <3>1, <3>2, <3>3, <3>4, RestoreFrame DEF Back
  <2> QED  BY <1>3, <2>1 DEF Kept
<1>6. CASE BuildSnapshot
  <2>1. UNCHANGED <<tables, files>> /\ latest'.tables = tables
      BY <1>6 DEF BuildSnapshot, dbVars
  <2> QED  BY <1>3, <2>1 DEF Kept
<1>7. CASE CommitRecord
  <2>1. /\ UNCHANGED <<tables, latest>> /\ latest # None
        /\ files' = [r \in DOMAIN files \cup {clock + 1} |->
                       IF r = clock + 1 THEN latest ELSE files[r]]
      BY <1>7 DEF CommitRecord, MarkInv
  <2>2. ASSUME NEW r \in DOMAIN files' PROVE files'[r].tables \subseteq Kept
      BY <2>1 DEF Kept
  <2> QED  BY <1>3, <2>1, <2>2 DEF Kept
<1>8. CASE LogStep \/ SideStep \/ Crash
  <2>1. UNCHANGED <<tables, latest, files>>
      BY <1>8, LogFrame, SideFrame DEF Crash, dbVars, fileVars
  <2> QED  BY <1>3, <2>1 DEF Kept
<1>9. CASE /\ Apply \/ RenderRaises
           /\ ~ Restore /\ ~ BuildSnapshot /\ ~ CommitRecord
  <2>1. UNCHANGED <<tables, latest, files>>
      BY <1>9, RenderFrame
  <2> QED  BY <1>3, <2>1 DEF Kept
<1> QED  BY <1>4, <1>5, <1>6, <1>7, <1>8, <1>9, Making, NextSteps

\* A task that is taken is a task of the queue, and begins with its first step.
LEMMA Taken ==
    ASSUME JobInv, Take
    PROVE  /\ Head(tasks) \in Tasks(changes)
           /\ tasks' = Tail(tasks) /\ began' = began
           /\ job' = [NoJob EXCEPT !.at = job'.at, !.auto = Head(tasks).auto,
                                   !.seen = Head(tasks).seen, !.began = clock]
           /\ job'.at \in {"render", "restore", "rollback"}
           /\ job'.auto = Head(tasks).auto /\ job'.seen = Head(tasks).seen
           /\ 1 \in 1 .. Len(tasks) /\ Head(tasks) = tasks[1]
<1>1. tasks \in Seq(Tasks(changes)) /\ tasks # <<>>
    BY DEF JobInv, Take
<1>2. /\ Head(tasks) \in Tasks(changes) /\ Head(tasks) = tasks[1]
      /\ 1 \in 1 .. Len(tasks)
    BY <1>1
<1> DEFINE at == CASE Head(tasks).kind = "apply" -> "render"
                   [] Head(tasks).kind = "revert" -> "restore"
                   [] Head(tasks).kind = "rollback" -> "rollback"
<1>3. Head(tasks).kind \in AllKinds
    BY <1>2 DEF Tasks
<1>4. at \in {"render", "restore", "rollback"}
    BY <1>3 DEF AllKinds
<1>5. /\ job' = [NoJob EXCEPT !.at = at, !.auto = Head(tasks).auto,
                              !.seen = Head(tasks).seen, !.began = clock]
      /\ tasks' = Tail(tasks) /\ began' = began
    BY DEF Take
<1> HIDE DEF at
<1>6. /\ job'.at = at
      /\ job'.auto = Head(tasks).auto /\ job'.seen = Head(tasks).seen
    BY <1>5 DEF NoJob
<1> QED  BY <1>2, <1>4, <1>5, <1>6

\* Rows are stamped later than every row before them, and a snapshot is taken
\* of the tables as they are.
LEMMA MarkKept ==
    ASSUME BaseInv, [Next]_vars
    PROVE  MarkInv'
<1> USE DEF BaseInv
<1>1. CountInv' /\ clock <= clock' /\ clock \in Nat /\ clock' \in Nat
    BY CountKept DEF CountInv
<1>2. 1 .. clock \subseteq 1 .. clock'
    BY <1>1
<1>3. ASSUME UNCHANGED <<records, marker, latest, files>>,
             job'.at \in {"record", "stamp"} => job' = job
      PROVE  MarkInv'
    BY <1>2, <1>3 DEF MarkInv, Sound
<1>4. CASE Refresh \/ \E u \in Users : Edit(u)
    BY <1>3, <1>4, Making DEF Made
<1>5. CASE LogStep \/ SideStep
    BY <1>3, <1>5, LogFrame, SideFrame
<1>6. CASE \/ Take \/ Render \/ RenderRaises \/ WriteLists \/ Install
           \/ Crash
  <2>1. UNCHANGED <<records, marker, latest, files>>
      BY <1>6 DEF Take, Render, RenderRaises, WriteLists, Install, Crash, dbVars,
         fileVars
  <2>2. job'.at \notin {"record", "stamp"}
    <3>1. CASE Take
        BY <3>1, Taken
    <3>2. CASE Render \/ WriteLists
        BY <3>2 DEF Render, WriteLists, Goto, JobInv
    <3>3. CASE Install \/ RenderRaises \/ Crash
        BY <3>3 DEF Install, RenderRaises, Crash, Goto, Unfinished, NoJob, JobInv
    <3> QED  BY <1>6, <3>1, <3>2, <3>3
  <2> QED  BY <1>3, <2>1, <2>2
<1>7. CASE Restore
  <2>1. records \subseteq DOMAIN files
      BY DEF MarkInv, Sound
  <2>2. UNCHANGED <<latest, files>> /\ job'.at \notin {"record", "stamp"}
    <3>1. /\ UNCHANGED fileVars
          /\ job' = NoJob \/ Goto("render")
        BY <1>7, <2>1, RestoreFrame
    <3> QED  BY <3>1 DEF fileVars, Goto, NoJob, JobInv
  <2>3. CASE UNCHANGED <<records, marker>>
      BY <1>3, <2>2, <2>3
  <2>4. ASSUME NEW s \in Snapshots, Back(s)
        PROVE  MarkInv'
    <3>1. Sound(s)
        BY DEF Snapshots, MarkInv
    <3> QED  BY <1>2, <2>2, <2>4, <3>1 DEF MarkInv, Sound, Back
  <2> QED  BY <1>7, <2>1, <2>3, <2>4, RestoreFrame
<1>8. CASE BuildSnapshot
  <2>1. /\ UNCHANGED <<tables, records, marker, files>>
        /\ job'.at # "stamp"
        /\ latest' = [tables |-> tables, records |-> records,
                      marker |-> marker]
      BY <1>8 DEF BuildSnapshot, dbVars, Goto, JobInv
  <2>2. latest' \in Snapshot
    <3>1. tables \in SUBSET Change
        BY DEF TablesInv, Kept, Known
    <3>2. records \in SUBSET Nat /\ marker \in Nat
        BY <1>1 DEF MarkInv, Sound
    <3> QED  BY <2>1, <3>1, <3>2 DEF Snapshot
  <2> QED  BY <1>2, <2>1, <2>2, NoneAssumption DEF MarkInv, Sound
<1>9. CASE CommitRecord
  <2>1. /\ records' = records \cup {clock + 1} /\ clock' = clock + 1
        /\ files' = [r \in DOMAIN files \cup {clock + 1} |->
                       IF r = clock + 1 THEN latest ELSE files[r]]
        /\ UNCHANGED <<tables, marker, latest>> /\ job'.stamp = clock + 1
        /\ job'.at = "stamp" /\ latest # None
      BY <1>9 DEF CommitRecord, MarkInv, JobInv
  <2>2. clock + 1 \in 1 .. clock'
      BY <1>1, <2>1
  <2>3. DOMAIN files' = DOMAIN files \cup {clock + 1}
      BY <2>1
  <2> DEFINE SoundNow(s) ==
               /\ s.records \in SUBSET (1 .. clock')
               /\ s.records \subseteq DOMAIN files'
               /\ s.marker \in s.records \cup {0}
  <2>4. ASSUME NEW s, Sound(s) PROVE SoundNow(s)
      BY <1>2, <2>3, <2>4 DEF Sound
  <2>5. ASSUME NEW r \in DOMAIN files' PROVE SoundNow(files'[r])
    <3>1. CASE r = clock + 1
        BY <2>1, <2>4, <3>1 DEF MarkInv
    <3>2. CASE r # clock + 1
        BY <2>1, <2>3, <2>4, <3>2 DEF MarkInv
    <3> QED  BY <3>1, <3>2
  <2>6. SoundNow(latest')
      BY <2>1, <2>4 DEF MarkInv
  <2>7. SoundNow([records |-> records', marker |-> marker'])
      BY <1>2, <2>1, <2>2, <2>3 DEF MarkInv, Sound
  <2>8. DOMAIN files' \in SUBSET (1 .. clock')
      BY <1>2, <2>2, <2>3 DEF MarkInv
  <2>9. job'.stamp \in records'
      BY <2>1
  <2> QED  BY <2>1, <2>5, <2>6, <2>7, <2>8, <2>9 DEF MarkInv, Sound
<1>10. CASE Stamp
  <2>1. /\ UNCHANGED <<tables, records, latest, files>> /\ marker' = job.stamp
        /\ job.stamp \in records /\ job'.at \notin {"record", "stamp"}
      BY <1>10 DEF Stamp, fileVars, MarkInv, NoJob
  <2> QED  BY <1>2, <2>1 DEF MarkInv, Sound
<1> QED
    BY <1>4, <1>5, <1>6, <1>7, <1>8, <1>9, <1>10, NextSteps DEF Apply

\* An event is written, queued, held or lost as it was committed.
LEMMA LogKept ==
    ASSUME BaseInv, [Next]_vars
    PROVE  LogInv'
<1> USE DEF BaseInv, LogInv
<1>1. clock <= clock' /\ clock \in Nat /\ clock' \in Nat
    BY CountKept DEF CountInv
<1>2. \A e \in log : e.at \in 1 .. clock' /\ e.change \in UserChange
    BY <1>1
<1>3. ASSUME NEW c \in UserChange, Write(c)
      PROVE  \A e \in log' : e.at \in 1 .. clock' /\ e.change \in UserChange
    BY <1>1, <1>2, <1>3 DEF Write, Stamped
<1>4. CASE Refresh \/ SideStep \/ Apply \/ RenderRaises
  <2>1. UNCHANGED <<log, queue, request, held, lost>>
      BY <1>4, SideFrame, ApplyFrame DEF Refresh, auditVars
  <2> QED  BY <1>2, <2>1
<1>5. ASSUME NEW u \in Users, Edit(u) PROVE LogInv'
  <2>1. PICK list \in BOOLEAN :
          request' = [request EXCEPT ![u] = [no |-> changes + 1,
                                             list |-> list, fed |-> FALSE]]
      BY <1>5 DEF Edit
  <2>2. [no |-> changes + 1, list |-> list, fed |-> FALSE] \in UserChange
      BY <1>5, BoundsAssumption DEF Edit, UserChange, Change, CountInv
  <2> HIDE DEF UserChange
  <2>3. request' \in [Users -> UserChange \cup {None}]
      BY <2>1, <2>2
  <2> QED  BY <1>2, <1>5, <2>3 DEF Edit
<1>6. ASSUME NEW u \in Users,
             \/ Enqueue(u) \/ WriteThrough(u)
             \/ WriteFails(u) \/ EnqueueTwice(u)
      PROVE  LogInv'
  <2> USE DEF Enqueue, WriteThrough, WriteFails, EnqueueTwice
  <2>1. request[u] \in UserChange
      BY <1>6
  <2>2. request' = [request EXCEPT ![u] = None] /\ held' = held
      BY <1>6
  <2>3. queue' = queue \/ queue' = Append(queue, request[u])
      BY <1>6
  <2>4. log' = log \/ Write(request[u])
      BY <1>6
  <2>5. lost' \subseteq lost \cup {request[u]}
      BY <1>6
  <2> HIDE DEF Enqueue, WriteThrough, WriteFails, EnqueueTwice
  <2>6. queue' \in Seq(UserChange)
      BY <2>1, <2>3
  <2>7. \A e \in log' : e.at \in 1 .. clock' /\ e.change \in UserChange
      BY <1>2, <1>3, <2>1, <2>4
  <2>8. request' \in [Users -> UserChange \cup {None}]
      BY <2>2
  <2>9. held' \in UserChange \cup {None} /\ lost' \subseteq UserChange
      BY <2>1, <2>2, <2>5
  <2> QED  BY <2>6, <2>7, <2>8, <2>9
<1>7. CASE Dequeue \/ DequeueLost
  <2>1. Head(queue) \in UserChange /\ Tail(queue) \in Seq(UserChange)
      BY <1>7 DEF Dequeue, DequeueLost
  <2> QED  BY <1>2, <1>7, <2>1 DEF Dequeue, DequeueLost
<1>8. CASE WriteHeld
  <2>1. held \in UserChange
      BY <1>8 DEF WriteHeld
  <2> QED  BY <1>3, <1>8, <2>1 DEF WriteHeld
<1>9. CASE WriteHeldFails
    BY <1>2, <1>9 DEF WriteHeldFails
<1>10. CASE Crash
  <2>1. request' \in [Users -> UserChange \cup {None}]
      BY <1>10 DEF Crash
  <2>2. lost' \subseteq UserChange
    <3>1. lost' = lost \cup {request[u] : u \in {v \in OnLeader :
                                                  request[v] # None}}
                       \cup (IF held = None THEN {} ELSE {held})
        BY <1>10 DEF Crash
    <3>2. \A u \in OnLeader : request[u] # None => request[u] \in UserChange
        BY UsersAssumption
    <3> QED  BY <3>1, <3>2
  <2> QED  BY <1>2, <1>10, <2>1, <2>2 DEF Crash
<1> HIDE DEF LogInv, BaseInv
<1>11. CASE LogStep
    BY <1>6, <1>7, <1>8, <1>9, <1>11 DEF LogStep, Audit
<1> QED  BY <1>4, <1>5, <1>10, <1>11, NextSteps

\* The files contain what the tables contained.
LEMMA FileKept ==
    ASSUME BaseInv, [Next]_vars
    PROVE  FileInv'
<1> USE DEF BaseInv, FileInv
<1>1. Known(changes) \subseteq Known(changes')
    BY CountKept, KnownGrows DEF CountInv
<1>2. tables \subseteq Change /\ job.rend \subseteq Known(changes)
    BY DEF TablesInv, Kept, Known, JobInv
<1>3. CASE UNCHANGED <<lists, cfg>>
    BY <1>1, <1>3 DEF Others
<1>4. CASE WriteLists
  <2>1. lists' = Lists(tables) /\ cfg' = cfg
      BY <1>4 DEF WriteLists
  <2> QED  BY <1>1, <1>2, <2>1 DEF Lists, Others
<1>5. CASE Install
  <2>1. lists' = lists /\ (cfg' = cfg \/ cfg' = Others(job.rend))
      BY <1>5 DEF Install
  <2> QED  BY <1>1, <1>2, <2>1 DEF Others
<1>6. CASE /\ Apply \/ RenderRaises
           /\ ~ WriteLists /\ ~ Install
  <2>1. UNCHANGED <<lists, cfg>>
      BY <1>6, RenderFrame DEF Restore, fileVars
  <2> QED  BY <1>3, <2>1
<1>7. CASE LogStep \/ SideStep \/ Crash
  <2>1. UNCHANGED <<lists, cfg>>
      BY <1>7, LogFrame, SideFrame DEF Crash, fileVars
  <2> QED  BY <1>3, <2>1
<1>8. CASE Refresh \/ \E u \in Users : Edit(u)
  <2>1. UNCHANGED <<lists, cfg>>
      BY <1>8, Making DEF Made
  <2> QED  BY <1>3, <2>1
<1> QED  BY <1>4, <1>5, <1>6, <1>7, <1>8, NextSteps

LEMMA SeqGrows ==
    ASSUME NEW S, NEW T, S \subseteq T, NEW s \in Seq(S)
    PROVE  s \in Seq(T)
<1>1. s \in [1 .. Len(s) -> S] /\ Len(s) \in Nat
    OBVIOUS
<1>2. s \in [1 .. Len(s) -> T]
    BY <1>1
<1> QED  BY <1>1, <1>2

\* Only a feed's changes are missed.
LEMMA FeedKept ==
    ASSUME BaseInv, [Next]_vars
    PROVE  FeedInv'
<1> USE DEF BaseInv, FeedInv
<1>1. Known(changes) \subseteq Known(changes')
    BY CountKept, KnownGrows DEF CountInv
<1>2. {c \in tables : c.fed} \subseteq FedChange /\ tables \subseteq Known(changes')
    BY <1>1 DEF FedChange, TablesInv, Kept, Known
<1>3. CASE UNCHANGED feed /\ missed' \subseteq FedChange
    BY <1>1, <1>3
<1>4. CASE feed' = Idle /\ missed' \subseteq FedChange
    BY <1>4 DEF Idle
<1>5. CASE LogStep \/ Ask \/ GoDown \/ ComeBack \/ Lead \/ UNCHANGED vars
           \/ \E u \in Users : Edit(u)
  <2>1. UNCHANGED <<feed, missed>>
      BY <1>5, LogFrame DEF Ask, GoDown, ComeBack, Lead, vars, Edit, applyVars
  <2> QED  BY <1>3, <2>1
<1>6. CASE Refresh
  <2> DEFINE c == [no |-> changes + 1, list |-> TRUE, fed |-> TRUE]
  <2>1. c \in FedChange
      BY <1>6, BoundsAssumption DEF Refresh, FedChange, Change, CountInv
  <2>2. /\ feed' = [at |-> "generate", change |-> c, seen |-> {}]
        /\ missed' = missed
      BY <1>6 DEF Refresh
  <2> HIDE DEF c
  <2> QED  BY <2>1, <2>2
<1>7. CASE Generate
  <2>1. feed' = [feed EXCEPT !.at = "compare", !.seen = tables]
        /\ feed.at # "idle" /\ missed' = missed
      BY <1>7 DEF Generate
  <2> QED  BY <1>1, <1>2, <2>1
<1>8. CASE Compare \/ FeedRaises
    BY <1>4, <1>8 DEF Compare, FeedRaises
<1>9. CASE TakeNothing
  <2>1. tasks \in Seq(Tasks(changes)) /\ tasks # <<>>
      BY <1>9 DEF TakeNothing, JobInv
  <2>2. Head(tasks).seen \subseteq Known(changes)
    <3>1. Head(tasks) \in Tasks(changes)
        BY <2>1
    <3> QED  BY <3>1 DEF Tasks
  <2>3. missed' = missed \cup {c \in Head(tasks).seen : c.fed} /\ feed' = feed
      BY <1>9 DEF TakeNothing
  <2> QED  BY <1>3, <2>2, <2>3 DEF Known, FedChange
<1>10. CASE Apply \/ RenderRaises
  <2>1. feed' = feed /\ (missed' = missed \/ RenderRaises)
      BY <1>10, ApplyFrame
  <2> QED  BY <1>2, <1>3, <2>1 DEF RenderRaises
<1>11. CASE Crash
  <2>1. /\ feed' = Idle
        /\ missed' = missed \cup (IF feed.at = "idle" THEN {} ELSE {feed.change})
                        \cup (IF job.at = "idle" THEN {}
                              ELSE {c \in tables : c.fed})
      BY <1>11 DEF Crash
  <2> QED  BY <1>2, <1>4, <2>1
<1> HIDE DEF BaseInv, FeedInv
<1>12. CASE SideStep
    BY <1>5, <1>7, <1>8, <1>9, <1>12 DEF SideStep, Feed
<1> QED  BY <1>5, <1>6, <1>10, <1>11, <1>12, NextSteps

\* What is queued or executed was known when it was.
LEMMA JobKept ==
    ASSUME BaseInv, [Next]_vars
    PROVE  JobInv'
<1> USE DEF BaseInv
<1>1. /\ clock <= clock' /\ clock \in Nat /\ clock' \in Nat
      /\ Known(changes) \subseteq Known(changes')
      /\ changes \in Nat /\ changes' \in Nat
    BY CountKept, KnownGrows DEF CountInv
<1>2. Tasks(changes) \subseteq Tasks(changes')
    BY <1>1 DEF Tasks
<1>3. tasks \in Seq(Tasks(changes')) /\ tasks \in Seq(Tasks(changes))
    BY <1>2, SeqGrows DEF JobInv
<1> DEFINE Typed(j) ==
             /\ j \in [at : JobSteps, auto : BOOLEAN,
                       seen : SUBSET Known(changes'),
                       rend : SUBSET Known(changes'),
                       began : Nat, stamp : Nat]
             /\ j.began <= clock'
<1>4. Typed(job)
    BY <1>1 DEF JobInv
<1>5. Typed(NoJob)
    BY <1>1 DEF NoJob, JobSteps
<1>6. /\ began \in Nat /\ began <= clock'
      /\ job.began \in Nat /\ job.began <= clock'
    BY <1>1 DEF JobInv
<1>7. SUFFICES tasks' \in Seq(Tasks(changes')) /\ Typed(job')
               /\ began' \in Nat /\ began' <= clock'
    BY DEF JobInv
<1>8. CASE UNCHANGED <<tasks, job, began>>
    BY <1>3, <1>4, <1>6, <1>8
<1>9. CASE Ask \/ Compare
  <2>1. UNCHANGED <<job, began>>
      BY <1>9 DEF Ask, Compare
  <2>2. \/ tasks' = tasks
        \/ \E t \in Tasks(changes) : tasks' = Append(tasks, t)
    <3>1. CASE Ask
      <4>1. PICK kind \in Kinds : tasks' = Append(tasks, Task(kind, FALSE, {}))
          BY <3>1 DEF Ask
      <4>2. Task(kind, FALSE, {}) \in Tasks(changes)
          BY KindsAssumption DEF Task, Tasks
      <4> QED  BY <4>1, <4>2
    <3>2. CASE Compare
      <4>1. \/ tasks' = tasks
            \/ tasks' = Append(tasks, Task("apply", TRUE, feed.seen))
          BY <3>2 DEF Compare
      <4>2. Task("apply", TRUE, feed.seen) \in Tasks(changes)
          BY DEF Task, Tasks, FeedInv, AllKinds
      <4> QED  BY <4>1, <4>2
    <3> QED  BY <1>9, <3>1, <3>2
  <2>3. tasks' \in Seq(Tasks(changes'))
    <3>1. CASE tasks' = tasks
        BY <1>3, <3>1
    <3>2. ASSUME NEW t \in Tasks(changes), tasks' = Append(tasks, t)
          PROVE  tasks' \in Seq(Tasks(changes'))
      <4>1. t \in Tasks(changes')
          BY <1>2
      <4> QED  BY <1>3, <3>2, <4>1
    <3> QED  BY <2>2, <3>1, <3>2
  <2> QED  BY <1>4, <1>6, <2>1, <2>3
<1>10. CASE Take
  <2>1. /\ Head(tasks) \in Tasks(changes) /\ tasks # <<>>
        /\ tasks' = Tail(tasks) /\ began' = began
        /\ job' = [NoJob EXCEPT !.at = job'.at, !.auto = Head(tasks).auto,
                                !.seen = Head(tasks).seen, !.began = clock]
        /\ job'.at \in JobSteps
      BY <1>10, Taken DEF Take, JobSteps
  <2>2. /\ Head(tasks).auto \in BOOLEAN
        /\ Head(tasks).seen \in SUBSET Known(changes')
      BY <1>2, <2>1 DEF Tasks
  <2>3. Tail(tasks) \in Seq(Tasks(changes'))
      BY <1>3, <2>1
  <2>4. Typed(job')
      BY <1>1, <1>5, <2>1, <2>2 DEF NoJob
  <2> QED  BY <1>6, <2>1, <2>3, <2>4
<1>11. CASE TakeNothing
  <2>1. tasks' = Tail(tasks) /\ tasks # <<>> /\ UNCHANGED <<job, began>>
      BY <1>11 DEF TakeNothing
  <2>2. tasks' \in Seq(Tasks(changes'))
      BY <1>3, <2>1
  <2> QED  BY <1>4, <1>6, <2>1, <2>2
<1>12. CASE job' = NoJob /\ UNCHANGED <<tasks, began>>
    BY <1>3, <1>5, <1>6, <1>12
<1>13. ASSUME NEW step \in JobSteps, Goto(step), UNCHANGED <<tasks, began>>
       PROVE  /\ tasks' \in Seq(Tasks(changes')) /\ Typed(job')
              /\ began' \in Nat /\ began' <= clock'
  <2>1. Typed(job')
      BY <1>4, <1>13 DEF Goto
  <2> QED  BY <1>3, <1>6, <1>13, <2>1
<1>14. CASE Restore
  <2>1. records \subseteq DOMAIN files
      BY DEF MarkInv, Sound
  <2>2. /\ UNCHANGED <<tasks, began>>
        /\ job' = NoJob \/ Goto("render")
      BY <1>14, <2>1, RestoreFrame
  <2> QED  BY <1>12, <1>13, <2>2 DEF JobSteps
<1>15. CASE Install
  <2>1. /\ UNCHANGED <<tasks, began>>
        /\ job' = NoJob \/ Goto("snapshot")
      BY <1>15 DEF Install, Unfinished
  <2> QED  BY <1>12, <1>13, <2>1 DEF JobSteps
<1>16. CASE WriteLists \/ BuildSnapshot
  <2>1. /\ UNCHANGED <<tasks, began>>
        /\ Goto("install") \/ Goto("record")
      BY <1>16 DEF WriteLists, BuildSnapshot
  <2> QED  BY <1>13, <2>1 DEF JobSteps
<1>17. CASE Render
  <2>1. /\ job' = [job EXCEPT !.at = "lists", !.rend = tables]
        /\ UNCHANGED <<tasks, began>>
      BY <1>17 DEF Render
  <2>2. tables \subseteq Known(changes')
      BY <1>1 DEF TablesInv, Kept
  <2>3. Typed(job')
      BY <1>4, <2>1, <2>2 DEF JobSteps
  <2> QED  BY <1>3, <1>6, <2>1, <2>3
<1>18. CASE CommitRecord
  <2>1. /\ job' = [job EXCEPT !.at = "stamp", !.stamp = clock + 1]
        /\ UNCHANGED <<tasks, began>>
      BY <1>18 DEF CommitRecord
  <2>2. clock + 1 \in Nat /\ "stamp" \in JobSteps
      BY <1>1 DEF JobSteps
  <2>3. Typed(job')
      BY <1>4, <2>1, <2>2
  <2> QED  BY <1>3, <1>6, <2>1, <2>3
<1>19. CASE Stamp
    BY <1>3, <1>5, <1>6, <1>19 DEF Stamp
<1>20. CASE RenderRaises \/ Crash
  <2>1. job' = NoJob /\ UNCHANGED <<tasks, began>>
      BY <1>20 DEF RenderRaises, Crash, Unfinished
  <2> QED  BY <1>12, <2>1
<1>21. CASE LogStep \/ Feed \/ FeedRaises \/ GoDown \/ ComeBack \/ Lead
            \/ UNCHANGED vars \/ Refresh \/ \E u \in Users : Edit(u)
  <2>1. UNCHANGED <<tasks, job, began>> \/ Compare
      BY <1>21, LogFrame DEF Feed, Generate, FeedRaises, GoDown, ComeBack, Lead, vars,
         Refresh, Edit, applyVars
  <2> QED  BY <1>8, <1>9, <2>1
<1> HIDE DEF Typed
<1> QED
    BY <1>9, <1>10, <1>11, <1>14, <1>15, <1>16, <1>17, <1>18, <1>19, <1>20, <1>21,
       NextSteps DEF Apply, SideStep

LEMMA SwitchKept ==
    ASSUME BaseInv, [Next]_vars
    PROVE  SwitchInv'
<1> USE DEF BaseInv, SwitchInv
<1>1. CASE UNCHANGED <<up, leads>> /\ cut' \in {cut, TRUE, FALSE}
    BY <1>1, Zenon
<1>2. CASE LogStep
  <2>1. UNCHANGED <<up, leads, cut>>
      BY <1>2, LogFrame
  <2> QED  BY <2>1, Zenon
<1>3. CASE Feed \/ FeedRaises \/ Ask \/ TakeNothing \/ UNCHANGED vars
           \/ Refresh \/ \E u \in Users : Edit(u)
  <2>1. UNCHANGED <<up, leads, cut>>
      BY <1>3 DEF Feed, Generate, Compare, FeedRaises, Ask, TakeNothing, vars, service,
         Refresh, Edit, applyVars
  <2> QED  BY <2>1, Zenon
<1>4. CASE GoDown \/ ComeBack \/ Lead
  <2>1. /\ up' \in {up, TRUE, FALSE} /\ leads' \in {leads, TRUE}
        /\ cut' = cut
      BY <1>4 DEF GoDown, ComeBack, Lead, applyVars
  <2> QED  BY <2>1, Zenon
<1>5. CASE Apply \/ RenderRaises
  <2>1. UNCHANGED <<up, leads>>
      BY <1>5, ApplyFrame
  <2>2. cut' \in {cut, TRUE, FALSE}
    <3>1. CASE Restore
      <4>1. records \subseteq DOMAIN files
          BY DEF MarkInv, Sound
      <4>2. cut' = cut \/ cut' = TRUE
          BY <3>1, <4>1, RestoreFrame, Zenon
      <4> QED  BY <4>2
    <3>2. CASE Install \/ RenderRaises
      <4>1. cut' = cut \/ cut' = TRUE
          BY <3>2, Zenon DEF Install, RenderRaises, Unfinished
      <4> QED  BY <4>1
    <3>3. CASE Take \/ Render \/ WriteLists \/ BuildSnapshot \/ CommitRecord
        BY <3>3 DEF Take, Render, WriteLists, BuildSnapshot, CommitRecord
    <3>4. CASE Stamp
      <4>1. cut' = FALSE
          BY <3>4, Zenon DEF Stamp
      <4> QED  BY <4>1
    <3> QED  BY <1>5, <3>1, <3>2, <3>3, <3>4 DEF Apply
  <2> QED  BY <1>1, <2>1, <2>2
<1>6. CASE Crash
  <2>1. up' = up /\ leads' = FALSE /\ cut' = (cut \/ job.at # "idle")
      BY <1>6, Zenon DEF Crash
  <2> QED  BY <2>1, Zenon
<1> HIDE DEF BaseInv, SwitchInv
<1> QED  BY <1>2, <1>3, <1>4, <1>5, <1>6, NextSteps DEF SideStep

LEMMA BaseInductive == BaseInv /\ [Next]_vars => BaseInv'
<1> SUFFICES ASSUME BaseInv, [Next]_vars PROVE BaseInv'
    OBVIOUS
<1> QED
    BY CountKept, TablesKept, MarkKept, LogKept, FileKept, FeedKept, JobKept,
       SwitchKept DEF BaseInv

LEMMA BaseInit == Init => BaseInv
<1> SUFFICES ASSUME Init PROVE BaseInv
    OBVIOUS
<1> USE DEF Init
<1>1. CountInv /\ TablesInv /\ MarkInv
    BY BoundsAssumption DEF CountInv, TablesInv, Kept, MarkInv, Sound, NoJob
<1>2. LogInv /\ FileInv
    BY DEF LogInv, FileInv
<1>3. FeedInv /\ JobInv
    BY DEF FeedInv, JobInv, Idle, NoJob, JobSteps
<1>4. SwitchInv
    BY Zenon DEF SwitchInv
<1> QED  BY <1>1, <1>2, <1>3, <1>4 DEF BaseInv

\* Types, the changes each part of the state may hold, each of them once whatever
\* is restored, and that every row has its snapshot file: for any number of
\* requests and changes.
THEOREM BaseInvariant == Spec => []BaseInv
BY BaseInit, BaseInductive, PTL DEF Spec

\* Every event, queued, held or written, is about a user's change; the marker
\* is the time of a row of config_snapshots, whatever was restored.
THEOREM TypeCorrect == Spec => []TypeOK
<1>1. BaseInv => TypeOK
  <2> SUFFICES ASSUME BaseInv PROVE TypeOK
      OBVIOUS
  <2> USE DEF BaseInv
  <2>1. /\ tables \subseteq Change
        /\ \A c, d \in tables : c.no = d.no => c = d
      BY DEF TablesInv, Kept, Known
  <2>2. /\ records \subseteq 1 .. clock
        /\ marker \in records \cup {0}
        /\ records \subseteq DOMAIN files /\ DOMAIN files \subseteq 1 .. clock
      BY DEF MarkInv, Sound
  <2>9. latest = None \/ latest.tables \subseteq Change
      BY DEF TablesInv, Kept, Known
  <2>3. /\ \A e \in log : e.at \in 1 .. clock /\ ~e.change.fed
        /\ \A i \in 1 .. Len(queue) : queue[i] \in Change
        /\ \A u \in Users : request[u] = None \/ request[u] \in Change
        /\ held = None \/ held \in Change
        /\ \A c \in lost : ~c.fed
      BY DEF LogInv, UserChange
  <2>4. lists \subseteq Lists(Change) /\ cfg \subseteq Others(Change)
      BY DEF FileInv, Known, Others
  <2>5. feed.at \in {"idle", "generate", "compare"} /\ \A c \in missed : c.fed
      BY DEF FeedInv, FedChange
  <2>6. \A i \in 1 .. Len(tasks) : tasks[i].kind \in AllKinds
    <3>1. \A i \in 1 .. Len(tasks) : tasks[i] \in Tasks(changes)
        BY DEF JobInv
    <3> QED  BY <3>1 DEF Tasks
  <2>7. job.at \in JobSteps /\ job.rend \subseteq Change /\ began <= clock
      BY DEF JobInv, Known
  <2>8. up \in BOOLEAN /\ leads \in BOOLEAN /\ cut \in BOOLEAN
      BY DEF SwitchInv
  <2> HIDE DEF BaseInv
  <2> QED  BY <2>1, <2>2, <2>3, <2>4, <2>5, <2>6, <2>7, <2>8, <2>9
         DEF TypeOK
<1> QED  BY <1>1, BaseInvariant, PTL

-----------------------------------------------------------------------------
(* LateSweepOnly.                                                          *)

\* What a refresh has seen outside the lists is live, or was taken out, and
\* perhaps brought back, by a restore.
Live(seen, T, C, R) == Others(seen) \cap T \subseteq C \cup R

\* The steps before an apply has installed what it rendered.
Sweeping == {"restore", "rollback", "render", "lists", "install"}

\* That is so when an automatic apply is queued, and stays so until the apply
\* installs what it rendered: other applies render no less.
SweepInv ==
    /\ \A i \in 1 .. Len(tasks) :
         tasks[i].auto => Live(tasks[i].seen, tables, cfg, returned)
    /\ job.auto /\ job.at \in Sweeping =>
         Live(job.seen, tables, cfg, returned)
    /\ job.at \in {"lists", "install"} =>
         job.rend \subseteq tables /\ cfg \cap tables \subseteq job.rend

\* haproxy.cfg.applied changes by an install, and the tables then stay.
LEMMA CfgChange ==
    ASSUME [Next]_vars
    PROVE  \/ cfg' = cfg
           \/ /\ Install /\ cfg' = Others(job.rend)
              /\ tables' = tables /\ returned' = returned
<1>1. CASE Install
    BY <1>1 DEF Install, dbVars
<1>2. CASE Refresh \/ \E u \in Users : Edit(u)
    BY <1>2, Making DEF Made
<1>3. CASE LogStep \/ SideStep \/ Crash
    BY <1>3, LogFrame, SideFrame DEF Crash, fileVars
<1>4. CASE Restore
    BY <1>4 DEF Restore, fileVars
<1>5. CASE ~ Install /\ ~ Restore /\ (Apply \/ RenderRaises)
    BY <1>5, RenderFrame
<1> QED  BY <1>1, <1>2, <1>3, <1>4, <1>5, NextSteps

LEMMA LiveStays ==
    ASSUME BaseInv, SweepInv, [Next]_vars, NEW seen \in SUBSET Known(changes),
           Live(seen, tables, cfg, returned)
    PROVE  Live(seen, tables', cfg', returned')
<1> USE DEF BaseInv, Live
<1>1. CASE /\ Install /\ cfg' = Others(job.rend)
           /\ tables' = tables /\ returned' = returned
  <2>1. cfg \cap tables \subseteq job.rend
      BY <1>1 DEF SweepInv, Install
  <2> QED  BY <1>1, <2>1 DEF Others
<1>2. CASE cfg' = cfg
  <2>1. CASE UNCHANGED <<tables, returned>>
      BY <1>2, <2>1 DEF Others
  <2>2. ASSUME NEW list \in BOOLEAN, NEW fed \in BOOLEAN, Made(list, fed)
        PROVE  Live(seen, tables', cfg', returned')
    <3> DEFINE c == [no |-> changes + 1, list |-> list, fed |-> fed]
    <3>1. c \notin seen
        BY <2>2, FreshChange DEF Made
    <3>2. tables' = tables \cup {c} /\ returned' = returned
        BY <2>2 DEF Made
    <3> HIDE DEF c
    <3> QED  BY <1>2, <3>1, <3>2 DEF Others
  <2>3. CASE returned' = returned \cup (tables' \ tables)
      BY <1>2, <2>3 DEF Others
  <2> QED  BY <2>1, <2>2, <2>3, TablesChange
<1> QED  BY <1>1, <1>2, CfgChange

\* The tasks in the queue: the one a refresh adds has just compared the rest.
LEMMA TasksLive ==
    ASSUME BaseInv, SweepInv, [Next]_vars
    PROVE  \A i \in 1 .. Len(tasks') :
              tasks'[i].auto => Live(tasks'[i].seen, tables', cfg', returned')
<1> DEFINE Swept(t) == t.auto => Live(t.seen, tables', cfg', returned')
<1>1. tasks \in Seq(Tasks(changes))
    BY DEF BaseInv, JobInv
<1>2. \A i \in 1 .. Len(tasks) : tasks[i] \in Tasks(changes) /\ Swept(tasks[i])
  <2> SUFFICES ASSUME NEW i \in 1 .. Len(tasks)
               PROVE  tasks[i] \in Tasks(changes) /\ Swept(tasks[i])
      OBVIOUS
  <2>1. tasks[i] \in Tasks(changes)
      BY <1>1
  <2>2. tasks[i].seen \in SUBSET Known(changes)
      BY <2>1 DEF Tasks
  <2>3. tasks[i].auto => Live(tasks[i].seen, tables, cfg, returned)
      BY DEF SweepInv
  <2>4. ASSUME NEW seen \in SUBSET Known(changes),
               Live(seen, tables, cfg, returned)
        PROVE  Live(seen, tables', cfg', returned')
      BY <2>4, LiveStays
  <2>5. Swept(tasks[i])
      BY <2>2, <2>3, <2>4
  <2> QED  BY <2>1, <2>5
<1> SUFFICES \A i \in 1 .. Len(tasks') : Swept(tasks'[i])
    OBVIOUS
<1>3. CASE tasks' = tasks
    BY <1>2, <1>3
<1>4. CASE Take \/ TakeNothing
  <2>1. tasks' = Tail(tasks) /\ tasks # <<>>
      BY <1>4 DEF Take, TakeNothing
  <2>2. ASSUME NEW i \in 1 .. Len(tasks')
        PROVE  tasks'[i] = tasks[i + 1] /\ i + 1 \in 1 .. Len(tasks)
      BY <1>1, <2>1
  <2> HIDE DEF Swept
  <2> QED  BY <1>2, <2>2
<1>5. ASSUME NEW t, tasks' = Append(tasks, t), Swept(t)
      PROVE  \A i \in 1 .. Len(tasks') : Swept(tasks'[i])
  <2>1. ASSUME NEW i \in 1 .. Len(tasks')
        PROVE  \/ tasks'[i] = tasks[i] /\ i \in 1 .. Len(tasks)
               \/ tasks'[i] = t
      BY <1>1, <1>5
  <2> HIDE DEF Swept
  <2> QED  BY <1>2, <1>5, <2>1
<1>6. CASE Ask
  <2>1. PICK kind \in Kinds : tasks' = Append(tasks, Task(kind, FALSE, {}))
      BY <1>6 DEF Ask
  <2>2. Swept(Task(kind, FALSE, {}))
      BY DEF Task
  <2> QED  BY <1>5, <2>1, <2>2
<1>7. CASE Compare
  <2>1. CASE tasks' = Append(tasks, Task("apply", TRUE, feed.seen))
             /\ ~ OthersDiffer
    <3>1. cfg' = cfg /\ cfg = Others(feed.seen)
        BY <1>7, <2>1 DEF Compare, fileVars, OthersDiffer
    <3>2. Swept(Task("apply", TRUE, feed.seen))
        BY <3>1 DEF Task, Live
    <3> QED  BY <1>5, <2>1, <3>2
  <2>2. CASE tasks' = tasks
      BY <1>3, <2>2
  <2> QED  BY <1>7, <2>1, <2>2 DEF Compare
<1>8. CASE LogStep \/ Generate \/ FeedRaises \/ GoDown \/ ComeBack \/ Lead \/ Crash
           \/ UNCHANGED vars \/ Refresh \/ \E u \in Users : Edit(u)
  <2>1. tasks' = tasks
      BY <1>8, LogFrame DEF Generate, FeedRaises, GoDown, ComeBack, Lead, Crash, vars,
         Refresh, Edit, applyVars
  <2> QED  BY <1>3, <2>1
<1>9. CASE Apply \/ RenderRaises
    BY <1>3, <1>4, <1>9, ApplyFrame
<1> HIDE DEF Swept
<1> QED
    BY <1>4, <1>6, <1>7, <1>8, <1>9, NextSteps DEF SideStep, Feed

\* The ways to come to these steps, or to stay there.
LEMMA JobMoves ==
    ASSUME BaseInv, [Next]_vars, job'.at \in Sweeping
    PROVE  \/ job' = job /\ ~ Restore /\ ~ Install
           \/ Take
           \/ Restore /\ Goto("render")
           \/ Render /\ job'.rend = tables
           \/ WriteLists /\ job'.rend = job.rend
<1> USE DEF BaseInv, JobInv
<1>1. CASE Restore
  <2>1. records \subseteq DOMAIN files
      BY DEF MarkInv, Sound
  <2>2. job' = NoJob \/ Goto("render")
      BY <1>1, <2>1, RestoreFrame
  <2> QED  BY <1>1, <2>2 DEF NoJob, Sweeping
<1>2. CASE Render
    BY <1>2 DEF Render
<1>3. CASE WriteLists
    BY <1>3 DEF WriteLists, Goto
<1>4. ~ Install /\ ~ RenderRaises
    BY DEF Install, RenderRaises, Goto, Unfinished, NoJob, Sweeping
<1>5. ~ BuildSnapshot /\ ~ CommitRecord
    BY DEF BuildSnapshot, CommitRecord, Goto, Sweeping
<1>6. ~ Stamp /\ ~ Crash
    BY DEF Stamp, Crash, NoJob, Sweeping
<1>7. ASSUME job' = job, job.at \notin {"restore", "rollback"}
      PROVE  \/ job' = job /\ ~ Restore /\ ~ Install
    BY <1>4, <1>7 DEF Restore
<1>8. CASE ~ Restore /\ (LogStep \/ SideStep \/ Refresh \/ \E u \in Users : Edit(u))
  <2>1. job' = job
      BY <1>8, LogFrame, SideFrame, Making DEF Made
  <2> QED  BY <1>4, <1>8, <2>1
<1> HIDE DEF BaseInv, JobInv
<1> QED
    BY <1>1, <1>2, <1>3, <1>4, <1>5, <1>6, <1>8, NextSteps DEF Apply

\* The job that is executed was in the queue; its own steps lose nothing.
LEMMA JobLive ==
    ASSUME BaseInv, SweepInv, [Next]_vars, job'.auto, job'.at \in Sweeping
    PROVE  Live(job'.seen, tables', cfg', returned')
<1>1. CASE Take
  <2>1. /\ 1 \in 1 .. Len(tasks) /\ Head(tasks) = tasks[1]
        /\ tasks[1] \in Tasks(changes)
        /\ job'.auto = tasks[1].auto /\ job'.seen = tasks[1].seen
      BY <1>1, Taken DEF BaseInv
  <2>2. Live(tasks[1].seen, tables, cfg, returned)
      BY <2>1 DEF SweepInv
  <2>3. tasks[1].seen \in SUBSET Known(changes)
      BY <2>1 DEF Tasks
  <2> QED  BY <2>1, <2>2, <2>3, LiveStays
<1>2. CASE job.auto /\ job'.seen = job.seen /\ job.at \in Sweeping
  <2>1. Live(job.seen, tables, cfg, returned)
      BY <1>2 DEF SweepInv, Sweeping
  <2>2. job.seen \in SUBSET Known(changes)
      BY DEF BaseInv, JobInv
  <2> QED  BY <1>2, <2>1, <2>2, LiveStays
<1>3. \/ Take
      \/ job'.auto = job.auto /\ job'.seen = job.seen /\ job.at \in Sweeping
  <2>1. CASE job' = job
      BY <2>1
  <2>2. CASE Restore /\ Goto("render")
    <3>1. job.at \in {"restore", "rollback"}
        BY <2>2 DEF Restore
    <3> QED  BY <2>2, <3>1 DEF BaseInv, JobInv, Goto, Sweeping
  <2>3. CASE Render \/ WriteLists
      BY <2>3 DEF BaseInv, JobInv, Render, WriteLists, Goto, Sweeping
  <2> QED  BY <2>1, <2>2, <2>3, JobMoves
<1> QED  BY <1>1, <1>2, <1>3

\* Nothing is taken back while a configuration is rendered and installed.
LEMMA RenderLive ==
    ASSUME BaseInv, SweepInv, [Next]_vars, job'.at \in {"lists", "install"}
    PROVE  job'.rend \subseteq tables' /\ cfg' \cap tables' \subseteq job'.rend
<1> USE DEF BaseInv
<1>1. job'.at \in Sweeping
    BY DEF Sweeping
<1>2. ~ Take /\ ~ (Restore /\ Goto("render"))
    BY Taken DEF Goto, JobInv
<1>3. CASE Render /\ job'.rend = tables
  <2>1. tables' = tables
      BY <1>3 DEF Render, dbVars
  <2> QED  BY <1>3, <2>1
<1>4. CASE /\ (job' = job /\ ~ Restore /\ ~ Install) \/ WriteLists
           /\ job'.rend = job.rend
  <2>1. job.at \in {"lists", "install"}
      BY <1>4 DEF WriteLists
  <2>2. job.rend \subseteq tables /\ cfg \cap tables \subseteq job.rend
      BY <2>1 DEF SweepInv
  <2>3. ~ Install /\ ~ Restore
      BY <1>4 DEF WriteLists, Install, Restore
  <2>4. cfg' = cfg
      BY <2>3, CfgChange
  <2>5. CASE tables' = tables
      BY <1>4, <2>2, <2>4, <2>5
  <2>6. ASSUME NEW list \in BOOLEAN, NEW fed \in BOOLEAN, Made(list, fed)
        PROVE  /\ job'.rend \subseteq tables'
               /\ cfg' \cap tables' \subseteq job'.rend
    <3> DEFINE c == [no |-> changes + 1, list |-> list, fed |-> fed]
    <3>1. c \notin cfg
      <4>1. c \notin Known(changes)
          BY <2>6, FreshChange DEF Made
      <4> QED  BY <4>1 DEF FileInv, Others
    <3>2. tables' = tables \cup {c}
        BY <2>6 DEF Made
    <3> HIDE DEF c
    <3> QED  BY <1>4, <2>2, <2>4, <3>1, <3>2
  <2> QED  BY <2>3, <2>5, <2>6, TablesChange
<1> QED  BY <1>1, <1>2, <1>3, <1>4, JobMoves

LEMMA SweepInductive == BaseInv /\ SweepInv /\ [Next]_vars => SweepInv'
<1> SUFFICES ASSUME BaseInv, SweepInv, [Next]_vars PROVE SweepInv'
    OBVIOUS
<1>1. \A i \in 1 .. Len(tasks') :
         tasks'[i].auto => Live(tasks'[i].seen, tables', cfg', returned')
    BY TasksLive
<1>2. job'.auto /\ job'.at \in Sweeping =>
         Live(job'.seen, tables', cfg', returned')
    BY JobLive
<1>3. job'.at \in {"lists", "install"} =>
         job'.rend \subseteq tables' /\ cfg' \cap tables' \subseteq job'.rend
    BY RenderLive
<1> QED  BY <1>1, <1>2, <1>3 DEF SweepInv, Sweeping

\* An automatic apply brings nothing live outside the lists that its refresh
\* had seen and no restore brought back: not after reverts and rollbacks, other
\* applies, cancelled ones and crashes in between either.
THEOREM LateSweepOnlyCorrect == Spec => []LateSweepOnly
<1>1. Init => SweepInv
    BY DEF Init, SweepInv, NoJob, Sweeping
<1>2. SweepInv => LateSweepOnly
  <2> SUFFICES ASSUME SweepInv, job.auto, job.at \in {"lists", "install"}
               PROVE  (Others(job.rend) \ cfg) \cap job.seen \subseteq returned
      BY DEF LateSweepOnly
  <2>1. Others(job.seen) \cap tables \subseteq cfg \cup returned
      BY DEF SweepInv, Sweeping, Live
  <2>2. job.rend \subseteq tables
      BY DEF SweepInv
  <2> QED  BY <2>1, <2>2 DEF Others
<1> QED  BY <1>1, <1>2, SweepInductive, BaseInvariant, PTL DEF Spec

-----------------------------------------------------------------------------
(* AppliedShown.                                                           *)

\* The apply in progress stamps later than it began; once it has, the marker
\* shows that, whatever marker a revert had restored before.
StampInv ==
    /\ job.at = "stamp" => job.stamp \in Nat \ {0} /\ job.began <= job.stamp
    /\ job.at = "idle" /\ ~cut => began = 0 \/ (marker # 0 /\ began <= marker)

LEMMA StampInductive == BaseInv /\ StampInv /\ [Next]_vars => StampInv'
<1> SUFFICES ASSUME BaseInv, StampInv, [Next]_vars PROVE StampInv'
    OBVIOUS
<1> USE DEF BaseInv, StampInv, JobInv
<1>1. CASE UNCHANGED <<job, cut, began, marker>>
    BY <1>1
<1>2. CASE Take
    BY <1>2, Taken
<1>3. CASE Crash
  <2>1. job'.at = "idle" /\ UNCHANGED <<marker, began>>
      BY <1>3 DEF Crash, NoJob, dbVars
  <2>2. ~ cut' => ~ cut /\ job.at = "idle"
      BY <1>3 DEF Crash
  <2> QED  BY <2>1, <2>2
<1>4. CASE Restore
  <2>1. records \subseteq DOMAIN files
      BY DEF MarkInv, Sound
  <2>2. \/ job' = NoJob /\ cut'
        \/ Goto("render")
      BY <1>4, <2>1, RestoreFrame
  <2> QED  BY <2>2 DEF Goto, NoJob
<1>5. CASE Install \/ RenderRaises
  <2>1. \/ job'.at = "idle" /\ cut'
        \/ job'.at = "snapshot"
      BY <1>5 DEF Install, RenderRaises, Unfinished, Goto, NoJob
  <2> QED  BY <2>1
<1>6. CASE Render \/ WriteLists \/ BuildSnapshot
  <2>1. job'.at \in {"lists", "install", "record"}
      BY <1>6 DEF Render, WriteLists, BuildSnapshot, Goto
  <2> QED  BY <2>1
<1>7. CASE CommitRecord
  <2>1. /\ job'.at = "stamp" /\ job'.stamp = clock + 1
        /\ job'.began = job.began
      BY <1>7 DEF CommitRecord
  <2> QED  BY <2>1 DEF CountInv
<1>8. CASE Stamp
  <2>1. /\ job'.at = "idle" /\ marker' = job.stamp /\ began' = job.began
        /\ job.at = "stamp"
      BY <1>8 DEF Stamp, NoJob
  <2> QED  BY <2>1
<1>9. CASE LogStep \/ SideStep \/ Refresh \/ \E u \in Users : Edit(u)
    BY <1>1, <1>9, LogFrame, SideFrame, Making DEF Made
<1> HIDE DEF BaseInv, StampInv, JobInv
<1> QED
    BY <1>2, <1>3, <1>4, <1>5, <1>6, <1>7, <1>8, <1>9, NextSteps DEF Apply

\* What was logged before the newest finished apply began is shown as applied,
\* unless an apply was cut short since: for any number of reverts and rollbacks,
\* whose snapshots bring old markers back.
THEOREM AppliedShownCorrect == Spec => []AppliedShown
<1>1. Init => StampInv
    BY DEF Init, StampInv, NoJob
<1>2. BaseInv /\ StampInv => AppliedShown
  <2> SUFFICES ASSUME BaseInv, StampInv, job.at = "idle", ~ cut,
                      NEW e \in log, e.at <= began
               PROVE  ShownApplied(e)
      BY DEF AppliedShown
  <2>1. e.at \in 1 .. clock /\ clock \in Nat
      BY DEF BaseInv, LogInv, CountInv
  <2>2. began # 0
      BY <2>1
  <2>3. marker # 0 /\ began <= marker
      BY <2>2 DEF StampInv
  <2>4. marker \in Nat /\ began \in Nat
      BY <2>1 DEF BaseInv, MarkInv, Sound, JobInv
  <2> QED  BY <2>1, <2>3, <2>4 DEF ShownApplied, LastApplied
<1> QED  BY <1>1, <1>2, StampInductive, BaseInvariant, PTL DEF Spec
=============================================================================
