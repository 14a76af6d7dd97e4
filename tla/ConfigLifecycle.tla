--------------------------- MODULE ConfigLifecycle ---------------------------
(***************************************************************************)
(* Apply, revert, rollback and the HA push: write_config, reload_haproxy   *)
(* and the snapshot functions of backend/app/services/haproxy.py, as the   *)
(* task runner and POST /ha/apply (backend/app/api/v1/ha.py) call them.    *)
(*                                                                         *)
(* The configuration tables are represented by the number of the edit that *)
(* produced their present contents; the generated haproxy.cfg by that      *)
(* number and by the order of its generation.  One of the tables is        *)
(* config_snapshots itself: it is saved and restored with the others.      *)
(* Of the other generated files only the ones write_config writes before   *)
(* it validates (lists, risk rules, WAF, MCP bundle, ...) are represented, *)
(* by the contents they were generated from.                               *)
(*                                                                         *)
(* haproxy.cfg has another writer.  The data directory is mounted in the   *)
(* container of the default HAProxy as well, whose Data Plane API has this *)
(* very file as its config_file (haproxy/entrypoint.sh): a configuration   *)
(* pushed to the default instance replaces haproxy.cfg, and the instance   *)
(* loads what it finds there some time later.  Every other instance has a  *)
(* directory of its own.                                                   *)
(***************************************************************************)
EXTENDS Integers, Sequences, FiniteSets, FiniteSetsExt

CONSTANTS
    Threads,     \* the task worker, and request threads of other processes
    Instances,   \* HAProxy instances with a Data Plane API
    Primary,     \* the default one: it shares haproxy.cfg and is the one reloaded
    None,        \* a file that does not exist; nobody holds the lock
    Partial,     \* a file that was opened for writing and not yet written
    Ops,         \* the operations users ask for, out of AllOps
    MaxOps,      \* bound on the operations
    MaxEdits,    \* bound on the edits of the configuration
    Invalid,     \* the contents whose haproxy.cfg "haproxy -c" rejects
    MaxKeep,     \* the setting max_snapshots
    Unchecked,   \* TRUE iff haproxy -c may be out of reach
    Crashes      \* TRUE iff an operation may end early: its process dies or a call raises

AllOps == {"apply", "revert", "rollback", "ha"}

ASSUME OpsAssumption == Ops \subseteq AllOps
ASSUME InstancesAssumption == Primary \in Instances
ASSUME BoundsAssumption == MaxOps \in Nat /\ MaxEdits \in Nat
ASSUME KeepAssumption == MaxKeep \in Nat \ {0}
\* The contents before the first edit are what HAProxy runs.
ASSUME InvalidAssumption == Invalid \subseteq 1 .. MaxEdits
ASSUME SwitchAssumption == Unchecked \in BOOLEAN /\ Crashes \in BOOLEAN
ASSUME ThreadsAssumption == IsFiniteSet(Threads) /\ None \notin Threads

VARIABLES
    \* The database.
    db,        \* contents of the configuration tables
    edits,     \* edits so far
    rows,      \* config_snapshots
    nextId,    \* its id sequence
    \* The file system.
    side,      \* what the list, WAF and MCP files were generated from
    cfg,       \* haproxy.cfg
    applied,   \* haproxy.cfg.applied
    latest,    \* haproxy_config_snapshot.json
    files,     \* the numbers of the dated snapshots on disk
    lock,      \* holder of the flock on .config_write.lock
    \* HAProxy.
    running,   \* running[i]: the configuration instance i runs, or was given
    \* Threads.
    pc, op,
    target,    \* the snapshot id a rollback was asked for
    source,    \* the dated file a restore reads, 0 for the latest
    snap,      \* the snapshot read, or built
    conf,      \* the generated configuration
    chosen,    \* history: the dated snapshot the target denoted when asked
    \* Counters and history.
    ops,       \* operations so far
    seq,       \* generations so far
    saved,     \* saved[n]: what the n-th dated snapshot contained
    torn,      \* a write_config ended early and none has returned since
    spilled,   \* a pruning was not done, or not to its end
    pushedOver \* haproxy.cfg holds what a second push of POST /ha/apply put there

vars == <<db, edits, rows, nextId, side, cfg, applied, latest, files, lock,
          running, pc, op, target, source, snap, conf, chosen, ops, seq, saved,
          torn, spilled, pushedOver>>

Contents == 0 .. MaxEdits
Config == [ver : Contents, seq : 0 .. MaxOps]
Row == [id : 1 .. MaxOps, at : 1 .. MaxOps, kept : BOOLEAN]
Snapshot == [db : Contents, rows : SUBSET Row]

ASSUME FilesAssumption ==
    None # Partial /\ {None, Partial} \cap (Config \cup Snapshot) = {}

Steps == {"idle", "lookup", "read", "restore", "reset", "lock", "generate",
          "side", "validate", "truncate", "write", "writeapplied",
          "build", "truncsnap", "writesnap", "insert", "prune", "push", "unlock",
          "reload", "repush"}

TypeOK ==
    /\ db \in Contents /\ edits \in Contents
    /\ rows \subseteq Row
    /\ \A r, s \in rows : r.id = s.id => r = s
    /\ nextId \in 1 .. MaxOps + 1
    /\ side \in Contents \cup {None}
    /\ cfg \in Config \cup {None, Partial}
    /\ applied \in Config \cup {None, Partial}
    /\ latest \in Snapshot \cup {None, Partial}
    /\ files \subseteq DOMAIN saved
    /\ lock \in Threads \cup {None}
    /\ running \in [Instances -> Config]
    /\ pc \in [Threads -> Steps]
    /\ op \in [Threads -> AllOps]
    /\ target \in [Threads -> 0 .. MaxOps]
    /\ source \in [Threads -> 0 .. MaxOps]
    /\ snap \in [Threads -> Snapshot]
    /\ conf \in [Threads -> Config]
    /\ chosen \in [Threads -> 0 .. MaxOps]
    /\ ops \in 0 .. MaxOps /\ seq \in 0 .. MaxOps
    /\ saved \in Seq(Snapshot) /\ Len(saved) <= MaxOps
    /\ torn \in BOOLEAN /\ spilled \in BOOLEAN /\ pushedOver \in BOOLEAN

EmptySnapshot == [db |-> 0, rows |-> {}]
FirstConfig == [ver |-> 0, seq |-> 0]

Init ==
    /\ db = 0 /\ edits = 0 /\ rows = {} /\ nextId = 1
    /\ side = None /\ cfg = None /\ applied = None /\ latest = None
    /\ files = {} /\ lock = None
    /\ running = [i \in Instances |-> FirstConfig]
    /\ pc = [th \in Threads |-> "idle"]
    /\ op = [th \in Threads |-> "apply"]
    /\ target = [th \in Threads |-> 0]
    /\ source = [th \in Threads |-> 0]
    /\ snap = [th \in Threads |-> EmptySnapshot]
    /\ conf = [th \in Threads |-> FirstConfig]
    /\ chosen = [th \in Threads |-> 0]
    /\ ops = 0 /\ seq = 0 /\ saved = <<>>
    /\ torn = FALSE /\ spilled = FALSE /\ pushedOver = FALSE

dbVars == <<db, edits, rows, nextId>>
fileVars == <<side, cfg, applied, latest, files>>
locals == <<op, target, source, snap, conf, chosen>>
history == <<ops, seq, saved, torn, spilled, pushedOver>>

Goto(th, label) == pc' = [pc EXCEPT ![th] = label]

\* The operation is over, and its locals are gone.
Leave(th) ==
    /\ Goto(th, "idle")
    /\ op' = [op EXCEPT ![th] = "apply"]
    /\ target' = [target EXCEPT ![th] = 0]
    /\ source' = [source EXCEPT ![th] = 0]
    /\ snap' = [snap EXCEPT ![th] = EmptySnapshot]
    /\ conf' = [conf EXCEPT ![th] = FirstConfig]
    /\ chosen' = [chosen EXCEPT ![th] = 0]

\* An exception leaves write_config through the "with" that holds the lock.
Raise(th) ==
    /\ Leave(th)
    /\ lock' = IF lock = th THEN None ELSE lock

-----------------------------------------------------------------------------
(* Requests.                                                               *)

\* A user edits the configuration, at any time.
Edit ==
    /\ edits < MaxEdits
    /\ edits' = edits + 1
    /\ db' = edits + 1
    /\ UNCHANGED <<rows, nextId, fileVars, lock, running, pc, locals, history>>

\* The request is accepted; a rollback needs a row with the id that was sent.
Request(th) ==
    /\ pc[th] = "idle"
    /\ ops < MaxOps
    /\ ops' = ops + 1
    /\ \/ \E o \in Ops \ {"rollback"} :
            /\ op' = [op EXCEPT ![th] = o]
            /\ source' = [source EXCEPT ![th] = 0]
            /\ Goto(th, IF o = "revert" THEN "read" ELSE "lock")
            /\ UNCHANGED <<target, chosen>>
       \/ /\ "rollback" \in Ops
          /\ \E r \in rows :
                /\ target' = [target EXCEPT ![th] = r.id]
                /\ chosen' = [chosen EXCEPT ![th] = r.at]
          /\ op' = [op EXCEPT ![th] = "rollback"]
          /\ Goto(th, "lookup")
          /\ UNCHANGED source
    /\ UNCHANGED <<dbVars, fileVars, lock, running, snap, conf, seq, saved,
                   torn, spilled, pushedOver>>

-----------------------------------------------------------------------------
(* revert_to_applied_config, rollback_to_snapshot, load_config_snapshot.   *)

\* rollback_to_snapshot: the empty path of a pruned row selects the latest.
Lookup(th) ==
    /\ pc[th] = "lookup"
    /\ LET found == {r \in rows : r.id = target[th]} IN
       \/ /\ found = {}
          /\ Raise(th)
       \/ \E r \in found :
            /\ source' = [source EXCEPT ![th] = IF r.kept THEN r.at ELSE 0]
            /\ Goto(th, "read")
            /\ UNCHANGED <<lock, op, target, snap, conf, chosen>>
    /\ UNCHANGED <<dbVars, fileVars, running, history>>

\* The file is read without the lock: it may be missing or half written.
ReadSnapshot(th) ==
    /\ pc[th] = "read"
    /\ LET file == IF source[th] = 0 THEN latest
                   ELSE IF source[th] \in files THEN saved[source[th]]
                   ELSE None
       IN \/ /\ file \in {None, Partial}
             /\ Raise(th)
          \/ /\ file \notin {None, Partial}
             /\ snap' = [snap EXCEPT ![th] = file]
             /\ Goto(th, "restore")
             /\ UNCHANGED <<lock, op, target, source, conf, chosen>>
    /\ UNCHANGED <<dbVars, fileVars, running, history>>

\* One transaction replaces every configuration table, config_snapshots too.
\* It may fail (a foreign key, another restore) and is then rolled back.
Restore(th) ==
    /\ pc[th] = "restore"
    /\ \/ /\ db' = snap[th].db
          /\ rows' = snap[th].rows
          /\ Goto(th, "reset")
          /\ UNCHANGED <<lock, locals>>
       \/ /\ Raise(th)
          /\ UNCHANGED <<db, rows>>
    /\ UNCHANGED <<edits, nextId, fileVars, running, history>>

\* _reset_sequences; a table restored to no rows keeps its sequence.
ResetSequences(th) ==
    /\ pc[th] = "reset"
    /\ nextId' = IF snap[th].rows = {} THEN nextId
                 ELSE Max({r.id : r \in snap[th].rows}) + 1
    /\ Goto(th, "lock")
    /\ UNCHANGED <<db, edits, rows, fileVars, lock, running, locals, history>>

-----------------------------------------------------------------------------
(* write_config, under the file lock.                                      *)

\* Mutant: the caller does not wait for the lock.
AcquireLock_NoWait(th) ==
    /\ pc[th] = "lock"
    /\ lock' = th
    /\ Goto(th, "generate")
    /\ UNCHANGED <<dbVars, fileVars, running, locals, history>>

AcquireLock(th) ==
    /\ pc[th] = "lock"
    /\ lock = None
    /\ lock' = th
    /\ Goto(th, "generate")
    /\ UNCHANGED <<dbVars, fileVars, running, locals, history>>

GenerateConfig(th) ==
    /\ pc[th] = "generate"
    /\ conf' = [conf EXCEPT ![th] = [ver |-> db, seq |-> seq + 1]]
    /\ seq' = seq + 1
    /\ Goto(th, "side")
    /\ UNCHANGED <<dbVars, fileVars, lock, running, op, target, source, snap,
                   chosen, ops, saved, torn, spilled, pushedOver>>

\* Steps 2 to 5: lists, risk rules, MCP bundle, response transforms, API Armor
\* and WAF files, each from the tables as they are by now.
WriteSideFiles(th) ==
    /\ pc[th] = "side"
    /\ side' = db
    /\ Goto(th, "validate")
    /\ UNCHANGED <<dbVars, cfg, applied, latest, files, lock, running, locals,
                   history>>

\* Mutant: a rejected configuration leaves the lock held.
ValidateConfigText_KeepLock(th) ==
    /\ pc[th] = "validate"
    /\ Goto(th, IF conf[th].ver \in Invalid THEN "idle" ELSE "truncate")
    /\ UNCHANGED <<dbVars, fileVars, lock, running, locals, history>>

\* haproxy -c rejects invalid contents, and may time out on valid ones; without
\* the container and without a local binary everything passes.
ValidateConfigText(th) ==
    /\ pc[th] = "validate"
    /\ \/ /\ conf[th].ver \notin Invalid \/ Unchecked
          /\ Goto(th, "truncate")
          /\ UNCHANGED <<lock, locals>>
       \/ Raise(th)
    /\ UNCHANGED <<dbVars, fileVars, running, history>>

\* open(path, "w")
TruncateConfig(th) ==
    /\ pc[th] = "truncate"
    /\ cfg' = Partial
    /\ pushedOver' = FALSE
    /\ Goto(th, "write")
    /\ UNCHANGED <<dbVars, side, applied, latest, files, lock, running, locals,
                   ops, seq, saved, torn, spilled>>

\* Mutant: the text is generated again from the tables as they are by now.
WriteConfig_Again(th) ==
    /\ pc[th] = "write"
    /\ cfg' = [ver |-> db, seq |-> conf[th].seq]
    /\ pushedOver' = FALSE
    /\ applied' = Partial
    /\ Goto(th, "writeapplied")
    /\ UNCHANGED <<dbVars, side, latest, files, lock, running, locals,
                   ops, seq, saved, torn, spilled>>

\* The text is written, which is lost if the open file has been replaced since; the
\* .applied copy is opened next.
WriteConfig(th) ==
    /\ pc[th] = "write"
    /\ \/ /\ cfg' = conf[th]
          /\ pushedOver' = FALSE
       \/ /\ cfg # Partial
          /\ UNCHANGED <<cfg, pushedOver>>
    /\ applied' = Partial
    /\ Goto(th, "writeapplied")
    /\ UNCHANGED <<dbVars, side, latest, files, lock, running, locals,
                   ops, seq, saved, torn, spilled>>

WriteApplied(th) ==
    /\ pc[th] = "writeapplied"
    /\ applied' = conf[th]
    /\ Goto(th, "build")
    /\ UNCHANGED <<dbVars, side, cfg, latest, files, lock, running, locals,
                   history>>

-----------------------------------------------------------------------------
(* save_config_snapshot.                                                   *)

\* _build_db_snapshot reads the tables as they are by now.
BuildSnapshot(th) ==
    /\ pc[th] = "build"
    /\ snap' = [snap EXCEPT ![th] = [db |-> db, rows |-> rows]]
    /\ Goto(th, "truncsnap")
    /\ UNCHANGED <<dbVars, fileVars, lock, running, op, target, source, conf,
                   chosen, history>>

TruncateSnapshot(th) ==
    /\ pc[th] = "truncsnap"
    /\ latest' = Partial
    /\ Goto(th, "writesnap")
    /\ UNCHANGED <<dbVars, side, cfg, applied, files, lock, running, locals,
                   history>>

\* The latest snapshot, then a dated copy whose name is new.
WriteSnapshot(th) ==
    /\ pc[th] = "writesnap"
    /\ latest' = snap[th]
    /\ saved' = Append(saved, snap[th])
    /\ files' = files \cup {Len(saved) + 1}
    /\ source' = [source EXCEPT ![th] = Len(saved) + 1]
    /\ Goto(th, "insert")
    /\ UNCHANGED <<dbVars, side, cfg, applied, lock, running, op, target, snap,
                   conf, chosen, ops, seq, torn, spilled, pushedOver>>

\* The new row commits, unless its id is taken: a sequence was reset below it.
InsertRow(th) ==
    /\ pc[th] = "insert"
    /\ nextId' = nextId + 1
    /\ \/ /\ \E r \in rows : r.id = nextId
          /\ Raise(th)
          /\ UNCHANGED rows
       \/ /\ \A r \in rows : r.id # nextId
          /\ rows' = rows \cup {[id |-> nextId, at |-> source[th],
                                 kept |-> TRUE]}
          /\ Goto(th, "prune")
          /\ UNCHANGED <<lock, locals>>
    /\ UNCHANGED <<db, edits, fileVars, running, history>>

\* The rows beyond the newest MaxKeep.
Beyond(n) == {r \in rows : Cardinality({s \in rows : s.at > r.at}) >= n}

\* _prune_snapshots: of the oldest rows the dated files are deleted and the paths
\* blanked, newest first and one after the other.  An error ends it, before a row or
\* between the file of one and its path, and is swallowed.
PruneBeyond(th, keep) ==
    /\ pc[th] = "prune"
    /\ \E n \in keep .. keep + MaxOps, m \in {0, 1} :
        LET done == Beyond(keep) \ Beyond(n)
            gone == Beyond(keep) \ Beyond(n + m)
        IN /\ files' = files \ {r.at : r \in {s \in gone : s.kept}}
           /\ rows' = (rows \ done) \cup {[r EXCEPT !.kept = FALSE] : r \in done}
           /\ spilled' = (spilled \/ \E r \in Beyond(n) : r.kept)
    /\ Goto(th, "push")
    /\ UNCHANGED <<db, edits, nextId, side, cfg, applied, latest, lock, running,
                   locals, ops, seq, saved, torn, pushedOver>>

\* Mutant: the newest MaxKeep + 1 are kept.
PruneSnapshots_OneMore(th) == PruneBeyond(th, MaxKeep + 1)

PruneSnapshots(th) == PruneBeyond(th, MaxKeep)

-----------------------------------------------------------------------------
(* The Data Plane API and the reload.                                      *)

\* push_config_to_all_instances: an instance takes the configuration or the
\* push fails; a failure is logged.  The default instance takes it by the file.
PushTo(th, reached) ==
    /\ cfg' = IF Primary \in reached THEN conf[th] ELSE cfg
    /\ running' = [i \in Instances |-> IF i \in reached \ {Primary} THEN conf[th]
                                       ELSE running[i]]

Push(th) ==
    /\ pc[th] = "push"
    /\ \E reached \in SUBSET Instances :
        /\ PushTo(th, reached)
        /\ pushedOver' = (pushedOver /\ Primary \notin reached)
    /\ Goto(th, "unlock")
    /\ UNCHANGED <<dbVars, side, applied, latest, files, lock, locals,
                   ops, seq, saved, torn, spilled>>

\* write_config returns.
Unlock(th) ==
    /\ pc[th] = "unlock"
    /\ lock' = None
    /\ torn' = FALSE
    /\ Goto(th, IF op[th] = "ha" THEN "repush" ELSE "reload")
    /\ UNCHANGED <<dbVars, fileVars, running, locals, ops, seq, saved, spilled,
                   pushedOver>>

\* POST /ha/apply pushes once more to collect the results, without the lock.
Repush(th) ==
    /\ pc[th] = "repush"
    /\ \E reached \in SUBSET Instances : PushTo(th, reached)
    /\ pushedOver' = (pushedOver \/ cfg' # cfg)
    /\ Leave(th)
    /\ UNCHANGED <<dbVars, side, applied, latest, files, lock, ops, seq, saved, torn,
                   spilled>>

\* HAProxy loads the file, which it must find whole and valid.
LoadFile ==
    /\ cfg \notin {None, Partial}
    /\ cfg.ver \notin Invalid
    /\ running' = [running EXCEPT ![Primary] = cfg]

\* The reload that the Data Plane API runs some time after a push (reload_delay), or
\* a restart of the container.
DataPlaneReload ==
    /\ LoadFile
    /\ UNCHANGED <<dbVars, fileVars, lock, pc, locals, history>>

\* Mutant: the file on disk is not looked at before the reload.
Reload_NoValidate(th) ==
    /\ pc[th] = "reload"
    /\ running' = [running EXCEPT ![Primary] = cfg]
    /\ Leave(th)
    /\ UNCHANGED <<dbVars, fileVars, lock, history>>

\* reload_haproxy, without the lock: validate the file on disk, then make the
\* default instance read it.  A configuration that was written unchecked is
\* rejected by HAProxy itself.  A reload may fail for other reasons as well.
Reload(th) ==
    /\ pc[th] = "reload"
    /\ LoadFile \/ UNCHANGED running
    /\ Leave(th)
    /\ UNCHANGED <<dbVars, fileVars, lock, history>>

\* The operation ends early: its process dies and the kernel releases its flock, or
\* a call raises: a file cannot be written, db.refresh or set_setting fails between
\* the insert of the row and the pruning.
Crash(th) ==
    /\ Crashes
    /\ pc[th] # "idle"
    /\ torn' = (torn \/ lock = th)
    /\ spilled' = (spilled \/ pc[th] = "prune")
    /\ Raise(th)
    /\ UNCHANGED <<dbVars, fileVars, running, ops, seq, saved, pushedOver>>

-----------------------------------------------------------------------------

Step(th) ==
    \/ Lookup(th) \/ ReadSnapshot(th) \/ Restore(th) \/ ResetSequences(th)
    \/ AcquireLock(th) \/ GenerateConfig(th) \/ WriteSideFiles(th)
    \/ ValidateConfigText(th) \/ TruncateConfig(th) \/ WriteConfig(th)
    \/ WriteApplied(th)
    \/ BuildSnapshot(th) \/ TruncateSnapshot(th) \/ WriteSnapshot(th)
    \/ InsertRow(th) \/ PruneSnapshots(th) \/ Push(th) \/ Unlock(th)
    \/ Repush(th) \/ Reload(th)

Next ==
    \/ Edit
    \/ DataPlaneReload
    \/ \E th \in Threads : Request(th) \/ Step(th) \/ Crash(th)

Spec == Init /\ [][Next]_vars

\* Threads run.  flock wakes waiters in no particular order, but the number of
\* operations that can overtake one is bounded here by MaxOps.
FairSpec == Spec /\ \A th \in Threads : WF_vars(Step(th))

-----------------------------------------------------------------------------
(* Properties.                                                             *)

\* Writers "interleaving file writes and corrupting haproxy.cfg" are excluded:
\* between write_config calls haproxy.cfg is complete, equals the .applied copy
\* the status check compares with, and the latest snapshot can be loaded; unless the
\* second push of POST /ha/apply, which holds no lock, has replaced haproxy.cfg.
FilesAgree ==
    (lock = None /\ ~torn)
        => /\ cfg # Partial /\ latest # Partial
           /\ cfg = applied \/ pushedOver

\* As long as haproxy -c can be run, a configuration that it rejects is neither
\* in haproxy.cfg, where the next restart of HAProxy would meet it, nor pushed
\* to any instance.
OnlyValidated ==
    /\ cfg \notin {None, Partial} => cfg.ver \notin Invalid
    /\ \A i \in Instances : running[i].ver \notin Invalid

\* A reload that succeeds leaves the default instance with the configuration
\* its own write_config generated or one generated after it, unless the second push
\* of another operation has replaced haproxy.cfg.
ReloadRunsOwnOrLater ==
    [][\A th \in Threads :
        (Reload(th) /\ running' # running /\ ~pushedOver)
            => running'[Primary].seq >= conf[th].seq]_vars

\* An instance goes back to a configuration generated earlier only through the
\* second push of POST /ha/apply, which holds no lock: it is given one, or, if it is
\* the default instance, loads what that push has left in haproxy.cfg.  All other
\* pushes and loads, whenever they come, are in the order of generation.
NeverOlder ==
    [][\A i \in Instances :
        running'[i].seq < running[i].seq
            => \/ i = Primary /\ pushedOver
               \/ i # Primary /\ \E th \in Threads : Repush(th)]_vars

\* "Delete the dated snapshot file on disk to save space": between operations
\* no more than max_snapshots rows claim a dated file, restored rows included.
\* A pruning that is skipped or cut short leaves more, which the next apply prunes;
\* but they are in that apply's snapshot, and a restore brings them back.
KeptBounded ==
    (lock = None /\ ~spilled)
        => Cardinality({r \in rows : r.kept}) <= MaxKeep

\* Every operation comes to its end: the write lock is released on each way
\* out of write_config, exceptions and the death of its holder included.
OperationsEnd ==
    \A th \in Threads : []<>(pc[th] = "idle")

\* haproxy.cfg is a register of validated configurations.  It is the turn of a
\* thread from its generation to the release of the lock, and what it has written
\* is due to the instances until it has reloaded or pushed for the last time.
writer ==
    IF \E th \in Threads :
         pc[th] \in {"side", "validate", "truncate", "write", "writeapplied", "build",
                     "truncsnap", "writesnap", "insert", "prune", "push", "unlock"}
    THEN lock ELSE None
due ==
    [th \in Threads |->
        IF pc[th] \in {"writeapplied", "build", "truncsnap", "writesnap", "insert",
                       "prune", "push", "unlock", "reload", "repush"}
        THEN conf[th] ELSE None]

Register == INSTANCE ConfigRegister
                WITH file <- cfg, turn <- seq, live <- running

\* write_config, reload_haproxy and the pushes implement the register: turns do not
\* overlap, every turn publishes one configuration at most, newer than all before it,
\* nothing partial is loaded, and neither the file nor an instance is given what is
\* not published or no longer due, whatever edits, restores, rejections and early
\* ends come in between.  The register has OnlyValidated (unless rejections are missed).
ImplementsRegister == Register!Spec

\* "generates the config, validates it, writes files to disk, and pushes": no
\* file that belongs to the configuration comes from contents that haproxy -c
\* rejects.
WrittenAfterValidation == side \notin Invalid

\* "On PostgreSQL, uses setval() to advance sequences past the highest restored
\* ID": the id a new snapshot row is about to get is free.
NextIdFree ==
    \A th \in Threads : pc[th] = "insert" => \A r \in rows : r.id # nextId

\* "Mark the snapshot as pruned so the UI/rollback can show it's no longer
\* available on disk": a row that has a path has its file.
KeptOnDisk ==
    lock = None => \A r \in rows : r.kept => r.at \in files

\* "Restore the database to a named ConfigSnapshot": a rollback restores what
\* was saved under the name when the user chose it.
RollbackRestoresChosen ==
    [][\A th \in Threads :
        (Restore(th) /\ pc'[th] = "reset" /\ op[th] = "rollback")
            => snap[th] = saved[chosen[th]]]_vars

\* "A dated copy is also kept ... so users can roll back to any previous
\* apply"; "KEEP the ConfigSnapshot DB record": rows are not removed.
AppliesStayListed ==
    [][\A r \in rows : \E s \in rows' : s.id = r.id /\ s.at = r.at]_vars

\* "Restore the database to the last applied configuration": what a revert
\* restores is what haproxy.cfg.applied was generated from.
RevertRestoresApplied ==
    [][\A th \in Threads :
        (Restore(th) /\ pc'[th] = "reset" /\ op[th] = "revert"
           /\ lock = None /\ ~torn)
            => db' = applied.ver]_vars

=============================================================================
