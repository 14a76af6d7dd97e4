---------------------------- MODULE PeriodicTask ----------------------------
(***************************************************************************)
(* The restart-safe scheduler of backend/app/services/scheduler.py, as the *)
(* leader runs one for certificate renewal, GeoIP and rule-set downloads   *)
(* and security-list feeds.  The time stamp {name}_last_run_at survives in *)
(* the settings table; the thread and its timers do not survive a restart. *)
(*                                                                         *)
(* Time is discrete.  A run of _tick takes no time against the interval,   *)
(* and a thread whose wait is over runs before the clock goes on.          *)
(*                                                                         *)
(* The settings table is saved with every apply and put back by a revert   *)
(* or a rollback (services/haproxy.py:5545, 5804), so that the stamp the   *)
(* scheduler finds need not be the last one it wrote.                      *)
(***************************************************************************)
EXTENDS Integers

CONSTANTS
    Interval,   \* interval_seconds, in clock ticks
    Never       \* the setting has no value

ASSUME IntervalAssumption == Interval \in Nat \ {0}
ASSUME NeverAssumption == Never \notin Int

\* Ages beyond this are not told apart.
MaxAge == 2 * Interval + 1
Age == 0 .. MaxAge \cup {Never}

VARIABLES
    age,       \* ticks since last_run_at, as the table has it
    recent,    \* history: ticks since the last run that was stamped
    files,     \* every path of files_required exists
    pc,        \* where the thread is
    timer,     \* what is left of its current wait
    failed     \* history: a _tick failed, or was not stamped, since then

vars == <<age, recent, files, pc, timer, failed>>

TypeOK ==
    /\ age \in Age /\ recent \in Age
    /\ files \in BOOLEAN
    /\ pc \in {"down", "tick", "sleep", "remaining", "interval", "ended"}
    /\ timer \in 0 .. Interval
    /\ failed \in BOOLEAN

Init ==
    /\ age = Never /\ recent = Never
    /\ files \in BOOLEAN
    /\ pc = "down"
    /\ timer = 0
    /\ failed = FALSE

\* The age test of _is_due.
Old == IF age = Never THEN TRUE ELSE age >= Interval

\* Mutant: a restart always runs the task.
Start_Always ==
    /\ pc = "down"
    /\ pc' = "tick"
    /\ UNCHANGED <<age, recent, files, timer, failed>>

\* start() and _is_due: a file that is missing makes the task due before the
\* table is read; an exception of the read ends the thread, for nothing in _run
\* catches it.
Start ==
    /\ pc = "down"
    /\ \/ (~files \/ Old) /\ pc' = "tick"
       \/ files /\ ~Old /\ pc' = "sleep"
       \/ files /\ pc' = "ended"
    /\ UNCHANGED <<age, recent, files, timer, failed>>

\* _remaining_seconds reads the table once more, with the same two outcomes.
Remaining ==
    /\ pc = "sleep"
    /\ \/ /\ timer' = IF Old THEN 0 ELSE Interval - age
          /\ pc' = "remaining"
       \/ pc' = "ended" /\ UNCHANGED timer
    /\ UNCHANGED <<age, recent, files, failed>>

\* Mutant: a time stamp without a value.
RunTick_StampEmpty ==
    /\ pc = "tick"
    /\ age' = -1 /\ recent' = 0
    /\ pc' = "interval"
    /\ timer' = Interval
    /\ UNCHANGED <<files, failed>>

\* Mutant: an exception of _tick ends the thread.
RunTick_Ends ==
    /\ pc = "tick"
    /\ \/ age' = 0 /\ recent' = 0 /\ files' = TRUE /\ pc' = "interval"
          /\ failed' = FALSE
       \/ UNCHANGED <<age, recent, files>> /\ pc' = "ended" /\ failed' = TRUE
    /\ timer' = Interval

\* _run_tick: success is stamped; failure, an exception and a stamp that cannot
\* be written are logged.  The loop then waits a whole interval.
RunTick ==
    /\ pc = "tick"
    /\ files' \in {files, TRUE}
    /\ \/ age' = 0 /\ recent' = 0 /\ failed' = FALSE
       \/ UNCHANGED <<age, recent>> /\ failed' = TRUE
    /\ pc' = "interval"
    /\ timer' = Interval

\* Mutant: after the remaining time the rest of the schedule is doubled.
RemainingOver_Twice ==
    /\ pc = "remaining" /\ timer = 0
    /\ pc' = "remaining"
    /\ timer' = Interval
    /\ UNCHANGED <<age, recent, files, failed>>

\* The remaining time is over: _run goes on to its loop, which waits first.
RemainingOver ==
    /\ pc = "remaining" /\ timer = 0
    /\ pc' = "interval"
    /\ timer' = Interval
    /\ UNCHANGED <<age, recent, files, failed>>

IntervalOver ==
    /\ pc = "interval" /\ timer = 0
    /\ pc' = "tick"
    /\ UNCHANGED <<age, recent, files, timer, failed>>

\* stop(), or the process ends: a wait is cut short, the stamp stays.
Stop ==
    /\ pc # "down"
    /\ pc' = "down"
    /\ timer' = 0
    /\ UNCHANGED <<age, recent, files, failed>>

\* A revert, a rollback or a restored backup puts some earlier settings table
\* back: it has a stamp of an earlier run, or of one undone meanwhile, or none.
RestoreStamp ==
    /\ age' \in {Never} \cup {a \in 0 .. MaxAge : recent # Never /\ a >= recent}
    /\ UNCHANGED <<recent, files, pc, timer, failed>>

\* The volume that holds the files is new.
LoseFiles ==
    /\ files
    /\ files' = FALSE
    /\ UNCHANGED <<age, recent, pc, timer, failed>>

Older(a) == IF a = Never THEN Never ELSE IF a < MaxAge THEN a + 1 ELSE MaxAge

Clock ==
    /\ pc \in {"down", "ended"} \/ (pc \in {"remaining", "interval"} /\ timer > 0)
    /\ age' = Older(age) /\ recent' = Older(recent)
    /\ timer' = IF pc \in {"down", "ended"} THEN timer ELSE timer - 1
    /\ UNCHANGED <<files, pc, failed>>

Next == Start \/ Remaining \/ RunTick \/ RemainingOver \/ IntervalOver \/ Stop
        \/ RestoreStamp \/ LoseFiles \/ Clock

Spec == Init /\ [][Next]_vars

\* The thread runs, _tick returns and time passes; nobody has to stop or restart
\* it.
FairSpec ==
    Spec /\ WF_vars(Start \/ Remaining \/ RunTick \/ RemainingOver \/ IntervalOver
                    \/ Clock)

-----------------------------------------------------------------------------
(* Properties.                                                             *)

\* "a container restart does not trigger redundant work": whatever restarts,
\* failures and restored tables came before, a run begins only when the stamp is
\* an interval old or a required file is missing.
NoRedundantRun == [][pc # "tick" /\ pc' = "tick" => Old \/ ~files]_vars

\* While the process stays up and no run fails, the last run is at most two
\* intervals ago: the remaining time of a restart and one more interval.  A table
\* that is restored meanwhile may bring the run of a restart forward, never put
\* it off.  A thread whose start failed is not among the waiting ones.
LateByOneInterval ==
    (pc \in {"remaining", "interval"} /\ ~failed /\ recent # Never)
        => recent <= 2 * Interval

\* The inductive strengthening of both: no stamp in the table is younger than
\* the last run; what is left of a wait, and what follows it, bring the time
\* since the last run to an interval and not beyond two.
WaitInv ==
    /\ age # Never => recent # Never /\ age >= recent
    /\ pc = "interval" /\ recent # Never => recent + timer >= Interval
    /\ pc = "interval" /\ ~failed /\ recent # Never
            => recent + timer <= 2 * Interval
    /\ pc = "remaining" /\ recent # Never => recent + timer <= Interval
    /\ pc = "sleep" /\ recent # Never => recent < Interval

IInv == TypeOK /\ WaitInv

\* A thread that has found out how long to wait runs its task again and again
\* until it is stopped, whatever fails: "a failed run retries on the next
\* interval or restart".
KeepsRunning ==
    /\ pc = "tick" ~> pc \in {"interval", "down"}
    /\ pc \in {"remaining", "interval"} ~> pc \in {"tick", "down"}

\* "sleeps for the remaining time until due ..., preserving the original
\* schedule across restarts": while the process is up and no run fails, a run
\* that is due is not put off.
OnSchedule ==
    (pc \in {"remaining", "interval"} /\ ~failed /\ recent # Never)
        => recent <= Interval

\* "a container restart does not trigger redundant work", although a revert
\* has taken the stamp of the last run back.
NoRunAgain ==
    [][pc # "tick" /\ pc' = "tick" /\ recent # Never
        => recent >= Interval \/ ~files]_vars

\* "a failed run retries on the next interval or restart": so does a start
\* that could not read its time stamp.
StartRetried == pc = "ended" ~> pc = "tick"

=============================================================================
