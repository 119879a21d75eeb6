------------------------------ MODULE Scheduler ------------------------------
(***************************************************************************)
(* SchedulerService: jobs a user scheduled, kept in a dictionary and in a  *)
(* JSON file, started by a tick and executed by tasks of their own that    *)
(* reschedule or remove the job when they end; recurring callbacks of the  *)
(* application, which live in memory only; and load_and_recover after a    *)
(* restart.  A step runs from one await to the next, so a handler and the  *)
(* save it ends with are one step.                                         *)
(***************************************************************************)
EXTENDS Integers, FiniteSets

CONSTANTS
    Jobs,       \* ids of scheduled jobs
    Recurring,  \* the jobs with trigger "every"
    Cron,       \* the recurring jobs with a cron expression
    Soft,       \* the jobs of tier "soft", started ahead of their time
    Callbacks,  \* names of recurring callbacks
    Period,     \* the interval, and the distance of two cron times
    Grace,      \* GRACE_SECONDS
    MaxLead,    \* LatencyTracker.lead is any value up to this one
    MaxTime,    \* bound: last instant of the clock
    MaxBoots,   \* bound: restarts in a behaviour
    Faults      \* which ends of the process may happen: "crash", "shutdown"

ASSUME SchedulerConstants ==
    /\ Recurring \subseteq Jobs /\ Cron \subseteq Recurring /\ Soft \subseteq Jobs
    /\ Jobs \cap Callbacks = {}
    /\ Period \in Nat \ {0}
    /\ Grace \in Nat /\ MaxLead \in Nat
    /\ MaxTime \in Nat /\ MaxBoots \in Nat
    /\ Faults \subseteq {"crash", "shutdown"}

Entries == Jobs \cup Callbacks
OneShot == Jobs \ Recurring

VARIABLES
    now,        \* the clock
    phase,      \* "up", "closing" once run() has ended and AppRuntime.shutdown
                \* releases the rest, "stopping" while asyncio.run cancels the
                \* tasks that are left, "down"
    jobs,       \* SchedulerService._jobs: the ids it holds
    fireAt,     \* fire_at of each job and callback object
    inFlight,   \* _in_flight and _callback_in_flight
    tasks,      \* the execution tasks that have not ended
    disk,       \* the stored file: fire_at of each job in it
    boots,      \* restarts so far
    known,      \* history: jobs ever accepted by add_job
    cancelled,  \* history: jobs a user was told are cancelled
    settled,    \* history: one-shot jobs whose run returned or raised, or expired
    cut,        \* history: one-shot jobs whose execution a shutdown cut off
    lost,       \* history: jobs in the file when a crash interrupted a save
    lastRun     \* history: fire_at of the last start of each entry, this boot

schedVars == <<now, phase, jobs, fireAt, inFlight, tasks, disk, boots,
          known, cancelled, settled, cut, lost, lastRun>>

Task == [entry : Entries, stage : {"created", "thinking", "pushing"}]

\* What store.save writes.
Save(S, f) == disk' = [j \in S |-> f[j]]

\* next_cron_fire at or after t, and the first cron time later than t.
CronFrom(t) == Period * ((t + Period - 1) \div Period)
CronAfter(t) == Period * (t \div Period + 1)

\* Variant: an occurrence is skipped.
SkippingAdvance(e, f, t) ==
    IF e \in Cron \cup Callbacks THEN CronAfter(t) + Period
    ELSE f + Period * ((t - f) \div Period + 2)

\* _advance_every with the microsecond its callers add: the first time of the
\* entry's schedule after t, where f is its fire_at and f <= t.
AdvanceEvery(e, f, t) ==
    IF e \in Cron \cup Callbacks THEN CronAfter(t)
    ELSE f + Period * ((t - f) \div Period + 1)

ScheduleInit ==
    /\ now = 0
    /\ phase = "up"
    /\ jobs = {}
    /\ fireAt = [e \in Entries |-> 0]
    /\ inFlight = {}
    /\ tasks = {}
    /\ disk = [j \in {} |-> 0]
    /\ boots = 0
    /\ known = {} /\ cancelled = {} /\ settled = {} /\ cut = {} /\ lost = {}
    /\ lastRun = [e \in Entries |-> -1]

-----------------------------------------------------------------------------
(* The operations of the schedule tools                                     *)

\* Tasks take their steps: until asyncio.run cancels them.
Working == phase \in {"up", "closing"}

\* compute_fire_at: an interval counts from now, a cron job takes its next
\* time; "at" and "after" give any time, one in the past included, because
\* "after" counts from when the user's message arrived.
FirstFire(j) == CASE j \in Cron -> {CronFrom(now)}
                  [] j \in Recurring \ Cron -> {now + Period}
                  [] OTHER -> 0 .. MaxTime

AddJob(j, f) ==
    /\ Working
    /\ j \notin known
    /\ f \in FirstFire(j)
    /\ jobs' = jobs \cup {j}
    /\ fireAt' = [fireAt EXCEPT ![j] = f]
    /\ Save(jobs', fireAt')
    /\ known' = known \cup {j}
    /\ UNCHANGED <<now, phase, inFlight, tasks, boots, cancelled, settled, cut, lost, lastRun>>

\* cancel_job for each id with the given prefix, or cancel_job_by_name.
CancelJobs(S) ==
    /\ Working
    /\ S # {} /\ S \subseteq jobs
    /\ jobs' = jobs \ S
    /\ Save(jobs', fireAt)
    /\ cancelled' = cancelled \cup S
    /\ UNCHANGED <<now, phase, fireAt, inFlight, tasks, boots, known, settled, cut, lost, lastRun>>

-----------------------------------------------------------------------------
(* The tick and the execution tasks                                         *)

\* compute_actual_trigger(e) <= now, for callbacks fire_at <= now.
Triggered(e, lead) == fireAt[e] <= now + (IF e \in Soft THEN lead ELSE 0)

\* Variant: in-flight entries are started again.
TickIgnoringInFlight(lead) ==
    LET due == {e \in jobs \cup Callbacks : Triggered(e, lead)} IN
    /\ phase = "up"
    /\ due # {}
    /\ inFlight' = inFlight \cup due
    /\ tasks' = tasks \cup {[entry |-> e, stage |-> "created"] : e \in due}
    /\ lastRun' = [e \in Entries |-> IF e \in due THEN fireAt[e] ELSE lastRun[e]]
    /\ UNCHANGED <<now, phase, jobs, fireAt, disk, boots, known, cancelled, settled, cut, lost>>

\* _tick: one pass over all entries, a task for each that is due.  The lead is
\* a quantile of whatever latencies were measured.
Tick(lead) ==
    LET due == {e \in (jobs \cup Callbacks) \ inFlight : Triggered(e, lead)} IN
    /\ phase = "up"
    /\ due # {}
    /\ inFlight' = inFlight \cup due
    /\ tasks' = tasks \cup {[entry |-> e, stage |-> "created"] : e \in due}
    /\ lastRun' = [e \in Entries |-> IF e \in due THEN fireAt[e] ELSE lastRun[e]]
    /\ UNCHANGED <<now, phase, jobs, fireAt, disk, boots, known, cancelled, settled, cut, lost>>

\* A task's first step: a soft job enters process_direct, an instant one the
\* push tool, a callback its own code.
BeginTask(x) ==
    /\ Working
    /\ x.stage = "created"
    /\ tasks' = (tasks \ {x}) \cup
         {[x EXCEPT !.stage = IF x.entry \in Soft THEN "thinking" ELSE "pushing"]}
    /\ UNCHANGED <<now, phase, jobs, fireAt, inFlight, disk, boots, known, cancelled,
                   settled, cut, lost, lastRun>>

\* process_direct returned something to push.
PushReply(x) ==
    /\ Working
    /\ x.stage = "thinking"
    /\ tasks' = (tasks \ {x}) \cup {[x EXCEPT !.stage = "pushing"]}
    /\ UNCHANGED <<now, phase, jobs, fireAt, inFlight, disk, boots, known, cancelled,
                   settled, cut, lost, lastRun>>

\* Variant: the next time is computed from the clock alone.
RescheduledFromNow(e) == [fireAt EXCEPT ![e] = AdvanceEvery(e, @, now)]

\* Reschedule strictly after the later of the clock and the nominal time: a
\* soft job may be done before its fire_at.
Rescheduled(e) ==
    [fireAt EXCEPT ![e] = AdvanceEvery(e, @, IF now > @ THEN now ELSE @)]

\* The finally of an execution: a recurring job is put back, also when it has
\* been cancelled meanwhile, a one-shot job is removed, and both are saved.
Reschedule(e) ==
    \/ /\ e \in Callbacks
       /\ fireAt' = Rescheduled(e)
       /\ UNCHANGED <<jobs, disk>>
    \/ /\ e \in Recurring
       /\ fireAt' = Rescheduled(e)
       /\ jobs' = jobs \cup {e}
       /\ Save(jobs', fireAt')
    \/ /\ e \in OneShot
       /\ jobs' = jobs \ {e}
       /\ UNCHANGED fireAt
       /\ Save(jobs', fireAt)

\* Variant: only a run that did not raise is taken out of the in-flight set.
CompleteKeepingInFlight(x) ==
    /\ Working
    /\ x.stage \in {"thinking", "pushing"}
    /\ tasks' = tasks \ {x}
    /\ inFlight' = IF x.stage = "thinking" THEN inFlight ELSE inFlight \ {x.entry}
    /\ Reschedule(x.entry)
    /\ settled' = settled \cup (OneShot \cap {x.entry})
    /\ UNCHANGED <<now, phase, boots, known, cancelled, cut, lost, lastRun>>

\* _execute returned or raised: pushed, had nothing to push, or failed.
Complete(x) ==
    /\ Working
    /\ x.stage \in {"thinking", "pushing"}
    /\ tasks' = tasks \ {x}
    /\ inFlight' = inFlight \ {x.entry}
    /\ Reschedule(x.entry)
    /\ settled' = settled \cup (OneShot \cap {x.entry})
    /\ UNCHANGED <<now, phase, boots, known, cancelled, cut, lost, lastRun>>

-----------------------------------------------------------------------------
(* Ends of the process and restarts                                         *)

\* A signal cancels AppRuntime.run, which ends run() and with it the tick.
Close ==
    /\ "shutdown" \in Faults
    /\ phase = "up"
    /\ boots < MaxBoots
    /\ phase' = "closing"
    /\ UNCHANGED <<now, jobs, fireAt, inFlight, tasks, disk, boots, known, cancelled, settled,
                   cut, lost, lastRun>>

\* The main task has ended: asyncio.run cancels every task.  One that has not
\* started yet never runs its body, hence no finally.
StopScheduler ==
    /\ phase = "closing"
    /\ phase' = "stopping"
    /\ tasks' = {x \in tasks : x.stage # "created"}
    /\ UNCHANGED <<now, jobs, fireAt, inFlight, disk, boots, known, cancelled, settled, cut, lost,
                   lastRun>>

\* CancelledError leaves _execute: not an Exception, but the finally runs.
Unwind(x) ==
    /\ phase = "stopping"
    /\ tasks' = tasks \ {x}
    /\ inFlight' = inFlight \ {x.entry}
    /\ Reschedule(x.entry)
    /\ cut' = cut \cup (OneShot \cap {x.entry})
    /\ UNCHANGED <<now, phase, boots, known, cancelled, settled, lost, lastRun>>

\* The process ends: memory is gone.
Die ==
    /\ phase' = "down"
    /\ jobs' = {} /\ inFlight' = {} /\ tasks' = {}
    /\ UNCHANGED <<now, fireAt, boots, known, cancelled, settled, cut, lastRun>>

Exit ==
    /\ phase = "stopping" /\ tasks = {}
    /\ Die
    /\ UNCHANGED <<disk, lost>>

\* A crash between two steps leaves the file as it is.
Crash ==
    /\ "crash" \in Faults
    /\ phase # "down"
    /\ boots < MaxBoots
    /\ Die
    /\ UNCHANGED <<disk, lost>>

\* The next step ends in a save.
Saving == \/ Working /\ (known # Jobs \/ jobs # {})
          \/ \E x \in tasks : x.entry \in Jobs /\ x.stage # "created"

\* save_json truncates the file before it writes it.  After a crash between the
\* two the file does not parse, and load_json gives its default, no jobs.
CrashInSave ==
    /\ "crash" \in Faults
    /\ phase # "down"
    /\ boots < MaxBoots
    /\ Saving
    /\ Die
    /\ Save({}, fireAt)
    /\ lost' = lost \cup DOMAIN disk

\* Variant: what is overdue beyond the grace period is dropped first.
RecoveredGraceFirst == {j \in DOMAIN disk : now - disk[j] <= Grace}

\* load_and_recover keeps every recurring job, and a one-shot job unless it is
\* overdue by more than the grace period.
Recovered == {j \in DOMAIN disk : j \in Recurring \/ now - disk[j] <= Grace}

\* A restart: callbacks are registered, then run() recovers the stored jobs.
\* Overdue recurring jobs skip to their next time.  Nothing is saved.
Boot ==
    /\ phase = "down"
    /\ phase' = "up"
    /\ boots' = boots + 1
    /\ jobs' = Recovered
    /\ fireAt' = [e \in Entries |->
          CASE e \in Callbacks -> CronFrom(now)
            [] e \in Recovered /\ (e \notin Recurring \/ disk[e] > now) -> disk[e]
            [] e \in Recovered /\ e \in Cron /\ disk[e] <= now -> CronFrom(now)
            [] e \in Recovered /\ e \in Recurring \ Cron /\ disk[e] <= now ->
                  AdvanceEvery(e, disk[e], now)
            [] OTHER -> 0]
    /\ settled' = settled \cup (OneShot \cap (DOMAIN disk \ jobs'))
    /\ lastRun' = [e \in Entries |-> -1]
    /\ UNCHANGED <<now, inFlight, tasks, disk, known, cancelled, cut, lost>>

Time ==
    /\ now < MaxTime
    /\ now' = now + 1
    /\ UNCHANGED <<phase, jobs, fireAt, inFlight, tasks, disk, boots, known, cancelled,
                   settled, cut, lost, lastRun>>

-----------------------------------------------------------------------------

ScheduleNext ==
    \/ \E j \in Jobs : \E f \in FirstFire(j) : AddJob(j, f)
    \/ \E S \in SUBSET jobs : CancelJobs(S)
    \/ \E lead \in 0 .. MaxLead : Tick(lead)
    \/ \E x \in tasks : BeginTask(x)
    \/ \E x \in tasks : PushReply(x)
    \/ \E x \in tasks : Complete(x)
    \/ Close
    \/ StopScheduler
    \/ \E x \in tasks : Unwind(x)
    \/ Exit
    \/ Crash
    \/ CrashInSave
    \/ Boot
    \/ Time

ScheduleSpec == ScheduleInit /\ [][ScheduleNext]_schedVars

\* What a task of entry e does next.
Execute(e) ==
    \E x \in tasks : x.entry = e /\ (BeginTask(x) \/ PushReply(x) \/ Complete(x))

\* The tick runs every second, and executions end: a direct turn makes a bounded
\* number of model calls and both it and the push tool have timeouts.
ScheduleFairness == /\ WF_schedVars(\E lead \in 0 .. MaxLead : Tick(lead))
            /\ \A e \in Entries : WF_schedVars(Execute(e))

ScheduleFairSpec == ScheduleSpec /\ ScheduleFairness

-----------------------------------------------------------------------------
(* Properties                                                               *)

\* The latest time a schedule can be moved to: one period after the clock, or
\* after the nominal time of a job that was started ahead of it.
Horizon == MaxTime + MaxLead + Period

\* Every variable stays within its type.
ScheduleTypeOK ==
    /\ now \in 0 .. MaxTime
    /\ phase \in {"up", "closing", "stopping", "down"}
    /\ jobs \subseteq Jobs
    /\ fireAt \in [Entries -> 0 .. Horizon]
    /\ inFlight \subseteq Entries
    /\ tasks \subseteq Task
    /\ DOMAIN disk \subseteq Jobs /\ \A j \in DOMAIN disk : disk[j] \in 0 .. Horizon
    /\ boots \in 0 .. MaxBoots
    /\ known \subseteq Jobs /\ cancelled \subseteq Jobs
    /\ settled \subseteq OneShot /\ cut \subseteq OneShot /\ lost \subseteq Jobs
    /\ lastRun \in [Entries -> -1 .. Horizon]

\* A job or callback is executed by at most one task at a time, through
\* cancellation, failure, rescheduling and restarts.
NoOverlap == \A x, y \in tasks : x.entry = y.entry => x = y

\* Within one life of the process an occurrence is started once: each start is
\* for a later nominal time than the one before, although a soft job can be
\* finished before its nominal time has come.
OccurrenceStartedOnce ==
    [][\A e \in Entries :
          e \in inFlight' \ inFlight => fireAt[e] > lastRun[e]]_schedVars

\* A job the user scheduled and has not cancelled is on disk until its run ends
\* or it is found to be too old: a crash at any moment loses no job, with one
\* exception, a crash in the middle of a save, and that one loses no more than
\* what the file held.
PendingIsDurable == known \ (cancelled \cup settled \cup cut \cup lost) \subseteq DOMAIN disk

\* A job or callback whose time has come is executed, unless it is cancelled or
\* the process ends first.
Started(e) == \E x \in tasks : x.entry = e /\ x.stage # "created"
DueEntriesRun ==
    \A e \in Entries :
        (phase = "up" /\ e \in jobs \cup Callbacks /\ fireAt[e] <= now)
            ~> (phase # "up" \/ e \notin jobs \cup Callbacks \/ Started(e))

\* A job the user was told is cancelled is not scheduled any more.
CancelledStaysCancelled == cancelled \cap jobs = {}

\* A one-shot job is not lost to an orderly shutdown: one that was cut off and
\* never executed to the end is on disk for the next start.
ShutdownKeepsUnfinished == cut \ (settled \cup cancelled) \subseteq DOMAIN disk
=============================================================================
