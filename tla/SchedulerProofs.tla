--------------------------- MODULE SchedulerProofs ---------------------------
(***************************************************************************)
(* Machine-checked theorems about Scheduler, for every set of jobs, every  *)
(* period, grace time, lead and bound.                                     *)
(***************************************************************************)
EXTENDS Scheduler, TLAPS

\* Division by the period rounds down.
LEMMA PeriodDivides ==
  ASSUME NEW t \in Nat
  PROVE  /\ t \div Period \in Nat
         /\ Period * (t \div Period) <= t
         /\ t < Period * (t \div Period) + Period
BY SchedulerConstants, SMTT(60) DEF SchedulerConstants

\* The time a schedule is advanced to is later than t, and by at most a period.
LEMMA AdvanceIsNext ==
  ASSUME NEW e, NEW f \in Nat, NEW t \in Nat, f <= t
  PROVE  /\ AdvanceEvery(e, f, t) \in Nat
         /\ AdvanceEvery(e, f, t) > t
         /\ AdvanceEvery(e, f, t) <= t + Period
<1> DEFINE q == t \div Period
           r == (t - f) \div Period
<1>0. Period \in Nat \ {0}
  BY SchedulerConstants DEF SchedulerConstants
<1>1. q \in Nat /\ Period * q <= t /\ t < Period * q + Period
  BY PeriodDivides
<1>2. r \in Nat /\ Period * r <= t - f /\ t - f < Period * r + Period
  BY PeriodDivides
<1>3. Period * (q + 1) = Period * q + Period /\ Period * (r + 1) = Period * r + Period
  <2> HIDE DEF q, r
  <2> QED BY <1>0, <1>1, <1>2
<1>4. Period * q \in Nat /\ Period * r \in Nat
  <2> HIDE DEF q, r
  <2> QED BY <1>0, <1>1, <1>2
<1>5. AdvanceEvery(e, f, t) = IF e \in Cron \cup Callbacks THEN Period * (q + 1)
                              ELSE f + Period * (r + 1)
  BY DEF AdvanceEvery, CronAfter
<1> HIDE DEF q, r
<1> QED BY <1>0, <1>1, <1>2, <1>3, <1>4, <1>5

\* The first cron time at or after t.
LEMMA CronFromIsNext ==
  ASSUME NEW t \in Nat
  PROVE  CronFrom(t) \in Nat /\ CronFrom(t) >= t /\ CronFrom(t) < t + Period
<1> DEFINE u == t + Period - 1
           q == u \div Period
<1>0. Period \in Nat \ {0} /\ u \in Nat
  BY SchedulerConstants DEF SchedulerConstants
<1>1. q \in Nat /\ Period * q <= u /\ u < Period * q + Period
  BY <1>0, PeriodDivides
<1>2. Period * q \in Nat /\ CronFrom(t) = Period * q
  BY <1>0, <1>1 DEF CronFrom
<1> HIDE DEF q
<1> QED BY <1>0, <1>1, <1>2

-----------------------------------------------------------------------------
(* At most one task executes an entry.                                      *)

\* Task records stay task records when their stage changes.
LEMMA StageOnly ==
  ASSUME NEW x \in Task, NEW s \in {"created", "thinking", "pushing"}
  PROVE  [x EXCEPT !.stage = s] \in Task /\ [x EXCEPT !.stage = s].entry = x.entry
BY DEF Task

\* Every task's entry is in flight, and no two tasks execute the same one.
Exclusive ==
    /\ tasks \subseteq Task
    /\ jobs \subseteq Jobs /\ DOMAIN disk \subseteq Jobs
    /\ \A x \in tasks : x.entry \in inFlight
    /\ NoOverlap

\* Every step keeps an entry to one task.
LEMMA ExclusiveStep == Exclusive /\ [ScheduleNext]_schedVars => Exclusive'
<1> SUFFICES ASSUME Exclusive, [ScheduleNext]_schedVars PROVE Exclusive'
  OBVIOUS
<1> USE DEF Exclusive, NoOverlap
<1>1. ASSUME NEW lead \in 0 .. MaxLead, Tick(lead) PROVE Exclusive'
  <2> DEFINE due == {e \in (jobs \cup Callbacks) \ inFlight : Triggered(e, lead)}
             new == {[entry |-> e, stage |-> "created"] : e \in due}
  <2>1. /\ inFlight' = inFlight \cup due /\ tasks' = tasks \cup new
        /\ UNCHANGED <<jobs, disk>>
        /\ due \subseteq Entries /\ due \cap inFlight = {}
    BY <1>1 DEF Tick, Entries
  <2>2. \A x \in new : x \in Task /\ x.entry \in due /\ x.stage = "created"
    BY <2>1 DEF Task
  <2>3. \A x, y \in new : x.entry = y.entry => x = y
    OBVIOUS
  <2> HIDE DEF new, due
  <2> QED BY <2>1, <2>2, <2>3
<1>2. ASSUME NEW x \in tasks, BeginTask(x) \/ PushReply(x) PROVE Exclusive'
  <2>1. PICK s \in {"created", "thinking", "pushing"} :
           tasks' = (tasks \ {x}) \cup {[x EXCEPT !.stage = s]}
    BY <1>2 DEF BeginTask, PushReply
  <2>2. [x EXCEPT !.stage = s] \in Task /\ [x EXCEPT !.stage = s].entry = x.entry
    BY StageOnly
  <2>3. UNCHANGED <<jobs, disk, inFlight>>
    BY <1>2 DEF BeginTask, PushReply
  <2> DEFINE z == [x EXCEPT !.stage = s]
  <2>4. z \in Task /\ z.entry = x.entry /\ tasks' = (tasks \ {x}) \cup {z}
    BY <2>1, <2>2
  <2> HIDE DEF z
  <2> QED BY <2>3, <2>4
<1>3. ASSUME NEW x \in tasks, Complete(x) \/ Unwind(x) PROVE Exclusive'
  <2>1. tasks' = tasks \ {x} /\ inFlight' = inFlight \ {x.entry}
    BY <1>3 DEF Complete, Unwind
  <2>2. jobs' \subseteq Jobs /\ DOMAIN disk' \subseteq Jobs
    BY <1>3, SchedulerConstants
       DEF Complete, Unwind, Reschedule, Save, SchedulerConstants
  <2> QED BY <2>1, <2>2
<1>4. ASSUME Close \/ StopScheduler PROVE Exclusive'
  BY <1>4 DEF Close, StopScheduler
<1>5. ASSUME Exit \/ Crash \/ CrashInSave PROVE Exclusive'
  BY <1>5 DEF Exit, Crash, CrashInSave, Die, Save
<1>6. ASSUME NEW j \in Jobs, NEW f \in FirstFire(j), AddJob(j, f) PROVE Exclusive'
  BY <1>6 DEF AddJob, Save
<1>7. ASSUME NEW S \in SUBSET jobs, CancelJobs(S) PROVE Exclusive'
  BY <1>7 DEF CancelJobs, Save
<1>8. ASSUME Boot PROVE Exclusive'
  BY <1>8 DEF Boot, Recovered
<1>9. ASSUME Time \/ UNCHANGED schedVars PROVE Exclusive'
  BY <1>9 DEF Time, schedVars
<1> QED BY <1>1, <1>2, <1>3, <1>4, <1>5, <1>6, <1>7, <1>8, <1>9 DEF ScheduleNext

\* Always, an entry has at most one task.
LEMMA ExclusiveAlways == ScheduleSpec => []Exclusive
<1>1. ScheduleInit => Exclusive
  BY DEF ScheduleInit, Exclusive, NoOverlap
<1> QED BY <1>1, ExclusiveStep, PTL DEF ScheduleSpec

\* No job or callback is ever executed by two tasks at the same time.
THEOREM ExecutionsExclude == ScheduleSpec => []NoOverlap
<1>1. Exclusive => NoOverlap
  BY DEF Exclusive
<1> QED BY <1>1, ExclusiveAlways, PTL

-----------------------------------------------------------------------------
(* A pending job is on disk.                                                *)

\* Memory holds every pending job while the process lives, the file always.
Durable ==
    /\ PendingIsDurable
    /\ phase # "down" => known \ (cancelled \cup settled \cup cut \cup lost) \subseteq jobs
    /\ jobs \subseteq known /\ DOMAIN disk \subseteq known
    /\ \A x \in tasks : x.entry \in Jobs => x.entry \in known

\* Every step keeps the pending jobs on disk: what changes them saves them.
LEMMA DurableStep == Exclusive /\ Durable /\ [ScheduleNext]_schedVars => Durable'
<1> SUFFICES ASSUME Exclusive, Durable, [ScheduleNext]_schedVars PROVE Durable'
  OBVIOUS
<1> USE DEF Durable, PendingIsDurable
<1>1. ASSUME NEW j \in Jobs, NEW f \in FirstFire(j), AddJob(j, f) PROVE Durable'
  BY <1>1 DEF AddJob, Save, Working
<1>2. ASSUME NEW S \in SUBSET jobs, CancelJobs(S) PROVE Durable'
  BY <1>2 DEF CancelJobs, Save, Working
<1>3. ASSUME NEW x \in tasks, Complete(x) \/ Unwind(x) PROVE Durable'
  <2>0. tasks' \subseteq tasks
    BY <1>3 DEF Complete, Unwind
  <2>1. /\ phase # "down" /\ UNCHANGED <<phase, known, cancelled, lost>>
        /\ settled \cup cut \subseteq settled' \cup cut'
        /\ x.entry \in OneShot => x.entry \in settled' \cup cut'
    BY <1>3 DEF Complete, Unwind, Working
  <2>2. CASE x.entry \in Callbacks
    <3>1. UNCHANGED <<jobs, disk>>
      BY <1>3, <2>2, SchedulerConstants
         DEF Complete, Unwind, Reschedule, OneShot, SchedulerConstants
    <3> QED BY <2>0, <2>1, <3>1
  <2>3. CASE x.entry \in Recurring
    <3>1. jobs' = jobs \cup {x.entry} /\ DOMAIN disk' = jobs'
      BY <1>3, <2>3, SchedulerConstants
         DEF Complete, Unwind, Reschedule, Save, OneShot, SchedulerConstants
    <3>2. x.entry \in known
      BY <2>3, SchedulerConstants DEF SchedulerConstants
    <3> QED BY <2>1, <2>0, <3>1, <3>2
  <2>4. CASE x.entry \in OneShot
    <3>1. jobs' = jobs \ {x.entry} /\ DOMAIN disk' = jobs'
      BY <1>3, <2>4, SchedulerConstants
         DEF Complete, Unwind, Reschedule, Save, OneShot, SchedulerConstants
    <3> QED BY <2>0, <2>1, <2>4, <3>1
  <2>5. x.entry \in Callbacks \cup Recurring \cup OneShot
    BY DEF Exclusive, Task, Entries, OneShot
  <2> QED BY <2>2, <2>3, <2>4, <2>5
<1>4. ASSUME Exit \/ Crash \/ CrashInSave PROVE Durable'
  BY <1>4 DEF Exit, Crash, CrashInSave, Die, Save
<1>5. ASSUME Boot PROVE Durable'
  BY <1>5 DEF Boot, Recovered, Exclusive, OneShot
<1>6. ASSUME NEW lead \in 0 .. MaxLead, Tick(lead) PROVE Durable'
  <2>1. \A x \in tasks' \ tasks : x.entry \in jobs \cup Callbacks
    BY <1>6 DEF Tick
  <2>2. Jobs \cap Callbacks = {}
    BY SchedulerConstants DEF SchedulerConstants
  <2> QED BY <1>6, <2>1, <2>2 DEF Tick
<1>7. ASSUME NEW x \in tasks, BeginTask(x) \/ PushReply(x) PROVE Durable'
  <2>1. PICK s \in {"created", "thinking", "pushing"} :
           tasks' = (tasks \ {x}) \cup {[x EXCEPT !.stage = s]}
    BY <1>7 DEF BeginTask, PushReply
  <2>2. [x EXCEPT !.stage = s].entry = x.entry
    BY StageOnly DEF Exclusive
  <2> DEFINE z == [x EXCEPT !.stage = s]
  <2>3. z.entry = x.entry /\ tasks' = (tasks \ {x}) \cup {z}
    BY <2>1, <2>2
  <2> HIDE DEF z
  <2> QED BY <1>7, <2>3 DEF BeginTask, PushReply, Working
<1>8. ASSUME Close \/ StopScheduler \/ Time \/ UNCHANGED schedVars PROVE Durable'
  BY <1>8 DEF Close, StopScheduler, Time, schedVars
<1> QED BY <1>1, <1>2, <1>3, <1>4, <1>5, <1>6, <1>7, <1>8 DEF ScheduleNext

\* Always, the pending jobs are on disk.
LEMMA DurableAlways == ScheduleSpec => []Durable
<1>1. ScheduleInit => Durable
  BY DEF ScheduleInit, Durable, PendingIsDurable
<1> QED BY <1>1, DurableStep, ExclusiveAlways, PTL DEF ScheduleSpec

\* A crash at any moment loses no job that is still to be executed: the file
\* holds every accepted job that is not cancelled, executed, expired, cut off
\* by an orderly shutdown, or truncated away with the file by a crash in a save.
THEOREM CrashLosesOnlyTornSaves == ScheduleSpec => []PendingIsDurable
<1>1. Durable => PendingIsDurable
  BY DEF Durable
<1> QED BY <1>1, DurableAlways, PTL

-----------------------------------------------------------------------------
(* Types, and the nominal time of what is started.                          *)

\* An entry in flight was due, an idle one has not been started for its time.
Timely ==
    /\ phase = "down" => inFlight = {} /\ tasks = {}
    /\ phase # "up" => boots < MaxBoots
    /\ inFlight \cap Jobs \subseteq known
    /\ \A j \in Jobs \ known : lastRun[j] = -1
    /\ \A e \in inFlight : fireAt[e] <= now + MaxLead /\ fireAt[e] = lastRun[e]
    /\ phase # "down" =>
          \A e \in (jobs \cup Callbacks) \ inFlight : fireAt[e] > lastRun[e]

Inv == ScheduleTypeOK /\ Timely

\* Rescheduling moves the entry past the time it fired for, within the horizon, and no
\* other entry.
LEMMA RescheduledIsLater ==
  ASSUME ScheduleTypeOK, NEW e \in Entries, fireAt[e] <= now + MaxLead
  PROVE  /\ Rescheduled(e) \in [Entries -> 0 .. Horizon]
         /\ Rescheduled(e)[e] > fireAt[e]
         /\ \A d \in Entries \ {e} : Rescheduled(e)[d] = fireAt[d]
<1> DEFINE t == IF now > fireAt[e] THEN now ELSE fireAt[e]
           n == AdvanceEvery(e, fireAt[e], t)
<1>1. /\ Period \in Nat \ {0} /\ MaxTime \in Nat /\ MaxLead \in Nat /\ Horizon \in Nat
      /\ Horizon = MaxTime + MaxLead + Period
  BY SchedulerConstants DEF SchedulerConstants, Horizon
<1>2. now \in Nat /\ now <= MaxTime /\ fireAt[e] \in Nat /\ fireAt \in [Entries -> 0 .. Horizon]
  BY <1>1 DEF ScheduleTypeOK
<1>3. t \in Nat /\ fireAt[e] <= t /\ t <= now + MaxLead
  BY <1>1, <1>2
<1>4. n \in Nat /\ n > t /\ n <= t + Period
  <2> HIDE DEF t
  <2> QED BY <1>2, <1>3, AdvanceIsNext
<1>5. Rescheduled(e) = [fireAt EXCEPT ![e] = n]
  BY DEF Rescheduled
<1> HIDE DEF t, n
<1> QED BY <1>1, <1>2, <1>3, <1>4, <1>5

\* The end of an execution keeps the types and moves a recurring entry on.
LEMMA InvFinish ==
  ASSUME Inv, Exclusive, Durable, NEW x \in tasks, Complete(x) \/ Unwind(x)
  PROVE  Inv'
<1> DEFINE e == x.entry
<1>1. /\ e \in Entries /\ e \in inFlight /\ fireAt[e] <= now + MaxLead
      /\ lastRun[e] = fireAt[e] /\ phase # "down"
  BY DEF Inv, Timely, Exclusive, Task, Complete, Unwind, Working
<1>2. /\ inFlight' = inFlight \ {e} /\ tasks' = tasks \ {x} /\ Reschedule(e)
      /\ UNCHANGED <<now, phase, boots, known, cancelled, lost, lastRun>>
      /\ settled' \subseteq OneShot /\ cut' \subseteq OneShot
  BY DEF Complete, Unwind, Inv, ScheduleTypeOK
<1>3. /\ Rescheduled(e) \in [Entries -> 0 .. Horizon]
      /\ Rescheduled(e)[e] > fireAt[e]
      /\ \A d \in Entries \ {e} : Rescheduled(e)[d] = fireAt[d]
  BY <1>1, RescheduledIsLater DEF Inv
<1> HIDE DEF e
<1>4. /\ fireAt' \in [Entries -> 0 .. Horizon]
      /\ \A d \in Entries \ {e} : fireAt'[d] = fireAt[d]
      /\ jobs' \subseteq Jobs
      /\ \A d \in (jobs' \cup Callbacks) \ {e} : d \in jobs \cup Callbacks
      /\ e \in jobs' \cup Callbacks => fireAt'[e] > lastRun[e]
  <2>1. CASE e \in Callbacks
    BY <1>1, <1>2, <1>3, <2>1, SchedulerConstants
       DEF Reschedule, OneShot, SchedulerConstants, Exclusive
  <2>2. CASE e \in Recurring
    BY <1>1, <1>2, <1>3, <2>2, SchedulerConstants
       DEF Reschedule, OneShot, SchedulerConstants, Exclusive
  <2>3. CASE e \in OneShot
    <3>1. fireAt' = fireAt /\ jobs' = jobs \ {e}
      BY <1>2, <2>3, SchedulerConstants DEF Reschedule, OneShot, SchedulerConstants
    <3>2. e \notin Callbacks
      BY <2>3, SchedulerConstants DEF OneShot, SchedulerConstants
    <3> QED BY <3>1, <3>2 DEF Exclusive, Inv, ScheduleTypeOK
  <2> QED BY <1>1, <2>1, <2>2, <2>3 DEF Entries, OneShot
<1>5. DOMAIN disk' \subseteq Jobs /\ \A j \in DOMAIN disk' : disk'[j] \in 0 .. Horizon
  <2>1. UNCHANGED disk \/ disk' = [j \in jobs' |-> fireAt'[j]]
    BY <1>2 DEF Reschedule, Save
  <2> QED BY <1>4, <2>1 DEF Inv, ScheduleTypeOK, Entries
<1>6. ScheduleTypeOK'
  BY <1>2, <1>4, <1>5 DEF Inv, ScheduleTypeOK
<1>7. Timely'
  <2>1. \A d \in inFlight' : d \in Entries \ {e} /\ d \in inFlight
    BY <1>2 DEF Inv, ScheduleTypeOK
  <2>2. \A d \in (jobs' \cup Callbacks) \ inFlight' : fireAt'[d] > lastRun'[d]
    <3> TAKE d \in (jobs' \cup Callbacks) \ inFlight'
    <3>1. CASE d = e
      BY <1>2, <1>4, <3>1
    <3>2. CASE d # e
      BY <1>1, <1>2, <1>4, <3>2 DEF Inv, Timely, Entries
    <3> QED BY <3>1, <3>2
  <2> QED BY <1>1, <1>2, <1>4, <2>1, <2>2 DEF Inv, Timely
<1> QED BY <1>6, <1>7 DEF Inv

\* A start keeps the types and the nominal times, whatever the file holds.
LEMMA InvBoot == ASSUME Inv, Exclusive, Boot PROVE Inv'
<1>1. /\ Period \in Nat \ {0} /\ MaxTime \in Nat /\ MaxLead \in Nat
      /\ Horizon \in Nat /\ Horizon = MaxTime + MaxLead + Period
      /\ MaxBoots \in Nat /\ Grace \in Nat
  BY SchedulerConstants DEF SchedulerConstants, Horizon
<1>2. now \in Nat /\ now <= MaxTime
  BY <1>1 DEF Inv, ScheduleTypeOK
<1>3. CronFrom(now) \in 0 .. Horizon
  BY <1>1, <1>2, CronFromIsNext
<1>4. \A j \in DOMAIN disk : disk[j] \in 0 .. Horizon
        /\ (disk[j] <= now => AdvanceEvery(j, disk[j], now) \in 0 .. Horizon)
  <2> TAKE j \in DOMAIN disk
  <2>1. disk[j] \in 0 .. Horizon
    BY DEF Inv, ScheduleTypeOK
  <2> QED BY <1>1, <1>2, <2>1, AdvanceIsNext
<1>5. fireAt' \in [Entries -> 0 .. Horizon]
  <2>1. Recovered \subseteq DOMAIN disk
    BY DEF Recovered
  <2>2. \A e \in Entries : fireAt'[e] \in 0 .. Horizon
    <3> TAKE e \in Entries
    <3>1. fireAt'[e] = CASE e \in Callbacks -> CronFrom(now)
            [] e \in Recovered /\ (e \notin Recurring \/ disk[e] > now) -> disk[e]
            [] e \in Recovered /\ e \in Cron /\ disk[e] <= now -> CronFrom(now)
            [] e \in Recovered /\ e \in Recurring \ Cron /\ disk[e] <= now ->
                  AdvanceEvery(e, disk[e], now)
            [] OTHER -> 0
      BY DEF Boot
    <3> QED BY <1>1, <1>3, <1>4, <2>1, <3>1
  <2>3. fireAt' = [e \in Entries |-> fireAt'[e]]
    BY DEF Boot
  <2> QED BY <2>2, <2>3
<1>6. ScheduleTypeOK'
  <2>1. /\ now' = now /\ phase' = "up" /\ boots' = boots + 1 /\ boots < MaxBoots
        /\ jobs' \subseteq Jobs
        /\ UNCHANGED <<inFlight, tasks, disk, known, cancelled, cut, lost>>
        /\ lastRun' = [e \in Entries |-> -1]
    BY DEF Boot, Recovered, Inv, Timely, ScheduleTypeOK
  <2>2. settled' \subseteq OneShot
    BY DEF Boot, Inv, ScheduleTypeOK
  <2> QED BY <1>1, <1>5, <2>1, <2>2 DEF Inv, ScheduleTypeOK
<1>7. Timely'
  <2>1. inFlight' = {} /\ phase' = "up" /\ \A e \in Entries : lastRun'[e] = -1
    BY DEF Boot, Inv, Timely
  <2>2. \A e \in Entries : fireAt'[e] > -1
    BY <1>1, <1>5
  <2>3. jobs' \cup Callbacks \subseteq Entries
    BY <1>6 DEF ScheduleTypeOK, Entries
  <2> QED BY <2>1, <2>2, <2>3 DEF Timely, Entries
<1> QED BY <1>6, <1>7 DEF Inv

\* A tick starts what is due for its time, once.
LEMMA InvTick ==
  ASSUME Inv, Exclusive, Durable, NEW lead \in 0 .. MaxLead, Tick(lead)
  PROVE  Inv'
<1> DEFINE due == {e \in (jobs \cup Callbacks) \ inFlight : Triggered(e, lead)}
           new == {[entry |-> e, stage |-> "created"] : e \in due}
<1>1. /\ inFlight' = inFlight \cup due /\ tasks' = tasks \cup new
      /\ lastRun' = [e \in Entries |-> IF e \in due THEN fireAt[e] ELSE lastRun[e]]
      /\ UNCHANGED <<now, phase, jobs, fireAt, disk, boots, known, cancelled, settled, cut, lost>>
      /\ phase = "up"
  BY DEF Tick
<1>2. /\ due \subseteq Entries /\ due \subseteq jobs \cup Callbacks
      /\ \A e \in due : fireAt[e] <= now + MaxLead
  <2>1. MaxLead \in Nat /\ now \in Nat /\ fireAt \in [Entries -> Nat]
    BY SchedulerConstants DEF SchedulerConstants, Inv, ScheduleTypeOK, Horizon
  <2>2. due \subseteq Entries
    BY DEF Inv, ScheduleTypeOK, Entries
  <2> QED BY <2>1, <2>2 DEF Triggered
<1>3. new \subseteq Task
  BY <1>2 DEF Task
<1> HIDE DEF due, new
<1>4. ScheduleTypeOK'
  <2>1. lastRun' \in [Entries -> -1 .. Horizon]
    BY <1>1 DEF Inv, ScheduleTypeOK
  <2> QED BY <1>1, <1>2, <1>3, <2>1 DEF Inv, ScheduleTypeOK
<1>5. Timely'
  <2>1. inFlight' \cap Jobs \subseteq known
    BY <1>1, <1>2, SchedulerConstants DEF Inv, Timely, Durable, SchedulerConstants
  <2>2. \A j \in Jobs \ known : lastRun'[j] = -1
    BY <1>1, <1>2, SchedulerConstants DEF Inv, Timely, Durable, Entries, SchedulerConstants
  <2>3. \A e \in inFlight' : fireAt[e] <= now + MaxLead /\ fireAt[e] = lastRun'[e]
    BY <1>1, <1>2 DEF Inv, Timely, ScheduleTypeOK
  <2>4. \A e \in (jobs \cup Callbacks) \ inFlight' : fireAt[e] > lastRun'[e]
    BY <1>1 DEF Inv, Timely, ScheduleTypeOK, Entries
  <2> QED BY <1>1, <2>1, <2>2, <2>3, <2>4 DEF Timely
<1> QED BY <1>4, <1>5 DEF Inv

\* A new job has not run before its first time.
LEMMA InvAdd ==
  ASSUME Inv, Exclusive, Durable, NEW j \in Jobs, NEW f \in FirstFire(j), AddJob(j, f)
  PROVE  Inv'
<1>1. /\ Period \in Nat \ {0} /\ MaxTime \in Nat /\ MaxLead \in Nat
      /\ Horizon \in Nat /\ Horizon = MaxTime + MaxLead + Period
      /\ now \in Nat /\ now <= MaxTime
  BY SchedulerConstants DEF SchedulerConstants, Horizon, Inv, ScheduleTypeOK
<1>2. f \in 0 .. Horizon
  <2>1. CronFrom(now) \in 0 .. Horizon
    BY <1>1, CronFromIsNext
  <2> QED BY <1>1, <2>1 DEF FirstFire
<1>3. /\ j \notin known /\ j \notin inFlight /\ lastRun[j] = -1 /\ j \in Entries
      /\ jobs' = jobs \cup {j} /\ fireAt' = [fireAt EXCEPT ![j] = f]
      /\ disk' = [i \in jobs' |-> fireAt'[i]] /\ known' = known \cup {j}
      /\ UNCHANGED <<now, phase, inFlight, tasks, boots, cancelled, settled, cut, lost, lastRun>>
  BY DEF AddJob, Save, Inv, Timely, Entries
<1>4. fireAt' \in [Entries -> 0 .. Horizon] /\ jobs' \subseteq Jobs
  BY <1>2, <1>3 DEF Inv, ScheduleTypeOK
<1>5. ScheduleTypeOK'
  BY <1>3, <1>4 DEF Inv, ScheduleTypeOK, Entries
<1>6. Timely'
  <2>1. fireAt'[j] > lastRun[j] /\ \A e \in Entries \ {j} : fireAt'[e] = fireAt[e]
    BY <1>1, <1>2, <1>3 DEF Inv, ScheduleTypeOK
  <2>2. inFlight \subseteq Entries /\ jobs' \cup Callbacks \subseteq Entries
    BY <1>4 DEF Inv, ScheduleTypeOK, Entries
  <2>3. \A e \in inFlight' : fireAt'[e] <= now' + MaxLead /\ fireAt'[e] = lastRun'[e]
    BY <1>3, <2>1, <2>2 DEF Inv, Timely
  <2>4. phase' # "down" =>
          \A e \in (jobs' \cup Callbacks) \ inFlight' : fireAt'[e] > lastRun'[e]
    BY <1>3, <2>1, <2>2 DEF Inv, Timely
  <2> QED BY <1>3, <2>3, <2>4 DEF Inv, Timely
<1> QED BY <1>5, <1>6 DEF Inv

\* Every step keeps the types and the nominal times.
LEMMA InvStep == ASSUME Inv, Exclusive, Durable, [ScheduleNext]_schedVars PROVE Inv'
<1>1. ASSUME NEW S \in SUBSET jobs, CancelJobs(S) PROVE Inv'
  BY <1>1 DEF CancelJobs, Save, Inv, ScheduleTypeOK, Timely, Entries
<1>2. ASSUME NEW x \in tasks, BeginTask(x) \/ PushReply(x) PROVE Inv'
  <2>1. UNCHANGED <<now, phase, jobs, fireAt, inFlight, disk, boots, known, cancelled,
                    settled, cut, lost, lastRun>>
        /\ phase # "down"
    BY <1>2 DEF BeginTask, PushReply, Working
  <2>2. tasks' \subseteq Task
    BY <1>2, ExclusiveStep DEF Exclusive, ScheduleNext
  <2> QED BY <2>1, <2>2 DEF Inv, ScheduleTypeOK, Timely
<1>3. ASSUME Close \/ StopScheduler PROVE Inv'
  BY <1>3, SchedulerConstants DEF SchedulerConstants, Close, StopScheduler, Inv, ScheduleTypeOK, Timely
<1>4. ASSUME Exit \/ Crash \/ CrashInSave PROVE Inv'
  BY <1>4 DEF Exit, Crash, CrashInSave, Die, Save, Inv, ScheduleTypeOK, Timely
<1>5. ASSUME Time PROVE Inv'
  <2>1. /\ now' = now + 1 /\ now' \in 0 .. MaxTime /\ now \in Nat /\ MaxLead \in Nat
        /\ UNCHANGED <<phase, jobs, fireAt, inFlight, tasks, disk, boots, known,
                       cancelled, settled, cut, lost, lastRun>>
    BY <1>5, SchedulerConstants DEF SchedulerConstants, Time, Inv, ScheduleTypeOK
  <2>2. \A e \in inFlight : fireAt[e] <= now' + MaxLead
    <3> TAKE e \in inFlight
    <3>1. fireAt[e] \in Nat /\ fireAt[e] <= now + MaxLead
      BY SchedulerConstants DEF Inv, ScheduleTypeOK, Timely, Horizon, SchedulerConstants
    <3> QED BY <2>1, <3>1
  <2> QED BY <2>1, <2>2 DEF Inv, ScheduleTypeOK, Timely
<1>6. ASSUME UNCHANGED schedVars PROVE Inv'
  BY <1>6 DEF schedVars, Inv, ScheduleTypeOK, Timely
<1> QED BY <1>1, <1>2, <1>3, <1>4, <1>5, <1>6, InvTick, InvAdd, InvFinish, InvBoot DEF ScheduleNext

\* The types and the nominal times hold always.
LEMMA InvAlways == ScheduleSpec => []Inv
<1>1. ScheduleInit => Inv
  <2> SUFFICES ASSUME ScheduleInit PROVE Inv
    OBVIOUS
  <2>1. Horizon \in Nat /\ MaxTime \in Nat /\ MaxBoots \in Nat
    BY SchedulerConstants DEF SchedulerConstants, Horizon
  <2> QED BY <2>1 DEF ScheduleInit, Inv, ScheduleTypeOK, Timely, Entries
<1>2. Inv /\ Exclusive /\ Durable /\ [ScheduleNext]_schedVars => Inv'
  BY InvStep
<1> QED BY <1>1, <1>2, ExclusiveAlways, DurableAlways, PTL DEF ScheduleSpec

\* Every behaviour of the scheduler is well typed; in particular no schedule is
\* moved further ahead than one period.
THEOREM ScheduleTypeCorrect == ScheduleSpec => []ScheduleTypeOK
<1>1. Inv => ScheduleTypeOK
  BY DEF Inv
<1> QED BY <1>1, InvAlways, PTL

\* Within one life of the process no occurrence of a job or callback is started
\* twice, however early a soft job is started and however late it ends.
THEOREM OccurrencesAreDistinct == ScheduleSpec => OccurrenceStartedOnce
<1> DEFINE Later == \A e \in Entries : e \in inFlight' \ inFlight => fireAt[e] > lastRun[e]
<1>1. ASSUME Inv, ScheduleNext PROVE Later
  <2> SUFFICES ASSUME NEW e \in Entries, e \in inFlight' \ inFlight
               PROVE  fireAt[e] > lastRun[e]
    OBVIOUS
  <2>1. PICK lead \in 0 .. MaxLead : Tick(lead)
    BY <1>1 DEF ScheduleNext, AddJob, CancelJobs, BeginTask, PushReply, Complete, Close, StopScheduler,
       Unwind, Exit, Crash, CrashInSave, Die, Boot, Time
  <2>2. e \in (jobs \cup Callbacks) \ inFlight /\ phase = "up"
    BY <2>1 DEF Tick
  <2> QED BY <1>1, <2>2 DEF Inv, Timely
<1>2. Inv /\ [ScheduleNext]_schedVars => [Later]_schedVars
  BY <1>1
<1> QED BY <1>2, InvAlways, PTL DEF ScheduleSpec, OccurrenceStartedOnce

-----------------------------------------------------------------------------
(* The file is never ahead of memory.                                       *)

\* What memory holds is in the file too: a one-shot job for the same time, a recurring
\* one for a time that is not later.
FileNotAhead ==
    phase # "down" =>
        \A j \in jobs : /\ j \in DOMAIN disk
                        /\ disk[j] <= fireAt[j]
                        /\ j \in OneShot => disk[j] = fireAt[j]

\* A save makes the file what memory is.
LEMMA SavedIsNotAhead ==
  ASSUME NEW f \in [Entries -> Nat], NEW S \in SUBSET Jobs, NEW d, d = [j \in S |-> f[j]]
  PROVE  \A j \in S : j \in DOMAIN d /\ d[j] <= f[j] /\ d[j] = f[j]
BY DEF Entries

\* What a start takes from the file it takes for the time written there, or for a later one.
LEMMA BootNotAhead == ASSUME Inv, Exclusive, Boot PROVE FileNotAhead'
<1>1. jobs' = Recovered /\ disk' = disk /\ Recovered \subseteq DOMAIN disk
      /\ DOMAIN disk \subseteq Jobs
  BY DEF Boot, Recovered, Exclusive
<1>2. now \in Nat /\ \A j \in DOMAIN disk : disk[j] \in Nat
  BY SchedulerConstants DEF SchedulerConstants, Inv, ScheduleTypeOK, Horizon
<1>3. ASSUME NEW j \in Recovered
      PROVE  disk[j] <= fireAt'[j] /\ (j \in OneShot => disk[j] = fireAt'[j])
  <2>1. j \in Jobs /\ j \in Entries /\ j \notin Callbacks /\ disk[j] \in Nat
    BY <1>1, <1>2, SchedulerConstants DEF SchedulerConstants, Entries
  <2>2. CASE j \notin Recurring \/ disk[j] > now
    <3>1. fireAt'[j] = disk[j]
      BY <1>2, <2>1, <2>2, SchedulerConstants DEF Boot, SchedulerConstants
    <3> QED BY <2>1, <3>1
  <2>3. CASE j \in Cron /\ disk[j] <= now
    <3>1. fireAt'[j] = CronFrom(now) /\ j \in Recurring
      BY <1>2, <2>1, <2>3, SchedulerConstants DEF Boot, SchedulerConstants
    <3>2. CronFrom(now) \in Nat /\ CronFrom(now) >= now
      BY <1>2, CronFromIsNext
    <3> QED BY <1>2, <2>1, <2>3, <3>1, <3>2 DEF OneShot
  <2>4. CASE j \in Recurring \ Cron /\ disk[j] <= now
    <3>1. fireAt'[j] = AdvanceEvery(j, disk[j], now)
      BY <1>2, <2>1, <2>4 DEF Boot
    <3>2. AdvanceEvery(j, disk[j], now) \in Nat /\ AdvanceEvery(j, disk[j], now) > now
      BY <1>2, <2>1, <2>4, AdvanceIsNext
    <3> QED BY <1>2, <2>1, <2>4, <3>1, <3>2 DEF OneShot
  <2> QED BY <1>2, <2>1, <2>2, <2>3, <2>4
<1> QED BY <1>1, <1>3 DEF FileNotAhead

\* Every step that moves a time saves it.
LEMMA FileNotAheadStep ==
  ASSUME Inv, Inv', Exclusive, FileNotAhead, [ScheduleNext]_schedVars
  PROVE  FileNotAhead'
<1> USE DEF FileNotAhead
<1>0. /\ fireAt \in [Entries -> Nat] /\ fireAt' \in [Entries -> Nat]
      /\ jobs' \subseteq Jobs
  BY SchedulerConstants DEF SchedulerConstants, Inv, ScheduleTypeOK, Horizon
<1>1. ASSUME disk' = [j \in jobs' |-> fireAt'[j]] PROVE FileNotAhead'
  BY <1>0, <1>1, SavedIsNotAhead
<1>2. ASSUME NEW j \in Jobs, NEW f \in FirstFire(j), AddJob(j, f) PROVE FileNotAhead'
  BY <1>1, <1>2 DEF AddJob, Save
<1>3. ASSUME NEW S \in SUBSET jobs, CancelJobs(S) PROVE FileNotAhead'
  BY <1>1, <1>3 DEF CancelJobs, Save
<1>4. ASSUME NEW x \in tasks, Complete(x) \/ Unwind(x) PROVE FileNotAhead'
  <2>1. Reschedule(x.entry) /\ phase' = phase /\ phase # "down"
    BY <1>4 DEF Complete, Unwind, Working
  <2>2. CASE x.entry \in Callbacks /\ UNCHANGED <<jobs, disk>> /\ fireAt' = Rescheduled(x.entry)
    <3>1. \A j \in jobs : fireAt'[j] = fireAt[j]
      BY <1>0, <2>2, SchedulerConstants DEF SchedulerConstants, Rescheduled, Inv, ScheduleTypeOK,
         Entries
    <3> QED BY <2>1, <2>2, <3>1
  <2>3. CASE disk' = [j \in jobs' |-> fireAt'[j]]
    BY <1>1, <2>3
  <2> QED BY <2>1, <2>2, <2>3 DEF Reschedule, Save
<1>5. ASSUME Exit \/ Crash \/ CrashInSave PROVE FileNotAhead'
  BY <1>5 DEF Exit, Crash, CrashInSave, Die
<1>6. ASSUME NEW lead \in 0 .. MaxLead, Tick(lead) PROVE FileNotAhead'
  BY <1>6 DEF Tick
<1>7. ASSUME NEW x \in tasks, BeginTask(x) \/ PushReply(x) PROVE FileNotAhead'
  BY <1>7 DEF BeginTask, PushReply
<1>8. ASSUME Close \/ StopScheduler \/ Time \/ UNCHANGED schedVars PROVE FileNotAhead'
  BY <1>8 DEF Close, StopScheduler, Time, schedVars
<1> HIDE DEF FileNotAhead
<1> QED BY <1>2, <1>3, <1>4, <1>5, <1>6, <1>7, <1>8, BootNotAhead DEF ScheduleNext

\* A process that dies takes no scheduled time with it: at any moment the file holds
\* every job that memory holds, a one-shot job for the same time and a recurring one
\* for no later time. A restart can so repeat an occurrence, but the times it goes on
\* from are not past one that memory had still to start (scheduler.py:439
\* load_and_recover reads them, :500 the saves after an execution). A crash in the
\* middle of a save empties the file; memory is gone with it, so nothing is compared.
THEOREM FileNeverAhead == ScheduleSpec => []FileNotAhead
<1>1. ScheduleInit => FileNotAhead
  BY DEF ScheduleInit, FileNotAhead
<1>2. Inv /\ Inv' /\ Exclusive /\ FileNotAhead /\ [ScheduleNext]_schedVars => FileNotAhead'
  BY FileNotAheadStep
<1> QED BY <1>1, <1>2, InvAlways, ExclusiveAlways, PTL DEF ScheduleSpec
=============================================================================
