------------------------------ MODULE ShellTasks ------------------------------
(***************************************************************************)
(* The shell tool: a command runs in a subprocess, a pump task copies its   *)
(* output to a log file, and after fifteen seconds, or at once, it moves to *)
(* the process-wide registry of background tasks, where task_output reads   *)
(* it, task_stop and a hard timeout kill it, and an eviction timer forgets  *)
(* it after it has ended.  Timers, the end of the process, the calls of     *)
(* several chats and the cancellation of a waiting call come in any order.  *)
(*                                                                          *)
(* Output is whether the log file is there.  Killing takes effect at once.  *)
(***************************************************************************)
EXTENDS Naturals

CONSTANT Commands   \* the commands ever run, each with an id of its own

VARIABLES
    shell,      \* one record for each command
    leaked,     \* history: logs left by a call that was cut off while it awaited
                \* the subprocess or its end
    broken      \* history: commands whose pump could not open the log

shellVars == <<shell, leaked, broken>>

Kinds == {"background", "promotable", "blocking"}

NotRun == [kind |-> "background", limited |-> FALSE, call |-> "none", process |-> "none",
           pump |-> "none", log |-> FALSE, registered |-> FALSE, watched |-> FALSE,
           timer |-> FALSE, eviction |-> FALSE, reader |-> "none"]

ShellInit ==
    /\ shell = [c \in Commands |-> NotRun]
    /\ leaked = {} /\ broken = {}

Become(c, r) == shell' = [shell EXCEPT ![c] = r]
NoHistory == UNCHANGED <<leaked, broken>>

-----------------------------------------------------------------------------
(* Pieces of a step: each takes a command's record and returns it changed.  *)

\* os.killpg; a process that is gone is no error.
Killed(r) == [r EXCEPT !.process = IF @ = "running" THEN "killed" ELSE @]

\* The pump ends, and its done-callback, if there is one, calls _schedule_eviction.
PumpOver(r) == IF r.pump = "running"
               THEN [r EXCEPT !.pump = "done", !.eviction = @ \/ r.watched]
               ELSE r

\* Variant: the timer is set for commands that start in the background only.
RegisteredUntimed(r) ==
    [r EXCEPT !.call = "over", !.registered = TRUE, !.watched = TRUE,
              !.timer = r.limited /\ r.kind = "background"]

\* The command enters the registry, and a hard timeout is armed.
Registered(r) ==
    [r EXCEPT !.call = "over", !.registered = TRUE, !.watched = TRUE, !.timer = r.limited]

\* Entry, timer and log are removed.
Forgotten(r) == [r EXCEPT !.registered = FALSE, !.timer = FALSE, !.log = FALSE]

\* _bg_kill.  Cancelling the pump cancels the shielded wait of a blocked reader too.
BgKilled(r) ==
    [Forgotten(PumpOver(Killed(r))) EXCEPT !.reader = IF @ = "blocked" /\ r.pump = "running"
                                                      THEN "cut" ELSE @]

-----------------------------------------------------------------------------
(* The call                                                                 *)

\* The log file is created, then the subprocess is awaited.
StartCommand(c, kind, limited) ==
    /\ shell[c].call = "none"
    /\ Become(c, [NotRun EXCEPT !.kind = kind, !.limited = limited, !.call = "spawn",
                                !.log = TRUE])
    /\ NoHistory

Spawned(c) ==
    /\ shell[c].call = "spawn"
    /\ LET r == [shell[c] EXCEPT !.process = "running", !.pump = "running"]
       IN  Become(c, IF r.kind = "background" THEN Registered(r)
                     ELSE [r EXCEPT !.call = "wait"])
    /\ NoHistory

\* The pump cannot open the log: a waiting call gets the exception, and the
\* process runs on, unread.
PumpFails(c) ==
    /\ shell[c].call = "spawn"
    /\ LET r == [shell[c] EXCEPT !.process = "running", !.pump = "done", !.call = "over"]
       IN  Become(c, IF r.kind = "background" THEN [Registered(r) EXCEPT !.eviction = TRUE]
                     ELSE r)
    /\ broken' = broken \cup {c}
    /\ leaked' = IF shell[c].kind = "background" THEN leaked ELSE leaked \cup {c}

\* Spawning fails or is cancelled.
SpawnCut(c) ==
    /\ shell[c].call = "spawn"
    /\ Become(c, [shell[c] EXCEPT !.call = "over"])
    /\ leaked' = leaked \cup {c}
    /\ UNCHANGED broken

\* The pump has ended within the wait: the log is read and removed.
WaitReturns(c) ==
    /\ shell[c].call = "wait" /\ shell[c].pump = "done"
    /\ Become(c, [shell[c] EXCEPT !.call = "over", !.log = FALSE])
    /\ NoHistory

\* auto_promote: still running after fifteen seconds.
Promote(c) ==
    /\ shell[c].call = "wait" /\ shell[c].pump = "running"
    /\ shell[c].kind = "promotable"
    /\ Become(c, Registered(shell[c]))
    /\ NoHistory

\* _finalize_timed_out_process begins: the wait was the whole timeout.
FinalizeTimedOut(c) ==
    /\ shell[c].call = "wait" /\ shell[c].pump = "running"
    /\ shell[c].kind = "blocking" \/ shell[c].limited
    /\ Become(c, [Killed(shell[c]) EXCEPT !.call = "reap"])
    /\ NoHistory

\* The pump has ended or is cancelled after its grace.
Reaped(c) ==
    /\ shell[c].call = "reap"
    /\ Become(c, [PumpOver(shell[c]) EXCEPT !.call = "over", !.log = FALSE])
    /\ NoHistory

\* The turn is cancelled while the pump is drained: no handler is left.
ReapCut(c) ==
    /\ shell[c].call = "reap"
    /\ Become(c, [shell[c] EXCEPT !.call = "over"])
    /\ leaked' = leaked \cup {c}
    /\ UNCHANGED broken

\* Variant: the cancellation is passed on at once.
WaitCutOnly(c) ==
    /\ shell[c].call = "wait"
    /\ Become(c, [shell[c] EXCEPT !.call = "over", !.log = FALSE])
    /\ NoHistory

\* The turn is cancelled in the wait: the process is killed and the log removed.
WaitCut(c) ==
    /\ shell[c].call = "wait"
    /\ Become(c, [PumpOver(Killed(shell[c])) EXCEPT !.call = "over", !.log = FALSE])
    /\ NoHistory

-----------------------------------------------------------------------------
(* The process and its pump                                                 *)

ProcessExits(c) ==
    /\ shell[c].process = "running"
    /\ Become(c, [shell[c] EXCEPT !.process = "exited"])
    /\ NoHistory

\* Variant: the callback is registered for background starts only.
PumpEndsUnwatched(c) ==
    /\ shell[c].pump = "running" /\ shell[c].process # "running"
    /\ Become(c, [PumpOver(shell[c]) EXCEPT !.eviction = shell[c].kind = "background"])
    /\ NoHistory

\* The process has ended, and the pipes were drained or given up.
PumpEnds(c) ==
    /\ shell[c].pump = "running" /\ shell[c].process # "running"
    /\ Become(c, PumpOver(shell[c]))
    /\ NoHistory

-----------------------------------------------------------------------------
(* The registry: task_output, task_stop and the timers                      *)

TaskStop(c) ==
    /\ shell[c].registered
    /\ Become(c, BgKilled(shell[c]))
    /\ NoHistory

\* The timer fires, or task_output sees first that the time is over.  Whether the
\* command has ended is not looked at.
BgTimeout(c) ==
    /\ shell[c].timer
    /\ Become(c, BgKilled(shell[c]))
    /\ NoHistory

\* task_output with block: waits for the pump.
BlockedRead(c) ==
    /\ shell[c].registered /\ shell[c].pump = "running" /\ shell[c].reader = "none"
    /\ Become(c, [shell[c] EXCEPT !.reader = "blocked"])
    /\ NoHistory

\* The pump has ended, the wait is over, or the reading turn was cancelled.
ReadReturns(c) ==
    /\ shell[c].reader = "blocked"
    /\ Become(c, [shell[c] EXCEPT !.reader = "none"])
    /\ NoHistory

\* The pump was cancelled: CancelledError leaves task_output and ends the turn.
ReadCut(c) ==
    /\ shell[c].reader = "cut"
    /\ Become(c, [shell[c] EXCEPT !.reader = "none"])
    /\ NoHistory

\* task_output of a command that has ended and was started over four hours ago.
ReadExpired(c) ==
    /\ shell[c].registered /\ shell[c].pump = "done"
    /\ Become(c, [Forgotten(shell[c]) EXCEPT !.reader = "none"])
    /\ NoHistory

\* Five minutes after the pump ended.
Evict(c) ==
    /\ shell[c].eviction /\ shell[c].reader = "none"
    /\ Become(c, [Forgotten(shell[c]) EXCEPT !.eviction = FALSE])
    /\ NoHistory

-----------------------------------------------------------------------------
\* What the event loop does by itself for a command.
ShellStep(c) ==
    \/ WaitReturns(c) \/ Promote(c) \/ FinalizeTimedOut(c) \/ Reaped(c)
    \/ PumpEnds(c) \/ BgTimeout(c) \/ Evict(c) \/ ReadReturns(c) \/ ReadCut(c)

ShellNext == \E c \in Commands :
    \/ \E kind \in Kinds, limited \in BOOLEAN : StartCommand(c, kind, limited)
    \/ Spawned(c) \/ SpawnCut(c) \/ WaitCut(c) \/ ReapCut(c)
    \/ ProcessExits(c) \/ PumpFails(c)
    \/ TaskStop(c) \/ BlockedRead(c) \/ ReadExpired(c)
    \/ ShellStep(c)

ShellSpec == ShellInit /\ [][ShellNext]_shellVars

\* Timers fire and ready coroutines run.  No command has to end by itself.
ShellFairness == \A c \in Commands :
    /\ WF_shellVars(WaitReturns(c) \/ Promote(c) \/ FinalizeTimedOut(c) \/ Reaped(c))
    /\ WF_shellVars(PumpEnds(c)) /\ WF_shellVars(BgTimeout(c))
    /\ WF_shellVars(ReadReturns(c) \/ ReadCut(c)) /\ WF_shellVars(Evict(c))

ShellFairSpec == ShellSpec /\ ShellFairness

-----------------------------------------------------------------------------
\* The shape of a command's record; a registered command has its output, whichever
\* of kill, timer, eviction and expiry came in which order, and an armed timer is
\* that of a registered one.
ShellTypeOK ==
    /\ shell \in [Commands ->
         [kind : Kinds, limited : BOOLEAN, call : {"none", "spawn", "wait", "reap", "over"},
          process : {"none", "running", "exited", "killed"},
          pump : {"none", "running", "done"}, log : BOOLEAN, registered : BOOLEAN,
          watched : BOOLEAN, timer : BOOLEAN, eviction : BOOLEAN,
          reader : {"none", "blocked", "cut"}]]
    /\ {leaked, broken} \subseteq SUBSET Commands
    /\ \A c \in Commands : /\ shell[c].registered => shell[c].log
                           /\ shell[c].timer => shell[c].registered

\* A command that runs can be stopped: it is registered, or a call waits for it
\* and kills it when it is cancelled.  An unreadable log file is the exception.
RunningIsReachable ==
    \A c \in Commands : shell[c].process = "running" =>
        shell[c].registered \/ shell[c].call = "wait" \/ c \in broken

\* A command given a hard timeout ends, also when it went to the background and
\* whoever started it was cancelled.
LimitedCommandsEnd ==
    \A c \in Commands :
        shell[c].limited /\ shell[c].process = "running" ~>
            shell[c].process # "running" \/ c \in broken

\* The log of a command that has ended is removed in the end.
LogsReclaimed ==
    \A c \in Commands :
        shell[c].log /\ shell[c].process \in {"exited", "killed"} ~>
            ~shell[c].log \/ c \in leaked
=============================================================================
