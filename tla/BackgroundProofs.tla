-------------------------- MODULE BackgroundProofs --------------------------
(***************************************************************************)
(* Theorems about what turns run and what runs beside them: commands, the    *)
(* reasoner's loop, spawned jobs, the delegation of tasks to a peer agent,   *)
(* the calls of an MCP server and the registry of the servers, each for any  *)
(* value of its constants.                                                   *)
(***************************************************************************)
EXTENDS ShellTasks, Reasoner, Subagents, PeerAgents, McpCalls, McpRegistry,
        WellFoundedInduction, TLAPS

-----------------------------------------------------------------------------
(* What is left to do                                                        *)

\* Four numbers compared lexicographically, the order the termination theorems use:
\* an earlier number decides, a later one only where the earlier are equal.
Below == OpToRel(<, Nat)
Below2 == LexPairOrdering(Below, Below, Nat, Nat)
Below3 == LexPairOrdering(Below, Below2, Nat, Nat \X Nat)
LessLeft == LexPairOrdering(Below, Below3, Nat, Nat \X (Nat \X Nat))
Amounts == Nat \X (Nat \X (Nat \X Nat))

\* One cannot do with ever less: the order has no infinite descent.
LEMMA LessLeftWellFounded == IsWellFoundedOn(LessLeft, Amounts)
<1>1. IsWellFoundedOn(Below, Nat)
  BY NatLessThanWellFounded, Zenon DEF Below
<1>2. IsWellFoundedOn(Below2, Nat \X Nat)
  BY <1>1, WFLexPairOrdering, Zenon DEF Below2
<1>3. IsWellFoundedOn(Below3, Nat \X (Nat \X Nat))
  BY <1>1, <1>2, WFLexPairOrdering, Zenon DEF Below3
<1> QED BY <1>1, <1>3, WFLexPairOrdering, Zenon DEF LessLeft, Amounts

\* The order, number by number.
Less(a, b, c, d, e, f, g, h) ==
    \/ a < e
    \/ a = e /\ b < f
    \/ a = e /\ b = f /\ c < g
    \/ a = e /\ b = f /\ c = g /\ d < h
LEMMA Descends ==
  ASSUME NEW a \in Nat, NEW b \in Nat, NEW c \in Nat, NEW d \in Nat,
         NEW e \in Nat, NEW f \in Nat, NEW g \in Nat, NEW h \in Nat,
         Less(a, b, c, d, e, f, g, h)
  PROVE  <<<<a, <<b, <<c, d>>>>>>, <<e, <<f, <<g, h>>>>>>>> \in LessLeft
<1>1. \A x, y \in Nat : x < y => <<x, y>> \in Below
  BY DEF Below, OpToRel
<1>2. c < g \/ (c = g /\ d < h) => <<<<c, d>>, <<g, h>>>> \in Below2
  BY <1>1 DEF Below2, LexPairOrdering
<1>3. b < f \/ (b = f /\ (c < g \/ (c = g /\ d < h)))
        => <<<<b, <<c, d>>>>, <<f, <<g, h>>>>>> \in Below3
  BY <1>1, <1>2 DEF Below3, LexPairOrdering
<1> QED BY <1>1, <1>3 DEF Less, LessLeft, LexPairOrdering

-----------------------------------------------------------------------------
(* Background commands                                                       *)

\* A command's record.
CommandRecord ==
    [kind : Kinds, limited : BOOLEAN, call : {"none", "spawn", "wait", "reap", "over"},
     process : {"none", "running", "exited", "killed"},
     pump : {"none", "running", "done"}, log : BOOLEAN, registered : BOOLEAN,
     watched : BOOLEAN, timer : BOOLEAN, eviction : BOOLEAN,
     reader : {"none", "blocked", "cut"}]

\* What holds of each command's record; unread says that its pump could not open
\* the log.  A command is in nobody's hands only when it does not run: before the
\* registry has it, a call waits for it or has killed it, and what the registry
\* forgets has ended, since a pump ends after its process.
CommandOK(r, unread) ==
    /\ r.registered => r.log
    /\ r.timer => r.registered
    /\ r.call \in {"none", "spawn"} => r.process = "none" /\ r.pump = "none"
    /\ r.call \in {"spawn", "wait"} => r.log
    /\ r.call # "over" => ~r.registered /\ ~r.watched /\ ~r.eviction
    /\ r.call = "reap" => r.process # "running"
    /\ r.process = "running" => r.registered \/ r.call = "wait" \/ unread
    /\ r.process = "running" => r.pump = "running" \/ unread
    /\ r.eviction => r.pump = "done"

\* The inductive invariant of the commands.
ShellInv ==
    /\ shell \in [Commands -> CommandRecord]
    /\ leaked \in SUBSET Commands /\ broken \in SUBSET Commands
    /\ \A c \in Commands : CommandOK(shell[c], c \in broken)

\* No command has run at the start.
LEMMA ShellInvInit == ShellInit => ShellInv
BY DEF ShellInit, ShellInv, NotRun, CommandRecord, CommandOK, Kinds

\* A step changes one command's record.
LEMMA OneCommand ==
  ASSUME ShellInv, NEW c \in Commands, NEW r \in CommandRecord, Become(c, r),
         leaked' \in SUBSET Commands,
         broken' = broken \/ broken' = broken \cup {c},
         CommandOK(r, c \in broken')
  PROVE  ShellInv'
<1>1. shell' \in [Commands -> CommandRecord] /\ broken' \in SUBSET Commands
  BY DEF ShellInv, Become
<1>2. ASSUME NEW d \in Commands PROVE CommandOK(shell'[d], d \in broken')
  <2>1. CASE d = c
    BY <2>1 DEF ShellInv, Become
  <2>2. CASE d # c
    <3>1. shell'[d] = shell[d] /\ (d \in broken' <=> d \in broken)
      BY <2>2 DEF ShellInv, Become
    <3>2. CommandOK(shell[d], d \in broken)
      BY DEF ShellInv
    <3> QED BY <3>1, <3>2 DEF CommandOK
  <2> QED BY <2>1, <2>2
<1> QED BY <1>1, <1>2 DEF ShellInv

\* What killing a command changes,
LEMMA KilledFields ==
  ASSUME NEW r \in CommandRecord
  PROVE  /\ Killed(r) \in CommandRecord
         /\ Killed(r).process # "running"
         /\ Killed(r).call = r.call /\ Killed(r).pump = r.pump
         /\ Killed(r).log = r.log /\ Killed(r).registered = r.registered
         /\ Killed(r).watched = r.watched /\ Killed(r).timer = r.timer
         /\ Killed(r).eviction = r.eviction
         /\ r.process = "none" => Killed(r).process = "none"
BY DEF Killed, CommandRecord

\* the end of its pump,
LEMMA PumpOverFields ==
  ASSUME NEW r \in CommandRecord
  PROVE  /\ PumpOver(r) \in CommandRecord
         /\ PumpOver(r).process = r.process /\ PumpOver(r).call = r.call
         /\ PumpOver(r).pump = IF r.pump = "running" THEN "done" ELSE r.pump
         /\ PumpOver(r).log = r.log /\ PumpOver(r).registered = r.registered
         /\ PumpOver(r).watched = r.watched /\ PumpOver(r).timer = r.timer
         /\ PumpOver(r).eviction => r.eviction \/ (r.watched /\ PumpOver(r).pump = "done")
<1>1. CASE r.pump = "running"
  BY <1>1 DEF PumpOver, CommandRecord
<1>2. CASE r.pump # "running"
  BY <1>2 DEF PumpOver, CommandRecord
<1> QED BY <1>1, <1>2

\* its registration,
LEMMA RegisteredFields ==
  ASSUME NEW r \in CommandRecord
  PROVE  /\ Registered(r) \in CommandRecord
         /\ Registered(r).process = r.process /\ Registered(r).pump = r.pump
         /\ Registered(r).log = r.log /\ Registered(r).eviction = r.eviction
         /\ Registered(r).call = "over" /\ Registered(r).registered
BY DEF Registered, CommandRecord

\* and its eviction.
LEMMA ForgottenFields ==
  ASSUME NEW r \in CommandRecord
  PROVE  /\ Forgotten(r) \in CommandRecord
         /\ ~Forgotten(r).registered /\ ~Forgotten(r).timer
         /\ Forgotten(r).process = r.process /\ Forgotten(r).call = r.call
         /\ Forgotten(r).pump = r.pump /\ Forgotten(r).eviction = r.eviction
BY DEF Forgotten, CommandRecord

\* A registered command is killed and forgotten.
LEMMA KillIsSafe ==
  ASSUME ShellInv, NEW c \in Commands, shell[c].registered,
         Become(c, BgKilled(shell[c])), NoHistory
  PROVE  ShellInv'
<1> DEFINE r == shell[c]
           k == PumpOver(Killed(r))
           f == Forgotten(k)
           b == BgKilled(r)
<1>1. r \in CommandRecord /\ CommandOK(r, c \in broken)
  BY DEF ShellInv
<1>2. /\ Killed(r) \in CommandRecord /\ Killed(r).process # "running"
      /\ Killed(r).call = r.call /\ Killed(r).eviction = r.eviction
      /\ Killed(r).pump = r.pump
  BY <1>1, KilledFields
<1>3. /\ k \in CommandRecord /\ k.process # "running" /\ k.call = r.call
      /\ k.eviction => r.eviction \/ k.pump = "done"
      /\ r.pump = "done" => k.pump = "done"
  BY <1>2, PumpOverFields
<1>5. /\ f \in CommandRecord /\ ~f.registered /\ ~f.timer /\ f.process # "running"
      /\ f.call = r.call /\ (f.eviction => f.pump = "done")
  BY <1>1, <1>3, ForgottenFields DEF CommandOK
<1>6. /\ b \in CommandRecord /\ ~b.registered /\ ~b.timer /\ b.process # "running"
      /\ b.call = r.call /\ (b.eviction => b.pump = "done")
  BY <1>5 DEF BgKilled, CommandRecord
<1>7. r.call = "over"
  BY <1>1 DEF CommandOK
<1>8. CommandOK(b, c \in broken)
  BY <1>6, <1>7 DEF CommandOK
<1> QED BY <1>6, <1>8, OneCommand DEF NoHistory, ShellInv

\* Every step keeps the invariant.
LEMMA ShellInvStep == ShellInv /\ [ShellNext]_shellVars => ShellInv'
<1> SUFFICES ASSUME ShellInv, [ShellNext]_shellVars PROVE ShellInv'
  OBVIOUS
<1>1. CASE UNCHANGED shellVars
  BY <1>1 DEF shellVars, ShellInv
<1>2. ASSUME NEW c \in Commands,
             \/ \E kind \in Kinds, limited \in BOOLEAN : StartCommand(c, kind, limited)
             \/ Spawned(c) \/ SpawnCut(c) \/ WaitCut(c) \/ ReapCut(c)
             \/ ProcessExits(c) \/ PumpFails(c)
             \/ TaskStop(c) \/ BlockedRead(c) \/ ReadExpired(c)
             \/ ShellStep(c)
      PROVE  ShellInv'
  <2> DEFINE r == shell[c]
             unread == c \in broken
  <2>0. /\ r \in CommandRecord /\ CommandOK(r, unread)
        /\ leaked \in SUBSET Commands /\ leaked \cup {c} \in SUBSET Commands
    BY DEF ShellInv
  <2>1. ASSUME NEW kind \in Kinds, NEW limited \in BOOLEAN, StartCommand(c, kind, limited)
        PROVE  ShellInv'
    <3> DEFINE s == [NotRun EXCEPT !.kind = kind, !.limited = limited, !.call = "spawn",
                                   !.log = TRUE]
    <3>1. s \in CommandRecord /\ CommandOK(s, unread)
      BY DEF NotRun, CommandRecord, CommandOK, Kinds
    <3> QED BY <2>0, <2>1, <3>1, OneCommand DEF StartCommand, NoHistory
  <2>2. CASE Spawned(c)
    <3> DEFINE s == [r EXCEPT !.process = "running", !.pump = "running"]
               w == [s EXCEPT !.call = "wait"]
    <3>1. s \in CommandRecord /\ s.log /\ ~s.eviction /\ s.pump = "running" /\ s.kind = r.kind
      BY <2>0, <2>2 DEF Spawned, CommandRecord, CommandOK
    <3>2. CASE r.kind = "background"
      <4>1. Registered(s) \in CommandRecord /\ CommandOK(Registered(s), unread)
        BY <3>1, RegisteredFields DEF CommandOK
      <4>2. Become(c, Registered(s))
        BY <2>2, <3>1, <3>2 DEF Spawned
      <4> QED BY <2>0, <2>2, <4>1, <4>2, OneCommand DEF Spawned, NoHistory
    <3>3. CASE r.kind # "background"
      <4>1. w \in CommandRecord /\ CommandOK(w, unread)
        BY <2>0, <2>2, <3>1, ZenonT(60) DEF Spawned, CommandRecord, CommandOK
      <4>2. Become(c, w)
        BY <2>2, <3>1, <3>3 DEF Spawned
      <4> QED BY <2>0, <2>2, <4>1, <4>2, OneCommand DEF Spawned, NoHistory
    <3> QED BY <3>2, <3>3
  <2>3. CASE PumpFails(c)
    <3> DEFINE s == [r EXCEPT !.process = "running", !.pump = "done", !.call = "over"]
               b == [Registered(s) EXCEPT !.eviction = TRUE]
    <3>1. /\ s \in CommandRecord /\ s.log /\ ~s.registered /\ ~s.timer /\ ~s.eviction
          /\ s.pump = "done" /\ s.call = "over" /\ s.kind = r.kind
      BY <2>0, <2>3 DEF PumpFails, CommandRecord, CommandOK
    <3>2. CommandOK(s, TRUE)
      BY <3>1 DEF CommandOK
    <3>3. b \in CommandRecord /\ CommandOK(b, TRUE)
      <4>1. /\ Registered(s) \in CommandRecord /\ Registered(s).log
            /\ Registered(s).pump = "done" /\ Registered(s).call = "over"
            /\ Registered(s).registered
        BY <3>1, RegisteredFields
      <4> QED BY <4>1 DEF CommandRecord, CommandOK
    <3>4. /\ Become(c, s) \/ Become(c, b)
          /\ broken' = broken \cup {c} /\ leaked' \in SUBSET Commands
      BY <2>0, <2>3, <3>1 DEF PumpFails
    <3>5. c \in broken'
      BY <3>4
    <3>6. CommandOK(s, c \in broken') /\ CommandOK(b, c \in broken')
      BY <3>2, <3>3, <3>5 DEF CommandOK
    <3> QED BY <3>1, <3>3, <3>4, <3>6, OneCommand
  <2>4. CASE SpawnCut(c)
    <3> DEFINE s == [r EXCEPT !.call = "over"]
    <3>1. s \in CommandRecord /\ CommandOK(s, unread)
      BY <2>0, <2>4 DEF SpawnCut, CommandRecord, CommandOK
    <3> QED BY <2>0, <2>4, <3>1, OneCommand DEF SpawnCut
  <2>5. CASE WaitReturns(c)
    <3> DEFINE s == [r EXCEPT !.call = "over", !.log = FALSE]
    <3>1. s \in CommandRecord /\ CommandOK(s, unread)
      BY <2>0, <2>5 DEF WaitReturns, CommandRecord, CommandOK
    <3> QED BY <2>0, <2>5, <3>1, OneCommand DEF WaitReturns, NoHistory
  <2>6. CASE Promote(c)
    <3>1. Registered(r) \in CommandRecord /\ CommandOK(Registered(r), unread)
      BY <2>0, <2>6, RegisteredFields DEF Promote, CommandOK
    <3> QED BY <2>0, <2>6, <3>1, OneCommand DEF Promote, NoHistory
  <2>7. CASE FinalizeTimedOut(c)
    <3> DEFINE k == Killed(r)
               s == [k EXCEPT !.call = "reap"]
    <3>1. /\ k \in CommandRecord /\ k.process # "running" /\ k.pump = r.pump
          /\ k.log = r.log /\ k.registered = r.registered /\ k.watched = r.watched
          /\ k.timer = r.timer /\ k.eviction = r.eviction
      BY <2>0, KilledFields
    <3>2. s \in CommandRecord /\ CommandOK(s, unread)
      BY <2>0, <2>7, <3>1 DEF FinalizeTimedOut, CommandRecord, CommandOK
    <3> QED BY <2>0, <2>7, <3>2, OneCommand DEF FinalizeTimedOut, NoHistory
  <2>8. CASE Reaped(c)
    <3> DEFINE p == PumpOver(r)
               s == [p EXCEPT !.call = "over", !.log = FALSE]
    <3>1. /\ p \in CommandRecord /\ p.process = r.process /\ p.registered = r.registered
          /\ p.timer = r.timer /\ (p.eviction => r.eviction \/ r.watched)
      BY <2>0, PumpOverFields
    <3>2. s \in CommandRecord /\ CommandOK(s, unread)
      BY <2>0, <2>8, <3>1 DEF Reaped, CommandRecord, CommandOK
    <3> QED BY <2>0, <2>8, <3>2, OneCommand DEF Reaped, NoHistory
  <2>9. CASE ReapCut(c)
    <3> DEFINE s == [r EXCEPT !.call = "over"]
    <3>1. s \in CommandRecord /\ CommandOK(s, unread)
      BY <2>0, <2>9 DEF ReapCut, CommandRecord, CommandOK
    <3> QED BY <2>0, <2>9, <3>1, OneCommand DEF ReapCut
  <2>10. CASE WaitCut(c)
    <3> DEFINE k == Killed(r)
               p == PumpOver(k)
               s == [p EXCEPT !.call = "over", !.log = FALSE]
    <3>1. /\ k \in CommandRecord /\ k.process # "running"
          /\ k.registered = r.registered /\ k.watched = r.watched
          /\ k.timer = r.timer /\ k.eviction = r.eviction
      BY <2>0, KilledFields
    <3>2. /\ p \in CommandRecord /\ p.process # "running" /\ p.registered = r.registered
          /\ p.timer = r.timer /\ (p.eviction => r.eviction \/ r.watched)
      BY <3>1, PumpOverFields
    <3>3. s \in CommandRecord /\ CommandOK(s, unread)
      BY <2>0, <2>10, <3>2, ZenonT(60) DEF WaitCut, CommandRecord, CommandOK
    <3> QED BY <2>0, <2>10, <3>3, OneCommand DEF WaitCut, NoHistory
  <2>11. CASE ProcessExits(c)
    <3> DEFINE s == [r EXCEPT !.process = "exited"]
    <3>1. s \in CommandRecord /\ CommandOK(s, unread)
      BY <2>0, <2>11 DEF ProcessExits, CommandRecord, CommandOK
    <3> QED BY <2>0, <2>11, <3>1, OneCommand DEF ProcessExits, NoHistory
  <2>12. CASE PumpEnds(c)
    <3> DEFINE p == PumpOver(r)
    <3>1. /\ p \in CommandRecord /\ p.pump = "done" /\ p.process = r.process
          /\ p.call = r.call /\ p.registered = r.registered /\ p.timer = r.timer
          /\ p.log = r.log /\ p.watched = r.watched /\ (p.eviction => r.eviction \/ r.watched)
      BY <2>0, <2>12, PumpOverFields DEF PumpEnds
    <3>3. CommandOK(p, unread)
      BY <2>0, <2>12, <3>1 DEF PumpEnds, CommandOK
    <3> QED BY <2>0, <2>12, <3>1, <3>3, OneCommand DEF PumpEnds, NoHistory
  <2>13. CASE TaskStop(c) \/ BgTimeout(c)
    <3>1. /\ r.registered /\ Become(c, BgKilled(r)) /\ NoHistory
      BY <2>0, <2>13 DEF TaskStop, BgTimeout, CommandOK
    <3> QED BY <3>1, KillIsSafe
  <2>14. CASE BlockedRead(c) \/ ReadReturns(c) \/ ReadCut(c)
    <3>1. ASSUME NEW d \in {"none", "blocked", "cut"}
          PROVE  /\ [r EXCEPT !.reader = d] \in CommandRecord
                 /\ CommandOK([r EXCEPT !.reader = d], unread)
      BY <2>0 DEF CommandRecord, CommandOK
    <3> QED
      BY <2>0, <2>14, <3>1, OneCommand DEF BlockedRead, ReadReturns, ReadCut, NoHistory
  <2>15. CASE ReadExpired(c) \/ Evict(c)
    <3> DEFINE f == Forgotten(r)
    <3>1. r.process = "running" => unread
      BY <2>0, <2>15 DEF ReadExpired, Evict, CommandOK
    <3>2. /\ f \in CommandRecord /\ ~f.registered /\ ~f.timer /\ f.process = r.process
          /\ f.call = r.call /\ f.pump = r.pump /\ f.eviction = r.eviction
      BY <2>0, ForgottenFields
    <3>3. r.call = "over"
      BY <2>0, <2>15 DEF ReadExpired, Evict, CommandOK, CommandRecord
    <3>4. /\ [f EXCEPT !.reader = "none"] \in CommandRecord
          /\ CommandOK([f EXCEPT !.reader = "none"], unread)
          /\ [f EXCEPT !.eviction = FALSE] \in CommandRecord
          /\ CommandOK([f EXCEPT !.eviction = FALSE], unread)
      BY <2>0, <3>1, <3>2, <3>3, ZenonT(60) DEF CommandRecord, CommandOK
    <3> QED BY <2>0, <2>15, <3>4, OneCommand DEF ReadExpired, Evict, NoHistory
  <2> QED
    BY <1>2, <2>1, <2>2, <2>3, <2>4, <2>5, <2>6, <2>7, <2>8, <2>9, <2>10, <2>11, <2>12,
       <2>13, <2>14, <2>15 DEF ShellStep
<1> QED BY <1>1, <1>2 DEF ShellNext

\* It holds in every state.
LEMMA ShellInvariant == ShellSpec => []ShellInv
BY ShellInvInit, ShellInvStep, PTL DEF ShellSpec

\* The record of every command keeps its shape; what is registered has its output.
THEOREM ShellTypeCorrect == ShellSpec => []ShellTypeOK
<1>1. ShellInv => ShellTypeOK
  BY DEF ShellInv, CommandRecord, CommandOK, ShellTypeOK
<1> QED BY <1>1, ShellInvariant, PTL

\* Somebody can stop every command that runs.
THEOREM NoOrphans == ShellSpec => []RunningIsReachable
<1>1. ShellInv => RunningIsReachable
  BY DEF ShellInv, CommandOK, RunningIsReachable
<1> QED BY <1>1, ShellInvariant, PTL

-----------------------------------------------------------------------------
(* The reasoner's loop                                                       *)

\* A turn's record.
ReactPlaces == {"idle", "step", "model", "retry", "call", "search", "summary"}
Outcomes == {"none", "reply", "refused", "failed", "cancelled"}
ReactRecord ==
    [pc : ReactPlaces,
     background : BOOLEAN, attempt : 0 .. MaxAttempts, iteration : 0 .. MaxIterations,
     visible : SUBSET Tools, batch : Seq(Tools), at : Nat, open : SUBSET Nat,
     calls : Seq(Tools), chain : Seq(Tools), ran : Seq(Tools),
     gained : SUBSET (Tools \ AlwaysOn), asked : Nat,
     outcome : Outcomes]

\* How often the model has been asked, by the place the turn is at.
AskedOK(r) ==
    /\ r.pc = "step" => r.asked <= r.iteration
    /\ r.pc = "model" => r.asked <= r.iteration /\ r.iteration < MaxIterations
    /\ r.pc \in {"call", "search", "retry"} =>
         r.asked <= r.iteration + 1 /\ r.iteration < MaxIterations
    /\ r.pc = "summary" => r.asked <= MaxIterations
    /\ r.asked <= MaxIterations + 1

\* The calls without a result are those from the current one on; what ran in this
\* attempt is the recorded chain, followed by the calls of the batch under way.
CallsOK(r) ==
    /\ r.visible \subseteq Tools \ Disabled(r)
    /\ r.open \subseteq 1 .. Len(r.batch)
    /\ r.pc \in {"step", "model", "retry", "summary"} => r.open = {} /\ r.chain = r.ran
    /\ r.pc \in {"call", "search"} =>
         /\ \A i \in r.open : r.at <= i
         /\ r.ran = r.chain \o r.calls
    /\ r.pc # "idle" => r.outcome = "none"
    /\ r.outcome = "reply" => r.chain = r.ran

ReactInv ==
    /\ react \in ReactRecord
    /\ AskedOK(react) /\ CallsOK(react)
    /\ preloaded \subseteq Tools \ AlwaysOn
    /\ "length" \in DOMAIN guardState /\ guardState.length \in Nat

\* The assumptions on the constants, one by one.
LEMMA Limits == /\ MaxIterations \in Nat /\ MaxIterations > 0
                /\ MaxAttempts \in Nat /\ MaxAttempts > 0
                /\ \A b \in Batches : b \in Seq(Tools)
BY ReasonerConstants DEF ReasonerConstants

\* The places and outcomes, one by one.
LEMMA Names ==
  /\ "idle" \in ReactPlaces /\ "step" \in ReactPlaces /\ "model" \in ReactPlaces
  /\ "retry" \in ReactPlaces /\ "call" \in ReactPlaces /\ "search" \in ReactPlaces
  /\ "summary" \in ReactPlaces
  /\ "none" \in Outcomes /\ "reply" \in Outcomes /\ "refused" \in Outcomes
  /\ "failed" \in Outcomes /\ "cancelled" \in Outcomes
BY DEF ReactPlaces, Outcomes

\* The changes a step makes to the turn keep its shape.
LEMMA Moving ==
  ASSUME NEW r \in ReactRecord, NEW pc \in ReactPlaces
  PROVE  /\ [r EXCEPT !.pc = pc] \in ReactRecord
         /\ [r EXCEPT !.pc = pc, !.asked = @ + 1] \in ReactRecord
<1>1. r.asked + 1 \in Nat
  BY DEF ReactRecord
<1>2. \A n \in Nat : [r EXCEPT !.pc = pc, !.asked = n] \in ReactRecord
  BY DEF ReactRecord
<1>3. [r EXCEPT !.pc = pc] \in ReactRecord
  BY DEF ReactRecord
<1> QED BY <1>1, <1>2, <1>3

\* A turn that ends is a turn.
LEMMA Ending ==
  ASSUME NEW r \in ReactRecord, NEW o \in Outcomes
  PROVE  /\ [r EXCEPT !.pc = "idle", !.outcome = o] \in ReactRecord
         /\ [r EXCEPT !.pc = "idle", !.asked = @ + 1, !.outcome = o] \in ReactRecord
<1>1. r.asked + 1 \in Nat /\ "idle" \in ReactPlaces
  BY Names DEF ReactRecord
<1>2. \A n \in Nat : [r EXCEPT !.pc = "idle", !.asked = n, !.outcome = o] \in ReactRecord
  BY <1>1 DEF ReactRecord
<1>3. [r EXCEPT !.pc = "idle", !.outcome = o] \in ReactRecord
  BY <1>1 DEF ReactRecord
<1> QED BY <1>1, <1>2, <1>3

\* A turn that begins a batch of calls is a turn.
LEMMA CallingBatch ==
  ASSUME NEW r \in ReactRecord, NEW b \in Seq(Tools)
  PROVE  [r EXCEPT !.pc = "call", !.asked = @ + 1, !.batch = b, !.at = 1,
                   !.open = 1 .. Len(b), !.calls = <<>>] \in ReactRecord
<1>1. /\ r.asked + 1 \in Nat /\ <<>> \in Seq(Tools) /\ 1 .. Len(b) \in SUBSET Nat
      /\ "call" \in ReactPlaces
  BY Names DEF ReactRecord
<1>2. ASSUME NEW n \in Nat, NEW s \in SUBSET Nat, NEW c \in Seq(Tools)
      PROVE  [r EXCEPT !.pc = "call", !.asked = n, !.batch = b, !.at = 1,
                       !.open = s, !.calls = c] \in ReactRecord
  BY <1>1 DEF ReactRecord
<1> QED BY <1>1, <1>2

\* A turn that has answered a call is a turn.
LEMMA Answering ==
  ASSUME NEW r \in ReactRecord, NEW c \in Seq(Tools), NEW n \in Seq(Tools), NEW v \in SUBSET Tools,
         NEW g \in SUBSET (Tools \ AlwaysOn)
  PROVE  /\ Answered(r) \in ReactRecord
         /\ [r EXCEPT !.calls = c, !.ran = n, !.gained = g] \in ReactRecord
         /\ [r EXCEPT !.visible = v, !.gained = g, !.calls = c, !.ran = n] \in ReactRecord
<1>0. r.at + 1 \in Nat /\ r.open \ {r.at} \in SUBSET Nat /\ "call" \in ReactPlaces
  BY Names DEF ReactRecord
<1>1. ASSUME NEW a \in Nat, NEW s \in SUBSET Nat
      PROVE [r EXCEPT !.pc = "call", !.at = a, !.open = s] \in ReactRecord
  BY <1>0 DEF ReactRecord
<1>2. Answered(r) \in ReactRecord
  BY <1>0, <1>1 DEF Answered
<1>3. [r EXCEPT !.calls = c, !.ran = n, !.gained = g] \in ReactRecord
  BY DEF ReactRecord
<1>4. [r EXCEPT !.visible = v, !.gained = g, !.calls = c, !.ran = n] \in ReactRecord
  BY DEF ReactRecord
<1> QED BY <1>2, <1>3, <1>4

\* A turn that records its calls in the chain is a turn.
LEMMA Recording ==
  ASSUME NEW r \in ReactRecord, NEW c \in Seq(Tools), NEW pc \in ReactPlaces, NEW n \in Seq(Tools), NEW i \in 0 .. MaxIterations
  PROVE  /\ [r EXCEPT !.pc = pc, !.chain = c] \in ReactRecord
         /\ [r EXCEPT !.pc = pc, !.open = {}, !.chain = c] \in ReactRecord
         /\ [r EXCEPT !.pc = pc, !.iteration = i, !.chain = c] \in ReactRecord
BY DEF ReactRecord

\* An attempt begins with nothing asked and nothing called.
LEMMA FreshAttempt ==
  ASSUME NEW n \in 0 .. MaxAttempts, NEW background \in BOOLEAN,
         preloaded \subseteq Tools \ AlwaysOn
  PROVE  LET r == Attempt(n, background)
         IN  r \in ReactRecord /\ AskedOK(r) /\ CallsOK(r)
<1> DEFINE r == Attempt(n, background)
<1>0. /\ (AlwaysOn \union preloaded) \ (IF background THEN {"push"} ELSE {}) \in SUBSET Tools
      /\ {} \in SUBSET Tools /\ {} \in SUBSET Nat /\ 0 \in 0 .. MaxIterations /\ 0 \in Nat
      /\ {} \in SUBSET (Tools \ AlwaysOn)
      /\ <<>> \in Seq(Tools) /\ "step" \in ReactPlaces /\ "none" \in Outcomes
  BY Limits, Names DEF Tools, AlwaysOn
<1>1. r \in ReactRecord
  BY <1>0 DEF Attempt, Idle, ReactRecord
<1>2. /\ r.pc = "step" /\ r.asked = 0 /\ r.iteration = 0 /\ r.open = {}
      /\ r.chain = <<>> /\ r.ran = <<>> /\ r.outcome = "none" /\ r.background = background
      /\ r.visible = (AlwaysOn \union preloaded) \ (IF background THEN {"push"} ELSE {})
  BY DEF Attempt, Idle
<1>3. AskedOK(r)
  BY <1>2, Limits DEF AskedOK
<1>4. CallsOK(r)
  BY <1>2 DEF CallsOK, Disabled, Tools, AlwaysOn
<1> QED BY <1>1, <1>3, <1>4

\* Before any turn the invariant holds.
LEMMA ReactInvInit == ReactInit => ReactInv
<1> SUFFICES ASSUME ReactInit PROVE ReactInv
  OBVIOUS
<1>1. react \in ReactRecord
  BY Limits, Names DEF ReactInit, Idle, ReactRecord, Tools
<1>2. AskedOK(react) /\ CallsOK(react)
  BY Limits DEF ReactInit, Idle, AskedOK, CallsOK, Disabled
<1> QED BY <1>1, <1>2 DEF ReactInit, ReactInv, NoRow

\* The guard's count is a number whatever it is asked about.
LEMMA CountedLength ==
  ASSUME "length" \in DOMAIN guardState, guardState.length \in Nat
  PROVE  "length" \in DOMAIN Counted /\ Counted.length \in Nat
BY DEF Counted, Longer

\* A call that runs extends what ran, as it extends the calls of the batch.
LEMMA AppendToChain ==
  ASSUME NEW s \in Seq(Tools), NEW t \in Seq(Tools), NEW x \in Tools
  PROVE  /\ Append(s \o t, x) = s \o Append(t, x)
         /\ Append(s, x) \in Seq(Tools) /\ s \o t \in Seq(Tools)
OBVIOUS

\* What a call changes besides its place may be changed before it is answered.
LEMMA LaterChanges ==
  ASSUME NEW r \in ReactRecord, NEW found, NEW x
  PROVE  [Answered(r) EXCEPT !.visible = @ \union found, !.gained = @ \union found,
                             !.calls = Append(@, x), !.ran = Append(@, x)]
         = Answered([r EXCEPT !.visible = @ \union found, !.gained = @ \union found,
                              !.calls = Append(@, x), !.ran = Append(@, x)])
<1>1. /\ Answered(r).visible = r.visible /\ Answered(r).gained = r.gained
      /\ Answered(r).calls = r.calls /\ Answered(r).ran = r.ran
  BY DEF Answered, ReactRecord
<1> DEFINE v == r.visible \union found
           g == r.gained \union found
           c == Append(r.calls, x)
           n == Append(r.ran, x)
<1>3. [Answered(r) EXCEPT !.visible = v, !.gained = g, !.calls = c, !.ran = n]
      = Answered([r EXCEPT !.visible = v, !.gained = g, !.calls = c, !.ran = n])
  <2> HIDE DEF v, g, c, n
  <2> QED BY DEF Answered, ReactRecord
<1> QED BY <1>1, <1>3

\* Every step keeps the invariant.
LEMMA ReactInvStep == ReactInv /\ [ReactNext]_reactVars => ReactInv'
<1> SUFFICES ASSUME ReactInv, [ReactNext]_reactVars PROVE ReactInv'
  OBVIOUS
<1> DEFINE Rest == /\ preloaded' \subseteq Tools \ AlwaysOn
                   /\ "length" \in DOMAIN guardState' /\ guardState'.length \in Nat
<1>0. /\ react \in ReactRecord /\ AskedOK(react) /\ CallsOK(react)
      /\ preloaded \subseteq Tools \ AlwaysOn
      /\ "length" \in DOMAIN guardState /\ guardState.length \in Nat
  BY DEF ReactInv
<1>c. "length" \in DOMAIN Counted /\ Counted.length \in Nat
  BY <1>0, CountedLength
<1>1. CASE UNCHANGED reactVars
  BY <1>0, <1>1 DEF reactVars, ReactInv, AskedOK, CallsOK, Disabled
<1>2. CASE BeginReact
  <2>1. 1 \in 0 .. MaxAttempts
    BY Limits
  <2>2. PICK background \in BOOLEAN : react' = Attempt(1, background)
    BY <1>2 DEF BeginReact
  <2>3. react' \in ReactRecord /\ AskedOK(react') /\ CallsOK(react')
    BY <1>0, <2>1, <2>2, FreshAttempt
  <2> QED BY <1>0, <1>2, <2>3 DEF BeginReact, ReactInv
<1>3. CASE ReactStep \/ StepStopped
  <2>1. /\ react.pc = "step" /\ Rest
        /\ \/ react' = [react EXCEPT !.pc = "summary"]
           \/ react' = [react EXCEPT !.pc = "model"] /\ react.iteration < MaxIterations
    BY <1>0, <1>3, Limits DEF ReactStep, StepStopped, OutOfIterations, ReactRecord
  <2> DEFINE Entered(x) == [react EXCEPT !.pc = x]
  <2>2. \A x \in ReactPlaces : Entered(x) \in ReactRecord
    BY <1>0, Moving
  <2>5. react' \in ReactRecord
    BY <2>1, <2>2, Names
  <2>6. /\ react'.asked = react.asked /\ react'.iteration = react.iteration
        /\ \/ react'.pc = "summary"
           \/ react'.pc = "model" /\ react.iteration < MaxIterations
    BY <1>0, <2>1 DEF ReactRecord
  <2>7. react.iteration <= MaxIterations /\ react.asked <= react.iteration
    BY <1>0, <2>1 DEF ReactRecord, AskedOK
  <2>8. react.asked \in Nat /\ react.iteration \in Nat
    BY <1>0, Limits DEF ReactRecord
  <2>3. AskedOK(react')
    BY <2>6, <2>7, <2>8, Limits DEF AskedOK
  <2>4. CallsOK(react')
    BY <1>0, <2>1 DEF ReactRecord, CallsOK, Disabled
  <2> QED BY <2>1, <2>5, <2>3, <2>4 DEF ReactInv
<1>4. ASSUME NEW b \in Batches, ModelCalls(b) PROVE ReactInv'
  <2>1. /\ react.pc = "model" /\ Rest /\ b \in Seq(Tools)
        /\ react' = [react EXCEPT !.pc = "call", !.asked = @ + 1, !.batch = b,
                                  !.at = 1, !.open = 1 .. Len(b), !.calls = <<>>]
    BY <1>0, <1>4, Limits DEF ModelCalls
  <2> DEFINE C == [react EXCEPT !.pc = "call", !.asked = @ + 1, !.batch = b,
                                !.at = 1, !.open = 1 .. Len(b), !.calls = <<>>]
  <2>6. C \in ReactRecord
    BY <1>0, <2>1, CallingBatch
  <2>2. react' \in ReactRecord
    BY <2>1, <2>6
  <2>3. AskedOK(react')
    BY <1>0, <2>1, Limits DEF ReactRecord, AskedOK
  <2>4. react.chain \o <<>> = react.chain
    BY <1>0 DEF ReactRecord
  <2>5. CallsOK(react')
    BY <1>0, <2>1, <2>4 DEF ReactRecord, CallsOK, Disabled
  <2> QED BY <2>1, <2>2, <2>3, <2>5 DEF ReactInv
<1>5. CASE ModelOnlyThinks
  <2>1. react.pc = "model" /\ Rest /\ react' = [react EXCEPT !.pc = "retry", !.asked = @ + 1]
    BY <1>0, <1>5 DEF ModelOnlyThinks
  <2>5. [react EXCEPT !.pc = "retry", !.asked = @ + 1] \in ReactRecord
    BY <1>0, Names, Moving
  <2>2. react' \in ReactRecord
    BY <2>1, <2>5
  <2>3. AskedOK(react')
    BY <1>0, <2>1, Limits DEF ReactRecord, AskedOK
  <2>4. CallsOK(react')
    BY <1>0, <2>1 DEF ReactRecord, CallsOK, Disabled
  <2> QED BY <2>1, <2>2, <2>3, <2>4 DEF ReactInv
<1>6. CASE ModelAnswers
  <2>1. /\ react.pc \in {"model", "retry", "summary"}
        /\ react' = [react EXCEPT !.pc = "idle", !.asked = @ + 1, !.outcome = "reply"]
    BY <1>6 DEF ModelAnswers
  <2>2. Rest
    BY <1>0, <1>6 DEF ModelAnswers, ReactRecord
  <2>6. [react EXCEPT !.pc = "idle", !.asked = @ + 1, !.outcome = "reply"] \in ReactRecord
    BY <1>0, Names, Ending
  <2>3. react' \in ReactRecord
    BY <2>1, <2>6
  <2>4. AskedOK(react')
    BY <1>0, <2>1, Limits DEF ReactRecord, AskedOK
  <2>5. CallsOK(react')
    BY <1>0, <2>1 DEF ReactRecord, CallsOK, Disabled
  <2> QED BY <2>2, <2>3, <2>4, <2>5 DEF ReactInv
<1>7. CASE ModelRefuses \/ ModelFails \/ CancelReact
  <2>1. CASE react' = NextPlan(react) /\ react.attempt < MaxAttempts
    <3>1. react.attempt + 1 \in 0 .. MaxAttempts /\ react.background \in BOOLEAN
      BY <1>0, <2>1, Limits DEF ReactRecord
    <3>2. react' \in ReactRecord /\ AskedOK(react') /\ CallsOK(react')
      BY <1>0, <2>1, <3>1, FreshAttempt DEF NextPlan
    <3> QED BY <1>0, <1>7, <3>2 DEF ModelRefuses, ModelFails, CancelReact, ReactInv
  <2>2. ASSUME NEW o \in {"refused", "failed", "cancelled"},
               react' = [react EXCEPT !.pc = "idle", !.outcome = o]
        PROVE  ReactInv'
    <3>4. o \in Outcomes
      BY DEF Outcomes
    <3>5. [react EXCEPT !.pc = "idle", !.outcome = o] \in ReactRecord
      BY <1>0, <3>4, Ending
    <3>1. react' \in ReactRecord
      BY <2>2, <3>5
    <3>2. AskedOK(react')
      BY <1>0, <2>2, Limits DEF ReactRecord, AskedOK
    <3>3. CallsOK(react')
      BY <1>0, <2>2 DEF ReactRecord, CallsOK, Disabled
    <3> QED BY <1>0, <1>7, <3>1, <3>2, <3>3 DEF ModelRefuses, ModelFails, CancelReact, ReactInv
  <2> QED BY <1>7, <2>1, <2>2 DEF ModelRefuses, ModelFails, CancelReact
<1>8. ASSUME NEW r \in ReactRecord, r.pc \in {"call", "search"},
             r.at <= Len(r.batch), AskedOK(r), r.visible \subseteq Tools \ Disabled(r),
             r.open \subseteq r.at .. Len(r.batch), r.open \subseteq 1 .. Len(r.batch),
             r.ran = r.chain \o r.calls, r.outcome = "none", Rest, react' = Answered(r)
      PROVE  ReactInv'
  \* A call is answered, after r was changed by what the call did.
  <2>1. react' \in ReactRecord
    <3>1. <<>> \in Seq(Tools) /\ {} \in SUBSET Tools /\ {} \in SUBSET (Tools \ AlwaysOn)
      OBVIOUS
    <3>2. Answered(r) \in ReactRecord
      BY <3>1, Answering
    <3> QED BY <1>8, <3>2
  <2>2. AskedOK(react')
    BY <1>8 DEF ReactRecord, AskedOK, Answered
  <2>3. CallsOK(react')
    BY <1>8 DEF ReactRecord, CallsOK, Answered, Disabled
  <2> QED BY <1>8, <2>1, <2>2, <2>3 DEF ReactInv
<1>9. CASE CallDisabled \/ CallHidden
  <2>1. /\ react.pc = "call" /\ react.at <= Len(react.batch) /\ react' = Answered(react) /\ Rest
    BY <1>0, <1>c, <1>9 DEF CallDisabled, CallHidden, Calling
  <2>2. react.open \subseteq react.at .. Len(react.batch)
    BY <1>0, <2>1 DEF CallsOK, ReactRecord
  <2> QED BY <1>0, <1>8, <2>1, <2>2 DEF CallsOK
<1>10. CASE SearchDispatched
  <2>1. react.pc = "call" /\ Rest /\ react' = [react EXCEPT !.pc = "search"]
    BY <1>0, <1>10 DEF SearchDispatched, Calling
  <2>2. react' \in ReactRecord
    <3>1. [react EXCEPT !.pc = "search"] \in ReactRecord
      BY <1>0, Names, Moving
    <3> QED BY <2>1, <3>1
  <2>3. AskedOK(react')
    BY <1>0, <2>1, Limits DEF ReactRecord, AskedOK
  <2>4. CallsOK(react')
    BY <1>0, <2>1 DEF ReactRecord, CallsOK, Disabled
  <2> QED BY <2>1, <2>2, <2>3, <2>4 DEF ReactInv
<1>11. CASE SearchRuns
  <2>1. /\ react.pc = "search" /\ react.at <= Len(react.batch) /\ Rest
    BY <1>0, <1>c, <1>11 DEF SearchRuns, Calling
  <2>2. PICK found \in SUBSET {"hidden"} :
          react' = [Answered(react) EXCEPT
                      !.visible = @ \union found, !.gained = @ \union found,
                      !.calls = Append(@, "search"), !.ran = Append(@, "search")]
    BY <1>11 DEF SearchRuns
  <2> DEFINE r == [react EXCEPT
                     !.visible = @ \union found, !.gained = @ \union found,
                     !.calls = Append(@, "search"), !.ran = Append(@, "search")]
  <2>3. react' = Answered(r)
    BY <1>0, <2>2, LaterChanges
  <2>4. r \in ReactRecord
    <3>1. /\ react.visible \union found \in SUBSET Tools
          /\ react.gained \union found \in SUBSET (Tools \ AlwaysOn)
          /\ "search" \in Tools
      BY <1>0 DEF ReactRecord, Tools, AlwaysOn
    <3>2. Append(react.calls, "search") \in Seq(Tools) /\ Append(react.ran, "search") \in Seq(Tools)
      BY <1>0, <3>1, AppendToChain DEF ReactRecord
    <3> DEFINE v == react.visible \union found
               g == react.gained \union found
               c == Append(react.calls, "search")
               n == Append(react.ran, "search")
    <3>3. [react EXCEPT !.visible = v, !.gained = g, !.calls = c, !.ran = n] \in ReactRecord
      <4> HIDE DEF v, g, c, n
      <4>1. v \in SUBSET Tools /\ g \in SUBSET (Tools \ AlwaysOn) /\ c \in Seq(Tools) /\ n \in Seq(Tools)
        BY <3>1, <3>2 DEF v, g, c, n
      <4> QED BY <1>0, <4>1, Answering
    <3> QED BY <3>3
  <2>5. /\ r.pc = react.pc /\ r.at = react.at /\ r.batch = react.batch
        /\ r.open = react.open /\ r.asked = react.asked /\ r.iteration = react.iteration
        /\ r.outcome = react.outcome /\ r.background = react.background
        /\ r.visible = react.visible \union found /\ r.chain = react.chain
        /\ r.calls = Append(react.calls, "search") /\ r.ran = Append(react.ran, "search")
    BY <1>0 DEF ReactRecord
  <2>6. r.ran = r.chain \o r.calls
    <3>1. react.ran = react.chain \o react.calls
      BY <1>0, <2>1 DEF CallsOK
    <3>2. react.chain \in Seq(Tools) /\ react.calls \in Seq(Tools) /\ "search" \in Tools
      BY <1>0 DEF ReactRecord, Tools
    <3> HIDE DEF r
    <3> QED BY <2>5, <3>1, <3>2, AppendToChain
  <2>7. AskedOK(r) /\ r.visible \subseteq Tools \ Disabled(r)
    BY <1>0, <2>5 DEF AskedOK, CallsOK, Disabled, Tools
  <2>8. r.open \subseteq r.at .. Len(r.batch)
    BY <1>0, <2>1, <2>5 DEF CallsOK, ReactRecord
  <2>9. r.open \subseteq 1 .. Len(r.batch) /\ r.outcome = "none"
    BY <1>0, <2>1, <2>5 DEF CallsOK
  <2> QED BY <1>8, <2>1, <2>3, <2>4, <2>5, <2>6, <2>7, <2>8, <2>9
<1>12. CASE CallRuns
  <2>1. /\ react.pc = "call" /\ react.at <= Len(react.batch) /\ Rest
        /\ Called \in Tools
    BY <1>0, <1>c, <1>12 DEF CallRuns, Calling, CallsOK
  <2>2. CASE react' = Answered(react)
    <3>1. react.open \subseteq react.at .. Len(react.batch)
      BY <1>0, <2>1 DEF CallsOK, ReactRecord
    <3> QED BY <1>0, <1>8, <2>1, <2>2, <3>1 DEF CallsOK
  <2>3. ASSUME NEW used \in SUBSET {Called},
               react' = [Answered(react) EXCEPT
                           !.gained = @ \union (used \ AlwaysOn),
                           !.calls = Append(@, Called), !.ran = Append(@, Called)]
        PROVE  ReactInv'
    <3> DEFINE x == Called
               r == [react EXCEPT !.gained = @ \union (used \ AlwaysOn),
                                  !.calls = Append(@, x), !.ran = Append(@, x)]
    <3> HIDE DEF x
    <3>0. x \in Tools /\ used \subseteq Tools
      BY <2>1, <2>3 DEF x
    <3>1. react' = [Answered(react) EXCEPT
                           !.gained = @ \union (used \ AlwaysOn),
                           !.calls = Append(@, x), !.ran = Append(@, x)]
      BY <2>3 DEF x
    <3>3. react' = Answered(r)
      BY <1>0, <3>1 DEF Answered, ReactRecord
    <3>4. r \in ReactRecord
      BY Names, <1>0, <3>0, AppendToChain DEF ReactRecord
    <3>5. /\ r.pc = react.pc /\ r.at = react.at /\ r.batch = react.batch
          /\ r.open = react.open /\ r.asked = react.asked /\ r.iteration = react.iteration
          /\ r.outcome = react.outcome /\ r.background = react.background
          /\ r.visible = react.visible /\ r.chain = react.chain
          /\ r.calls = Append(react.calls, x) /\ r.ran = Append(react.ran, x)
      BY <1>0 DEF ReactRecord
    <3>6. r.ran = r.chain \o r.calls
      <4>1. react.ran = react.chain \o react.calls
        BY <1>0, <2>1 DEF CallsOK
      <4>2. react.chain \in Seq(Tools) /\ react.calls \in Seq(Tools)
        BY <1>0 DEF ReactRecord
      <4> HIDE DEF r
      <4> QED BY <3>0, <3>5, <4>1, <4>2, AppendToChain
    <3>7. AskedOK(r) /\ r.visible \subseteq Tools \ Disabled(r)
      BY <1>0, <3>5 DEF AskedOK, CallsOK, Disabled
    <3>8. r.open \subseteq r.at .. Len(r.batch)
      BY <1>0, <2>1, <3>5 DEF CallsOK, ReactRecord
    <3>9. r.open \subseteq 1 .. Len(r.batch) /\ r.outcome = "none"
      BY <1>0, <2>1, <3>5 DEF CallsOK
    <3> QED BY <1>8, <2>1, <3>3, <3>4, <3>5, <3>6, <3>7, <3>8, <3>9
  <2> QED BY <1>12, <2>2, <2>3 DEF CallRuns
<1>13. CASE CallDenied
  <2>1. /\ react.pc \in {"call", "search"} /\ Rest
        /\ react' = [react EXCEPT !.pc = "summary", !.open = {}, !.chain = @ \o react.calls]
    BY <1>0, <1>c, <1>13 DEF CallDenied, Calling, CutShort
  <2>2. react' \in ReactRecord
    <3>1. react.chain \o react.calls \in Seq(Tools)
      BY <1>0, AppendToChain DEF ReactRecord
    <3>2. 0 \in 0 .. MaxIterations
      BY Limits
    <3> DEFINE c == react.chain \o react.calls
    <3>3. [react EXCEPT !.pc = "summary", !.open = {}, !.chain = c] \in ReactRecord
      <4> HIDE DEF c
      <4> QED BY <1>0, <3>1, <3>2, Names, Recording DEF c
    <3> QED BY <2>1, <3>3
  <2>3. AskedOK(react')
    BY <1>0, <2>1, Limits DEF ReactRecord, AskedOK
  <2>4. CallsOK(react')
    BY <1>0, <2>1 DEF ReactRecord, CallsOK, Disabled
  <2> QED BY <2>1, <2>2, <2>3, <2>4 DEF ReactInv
<1>14. CASE BatchOver
  <2>1. /\ react.pc = "call" /\ react.at > Len(react.batch) /\ Rest
        /\ \/ react' = [react EXCEPT !.pc = "step", !.iteration = @ + 1,
                                     !.chain = @ \o react.calls]
           \/ react' = [react EXCEPT !.pc = "summary", !.chain = @ \o react.calls]
    BY <1>0, <1>14 DEF BatchOver
  <2>2. react.open = {} /\ react.iteration + 1 \in 0 .. MaxIterations
    BY <1>0, <2>1, Limits DEF CallsOK, AskedOK, ReactRecord
  <2>3. react.chain \o react.calls \in Seq(Tools)
    BY <1>0, AppendToChain DEF ReactRecord
  <2>4. react' \in ReactRecord
    <3> DEFINE c == react.chain \o react.calls
               i == react.iteration + 1
    <3>1. [react EXCEPT !.pc = "step", !.iteration = i, !.chain = c] \in ReactRecord
      BY <1>0, <2>2, <2>3, Names, Recording
    <3>2. [react EXCEPT !.pc = "summary", !.chain = c] \in ReactRecord
      BY <1>0, <2>2, <2>3, Names, Recording
    <3> QED BY <2>1, <3>1, <3>2
  <2>7. /\ react.asked \in Nat /\ react.iteration \in Nat
        /\ react.asked <= react.iteration + 1 /\ react.iteration < MaxIterations
    BY <1>0, <2>1, Limits DEF ReactRecord, AskedOK
  <2>8. /\ react'.asked = react.asked
        /\ \/ react'.pc = "step" /\ react'.iteration = react.iteration + 1
           \/ react'.pc = "summary" /\ react'.iteration = react.iteration
    BY <1>0, <2>1 DEF ReactRecord
  <2>5. AskedOK(react')
    BY <2>7, <2>8, Limits DEF AskedOK
  <2>6. CallsOK(react')
    BY <1>0, <2>1, <2>2 DEF ReactRecord, CallsOK, Disabled
  <2> QED BY <2>1, <2>4, <2>5, <2>6 DEF ReactInv
<1>15. CASE OtherSearch
  BY <1>0, <1>15 DEF OtherSearch, ReactInv, AskedOK, CallsOK, Disabled
<1> QED
  BY <1>1, <1>2, <1>3, <1>4, <1>5, <1>6, <1>7, <1>9, <1>10, <1>11, <1>12, <1>13, <1>14,
     <1>15 DEF ReactNext, ReactProgress

\* The invariant holds always.
LEMMA ReactInvariant == ReactSpec => []ReactInv
BY ReactInvInit, ReactInvStep, PTL DEF ReactSpec

\* The shape of the reasoner's state, and the number of model calls of an attempt.
THEOREM ReactTypeCorrect == ReactSpec => []ReactTypeOK
<1>1. ReactInv => ReactTypeOK
  BY DEF ReactInv, ReactRecord, ReactPlaces, AskedOK, CallsOK, ReactTypeOK
<1> QED BY <1>1, ReactInvariant, PTL

\* No model call is made with a tool call that has no result.
THEOREM EveryCallHasAResult == ReactSpec => []TranscriptClosed
<1>1. ReactInv => TranscriptClosed
  BY DEF ReactInv, CallsOK, TranscriptClosed
<1> QED BY <1>1, ReactInvariant, PTL

\* A reply is stored with every call that ran in its attempt, in order.
THEOREM NothingRanUnrecorded == ReactSpec => []ReplyRecordsAttempt
<1>1. ReactInv => ReplyRecordsAttempt
  BY DEF ReactInv, CallsOK, ReplyRecordsAttempt
<1> QED BY <1>1, ReactInvariant, PTL

\* A step of a turn leaves less to do.  What is left is compared lexicographically:
\* attempts, iterations of this attempt, places of this iteration, calls of its batch.
StageOf(pc) == IF pc = "step" THEN 5
               ELSE IF pc = "model" THEN 4
               ELSE IF pc \in {"call", "search"} THEN 3
               ELSE IF pc = "retry" THEN 2
               ELSE IF pc = "summary" THEN 1 ELSE 0

\* A call that has been dispatched to tool_search is half done.
CallsLeft(r) == IF r.pc = "call" THEN 2 * (Len(r.batch) + 1 - r.at) + 1
                ELSE IF r.pc = "search" THEN 2 * (Len(r.batch) + 1 - r.at) ELSE 0

TurnLeft(r) == <<MaxAttempts - r.attempt,
                 <<MaxIterations - r.iteration, <<StageOf(r.pc), CallsLeft(r)>>>>>>

\* The position in a batch is one of its calls, or just behind the last of them.
BatchPlace(r) ==
    r.pc \in {"call", "search"} =>
        /\ r.at >= 1 /\ r.at <= Len(r.batch) + 1
        /\ r.pc = "search" => r.at <= Len(r.batch)

\* What is left of a turn depends on these fields.
PlaceFields == {"pc", "at", "batch", "open", "attempt", "iteration"}

\* Answering a call moves behind it and nowhere else.
LEMMA AnsweredPlace ==
  ASSUME NEW r, PlaceFields \subseteq DOMAIN r
  PROVE  /\ Answered(r).pc = "call" /\ Answered(r).at = r.at + 1
         /\ Answered(r).batch = r.batch
         /\ Answered(r).attempt = r.attempt /\ Answered(r).iteration = r.iteration
BY DEF Answered, PlaceFields

\* What the four ways to answer a call have in common.
LEMMA CallAnswered ==
  ASSUME react \in ReactRecord, CallDisabled \/ CallHidden \/ SearchRuns \/ CallRuns
  PROVE  /\ react.at <= Len(react.batch) /\ react.pc \in {"call", "search"}
         /\ react'.pc = "call" /\ react'.at = react.at + 1 /\ react'.batch = react.batch
         /\ react'.attempt = react.attempt /\ react'.iteration = react.iteration
<1>0. PlaceFields \subseteq DOMAIN react
  BY DEF ReactRecord, PlaceFields
<1>1. CASE CallDisabled \/ CallHidden
  BY <1>0, <1>1, AnsweredPlace DEF CallDisabled, CallHidden, Calling
<1>2. CASE SearchRuns
  <2>1. PICK found \in SUBSET {"hidden"} :
          react' = [Answered(react) EXCEPT
                      !.visible = @ \union found, !.gained = @ \union found,
                      !.calls = Append(@, "search"), !.ran = Append(@, "search")]
    BY <1>2 DEF SearchRuns
  <2> DEFINE r == [react EXCEPT
                     !.visible = @ \union found, !.gained = @ \union found,
                     !.calls = Append(@, "search"), !.ran = Append(@, "search")]
  <2>2. react' = Answered(r)
    BY <2>1, LaterChanges
  <2>3. /\ r.at = react.at /\ r.batch = react.batch /\ r.attempt = react.attempt
        /\ r.iteration = react.iteration /\ DOMAIN r = DOMAIN react
    BY DEF ReactRecord
  <2>4. react.at <= Len(react.batch) /\ react.pc = "search"
    BY <1>2 DEF SearchRuns, Calling
  <2> HIDE DEF r
  <2> QED BY <1>0, <2>2, <2>3, <2>4, AnsweredPlace
<1>3. CASE CallRuns
  <2>1. react.at <= Len(react.batch) /\ react.pc = "call"
    BY <1>3 DEF CallRuns, Calling
  <2>2. CASE react' = Answered(react)
    BY <1>0, <2>1, <2>2, AnsweredPlace
  <2>3. ASSUME NEW used \in SUBSET {Called},
               react' = [Answered(react) EXCEPT
                           !.gained = @ \union (used \ AlwaysOn),
                           !.calls = Append(@, Called), !.ran = Append(@, Called)]
        PROVE  /\ react'.pc = "call" /\ react'.at = react.at + 1
               /\ react'.batch = react.batch
               /\ react'.attempt = react.attempt /\ react'.iteration = react.iteration
    <3> DEFINE x == Called
               r == [react EXCEPT !.gained = @ \union (used \ AlwaysOn),
                                  !.calls = Append(@, x), !.ran = Append(@, x)]
    <3> HIDE DEF x
    <3>1. react' = [Answered(react) EXCEPT
                           !.gained = @ \union (used \ AlwaysOn),
                           !.calls = Append(@, x), !.ran = Append(@, x)]
      BY <2>3 DEF x
    <3>2. react' = Answered(r)
      BY <3>1 DEF Answered, ReactRecord
    <3>3. /\ r.at = react.at /\ r.batch = react.batch /\ r.attempt = react.attempt
          /\ r.iteration = react.iteration /\ DOMAIN r = DOMAIN react
      BY DEF ReactRecord
    <3> HIDE DEF r
    <3> QED BY <1>0, <3>2, <3>3, AnsweredPlace
  <2> QED BY <1>3, <2>1, <2>2, <2>3 DEF CallRuns
<1> QED BY <1>1, <1>2, <1>3

\* A batch is walked through from its first call to just behind its last.
LEMMA PlaceStep ==
  ASSUME ReactInv, BatchPlace(react), [ReactNext]_reactVars
  PROVE  BatchPlace(react)'
<1>0. react \in ReactRecord
  BY DEF ReactInv
<1>b. react.at \in Nat /\ Len(react.batch) \in Nat
  BY <1>0 DEF ReactRecord
<1>1. CASE react' = react
  BY <1>1 DEF BatchPlace
<1>2. CASE react'.pc \notin {"call", "search"}
  BY <1>2 DEF BatchPlace
<1>3. ASSUME NEW b \in Batches, ModelCalls(b) PROVE BatchPlace(react)'
  <2>1. b \in Seq(Tools)
    BY Limits
  <2>3. Len(b) \in Nat
    BY <2>1
  <2>2. react'.at = 1 /\ react'.batch = b /\ react'.pc = "call"
    BY <1>0, <1>3 DEF ModelCalls, ReactRecord
  <2> QED BY <2>2, <2>3 DEF BatchPlace
<1>4. CASE CallDisabled \/ CallHidden \/ SearchRuns \/ CallRuns
  BY <1>0, <1>b, <1>4, CallAnswered DEF BatchPlace
<1>5. CASE SearchDispatched
  <2>1. /\ react.at <= Len(react.batch) /\ react.pc = "call"
        /\ react'.at = react.at /\ react'.batch = react.batch
    BY <1>0, <1>5 DEF SearchDispatched, Calling, ReactRecord
  <2> QED BY <1>b, <2>1 DEF BatchPlace
<1>6. CASE BeginReact
  <2>1. react'.pc = "step"
    BY <1>6 DEF BeginReact, Attempt, Idle
  <2> QED BY <2>1, <1>2
<1>7. CASE ModelRefuses
  <2>1. react'.pc \in {"step", "idle"}
    BY <1>0, <1>7 DEF ModelRefuses, NextPlan, Attempt, Idle, ReactRecord
  <2> QED BY <2>1, <1>2
<1>8. CASE ReactStep \/ StepStopped \/ ModelOnlyThinks \/ ModelAnswers \/ ModelFails
           \/ CancelReact
  <2>1. react'.pc \notin {"call", "search"}
    BY <1>0, <1>8 DEF ReactStep, StepStopped, ModelOnlyThinks, ModelAnswers, ModelFails,
                      CancelReact, ReactRecord
  <2> QED BY <2>1, <1>2
<1>9. CASE CallDenied \/ BatchOver
  <2>1. react'.pc \notin {"call", "search"}
    BY <1>0, <1>9 DEF CallDenied, CutShort, BatchOver, ReactRecord
  <2> QED BY <2>1, <1>2
<1>10. CASE OtherSearch
  BY <1>1, <1>10 DEF OtherSearch
<1>11. CASE UNCHANGED reactVars
  BY <1>1, <1>11 DEF reactVars
<1> QED BY <1>3, <1>4, <1>5, <1>6, <1>7, <1>8, <1>9, <1>10, <1>11
        DEF ReactNext, ReactProgress

\* The calls left in a batch are a number.
LEMMA CallsLeftNat ==
  ASSUME NEW r \in ReactRecord, BatchPlace(r)
  PROVE  CallsLeft(r) \in Nat
<1>1. r.at \in Nat /\ Len(r.batch) \in Nat
  BY DEF ReactRecord
<1>2. CASE r.pc \in {"call", "search"}
  <2>1. Len(r.batch) + 1 - r.at \in Nat
    BY <1>1, <1>2 DEF BatchPlace
  <2> QED BY <1>2, <2>1 DEF CallsLeft
<1>3. CASE r.pc \notin {"call", "search"}
  BY <1>3 DEF CallsLeft
<1> QED BY <1>2, <1>3

\* Every step of a turn that goes on changes nothing of it or leaves less of it, and
\* what is left cannot become less for ever: from any point, only finitely many steps
\* lie before the turn's end.  With an await that returns (ReactFairSpec) this is why
\* TurnsReply holds, whatever batches the model asks for and however long they are
\* (passive_turn.py:1966 the plans, :1093 the iterations, :1203 the calls).
THEOREM TurnsAreFinite ==
  /\ IsWellFoundedOn(LessLeft, Amounts)
  /\ ReactSpec =>
       [][react.pc # "idle" => react' = react
                               \/ <<TurnLeft(react'), TurnLeft(react)>> \in LessLeft]_reactVars
<1>1. ASSUME ReactInv, ReactInv', BatchPlace(react), BatchPlace(react)',
             react.pc # "idle", [ReactNext]_reactVars, react' # react
      PROVE  <<TurnLeft(react'), TurnLeft(react)>> \in LessLeft
  <2> DEFINE a == MaxAttempts - react'.attempt
             b == MaxIterations - react'.iteration
             c == StageOf(react'.pc)
             d == CallsLeft(react')
             e == MaxAttempts - react.attempt
             f == MaxIterations - react.iteration
             g == StageOf(react.pc)
             h == CallsLeft(react)
  <2>1. /\ react \in ReactRecord /\ AskedOK(react) /\ react' \in ReactRecord
        /\ MaxIterations \in Nat /\ MaxAttempts \in Nat
    BY <1>1, Limits DEF ReactInv
  <2>2. a \in Nat /\ b \in Nat /\ e \in Nat /\ f \in Nat
    <3>1. /\ react.attempt \in 0 .. MaxAttempts /\ react.iteration \in 0 .. MaxIterations
          /\ react'.attempt \in 0 .. MaxAttempts /\ react'.iteration \in 0 .. MaxIterations
      BY <2>1 DEF ReactRecord
    <3> QED BY <2>1, <3>1
  <2>3. c \in Nat /\ g \in Nat
    BY DEF StageOf
  <2>4. /\ react.at \in Nat /\ Len(react.batch) \in Nat
        /\ react'.at \in Nat /\ Len(react'.batch) \in Nat
    BY <2>1 DEF ReactRecord
  <2>5. d \in Nat /\ h \in Nat
    BY <1>1, <2>1, CallsLeftNat
  <2>6. \/ a < e
        \/ a = e /\ b < f
        \/ a = e /\ b = f /\ c < g
        \/ a = e /\ b = f /\ c = g /\ d < h
    <3>0. /\ react.attempt \in Int /\ react.iteration \in Int
          /\ react'.attempt \in Int /\ react'.iteration \in Int
      BY <2>1 DEF ReactRecord
    <3>1. CASE ReactStep \/ StepStopped
      <4>1. /\ react.pc = "step" /\ react'.pc \in {"model", "summary"}
            /\ react'.attempt = react.attempt /\ react'.iteration = react.iteration
        BY <2>1, <3>1 DEF ReactStep, StepStopped, ReactRecord
      <4> QED BY <4>1 DEF StageOf
    <3>2. ASSUME NEW t \in Batches, ModelCalls(t) PROVE a = e /\ b = f /\ c < g
      <4>1. /\ react.pc = "model" /\ react'.pc = "call"
            /\ react'.attempt = react.attempt /\ react'.iteration = react.iteration
        BY <2>1, <3>2 DEF ModelCalls, ReactRecord
      <4> QED BY <4>1 DEF StageOf
    <3>3. CASE ModelOnlyThinks
      <4>1. /\ react.pc = "model" /\ react'.pc = "retry"
            /\ react'.attempt = react.attempt /\ react'.iteration = react.iteration
        BY <2>1, <3>3 DEF ModelOnlyThinks, ReactRecord
      <4> QED BY <4>1 DEF StageOf
    <3>4. CASE react'.pc = "idle" /\ react'.attempt = react.attempt
               /\ react'.iteration = react.iteration
      <4>1. react.pc \in ReactPlaces \ {"idle"}
        BY <1>1, <2>1 DEF ReactRecord
      <4> QED BY <3>4, <4>1 DEF StageOf, ReactPlaces
    <3>5. CASE ModelAnswers \/ ModelFails \/ CancelReact
      <4>1. /\ react'.pc = "idle"
            /\ react'.attempt = react.attempt /\ react'.iteration = react.iteration
        BY <2>1, <3>5 DEF ModelAnswers, ModelFails, CancelReact, ReactRecord
      <4> QED BY <3>4, <4>1
    <3>6. CASE ModelRefuses
      <4>1. CASE react.attempt < MaxAttempts
        <5>1. react'.attempt = react.attempt + 1
          BY <3>6, <4>1 DEF ModelRefuses, NextPlan, Attempt, Idle
        <5> QED BY <2>1, <3>0, <5>1
      <4>2. CASE ~(react.attempt < MaxAttempts)
        <5>1. /\ react'.pc = "idle"
              /\ react'.attempt = react.attempt /\ react'.iteration = react.iteration
          BY <2>1, <3>6, <4>2 DEF ModelRefuses, ReactRecord
        <5> QED BY <3>4, <5>1
      <4> QED BY <4>1, <4>2
    <3>7. CASE CallDisabled \/ CallHidden \/ SearchRuns \/ CallRuns
      <4>1. /\ react.at <= Len(react.batch) /\ react.pc \in {"call", "search"}
            /\ react'.pc = "call" /\ react'.at = react.at + 1 /\ react'.batch = react.batch
            /\ react'.attempt = react.attempt /\ react'.iteration = react.iteration
        BY <2>1, <3>7, CallAnswered
      <4>2. c = g
        BY <4>1 DEF StageOf
      <4>3. d = 2 * (Len(react.batch) - react.at) + 1
        BY <2>4, <4>1 DEF CallsLeft
      <4>4. \/ h = 2 * (Len(react.batch) + 1 - react.at)
            \/ h = 2 * (Len(react.batch) + 1 - react.at) + 1
        BY <4>1 DEF CallsLeft
      <4>5. d < h
        BY <2>4, <4>3, <4>4
      <4> QED BY <4>1, <4>2, <4>5
    <3>8. CASE SearchDispatched
      <4>1. /\ react.pc = "call" /\ react'.pc = "search"
            /\ react'.at = react.at /\ react'.batch = react.batch
            /\ react'.attempt = react.attempt /\ react'.iteration = react.iteration
        BY <2>1, <3>8 DEF SearchDispatched, Calling, ReactRecord
      <4>2. c = g
        BY <4>1 DEF StageOf
      <4>3. d < h
        BY <2>4, <4>1 DEF CallsLeft
      <4> QED BY <4>1, <4>2, <4>3
    <3>9. CASE CallDenied
      <4>1. /\ react.pc \in {"call", "search"} /\ react'.pc = "summary"
            /\ react'.attempt = react.attempt /\ react'.iteration = react.iteration
        BY <2>1, <3>9 DEF CallDenied, Calling, CutShort, ReactRecord
      <4> QED BY <4>1 DEF StageOf
    <3>10. CASE BatchOver
      <4>1. /\ react.pc = "call" /\ react'.attempt = react.attempt
            /\ \/ react'.iteration = react.iteration + 1
               \/ react'.pc = "summary" /\ react'.iteration = react.iteration
        BY <2>1, <3>10 DEF BatchOver, ReactRecord
      <4>2. CASE react'.iteration = react.iteration + 1
        BY <2>1, <3>0, <4>1, <4>2
      <4>3. CASE react'.pc = "summary" /\ react'.iteration = react.iteration
        BY <4>1, <4>3 DEF StageOf
      <4> QED BY <4>1, <4>2, <4>3
    <3>11. ~(BeginReact \/ OtherSearch \/ UNCHANGED reactVars)
      BY <1>1 DEF BeginReact, OtherSearch, reactVars
    <3> QED BY <1>1, <3>1, <3>2, <3>3, <3>5, <3>6, <3>7, <3>8, <3>9, <3>10, <3>11
            DEF ReactNext, ReactProgress
  <2> HIDE DEF a, b, c, d, e, f, g, h
  <2>7. <<<<a, <<b, <<c, d>>>>>>, <<e, <<f, <<g, h>>>>>>>> \in LessLeft
    <3>1. Less(a, b, c, d, e, f, g, h)
      BY <2>6 DEF Less
    <3> QED BY <2>2, <2>3, <2>5, <3>1, Descends, Zenon
  <2> QED BY <2>7 DEF TurnLeft, a, b, c, d, e, f, g, h
<1>2. ReactInit => BatchPlace(react)
  BY DEF ReactInit, Idle, BatchPlace
<1>3. ReactInv /\ BatchPlace(react) /\ [ReactNext]_reactVars => BatchPlace(react)'
  BY PlaceStep
<1>4. ReactSpec => [](ReactInv /\ BatchPlace(react))
  BY <1>2, <1>3, ReactInvariant, PTL DEF ReactSpec
<1>5. /\ ReactInv /\ BatchPlace(react) /\ (ReactInv /\ BatchPlace(react))'
      /\ [ReactNext]_reactVars
      => [react.pc # "idle" => react' = react
                               \/ <<TurnLeft(react'), TurnLeft(react)>> \in LessLeft]_reactVars
  BY <1>1
<1>6. ReactSpec =>
       [][react.pc # "idle" => react' = react
                               \/ <<TurnLeft(react'), TurnLeft(react)>> \in LessLeft]_reactVars
  BY <1>4, <1>5, PTL DEF ReactSpec
<1> QED BY <1>6, LessLeftWellFounded

-----------------------------------------------------------------------------
(* Spawned jobs                                                              *)

\* A job's state: nothing is announced before it ends, except by cancel, whose
\* announcements are counted and remembered until the task has unwound.
JobState(j) ==
    /\ job[j].at \in {"none"} \cup InProgress =>
         completions[j] = 0 /\ cancelRequests[j] = 0 /\ j \notin cancelAnnounced
    /\ job[j].at = "none" => j \notin runningTasks
    /\ job[j].at = "unwinding" =>
         /\ completions[j] = cancelRequests[j]
         /\ j \in cancelAnnounced <=> cancelRequests[j] > 0
    /\ job[j].at = "returned" =>
         completions[j] >= 1 /\ (completions[j] > 1 => cancelRequests[j] > 1)

\* A job's loop: an iteration is left while it goes on, and every call of the last
\* answer has a result when the model is called.
LoopState(j) ==
    /\ job[j].at \in {"none", "think", "tools"} => job[j].iteration < SubagentIterations
    /\ job[j].at = "tools" => job[j].unanswered > 0
    /\ job[j].at \in {"none", "think", "cleanup", "summary"} => job[j].unanswered = 0

\* The inductive invariant of the jobs.
SpawnInv == SpawnTypeOK /\ \A j \in SpawnedJobs : JobState(j) /\ LoopState(j)

\* A job's record.
JobRecord == [at : {"none", "unwinding", "returned"} \cup InProgress,
              iteration : 0 .. SubagentIterations, unanswered : 0 .. MaxCalls]

\* No job has started at the start.
LEMMA SpawnInvInit == SpawnInit => SpawnInv
<1> SUFFICES ASSUME SpawnInit PROVE SpawnInv
  OBVIOUS
<1>1. 0 \in 0 .. SubagentIterations /\ 0 \in 0 .. MaxCalls /\ 0 < SubagentIterations
  BY SubagentConstants DEF SubagentConstants
<1> QED
  BY <1>1 DEF SpawnInit, SpawnInv, SpawnTypeOK, JobState, LoopState, InProgress

\* A step changes one job; it is enough to look at that one.
LEMMA OneJob ==
  ASSUME SpawnInv, NEW j \in SpawnedJobs, NEW r \in JobRecord,
         NEW count \in Nat, NEW asked \in Nat,
         job' = [job EXCEPT ![j] = r],
         completions' = [completions EXCEPT ![j] = count],
         cancelRequests' = [cancelRequests EXCEPT ![j] = asked],
         runningTasks' \in SUBSET SpawnedJobs, cancelAnnounced' \in SUBSET SpawnedJobs,
         \A i \in SpawnedJobs \ {j} : /\ i \in runningTasks' <=> i \in runningTasks
                                      /\ i \in cancelAnnounced' <=> i \in cancelAnnounced,
         JobState(j)', LoopState(j)'
  PROVE  SpawnInv'
<1>1. SpawnTypeOK'
  BY DEF SpawnInv, SpawnTypeOK, JobRecord
<1>2. ASSUME NEW i \in SpawnedJobs PROVE JobState(i)' /\ LoopState(i)'
  <2>1. CASE i = j
    BY <2>1
  <2>2. CASE i # j
    <3>1. /\ job'[i] = job[i] /\ completions'[i] = completions[i]
          /\ cancelRequests'[i] = cancelRequests[i]
      BY <2>2 DEF SpawnInv, SpawnTypeOK
    <3>2. JobState(i) /\ LoopState(i)
      BY DEF SpawnInv
    <3> QED BY <3>1, <3>2, <2>2 DEF JobState, LoopState
  <2> QED BY <2>1, <2>2
<1> QED BY <1>1, <1>2 DEF SpawnInv

\* Every step keeps the invariant.
LEMMA SpawnInvStep == SpawnInv /\ [SpawnNext]_spawnVars => SpawnInv'
<1> SUFFICES ASSUME SpawnInv, [SpawnNext]_spawnVars PROVE SpawnInv'
  OBVIOUS
<1>1. CASE UNCHANGED spawnVars
  BY <1>1 DEF spawnVars, SpawnInv, SpawnTypeOK, JobState, LoopState
<1>2. ASSUME NEW j \in SpawnedJobs,
             SpawnJob(j) \/ SubagentStep(j) \/ CancelJob(j) \/ LoopCancels(j)
      PROVE  SpawnInv'
  <2>0. /\ job[j] \in JobRecord /\ job \in [SpawnedJobs -> JobRecord]
        /\ completions \in [SpawnedJobs -> Nat] /\ cancelRequests \in [SpawnedJobs -> Nat]
        /\ runningTasks \subseteq SpawnedJobs /\ cancelAnnounced \subseteq SpawnedJobs
        /\ JobState(j) /\ LoopState(j)
        /\ SubagentIterations \in Nat /\ MaxCalls \in Nat
        /\ job[j].iteration \in 0 .. SubagentIterations
        /\ job[j].unanswered \in 0 .. MaxCalls
    BY SubagentConstants DEF SubagentConstants, SpawnInv, SpawnTypeOK, JobRecord
  <2> DEFINE Same == /\ completions' = [completions EXCEPT ![j] = completions[j]]
                     /\ cancelRequests' = [cancelRequests EXCEPT ![j] = cancelRequests[j]]
  <2>1. CASE SpawnJob(j)
    <3> DEFINE r == [job[j] EXCEPT !.at = "think"]
    <3>1. r \in JobRecord /\ job' = [job EXCEPT ![j] = r] /\ Same
      BY <2>0, <2>1 DEF SpawnJob, MoveTo, JobRecord, InProgress
    <3>2. JobState(j)' /\ LoopState(j)'
      BY <2>0, <2>1 DEF SpawnJob, MoveTo, JobState, LoopState, InProgress, JobRecord
    <3> QED BY <2>0, <2>1, <3>1, <3>2, OneJob, ZenonT(60) DEF SpawnJob
  <2>2. ASSUME NEW n \in 1 .. MaxCalls, AskTools(j, n) PROVE SpawnInv'
    <3> DEFINE r == [job[j] EXCEPT !.at = "tools", !.unanswered = n]
    <3>0. n \in 0 .. MaxCalls /\ n > 0
      BY <2>0
    <3>1. r \in JobRecord /\ job' = [job EXCEPT ![j] = r] /\ Same
      <4>1. r \in JobRecord
        BY <2>0, <3>0 DEF JobRecord, InProgress
      <4>2. job' = [job EXCEPT ![j] = r]
        BY <2>0, <2>2 DEF AskTools
      <4>3. Same
        BY <2>0, <2>2 DEF AskTools, spawnRegistry
      <4> QED BY <4>1, <4>2, <4>3
    <3>2. JobState(j)' /\ LoopState(j)'
      BY <2>0, <2>2 DEF AskTools, spawnRegistry, JobState, LoopState, InProgress, JobRecord
    <3> QED BY <2>0, <2>2, <3>1, <3>2, OneJob DEF AskTools, spawnRegistry
  <2>3. CASE ToolResult(j)
    <3> DEFINE left == job[j].unanswered - 1
               round == job[j].iteration + 1
               r == [job[j] EXCEPT !.unanswered = left,
                        !.iteration = IF left = 0 THEN round ELSE @,
                        !.at = IF left > 0 THEN "tools"
                               ELSE IF round < SubagentIterations THEN "think" ELSE "cleanup"]
    <3>1. /\ job[j].at = "tools" /\ left \in 0 .. MaxCalls
          /\ round \in 0 .. SubagentIterations
      BY <2>0, <2>3 DEF ToolResult, LoopState
    <3>2. r \in JobRecord
      BY <2>0, <3>1 DEF JobRecord, InProgress
    <3>3. job' = [job EXCEPT ![j] = r] /\ Same
      BY <2>0, <2>3 DEF ToolResult, spawnRegistry
    <3>4. job'[j] = r
      BY <2>0, <3>3
    <3>5. /\ r.unanswered = left
          /\ r.iteration = IF left = 0 THEN round ELSE job[j].iteration
          /\ r.at = IF left > 0 THEN "tools"
                    ELSE IF round < SubagentIterations THEN "think" ELSE "cleanup"
      BY <2>0 DEF JobRecord
    <3>6. LoopState(j)'
      BY <2>0, <3>1, <3>4, <3>5 DEF LoopState
    <3>7. JobState(j)'
      BY <2>0, <2>3, <3>1, <3>4, <3>5 DEF ToolResult, spawnRegistry, JobState, InProgress
    <3> QED BY <2>0, <2>3, <3>2, <3>3, <3>6, <3>7, OneJob DEF ToolResult, spawnRegistry
  <2>4. CASE LoopGuardStops(j)
    <3> DEFINE r == [job[j] EXCEPT !.at = "cleanup", !.unanswered = 0]
    <3>1. r \in JobRecord /\ job' = [job EXCEPT ![j] = r] /\ Same
      BY <2>0, <2>4 DEF LoopGuardStops, spawnRegistry, JobRecord, InProgress
    <3>2. JobState(j)' /\ LoopState(j)'
      BY <2>0, <2>4 DEF LoopGuardStops, spawnRegistry, JobState, LoopState, InProgress, JobRecord
    <3> QED BY <2>0, <2>4, <3>1, <3>2, OneJob DEF LoopGuardStops, spawnRegistry
  <2>5. CASE MandatoryExit(j)
    <3> DEFINE r == [job[j] EXCEPT !.at = "summary"]
    <3>1. r \in JobRecord /\ job' = [job EXCEPT ![j] = r] /\ Same
      BY <2>0, <2>5 DEF MandatoryExit, MoveTo, spawnRegistry, JobRecord, InProgress
    <3>2. JobState(j)' /\ LoopState(j)'
      BY <2>0, <2>5
      DEF MandatoryExit, MoveTo, spawnRegistry, JobState, LoopState, InProgress, JobRecord
    <3> QED BY <2>0, <2>5, <3>1, <3>2, OneJob DEF MandatoryExit, spawnRegistry
  <2>6. CASE ReturnResult(j)
    <3> DEFINE r == [job[j] EXCEPT !.at = "returned"]
    <3>1. /\ r \in JobRecord /\ job' = [job EXCEPT ![j] = r]
          /\ completions' = [completions EXCEPT ![j] = completions[j] + 1]
          /\ completions[j] + 1 \in Nat
          /\ cancelRequests' = [cancelRequests EXCEPT ![j] = cancelRequests[j]]
      BY <2>0, <2>6 DEF ReturnResult, MoveTo, Announce, spawnRegistry, JobRecord, InProgress
    <3>2. JobState(j)' /\ LoopState(j)'
      BY <2>0, <2>6, <3>1
      DEF ReturnResult, spawnRegistry, JobState, LoopState, InProgress, JobRecord
    <3> QED BY <2>0, <2>6, <3>1, <3>2, OneJob DEF ReturnResult, spawnRegistry
  <2>7. CASE Unwound(j)
    <3> DEFINE r == [job[j] EXCEPT !.at = "returned"]
               count == IF j \in cancelAnnounced THEN completions[j] ELSE completions[j] + 1
    <3>1. /\ r \in JobRecord /\ job' = [job EXCEPT ![j] = r]
          /\ completions' = [completions EXCEPT ![j] = count]
          /\ count \in Nat
          /\ cancelRequests' = [cancelRequests EXCEPT ![j] = cancelRequests[j]]
      BY <2>0, <2>7 DEF Unwound, MoveTo, Announce, spawnRegistry, JobRecord, InProgress
    <3>2. JobState(j)' /\ LoopState(j)'
      BY <2>0, <2>7, <3>1 DEF Unwound, spawnRegistry, JobState, LoopState, InProgress, JobRecord
    <3> QED BY <2>0, <2>7, <3>1, <3>2, OneJob DEF Unwound, spawnRegistry
  <2>8. CASE ForgetRunningJob(j)
    <3>1. job' = [job EXCEPT ![j] = job[j]] /\ Same
      BY <2>0, <2>8 DEF ForgetRunningJob
    <3>2. JobState(j)' /\ LoopState(j)'
      BY <2>0, <2>8 DEF ForgetRunningJob, JobState, LoopState, InProgress
    <3> QED BY <2>0, <2>8, <3>1, <3>2, OneJob DEF ForgetRunningJob
  <2>9. CASE CancelJob(j)
    <3> DEFINE r == [job[j] EXCEPT !.at = "unwinding"]
    <3>1. /\ r \in JobRecord /\ job' = [job EXCEPT ![j] = r]
          /\ completions' = [completions EXCEPT ![j] = completions[j] + 1]
          /\ cancelRequests' = [cancelRequests EXCEPT ![j] = cancelRequests[j] + 1]
          /\ completions[j] + 1 \in Nat /\ cancelRequests[j] + 1 \in Nat
      BY <2>0, <2>9 DEF CancelJob, MoveTo, Announce, JobRecord, InProgress
    <3>2. completions[j] = cancelRequests[j]
      BY <2>0, <2>9 DEF CancelJob, JobState, InProgress
    <3>3. JobState(j)' /\ LoopState(j)'
      BY <2>0, <2>9, <3>1, <3>2 DEF CancelJob, JobState, LoopState, InProgress, JobRecord
    <3> QED BY <2>0, <2>9, <3>1, <3>3, OneJob DEF CancelJob
  <2>10. CASE LoopCancels(j)
    <3> DEFINE r == [job[j] EXCEPT !.at = "unwinding"]
    <3>1. r \in JobRecord /\ job' = [job EXCEPT ![j] = r] /\ Same
      BY <2>0, <2>10 DEF LoopCancels, MoveTo, spawnRegistry, JobRecord, InProgress
    <3>2. JobState(j)' /\ LoopState(j)'
      BY <2>0, <2>10
      DEF LoopCancels, MoveTo, spawnRegistry, JobState, LoopState, InProgress, JobRecord
    <3> QED BY <2>0, <2>10, <3>1, <3>2, OneJob DEF LoopCancels, spawnRegistry
  <2> QED
    BY <1>2, <2>1, <2>2, <2>3, <2>4, <2>5, <2>6, <2>7, <2>8, <2>9, <2>10 DEF SubagentStep
<1> QED BY <1>1, <1>2 DEF SpawnNext

\* It holds in every state.
LEMMA SpawnInvariant == SpawnSpec => []SpawnInv
BY SpawnInvInit, SpawnInvStep, PTL DEF SpawnSpec

\* Every variable stays within its type; a job makes no more iterations than
\* SubAgent.run allows.
THEOREM SpawnTypeCorrect == SpawnSpec => []SpawnTypeOK
BY SpawnInvariant, PTL DEF SpawnInv

\* Every job that has ended was announced, once unless it was cancelled twice.
THEOREM EndingsAnnounced == SpawnSpec => []EndedJobAnnounced
<1>1. SpawnInv => EndedJobAnnounced
  BY DEF SpawnInv, JobState, EndedJobAnnounced
<1> QED BY <1>1, SpawnInvariant, PTL

\* The model is never called with a call that has no result.
THEOREM TranscriptsComplete == SpawnSpec => []CallsAnswered
<1>1. SpawnInv => CallsAnswered
  BY DEF SpawnInv, LoopState, CallsAnswered
<1> QED BY <1>1, SpawnInvariant, PTL

\* What is left of a job: its phase, the iterations of its loop, the calls of the last
\* answer and, while it unwinds, the cancel calls that can still reach it.
PhaseOf(j) == IF job[j].at \in {"think", "tools"} THEN 5
              ELSE IF job[j].at = "cleanup" THEN 4
              ELSE IF job[j].at = "summary" THEN 3
              ELSE IF job[j].at = "unwinding" THEN 2
              ELSE IF j \in runningTasks THEN 1 ELSE 0
UnansweredLeft(j) == IF job[j].at = "think" THEN MaxCalls + 1 ELSE job[j].unanswered
JobLeft(j) == <<PhaseOf(j), <<SubagentIterations - job[j].iteration,
                              <<UnansweredLeft(j), MaxCancels - cancelRequests[j]>>>>>>

\* A job that no step has touched.
JobUntouched(j) == /\ job'[j] = job[j] /\ (j \in runningTasks' <=> j \in runningTasks)
                   /\ cancelRequests'[j] = cancelRequests[j]

\* The cancel calls for a job stay within their bound.
CancelsWithinBound == \A j \in SpawnedJobs : cancelRequests[j] <= MaxCancels

\* A step keeps the cancel calls within their bound.
LEMMA CancelsBounded == SpawnSpec => [](SpawnInv /\ CancelsWithinBound)
<1>1. SpawnInit => CancelsWithinBound
  BY SubagentConstants DEF SubagentConstants, SpawnInit, CancelsWithinBound
<1>2. ASSUME SpawnInv, CancelsWithinBound, [SpawnNext]_spawnVars PROVE CancelsWithinBound'
  <2>0. MaxCancels \in Nat /\ cancelRequests \in [SpawnedJobs -> Nat]
    BY <1>2, SubagentConstants DEF SubagentConstants, SpawnInv, SpawnTypeOK
  <2>1. CASE cancelRequests' = cancelRequests
    BY <1>2, <2>1 DEF CancelsWithinBound
  <2>2. ASSUME NEW j \in SpawnedJobs, CancelJob(j) PROVE CancelsWithinBound'
    <3>1. /\ cancelRequests' = [cancelRequests EXCEPT ![j] = @ + 1]
          /\ cancelRequests[j] < MaxCancels
      BY <2>2 DEF CancelJob
    <3> QED BY <1>2, <2>0, <3>1 DEF CancelsWithinBound
  <2> QED BY <1>2, <2>1, <2>2
          DEF SpawnNext, SpawnJob, SubagentStep, AskTools, ToolResult, LoopGuardStops,
              MandatoryExit, ReturnResult, Unwound, ForgetRunningJob, LoopCancels,
              spawnRegistry, spawnVars
<1> QED BY <1>1, <1>2, SpawnInvariant, PTL DEF SpawnSpec

\* The amounts that make up what is left are numbers.
AmountsOK == \A j \in SpawnedJobs :
    /\ PhaseOf(j) \in Nat /\ SubagentIterations - job[j].iteration \in Nat
    /\ UnansweredLeft(j) \in Nat /\ MaxCancels - cancelRequests[j] \in Nat
LEMMA JobAmounts == SpawnInv /\ CancelsWithinBound => AmountsOK
<1> SUFFICES ASSUME SpawnInv, CancelsWithinBound, NEW j \in SpawnedJobs
             PROVE  /\ PhaseOf(j) \in Nat /\ SubagentIterations - job[j].iteration \in Nat
                    /\ UnansweredLeft(j) \in Nat /\ MaxCancels - cancelRequests[j] \in Nat
  BY DEF AmountsOK
<1>1. /\ job[j].iteration \in 0 .. SubagentIterations /\ job[j].unanswered \in 0 .. MaxCalls
      /\ cancelRequests[j] \in Nat
      /\ SubagentIterations \in Nat /\ MaxCalls \in Nat /\ MaxCancels \in Nat
  BY SubagentConstants DEF SubagentConstants, SpawnInv, SpawnTypeOK
<1>2. cancelRequests[j] <= MaxCancels
  BY DEF CancelsWithinBound
<1> QED BY <1>1, <1>2 DEF PhaseOf, UnansweredLeft

\* What changes when a step moves a job.
LEMMA JobMoves ==
  ASSUME SpawnInv, NEW j \in SpawnedJobs,
         SubagentStep(j) \/ CancelJob(j) \/ LoopCancels(j)
  PROVE  \/ PhaseOf(j)' < PhaseOf(j)
         \/ /\ PhaseOf(j)' = PhaseOf(j) /\ job'[j].iteration = job[j].iteration + 1
            /\ cancelRequests'[j] = cancelRequests[j]
         \/ /\ PhaseOf(j)' = PhaseOf(j) /\ job'[j].iteration = job[j].iteration
            /\ UnansweredLeft(j)' < UnansweredLeft(j)
         \/ /\ PhaseOf(j)' = PhaseOf(j) /\ job'[j].iteration = job[j].iteration
            /\ UnansweredLeft(j)' = UnansweredLeft(j)
            /\ cancelRequests'[j] = cancelRequests[j] + 1
<1> DEFINE Goal ==
    \/ PhaseOf(j)' < PhaseOf(j)
    \/ /\ PhaseOf(j)' = PhaseOf(j) /\ job'[j].iteration = job[j].iteration + 1
       /\ cancelRequests'[j] = cancelRequests[j]
    \/ /\ PhaseOf(j)' = PhaseOf(j) /\ job'[j].iteration = job[j].iteration
       /\ UnansweredLeft(j)' < UnansweredLeft(j)
    \/ /\ PhaseOf(j)' = PhaseOf(j) /\ job'[j].iteration = job[j].iteration
       /\ UnansweredLeft(j)' = UnansweredLeft(j)
       /\ cancelRequests'[j] = cancelRequests[j] + 1
<1> SUFFICES Goal
  OBVIOUS
<1>0. /\ job[j] \in JobRecord /\ job \in [SpawnedJobs -> JobRecord]
      /\ cancelRequests \in [SpawnedJobs -> Nat]
      /\ JobState(j) /\ LoopState(j)
      /\ SubagentIterations \in Nat /\ MaxCalls \in Nat
      /\ job[j].iteration \in 0 .. SubagentIterations
      /\ job[j].unanswered \in 0 .. MaxCalls
  BY SubagentConstants DEF SubagentConstants, SpawnInv, SpawnTypeOK, JobRecord
<1> DEFINE Moved(at) == /\ job'[j].at = at /\ job'[j].iteration = job[j].iteration
                        /\ job'[j].unanswered = job[j].unanswered
<1>1. ASSUME NEW n \in 1 .. MaxCalls, AskTools(j, n)
      PROVE  /\ PhaseOf(j)' = PhaseOf(j) /\ job'[j].iteration = job[j].iteration
             /\ UnansweredLeft(j)' < UnansweredLeft(j)
  <2>1. /\ job[j].at = "think" /\ job'[j].at = "tools" /\ job'[j].unanswered = n
        /\ job'[j].iteration = job[j].iteration
    BY <1>0, <1>1 DEF AskTools, JobRecord
  <2> QED BY <1>0, <2>1 DEF PhaseOf, UnansweredLeft
<1>2. CASE ToolResult(j)
  <2> DEFINE left == job[j].unanswered - 1
             round == job[j].iteration + 1
             at == IF left > 0 THEN "tools"
                   ELSE IF round < SubagentIterations THEN "think" ELSE "cleanup"
             iteration == IF left = 0 THEN round ELSE job[j].iteration
             r == [job[j] EXCEPT !.unanswered = left, !.iteration = iteration, !.at = at]
  <2>1. job[j].at = "tools" /\ left \in Nat /\ job'[j] = r
    BY <1>0, <1>2 DEF ToolResult, LoopState
  <2>2. r.unanswered = left /\ r.at = at /\ r.iteration = iteration
    BY <1>0 DEF JobRecord
  <2>3. cancelRequests'[j] = cancelRequests[j]
    BY <1>2 DEF ToolResult, spawnRegistry
  <2>4. PhaseOf(j) = 5 /\ UnansweredLeft(j) = job[j].unanswered
    BY <2>1 DEF PhaseOf, UnansweredLeft
  <2>5. CASE left > 0
    BY <1>0, <2>1, <2>2, <2>4, <2>5 DEF PhaseOf, UnansweredLeft
  <2>6. CASE left = 0 /\ round < SubagentIterations
    BY <1>0, <2>1, <2>2, <2>3, <2>4, <2>6 DEF PhaseOf
  <2>7. CASE left = 0 /\ ~(round < SubagentIterations)
    <3>1. job'[j].at = "cleanup"
      BY <2>1, <2>2, <2>7
    <3> QED BY <2>4, <3>1 DEF PhaseOf
  <2> HIDE DEF Goal, r, left, round
  <2>8. left \in Nat /\ (left = 0 \/ left > 0)
    BY <2>1
  <2> QED BY <2>5, <2>6, <2>7, <2>8
<1>3. CASE LoopGuardStops(j) \/ MandatoryExit(j)
  <2>1. \/ job[j].at = "tools" /\ job'[j].at = "cleanup"
        \/ job[j].at = "cleanup" /\ job'[j].at = "summary"
    BY <1>0, <1>3 DEF LoopGuardStops, MandatoryExit, MoveTo, JobRecord
  <2> QED BY <2>1 DEF PhaseOf
<1>4. CASE ReturnResult(j) \/ Unwound(j)
  <2>1. job[j].at \in {"think", "summary", "unwinding"} /\ job'[j].at = "returned"
    BY <1>0, <1>4 DEF ReturnResult, Unwound, MoveTo, JobRecord
  <2> QED BY <2>1 DEF PhaseOf
<1>5. CASE ForgetRunningJob(j)
  <2>1. /\ job[j].at = "returned" /\ job'[j].at = "returned"
        /\ j \in runningTasks /\ j \notin runningTasks'
    BY <1>5 DEF ForgetRunningJob
  <2> QED BY <2>1 DEF PhaseOf
<1>6. CASE LoopCancels(j) \/ (CancelJob(j) /\ job[j].at \in InProgress)
  <2>1. job[j].at \in InProgress /\ job'[j].at = "unwinding"
    BY <1>0, <1>6 DEF LoopCancels, CancelJob, MoveTo, JobRecord
  <2> QED BY <2>1 DEF PhaseOf, InProgress
<1>7. CASE CancelJob(j) /\ job[j].at = "unwinding"
  <2>1. /\ job[j].at = "unwinding" /\ Moved("unwinding")
    BY <1>0, <1>7 DEF CancelJob, MoveTo, JobRecord
  <2>2. cancelRequests'[j] = cancelRequests[j] + 1
    BY <1>0, <1>7 DEF CancelJob
  <2> QED BY <2>1, <2>2 DEF PhaseOf, UnansweredLeft
<1>8. CancelJob(j) => job[j].at \in InProgress \/ job[j].at = "unwinding"
  BY DEF CancelJob
<1>9. (\E n \in 1 .. MaxCalls : AskTools(j, n)) => Goal
  BY <1>1
<1> HIDE DEF Goal
<1> QED BY <1>2, <1>3, <1>4, <1>5, <1>6, <1>7, <1>8, <1>9 DEF SubagentStep

\* Every step leaves a job that has begun untouched or leaves less of it, and what is
\* left of it cannot become less for ever: neither its loop of model and tool calls nor
\* a row of cancel calls keeps a job, and its slot, for good (JobsEnd; subagent.py:168 the
\* loop, subagent_manager.py:226 cancel).
THEOREM JobsAreFinite ==
  /\ IsWellFoundedOn(LessLeft, Amounts)
  /\ SpawnSpec =>
       [][\A j \in SpawnedJobs : job[j].at # "none" =>
            JobUntouched(j) \/ <<JobLeft(j)', JobLeft(j)>> \in LessLeft]_spawnVars
<1>1. ASSUME SpawnInv, AmountsOK, SpawnInv', AmountsOK',
             NEW j \in SpawnedJobs, SubagentStep(j) \/ CancelJob(j) \/ LoopCancels(j)
      PROVE  <<JobLeft(j)', JobLeft(j)>> \in LessLeft
  <2> DEFINE a == PhaseOf(j)'
             b == SubagentIterations - job'[j].iteration
             c == UnansweredLeft(j)'
             d == MaxCancels - cancelRequests'[j]
             e == PhaseOf(j)
             f == SubagentIterations - job[j].iteration
             g == UnansweredLeft(j)
             h == MaxCancels - cancelRequests[j]
  <2>1. /\ a \in Nat /\ b \in Nat /\ c \in Nat /\ d \in Nat
        /\ e \in Nat /\ f \in Nat /\ g \in Nat /\ h \in Nat
    BY <1>1 DEF AmountsOK
  <2>2. /\ job[j].iteration \in Int /\ job'[j].iteration \in Int
        /\ cancelRequests[j] \in Int /\ cancelRequests'[j] \in Int
        /\ SubagentIterations \in Int /\ MaxCancels \in Int
    BY <1>1, SubagentConstants DEF SubagentConstants, SpawnInv, SpawnTypeOK
  <2>3. Less(a, b, c, d, e, f, g, h)
    BY <1>1, <2>1, <2>2, JobMoves DEF Less
  <2> HIDE DEF a, b, c, d, e, f, g, h
  <2>4. <<<<a, <<b, <<c, d>>>>>>, <<e, <<f, <<g, h>>>>>>>> \in LessLeft
    BY <2>1, <2>3, Descends, Zenon
  <2> QED BY <2>4 DEF JobLeft, a, b, c, d, e, f, g, h
<1>2. ASSUME SpawnInv, NEW i \in SpawnedJobs, NEW j \in SpawnedJobs, i # j,
             SpawnJob(i) \/ SubagentStep(i) \/ CancelJob(i) \/ LoopCancels(i)
      PROVE  JobUntouched(j)
  <2>1. job'[j] = job[j]
    BY <1>2 DEF SpawnJob, SubagentStep, AskTools, ToolResult, LoopGuardStops, MandatoryExit,
                ReturnResult, Unwound, ForgetRunningJob, CancelJob, LoopCancels, MoveTo,
                SpawnInv, SpawnTypeOK
  <2>2. j \in runningTasks' <=> j \in runningTasks
    BY <1>2 DEF SpawnJob, SubagentStep, AskTools, ToolResult, LoopGuardStops, MandatoryExit,
                ReturnResult, Unwound, ForgetRunningJob, CancelJob, LoopCancels,
                spawnRegistry
  <2>3. cancelRequests'[j] = cancelRequests[j]
    BY <1>2 DEF SpawnJob, SubagentStep, AskTools, ToolResult, LoopGuardStops, MandatoryExit,
                ReturnResult, Unwound, ForgetRunningJob, CancelJob, LoopCancels,
                spawnRegistry, SpawnInv, SpawnTypeOK
  <2> QED BY <2>1, <2>2, <2>3 DEF JobUntouched
<1>3. ASSUME SpawnInv, AmountsOK, SpawnInv', AmountsOK',
             SpawnNext, NEW j \in SpawnedJobs, job[j].at # "none"
      PROVE  JobUntouched(j) \/ <<JobLeft(j)', JobLeft(j)>> \in LessLeft
  <2>1. PICK i \in SpawnedJobs :
          SpawnJob(i) \/ SubagentStep(i) \/ CancelJob(i) \/ LoopCancels(i)
    BY <1>3 DEF SpawnNext
  <2>2. CASE i # j
    BY <1>2, <1>3, <2>1, <2>2
  <2>3. CASE i = j
    <3>1. ~SpawnJob(j)
      BY <1>3 DEF SpawnJob
    <3>2. SubagentStep(j) \/ CancelJob(j) \/ LoopCancels(j)
      BY <2>1, <2>3, <3>1
    <3> QED BY <1>1, <1>3, <3>2
  <2> QED BY <2>2, <2>3
<1>4. /\ SpawnInv /\ AmountsOK /\ (SpawnInv /\ AmountsOK)'
      /\ [SpawnNext]_spawnVars
      => [\A j \in SpawnedJobs : job[j].at # "none" =>
            JobUntouched(j) \/ <<JobLeft(j)', JobLeft(j)>> \in LessLeft]_spawnVars
  BY <1>3
<1>5. SpawnSpec =>
       [][\A j \in SpawnedJobs : job[j].at # "none" =>
            JobUntouched(j) \/ <<JobLeft(j)', JobLeft(j)>> \in LessLeft]_spawnVars
  BY <1>4, CancelsBounded, JobAmounts, PTL DEF SpawnSpec
<1> QED BY <1>5, LessLeftWellFounded

-----------------------------------------------------------------------------
(* A peer agent and the tasks delegated to it                                *)

\* Who is between taking the lock and giving it back holds it; what a failed check
\* passed over is noted until something is launched, and what was launched is the
\* entry until the start is over.
LockHeld ==
    /\ \A d \in Delegations : call[d].at \in {"health", "spawning", "starting"} => lock = d
    /\ poller.at \in {"killing", "closingKill"} => lock = Poller
\* Whoever launches has seen every process that lives, or passed it over.
LaunchKnown ==
    /\ \A d \in Delegations : /\ call[d].at = "spawning" => Alive \subseteq passedOver
                              /\ call[d].at = "starting" => /\ procs = call[d].launched
                                                         /\ procs \in Launches
    /\ AgentIsTerminable
\* A task is announced once: until then it is registered or still in its call.
AnnouncedOnce ==
    \A d \in Delegations :
        /\ d \in pending \cup poller.left => call[d].at = "over" /\ notices[d] = 0
        /\ notices[d] = 1 => call[d].at = "over"

\* The inductive invariant of the peer agent.
PeerInv == PeerTypeOK /\ LockHeld /\ LaunchKnown /\ AnnouncedOnce

\* What a process, a call and the poller can be at, and a call's record.
AgentStates == {"none", "starting", "serving", "exited"}
CallStates == InCall \cup {"none", "over"}
PollerStates == {"asleep", "round", "ending", "killing", "closing", "closingKill", "closed"}
PeerCall == [at : CallStates, launched : Launches \cup {NoLaunch}]

\* The holders of the lock differ, and from nobody.
LEMMA LockNames == /\ Poller # Unlocked /\ \A d \in Delegations : d # Poller /\ d # Unlocked
                   /\ NoLaunch \notin Launches
BY NamesDiffer DEF NamesDiffer, Poller, Unlocked, NoLaunch, Launches

\* Nothing is launched at the start.
LEMMA PeerInvInit == PeerInit => PeerInv
<1> SUFFICES ASSUME PeerInit PROVE PeerInv
  OBVIOUS
<1>1. /\ call \in [Delegations -> PeerCall] /\ silences \in 0 .. MaxSilences
      /\ notices \in [Delegations -> 0 .. 1]
  BY PeerConstants DEF PeerConstants, PeerInit, PeerCall, CallStates, NoLaunch
<1>2. Alive = {}
  BY DEF PeerInit, Alive
<1>3. PeerTypeOK
  BY <1>1 DEF PeerInit, PeerTypeOK, PeerCall, CallStates
<1>4. LockHeld /\ LaunchKnown /\ AnnouncedOnce
  BY <1>2 DEF PeerInit, LockHeld, LaunchKnown, AgentIsTerminable, AnnouncedOnce
<1> QED BY <1>3, <1>4 DEF PeerInv

\* A delegation's record after a step of it, and the others'.
LEMMA CallTable ==
  ASSUME PeerInv, NEW d \in Delegations, NEW r \in PeerCall, call' = [call EXCEPT ![d] = r]
  PROVE  /\ call' \in [Delegations -> PeerCall] /\ call'[d] = r
         /\ \A e \in Delegations \ {d} : call'[e] = call[e]
BY DEF PeerInv, PeerTypeOK, PeerCall, CallStates

\* A call goes from one phase to another.
LEMMA CallPhase ==
  ASSUME PeerInv, NEW d \in Delegations, NEW at \in CallStates, To(d, at)
  PROVE  /\ call' \in [Delegations -> PeerCall] /\ call'[d].at = at
         /\ call'[d].launched = call[d].launched
         /\ \A e \in Delegations \ {d} : call'[e] = call[e]
BY DEF PeerInv, PeerTypeOK, PeerCall, CallStates, To

\* A call takes the lock, passes a check, fails, or is cancelled: no process is
\* started or told anything.
LEMMA CallGoesOn ==
  ASSUME PeerInv, NEW d \in Delegations, NEW at \in CallStates, To(d, at),
         call[d].at \in InCall \cup {"none"}, at # "starting",
         at \in {"health", "spawning"} => lock' = d,
         lock' \in {lock, d, Unlocked},
         lock' = d => lock \in {d, Unlocked},
         lock' = Unlocked => lock \in {d, Unlocked},
         at = "spawning" => Alive \subseteq passedOver',
         passedOver \subseteq passedOver', passedOver' \subseteq Launches,
         silences' \in 0 .. MaxSilences,
         work' \in [Delegations -> {"none", "working", "completed", "failed", "gone"}],
         pending' = pending \/ (pending' = pending \cup {d} /\ at = "over"),
         UNCHANGED <<agent, told, procs, late, notices, poller>>
  PROVE  PeerInv'
<1>0. /\ call' \in [Delegations -> PeerCall] /\ call'[d].at = at
      /\ \A e \in Delegations \ {d} : call'[e] = call[e]
      /\ Alive' = Alive
  BY CallPhase DEF Alive
<1>1. PeerTypeOK'
  BY <1>0 DEF PeerInv, PeerTypeOK, PeerCall, CallStates
<1>2. LockHeld'
  <2>1. ASSUME NEW e \in Delegations, e # d, call'[e].at \in {"health", "spawning", "starting"}
        PROVE  lock' = e
    BY <1>0, <2>1, LockNames DEF PeerInv, LockHeld
  <2>2. poller.at \in {"killing", "closingKill"} => lock' = Poller
    BY LockNames DEF PeerInv, LockHeld
  <2> QED BY <1>0, <2>1, <2>2 DEF LockHeld
<1>3. LaunchKnown'
  BY <1>0 DEF PeerInv, LaunchKnown, AgentIsTerminable
<1>4. AnnouncedOnce'
  <2>1. call[d].at # "over" => notices[d] = 0 /\ d \notin pending /\ d \notin poller.left
    BY DEF PeerInv, AnnouncedOnce, PeerTypeOK
  <2>2. call[d].at # "over"
    BY DEF InCall
  <2> QED BY <1>0, <2>1, <2>2 DEF PeerInv, AnnouncedOnce
<1> QED BY <1>1, <1>2, <1>3, <1>4 DEF PeerInv

\* A new process: no other is alive that could be stopped through the entry only.
LEMMA ProcessLaunched ==
  ASSUME PeerInv, NEW d \in Delegations, Spawn(d) PROVE PeerInv'
<1>0. PICK p \in Launches :
        /\ agent[p] = "none" /\ agent' = [agent EXCEPT ![p] = "starting"]
        /\ procs' = p /\ call' = [call EXCEPT ![d] = [at |-> "starting", launched |-> p]]
  BY DEF Spawn
<1>1. /\ call[d].at = "spawning"
      /\ UNCHANGED <<told, lock, work, pending, late, notices, poller, passedOver, silences>>
  BY DEF Spawn, taskVars, checkVars
<1> DEFINE r == [at |-> "starting", launched |-> p]
<1>2. r \in PeerCall /\ r.at = "starting" /\ r.launched = p
  BY DEF PeerCall, CallStates, InCall
<1> HIDE DEF r
<1>3. /\ call' \in [Delegations -> PeerCall] /\ call'[d] = r
      /\ \A e \in Delegations \ {d} : call'[e] = call[e]
  BY <1>0, <1>2, CallTable DEF r
<1>4. /\ agent' \in [Launches -> AgentStates]
      /\ \A q \in Launches \ {p} : agent'[q] = agent[q]
  BY <1>0 DEF PeerInv, PeerTypeOK, AgentStates
<1>5. PeerTypeOK'
  BY <1>0, <1>1, <1>3, <1>4 DEF PeerInv, PeerTypeOK, PeerCall, CallStates, AgentStates
<1>6. LockHeld'
  BY <1>1, <1>2, <1>3 DEF PeerInv, LockHeld
<1>7. \A e \in Delegations \ {d} : call[e].at \notin {"health", "spawning", "starting"}
  BY <1>1 DEF PeerInv, LockHeld
<1>8. Alive' \subseteq Alive \cup {p} /\ Alive \subseteq passedOver
  BY <1>1, <1>4 DEF Alive, PeerInv, LaunchKnown
<1>9. LaunchKnown'
  BY <1>0, <1>1, <1>2, <1>3, <1>7, <1>8 DEF LaunchKnown, AgentIsTerminable
<1>10. AnnouncedOnce'
  BY <1>1, <1>3 DEF PeerInv, AnnouncedOnce, PeerTypeOK
<1> QED BY <1>5, <1>6, <1>9, <1>10 DEF PeerInv

\* A start that takes too long: the process is told, then the entry forgotten.
LEMMA StartGivenUp ==
  ASSUME PeerInv, NEW d \in Delegations, StartTimesOut(d) PROVE PeerInv'
<1>1. /\ call[d].at = "starting" /\ told' = told \cup {call[d].launched} /\ procs' = NoLaunch
      /\ lock' = Unlocked /\ To(d, "over")
      /\ UNCHANGED <<agent, work, pending, late, notices, poller, passedOver, silences>>
  BY DEF StartTimesOut, Release, taskVars, checkVars
<1>2. "over" \in CallStates
  BY DEF CallStates
<1>3. /\ call' \in [Delegations -> PeerCall] /\ call'[d].at = "over"
      /\ \A e \in Delegations \ {d} : call'[e] = call[e]
      /\ Alive' = Alive
  BY <1>1, <1>2, CallPhase DEF Alive
<1>4. /\ lock = d /\ procs = call[d].launched
      /\ \A e \in Delegations \ {d} : call[e].at \notin {"health", "spawning", "starting"}
      /\ poller.at \notin {"killing", "closingKill"}
  BY <1>1, LockNames DEF PeerInv, LockHeld, LaunchKnown
<1>6. PeerTypeOK'
  <2>1. told' \subseteq Launches
    BY <1>1, <1>4 DEF PeerInv, PeerTypeOK, LaunchKnown
  <2> QED BY <1>1, <1>3, <2>1 DEF PeerInv, PeerTypeOK, PeerCall, CallStates
<1>7. LockHeld'
  BY <1>1, <1>3, <1>4 DEF LockHeld
<1>8. LaunchKnown'
  BY <1>1, <1>3, <1>4 DEF PeerInv, LaunchKnown, AgentIsTerminable
<1>9. AnnouncedOnce'
  BY <1>1, <1>3 DEF PeerInv, AnnouncedOnce, PeerTypeOK
<1> QED BY <1>6, <1>7, <1>8, <1>9 DEF PeerInv

\* The agent comes up or exits, or works: nothing comes alive that was not.
LEMMA AgentGoesOn ==
  ASSUME PeerInv, agent' \in [Launches -> AgentStates], Alive' \subseteq Alive,
         work' \in [Delegations -> {"none", "working", "completed", "failed", "gone"}],
         UNCHANGED <<told, procs, lock, call, pending, notices, poller, passedOver, silences>>,
         late' \subseteq pending
  PROVE  PeerInv'
<1>1. PeerTypeOK'
  BY DEF PeerInv, PeerTypeOK, AgentStates
<1>2. LockHeld' /\ LaunchKnown' /\ AnnouncedOnce'
  BY DEF PeerInv, LockHeld, LaunchKnown, AgentIsTerminable, AnnouncedOnce
<1> QED BY <1>1, <1>2 DEF PeerInv

\* What the end of a process leaves of the work is work.
LEMMA WorkStates ==
  ASSUME PeerInv, NEW p \in Launches
  PROVE  WorkAfter(p) \in [Delegations -> {"none", "working", "completed", "failed", "gone"}]
BY DEF PeerInv, PeerTypeOK, WorkAfter

\* The poller looks at a task, or goes back to sleep.
LEMMA PollerGoesOn ==
  ASSUME PeerInv, NEW at \in PollerStates, NEW left \in SUBSET Delegations,
         poller' = [poller EXCEPT !.at = at, !.left = left],
         at \notin {"killing", "closingKill"},
         left \subseteq poller.left \cup pending,
         \/ UNCHANGED <<pending, late, notices>>
         \/ \E d \in poller.left :
               /\ pending' = pending \ {d} /\ late' = late \ {d} /\ d \notin left
               /\ notices' = [notices EXCEPT ![d] = @ + 1],
         UNCHANGED <<agent, told, procs, lock, call, work, passedOver, silences>>
  PROVE  PeerInv'
<1>1. /\ poller'.at = at /\ poller'.left = left /\ poller'.victim = poller.victim
      /\ poller' \in [at : PollerStates, left : SUBSET Delegations,
                      victim : Launches \cup {NoLaunch}]
  BY DEF PeerInv, PeerTypeOK, PollerStates
<1>2. LockHeld' /\ LaunchKnown'
  BY <1>1 DEF PeerInv, LockHeld, LaunchKnown, AgentIsTerminable, Alive
<1>3. CASE UNCHANGED <<pending, late, notices>>
  <2>1. PeerTypeOK'
    BY <1>1, <1>3 DEF PeerInv, PeerTypeOK, PollerStates
  <2>2. AnnouncedOnce'
    BY <1>1, <1>3 DEF PeerInv, AnnouncedOnce
  <2> QED BY <1>2, <2>1, <2>2 DEF PeerInv
<1>4. ASSUME NEW d \in poller.left, pending' = pending \ {d}, late' = late \ {d}, d \notin left,
             notices' = [notices EXCEPT ![d] = @ + 1]
      PROVE  PeerInv'
  <2>1. /\ d \in Delegations /\ notices[d] = 0 /\ call[d].at = "over"
        /\ notices \in [Delegations -> 0 .. 1]
    BY DEF PeerInv, PeerTypeOK, AnnouncedOnce
  <2>2. /\ notices' \in [Delegations -> 0 .. 1] /\ notices'[d] = 1
        /\ \A e \in Delegations \ {d} : notices'[e] = notices[e]
    BY <1>4, <2>1
  <2>3. PeerTypeOK'
    BY <1>1, <1>4, <2>2 DEF PeerInv, PeerTypeOK, PollerStates
  <2>4. AnnouncedOnce'
    BY <1>1, <1>4, <2>1, <2>2 DEF PeerInv, AnnouncedOnce
  <2> QED BY <1>2, <2>3, <2>4 DEF PeerInv
<1> QED BY <1>3, <1>4

\* terminate tells the process of the entry before it forgets it.
LEMMA AgentTold ==
  ASSUME PeerInv, NEW killing \in {"killing", "closingKill"}, NEW next \in {"round", "closed"},
         Terminate(killing, next)
  PROVE  PeerInv'
<1>1. /\ lock = Unlocked /\ procs' = NoLaunch
      /\ UNCHANGED <<agent, call, work, pending, late, notices, passedOver, silences>>
  BY DEF Terminate, taskVars, checkVars
<1>2. Alive' = Alive /\ Alive \subseteq Launches
  BY <1>1 DEF Alive
<1>3. \A d \in Delegations : call[d].at \notin {"health", "spawning", "starting"}
  BY <1>1, LockNames DEF PeerInv, LockHeld
<1>4. CASE procs \in Alive
  <2>1. /\ lock' = Poller /\ told' = told \cup {procs}
        /\ poller' = [poller EXCEPT !.at = killing, !.victim = procs]
    BY <1>4 DEF Terminate
  <2>2. /\ poller'.at = killing /\ poller'.left = poller.left
        /\ poller' \in [at : PollerStates, left : SUBSET Delegations,
                        victim : Launches \cup {NoLaunch}]
    BY <2>1, <1>2, <1>4 DEF PeerInv, PeerTypeOK, PollerStates
  <2>3. PeerTypeOK'
    BY <1>1, <1>2, <1>4, <2>1, <2>2 DEF PeerInv, PeerTypeOK, PollerStates
  <2>4. LockHeld' /\ LaunchKnown'
    BY <1>1, <1>2, <1>3, <2>1 DEF PeerInv, LockHeld, LaunchKnown, AgentIsTerminable
  <2>5. AnnouncedOnce'
    BY <1>1, <2>2 DEF PeerInv, AnnouncedOnce
  <2> QED BY <2>3, <2>4, <2>5 DEF PeerInv
<1>5. CASE procs \notin Alive
  <2>1. /\ UNCHANGED <<lock, told>> /\ poller' = [poller EXCEPT !.at = next]
    BY <1>5 DEF Terminate
  <2>2. /\ poller'.at = next /\ poller'.left = poller.left
        /\ poller' \in [at : PollerStates, left : SUBSET Delegations,
                        victim : Launches \cup {NoLaunch}]
    BY <2>1 DEF PeerInv, PeerTypeOK, PollerStates
  <2>3. PeerTypeOK'
    BY <1>1, <2>1, <2>2 DEF PeerInv, PeerTypeOK, PollerStates
  <2>4. LockHeld' /\ LaunchKnown'
    BY <1>1, <1>2, <1>3, <1>5, <2>1, <2>2 DEF PeerInv, LockHeld, LaunchKnown, AgentIsTerminable
  <2>5. AnnouncedOnce'
    BY <1>1, <2>2 DEF PeerInv, AnnouncedOnce
  <2> QED BY <2>3, <2>4, <2>5 DEF PeerInv
<1> QED BY <1>4, <1>5

\* The poller has terminated the process of the entry.
LEMMA AgentGone ==
  ASSUME PeerInv, poller.at \in {"killing", "closingKill"}, NEW next \in {"round", "closed"},
         AgentKilled(next)
  PROVE  PeerInv'
<1>1. /\ agent' = [agent EXCEPT ![poller.victim] = "exited"]
      /\ work' = IF poller.victim \in Alive THEN WorkAfter(poller.victim) ELSE work
      /\ lock' = Unlocked
      /\ poller' = [poller EXCEPT !.at = next, !.victim = NoLaunch]
      /\ UNCHANGED <<told, procs, call, pending, late, notices, passedOver, silences>>
  BY DEF AgentKilled, Release, taskVars, checkVars
<1>2. /\ agent' \in [Launches -> AgentStates] /\ Alive' \subseteq Alive
      /\ Alive \subseteq Launches
  BY <1>1 DEF PeerInv, PeerTypeOK, AgentStates, Alive
<1>3. work' \in [Delegations -> {"none", "working", "completed", "failed", "gone"}]
  BY <1>1, <1>2, WorkStates DEF PeerInv, PeerTypeOK
<1>4. /\ poller'.at = next /\ poller'.left = poller.left
      /\ poller' \in [at : PollerStates, left : SUBSET Delegations,
                      victim : Launches \cup {NoLaunch}]
  BY <1>1 DEF PeerInv, PeerTypeOK, PollerStates
<1>5. \A d \in Delegations : call[d].at \notin {"health", "spawning", "starting"}
  BY LockNames DEF PeerInv, LockHeld
<1>6. PeerTypeOK'
  BY <1>1, <1>2, <1>3, <1>4 DEF PeerInv, PeerTypeOK, AgentStates, PollerStates
<1>7. LockHeld' /\ LaunchKnown'
  BY <1>1, <1>2, <1>4, <1>5 DEF PeerInv, LockHeld, LaunchKnown, AgentIsTerminable
<1>8. AnnouncedOnce'
  BY <1>1, <1>4 DEF PeerInv, AnnouncedOnce
<1> QED BY <1>6, <1>7, <1>8 DEF PeerInv

\* The shutdown stops the poller,
LEMMA PollerStopped == ASSUME PeerInv, StopPoller PROVE PeerInv'
<1>1. /\ lock' = IF lock = Poller THEN Unlocked ELSE lock
      /\ poller'.at \in {"closed", "closing"} /\ poller'.left = {}
      /\ poller' \in [at : PollerStates, left : SUBSET Delegations,
                      victim : Launches \cup {NoLaunch}]
      /\ UNCHANGED <<agent, told, procs, call, work, pending, late, notices, passedOver, silences>>
  BY DEF StopPoller, agentVars, taskVars, checkVars, PollerStates
<1>2. PeerTypeOK'
  BY <1>1 DEF PeerInv, PeerTypeOK, PollerStates
<1>3. LockHeld' /\ LaunchKnown' /\ AnnouncedOnce'
  BY <1>1, LockNames DEF PeerInv, LockHeld, LaunchKnown, AgentIsTerminable, Alive, AnnouncedOnce
<1> QED BY <1>2, <1>3 DEF PeerInv

\* One step for each action of the tool and the process manager.
LEMMA CallStepKeeps ==
  ASSUME PeerInv, NEW d \in Delegations, Delegate(d) \/ CallStep(d) \/ CancelCall(d)
  PROVE  PeerInv'
<1> USE DEF agentVars, taskVars, checkVars, Release
<1>0. /\ Alive \subseteq Launches /\ silences \in 0 .. MaxSilences
      /\ {"lock", "health", "spawning", "ready", "sent", "over"} \subseteq CallStates
      /\ work \in [Delegations -> {"none", "working", "completed", "failed", "gone"}]
      /\ passedOver \subseteq Launches
      /\ call[d].at \in {"health", "spawning", "starting"} => lock = d
  BY DEF Alive, PeerInv, PeerTypeOK, CallStates, InCall, LockHeld
<1>1. CASE Delegate(d)
  BY <1>0, <1>1, CallGoesOn, LockNames DEF Delegate, InCall
<1>2. CASE AcquireLock(d)
  BY <1>0, <1>2, CallGoesOn, LockNames DEF AcquireLock, InCall
<1>3. CASE Healthy(d)
  BY <1>0, <1>3, CallGoesOn, LockNames DEF Healthy, InCall
<1>4. CASE Unhealthy(d)
  <2>1. silences' \in 0 .. MaxSilences
    BY <1>0, <1>4, PeerConstants DEF PeerConstants, Unhealthy
  <2> QED BY <1>0, <1>4, <2>1, CallGoesOn, LockNames DEF Unhealthy, InCall
<1>5. CASE Spawn(d)
  BY <1>5, ProcessLaunched
<1>6. CASE StartFails(d)
  BY <1>0, <1>6, CallGoesOn, LockNames DEF StartFails, StartIsDoomed, InCall
<1>7. CASE StartTimesOut(d)
  BY <1>7, StartGivenUp
<1>8. CASE Submit(d)
  <2>1. work' \in [Delegations -> {"none", "working", "completed", "failed", "gone"}]
    BY <1>0, <1>8 DEF Submit
  <2> QED BY <1>0, <1>8, <2>1, CallGoesOn, LockNames DEF Submit, InCall
<1>9. CASE SubmitFails(d)
  BY <1>0, <1>9, CallGoesOn, LockNames DEF SubmitFails, InCall
<1>10. CASE Register(d)
  BY <1>0, <1>10, CallGoesOn, LockNames DEF Register, InCall
<1>11. CASE CancelCall(d)
  BY <1>0, <1>11, CallGoesOn, LockNames DEF CancelCall, InCall
<1> QED BY <1>1, <1>2, <1>3, <1>4, <1>5, <1>6, <1>7, <1>8, <1>9, <1>10, <1>11 DEF CallStep

\* and every step of the poller keeps the invariant.
LEMMA PollerStepKeeps == ASSUME PeerInv, PollerStep PROVE PeerInv'
<1> USE DEF agentVars, taskVars, checkVars
<1>0. /\ {"asleep", "round", "ending"} \subseteq PollerStates
      /\ pending \subseteq Delegations /\ poller.left \subseteq Delegations
      /\ poller = [at |-> poller.at, left |-> poller.left, victim |-> poller.victim]
  BY DEF PollerStates, PeerInv, PeerTypeOK
<1>1. CASE Wake
  BY <1>0, <1>1, PollerGoesOn DEF Wake
<1>2. CASE RoundEnds
  <2>1. poller' = [poller EXCEPT !.at = "asleep", !.left = poller.left]
    BY <1>0, <1>2 DEF RoundEnds
  <2> QED BY <1>0, <1>2, <2>1, PollerGoesOn DEF RoundEnds
<1>3. CASE TerminateAgent
  BY <1>3, AgentTold DEF TerminateAgent
<1>4. CASE KillAgent
  BY <1>4, AgentGone DEF KillAgent
<1>5. ASSUME NEW d \in Delegations, ConcludeDue(d) PROVE PeerInv'
  <2>1. /\ poller' = [poller EXCEPT !.at = "ending", !.left = poller.left \ {d}]
        /\ d \in poller.left
        /\ pending' = pending \ {d} /\ late' = late \ {d}
        /\ notices' = [notices EXCEPT ![d] = @ + 1]
        /\ UNCHANGED <<agent, told, procs, lock, call, work, passedOver, silences>>
    BY <1>5 DEF ConcludeDue, Conclude
  <2> QED BY <1>0, <2>1, PollerGoesOn
<1>6. ASSUME NEW d \in Delegations, KeepPending(d) PROVE PeerInv'
  <2>1. poller' = [poller EXCEPT !.at = "round", !.left = poller.left \ {d}]
    BY <1>0, <1>6 DEF KeepPending
  <2>2. poller.left \ {d} \in SUBSET Delegations /\ "round" \in PollerStates
    BY <1>0
  <2>3. UNCHANGED <<agent, told, procs, lock, call, work, pending, late, notices, passedOver,
                    silences>>
    BY <1>6 DEF KeepPending
  <2> HIDE DEF agentVars, taskVars, checkVars
  <2> QED BY <2>1, <2>2, <2>3, PollerGoesOn
<1> QED BY <1>1, <1>2, <1>3, <1>4, <1>5, <1>6 DEF PollerStep

\* So does every other step.
LEMMA PeerInvStep == PeerInv /\ [PeerNext]_peerVars => PeerInv'
<1> SUFFICES ASSUME PeerInv, [PeerNext]_peerVars PROVE PeerInv'
  OBVIOUS
<1> USE DEF agentVars, taskVars, checkVars
<1>0. /\ agent \in [Launches -> AgentStates] /\ late \subseteq pending
      /\ work \in [Delegations -> {"none", "working", "completed", "failed", "gone"}]
  BY DEF PeerInv, PeerTypeOK, AgentStates
<1>1. CASE UNCHANGED peerVars
  BY <1>1 DEF peerVars, PeerInv, PeerTypeOK, LockHeld, LaunchKnown, AgentIsTerminable, Alive,
     AnnouncedOnce
<1>2. ASSUME NEW d \in Delegations, EndWork(d) \/ GrowLate(d) PROVE PeerInv'
  <2>1. /\ work' \in [Delegations -> {"none", "working", "completed", "failed", "gone"}]
        /\ late' \subseteq pending
        /\ UNCHANGED <<agent, told, procs, lock, call, pending, notices, poller, passedOver, silences>>
    BY <1>0, <1>2 DEF EndWork, GrowLate
  <2>2. Alive' = Alive
    BY <2>1 DEF Alive
  <2> QED BY <1>0, <2>1, <2>2, AgentGoesOn
<1>3. ASSUME NEW p \in Launches, ComeUp(p) \/ AgentExits(p) PROVE PeerInv'
  <2>1. agent' \in [Launches -> AgentStates] /\ Alive' \subseteq Alive
    BY <1>0, <1>3 DEF ComeUp, AgentExits, AgentStates, Alive
  <2>2. work' \in [Delegations -> {"none", "working", "completed", "failed", "gone"}]
    BY <1>0, <1>3, WorkStates DEF ComeUp, AgentExits
  <2>3. UNCHANGED <<told, procs, lock, call, pending, late, notices, poller, passedOver, silences>>
    BY <1>3 DEF ComeUp, AgentExits
  <2> QED BY <1>0, <2>1, <2>2, <2>3, AgentGoesOn
<1>4. CASE CloseAgent
  BY <1>4, AgentTold DEF CloseAgent
<1>5. CASE CloseKill
  BY <1>5, AgentGone DEF CloseKill
<1> QED
  BY <1>1, <1>2, <1>3, <1>4, <1>5, CallStepKeeps, PollerStepKeeps, PollerStopped DEF PeerNext

\* It holds in every state.
LEMMA PeerInvariant == PeerSpec => []PeerInv
BY PeerInvInit, PeerInvStep, PTL DEF PeerSpec

\* Every variable stays within its type; a task is announced at most once.
THEOREM PeerTypeCorrect == PeerSpec => []PeerTypeOK
BY PeerInvariant, PTL DEF PeerInv

\* However many calls need the agent at once, are cancelled or time out while it
\* starts, and whenever it is terminated meanwhile: a process of it that runs, was
\* not told to stop and was not passed over by a failed check is the entry.
THEOREM AgentsAreTerminable == PeerSpec => []AgentIsTerminable
<1>1. PeerInv => AgentIsTerminable
  BY DEF PeerInv, LaunchKnown
<1> QED BY <1>1, PeerInvariant, PTL

-----------------------------------------------------------------------------
(* The calls of one MCP server                                               *)

\* A blocked call is the one the stream knows of; calls that read together are
\* noted; the answer of a call that reads alone is still in the stream.
WaiterIsBlocked == \A c \in McpCallers : ask[c].at = "blocked" => waiter = c
CompanyIsNoted == \A c, d \in Reading : c # d => c \in overlapped
AnswerAhead ==
    \A c \in delivered \ (overlapped \cup abandoned \cup misled) :
        \/ ask[c].at = "reading" /\ \E i \in 1 .. Len(stdout) : stdout[i] = Answer(c)
        \/ ask[c] = [at |-> "answered", got |-> "answer"]

\* The inductive invariant of the calls.
CallsInv == /\ CallsTypeOK /\ delivered \subseteq McpCallers
            /\ WaiterIsBlocked /\ CompanyIsNoted /\ AnswerAhead

\* A call's record.
CallRecord == [at : {"none", "reading", "blocked", "answered", "failed"},
               got : {"nothing", "answer", "request"}]

\* What is not a caller.
LEMMA NobodyCalls == Nobody \notin McpCallers
BY McpCallNames DEF McpCallNames

\* Nobody calls at the start.
LEMMA CallsInvInit == CallsInit => CallsInv
<1> SUFFICES ASSUME CallsInit PROVE CallsInv
  OBVIOUS
<1>1. CallsTypeOK
  <2>1. ask \in [McpCallers -> CallRecord]
    BY DEF CallsInit, CallRecord
  <2>2. chatter \in 0 .. MaxChatter
    BY McpCallNames DEF McpCallNames, CallsInit
  <2>3. stdout \in Seq(Line)
    BY DEF CallsInit
  <2> QED BY <2>1, <2>2, <2>3 DEF CallsInit, CallsTypeOK, CallRecord
<1>2. Reading = {}
  BY DEF CallsInit, Reading
<1> QED BY <1>1, <1>2 DEF CallsInit, CallsInv, WaiterIsBlocked, CompanyIsNoted, AnswerAhead

\* A step of one call that reads nothing from the stream.
LEMMA CallMoves ==
  ASSUME CallsInv, NEW c \in McpCallers, NEW r \in CallRecord,
         ask' = [ask EXCEPT ![c] = r],
         c \in delivered => c \in overlapped' \cup abandoned' \cup misled' \/ (ask[c].at # "reading" /\ r = ask[c]),
         r.at \in {"reading", "blocked"} =>
             c \in Reading \/ Reading = {} \/ Reading \cup {c} \subseteq overlapped',
         r.at = "blocked" => waiter' = c,
         ask[c].at = "blocked" \/ waiter = Nobody => waiter' \in {c, Nobody},
         ask[c].at # "blocked" /\ waiter # Nobody => waiter' = waiter,
         waiter' = c => r.at = "blocked",
         overlapped \subseteq overlapped', abandoned \subseteq abandoned',
         misled \subseteq misled',
         requests' \subseteq McpCallers,
         UNCHANGED <<stdout, closed, chatter, delivered>>
  PROVE  CallsInv'
<1>0. /\ ask \in [McpCallers -> CallRecord] /\ ask' \in [McpCallers -> CallRecord]
      /\ ask'[c] = r /\ \A d \in McpCallers \ {c} : ask'[d] = ask[d]
      /\ c # Nobody
  BY NobodyCalls DEF CallsInv, CallsTypeOK, CallRecord
<1>1. \A d \in McpCallers : ask'[d].at = "blocked" => waiter' = d
  <2> SUFFICES ASSUME NEW d \in McpCallers, ask'[d].at = "blocked", d # c PROVE waiter' = d
    BY <1>0
  <2>1. waiter = d /\ d # Nobody
    BY <1>0, NobodyCalls DEF CallsInv, WaiterIsBlocked
  <2>2. ask[c].at # "blocked"
    BY <2>1 DEF CallsInv, WaiterIsBlocked
  <2> QED BY <2>1, <2>2
<1>2. waiter' \in McpCallers \cup {Nobody} /\ (waiter' # Nobody => ask'[waiter'].at = "blocked")
  <2>1. CASE ask[c].at = "blocked" \/ waiter = Nobody
    BY <1>0, <2>1
  <2>2. CASE ask[c].at # "blocked" /\ waiter # Nobody
    BY <1>0, <2>2 DEF CallsInv, CallsTypeOK
  <2> QED BY <2>1, <2>2
<1>3. CallsTypeOK'
  BY <1>0, <1>2 DEF CallsInv, CallsTypeOK, CallRecord
<1>4. Reading' \subseteq Reading \cup {c} /\ (c \in Reading' => r.at \in {"reading", "blocked"})
  BY <1>0 DEF Reading
<1>5. CompanyIsNoted'
  <2> SUFFICES ASSUME NEW d \in Reading', NEW e \in Reading', d # e PROVE d \in overlapped'
    BY DEF CompanyIsNoted
  <2>1. CASE d \in Reading /\ e \in Reading
    BY <2>1 DEF CallsInv, CompanyIsNoted
  <2>2. CASE c \notin Reading /\ (d = c \/ e = c)
    BY <1>4, <2>2
  <2> QED BY <1>4, <2>1, <2>2
<1>6. AnswerAhead'
  <2> SUFFICES ASSUME NEW d \in delivered, d \notin overlapped', d \notin abandoned', d \notin misled'
               PROVE  \/ ask'[d].at = "reading" /\ \E i \in 1 .. Len(stdout) : stdout[i] = Answer(d)
                      \/ ask'[d] = [at |-> "answered", got |-> "answer"]
    BY DEF AnswerAhead
  <2>1. \/ ask[d].at = "reading" /\ \E i \in 1 .. Len(stdout) : stdout[i] = Answer(d)
        \/ ask[d] = [at |-> "answered", got |-> "answer"]
    BY DEF CallsInv, AnswerAhead
  <2>2. d \in McpCallers
    BY DEF CallsInv
  <2>3. ask'[d] = ask[d]
    BY <1>0, <2>2
  <2> QED BY <2>1, <2>3
<1> QED BY <1>1, <1>3, <1>5, <1>6 DEF CallsInv, WaiterIsBlocked

\* Something arrives: the call that waits reads again, the others stay.
LEMMA CallsWoken ==
  ASSUME CallsInv, WakeReader
  PROVE  /\ ask' \in [McpCallers -> CallRecord] /\ waiter' = Nobody
         /\ \A c \in McpCallers :
               /\ ask'[c].at # "blocked"
               /\ ask[c].at \in {"reading", "blocked"} => ask'[c].at = "reading"
               /\ ask[c].at \notin {"reading", "blocked"} => ask'[c] = ask[c]
         /\ Reading' = Reading
<1>1. ask \in [McpCallers -> CallRecord]
  BY DEF CallsInv, CallsTypeOK, CallRecord
<1>2. ASSUME NEW c \in McpCallers
      PROVE  /\ ask'[c] \in CallRecord /\ ask'[c].at # "blocked"
             /\ ask[c].at \in {"reading", "blocked"} => ask'[c].at = "reading"
             /\ ask[c].at \notin {"reading", "blocked"} => ask'[c] = ask[c]
  <2>1. ask[c] \in CallRecord
    BY <1>1
  <2>2. CASE c = waiter
    <3>1. ask'[c] = [ask[c] EXCEPT !.at = "reading"] /\ ask[c].at = "blocked"
      BY <2>2, NobodyCalls DEF WakeReader, CallsInv, CallsTypeOK
    <3> QED BY <2>1, <3>1 DEF CallRecord
  <2>3. CASE c # waiter
    <3>1. ask'[c] = ask[c] /\ ask[c].at # "blocked"
      BY <2>3 DEF WakeReader, CallsInv, WaiterIsBlocked
    <3> QED BY <2>1, <3>1
  <2> QED BY <2>2, <2>3
<1>3. ask' \in [McpCallers -> CallRecord]
  BY <1>2 DEF WakeReader
<1>4. Reading' = Reading
  BY <1>2 DEF Reading
<1> QED BY <1>2, <1>3, <1>4 DEF WakeReader

\* A line is added to the stream, or none.
LEMMA LineArrives ==
  ASSUME CallsInv, WakeReader,
         stdout' = stdout \/ \E l \in Line : stdout' = Append(stdout, l),
         requests' \subseteq McpCallers, closed' \in BOOLEAN, chatter' \in 0 .. MaxChatter,
         UNCHANGED <<overlapped, abandoned, misled>>,
         delivered' \subseteq McpCallers,
         \A c \in delivered' \ delivered : c \in Reading /\ stdout' = Append(stdout, Answer(c))
  PROVE  CallsInv'
<1>0. stdout \in Seq(Line)
  BY DEF CallsInv, CallsTypeOK
<1>1. /\ stdout' \in Seq(Line) /\ Len(stdout) \in Nat
      /\ Len(stdout') \in Nat
      /\ Len(stdout') >= Len(stdout)
      /\ \A i \in 1 .. Len(stdout) : stdout'[i] = stdout[i]
      /\ \A c : stdout' = Append(stdout, Answer(c)) => Len(stdout') >= 1 /\ stdout'[Len(stdout')] = Answer(c)
  BY <1>0
<1>2. CallsTypeOK'
  BY <1>1, CallsWoken DEF CallsTypeOK, CallRecord
<1>3. WaiterIsBlocked' /\ CompanyIsNoted'
  BY CallsWoken DEF CallsInv, WaiterIsBlocked, CompanyIsNoted
<1>4. AnswerAhead'
  <2> SUFFICES ASSUME NEW c \in delivered', c \notin overlapped, c \notin abandoned, c \notin misled
               PROVE  \/ ask'[c].at = "reading" /\ \E i \in 1 .. Len(stdout') : stdout'[i] = Answer(c)
                      \/ ask'[c] = [at |-> "answered", got |-> "answer"]
    BY DEF AnswerAhead
  <2>1. CASE c \in delivered
    <3>1. c \in McpCallers
      BY <2>1 DEF CallsInv
    <3>2. CASE ask[c].at = "reading" /\ \E i \in 1 .. Len(stdout) : stdout[i] = Answer(c)
      BY <1>1, <3>1, <3>2, CallsWoken
    <3>3. CASE ask[c] = [at |-> "answered", got |-> "answer"]
      BY <3>1, <3>3, CallsWoken
    <3> QED BY <2>1, <3>2, <3>3 DEF CallsInv, AnswerAhead
  <2>2. CASE c \notin delivered
    <3>1. c \in Reading /\ stdout' = Append(stdout, Answer(c))
      BY <2>2
    <3>2. c \in McpCallers /\ ask'[c].at = "reading"
      BY <3>1, CallsWoken DEF Reading
    <3> QED BY <1>1, <3>1, <3>2
  <2> QED BY <2>1, <2>2
<1> QED BY <1>2, <1>3, <1>4 DEF CallsInv

\* A call reads a line.  A line another call waits for is taken from it only by a
\* call that reads beside it.
LEMMA LineRead ==
  ASSUME CallsInv, NEW c \in McpCallers, ReadLine(c)
  PROVE  CallsInv'
<1>0. /\ stdout \in Seq(Line) /\ stdout # <<>> /\ stdout' = Tail(stdout)
      /\ ask \in [McpCallers -> CallRecord] /\ ask[c].at = "reading"
      /\ misled' = IF Misleads(Head(stdout), c) THEN misled \cup {c} ELSE misled
      /\ UNCHANGED <<requests, waiter, closed, chatter, delivered, overlapped, abandoned>>
  BY DEF CallsInv, CallsTypeOK, CallRecord, ReadLine
<1>1. /\ Len(stdout) \in Nat /\ Len(stdout) > 0 /\ Len(stdout') = Len(stdout) - 1
      /\ \A i \in 1 .. Len(stdout') : stdout'[i] = stdout[i + 1]
      /\ Head(stdout) = stdout[1] /\ stdout' \in Seq(Line)
  BY <1>0
<1>2. \A d : Answer(d) # Head(stdout) /\ (\E i \in 1 .. Len(stdout) : stdout[i] = Answer(d))
             => \E i \in 1 .. Len(stdout') : stdout'[i] = Answer(d)
  <2> SUFFICES ASSUME NEW d, Answer(d) # stdout[1], NEW i \in 1 .. Len(stdout), stdout[i] = Answer(d)
               PROVE  \E k \in 1 .. Len(stdout') : stdout'[k] = Answer(d)
    BY <1>1
  <2>1. i - 1 \in 1 .. Len(stdout') /\ stdout'[i - 1] = Answer(d)
    BY <1>1
  <2> QED BY <2>1
<1>3. /\ ask' \in [McpCallers -> CallRecord]
      /\ \A d \in McpCallers \ {c} : ask'[d] = ask[d]
      /\ ask'[c].at # "blocked"
      /\ Misleads(Head(stdout), c) \/ ask'[c] = ask[c] \/ ask'[c] = [at |-> "answered", got |-> "answer"]
      /\ Head(stdout) = Answer(c) => ask'[c] = [at |-> "answered", got |-> "answer"]
  <2>1. PICK line \in Line : line = Head(stdout)
    BY <1>0
  <2>2. CASE line.kind = "garbled" /\ Asked(c, "failed")
    <3>1. /\ ask[c] \in CallRecord /\ [ask[c] EXCEPT !.at = "failed"] \in CallRecord
          /\ [ask[c] EXCEPT !.at = "failed"].at = "failed"
      BY <1>0 DEF CallRecord
    <3>2. ask' = [ask EXCEPT ![c] = [ask[c] EXCEPT !.at = "failed"]]
      BY <2>2 DEF Asked
    <3>3. Misleads(Head(stdout), c) /\ Head(stdout) # Answer(c)
      BY <2>1, <2>2 DEF Answer, Misleads
    <3> QED BY <1>0, <3>1, <3>2, <3>3
  <2>3. CASE line.id = c /\ ask' = [ask EXCEPT ![c] = [at |-> "answered", got |-> line.kind]]
    <3>1. line.kind \in {"answer", "request"}
      BY <2>3, NobodyCalls DEF Line
    <3> QED BY <1>0, <2>1, <2>3, <3>1 DEF CallRecord, Answer, Misleads
  <2>4. CASE line.id # c /\ UNCHANGED ask
    BY <1>0, <2>1, <2>4 DEF CallRecord, Answer
  <2> QED BY <2>1, <2>2, <2>3, <2>4 DEF ReadLine
<1>4. Reading' \subseteq Reading /\ c \in Reading
  BY <1>0, <1>3 DEF Reading
<1>5. WaiterIsBlocked' /\ CompanyIsNoted'
  BY <1>0, <1>3, <1>4 DEF CallsInv, WaiterIsBlocked, CompanyIsNoted
<1>6. waiter # c
  BY <1>0, NobodyCalls DEF CallsInv, CallsTypeOK
<1>7. CallsTypeOK'
  BY <1>0, <1>1, <1>3, <1>6 DEF CallsInv, CallsTypeOK, CallRecord
<1>8. AnswerAhead'
  <2> SUFFICES ASSUME NEW d \in delivered, d \notin overlapped, d \notin abandoned, d \notin misled'
               PROVE  \/ ask'[d].at = "reading" /\ \E i \in 1 .. Len(stdout') : stdout'[i] = Answer(d)
                      \/ ask'[d] = [at |-> "answered", got |-> "answer"]
    BY <1>0 DEF AnswerAhead
  <2>1. \/ ask[d].at = "reading" /\ \E i \in 1 .. Len(stdout) : stdout[i] = Answer(d)
        \/ ask[d] = [at |-> "answered", got |-> "answer"]
    BY <1>0 DEF CallsInv, AnswerAhead
  <2>2. d \in McpCallers
    BY DEF CallsInv
  <2>3. CASE d = c
    <3>1. ~Misleads(Head(stdout), c)
      BY <1>0, <2>3
    <3> QED BY <1>0, <1>2, <1>3, <2>1, <2>3, <3>1
  <2>4. CASE d # c
    <3>1. ask'[d] = ask[d]
      BY <1>3, <2>2, <2>4
    <3>2. ask[d].at # "reading"
      BY <1>4, <2>2, <2>4 DEF Reading, CallsInv, CompanyIsNoted
    <3> QED BY <2>1, <3>1, <3>2
  <2> QED BY <2>3, <2>4
<1> QED BY <1>0, <1>5, <1>7, <1>8 DEF CallsInv

\* Every step keeps the invariant.
LEMMA CallsInvStep == CallsInv /\ [CallsNext]_callVars => CallsInv'
<1> SUFFICES ASSUME CallsInv, [CallsNext]_callVars PROVE CallsInv'
  OBVIOUS
<1>1. CASE UNCHANGED callVars
  BY <1>1 DEF callVars, CallsInv, CallsTypeOK, WaiterIsBlocked, CompanyIsNoted, AnswerAhead, Reading
<1>2. ASSUME NEW c \in McpCallers,
             SendRequest(c) \/ AwaitLine(c) \/ ReadTimesOut(c) \/ CutCall(c)
      PROVE  CallsInv'
  <2>0. /\ ask \in [McpCallers -> CallRecord] /\ ask[c] \in CallRecord
        /\ stdout \in Seq(Line)
        /\ c # Nobody /\ requests \subseteq McpCallers
        /\ waiter = c => ask[c].at = "blocked"
        /\ ask[c].at = "blocked" => waiter = c
    BY NobodyCalls DEF CallsInv, CallsTypeOK, WaiterIsBlocked, CallRecord
  <2>1. c \in delivered \ (overlapped \cup abandoned \cup misled) =>
           \/ ask[c].at = "reading" /\ stdout # <<>>
           \/ ask[c].at = "answered"
    <3>1. stdout = <<>> => \A i \in 1 .. Len(stdout) : FALSE
      OBVIOUS
    <3>2. ASSUME c \in delivered \ (overlapped \cup abandoned \cup misled)
          PROVE  \/ ask[c].at = "reading" /\ \E i \in 1 .. Len(stdout) : stdout[i] = Answer(c)
                 \/ ask[c] = [at |-> "answered", got |-> "answer"]
      BY <3>2 DEF CallsInv, AnswerAhead
    <3> QED BY <3>1, <3>2
  <2>2. ASSUME NEW p \in {"reading", "blocked", "failed"}
        PROVE  [ask[c] EXCEPT !.at = p] \in CallRecord /\ [ask[c] EXCEPT !.at = p].at = p
    BY <2>0 DEF CallRecord
  <2>3. CASE SendRequest(c)
    <3>1. CASE closed
      <4>1. ask' = [ask EXCEPT ![c] = [ask[c] EXCEPT !.at = "failed"]]
        BY <2>3, <3>1 DEF SendRequest, Asked
      <4> QED BY <2>0, <2>1, <2>2, <2>3, <3>1, <4>1, CallMoves DEF SendRequest
    <3>2. CASE ~closed
      <4>1. ask' = [ask EXCEPT ![c] = [ask[c] EXCEPT !.at = "reading"]]
        BY <2>3, <3>2 DEF SendRequest, Asked
      <4>2. /\ overlapped \subseteq overlapped'
            /\ Reading = {} \/ Reading \cup {c} \subseteq overlapped'
            /\ requests' \subseteq McpCallers /\ ask[c].at = "none"
            /\ UNCHANGED <<stdout, waiter, closed, chatter, delivered, abandoned, misled>>
        BY <2>0, <2>3, <3>2 DEF SendRequest
      <4>3. c \notin delivered \/ c \in overlapped' \cup abandoned' \cup misled'
        BY <2>1, <4>2
      <4> QED BY <2>0, <2>2, <4>1, <4>2, <4>3, CallMoves
    <3> QED BY <3>1, <3>2
  <2>4. CASE AwaitLine(c)
    <3>1. c \notin delivered \/ c \in overlapped' \cup abandoned' \cup misled'
      BY <2>1, <2>4 DEF AwaitLine, callHistory
    <3>2. c \in Reading
      BY <2>4 DEF AwaitLine, Reading
    <3>3. CASE closed \/ waiter # Nobody
      <4>1. ask' = [ask EXCEPT ![c] = [ask[c] EXCEPT !.at = "failed"]] /\ waiter' = waiter
        BY <2>4, <3>3 DEF AwaitLine, Asked
      <4> QED BY <2>0, <2>2, <2>4, <3>1, <3>2, <4>1, CallMoves DEF AwaitLine, callHistory
    <3>4. CASE ~(closed \/ waiter # Nobody)
      <4>1. ask' = [ask EXCEPT ![c] = [ask[c] EXCEPT !.at = "blocked"]] /\ waiter' = c
        BY <2>4, <3>4 DEF AwaitLine, Asked
      <4> QED BY <2>0, <2>2, <2>4, <3>1, <3>2, <3>4, <4>1, CallMoves DEF AwaitLine, callHistory
    <3> QED BY <3>3, <3>4
  <2>5. CASE ReadTimesOut(c)
    <3>1. c \notin delivered \/ c \in overlapped' \cup abandoned' \cup misled'
      BY <2>1, <2>5 DEF ReadTimesOut, callHistory
    <3>2. ask' = [ask EXCEPT ![c] = [ask[c] EXCEPT !.at = "failed"]]
      BY <2>5 DEF ReadTimesOut, Asked
    <3> QED BY <2>0, <2>2, <2>5, <3>1, <3>2, CallMoves DEF ReadTimesOut, callHistory
  <2>6. CASE CutCall(c)
    <3>1. ask' = [ask EXCEPT ![c] = [ask[c] EXCEPT !.at = "failed"]]
      BY <2>6 DEF CutCall, Asked
    <3>2. /\ waiter' = IF waiter = c THEN Nobody ELSE waiter
          /\ c \in abandoned' /\ abandoned \subseteq abandoned'
          /\ UNCHANGED <<requests, stdout, closed, chatter, delivered, overlapped, misled>>
      BY <2>6 DEF CutCall
    <3>3. waiter' # c
      BY <2>0, <3>2
    <3>4. /\ ask[c].at = "blocked" \/ waiter = Nobody => waiter' = Nobody
          /\ ask[c].at # "blocked" /\ waiter # Nobody => waiter' = waiter
      BY <2>0, <3>2
    <3>5. /\ [ask[c] EXCEPT !.at = "failed"] \in CallRecord
          /\ [ask[c] EXCEPT !.at = "failed"].at = "failed"
      BY <2>2
    <3> QED BY <2>0, <3>1, <3>2, <3>3, <3>4, <3>5, CallMoves
  <2> QED BY <1>2, <2>3, <2>4, <2>5, <2>6
<1>3. ASSUME NEW c \in McpCallers, AnswerArrives(c) PROVE CallsInv'
  <2>1. delivered' \subseteq McpCallers /\ delivered' \ delivered \subseteq {c}
        /\ (c \in delivered' \ delivered => c \in Reading)
    BY <1>3 DEF AnswerArrives, CallsInv, Reading
  <2>2. requests' \subseteq McpCallers /\ closed' \in BOOLEAN /\ chatter' \in 0 .. MaxChatter
    BY <1>3 DEF AnswerArrives, CallsInv, CallsTypeOK
  <2>3. Answer(c) \in Line
    BY DEF Answer, Line
  <2> QED BY <1>3, <2>1, <2>2, <2>3, LineArrives DEF AnswerArrives
<1>4. CASE ChatterArrives
  <2>1. chatter' \in 0 .. MaxChatter
    BY <1>4, McpCallNames DEF McpCallNames, ChatterArrives, CallsInv, CallsTypeOK
  <2>2. PICK line \in Line : stdout' = Append(stdout, line)
    BY <1>4 DEF ChatterArrives
  <2>3. /\ WakeReader /\ UNCHANGED <<overlapped, abandoned, misled>>
        /\ delivered' = delivered /\ requests' = requests /\ closed' = closed
    BY <1>4 DEF ChatterArrives, callHistory
  <2>4. /\ delivered' \subseteq McpCallers /\ delivered' \ delivered = {}
        /\ requests' \subseteq McpCallers /\ closed' \in BOOLEAN
    BY <2>3 DEF CallsInv, CallsTypeOK
  <2> QED BY <2>1, <2>2, <2>3, <2>4, LineArrives
<1>5. CASE ServerCloses
  BY <1>5, LineArrives DEF ServerCloses, CallsInv, CallsTypeOK, callHistory
<1> QED BY <1>1, <1>2, <1>3, <1>4, <1>5, LineRead DEF CallsNext

\* It holds in every state.
LEMMA CallsInvariant == CallsSpec => []CallsInv
BY CallsInvInit, CallsInvStep, PTL DEF CallsSpec

\* Every variable of the stream stays within its type, and the reader it knows of
\* is one that waits.
THEOREM CallsTypeCorrect == CallsSpec => []CallsTypeOK
BY CallsInvariant, PTL DEF CallsInv

\* Whatever answers, notifications and requests with other numbers are in the stream, a
\* call that had it to itself gets its own answer once that has arrived, unless it reads
\* a line that cannot be decoded, is JSON but no object, or asks under its number.
THEOREM LoneCallsAreAnswered == CallsSpec => []LoneCallGetsItsAnswer
<1>1. CallsInv => LoneCallGetsItsAnswer
  BY DEF CallsInv, AnswerAhead, LoneCallGetsItsAnswer
<1> QED BY <1>1, CallsInvariant, PTL

-----------------------------------------------------------------------------
(* The registry of MCP servers                                               *)

\* A call that has begun names a server: what it enters into the clients is one.
\* The types alone are not inductive, since a call that has not begun names none.
ServersInv ==
    /\ ServersTypeOK
    /\ \A c \in ServerCalls : serverCall[c].at # "none" => serverCall[c].server \in Servers

\* Every step of the registry, a restart and a crash included, keeps the invariant.
LEMMA ServersStep == ServersInv /\ [ServersNext]_serverVars => ServersInv'
<1> SUFFICES ASSUME ServersInv, [ServersNext]_serverVars PROVE ServersInv'
  OBVIOUS
<1> USE DEF ServersInv, ServersTypeOK, startVars
<1>1. ASSUME NEW s \in Servers, Reconnected(s) \/ ReconnectFails(s) PROVE ServersInv'
  <2>1. up = TRUE
    BY <1>1, Zenon DEF Reconnected, ReconnectFails
  <2>2. /\ clients' \subseteq Servers /\ reconnecting' \subseteq Servers
        /\ UNCHANGED <<serversFile, serverCall, configured, up, starts>>
    BY <1>1 DEF Reconnected, ReconnectFails
  <2> QED BY <2>1, <2>2
<1>2. ASSUME NEW c \in ServerCalls, AddConnected(c) PROVE ServersInv'
  BY <1>2 DEF AddConnected, Goes
<1>3. ASSUME NEW c \in ServerCalls, AddFails(c) \/ RemoveSaved(c) \/ RemoveCut(c)
      PROVE  ServersInv'
  BY <1>3 DEF AddFails, RemoveSaved, RemoveCut, Goes
<1>4. ASSUME NEW c \in ServerCalls, NEW s \in Servers, BeginAdd(c, s) \/ BeginRemove(c, s)
      PROVE  ServersInv'
  BY <1>4 DEF BeginAdd, BeginRemove
<1>5. CASE StopServers
  BY <1>5 DEF StopServers
<1>6. ASSUME NEW read \in SUBSET Servers, serversFile' \in SUBSET Servers, StartServers(read)
      PROVE  ServersInv'
  BY <1>6, ServersConstants DEF StartServers
<1>7. CASE RestartServers
  BY <1>6, <1>7 DEF RestartServers
<1>8. CASE CrashInServersSave
  BY <1>6, <1>8 DEF CrashInServersSave
<1>9. CASE UNCHANGED serverVars
  BY <1>9 DEF serverVars
<1> QED BY <1>1, <1>2, <1>3, <1>4, <1>5, <1>7, <1>8, <1>9 DEF ServersNext

\* The types of the registry hold always: a client and a line of mcp_servers.json is
\* a server somebody named, and a stop leaves nothing that would connect one later.
THEOREM ServersTypeCorrect == ServersSpec => []ServersTypeOK
<1>1. ServersInit => ServersInv
  BY ServersConstants DEF ServersInit, ServersInv, ServersTypeOK
<1>2. ServersInv => ServersTypeOK
  BY DEF ServersInv
<1> QED BY <1>1, <1>2, ServersStep, PTL DEF ServersSpec
=============================================================================
