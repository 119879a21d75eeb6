--------------------------- MODULE AgentLoopProofs ---------------------------
(***************************************************************************)
(* Machine-checked theorems about AgentLoop, for every set of chats, every *)
(* number of direct callers and every bound on the items.                  *)
(***************************************************************************)
EXTENDS AgentLoop, FiniteSetTheorems, TLAPS

\* The initial state is well typed.
LEMMA TypeInit == Init => TypeOK
<1> SUFFICES ASSUME Init PROVE TypeOK
  OBVIOUS
<1> USE LoopConstants DEF LoopConstants, Init
<1>1. inbound \in Seq(Item)
  OBVIOUS
<1>2. turn \in [Tasks -> Turn]
  BY DEF IdleTurn, Turn
<1>3. parked \in [Chats -> Kept]
  BY DEF NoState, Kept
<1>4. busy \in [Keys -> Nat] /\ published \in 0 .. MaxItems
  OBVIOUS
<1> QED BY <1>1, <1>2, <1>3, <1>4 DEF TypeOK

\* Changing the phase or the cancel flag of a turn, or ageing a kept state,
\* keeps the record's type.
LEMMA TurnRecords ==
  ASSUME NEW r \in Turn, NEW p \in {"idle", "created"} \cup Running \cup Done
  PROVE  [r EXCEPT !.pc = p] \in Turn /\ [r EXCEPT !.cancel = TRUE] \in Turn
<1> DEFINE PCs == {"idle", "created"} \cup Running \cup Done
<1> HIDE DEF PCs
<1>1. p \in PCs
  BY DEF PCs
<1> QED BY <1>1 DEF Turn, PCs

\* Expiry leaves an interrupt state.
LEMMA KeptRecords ==
  ASSUME NEW r \in Kept
  PROVE  [r EXCEPT !.expired = TRUE] \in Kept
BY DEF Kept

\* Storing a turn record, or moving a task to another phase, keeps the table's
\* type.
LEMMA TurnTable ==
  ASSUME NEW f \in [Tasks -> Turn], NEW t \in Tasks, NEW r \in Turn,
         NEW p \in {"idle", "created"} \cup Running \cup Done
  PROVE  /\ [f EXCEPT ![t] = r] \in [Tasks -> Turn]
         /\ [f EXCEPT ![t].pc = p] \in [Tasks -> Turn]
<1>1. [f[t] EXCEPT !.pc = p] \in Turn
  BY TurnRecords
<1> QED BY <1>1

\* A slot without a turn is a slot.
LEMMA IdleTyped == IdleTurn \in Turn
BY DEF IdleTurn, Turn

\* The bus, run() and the control plane keep the types.
LEMMA TypeLoop ==
  ASSUME TypeOK,
         \/ \E c \in Chats, kind \in {"user", "spawn"} : PublishInbound(c, kind)
         \/ Consume \/ Collect \/ Shutdown
         \/ \E c \in Chats : RequestInterrupt(c)
         \/ \E c \in Chats : Expire(c)
  PROVE  TypeOK'
<1> USE LoopConstants DEF LoopConstants, TypeOK
<1>1. CASE \E c \in Chats, kind \in {"user", "spawn"} : PublishInbound(c, kind)
  <2> PICK c \in Chats, kind \in {"user", "spawn"} : PublishInbound(c, kind)
    BY <1>1
  <2>1. [id |-> published + 1, chat |-> c, kind |-> kind] \in Item
    BY DEF PublishInbound, Item, ItemIds
  <2> QED BY <2>1 DEF PublishInbound
<1>2. CASE Consume
  <2>1. Head(inbound) \in Item /\ Tail(inbound) \in Seq(Item)
    BY <1>2 DEF Consume
  <2> DEFINE item == Head(inbound)
  <2>2. item.id \in ItemIds /\ item.chat \in Chats /\ item.kind \in {"user", "spawn"}
    BY <2>1 DEF Item
  <2> HIDE DEF item
  <2>3. turn' \in [Tasks -> Turn]
    BY <1>2, <2>2 DEF Consume, Turn, Tasks, Keys, item
  <2>4. activeState' \in [Chats -> SUBSET ItemIds] /\ activeTask' \subseteq Chats
    BY <1>2, <2>2 DEF Consume, item
  <2> QED BY <1>2, <2>1, <2>3, <2>4 DEF Consume
<1>3. CASE Collect
  <2>1. turn' \in [Tasks -> Turn]
    BY <1>3 DEF Collect, Turn, IdleTurn, Tasks
  <2>2. turn[MainTask] \in Turn
    BY DEF Tasks
  <2> QED BY <1>3, <2>1, <2>2 DEF Collect, Turn
<1>4. CASE Shutdown
  <2>1. turn' \in [Tasks -> Turn]
    <3>1. CancelAwaited(turn[MainTask]) \in Turn
      BY TurnRecords DEF CancelAwaited, Tasks, Done
    <3> QED BY <1>4, <3>1 DEF Shutdown
  <2> QED BY <1>4, <2>1 DEF Shutdown
<1>5. CASE \E c \in Chats : RequestInterrupt(c)
  <2> PICK c \in Chats : RequestInterrupt(c)
    BY <1>5
  <2>1. turn' \in [Tasks -> Turn]
    BY TurnRecords DEF RequestInterrupt, Tasks
  <2>2. parked' \in [Chats -> Kept]
    BY DEF RequestInterrupt, Kept
  <2> QED BY <2>1, <2>2 DEF RequestInterrupt
<1>6. CASE \E c \in Chats : Expire(c)
  <2> PICK c \in Chats : Expire(c)
    BY <1>6
  <2>1. parked' \in [Chats -> Kept]
    BY KeptRecords DEF Expire
  <2> QED BY <2>1 DEF Expire
<1> QED BY <1>1, <1>2, <1>3, <1>4, <1>5, <1>6

\* A task that is there works for a chat; the main task under that chat's key,
\* a direct one under a key of its own and carrying no queued request.
TurnShape ==
    /\ turn[MainTask].pc # "idle" =>
          /\ turn[MainTask].chat \in Chats
          /\ turn[MainTask].key = turn[MainTask].chat
          /\ turn[MainTask].kind # "direct"
    /\ \A d \in DirectTasks :
          /\ turn[d].carries = {} /\ ~turn[d].resumed /\ ~turn[d].cancel
          /\ turn[d].pc # "created"
          /\ turn[d].pc # "idle" => turn[d].chat \in Chats /\ turn[d].key \in DirectKeys

\* What one step of _process does to the task that takes it.
LEMMA AdvanceStep ==
  ASSUME TypeOK, NEW t \in Tasks, Advance(t)
  PROVE  /\ turn[t].pc \in Running
         /\ \E p \in Running \cup Done : turn' = [turn EXCEPT ![t].pc = p]
         /\ UNCHANGED <<inbound, published, loop, activeTask, activeState, stopping, failed>>
<1>1. CASE Enter(t)
  BY <1>1 DEF Enter, Running
<1>2. CASE SyncTools(t)
  BY <1>2 DEF SyncTools, Running
<1>3. CASE Commit(t)
  BY <1>3 DEF Commit, Running
<1>4. CASE Finish(t)
  BY <1>4 DEF Finish, Return, Leave, Running, Done
<1>5. CASE ControlReply(t)
  BY <1>5 DEF ControlReply, Return, Leave, Running, Done
<1>6. CASE Raise(t)
  BY <1>6 DEF Raise, Leave, Running, Done
<1>7. CASE Cancelled(t)
  BY <1>7 DEF Cancelled, Leave, Running, Done
<1> QED BY <1>1, <1>2, <1>3, <1>4, <1>5, <1>6, <1>7 DEF Advance

\* The first step of the main task keeps its identity.
LEMMA StartStep ==
  ASSUME TypeOK, StartTurn
  PROVE  /\ turn[MainTask].pc = "created"
         /\ turn' = [turn EXCEPT ![MainTask] = turn'[MainTask]]
         /\ turn'[MainTask].pc = IF turn[MainTask].cancel THEN "cancelled" ELSE "observing"
         /\ turn'[MainTask].key = turn[MainTask].key
         /\ turn'[MainTask].chat = turn[MainTask].chat
         /\ turn'[MainTask].kind = turn[MainTask].kind
         /\ turn'[MainTask].cancel = turn[MainTask].cancel
<1> DEFINE m == turn[MainTask]
           picksUp == m.kind = "user" /\ Usable(m.key)
           text == IF picksUp THEN m.carries \cup parked[m.key].carries ELSE m.carries
<1>1. m \in Turn /\ turn \in [Tasks -> Turn] /\ MainTask \in Tasks
  BY DEF TypeOK, Tasks
<1>2. CASE m.cancel
  <2>1. turn' = [turn EXCEPT ![MainTask].pc = "cancelled"]
    BY <1>2 DEF StartTurn
  <2> QED BY <1>1, <1>2, <2>1 DEF StartTurn, Turn
<1>3. CASE ~m.cancel
  <2>1. turn' = [turn EXCEPT ![MainTask] =
                  [m EXCEPT !.pc = "observing", !.carries = text, !.resumed = picksUp]]
    BY <1>3 DEF StartTurn
  <2> HIDE DEF text, picksUp
  <2> QED BY <1>1, <1>3, <2>1 DEF StartTurn, Turn
<1> QED BY <1>2, <1>3

\* The steps of _process keep the types.
LEMMA TypeTurn ==
  ASSUME TypeOK, TurnShape,
         \/ StartTurn
         \/ \E d \in DirectTasks, k \in DirectKeys, c \in Chats : StartDirect(d, k, c)
         \/ \E t \in Tasks : Advance(t)
         \/ \E d \in DirectTasks : EndDirect(d)
  PROVE  TypeOK'
<1>1. CASE StartTurn
  <2> DEFINE m == turn[MainTask]
             picksUp == m.kind = "user" /\ Usable(m.key)
             text == IF picksUp THEN m.carries \cup parked[m.key].carries ELSE m.carries
             started == [m EXCEPT !.pc = "observing", !.carries = text, !.resumed = picksUp]
  <2>1. m \in Turn /\ m.key \in Chats /\ MainTask \in Tasks
    BY <1>1 DEF TypeOK, TurnShape, Tasks, StartTurn
  <2>2. text \in SUBSET ItemIds
    BY <2>1 DEF Turn, Kept, TypeOK
  <2>3. NoState \in Kept
    BY DEF NoState, Kept
  <2>4. started \in Turn
    <3>1. picksUp \in BOOLEAN
      BY DEF Usable
    <3> HIDE DEF picksUp, text
    <3> QED BY <2>1, <2>2, <3>1 DEF Turn, Running
  <2>5. turn' \in [Tasks -> Turn]
    <3>1. CASE m.cancel
      <4>1. turn' = [turn EXCEPT ![MainTask].pc = "cancelled"]
        BY <1>1, <3>1 DEF StartTurn
      <4> QED BY <4>1, <2>1, TurnTable DEF Done, TypeOK
    <3>2. CASE ~m.cancel
      <4>1. turn' = [turn EXCEPT ![MainTask] = started]
        BY <1>1, <3>2 DEF StartTurn
      <4> HIDE DEF started
      <4> QED BY <4>1, <2>1, <2>4 DEF TypeOK
    <3> QED BY <3>1, <3>2
  <2>6. parked' \in [Chats -> Kept] /\ activeState' \in [Chats -> SUBSET ItemIds]
    BY <1>1, <2>1, <2>2, <2>3 DEF StartTurn, TypeOK
  <2> QED BY <1>1, <2>5, <2>6 DEF StartTurn, TypeOK
<1>2. CASE \E d \in DirectTasks, k \in DirectKeys, c \in Chats : StartDirect(d, k, c)
  <2> PICK d \in DirectTasks, k \in DirectKeys, c \in Chats : StartDirect(d, k, c)
    BY <1>2
  <2> DEFINE r == [pc |-> "observing", key |-> k, chat |-> c, kind |-> "direct",
                   carries |-> {}, resumed |-> FALSE, cancel |-> FALSE]
  <2>1. r \in Turn
    BY DEF Turn, Running, Keys
  <2>2. turn' = [turn EXCEPT ![d] = r]
    BY DEF StartDirect
  <2> HIDE DEF r
  <2>3. turn' \in [Tasks -> Turn]
    BY <2>1, <2>2 DEF Tasks, TypeOK
  <2> QED BY <2>3 DEF StartDirect, TypeOK
<1>3. CASE \E t \in Tasks : Advance(t)
  <2> PICK t \in Tasks : Advance(t)
    BY <1>3
  <2>1. turn[t] \in Turn
    BY DEF TypeOK
  <2>2. turn[t].pc # "idle" => turn[t].chat \in Chats
    BY DEF TurnShape, Tasks
  <2>3. turn' \in [Tasks -> Turn]
    <3>1. PICK p \in Running \cup Done : turn' = [turn EXCEPT ![t].pc = p]
      BY AdvanceStep
    <3>2. [turn EXCEPT ![t].pc = p] \in [Tasks -> Turn]
      BY TurnTable, <2>1 DEF TypeOK
    <3> QED BY <3>1, <3>2
  <2>4. busy' \in [Keys -> Nat]
    <3>1. PICK k : k = turn[t].key
      OBVIOUS
    <3>2. \/ busy' = busy
          \/ busy' = [busy EXCEPT ![k] = @ + 1]
          \/ busy' = [busy EXCEPT ![k] = IF @ > 0 THEN @ - 1 ELSE 0]
      <4>1. CASE Enter(t)
        BY <3>1, <4>1 DEF Enter
      <4>2. CASE Finish(t) \/ ControlReply(t) \/ Raise(t)
        BY <3>1, <4>2 DEF Finish, ControlReply, Raise, Return, Leave
      <4>3. CASE Cancelled(t)
        BY <3>1, <4>3 DEF Cancelled, Leave
      <4>4. CASE SyncTools(t) \/ Commit(t)
        BY <4>4 DEF SyncTools, Commit
      <4> QED BY <4>1, <4>2, <4>3, <4>4 DEF Advance
    <3>3. busy \in [Keys -> Nat]
      BY DEF TypeOK
    <3> QED BY <3>2, <3>3
  <2>5. toolContext' \in Chats \cup {NoChat}
    BY <2>2 DEF Advance, Enter, SyncTools, Commit, Finish, ControlReply, Raise,
         Cancelled, Return, Leave, TypeOK
  <2>6. turn[t].carries \subseteq ItemIds
    BY <2>1 DEF Turn
  <2>7. NoState \in Kept
    BY DEF NoState, Kept
  <2>8. parked' \in [Chats -> Kept]
    BY <2>7 DEF Advance, Enter, SyncTools, Commit, Finish, ControlReply, Raise,
         Cancelled, Return, Leave, TypeOK
  <2>9. answered' \subseteq ItemIds /\ promised' \subseteq ItemIds
    BY <2>6 DEF Advance, Enter, SyncTools, Commit, Finish, ControlReply, Raise,
         Cancelled, Return, Leave, TypeOK
  <2> QED BY <2>3, <2>4, <2>5, <2>8, <2>9, AdvanceStep DEF TypeOK
<1>4. CASE \E d \in DirectTasks : EndDirect(d)
  <2> PICK d \in DirectTasks : EndDirect(d)
    BY <1>4
  <2>1. turn' \in [Tasks -> Turn]
    BY IdleTyped DEF EndDirect, Tasks, TypeOK
  <2> QED BY <2>1 DEF EndDirect, TypeOK
<1> QED BY <1>1, <1>2, <1>3, <1>4

\* TurnShape holds initially and is kept by every step.
LEMMA ShapeInit == Init => TurnShape
BY LoopConstants DEF LoopConstants, Init, TurnShape, IdleTurn, Tasks

\* And is kept by every step.
LEMMA ShapeStep == ASSUME TypeOK, TurnShape, Next PROVE TurnShape'
<1> USE LoopConstants DEF LoopConstants, TypeOK, TurnShape, Tasks
<1>1. CASE Consume
  <2>1. Head(inbound) \in Item
    BY <1>1 DEF Consume
  <2>2. Head(inbound).chat \in Chats /\ Head(inbound).kind \in {"user", "spawn"}
    BY <2>1 DEF Item
  <2>3. turn' = [turn EXCEPT ![MainTask] =
                   [pc |-> "created", key |-> Head(inbound).chat,
                    chat |-> Head(inbound).chat, kind |-> Head(inbound).kind,
                    carries |-> {Head(inbound).id}, resumed |-> FALSE, cancel |-> FALSE]]
    BY <1>1 DEF Consume
  <2> QED BY <2>2, <2>3
<1>2. CASE Collect
  BY <1>2 DEF Collect, IdleTurn
<1>3. CASE Shutdown
  <2>1. ASSUME NEW r \in Turn
        PROVE  /\ CancelAwaited(r).chat = r.chat /\ CancelAwaited(r).key = r.key
               /\ CancelAwaited(r).kind = r.kind
               /\ CancelAwaited(r).pc = "idle" <=> r.pc = "idle"
    BY DEF CancelAwaited, Turn
  <2>2. turn[MainTask] \in Turn
    OBVIOUS
  <2> QED BY <1>3, <2>1, <2>2 DEF Shutdown
<1>4. CASE \E c \in Chats : RequestInterrupt(c)
  BY <1>4 DEF RequestInterrupt
<1>5. CASE StartTurn
  BY <1>5, StartStep
<1>6. CASE \E d \in DirectTasks, k \in DirectKeys, c \in Chats : StartDirect(d, k, c)
  BY <1>6 DEF StartDirect
<1>7. CASE \E t \in Tasks : Advance(t)
  <2> PICK t \in Tasks : Advance(t)
    BY <1>7
  <2>1. PICK p \in Running \cup Done : turn' = [turn EXCEPT ![t].pc = p]
    BY AdvanceStep
  <2>2. p # "idle" /\ p # "created" /\ turn[t].pc # "idle"
    BY AdvanceStep DEF Running, Done
  <2> QED BY <2>1, <2>2
<1>8. CASE \E d \in DirectTasks : EndDirect(d)
  BY <1>8 DEF EndDirect, IdleTurn
<1>9. CASE \/ \E c \in Chats, kind \in {"user", "spawn"} : PublishInbound(c, kind)
           \/ \E c \in Chats : Expire(c)
  BY <1>9 DEF PublishInbound, Expire
<1> QED BY <1>1, <1>2, <1>3, <1>4, <1>5, <1>6, <1>7, <1>8, <1>9 DEF Next, Advance

\* Every state of the loop is well typed and well shaped.
Typed == TypeOK /\ TurnShape

\* The types and shapes together,
LEMMA TypedStep == Typed /\ [Next]_vars => Typed'
<1>1. ASSUME Typed, Next PROVE Typed'
  BY <1>1, TypeLoop, TypeTurn, ShapeStep DEF Typed, Next, Advance
<1>2. ASSUME Typed, UNCHANGED vars PROVE Typed'
  BY <1>2 DEF Typed, TypeOK, TurnShape, vars
<1> QED BY <1>1, <1>2

\* in every state.
LEMMA TypedAlways == Spec => []Typed
<1>1. Init => Typed
  BY TypeInit, ShapeInit DEF Typed
<1> QED BY <1>1, TypedStep, PTL DEF Spec

\* Every behaviour of the loop is well typed, for any number of chats, of
\* direct callers and of items.
THEOREM LoopTypeCorrect == Spec => []TypeOK
<1>1. Typed => TypeOK
  BY DEF Typed
<1> QED BY <1>1, TypedAlways, PTL

-----------------------------------------------------------------------------
(* run() and the control plane agree on the turn that can be interrupted.   *)

\* A change of phase touches nothing else of the task, and no other task.
LEMMA PhaseOnly ==
  ASSUME NEW f \in [Tasks -> Turn], NEW t \in Tasks, NEW p
  PROVE  LET g == [f EXCEPT ![t].pc = p] IN
         /\ g[t].pc = p /\ g[t].key = f[t].key /\ g[t].kind = f[t].kind
         /\ g[t].carries = f[t].carries /\ g[t].resumed = f[t].resumed
         /\ g[t].cancel = f[t].cancel
         /\ \A s \in Tasks \ {t} : g[s] = f[s]
<1>1. f[t] \in Turn
  OBVIOUS
<1> QED BY <1>1 DEF Turn

\* Cancelling a task touches neither what it carries nor whose it is.
LEMMA CancelOnly ==
  ASSUME NEW r \in Turn
  PROVE  /\ [r EXCEPT !.cancel = TRUE].pc = r.pc
         /\ [r EXCEPT !.cancel = TRUE].cancel
         /\ [r EXCEPT !.cancel = TRUE].key = r.key
         /\ [r EXCEPT !.cancel = TRUE].carries = r.carries
         /\ [r EXCEPT !.cancel = TRUE].resumed = r.resumed
BY DEF Turn

\* A cancellation leaves what the turn carries, and a finished one its outcome.
LEMMA ShutdownOnly ==
  ASSUME NEW r \in Turn
  PROVE  /\ CancelAwaited(r).key = r.key
         /\ CancelAwaited(r).carries = r.carries
         /\ CancelAwaited(r).resumed = r.resumed
         /\ r.cancel => CancelAwaited(r).cancel
         /\ CancelAwaited(r).pc \in {r.pc, "cancelled"}
         /\ CancelAwaited(r).pc = "cancelled" => r.pc \in {"error", "cancelled"}
         /\ r.pc \notin Done => CancelAwaited(r).cancel
BY DEF Turn, CancelAwaited, Done

\* The control plane is right, and run() awaits a turn, if any.
Awaiting ==
    /\ OneInterruptibleTurn
    /\ loop = "await" => turn[MainTask].pc # "idle"

\* Every step keeps that.
LEMMA AwaitingStep == ASSUME Typed, Awaiting, Next PROVE Awaiting'
<1> USE LoopConstants DEF LoopConstants, Awaiting, OneInterruptibleTurn
<1>0. turn[MainTask] \in Turn /\ turn \in [Tasks -> Turn] /\ MainTask \in Tasks
  BY DEF Typed, TypeOK, Tasks
<1>1. CASE Consume
  <2>1. Head(inbound) \in Item
    BY <1>1 DEF Consume, Typed, TypeOK
  <2>2. Head(inbound).chat \in Chats
    BY <2>1 DEF Item
  <2> DEFINE r == [pc |-> "created", key |-> Head(inbound).chat,
                   chat |-> Head(inbound).chat, kind |-> Head(inbound).kind,
                   carries |-> {Head(inbound).id}, resumed |-> FALSE, cancel |-> FALSE]
  <2>3. turn' = [turn EXCEPT ![MainTask] = r]
    BY <1>1 DEF Consume
  <2>4. turn'[MainTask].key = Head(inbound).chat /\ turn'[MainTask].pc = "created"
        /\ turn'[MainTask].carries = {Head(inbound).id}
    BY <2>3, <1>0
  <2>5. activeState' = [activeState EXCEPT ![Head(inbound).chat] = {Head(inbound).id}]
        /\ activeTask' = activeTask \cup {Head(inbound).chat} /\ activeTask = {}
        /\ loop' = "await"
    BY <1>1 DEF Consume
  <2>6. activeState \in [Chats -> SUBSET ItemIds]
    BY DEF Typed, TypeOK
  <2> QED BY <2>2, <2>4, <2>5, <2>6
<1>2. CASE Collect
  BY <1>0, <1>2 DEF Collect, IdleTurn
<1>3. CASE Shutdown
  <2>1. CASE loop = "consume"
    BY <1>3, <2>1 DEF Shutdown
  <2>2. CASE loop = "await"
    <3>1. turn' = [turn EXCEPT ![MainTask] = CancelAwaited(turn[MainTask])]
          /\ UNCHANGED <<loop, activeTask, activeState>>
      BY <1>3, <2>2 DEF Shutdown
    <3> QED BY <1>0, <2>2, <3>1, ShutdownOnly
  <2> QED BY <1>3, <2>1, <2>2 DEF Shutdown
<1>4. CASE \E c \in Chats : RequestInterrupt(c)
  <2> PICK c \in Chats : RequestInterrupt(c)
    BY <1>4
  <2>1. turn' = [turn EXCEPT ![MainTask] = [turn[MainTask] EXCEPT !.cancel = TRUE]]
        /\ UNCHANGED <<loop, activeTask, activeState>>
    BY DEF RequestInterrupt
  <2>2. turn'[MainTask].pc = turn[MainTask].pc /\ turn'[MainTask].key = turn[MainTask].key
        /\ turn'[MainTask].carries = turn[MainTask].carries
    BY <1>0, <2>1, CancelOnly
  <2> QED BY <2>1, <2>2
<1>5. CASE StartTurn
  <2> DEFINE m == turn[MainTask]
             picksUp == m.kind = "user" /\ Usable(m.key)
             text == IF picksUp THEN m.carries \cup parked[m.key].carries ELSE m.carries
  <2>1. loop = "await" /\ UNCHANGED <<loop, activeTask>> /\ m.key \in Chats
    BY <1>5 DEF StartTurn, Typed, TypeOK, TurnShape
  <2>2. turn'[MainTask].key = m.key /\ turn'[MainTask].pc # "idle"
    BY <1>5, StartStep DEF Typed
  <2>3. activeState'[m.key] = turn'[MainTask].carries
    <3>1. CASE m.cancel
      <4>1. turn' = [turn EXCEPT ![MainTask].pc = "cancelled"] /\ activeState' = activeState
        BY <1>5, <3>1 DEF StartTurn
      <4>2. turn'[MainTask].carries = m.carries
        BY <1>0, <4>1, PhaseOnly
      <4> QED BY <2>1, <4>1, <4>2
    <3>2. CASE ~m.cancel
      <4>1. turn'[MainTask].carries = text
        <5>1. turn' = [turn EXCEPT ![MainTask] =
                  [m EXCEPT !.pc = "observing", !.carries = text, !.resumed = picksUp]]
          BY <1>5, <3>2 DEF StartTurn
        <5> HIDE DEF text, picksUp
        <5> QED BY <1>0, <5>1 DEF Turn
      <4>2. activeState' = IF picksUp THEN [activeState EXCEPT ![m.key] = text]
                                      ELSE activeState
        BY <1>5, <3>2 DEF StartTurn
      <4>3. activeState \in [Chats -> SUBSET ItemIds]
        BY DEF Typed, TypeOK
      <4> HIDE DEF picksUp
      <4> QED BY <2>1, <4>1, <4>2, <4>3
    <3> QED BY <3>1, <3>2
  <2> QED BY <2>1, <2>2, <2>3
<1>6. CASE \E t \in Tasks : Advance(t)
  <2> PICK t \in Tasks : Advance(t)
    BY <1>6
  <2>1. PICK p \in Running \cup Done : turn' = [turn EXCEPT ![t].pc = p]
    BY AdvanceStep DEF Typed
  <2>2. p # "idle" /\ turn[t].pc # "idle" /\ UNCHANGED <<loop, activeTask, activeState>>
    BY AdvanceStep DEF Running, Done, Typed
  <2>3. /\ turn'[MainTask].key = turn[MainTask].key
        /\ turn'[MainTask].carries = turn[MainTask].carries
        /\ turn'[MainTask].pc = "idle" <=> turn[MainTask].pc = "idle"
    BY <1>0, <2>1, <2>2, PhaseOnly
  <2> QED BY <2>2, <2>3
<1>7. CASE \/ \E d \in DirectTasks, k \in DirectKeys, c \in Chats : StartDirect(d, k, c)
           \/ \E d \in DirectTasks : EndDirect(d)
  <2>1. turn'[MainTask] = turn[MainTask] /\ UNCHANGED <<loop, activeTask, activeState>>
    BY <1>0, <1>7 DEF StartDirect, EndDirect
  <2> QED BY <2>1
<1>8. CASE \/ \E c \in Chats, kind \in {"user", "spawn"} : PublishInbound(c, kind)
           \/ \E c \in Chats : Expire(c)
  BY <1>8 DEF PublishInbound, Expire
<1> QED BY <1>1, <1>2, <1>3, <1>4, <1>5, <1>6, <1>7, <1>8 DEF Next, Advance

\* It holds in every state.
LEMMA AwaitingAlways == Spec => []Awaiting
<1>1. Init => Awaiting
  BY LoopConstants DEF LoopConstants, Init, Awaiting, OneInterruptibleTurn, IdleTurn, Tasks
<1>2. Typed /\ Awaiting /\ [Next]_vars => Awaiting'
  BY AwaitingStep DEF Awaiting, OneInterruptibleTurn, vars
<1> QED BY <1>1, <1>2, TypedAlways, PTL DEF Spec

\* The chat that can be interrupted is always the chat of the turn that run()
\* awaits, and the text kept for it is the text that turn works on.
THEOREM InterruptTargetsTheTurn == Spec => []OneInterruptibleTurn
<1>1. Awaiting => OneInterruptibleTurn
  BY DEF Awaiting
<1> QED BY <1>1, AwaitingAlways, PTL

-----------------------------------------------------------------------------
(* A session is counted busy once per turn inside the core runner.          *)

\* Turns can be counted, since callers can.
LEMMA TasksFinite == IsFiniteSet(Tasks)
<1>1. IsFiniteSet({MainTask})
  BY FS_Singleton
<1> QED BY <1>1, FS_Union, LoopConstants DEF LoopConstants, Tasks

\* So can those of a session.
LEMMA CoreFinite == \A k \in Keys : IsFiniteSet(InCoreOf(k)) /\ Cardinality(InCoreOf(k)) \in Nat
<1>1. \A k \in Keys : InCoreOf(k) \subseteq Tasks
  BY DEF InCoreOf
<1> QED BY <1>1, TasksFinite, FS_Subset, FS_CardinalityType

\* A step that moves no task across enter or exit, and keeps the counters.
LEMMA BusyUntouched ==
  ASSUME Typed, BusyMatchesTurns, busy' = busy,
         \A t \in Tasks : turn[t].pc \in InCore \/ turn'[t].pc \in InCore =>
             turn'[t].pc \in InCore /\ turn[t].pc \in InCore /\ turn'[t].key = turn[t].key
  PROVE  BusyMatchesTurns'
<1>1. \A k \in Keys : InCoreOf(k)' = InCoreOf(k)
  BY DEF InCoreOf
<1> QED BY <1>1 DEF BusyMatchesTurns

\* One task enters the core runner and its session's counter goes up by one.
LEMMA BusyEntered ==
  ASSUME Typed, BusyMatchesTurns, NEW t \in Tasks, turn[t].key \in Keys,
         turn[t].pc \notin InCore, NEW p \in InCore,
         turn' = [turn EXCEPT ![t].pc = p],
         busy' = [busy EXCEPT ![turn[t].key] = @ + 1]
  PROVE  BusyMatchesTurns'
<1>1. turn \in [Tasks -> Turn] /\ busy \in [Keys -> Nat]
  BY DEF Typed, TypeOK
<1>2. turn'[t].pc = p /\ turn'[t].key = turn[t].key /\ \A s \in Tasks \ {t} : turn'[s] = turn[s]
  BY <1>1, PhaseOnly
<1>3. InCoreOf(turn[t].key)' = InCoreOf(turn[t].key) \cup {t} /\ t \notin InCoreOf(turn[t].key)
  BY <1>2 DEF InCoreOf
<1>4. \A k \in Keys \ {turn[t].key} : InCoreOf(k)' = InCoreOf(k)
  BY <1>2 DEF InCoreOf
<1>5. Cardinality(InCoreOf(turn[t].key) \cup {t}) = Cardinality(InCoreOf(turn[t].key)) + 1
  BY <1>3, CoreFinite, FS_AddElement
<1> QED BY <1>1, <1>3, <1>4, <1>5 DEF BusyMatchesTurns

\* One task leaves the core runner: Leave never finds the counter at zero.
LEMMA BusyLeft ==
  ASSUME Typed, BusyMatchesTurns, NEW t \in Tasks, turn[t].key \in Keys,
         turn[t].pc \in InCore, NEW p \in Done, Leave(t, p)
  PROVE  BusyMatchesTurns'
<1>1. turn \in [Tasks -> Turn] /\ busy \in [Keys -> Nat] /\ turn' = [turn EXCEPT ![t].pc = p]
  BY DEF Typed, TypeOK, Leave
<1>2. turn'[t].pc = p /\ turn'[t].key = turn[t].key /\ \A s \in Tasks \ {t} : turn'[s] = turn[s]
  BY <1>1, PhaseOnly
<1>3. p \notin InCore
  BY DEF InCore, Done
<1>4. InCoreOf(turn[t].key)' = InCoreOf(turn[t].key) \ {t} /\ t \in InCoreOf(turn[t].key)
  BY <1>2, <1>3 DEF InCoreOf
<1>5. \A k \in Keys \ {turn[t].key} : InCoreOf(k)' = InCoreOf(k)
  BY <1>2, <1>3 DEF InCoreOf
<1>6. Cardinality(InCoreOf(turn[t].key) \ {t}) = Cardinality(InCoreOf(turn[t].key)) - 1
  BY <1>4, CoreFinite, FS_RemoveElement
<1>7. busy[turn[t].key] > 0
  <2>1. Cardinality(InCoreOf(turn[t].key)) # 0
    BY <1>4, CoreFinite, FS_EmptySet
  <2> QED BY <2>1, <1>1, CoreFinite DEF BusyMatchesTurns
<1>8. busy' = [busy EXCEPT ![turn[t].key] = busy[turn[t].key] - 1]
  BY <1>1, <1>7 DEF Leave
<1>9. \A k \in Keys : busy[k] = Cardinality(InCoreOf(k))
  BY DEF BusyMatchesTurns
<1>10. \A k \in Keys : busy'[k] = Cardinality(InCoreOf(k)')
  <2> TAKE k \in Keys
  <2>1. CASE k = turn[t].key
    BY <2>1, <1>1, <1>2, <1>4, <1>6, <1>8, <1>9
  <2>2. CASE k # turn[t].key
    BY <2>2, <1>1, <1>5, <1>8, <1>9
  <2> QED BY <2>1, <2>2
<1> QED BY <1>10 DEF BusyMatchesTurns

\* Every step keeps the count.
LEMMA BusyStep == ASSUME Typed, Awaiting, BusyMatchesTurns, Next PROVE BusyMatchesTurns'
<1> USE LoopConstants DEF LoopConstants
<1>0. turn \in [Tasks -> Turn] /\ MainTask \in Tasks /\ turn[MainTask] \in Turn
  BY DEF Typed, TypeOK, Tasks
<1>1. CASE Consume
  <2>1. turn[MainTask].pc = "idle"
    BY <1>1 DEF Consume, Awaiting, OneInterruptibleTurn
  <2>2. turn'[MainTask].pc = "created" /\ \A s \in Tasks \ {MainTask} : turn'[s] = turn[s]
    BY <1>0, <1>1 DEF Consume
  <2> QED BY <1>1, <2>1, <2>2, BusyUntouched DEF Consume, InCore
<1>2. CASE Collect
  <2>1. turn[MainTask].pc \in Done
    BY <1>2 DEF Collect
  <2>2. turn'[MainTask].pc = "idle" /\ \A s \in Tasks \ {MainTask} : turn'[s] = turn[s]
    BY <1>0, <1>2 DEF Collect, IdleTurn
  <2> QED BY <1>2, <2>1, <2>2, BusyUntouched DEF Collect, InCore, Done
<1>3. CASE Shutdown
  <2>1. turn'[MainTask] = turn[MainTask] \/ turn'[MainTask] = CancelAwaited(turn[MainTask])
    BY <1>0, <1>3 DEF Shutdown
  <2>2. \/ turn'[MainTask].pc = turn[MainTask].pc
        \/ /\ turn[MainTask].pc \notin InCore
           /\ turn'[MainTask].pc \notin InCore
    <3>1. CASE turn'[MainTask] = CancelAwaited(turn[MainTask])
      <4>1. /\ turn'[MainTask].pc \in {turn[MainTask].pc, "cancelled"}
            /\ turn'[MainTask].pc = "cancelled" => turn[MainTask].pc \in {"error", "cancelled"}
        BY <1>0, <3>1, ShutdownOnly
      <4> QED BY <4>1 DEF InCore
    <3> QED BY <2>1, <3>1
  <2>3. turn'[MainTask].key = turn[MainTask].key
        /\ \A s \in Tasks \ {MainTask} : turn'[s] = turn[s]
    BY <1>0, <1>3, <2>1, ShutdownOnly DEF Shutdown
  <2>4. \A t \in Tasks : turn[t].pc \in InCore \/ turn'[t].pc \in InCore =>
             turn'[t].pc \in InCore /\ turn[t].pc \in InCore /\ turn'[t].key = turn[t].key
    BY <2>2, <2>3
  <2> QED BY <1>3, <2>4, BusyUntouched DEF Shutdown
<1>4. CASE \E c \in Chats : RequestInterrupt(c)
  <2>1. turn'[MainTask] = [turn[MainTask] EXCEPT !.cancel = TRUE]
        /\ (\A s \in Tasks \ {MainTask} : turn'[s] = turn[s]) /\ busy' = busy
    BY <1>0, <1>4 DEF RequestInterrupt
  <2>2. turn'[MainTask].pc = turn[MainTask].pc /\ turn'[MainTask].key = turn[MainTask].key
    BY <1>0, <2>1, CancelOnly
  <2>3. \A t \in Tasks : turn'[t].pc = turn[t].pc /\ turn'[t].key = turn[t].key
    BY <2>1, <2>2
  <2> QED BY <2>1, <2>3, BusyUntouched
<1>5. CASE StartTurn
  <2>1. turn[MainTask].pc \notin InCore /\ turn'[MainTask].pc \notin InCore
        /\ (\A s \in Tasks \ {MainTask} : turn'[s] = turn[s]) /\ busy' = busy
    BY <1>0, <1>5, StartStep DEF StartTurn, InCore, Typed
  <2> QED BY <2>1, BusyUntouched
<1>6. CASE \E t \in Tasks : Advance(t)
  <2> PICK t \in Tasks : Advance(t)
    BY <1>6
  <2>1. turn[t].key \in Keys
    BY AdvanceStep DEF Typed, TurnShape, Tasks, Keys, Running
  <2>2. CASE Enter(t)
    <3>1. PICK p \in InCore : turn' = [turn EXCEPT ![t].pc = p]
      BY <2>2 DEF Enter, InCore
    <3>2. turn[t].pc \notin InCore /\ busy' = [busy EXCEPT ![turn[t].key] = @ + 1]
      BY <2>2 DEF Enter, InCore
    <3> QED BY <2>1, <3>1, <3>2, BusyEntered
  <2>3. CASE SyncTools(t) \/ Commit(t)
    <3>1. PICK p \in InCore : turn' = [turn EXCEPT ![t].pc = p]
      BY <2>3 DEF SyncTools, Commit, InCore
    <3>2. turn[t].pc \in InCore /\ busy' = busy
      BY <2>3 DEF SyncTools, Commit, InCore
    <3>3. turn'[t].pc = p /\ turn'[t].key = turn[t].key /\ \A s \in Tasks \ {t} : turn'[s] = turn[s]
      BY <1>0, <3>1, PhaseOnly
    <3> QED BY <3>2, <3>3, BusyUntouched
  <2>4. CASE Finish(t) \/ ControlReply(t) \/ Raise(t)
    <3>1. PICK p \in Done : Leave(t, p)
      BY <2>4 DEF Finish, ControlReply, Raise, Return, Done
    <3>2. turn[t].pc \in InCore
      BY <2>4 DEF Finish, ControlReply, Raise, InCore
    <3> QED BY <2>1, <3>1, <3>2, BusyLeft
  <2>5. CASE Cancelled(t)
    <3>1. CASE turn[t].pc \in InCore
      <4>1. Leave(t, "cancelled") /\ "cancelled" \in Done
        BY <2>5, <3>1 DEF Cancelled, Done
      <4> QED BY <2>1, <3>1, <4>1, BusyLeft
    <3>2. CASE turn[t].pc \notin InCore
      <4>1. turn' = [turn EXCEPT ![t].pc = "cancelled"] /\ busy' = busy
        BY <2>5, <3>2 DEF Cancelled
      <4>2. turn'[t].pc = "cancelled" /\ \A s \in Tasks \ {t} : turn'[s] = turn[s]
        BY <1>0, <4>1, PhaseOnly
      <4> QED BY <3>2, <4>1, <4>2, BusyUntouched DEF InCore
    <3> QED BY <3>1, <3>2
  <2> QED BY <2>2, <2>3, <2>4, <2>5 DEF Advance
<1>7. CASE \E d \in DirectTasks, k \in DirectKeys, c \in Chats : StartDirect(d, k, c)
  <2> PICK d \in DirectTasks, k \in DirectKeys, c \in Chats : StartDirect(d, k, c)
    BY <1>7
  <2>1. d \in Tasks /\ turn[d].pc = "idle" /\ turn'[d].pc = "observing" /\ busy' = busy
        /\ \A s \in Tasks \ {d} : turn'[s] = turn[s]
    BY <1>0 DEF StartDirect, Tasks
  <2> QED BY <2>1, BusyUntouched DEF InCore
<1>8. CASE \E d \in DirectTasks : EndDirect(d)
  <2> PICK d \in DirectTasks : EndDirect(d)
    BY <1>8
  <2>1. d \in Tasks /\ turn[d].pc \in Done /\ turn'[d].pc = "idle" /\ busy' = busy
        /\ \A s \in Tasks \ {d} : turn'[s] = turn[s]
    BY <1>0 DEF EndDirect, IdleTurn, Tasks
  <2> QED BY <2>1, BusyUntouched DEF InCore, Done
<1>9. CASE \/ \E c \in Chats, kind \in {"user", "spawn"} : PublishInbound(c, kind)
           \/ \E c \in Chats : Expire(c)
  BY <1>9, BusyUntouched DEF PublishInbound, Expire
<1> QED BY <1>1, <1>2, <1>3, <1>4, <1>5, <1>6, <1>7, <1>8, <1>9 DEF Next, Advance

\* Whatever mix of replies, errors, interrupts and concurrent direct turns, a
\* session's busy counter is the number of its turns inside the core runner.
THEOREM BusyIsExact == Spec => []BusyMatchesTurns
<1>1. Init => BusyMatchesTurns
  <2> SUFFICES ASSUME Init PROVE BusyMatchesTurns
    OBVIOUS
  <2>1. \A k \in Keys : InCoreOf(k) = {}
    BY DEF Init, InCoreOf, InCore, IdleTurn
  <2> QED BY <2>1, FS_EmptySet DEF Init, BusyMatchesTurns
<1>2. Typed /\ Awaiting /\ BusyMatchesTurns /\ [Next]_vars => BusyMatchesTurns'
  <2>1. ASSUME UNCHANGED vars, BusyMatchesTurns PROVE BusyMatchesTurns'
    BY <2>1 DEF BusyMatchesTurns, InCoreOf, vars
  <2> QED BY <2>1, BusyStep
<1> QED BY <1>1, <1>2, TypedAlways, AwaitingAlways, PTL DEF Spec

-----------------------------------------------------------------------------
(* Where a request can be: the ledger that AnsweredIsOver and               *)
(* NoReplyAfterStop follow from.                                            *)

\* The turn that run() started.
Main == turn[MainTask]
\* The requests published so far.
Issued == 1 .. published
\* It is not over.
AtWork == {"created"} \cup Running

\* A queued request is in one place of the queue only, and nowhere else.
QueueDistinct ==
    \A i, j \in 1 .. Len(inbound) : i # j => inbound[i].id # inbound[j].id
\* A queued request is nowhere else.
QueueFresh ==
    \A r : Queued(r) => /\ r \in Issued
                        /\ r \notin Main.carries
                        /\ r \notin answered
                        /\ r \notin promised
                        /\ \A c \in Chats : r \notin parked[c].carries
\* Only published requests are carried, kept or answered.
OnlyIssued ==
    /\ Main.carries \subseteq Issued
    /\ answered \subseteq Issued
    /\ promised \subseteq Issued
    /\ \A c \in Chats : parked[c].carries \subseteq Issued
\* A request is kept for one chat, and carried by that chat's turn only.
KeptOnce ==
    /\ \A c, d \in Chats : c # d => parked[c].carries \cap parked[d].carries = {}
    /\ \A c \in Chats \ {Main.key} : Main.carries \cap parked[c].carries = {}
\* An answered request is neither kept nor carried by an unfinished turn.
AnsweredGone ==
    /\ \A c \in Chats : parked[c].carries \cap answered = {}
    /\ Main.pc \notin {"idle", "ok"} => Main.carries \cap answered = {}
\* A turn that was not interrupted shares requests with its chat's kept state
\* only if it picked that state up.
FreshTurn ==
    /\ Main.pc \notin {"idle", "ok"} /\ ~Main.resumed /\ ~Main.cancel =>
          Main.carries \cap parked[Main.key].carries = {}
    /\ Main.pc = "created" => ~Main.resumed
\* A turn that was not interrupted carries a request that was not promised.
OwnRequest ==
    Main.pc \in AtWork /\ ~Main.cancel => \E r \in Main.carries : r \notin promised

\* Where a request may be, part by part.
Ledger == /\ QueueDistinct /\ QueueFresh /\ OnlyIssued /\ KeptOnce
          /\ AnsweredGone /\ FreshTurn /\ OwnRequest

\* There are none at the start.
LEMMA LedgerInit == Init => Ledger
BY LoopConstants DEF LoopConstants, Init, Ledger, QueueDistinct, QueueFresh, Queued,
   OnlyIssued, KeptOnce, AnsweredGone, FreshTurn, OwnRequest, Main, IdleTurn, NoState,
   Issued, AtWork, Running, Tasks

\* A step that only moves the main task's phase towards its end, or cancels it.
LEMMA LedgerQuiet ==
  ASSUME Typed, Ledger,
         UNCHANGED <<inbound, published, parked, answered, promised>>,
         Main'.key = Main.key, Main'.carries = Main.carries, Main'.resumed = Main.resumed,
         Main'.pc \notin {"idle", "ok"} => Main.pc \notin {"idle", "ok"},
         ~Main'.cancel => ~Main.cancel,
         Main'.pc = "created" => Main.pc = "created",
         Main'.pc \in AtWork /\ ~Main'.cancel => Main.pc \in AtWork
  PROVE  Ledger'
<1>1. \A r : Queued(r)' <=> Queued(r)
  BY DEF Queued
<1>2. QueueDistinct' /\ QueueFresh' /\ OnlyIssued' /\ KeptOnce'
  BY <1>1 DEF Ledger, QueueDistinct, QueueFresh, OnlyIssued, KeptOnce, Issued
<1>3. AnsweredGone' /\ FreshTurn' /\ OwnRequest'
  BY DEF Ledger, AnsweredGone, FreshTurn, OwnRequest
<1> QED BY <1>2, <1>3 DEF Ledger

\* A new request is in one place.
LEMMA LedgerPublish ==
  ASSUME Typed, Ledger, NEW c \in Chats, NEW kind \in {"user", "spawn"},
         PublishInbound(c, kind)
  PROVE  Ledger'
<1> DEFINE item == [id |-> published + 1, chat |-> c, kind |-> kind]
<1>1. /\ inbound \in Seq(Item) /\ published \in Nat /\ published' = published + 1
      /\ inbound' = Append(inbound, item) /\ item.id = published + 1
      /\ UNCHANGED <<parked, answered, promised, turn>>
  BY LoopConstants DEF PublishInbound, Typed, TypeOK, LoopConstants
<1> HIDE DEF item
<1>2. Len(inbound') = Len(inbound) + 1 /\ Len(inbound) \in Nat
      /\ inbound'[Len(inbound) + 1] = item
      /\ \A i \in 1 .. Len(inbound) : inbound'[i] = inbound[i]
  BY <1>1
<1>3. \A r : Queued(r)' => Queued(r) \/ r = published + 1
  BY <1>1, <1>2 DEF Queued
<1>4. \A i \in 1 .. Len(inbound) : inbound[i].id \in Issued
  BY DEF Ledger, QueueFresh, Queued
<1>5. Issued' = Issued \cup {published + 1} /\ published + 1 \notin Issued
  BY <1>1 DEF Issued
<1>6. QueueDistinct'
  BY <1>1, <1>2, <1>4, <1>5 DEF Ledger, QueueDistinct
<1>7. Main' = Main
  BY <1>1 DEF Main
<1>8. QueueFresh' /\ OnlyIssued'
  BY <1>1, <1>3, <1>5, <1>7 DEF Ledger, QueueFresh, OnlyIssued
<1>9. KeptOnce' /\ AnsweredGone' /\ FreshTurn' /\ OwnRequest'
  BY <1>1, <1>7 DEF Ledger, KeptOnce, AnsweredGone, FreshTurn, OwnRequest
<1> QED BY <1>6, <1>8, <1>9 DEF Ledger

\* A turn takes the first request of the queue.
LEMMA LedgerConsume == ASSUME Typed, Ledger, Consume PROVE Ledger'
<1> DEFINE h == Head(inbound)
           r0 == [pc |-> "created", key |-> h.chat, chat |-> h.chat, kind |-> h.kind,
                  carries |-> {h.id}, resumed |-> FALSE, cancel |-> FALSE]
<1>1. /\ inbound \in Seq(Item) /\ inbound # <<>> /\ inbound' = Tail(inbound)
      /\ turn \in [Tasks -> Turn] /\ turn' = [turn EXCEPT ![MainTask] = r0]
      /\ MainTask \in Tasks
      /\ UNCHANGED <<published, parked, answered, promised>>
  BY DEF Consume, Typed, TypeOK, Tasks
<1>2. Main' = r0
  BY <1>1 DEF Main
<1>3. Main'.carries = {h.id} /\ Main'.key = h.chat /\ Main'.pc = "created" /\ ~Main'.resumed
  BY <1>2
<1> HIDE DEF r0
<1>4. Len(inbound) \in Nat /\ Len(inbound) > 0 /\ Len(inbound') = Len(inbound) - 1
      /\ h = inbound[1] /\ \A i \in 1 .. Len(inbound') : inbound'[i] = inbound[i + 1]
  BY <1>1
<1> HIDE DEF h
<1>5. Queued(h.id)
  BY <1>4 DEF Queued
<1>6. \A r : Queued(r)' => Queued(r) /\ r # h.id
  <2> SUFFICES ASSUME NEW r, Queued(r)' PROVE Queued(r) /\ r # h.id
    OBVIOUS
  <2>1. PICK i \in 1 .. Len(inbound') : inbound'[i].id = r
    BY DEF Queued
  <2>2. i + 1 \in 1 .. Len(inbound) /\ inbound[i + 1].id = r /\ i + 1 # 1 /\ 1 \in 1 .. Len(inbound)
    BY <1>4, <2>1
  <2>3. inbound[i + 1].id # inbound[1].id
    BY <2>2 DEF Ledger, QueueDistinct
  <2> QED BY <1>4, <2>2, <2>3 DEF Queued
<1>7. QueueDistinct'
  <2> SUFFICES ASSUME NEW i \in 1 .. Len(inbound'), NEW j \in 1 .. Len(inbound'), i # j
               PROVE  inbound'[i].id # inbound'[j].id
    BY DEF QueueDistinct
  <2>1. i + 1 \in 1 .. Len(inbound) /\ j + 1 \in 1 .. Len(inbound) /\ i + 1 # j + 1
    BY <1>4
  <2> QED BY <1>4, <2>1 DEF Ledger, QueueDistinct
<1>8. h.id \in Issued /\ h.id \notin answered /\ h.id \notin promised
      /\ \A c \in Chats : h.id \notin parked[c].carries
  BY <1>5 DEF Ledger, QueueFresh
<1>9. h.chat \in Chats
  <2>1. h \in Item
    BY <1>1, <1>4
  <2> QED BY <2>1 DEF Item
<1>10. QueueFresh' /\ OnlyIssued'
  BY <1>1, <1>3, <1>6, <1>8 DEF Ledger, QueueFresh, OnlyIssued, Issued
<1>11. KeptOnce'
  <2>1. \A c \in Chats : Main'.carries \cap parked'[c].carries = {}
    BY <1>1, <1>3, <1>8
  <2>2. \A c, d \in Chats : c # d => parked'[c].carries \cap parked'[d].carries = {}
    BY <1>1 DEF Ledger, KeptOnce
  <2> QED BY <2>1, <2>2 DEF KeptOnce
<1>13. AnsweredGone'
  <2>1. Main'.carries \cap answered' = {}
    BY <1>1, <1>3, <1>8
  <2>2. \A c \in Chats : parked'[c].carries \cap answered' = {}
    BY <1>1 DEF Ledger, AnsweredGone
  <2> QED BY <2>1, <2>2 DEF AnsweredGone
<1>12. FreshTurn' /\ OwnRequest'
  BY <1>1, <1>3, <1>8, <1>9 DEF Ledger, FreshTurn, OwnRequest
<1> QED BY <1>7, <1>10, <1>11, <1>12, <1>13 DEF Ledger

\* run() forgets the finished turn.
LEMMA LedgerCollect == ASSUME Typed, Ledger, Collect PROVE Ledger'
<1>1. /\ Main' = IdleTurn
      /\ UNCHANGED <<inbound, published, parked, answered, promised>>
  BY DEF Collect, Typed, TypeOK, Tasks, Main
<1>2. Main'.pc = "idle" /\ Main'.carries = {}
  BY <1>1 DEF IdleTurn
<1>3. \A r : Queued(r)' <=> Queued(r)
  BY <1>1 DEF Queued
<1>4. QueueDistinct' /\ QueueFresh' /\ OnlyIssued' /\ KeptOnce'
  BY <1>1, <1>2, <1>3 DEF Ledger, QueueDistinct, QueueFresh, OnlyIssued, KeptOnce, Issued
<1>5. AnsweredGone' /\ FreshTurn' /\ OwnRequest'
  BY <1>1, <1>2 DEF Ledger, AnsweredGone, FreshTurn, OwnRequest, AtWork, Running
<1> QED BY <1>4, <1>5 DEF Ledger

\* The text kept by an interrupt is the text the awaited turn carries.
LEMMA LedgerInterrupt ==
  ASSUME Typed, Awaiting, Ledger, NEW c \in Chats, RequestInterrupt(c)
  PROVE  Ledger'
<1>1. /\ loop = "await" /\ c = Main.key /\ activeState[c] = Main.carries
      /\ Main.pc \notin Done /\ Main.pc # "idle"
  BY DEF RequestInterrupt, Awaiting, OneInterruptibleTurn, Main
<1>2. turn' = [turn EXCEPT ![MainTask] = [turn[MainTask] EXCEPT !.cancel = TRUE]]
  BY DEF RequestInterrupt
<1>3. Main \in Turn /\ Main' = [Main EXCEPT !.cancel = TRUE]
  BY <1>2 DEF Typed, TypeOK, Tasks, Main
<1>4. /\ Main'.pc = Main.pc /\ Main'.cancel /\ Main'.key = Main.key
      /\ Main'.carries = Main.carries /\ Main'.resumed = Main.resumed
  BY <1>3, CancelOnly
<1>5. /\ parked \in [Chats -> Kept]
      /\ parked' = [parked EXCEPT ![c] = [carries |-> Main.carries, expired |-> FALSE]]
      /\ promised' = promised \cup Main.carries
      /\ UNCHANGED <<inbound, published, answered>>
  BY <1>1 DEF RequestInterrupt, Typed, TypeOK
<1>6. parked'[c].carries = Main.carries /\ \A d \in Chats \ {c} : parked'[d] = parked[d]
  BY <1>5
<1>7. \A r : Queued(r)' <=> Queued(r)
  BY <1>5 DEF Queued
<1>8. QueueDistinct' /\ QueueFresh'
  BY <1>4, <1>5, <1>6, <1>7 DEF Ledger, QueueDistinct, QueueFresh, Issued
<1>9. OnlyIssued'
  BY <1>4, <1>5, <1>6 DEF Ledger, OnlyIssued, Issued
<1>10. KeptOnce'
  <2>1. \A d \in Chats \ {c} : Main.carries \cap parked[d].carries = {}
    BY <1>1 DEF Ledger, KeptOnce
  <2>2. \A d \in Chats \ {Main'.key} : Main'.carries \cap parked'[d].carries = {}
    BY <1>1, <1>4, <1>6, <2>1
  <2>3. ASSUME NEW d \in Chats, NEW e \in Chats, d # e
        PROVE  parked'[d].carries \cap parked'[e].carries = {}
    BY <1>6, <2>1, <2>3 DEF Ledger, KeptOnce
  <2> QED BY <2>2, <2>3 DEF KeptOnce
<1>11. AnsweredGone'
  <2>1. Main.carries \cap answered = {}
    BY <1>1 DEF Ledger, AnsweredGone, Done
  <2> QED BY <1>4, <1>5, <1>6, <2>1 DEF Ledger, AnsweredGone
<1>12. FreshTurn' /\ OwnRequest'
  BY <1>4 DEF Ledger, FreshTurn, OwnRequest
<1> QED BY <1>8, <1>9, <1>10, <1>11, <1>12 DEF Ledger

\* An expired state keeps its requests, and they are promised no more.
LEMMA LedgerExpire ==
  ASSUME Typed, Ledger, NEW c \in Chats, Expire(c) PROVE Ledger'
<1>1. /\ parked \in [Chats -> Kept]
      /\ parked' = [parked EXCEPT ![c] = [parked[c] EXCEPT !.expired = TRUE]]
      /\ promised' = promised \ parked[c].carries
      /\ UNCHANGED <<inbound, published, answered, turn>>
  BY DEF Expire, Typed, TypeOK
<1>2. \A d \in Chats : parked'[d].carries = parked[d].carries
  BY <1>1 DEF Kept
<1>3. \A r : Queued(r)' <=> Queued(r)
  BY <1>1 DEF Queued
<1>4. Main' = Main
  BY <1>1 DEF Main
<1>5. QueueDistinct' /\ QueueFresh' /\ OnlyIssued' /\ KeptOnce'
  BY <1>1, <1>2, <1>3, <1>4 DEF Ledger, QueueDistinct, QueueFresh, OnlyIssued, KeptOnce, Issued
<1>6. AnsweredGone' /\ OwnRequest'
  BY <1>1, <1>2, <1>4 DEF Ledger, AnsweredGone, OwnRequest
<1>7. FreshTurn'
  BY <1>2, <1>4 DEF Ledger, FreshTurn, Typed, TurnShape, Main
<1> QED BY <1>5, <1>6, <1>7 DEF Ledger

\* A started turn takes on what is kept for its chat, and says that it did.
LEMMA LedgerStart == ASSUME Typed, Ledger, StartTurn PROVE Ledger'
<1> DEFINE m == turn[MainTask]
           picksUp == m.kind = "user" /\ Usable(m.key)
           text == IF picksUp THEN m.carries \cup parked[m.key].carries ELSE m.carries
<1>0. /\ m \in Turn /\ MainTask \in Tasks /\ turn \in [Tasks -> Turn] /\ m = Main
      /\ m.pc = "created" /\ m.key \in Chats /\ parked \in [Chats -> Kept]
      /\ UNCHANGED <<inbound, published, answered, promised>>
  BY DEF Typed, TypeOK, TurnShape, Tasks, Main, StartTurn
<1>1. CASE m.cancel
  <2>1. turn' = [turn EXCEPT ![MainTask].pc = "cancelled"] /\ parked' = parked
    BY <1>1 DEF StartTurn
  <2>2. /\ Main'.pc = "cancelled" /\ Main'.key = Main.key /\ Main'.cancel
        /\ Main'.carries = Main.carries /\ Main'.resumed = Main.resumed
    BY <1>0, <1>1, <2>1, PhaseOnly DEF Main
  <2> QED BY <1>0, <2>1, <2>2, LedgerQuiet DEF AtWork, Running
<1>2. CASE ~m.cancel
  <2>1. turn' = [turn EXCEPT ![MainTask] =
                  [m EXCEPT !.pc = "observing", !.carries = text, !.resumed = picksUp]]
        /\ parked' = IF m.kind = "user" /\ parked[m.key].expired
                     THEN [parked EXCEPT ![m.key] = NoState] ELSE parked
    BY <1>2 DEF StartTurn
  <2> HIDE DEF text, picksUp
  <2>2. /\ Main'.pc = "observing" /\ Main'.key = Main.key /\ ~Main'.cancel
        /\ Main'.carries = text /\ Main'.resumed = picksUp
    BY <1>0, <1>2, <2>1 DEF Main, Turn
  <2>3. \A c \in Chats : parked'[c].carries = {} \/ parked'[c].carries = parked[c].carries
    BY <1>0, <2>1 DEF NoState
  <2>4. /\ Main.carries \subseteq text
        /\ text \subseteq Main.carries \cup parked[m.key].carries
        /\ ~picksUp => text = Main.carries
    BY <1>0 DEF text
  <2>5. \A r : Queued(r)' <=> Queued(r)
    BY <1>0 DEF Queued
  <2>6. QueueDistinct' /\ QueueFresh'
    BY <1>0, <2>2, <2>3, <2>4, <2>5 DEF Ledger, QueueDistinct, QueueFresh, Issued
  <2>7. OnlyIssued'
    BY <1>0, <2>2, <2>3, <2>4 DEF Ledger, OnlyIssued, Issued
  <2>8. KeptOnce'
    <3>1. \A c, d \in Chats : c # d => parked'[c].carries \cap parked'[d].carries = {}
      BY <2>3 DEF Ledger, KeptOnce
    <3>2. \A c \in Chats \ {Main.key} : text \cap parked'[c].carries = {}
      BY <1>0, <2>3, <2>4 DEF Ledger, KeptOnce
    <3> QED BY <2>2, <3>1, <3>2 DEF KeptOnce
  <2>9. AnsweredGone'
    <3>1. Main.carries \cap answered = {} /\ parked[m.key].carries \cap answered = {}
      BY <1>0 DEF Ledger, AnsweredGone
    <3>2. text \cap answered = {}
      BY <2>4, <3>1
    <3>3. \A c \in Chats : parked'[c].carries \cap answered' = {}
      BY <1>0, <2>3 DEF Ledger, AnsweredGone
    <3> QED BY <1>0, <2>2, <3>2, <3>3 DEF AnsweredGone
  <2>10. FreshTurn'
    <3>1. ~picksUp => text \cap parked'[m.key].carries = {}
      BY <1>0, <1>2, <2>3, <2>4 DEF Ledger, FreshTurn
    <3> QED BY <1>0, <2>2, <3>1 DEF FreshTurn
  <2>11. OwnRequest'
    BY <1>0, <1>2, <2>2, <2>4 DEF Ledger, OwnRequest, AtWork
  <2> QED BY <2>6, <2>7, <2>8, <2>9, <2>10, <2>11 DEF Ledger
<1> QED BY <1>1, <1>2

\* A turn that returns answers all it carries and leaves none of it kept.
LEMMA LedgerReturn ==
  ASSUME Typed, Ledger, Return(MainTask), Main.pc \in Running PROVE Ledger'
<1>0. /\ turn \in [Tasks -> Turn] /\ MainTask \in Tasks /\ parked \in [Chats -> Kept]
      /\ Main.key \in Chats /\ Main.pc \notin {"idle", "ok", "created"} /\ ~Main.cancel
  BY DEF Typed, TypeOK, TurnShape, Tasks, Main, Running, Return, Live
<1>1. /\ turn' = [turn EXCEPT ![MainTask].pc = "ok"]
      /\ answered' = answered \cup Main.carries
      /\ promised' = promised \ Main.carries
      /\ parked' = IF Main.resumed THEN [parked EXCEPT ![Main.key] = NoState] ELSE parked
      /\ UNCHANGED <<inbound, published>>
  BY DEF Return, Leave, Main
<1>2. /\ Main'.pc = "ok" /\ Main'.key = Main.key
      /\ Main'.carries = Main.carries /\ Main'.resumed = Main.resumed
  BY <1>0, <1>1, PhaseOnly DEF Main
<1>3. \A c \in Chats : parked'[c].carries = {} \/ parked'[c].carries = parked[c].carries
  BY <1>0, <1>1 DEF NoState
<1>4. \A c \in Chats : Main.carries \cap parked'[c].carries = {}
  <2>1. \A c \in Chats \ {Main.key} : Main.carries \cap parked'[c].carries = {}
    BY <1>3 DEF Ledger, KeptOnce
  <2>2. Main.carries \cap parked'[Main.key].carries = {}
    BY <1>0, <1>1 DEF Ledger, FreshTurn, NoState
  <2> QED BY <2>1, <2>2
<1>5. \A r : Queued(r)' <=> Queued(r)
  BY <1>1 DEF Queued
<1>6. QueueDistinct' /\ QueueFresh'
  BY <1>1, <1>2, <1>3, <1>5 DEF Ledger, QueueDistinct, QueueFresh, Issued
<1>7. OnlyIssued'
  BY <1>1, <1>2, <1>3 DEF Ledger, OnlyIssued, Issued
<1>8. KeptOnce'
  <2>1. \A c, d \in Chats : c # d => parked'[c].carries \cap parked'[d].carries = {}
    BY <1>3 DEF Ledger, KeptOnce
  <2> QED BY <1>2, <1>4, <2>1 DEF KeptOnce
<1>9. AnsweredGone'
  <2>1. \A c \in Chats : parked'[c].carries \cap answered = {}
    BY <1>3 DEF Ledger, AnsweredGone
  <2> QED BY <1>1, <1>2, <1>4, <2>1 DEF AnsweredGone
<1>10. FreshTurn' /\ OwnRequest'
  BY <1>2 DEF FreshTurn, OwnRequest, AtWork, Running
<1> QED BY <1>6, <1>7, <1>8, <1>9, <1>10 DEF Ledger

\* A direct turn carries no request: whatever it does leaves the ledger alone.
LEMMA LedgerAdvance ==
  ASSUME Typed, Ledger, NEW t \in Tasks, Advance(t) PROVE Ledger'
<1>0. turn \in [Tasks -> Turn] /\ MainTask \in Tasks /\ UNCHANGED <<inbound, published>>
  BY AdvanceStep DEF Typed, TypeOK, Tasks
<1>1. PICK p \in Running \cup Done : turn' = [turn EXCEPT ![t].pc = p]
  BY AdvanceStep DEF Typed
<1>2. turn[t].pc \in Running
  BY AdvanceStep DEF Typed
<1>3. CASE t # MainTask
  <2>1. t \in DirectTasks /\ Main' = Main
    BY <1>0, <1>1, <1>3 DEF Main, Tasks
  <2>2. turn[t].carries = {} /\ ~turn[t].resumed
    BY <2>1 DEF Typed, TurnShape
  <2>3. UNCHANGED <<parked, answered, promised>>
    BY <2>2 DEF Advance, Enter, SyncTools, Commit, Finish, ControlReply, Raise,
       Cancelled, Return, Leave
  <2> QED BY <1>0, <2>1, <2>3, LedgerQuiet
<1>4. CASE t = MainTask
  <2>1. /\ Main'.pc = p /\ Main'.key = Main.key /\ Main'.carries = Main.carries
        /\ Main'.resumed = Main.resumed /\ Main'.cancel = Main.cancel
    BY <1>0, <1>1, <1>4, PhaseOnly DEF Main
  <2>2. Main.pc \in AtWork /\ Main.pc \notin {"idle", "ok"} /\ p # "created"
    BY <1>2, <1>4 DEF Main, AtWork, Running, Done
  <2>3. CASE Finish(t) \/ ControlReply(t)
    <3>1. Return(MainTask)
      BY <1>4, <2>3 DEF Finish, ControlReply
    <3> QED BY <1>2, <1>4, <3>1, LedgerReturn DEF Main
  <2>4. CASE Enter(t) \/ SyncTools(t) \/ Commit(t) \/ Raise(t) \/ Cancelled(t)
    <3>1. UNCHANGED <<parked, answered, promised>>
      BY <2>4 DEF Enter, SyncTools, Commit, Raise, Cancelled
    <3> QED BY <1>0, <2>1, <2>2, <3>1, LedgerQuiet
  <2> QED BY <2>3, <2>4 DEF Advance
<1> QED BY <1>3, <1>4

\* Every step keeps the ledger.
LEMMA LedgerStep == ASSUME Typed, Awaiting, Ledger, Next PROVE Ledger'
<1>0. turn \in [Tasks -> Turn] /\ MainTask \in Tasks /\ Main \in Turn
  BY DEF Typed, TypeOK, Tasks, Main
<1>1. CASE Shutdown
  <2>1. UNCHANGED <<inbound, published, parked, answered, promised>>
    BY <1>1 DEF Shutdown
  <2>2. CASE loop = "consume"
    <3>1. Main' = Main
      BY <1>1, <2>2 DEF Shutdown, Main
    <3> QED BY <2>1, <3>1, LedgerQuiet
  <2>3. CASE loop = "await"
    <3>1. Main' = CancelAwaited(Main) /\ Main.pc # "idle"
      BY <1>0, <1>1, <2>3 DEF Shutdown, Awaiting, Main
    <3>2. /\ Main'.key = Main.key /\ Main'.carries = Main.carries
          /\ Main'.resumed = Main.resumed
          /\ Main.cancel => Main'.cancel
          /\ Main'.pc \in {Main.pc, "cancelled"}
          /\ Main'.pc = "cancelled" => Main.pc \in {"error", "cancelled"}
      BY <1>0, <3>1, ShutdownOnly
    <3>3. \/ Main'.pc = Main.pc
          \/ Main'.pc = "cancelled" /\ Main.pc \in {"error", "cancelled"}
      BY <3>2
    <3>4. ~Main'.cancel => ~Main.cancel
      BY <3>2
    <3>5. /\ Main'.pc \notin {"idle", "ok"} => Main.pc \notin {"idle", "ok"}
          /\ Main'.pc = "created" => Main.pc = "created"
          /\ Main'.pc \in AtWork => Main.pc \in AtWork
      BY <3>1, <3>3 DEF AtWork, Running
    <3> QED BY <2>1, <3>2, <3>4, <3>5, LedgerQuiet
  <2> QED BY <1>1, <2>2, <2>3 DEF Shutdown
<1>2. CASE \/ \E d \in DirectTasks, k \in DirectKeys, c \in Chats : StartDirect(d, k, c)
           \/ \E d \in DirectTasks : EndDirect(d)
  <2>1. Main' = Main /\ UNCHANGED <<inbound, published, parked, answered, promised>>
    BY <1>0, <1>2, LoopConstants DEF StartDirect, EndDirect, Main, LoopConstants
  <2> QED BY <2>1, LedgerQuiet
<1> QED BY <1>1, <1>2, LedgerPublish, LedgerConsume, LedgerCollect, LedgerInterrupt,
       LedgerExpire, LedgerStart, LedgerAdvance DEF Next, Advance

\* It holds in every state.
LEMMA LedgerAlways == Spec => []Ledger
<1>1. Typed /\ Awaiting /\ Ledger /\ [Next]_vars => Ledger'
  <2>1. ASSUME UNCHANGED vars, Ledger PROVE Ledger'
    BY <2>1 DEF Ledger, QueueDistinct, QueueFresh, Queued, OnlyIssued, KeptOnce,
       AnsweredGone, FreshTurn, OwnRequest, Main, Issued, vars
  <2> QED BY <2>1, LedgerStep
<1> QED BY <1>1, LedgerInit, TypedAlways, AwaitingAlways, PTL DEF Spec

\* A request that has been answered is not queued, not kept for a later message
\* and not carried by an unfinished turn.
THEOREM AnsweredOnce == Spec => []AnsweredIsOver
<1>1. Ledger => AnsweredIsOver
  <2> SUFFICES ASSUME Ledger, NEW r \in answered
               PROVE  /\ \A c \in Chats : r \notin parked[c].carries
                      /\ \A i \in 1 .. Len(inbound) : inbound[i].id # r
                      /\ turn[MainTask].pc \notin {"idle", "ok"} => r \notin turn[MainTask].carries
    BY DEF AnsweredIsOver
  <2>1. ~Queued(r)
    BY DEF Ledger, QueueFresh
  <2> QED BY <2>1 DEF Queued, Ledger, AnsweredGone, Main
<1> QED BY <1>1, LedgerAlways, PTL

\* Every reply settles at least one request that nobody has interrupted: a turn
\* that was stopped dispatches nothing.
THEOREM StoppedIsSilent == Spec => NoReplyAfterStop
<1> DEFINE Silent == answered' # answered => \E r \in answered' \ answered : r \notin promised
<1>1. ASSUME Typed, Ledger, Next PROVE Silent
  <2> SUFFICES ASSUME answered' # answered
               PROVE  \E r \in answered' \ answered : r \notin promised
    OBVIOUS
  <2>1. PICK t \in Tasks : Advance(t)
    BY <1>1 DEF Next, Advance, PublishInbound, Consume, Collect, Shutdown, RequestInterrupt,
       Expire, StartTurn, StartDirect, EndDirect
  <2>2. Return(t) /\ turn[t].pc \in Running
    BY <2>1 DEF Advance, Enter, SyncTools, Commit, Finish, ControlReply, Raise, Cancelled,
       Leave, Running
  <2>3. answered' = answered \cup turn[t].carries /\ ~turn[t].cancel
    BY <2>2 DEF Return, Live
  <2>4. t = MainTask
    BY <1>1, <2>3 DEF Typed, TurnShape, Tasks
  <2>5. PICK r \in Main.carries : r \notin promised
    BY <1>1, <2>2, <2>3, <2>4 DEF Ledger, OwnRequest, AtWork, Main
  <2>6. r \notin answered
    BY <1>1, <2>2, <2>4, <2>5 DEF Ledger, AnsweredGone, Main, Running
  <2> QED BY <2>3, <2>4, <2>5, <2>6 DEF Main
<1>2. Typed /\ Ledger /\ [Next]_vars => [Silent]_vars
  BY <1>1
<1> QED BY <1>2, TypedAlways, LedgerAlways, PTL DEF Spec, NoReplyAfterStop

-----------------------------------------------------------------------------
(* The loop implements RequestLifecycle.  Besides the ledger the mapping    *)
(* needs to know which requests are settled.                                *)

\* A failed request is queued, kept and carried nowhere; what an answered turn
\* carried is answered; a turn that picked the kept state up carries all of it.
FailedGone ==
    /\ failed \subseteq Issued
    /\ \A r : Queued(r) => r \notin failed
    /\ \A c \in Chats : parked[c].carries \cap failed = {}
    /\ Main.carries \cap failed = {}
\* A turn that returned has answered,
OkAnswered == Main.pc = "ok" => Main.carries \subseteq answered
\* one that resumed carries all of the state it picked up,
ResumedAll == Main.resumed => parked[Main.key].carries \subseteq Main.carries
\* and a free slot carries nothing.
IdleIsEmpty == Main.pc = "idle" => Main.carries = {} /\ ~Main.resumed

\* What has become of requests, part by part.
Settled == FailedGone /\ OkAnswered /\ ResumedAll /\ IdleIsEmpty

\* There are none at the start.
LEMMA SettledInit == Init => Settled
BY LoopConstants DEF LoopConstants, Init, Settled, FailedGone, Queued, OkAnswered,
   ResumedAll, IdleIsEmpty, Main, IdleTurn, NoState, Issued, Tasks

\* A step that keeps what is carried, kept and failed.
LEMMA SettledQuiet ==
  ASSUME Settled,
         UNCHANGED <<inbound, published, failed>>,
         answered \subseteq answered',
         \A c \in Chats : parked'[c].carries \subseteq parked[c].carries,
         Main'.resumed => Main'.key \in Chats,
         Main'.key = Main.key, Main'.carries = Main.carries, Main'.resumed = Main.resumed,
         Main'.pc = "idle" => Main.pc = "idle",
         Main'.pc = "ok" => Main.pc = "ok" \/ Main.carries \subseteq answered'
  PROVE  Settled'
<1>1. \A r : Queued(r)' <=> Queued(r)
  BY DEF Queued
<1>2. FailedGone'
  BY <1>1 DEF Settled, FailedGone, Issued
<1>3. OkAnswered' /\ ResumedAll' /\ IdleIsEmpty'
  BY DEF Settled, OkAnswered, ResumedAll, IdleIsEmpty
<1> QED BY <1>2, <1>3 DEF Settled

\* A new request has not failed.
LEMMA SettledPublish ==
  ASSUME Typed, Ledger, Settled, NEW c \in Chats, NEW kind \in {"user", "spawn"},
         PublishInbound(c, kind)
  PROVE  Settled'
<1>1. /\ inbound \in Seq(Item) /\ published \in Nat /\ published' = published + 1
      /\ inbound' = Append(inbound, [id |-> published + 1, chat |-> c, kind |-> kind])
      /\ UNCHANGED <<parked, answered, failed, turn>>
  BY LoopConstants DEF PublishInbound, Typed, TypeOK, LoopConstants
<1>2. \A r : Queued(r)' => Queued(r) \/ r = published + 1
  <2> SUFFICES ASSUME NEW i \in 1 .. Len(inbound')
               PROVE  Queued(inbound'[i].id) \/ inbound'[i].id = published + 1
    BY DEF Queued
  <2> QED BY <1>1 DEF Queued
<1>3. Issued' = Issued \cup {published + 1} /\ published + 1 \notin Issued
  BY <1>1 DEF Issued
<1>4. Main' = Main
  BY <1>1 DEF Main
<1>5. FailedGone'
  BY <1>1, <1>2, <1>3, <1>4 DEF Settled, FailedGone
<1> QED BY <1>1, <1>4, <1>5 DEF Settled, OkAnswered, ResumedAll, IdleIsEmpty

\* What run() does when it takes an item.
LEMMA ConsumeStep ==
  ASSUME Typed, Awaiting, Ledger, Consume
  PROVE  /\ Main.pc = "idle" /\ Queued(Head(inbound).id)
         /\ Head(inbound).id \in ItemIds
         /\ Main'.pc = "created" /\ Main'.carries = {Head(inbound).id} /\ ~Main'.resumed
         /\ \A r : Queued(r)' <=> Queued(r) /\ r # Head(inbound).id
         /\ UNCHANGED <<published, parked, answered, failed>>
<1>1. /\ inbound \in Seq(Item) /\ inbound # <<>> /\ inbound' = Tail(inbound)
      /\ turn \in [Tasks -> Turn] /\ MainTask \in Tasks
      /\ UNCHANGED <<published, parked, answered, failed>>
  BY DEF Consume, Typed, TypeOK, Tasks
<1>2. /\ Main'.pc = "created" /\ Main'.carries = {Head(inbound).id} /\ ~Main'.resumed
  BY <1>1 DEF Consume, Main
<1> DEFINE h == Head(inbound)
<1>3. Len(inbound) \in Nat /\ Len(inbound) > 0 /\ Len(inbound') = Len(inbound) - 1
      /\ h = inbound[1] /\ \A i \in 1 .. Len(inbound') : inbound'[i] = inbound[i + 1]
  BY <1>1
<1>4. h.id \in ItemIds
  <2>1. h \in Item
    BY <1>1, <1>3
  <2> QED BY <2>1 DEF Item
<1> HIDE DEF h
<1>5. Queued(h.id)
  BY <1>3 DEF Queued
<1>6. \A r : Queued(r)' => Queued(r) /\ r # h.id
  <2> SUFFICES ASSUME NEW r, Queued(r)' PROVE Queued(r) /\ r # h.id
    OBVIOUS
  <2>1. PICK i \in 1 .. Len(inbound') : inbound'[i].id = r
    BY DEF Queued
  <2>2. i + 1 \in 1 .. Len(inbound) /\ inbound[i + 1].id = r /\ i + 1 # 1 /\ 1 \in 1 .. Len(inbound)
    BY <1>3, <2>1
  <2>3. inbound[i + 1].id # inbound[1].id
    BY <2>2 DEF Ledger, QueueDistinct
  <2> QED BY <1>3, <2>2, <2>3 DEF Queued
<1>7. \A r : Queued(r) /\ r # h.id => Queued(r)'
  <2> SUFFICES ASSUME NEW r, Queued(r), r # h.id PROVE Queued(r)'
    OBVIOUS
  <2>1. PICK i \in 1 .. Len(inbound) : inbound[i].id = r
    BY DEF Queued
  <2>2. i # 1
    BY <1>3, <2>1
  <2>3. i - 1 \in 1 .. Len(inbound') /\ inbound'[i - 1] = inbound[i]
    BY <1>3, <2>2
  <2> QED BY <2>1, <2>3 DEF Queued
<1>8. Main.pc = "idle"
  BY DEF Consume, Awaiting, OneInterruptibleTurn, Main
<1> QED BY <1>1, <1>2, <1>4, <1>5, <1>6, <1>7, <1>8 DEF h

\* Nor has one that is taken from the queue.
LEMMA SettledConsume == ASSUME Typed, Awaiting, Ledger, Settled, Consume PROVE Settled'
<1> DEFINE h == Head(inbound).id
<1> HIDE DEF h
<1>1. /\ Queued(h)
      /\ Main'.pc = "created" /\ Main'.carries = {h} /\ ~Main'.resumed
      /\ \A r : Queued(r)' <=> Queued(r) /\ r # h
      /\ UNCHANGED <<published, parked, answered, failed>>
  BY ConsumeStep DEF h
<1>2. FailedGone'
  BY <1>1 DEF Settled, FailedGone, Issued
<1> QED BY <1>1, <1>2 DEF Settled, OkAnswered, ResumedAll, IdleIsEmpty

\* A failed turn's notice covers what it carries and nothing keeps.
LEMMA SettledCollect == ASSUME Typed, Ledger, Settled, Collect PROVE Settled'
<1>0. /\ turn \in [Tasks -> Turn] /\ MainTask \in Tasks /\ Main.key \in Chats
      /\ Main.pc # "idle"
  BY DEF Typed, TypeOK, TurnShape, Tasks, Main, Collect, Done
<1>1. /\ Main' = IdleTurn
      /\ UNCHANGED <<inbound, published, parked, answered>>
      /\ failed' = IF Main.pc = "error" THEN failed \cup (Main.carries \ parked[Main.key].carries)
                                        ELSE failed
  BY <1>0 DEF Collect, Main
<1>2. Main'.pc = "idle" /\ Main'.carries = {} /\ ~Main'.resumed
  BY <1>1 DEF IdleTurn
<1>3. \A r : Queued(r)' <=> Queued(r)
  BY <1>1 DEF Queued
<1>4. failed' \subseteq failed \cup Main.carries
  BY <1>1
<1>5. \A c \in Chats : parked'[c].carries \cap failed' = {}
  <2>1. \A c \in Chats : parked[c].carries \cap (Main.carries \ parked[Main.key].carries) = {}
    BY <1>0 DEF Ledger, KeptOnce
  <2> QED BY <1>1, <2>1 DEF Settled, FailedGone
<1>6. FailedGone'
  BY <1>1, <1>2, <1>3, <1>4, <1>5 DEF Settled, FailedGone, Issued, Ledger, QueueFresh, OnlyIssued
<1> QED BY <1>2, <1>6 DEF Settled, OkAnswered, ResumedAll, IdleIsEmpty

\* What an interrupt keeps is what the awaited turn carries.
LEMMA InterruptStep ==
  ASSUME Typed, Awaiting, NEW c \in Chats, RequestInterrupt(c)
  PROVE  /\ c = Main.key /\ Main.pc \notin Done /\ Main.pc # "idle"
         /\ Main'.pc = Main.pc /\ Main'.key = Main.key
         /\ Main'.carries = Main.carries /\ Main'.resumed = Main.resumed
         /\ parked'[c].carries = Main.carries
         /\ \A d \in Chats \ {c} : parked'[d] = parked[d]
         /\ UNCHANGED <<inbound, published, answered, failed>>
<1>1. /\ c = Main.key /\ activeState[c] = Main.carries
      /\ Main.pc \notin Done /\ Main.pc # "idle"
  BY DEF RequestInterrupt, Awaiting, OneInterruptibleTurn, Main
<1>2. turn' = [turn EXCEPT ![MainTask] = [turn[MainTask] EXCEPT !.cancel = TRUE]]
  BY DEF RequestInterrupt
<1>3. Main \in Turn /\ Main' = [Main EXCEPT !.cancel = TRUE]
  BY <1>2 DEF Typed, TypeOK, Tasks, Main
<1>4. /\ Main'.pc = Main.pc /\ Main'.key = Main.key
      /\ Main'.carries = Main.carries /\ Main'.resumed = Main.resumed
  BY <1>3, CancelOnly
<1>5. /\ parked \in [Chats -> Kept]
      /\ parked' = [parked EXCEPT ![c] = [carries |-> Main.carries, expired |-> FALSE]]
      /\ UNCHANGED <<inbound, published, answered, failed>>
  BY <1>1 DEF RequestInterrupt, Typed, TypeOK
<1> QED BY <1>1, <1>4, <1>5

\* An interrupt keeps what the turn carries.
LEMMA SettledInterrupt ==
  ASSUME Typed, Awaiting, Settled, NEW c \in Chats, RequestInterrupt(c)
  PROVE  Settled'
<1>1. \A r : Queued(r)' <=> Queued(r)
  BY InterruptStep DEF Queued
<1>2. FailedGone'
  BY <1>1, InterruptStep DEF Settled, FailedGone, Issued
<1>3. OkAnswered' /\ ResumedAll' /\ IdleIsEmpty'
  BY InterruptStep DEF Settled, OkAnswered, ResumedAll, IdleIsEmpty
<1> QED BY <1>2, <1>3 DEF Settled

\* Expiry changes no request's place.
LEMMA ExpireStep ==
  ASSUME Typed, NEW c \in Chats, Expire(c)
  PROVE  /\ \A d \in Chats : parked'[d].carries = parked[d].carries
         /\ UNCHANGED <<inbound, published, answered, failed, turn>>
<1>1. /\ parked \in [Chats -> Kept]
      /\ parked' = [parked EXCEPT ![c] = [parked[c] EXCEPT !.expired = TRUE]]
  BY DEF Expire, Typed, TypeOK
<1>2. \A d \in Chats : parked'[d].carries = parked[d].carries
  BY <1>1 DEF Kept
<1> QED BY <1>2 DEF Expire

\* What the first step of the main task does to the requests: a cancelled task
\* leaves them, an expired state is given up, a usable one is taken on.
LEMMA StartPlaces ==
  ASSUME Typed, Ledger, StartTurn
  PROVE  LET k == Main.key IN
         /\ Main.pc = "created" /\ k \in Chats /\ Main'.key = k
         /\ Main'.pc \in {"cancelled", "observing"}
         /\ UNCHANGED <<inbound, published, answered, failed>>
         /\ \A c \in Chats \ {k} : parked'[c].carries = parked[c].carries
         /\ \/ /\ Main'.carries = Main.carries /\ ~Main'.resumed
               /\ parked'[k].carries = parked[k].carries
            \/ /\ Main'.carries = Main.carries /\ ~Main'.resumed /\ ~Main.cancel
               /\ parked'[k].carries = {}
            \/ /\ Main'.carries = Main.carries \cup parked[k].carries /\ ~Main.cancel
               /\ parked'[k].carries = parked[k].carries
<1> DEFINE m == turn[MainTask]
           picksUp == m.kind = "user" /\ Usable(m.key)
           text == IF picksUp THEN m.carries \cup parked[m.key].carries ELSE m.carries
<1>0. /\ m \in Turn /\ MainTask \in Tasks /\ turn \in [Tasks -> Turn] /\ m = Main
      /\ m.pc = "created" /\ m.key \in Chats /\ parked \in [Chats -> Kept] /\ ~m.resumed
      /\ UNCHANGED <<inbound, published, answered, failed>>
  BY DEF Typed, TypeOK, TurnShape, Tasks, Main, StartTurn, Ledger, FreshTurn
<1>1. CASE m.cancel
  <2>1. turn' = [turn EXCEPT ![MainTask].pc = "cancelled"] /\ parked' = parked
    BY <1>1 DEF StartTurn
  <2>2. /\ Main'.pc = "cancelled" /\ Main'.key = Main.key
        /\ Main'.carries = Main.carries /\ Main'.resumed = Main.resumed
    BY <1>0, <1>1, <2>1, PhaseOnly DEF Main
  <2> QED BY <1>0, <2>1, <2>2
<1>2. CASE ~m.cancel
  <2>1. turn' = [turn EXCEPT ![MainTask] =
                  [m EXCEPT !.pc = "observing", !.carries = text, !.resumed = picksUp]]
        /\ parked' = IF m.kind = "user" /\ parked[m.key].expired
                     THEN [parked EXCEPT ![m.key] = NoState] ELSE parked
    BY <1>2 DEF StartTurn
  <2> HIDE DEF text, picksUp
  <2>2. /\ Main'.pc = "observing" /\ Main'.key = Main.key
        /\ Main'.carries = text /\ Main'.resumed = picksUp
    BY <1>0, <1>2, <2>1 DEF Main, Turn
  <2>3. CASE picksUp
    <3>1. text = m.carries \cup parked[m.key].carries /\ ~parked[m.key].expired
      BY <2>3 DEF text, picksUp, Usable
    <3>2. parked' = parked
      BY <2>1, <3>1
    <3> QED BY <1>0, <1>2, <2>2, <3>1, <3>2
  <2>4. CASE ~picksUp
    <3>1. text = m.carries
      BY <2>4 DEF text
    <3>2. parked' = parked \/ parked' = [parked EXCEPT ![m.key] = NoState]
      BY <2>1
    <3>3. CASE parked' = parked
      BY <1>0, <2>2, <2>4, <3>1, <3>3
    <3>4. CASE parked' = [parked EXCEPT ![m.key] = NoState]
      BY <1>0, <1>2, <2>2, <2>4, <3>1, <3>4 DEF NoState
    <3> QED BY <3>2, <3>3, <3>4
  <2> QED BY <2>3, <2>4
<1> QED BY <1>1, <1>2

\* A turn may pick that up.
LEMMA SettledStart == ASSUME Typed, Ledger, Settled, StartTurn PROVE Settled'
<1>1. \A r : Queued(r)' <=> Queued(r)
  BY StartPlaces DEF Queued
<1>2. \A c \in Chats : parked'[c].carries \subseteq parked[c].carries
  BY StartPlaces
<1>3. Main'.carries \cap failed = {}
  BY StartPlaces DEF Settled, FailedGone
<1>4. FailedGone'
  BY <1>1, <1>2, <1>3, StartPlaces DEF Settled, FailedGone, Issued
<1>5. OkAnswered' /\ ResumedAll' /\ IdleIsEmpty'
  BY StartPlaces DEF OkAnswered, ResumedAll, IdleIsEmpty
<1> QED BY <1>4, <1>5 DEF Settled

\* What a return of the main task settles.
LEMMA ReturnStep ==
  ASSUME Typed, Return(MainTask), Main.pc \in Running
  PROVE  /\ Main.key \in Chats /\ ~Main.cancel
         /\ Main'.pc = "ok" /\ Main'.key = Main.key
         /\ Main'.carries = Main.carries /\ Main'.resumed = Main.resumed
         /\ answered' = answered \cup Main.carries
         /\ \A c \in Chats \ {Main.key} : parked'[c] = parked[c]
         /\ parked'[Main.key].carries = IF Main.resumed THEN {} ELSE parked[Main.key].carries
         /\ UNCHANGED <<inbound, published, failed>>
<1>0. /\ turn \in [Tasks -> Turn] /\ MainTask \in Tasks /\ parked \in [Chats -> Kept]
      /\ Main.key \in Chats /\ ~Main.cancel
  BY DEF Typed, TypeOK, TurnShape, Tasks, Main, Running, Return, Live
<1>1. /\ turn' = [turn EXCEPT ![MainTask].pc = "ok"]
      /\ answered' = answered \cup Main.carries
      /\ parked' = IF Main.resumed THEN [parked EXCEPT ![Main.key] = NoState] ELSE parked
      /\ UNCHANGED <<inbound, published, failed>>
  BY DEF Return, Leave, Main
<1>2. /\ Main'.pc = "ok" /\ Main'.key = Main.key
      /\ Main'.carries = Main.carries /\ Main'.resumed = Main.resumed
  BY <1>0, <1>1, PhaseOnly DEF Main
<1> QED BY <1>0, <1>1, <1>2 DEF NoState

\* What the other steps of _process, and of the direct turns, leave alone.
LEMMA AdvancePlaces ==
  ASSUME Typed, NEW t \in Tasks, Advance(t)
  PROVE  \/ t = MainTask /\ Main.pc \in Running /\ Return(MainTask)
         \/ /\ UNCHANGED <<inbound, published, parked, answered, failed>>
            /\ Main'.key = Main.key /\ Main'.carries = Main.carries
            /\ Main'.resumed = Main.resumed
            /\ Main' = Main \/ (Main.pc \in Running /\ Main'.pc \notin {"idle", "ok"})
<1>0. turn \in [Tasks -> Turn] /\ MainTask \in Tasks
      /\ UNCHANGED <<inbound, published, failed>>
  BY AdvanceStep DEF Typed, TypeOK, Tasks
<1>1. PICK p \in Running \cup Done : turn' = [turn EXCEPT ![t].pc = p]
  BY AdvanceStep DEF Typed
<1>2. turn[t].pc \in Running
  BY AdvanceStep DEF Typed
<1>3. CASE t # MainTask
  <2>1. t \in DirectTasks /\ Main' = Main
    BY <1>0, <1>1, <1>3 DEF Main, Tasks
  <2>2. turn[t].carries = {} /\ ~turn[t].resumed
    BY <2>1 DEF Typed, TurnShape
  <2>3. UNCHANGED <<parked, answered>>
    BY <2>2 DEF Advance, Enter, SyncTools, Commit, Finish, ControlReply, Raise,
       Cancelled, Return, Leave
  <2> QED BY <1>0, <2>1, <2>3
<1>4. CASE t = MainTask
  <2>1. /\ Main'.pc = p /\ Main'.key = Main.key /\ Main'.carries = Main.carries
        /\ Main'.resumed = Main.resumed
    BY <1>0, <1>1, <1>4, PhaseOnly DEF Main
  <2>2. CASE Finish(t) \/ ControlReply(t)
    BY <1>2, <1>4, <2>2 DEF Finish, ControlReply, Main
  <2>3. CASE Enter(t) \/ SyncTools(t) \/ Commit(t) \/ Raise(t) \/ Cancelled(t)
    <3>1. UNCHANGED <<parked, answered>>
      BY <2>3 DEF Enter, SyncTools, Commit, Raise, Cancelled
    <3>2. turn'[t].pc \notin {"idle", "ok"}
      BY <1>0, <2>3 DEF Enter, SyncTools, Commit, Raise, Cancelled, Leave, Turn
    <3> QED BY <1>0, <1>2, <1>4, <2>1, <3>1, <3>2 DEF Main
  <2> QED BY <2>2, <2>3 DEF Advance
<1> QED BY <1>3, <1>4

\* A turn's own steps.
LEMMA SettledAdvance ==
  ASSUME Typed, Ledger, Settled, NEW t \in Tasks, Advance(t) PROVE Settled'
<1>0. Main.resumed => Main.key \in Chats
  BY DEF Typed, TurnShape, Settled, IdleIsEmpty, Main
<1>1. CASE Main.pc \in Running /\ Return(MainTask)
  <2>1. \A c \in Chats : parked'[c].carries \subseteq parked[c].carries
    BY <1>1, ReturnStep
  <2> QED BY <1>1, <2>1, ReturnStep, SettledQuiet
<1>2. CASE /\ UNCHANGED <<inbound, published, parked, answered, failed>>
           /\ Main'.key = Main.key /\ Main'.carries = Main.carries
           /\ Main'.resumed = Main.resumed
           /\ Main' = Main \/ (Main.pc \in Running /\ Main'.pc \notin {"idle", "ok"})
  BY <1>0, <1>2, SettledQuiet
<1> QED BY <1>1, <1>2, AdvancePlaces

\* A shutdown, and the direct turns, move no request.
LEMMA ShutdownPlaces ==
  ASSUME Typed, Awaiting, Shutdown
  PROVE  /\ UNCHANGED <<inbound, published, parked, answered, failed>>
         /\ Main'.key = Main.key /\ Main'.carries = Main.carries
         /\ Main'.resumed = Main.resumed
         /\ Main'.pc = "idle" <=> Main.pc = "idle"
         /\ Main'.pc = "ok" => Main.pc = "ok"
<1>0. /\ turn \in [Tasks -> Turn] /\ MainTask \in Tasks /\ Main \in Turn
      /\ UNCHANGED <<inbound, published, parked, answered, failed>>
  BY DEF Typed, TypeOK, Tasks, Main, Shutdown
<1>1. CASE loop = "consume"
  <2>1. Main' = Main
    BY <1>1 DEF Shutdown, Main
  <2> QED BY <1>0, <2>1
<1>2. CASE loop = "await"
  <2>1. Main' = CancelAwaited(Main) /\ Main.pc # "idle"
    BY <1>0, <1>2 DEF Shutdown, Awaiting, Main
  <2>2. /\ Main'.key = Main.key /\ Main'.carries = Main.carries
        /\ Main'.resumed = Main.resumed /\ Main'.pc \in {Main.pc, "cancelled"}
    BY <1>0, <2>1, ShutdownOnly
  <2>3. Main'.pc # "idle" /\ (Main'.pc = "ok" => Main.pc = "ok")
    BY <2>1, <2>2
  <2> QED BY <1>0, <2>1, <2>2, <2>3
<1> QED BY <1>1, <1>2 DEF Shutdown

\* Direct turns move no request.
LEMMA DirectPlaces ==
  ASSUME Typed,
         \/ \E d \in DirectTasks, k \in DirectKeys, c \in Chats : StartDirect(d, k, c)
         \/ \E d \in DirectTasks : EndDirect(d)
  PROVE  Main' = Main /\ UNCHANGED <<inbound, published, parked, answered, failed>>
BY LoopConstants DEF Typed, TypeOK, Tasks, StartDirect, EndDirect, Main, LoopConstants

\* Every step keeps this.
LEMMA SettledStep == ASSUME Typed, Awaiting, Ledger, Settled, Next PROVE Settled'
<1>0. Main.resumed => Main.key \in Chats
  BY DEF Typed, TurnShape, Settled, IdleIsEmpty, Main
<1>1. CASE Shutdown
  BY <1>0, <1>1, ShutdownPlaces, SettledQuiet
<1>2. CASE \E c \in Chats : Expire(c)
  <2> PICK c \in Chats : Expire(c)
    BY <1>2
  <2>1. Main' = Main
    BY ExpireStep DEF Main
  <2> QED BY <1>0, <2>1, ExpireStep, SettledQuiet
<1>3. CASE \/ \E d \in DirectTasks, k \in DirectKeys, c \in Chats : StartDirect(d, k, c)
           \/ \E d \in DirectTasks : EndDirect(d)
  BY <1>0, <1>3, DirectPlaces, SettledQuiet
<1> QED BY <1>1, <1>2, <1>3, SettledPublish, SettledConsume, SettledCollect,
       SettledInterrupt, SettledStart, SettledAdvance DEF Next, Advance

\* It holds in every state.
LEMMA SettledAlways == Spec => []Settled
<1>1. ASSUME UNCHANGED vars, Settled PROVE Settled'
  BY <1>1 DEF Settled, FailedGone, Queued, OkAnswered, ResumedAll, IdleIsEmpty, Main,
     Issued, vars
<1>2. Typed /\ Awaiting /\ Ledger /\ Settled /\ [Next]_vars => Settled'
  BY <1>1, SettledStep
<1> QED BY <1>2, SettledInit, TypedAlways, AwaitingAlways, LedgerAlways, PTL DEF Spec

\* The refinement mapping: where each request stands.
Where == [r \in ItemIds |-> Status(r)]

\* A step after which each request stands where it stood, those of S excepted,
\* which are all in status s.
Moved(S, s) == \A r \in ItemIds : Status(r)' = IF r \in S THEN s ELSE Status(r)
\* Every request stands where it stood.
Same == \A r \in ItemIds : Status(r)' = Status(r)

\* To the abstract specification that is no step,
LEMMA SameIsStutter == ASSUME Same PROVE [Lifecycle!Next]_Where
BY DEF Same, Where

\* a step of the loop may be any of its alternatives that moves something,
LEMMA StepOrStays == ASSUME Lifecycle!Step PROVE [Lifecycle!Next]_Where
BY DEF Lifecycle!Next, Where

\* and this is a move.
LEMMA MovedIsMove ==
  ASSUME NEW S \in SUBSET ItemIds, NEW s, Moved(S, s)
  PROVE  Lifecycle!Move(S, s)
BY DEF Moved, Lifecycle!Move

\* Where a request stands, read off the ledger.
LEMMA StatusOf ==
  ASSUME Typed, Ledger, Settled, NEW r \in ItemIds
  PROVE  /\ r \notin Issued => Status(r) = "unborn"
         /\ r \in answered => Status(r) = "answered"
         /\ Queued(r) => Status(r) = "queued"
         /\ Carried(r) /\ r \notin answered => Status(r) = "running"
         /\ ~Carried(r) /\ (\E c \in Chats : r \in parked[c].carries) => Status(r) = "parked"
         /\ r \in failed /\ r \notin answered => Status(r) = "failed"
         /\ Status(r) = "running" => Carried(r) /\ Main.pc # "ok"
         /\ Status(r) = "unborn" => r \notin Issued
<1>1. published \in Nat /\ r \in Nat /\ r >= 1 
  BY LoopConstants DEF Typed, TypeOK, LoopConstants, ItemIds
<1>2. r \in Issued <=> ~(r > published)
  BY <1>1 DEF Issued
<1>3. Carried(r) <=> Main.pc # "idle" /\ r \in Main.carries
  BY DEF Carried, Main
<1>4. r \in answered => r \in Issued
  BY DEF Ledger, OnlyIssued
<1>5. Queued(r) => r \in Issued /\ r \notin answered
  BY DEF Ledger, QueueFresh
<1>6. Carried(r) => r \in Issued /\ ~Queued(r)
  BY <1>3 DEF Ledger, OnlyIssued, QueueFresh
<1>7. (\E c \in Chats : r \in parked[c].carries) => r \in Issued /\ ~Queued(r) /\ r \notin answered
  BY DEF Ledger, OnlyIssued, QueueFresh, AnsweredGone
<1>8. r \in failed => /\ r \in Issued /\ ~Queued(r) /\ ~Carried(r)
                      /\ ~ \E c \in Chats : r \in parked[c].carries
  BY <1>3 DEF Settled, FailedGone
<1>9. Carried(r) /\ r \notin answered => Main.pc # "ok"
  BY <1>3 DEF Settled, OkAnswered
<1> DEFINE kept == \E c \in Chats : r \in parked[c].carries
<1> HIDE DEF kept
<1>10. Status(r) = IF r \notin Issued THEN "unborn"
                   ELSE IF r \in answered THEN "answered"
                   ELSE IF Queued(r) THEN "queued"
                   ELSE IF Carried(r) THEN "running"
                   ELSE IF kept THEN "parked"
                   ELSE IF r \in failed THEN "failed" ELSE "dropped"
  BY <1>2 DEF Status, kept
<1>11. kept => r \in Issued /\ ~Queued(r) /\ r \notin answered
  BY <1>7 DEF kept
<1>12. r \in failed => r \in Issued /\ ~Queued(r) /\ ~Carried(r) /\ ~kept
  BY <1>8 DEF kept
<1>13. kept <=> \E c \in Chats : r \in parked[c].carries
  BY DEF kept
<1> QED BY <1>4, <1>5, <1>6, <1>9, <1>10, <1>11, <1>12, <1>13

\* A request that is queued, carried and kept where it was stays in its status.
LEMMA StatusKept ==
  ASSUME NEW r, UNCHANGED published,
         r \in answered' <=> r \in answered,
         Queued(r)' <=> Queued(r),
         Carried(r)' <=> Carried(r),
         (\E c \in Chats : r \in parked'[c].carries) <=> (\E c \in Chats : r \in parked[c].carries),
         r \in failed' <=> r \in failed
  PROVE  Status(r)' = Status(r)
<1>1. r > published' <=> r > published
  OBVIOUS
<1> QED BY <1>1 DEF Status

\* The same, for a step that leaves the ledger's variables alone.
LEMMA AllKept ==
  ASSUME UNCHANGED <<inbound, published, answered, failed>>,
         \A c \in Chats : parked'[c].carries = parked[c].carries,
         Main'.carries = Main.carries,
         Main'.pc = "idle" <=> Main.pc = "idle"
  PROVE  [Lifecycle!Next]_Where
<1>1. \A r : Carried(r)' <=> Carried(r)
  BY DEF Carried, Main
<1>2. \A r : Queued(r)' <=> Queued(r)
  BY DEF Queued
<1>3. Same
  BY <1>1, <1>2, StatusKept DEF Same
<1> QED BY <1>3, SameIsStutter

\* Publishing an item submits the next request.
LEMMA MapPublish ==
  ASSUME Typed, Ledger, Settled, NEW c \in Chats, NEW kind \in {"user", "spawn"},
         PublishInbound(c, kind)
  PROVE  [Lifecycle!Next]_Where
<1>0. published + 1 \in ItemIds
  BY LoopConstants DEF PublishInbound, Typed, TypeOK, LoopConstants, ItemIds
<1> PICK n \in ItemIds : n = published + 1
  BY <1>0
<1>1. /\ inbound \in Seq(Item) /\ published \in Nat /\ published' = n
      /\ inbound' = Append(inbound, [id |-> n, chat |-> c, kind |-> kind])
      /\ UNCHANGED <<parked, answered, failed, turn>>
  BY LoopConstants DEF PublishInbound, Typed, TypeOK, LoopConstants, ItemIds
<1>2. \A r : Queued(r)' <=> Queued(r) \/ r = n
  <2>1. Len(inbound') = Len(inbound) + 1 /\ Len(inbound) \in Nat /\ inbound'[Len(inbound')].id = n
        /\ \A i \in 1 .. Len(inbound) : inbound'[i] = inbound[i]
    BY <1>1
  <2> QED BY <2>1 DEF Queued
<1>3. Issued' = Issued \cup {n} /\ n \notin Issued
  BY <1>1 DEF Issued
<1>5. Status(n) = "unborn" /\ Status(n)' = "queued"
  <2>1. Queued(n)'
    BY <1>2
  <2>2. ~(n > published') /\ n \notin answered'
    BY <1>1, <1>3 DEF Ledger, OnlyIssued
  <2>3. Status(n)' = "queued"
    BY <2>1, <2>2 DEF Status
  <2> QED BY <1>3, <2>3, StatusOf
<1>6. ASSUME NEW r \in ItemIds, r # n PROVE Status(r)' = Status(r)
  <2>1. r > published' <=> r > published
    BY <1>1, <1>6 DEF ItemIds
  <2>2. Carried(r)' <=> Carried(r)
    BY <1>1 DEF Carried
  <2>3. Queued(r)' <=> Queued(r)
    BY <1>2, <1>6
  <2> QED BY <1>1, <2>1, <2>2, <2>3 DEF Status
<1>7. Moved({n}, "queued")
  BY <1>5, <1>6 DEF Moved
<1>8. Lifecycle!Submit(n)
  BY <1>1, <1>5, <1>7, MovedIsMove DEF Lifecycle!Submit
<1> QED BY <1>1, <1>8, StepOrStays DEF Lifecycle!Step

\* Taking an item begins its request, when no turn is there.
LEMMA MapConsume ==
  ASSUME Typed, Awaiting, Ledger, Settled, Consume PROVE [Lifecycle!Next]_Where
<1> PICK h \in ItemIds : h = Head(inbound).id
  BY ConsumeStep
<1>1. /\ Main.pc = "idle" /\ Queued(h) /\ h \in ItemIds
      /\ Main'.pc = "created" /\ Main'.carries = {h}
      /\ \A r : Queued(r)' <=> Queued(r) /\ r # h
      /\ UNCHANGED <<published, parked, answered, failed>>
  BY ConsumeStep
<1>2. \A r : ~Carried(r) /\ (Carried(r)' <=> r = h)
  BY <1>1 DEF Carried, Main
<1>3. h \in Issued /\ h \notin answered
  BY <1>1 DEF Ledger, QueueFresh
<1>4. Status(h) = "queued" /\ Status(h)' = "running"
  <2>1. ~(h > published') /\ h \notin answered'
    BY <1>1, <1>3 DEF Issued, Typed, TypeOK, ItemIds
  <2>2. Carried(h)' /\ ~Queued(h)'
    BY <1>1, <1>2
  <2>3. Status(h)' = "running"
    BY <2>1, <2>2 DEF Status
  <2> QED BY <1>1, <2>3, StatusOf
<1>5. ASSUME NEW r \in ItemIds, r # h PROVE Status(r)' = Status(r)
  <2>1. (Queued(r)' <=> Queued(r)) /\ (Carried(r)' <=> Carried(r))
    BY <1>1, <1>2, <1>5
  <2> QED BY <1>1, <2>1, StatusKept
<1>6. Moved({h}, "running")
  BY <1>4, <1>5 DEF Moved
<1>7. Lifecycle!In("running") = {}
  BY <1>2, StatusOf DEF Lifecycle!In
<1>8. Lifecycle!Begin(h)
  BY <1>1, <1>4, <1>6, <1>7, MovedIsMove DEF Lifecycle!Begin
<1> QED BY <1>1, <1>8, StepOrStays DEF Lifecycle!Step

\* What run() does when it wakes up.
LEMMA CollectStep ==
  ASSUME Typed, Collect
  PROVE  /\ Main.pc \in Done /\ Main.key \in Chats
         /\ Main'.pc = "idle" /\ Main'.carries = {} /\ ~Main'.resumed
         /\ UNCHANGED <<inbound, published, parked, answered>>
         /\ failed' = IF Main.pc = "error"
                      THEN failed \cup (Main.carries \ parked[Main.key].carries)
                      ELSE failed
<1>0. /\ turn \in [Tasks -> Turn] /\ MainTask \in Tasks /\ Main.key \in Chats
      /\ Main.pc \in Done
  BY DEF Typed, TypeOK, TurnShape, Tasks, Main, Collect, Done
<1>1. /\ Main' = IdleTurn
      /\ UNCHANGED <<inbound, published, parked, answered>>
      /\ failed' = IF Main.pc = "error" THEN failed \cup (Main.carries \ parked[Main.key].carries)
                                        ELSE failed
  BY <1>0 DEF Collect, Main
<1> QED BY <1>0, <1>1 DEF IdleTurn

\* The finished turn was answered, failed or was cancelled.
LEMMA MapCollect ==
  ASSUME Typed, Ledger, Settled, Collect PROVE [Lifecycle!Next]_Where
<1> DEFINE kept == parked[Main.key].carries
           S == {r \in ItemIds : Carried(r) /\ r \notin kept}
           end == IF Main.pc = "error" THEN "failed" ELSE "dropped"
<1>1. \A r : Carried(r) <=> r \in Main.carries
  BY CollectStep DEF Carried, Main, Done
<1>2. \A r : ~Carried(r)'
  BY CollectStep DEF Carried, Main
<1>3. \A r : Queued(r)' <=> Queued(r)
  BY CollectStep DEF Queued
<1>4. ASSUME NEW r \in ItemIds, ~Carried(r) PROVE Status(r)' = Status(r)
  <2>1. r \in failed' <=> r \in failed
    BY <1>1, <1>4, CollectStep
  <2> QED BY <1>2, <1>3, <1>4, <2>1, CollectStep, StatusKept
<1>5. CASE Main.pc = "ok"
  <2>1. ASSUME NEW r \in ItemIds, Carried(r) PROVE Status(r)' = Status(r)
    <3>1. r \in answered
      BY <1>1, <1>5, <2>1 DEF Settled, OkAnswered
    <3>2. Status(r) = "answered"
      BY <3>1, StatusOf
    <3>3. r \in Issued
      BY <3>1 DEF Ledger, OnlyIssued
    <3>4. ~(r > published') /\ r \in answered'
      BY <3>1, <3>3, CollectStep DEF Issued, ItemIds, Typed, TypeOK
    <3> QED BY <3>2, <3>4 DEF Status
  <2> QED BY <1>4, <2>1, SameIsStutter DEF Same
<1>6. CASE Main.pc # "ok"
  <2>1. ASSUME NEW r \in ItemIds, Carried(r)
        PROVE  /\ Status(r) = "running"
               /\ Status(r)' = IF r \in kept THEN "parked" ELSE end
    <3>1. r \notin answered /\ r \notin failed /\ r \in Issued /\ ~Queued(r)
      BY <1>1, <1>6, <2>1, CollectStep DEF Ledger, AnsweredGone, Done, OnlyIssued, QueueFresh,
         Settled, FailedGone
    <3>2. ~(r > published') /\ r \notin answered' /\ ~Queued(r)' /\ ~Carried(r)'
      BY <1>2, <1>3, <3>1, CollectStep DEF Issued, ItemIds, Typed, TypeOK
    <3>3. (\E c \in Chats : r \in parked'[c].carries) <=> r \in kept
      BY <1>1, <2>1, CollectStep DEF Ledger, KeptOnce
    <3>4. r \notin kept => (r \in failed' <=> Main.pc = "error")
      BY <1>1, <2>1, <3>1, CollectStep
    <3> HIDE DEF kept
    <3>5. Status(r)' = IF r \in kept THEN "parked" ELSE end
      BY <3>2, <3>3, <3>4 DEF Status
    <3> QED BY <2>1, <3>1, <3>5, StatusOf
  <2>2. Lifecycle!In("running") = {r \in ItemIds : Carried(r)}
    BY <2>1, StatusOf DEF Lifecycle!In
  <2>3. S \in SUBSET ItemIds /\ S \subseteq Lifecycle!In("running")
    BY <2>2
  <2>4. \A r \in ItemIds : Status(r)' = IF r \in S THEN end
                                        ELSE IF Carried(r) THEN "parked" ELSE Status(r)
    BY <1>4, <2>1
  <2> HIDE DEF S, kept
  <2>5. CASE Main.pc = "error"
    <3>1. \A r \in ItemIds : Status(r)' = IF r \in S THEN "failed"
                                          ELSE IF Carried(r) THEN "parked" ELSE Status(r)
      BY <2>4, <2>5
    <3>2. Lifecycle!Fail(S)
      BY <2>2, <2>3, <3>1 DEF Lifecycle!Fail
    <3> QED BY <2>3, <3>2, StepOrStays DEF Lifecycle!Step
  <2>6. CASE Main.pc # "error"
    <3>1. \A r \in ItemIds : Status(r)' = IF r \in S THEN "dropped"
                                          ELSE IF Carried(r) THEN "parked" ELSE Status(r)
      BY <2>4, <2>6
    <3>2. Lifecycle!Stop(S)
      BY <2>2, <2>3, <3>1 DEF Lifecycle!Stop
    <3> QED BY <2>3, <3>2, StepOrStays DEF Lifecycle!Step
  <2> QED BY <2>5, <2>6
<1> QED BY <1>5, <1>6

\* An interrupt gives up what was kept before and is not carried now.
LEMMA MapInterrupt ==
  ASSUME Typed, Awaiting, Ledger, Settled, NEW c \in Chats, RequestInterrupt(c)
  PROVE  [Lifecycle!Next]_Where
<1> DEFINE S == {r \in ItemIds : r \in parked[c].carries /\ ~Carried(r)}
<1>1. \A r : Carried(r) <=> r \in Main.carries
  BY InterruptStep DEF Carried, Main
<1>2. \A r : Carried(r)' <=> Carried(r)
  BY InterruptStep DEF Carried, Main
<1>3. \A r : Queued(r)' <=> Queued(r)
  BY InterruptStep DEF Queued
<1>4. ASSUME NEW r \in ItemIds, Carried(r) PROVE Status(r)' = Status(r)
  <2>1. r \notin answered /\ r \in Issued /\ ~Queued(r)
    BY <1>1, <1>4, InterruptStep DEF Ledger, AnsweredGone, Done, OnlyIssued, QueueFresh
  <2>2. ~(r > published') /\ r \notin answered' /\ ~Queued(r)' /\ Carried(r)'
    BY <1>2, <1>3, <1>4, <2>1, InterruptStep DEF Issued, ItemIds, Typed, TypeOK
  <2>3. Status(r)' = "running"
    BY <2>2 DEF Status
  <2> QED BY <1>4, <2>1, <2>3, StatusOf
<1>5. ASSUME NEW r \in ItemIds, ~Carried(r), r \notin parked[c].carries
      PROVE  Status(r)' = Status(r)
  <2>1. r \notin parked'[c].carries
    BY <1>1, <1>5, InterruptStep
  <2>2. (\E d \in Chats : r \in parked'[d].carries) <=> (\E d \in Chats : r \in parked[d].carries)
    BY <1>5, <2>1, InterruptStep
  <2> QED BY <1>2, <1>3, <2>2, InterruptStep, StatusKept
<1>6. ASSUME NEW r \in ItemIds, ~Carried(r), r \in parked[c].carries
      PROVE  Status(r) = "parked" /\ Status(r)' = "dropped"
  <2>1. r \notin answered /\ r \in Issued /\ ~Queued(r) /\ r \notin failed
    BY <1>6 DEF Ledger, AnsweredGone, OnlyIssued, QueueFresh, Settled, FailedGone
  <2>2. \A d \in Chats : r \notin parked'[d].carries
    BY <1>1, <1>6, InterruptStep DEF Ledger, KeptOnce
  <2>3. /\ ~(r > published') /\ r \notin answered' /\ ~Queued(r)' /\ ~Carried(r)'
        /\ r \notin failed'
    BY <1>2, <1>3, <1>6, <2>1, InterruptStep DEF Issued, ItemIds, Typed, TypeOK
  <2>4. Status(r)' = "dropped"
    BY <2>2, <2>3 DEF Status
  <2> QED BY <1>6, <2>4, StatusOf
<1>7. Moved(S, "dropped")
  BY <1>4, <1>5, <1>6 DEF Moved
<1>8. S \in SUBSET Lifecycle!In("parked")
  BY <1>6 DEF Lifecycle!In
<1>9. S \in SUBSET ItemIds
  OBVIOUS
<1> HIDE DEF S
<1>10. Lifecycle!Drop(S)
  BY <1>7, <1>8, <1>9, MovedIsMove DEF Lifecycle!Drop
<1> QED BY <1>8, <1>10, StepOrStays DEF Lifecycle!Step

\* A turn that starts takes on what is kept for its chat, or gives it up.
LEMMA MapStart ==
  ASSUME Typed, Ledger, Settled, StartTurn PROVE [Lifecycle!Next]_Where
<1> DEFINE k == Main.key
           S == {r \in ItemIds : r \in parked[k].carries}
<1>0. /\ Main.pc = "created" /\ k \in Chats /\ Main'.pc # "idle" /\ ~Main.resumed
      /\ UNCHANGED <<inbound, published, answered, failed>>
      /\ \A c \in Chats \ {k} : parked'[c].carries = parked[c].carries
  BY StartPlaces DEF Ledger, FreshTurn
<1>1. \A r : /\ Carried(r) <=> r \in Main.carries
             /\ Carried(r)' <=> r \in Main'.carries
  BY <1>0 DEF Carried, Main
<1>2. \A r : Queued(r)' <=> Queued(r)
  BY <1>0 DEF Queued
<1>3. CASE Main'.carries = Main.carries /\ parked'[k].carries = parked[k].carries
  BY <1>0, <1>3, AllKept
<1>4. ASSUME ~Main.cancel
      PROVE  /\ \A r \in S : /\ ~Carried(r) /\ Status(r) = "parked"
                             /\ r \notin answered /\ r \in Issued /\ ~Queued(r)
                             /\ r \notin failed
                             /\ \A c \in Chats \ {k} : r \notin parked[c].carries
             /\ S \in SUBSET ItemIds /\ S \subseteq Lifecycle!In("parked")
  <2>1. ASSUME NEW r \in S
        PROVE  /\ ~Carried(r) /\ r \notin answered /\ r \in Issued /\ ~Queued(r)
               /\ r \notin failed
               /\ \A c \in Chats \ {k} : r \notin parked[c].carries
    BY <1>0, <1>1, <1>4 DEF Ledger, AnsweredGone, OnlyIssued, QueueFresh, FreshTurn, KeptOnce,
       Settled, FailedGone
  <2>2. \A r \in S : Status(r) = "parked"
    BY <1>0, <2>1, StatusOf
  <2> QED BY <2>1, <2>2 DEF Lifecycle!In
<1>5. ASSUME NEW r \in ItemIds, r \notin parked[k].carries,
             r \in Main'.carries <=> r \in Main.carries,
             \A x \in parked'[k].carries : x \in parked[k].carries
      PROVE  Status(r)' = Status(r)
  <2>1. (\E c \in Chats : r \in parked'[c].carries) <=> (\E c \in Chats : r \in parked[c].carries)
    BY <1>0, <1>5
  <2> QED BY <1>0, <1>1, <1>2, <1>5, <2>1, StatusKept
<1>6. CASE Main'.carries = Main.carries /\ ~Main.cancel /\ parked'[k].carries = {}
  <2>1. ASSUME NEW r \in S PROVE Status(r)' = "dropped"
    <3>1. \A c \in Chats : r \notin parked'[c].carries
      BY <1>0, <1>4, <1>6
    <3>2. /\ ~(r > published') /\ r \notin answered' /\ ~Queued(r)' /\ ~Carried(r)'
          /\ r \notin failed'
      BY <1>0, <1>1, <1>2, <1>4, <1>6 DEF Issued, ItemIds, Typed, TypeOK
    <3> QED BY <3>1, <3>2 DEF Status
  <2>2. Moved(S, "dropped")
    BY <1>5, <1>6, <2>1 DEF Moved
  <2> HIDE DEF S
  <2>3. Lifecycle!Drop(S)
    BY <1>4, <1>6, <2>2, MovedIsMove DEF Lifecycle!Drop
  <2> QED BY <1>4, <1>6, <2>3, StepOrStays DEF Lifecycle!Step
<1>7. CASE /\ Main'.carries = Main.carries \cup parked[k].carries /\ ~Main.cancel
           /\ parked'[k].carries = parked[k].carries
  <2>1. ASSUME NEW r \in S PROVE Status(r)' = "running"
    <3>1. /\ ~(r > published') /\ r \notin answered' /\ ~Queued(r)' /\ Carried(r)'
      BY <1>0, <1>1, <1>2, <1>4, <1>7 DEF Issued, ItemIds, Typed, TypeOK
    <3> QED BY <3>1 DEF Status
  <2>2. Moved(S, "running")
    BY <1>5, <1>7, <2>1 DEF Moved
  <2>3. PICK r \in Main.carries : r \notin promised
    BY <1>0, <1>7 DEF Ledger, OwnRequest, AtWork
  <2>4. r \in Lifecycle!In("running")
    <3>1. r \in ItemIds
      BY <2>3, LoopConstants DEF Ledger, OnlyIssued, Issued, ItemIds, Typed, TypeOK, LoopConstants
    <3>2. r \notin answered
      BY <1>0, <2>3 DEF Ledger, AnsweredGone
    <3> QED BY <1>1, <2>3, <3>1, <3>2, StatusOf DEF Lifecycle!In
  <2> HIDE DEF S
  <2>5. Lifecycle!Resume(S)
    BY <1>4, <1>7, <2>2, <2>4, MovedIsMove DEF Lifecycle!Resume
  <2> QED BY <1>4, <1>7, <2>5, StepOrStays DEF Lifecycle!Step
<1> QED BY <1>3, <1>6, <1>7, StartPlaces

\* A turn that returns answers everything that was running.
LEMMA MapReturn ==
  ASSUME Typed, Ledger, Settled, Return(MainTask), Main.pc \in Running
  PROVE  [Lifecycle!Next]_Where
<1> DEFINE S == Lifecycle!In("running")
<1>0. Main.pc \notin {"idle", "ok"} /\ Main.pc \in AtWork
  BY DEF Running, AtWork
<1>1. \A r : /\ Carried(r) <=> r \in Main.carries
             /\ Carried(r)' <=> r \in Main.carries
  BY <1>0, ReturnStep DEF Carried, Main
<1>2. \A r : Queued(r)' <=> Queued(r)
  BY ReturnStep DEF Queued
<1>3. \A r \in Main.carries : r \in ItemIds /\ r \notin answered /\ r \in Issued
  BY <1>0, LoopConstants DEF Ledger, AnsweredGone, OnlyIssued, Issued, ItemIds, Typed,
     TypeOK, LoopConstants
<1>4. S = Main.carries
  BY <1>1, <1>3, StatusOf DEF Lifecycle!In
<1>5. S # {}
  BY <1>0, <1>4, ReturnStep DEF Ledger, OwnRequest
<1>6. ASSUME NEW r \in Main.carries PROVE Status(r)' = "answered"
  <2>1. ~(r > published') /\ r \in answered'
    BY <1>3, ReturnStep DEF Issued, ItemIds, Typed, TypeOK
  <2> QED BY <2>1 DEF Status
<1>7. ASSUME NEW r \in ItemIds, r \notin Main.carries PROVE Status(r)' = Status(r)
  <2>1. Main.resumed => r \notin parked[Main.key].carries
    BY <1>7 DEF Settled, ResumedAll
  <2>2. (\E c \in Chats : r \in parked'[c].carries) <=> (\E c \in Chats : r \in parked[c].carries)
    BY <2>1, ReturnStep
  <2> QED BY <1>1, <1>2, <1>7, <2>2, ReturnStep, StatusKept
<1> HIDE DEF S
<1>8. Moved(S, "answered") /\ S \in SUBSET ItemIds
  BY <1>3, <1>4, <1>6, <1>7 DEF Moved
<1>9. Lifecycle!Answer
  BY <1>5, <1>8, MovedIsMove DEF Lifecycle!Answer, S
<1> QED BY <1>9, StepOrStays DEF Lifecycle!Step

\* Every step of the loop is a step of the lifecycle, or leaves it alone.
LEMMA MapStep ==
  ASSUME Typed, Awaiting, Ledger, Settled, Next PROVE [Lifecycle!Next]_Where
<1>1. CASE \E t \in Tasks : Advance(t)
  <2> PICK t \in Tasks : Advance(t)
    BY <1>1
  <2>1. CASE Main.pc \in Running /\ Return(MainTask)
    BY <2>1, MapReturn
  <2>2. CASE /\ UNCHANGED <<inbound, published, parked, answered, failed>>
             /\ Main'.carries = Main.carries
             /\ Main' = Main \/ (Main.pc \in Running /\ Main'.pc \notin {"idle", "ok"})
    BY <2>2, AllKept DEF Running
  <2> QED BY <2>1, <2>2, AdvancePlaces
<1>2. CASE Shutdown
  BY <1>2, ShutdownPlaces, AllKept
<1>3. CASE \E c \in Chats : Expire(c)
  <2> PICK c \in Chats : Expire(c)
    BY <1>3
  <2>1. Main' = Main
    BY ExpireStep DEF Main
  <2> QED BY <2>1, ExpireStep, AllKept
<1>4. CASE \/ \E d \in DirectTasks, k \in DirectKeys, c \in Chats : StartDirect(d, k, c)
           \/ \E d \in DirectTasks : EndDirect(d)
  BY <1>4, DirectPlaces, AllKept
<1> QED BY <1>1, <1>2, <1>3, <1>4, MapPublish, MapConsume, MapCollect, MapInterrupt, MapStart
       DEF Next, Advance

\* The loop implements RequestLifecycle: each request is queued, run one at a
\* time, and ends answered, failed, kept or given up, never run again after it.
THEOREM LoopFollowsLifecycle == Spec => LifecycleSpec
<1>1. Init => Lifecycle!Init
  <2> SUFFICES ASSUME Init PROVE \A r \in ItemIds : Status(r) = "unborn"
    BY DEF Lifecycle!Init
  <2> QED BY LoopConstants DEF Init, Status, ItemIds, LoopConstants
<1>2. Typed /\ Awaiting /\ Ledger /\ Settled /\ [Next]_vars => [Lifecycle!Next]_Where
  <2>1. ASSUME UNCHANGED vars PROVE Same
    BY <2>1 DEF vars, Same, Status, Queued, Carried
  <2> QED BY <2>1, MapStep, SameIsStutter
<1> QED BY <1>1, <1>2, TypedAlways, AwaitingAlways, LedgerAlways, SettledAlways, PTL
       DEF Spec, LifecycleSpec, Lifecycle!Spec, Where

\* A move read request by request.
LEMMA MoveIsMoved ==
  ASSUME NEW S, NEW s, Lifecycle!Move(S, s)
  PROVE  Moved(S, s)
BY DEF Moved, Lifecycle!Move

\* The same for a run that fails or is cancelled: S ends in s, the rest is kept.
LEMMA RunEnds ==
  ASSUME NEW S \in SUBSET Lifecycle!In("running"), NEW s,
         Where' = [r \in ItemIds |->
            CASE r \in S -> s
              [] r \in Lifecycle!In("running") \ S -> "parked"
              [] OTHER -> Where[r]]
  PROVE  \A r \in ItemIds :
           Status(r)' = IF r \in S THEN s
                        ELSE IF Status(r) = "running" THEN "parked" ELSE Status(r)
BY DEF Where, Lifecycle!In

\* What a step of the lifecycle may do to a request: it is taken up alone, decided only by
\* a run, and left alone once settled.
LEMMA LifecycleMoves ==
  ASSUME Lifecycle!Step, NEW r \in ItemIds
  PROVE  /\ Status(r) \in {"answered", "failed", "dropped"} => Status(r)' = Status(r)
         /\ Status(r)' \in {"answered", "failed"} /\ Status(r) # Status(r)'
              => Status(r) = "running"
         /\ Status(r) = "queued" /\ Status(r)' # "queued"
              => Status(r)' = "running" /\ Lifecycle!In("running") = {}
<1> DEFINE running == Lifecycle!In("running")
           Goal ==
             /\ Status(r) \in {"answered", "failed", "dropped"} => Status(r)' = Status(r)
             /\ Status(r)' \in {"answered", "failed"} /\ Status(r) # Status(r)'
                  => Status(r) = "running"
             /\ Status(r) = "queued" /\ Status(r)' # "queued"
                  => Status(r)' = "running" /\ running = {}
<1>0. \A s, q : q \in Lifecycle!In(s) <=> q \in ItemIds /\ Status(q) = s
  BY DEF Lifecycle!In
<1>1. ASSUME NEW q \in ItemIds, Lifecycle!Submit(q) PROVE Goal
  <2>1. Moved({q}, "queued") /\ Status(q) = "unborn"
    BY <1>1, MoveIsMoved DEF Lifecycle!Submit
  <2> QED BY <2>1 DEF Moved
<1>2. ASSUME NEW q \in ItemIds, Lifecycle!Begin(q) PROVE Goal
  <2>1. Moved({q}, "running") /\ Status(q) = "queued" /\ running = {}
    BY <1>2, MoveIsMoved DEF Lifecycle!Begin
  <2> QED BY <2>1 DEF Moved
<1>3. ASSUME NEW S \in SUBSET Lifecycle!In("parked"), Lifecycle!Resume(S) \/ Lifecycle!Drop(S)
      PROVE  Goal
  <2>1. Moved(S, "running") \/ Moved(S, "dropped")
    BY <1>3, MoveIsMoved DEF Lifecycle!Resume, Lifecycle!Drop
  <2>2. r \in S => Status(r) = "parked"
    BY <1>0, <1>3
  <2> QED BY <2>1, <2>2 DEF Moved
<1>4. ASSUME NEW S \in SUBSET Lifecycle!In("running"), Lifecycle!Fail(S) \/ Lifecycle!Stop(S)
      PROVE  Goal
  <2>1. PICK s \in {"failed", "dropped"} :
          Status(r)' = IF r \in S THEN s
                       ELSE IF Status(r) = "running" THEN "parked" ELSE Status(r)
    BY <1>4, RunEnds DEF Lifecycle!Fail, Lifecycle!Stop, Where
  <2>2. r \in S => Status(r) = "running"
    BY <1>0, <1>4
  <2> QED BY <2>1, <2>2
<1>5. ASSUME Lifecycle!Answer PROVE Goal
  <2>1. Moved(running, "answered")
    BY <1>5, MoveIsMoved DEF Lifecycle!Answer
  <2> QED BY <1>0, <2>1 DEF Moved
<1> HIDE DEF Goal
<1>6. Goal
  BY <1>1, <1>2, <1>3, <1>4, <1>5 DEF Lifecycle!Step
<1> QED BY <1>6 DEF Goal

\* What the lifecycle is for, proved of it alone: a request that was answered, failed or
\* given up stays so, no request is answered or fails outside a run, and a queued one
\* is taken up only while nothing runs.
THEOREM RequestsSettleOnce ==
  LifecycleSpec => Lifecycle!SettledIsFinal /\ Lifecycle!RunsDecide
<1>1. [Lifecycle!Next]_Where =>
        [\A r \in ItemIds :
           Where[r] \in {"answered", "failed", "dropped"} => Where'[r] = Where[r]]_Where
  BY LifecycleMoves DEF Lifecycle!Next, Where
<1>2. [Lifecycle!Next]_Where =>
        [\A r \in ItemIds :
           /\ Where'[r] \in {"answered", "failed"} /\ Where[r] # Where'[r]
                => Where[r] = "running"
           /\ Where[r] = "queued" /\ Where'[r] # "queued"
                => Where'[r] = "running" /\ Lifecycle!In("running") = {}]_Where
  BY LifecycleMoves DEF Lifecycle!Next, Where
<1> QED BY <1>1, <1>2, PTL
       DEF LifecycleSpec, Lifecycle!Spec, Lifecycle!SettledIsFinal, Lifecycle!RunsDecide, Where
=============================================================================
