---------------------------- MODULE SessionCursor ----------------------------
(***************************************************************************)
(* One chat session: its messages in memory and in SQLite, the cursor       *)
(* last_consolidated up to which they have been turned into memory, and the *)
(* actors that move both.  A turn stores two messages, a proactive push     *)
(* one, both at any time; /undo deletes the last turn and takes the cursor  *)
(* back; a retry with less history drops messages from memory; a            *)
(* maintenance task and a manual request of the dashboard consolidate a     *)
(* window of messages over several awaits and then move the cursor to a     *)
(* position they computed at the start.                                     *)
(*                                                                          *)
(* Appending, saving and undoing do not suspend, since nobody awaits        *)
(* anything while holding the session's write lock: each is one step.       *)
(***************************************************************************)
EXTENDS Naturals, FiniteSets, Sequences, FiniteSetsExt

CONSTANTS
    KeepCount,      \* keep_count: messages a normal window leaves alone
    MinNew,         \* _consolidation_min_new_messages
    MaxMessages,    \* bound: messages ever created
    MaxIncidents    \* bound: restarts, retries with less history, manual
                    \* consolidations, failed clean-ups and texts that go
                    \* into a known row, together

ASSUME SessionConstants ==
    /\ KeepCount \in Nat /\ MinNew \in Nat \ {0}
    /\ MaxMessages \in Nat /\ MaxIncidents \in Nat

VARIABLES
    messages,          \* session.messages: <<[uid, seq, role], ...>>
    lastConsolidated,  \* session.last_consolidated
    store,             \* SQLite: [rows, lastConsolidated, nextSeq]
    turn,              \* the chat's turn: [pc, uid, predicted]
    queue,             \* entries of _maintenance_queues
    task,              \* _maintenance_tasks
    work,              \* the consolidation under the maintenance lock
    journal,           \* source_refs in consolidation_writes
    items,             \* memory items: [by, ref, about, active]
    recorded,          \* history: uids extracted into the memory files
    undone,            \* history: uids deleted by /undo
    stray,             \* history: uids whose items an undo did not find or retire
    lost,              \* history: uids of a window that got no row of its own
    raced,             \* history: a cursor was set for a list that had moved
    created, incidents   \* counters of the bounds

conversation == <<messages, lastConsolidated, store, turn>>
maintenance == <<queue, task, work>>
memories == <<journal, items>>
histories == <<recorded, undone, stray, lost, raced>>
counters == <<created, incidents>>
cursorVars == <<conversation, maintenance, memories, histories, counters>>

NoTurn == [pc |-> "idle", uid |-> 0, predicted |-> 0]
Unlocked == [by |-> "none", stage |-> "idle", archive |-> FALSE, upTo |-> 0,
             uids |-> {}, ref |-> {}, moved |-> FALSE]

CursorInit ==
    /\ messages = <<>> /\ lastConsolidated = 0
    /\ store = [rows |-> <<>>, lastConsolidated |-> 0, nextSeq |-> 0]
    /\ turn = NoTurn
    /\ queue = 0 /\ task = "none" /\ work = Unlocked
    /\ journal = {} /\ items = {}
    /\ recorded = {} /\ undone = {} /\ stray = {} /\ lost = {} /\ raced = FALSE
    /\ created = 0 /\ incidents = 0

Uids(s) == {s[i].uid : i \in DOMAIN s}
Seqs(s) == {s[i].seq : i \in DOMAIN s}

\* A memory item: what a message or a window has put into the rows of one source_ref;
\* the messages this source_ref names, and those the item is about.
Item(by, ref, about) == [by |-> by, ref |-> ref, about |-> about, active |-> TRUE]

\* A text that a row has already is not stored again: the row, of this chat or of
\* another, retired or not, becomes active and keeps its source_ref.  What it says of
\* these messages is an item apart from what it said before.
KnownRefs == {i.ref : i \in items} \cup {{}}
InKnownRow(ref, named, about) ==
    Item(IF named \subseteq ref THEN "again" ELSE "borrowed", ref, about)

\* One such row, beside the items stored on their own.
StoredInKnownRow(own, named, about) ==
    /\ incidents < MaxIncidents /\ incidents' = incidents + 1
    /\ \E ref \in KnownRefs : items' = items \cup own \cup {InKnownRow(ref, named, about)}

\* A window has been selected and its cursor is not set yet.
Pending == work.stage \in {"extract", "appended"}

-----------------------------------------------------------------------------
(* Turns and pushes                                                         *)

\* _SyncToolContextModule: the id of the user message is guessed from next_seq.
StartTurn ==
    /\ turn.pc = "idle"
    /\ created + 2 <= MaxMessages
    /\ turn' = [pc |-> "reasoning", uid |-> created + 1, predicted |-> store.nextSeq]
    /\ created' = created + 1
    /\ UNCHANGED <<messages, lastConsolidated, store, maintenance, memories,
                   histories, incidents>>

\* The memorize tool: a row whose source is the guessed id, or one that has the text
\* or, for a procedure, is merged with it.
Memorize ==
    /\ turn.pc = "reasoning"
    /\ LET own == Item("memorize", {turn.predicted}, {turn.uid})
       IN  \/ items' = items \cup {own} /\ UNCHANGED incidents
           \/ StoredInKnownRow({}, {turn.predicted}, {turn.uid})
    /\ UNCHANGED <<conversation, maintenance, journal, histories, created>>

\* A retry with less history succeeded: the list in memory is cut to its last w
\* messages and the cursor saved as 0; the rows stay.
TrimHistory(w) ==
    /\ turn.pc = "reasoning"
    /\ incidents < MaxIncidents
    /\ messages' = SubSeq(messages, Len(messages) - w + 1, Len(messages))
    /\ lastConsolidated' = 0
    /\ store' = [store EXCEPT !.lastConsolidated = 0]
    /\ work' = [work EXCEPT !.moved = @ \/ Pending]
    /\ incidents' = incidents + 1
    /\ UNCHANGED <<turn, queue, task, memories, histories, created>>

\* append_messages: rows get ids from next_seq, and the cursor in memory is
\* saved with them, whoever moved it.
AppendMessages(new) ==
    /\ messages' = messages \o new
    /\ store' = [rows |-> store.rows \o new,
                 lastConsolidated |-> lastConsolidated,
                 nextSeq |-> store.nextSeq + Len(new)]

\* _enqueue_maintenance.
EnqueueMaintenance ==
    /\ queue' = queue + 1
    /\ task' = IF task = "none" THEN "running" ELSE task

\* After-reasoning, then TurnCommitted; a spawn completion skips post memory.
Commit(skipPostMemory) ==
    /\ turn.pc = "reasoning"
    /\ created < MaxMessages
    /\ AppendMessages(<<[uid |-> turn.uid, seq |-> store.nextSeq, role |-> "user"],
                        [uid |-> created + 1, seq |-> store.nextSeq + 1,
                         role |-> "assistant"]>>)
    /\ IF skipPostMemory THEN UNCHANGED <<queue, task>> ELSE EnqueueMaintenance
    /\ stray' = IF turn.predicted # store.nextSeq THEN stray \cup {turn.uid} ELSE stray
    /\ turn' = NoTurn
    /\ created' = created + 1
    /\ UNCHANGED <<lastConsolidated, work, memories, recorded, undone, lost, raced,
                   incidents>>

\* The turn fails or is interrupted: nothing is stored.
AbandonTurn ==
    /\ turn.pc = "reasoning"
    /\ turn' = NoTurn
    /\ UNCHANGED <<messages, lastConsolidated, store, maintenance, memories,
                   histories, counters>>

\* handle_proactive_turn stores its message before it is sent.
Push ==
    /\ created < MaxMessages
    /\ AppendMessages(<<[uid |-> created + 1, seq |-> store.nextSeq, role |-> "push"]>>)
    /\ created' = created + 1
    /\ UNCHANGED <<lastConsolidated, turn, maintenance, memories, histories,
                   incidents>>

-----------------------------------------------------------------------------
(* /undo                                                                    *)

\* Positions of passive replies that follow a user's message.
PassiveTurns ==
    {a \in 2 .. Len(messages) : /\ messages[a].role = "assistant"
                                /\ messages[a - 1].role = "user"}

\* Variant: only items about nothing but these messages.
AffectedAlone(seqs) == {i \in items : i.ref \subseteq seqs}

\* The items whose source_ref names one of these messages.
Affected(seqs) == {i \in items : i.ref \cap seqs # {}}

\* Variant: the sources of the affected items do not matter.
RollbackToTurn(a, sources) ==
    IF a - 2 >= lastConsolidated
    THEN Min({lastConsolidated, Len(messages) - 2})
    ELSE Min({lastConsolidated, a - 2})

\* _compute_rollback_index, for the turn at positions a - 1 and a: as far back as
\* the first message that shares a memory item with it.
RollbackIndex(a, sources) ==
    IF a - 2 >= lastConsolidated
    THEN Min({lastConsolidated, Len(messages) - 2})
    ELSE Min({lastConsolidated, a - 2}
             \cup {i - 1 : i \in {k \in DOMAIN messages : messages[k].seq \in sources}})

\* Variant: both messages are taken to be behind the cursor.
CursorLessTwo(a, rollback) == Min({rollback - 2, Len(messages) - 2})

\* The cursor in the list without the two messages.
CursorAfterUndo(a, rollback) ==
    Min({rollback - Cardinality({i \in {a - 2, a - 1} : i < rollback}),
         Len(messages) - 2})

\* The rows without those of these ids: the n-th is the n-th of those left.
Without(rows, gone) ==
    LET left == {k \in DOMAIN rows : rows[k].seq \notin gone}
        Nth(n) == CHOOSE k \in left : Cardinality({l \in left : l <= k}) = n
    IN  [n \in 1 .. Cardinality(left) |-> rows[Nth(n)]]

\* Variant: the rows go, the list in memory stays.
UndoRowsOnly ==
    /\ turn.pc = "idle"
    /\ PassiveTurns # {}
    /\ LET a == Max(PassiveTurns)
       IN  store' = [store EXCEPT
                        !.rows = Without(@, {messages[a - 1].seq, messages[a].seq})]
    /\ UNCHANGED <<messages, lastConsolidated, turn, maintenance, memories, histories,
                   counters>>

\* _undo_last_turn with undo_by_message_sources: delete by position in memory and
\* by id in SQLite, move the cursor back, then retire the items, or fail to and say
\* so.  A window being consolidated is not looked at.
UndoTurn(a) ==
    LET gone == {messages[a - 1].seq, messages[a].seq}
        uids == {messages[a - 1].uid, messages[a].uid}
        affected == Affected(gone)
        rollback == RollbackIndex(a, UNION {i.ref : i \in affected})
    IN  /\ messages' = SubSeq(messages, 1, a - 2) \o SubSeq(messages, a + 1, Len(messages))
        /\ lastConsolidated' = CursorAfterUndo(a, rollback)
        /\ store' = [store EXCEPT !.rows = Without(@, gone),
                                  !.lastConsolidated = lastConsolidated']
        /\ \/ /\ items' = (items \ affected)
                          \cup {[i EXCEPT !.active = FALSE] : i \in affected}
              /\ stray' = IF work.stage # "idle" THEN stray \cup (uids \cap work.uids)
                                               ELSE stray
              /\ UNCHANGED incidents
           \/ /\ incidents < MaxIncidents
              /\ incidents' = incidents + 1
              /\ items' = items /\ stray' = stray \cup uids
        /\ undone' = undone \cup uids
        /\ work' = [work EXCEPT !.moved = @ \/ (Pending /\ a - 1 <= work.upTo)]
        /\ UNCHANGED <<turn, queue, task, journal, recorded, lost, raced, created>>

Undo ==
    /\ turn.pc = "idle"
    /\ PassiveTurns # {}
    /\ UndoTurn(Max(PassiveTurns))

-----------------------------------------------------------------------------
(* Consolidation                                                            *)

\* _select_consolidation_window: the messages after the cursor, all but the last
\* KeepCount unless forced.
WindowEnd(force) == IF force THEN Len(messages) ELSE Len(messages) - KeepCount

Selectable(force) ==
    /\ Len(messages) > lastConsolidated
    /\ force \/ Len(messages) > KeepCount
    /\ WindowEnd(force) - lastConsolidated >= IF force THEN 1 ELSE MinNew

Window(who, first, last, archive) ==
    [by |-> who, stage |-> "extract", archive |-> archive, upTo |-> last, moved |-> FALSE,
     uids |-> Uids(SubSeq(messages, first, last)),
     ref |-> Seqs(SubSeq(messages, first, last))]

\* The maintenance task under its lock: the next entry of the queue.
TaskNext ==
    /\ task = "running"
    /\ work.by \in {"none", "task"} /\ work.stage = "idle"
    /\ queue > 0
    /\ queue' = queue - 1
    /\ work' = IF Selectable(FALSE)
               THEN Window("task", lastConsolidated + 1, WindowEnd(FALSE), FALSE)
               ELSE [Unlocked EXCEPT !.by = "task"]
    /\ UNCHANGED <<conversation, task, memories, histories, counters>>

\* The queue is empty: the coroutine returns; its callback is still to run.
TaskReturn ==
    /\ task = "running"
    /\ work.by \in {"none", "task"} /\ work.stage = "idle"
    /\ queue = 0
    /\ task' = "ended"
    /\ work' = Unlocked
    /\ UNCHANGED <<conversation, queue, memories, histories, counters>>

\* Variant: the callback only forgets the task.
TaskDoneWithoutRestart ==
    /\ task = "ended"
    /\ task' = "none"
    /\ UNCHANGED <<conversation, queue, work, memories, histories, counters>>

\* _on_maintenance_done: entries that came while the task was ending start another.
TaskDone ==
    /\ task = "ended"
    /\ task' = IF queue > 0 THEN "running" ELSE "none"
    /\ UNCHANGED <<conversation, queue, work, memories, histories, counters>>

\* trigger_memory_consolidation.
Manual(force, archive) ==
    /\ work.by = "none"
    /\ incidents < MaxIncidents
    /\ archive \/ Selectable(force)
    /\ incidents' = incidents + 1
    /\ work' = IF archive THEN Window("manual", 1, Len(messages), TRUE)
               ELSE Window("manual", lastConsolidated + 1, WindowEnd(force), FALSE)
    /\ UNCHANGED <<conversation, queue, task, memories, histories, created>>

\* What the holder of the lock goes on with after this consolidation.
Finished == IF work.by = "task" THEN [Unlocked EXCEPT !.by = "task"] ELSE Unlocked

\* prepare_consolidation gives nothing: the window is skipped.
SkipWindow ==
    /\ work.stage = "extract"
    /\ work' = Finished
    /\ UNCHANGED <<conversation, queue, task, memories, histories, counters>>

\* The model has answered; append_history_once and append_pending_once write
\* what it extracted once for each source_ref.
AppendOnce ==
    /\ work.stage = "extract"
    /\ work' = [work EXCEPT !.stage = "appended"]
    /\ journal' = journal \cup {work.ref}
    /\ recorded' = IF work.ref \in journal THEN recorded ELSE recorded \cup work.uids
    /\ UNCHANGED <<conversation, queue, task, items, undone, stray, lost, raced, counters>>

\* Variant: the cursor is set to the end of the list as it is now.
SetCursorToEnd ==
    /\ work.stage = "appended"
    /\ lastConsolidated' = IF work.archive THEN 0 ELSE Len(messages)
    /\ raced' = (raced \/ work.moved)
    /\ work' = [work EXCEPT !.stage = "emit"]
    /\ UNCHANGED <<messages, store, turn, queue, task, memories, recorded, undone, stray,
                   lost, counters>>

\* session.last_consolidated = consolidate_up_to, as computed with the window.
SetCursor ==
    /\ work.stage = "appended"
    /\ lastConsolidated' = IF work.archive THEN 0 ELSE work.upTo
    /\ raced' = (raced \/ work.moved)
    /\ work' = [work EXCEPT !.stage = "emit"]
    /\ UNCHANGED <<messages, store, turn, queue, task, memories, recorded, undone, stray,
                   lost, counters>>

\* The item of the window's own rows.
OwnItem == Item("window", work.ref, work.uids)

\* What the engine stores for ConsolidationCommitted: rows of the window's own, or
\* none, because their texts are known for this source_ref, nearly those of other
\* events, or cannot be embedded or stored, which is logged only; or a text goes into
\* a row that has it, alone or beside rows of its own.
Indexed ==
    /\ \E own \in {{}, {OwnItem}} :
          \/ items' = items \cup own /\ UNCHANGED incidents
          \/ StoredInKnownRow(own, work.ref, work.uids)
    /\ lost' = IF OwnItem \in items' THEN lost ELSE lost \cup work.uids

\* emit returns and the session is saved with the cursor it has by now.
IndexAndSave ==
    /\ work.stage = "emit"
    /\ Indexed
    /\ store' = [store EXCEPT !.lastConsolidated = lastConsolidated]
    /\ work' = Finished
    /\ UNCHANGED <<messages, lastConsolidated, turn, queue, task, journal, recorded,
                   undone, stray, raced, created>>

\* The engine raises, whatever it has stored by then: emit passes it on, the task
\* ends, and nothing is saved.
EmitFails ==
    /\ work.stage = "emit"
    /\ Indexed
    /\ task' = IF work.by = "task" THEN "ended" ELSE task
    /\ work' = Unlocked
    /\ UNCHANGED <<conversation, queue, journal, recorded, undone, stray, raced, created>>

\* Uids whose cursor has passed and whose items are not there.
Unindexed == IF work.stage = "emit" THEN work.uids ELSE {}

\* The manual request's 30 seconds are over.
ManualTimeout ==
    /\ work.by = "manual"
    /\ lost' = lost \cup Unindexed
    /\ work' = Unlocked
    /\ UNCHANGED <<conversation, queue, task, memories, recorded, undone, stray, raced,
                   counters>>

\* The process dies and starts again: the session is loaded from its rows.
Restart ==
    /\ incidents < MaxIncidents
    /\ incidents' = incidents + 1
    /\ messages' = store.rows
    /\ lastConsolidated' = store.lastConsolidated
    /\ turn' = NoTurn
    /\ queue' = 0 /\ task' = "none" /\ work' = Unlocked
    /\ lost' = lost \cup Unindexed
    /\ raced' = (raced \/ Len(messages) # Len(store.rows))
    /\ UNCHANGED <<store, memories, recorded, undone, stray, created>>

-----------------------------------------------------------------------------
CursorNext ==
    \/ StartTurn \/ Memorize \/ AbandonTurn \/ Push \/ Undo
    \/ \E w \in 0 .. Len(messages) : TrimHistory(w)
    \/ \E skip \in BOOLEAN : Commit(skip)
    \/ TaskNext \/ TaskReturn \/ TaskDone
    \/ \E force \in BOOLEAN : Manual(force, FALSE)
    \/ Manual(TRUE, TRUE)
    \/ SkipWindow \/ AppendOnce \/ SetCursor \/ IndexAndSave
    \/ EmitFails \/ ManualTimeout \/ Restart

CursorSpec == CursorInit /\ [][CursorNext]_cursorVars

Consolidate == SkipWindow \/ AppendOnce \/ SetCursor \/ IndexAndSave \/ EmitFails

\* The event loop runs what is ready; the maintenance lock is first come, first
\* served, so the task gets it however many manual requests there are.
CursorFairSpec ==
    /\ CursorSpec
    /\ WF_cursorVars(Consolidate \/ TaskDone)
    /\ SF_cursorVars(TaskNext \/ TaskReturn)

-----------------------------------------------------------------------------
Message == [uid : 1 .. MaxMessages, seq : Nat,
            role : {"user", "assistant", "push"}]

MemoryItem == [by : {"memorize", "window", "again", "borrowed"}, ref : SUBSET Nat,
               about : SUBSET (1 .. MaxMessages), active : BOOLEAN]

Consolidation == [by : {"none", "task", "manual"}, archive : BOOLEAN, upTo : Nat,
                  stage : {"idle", "extract", "appended", "emit"},
                  uids : SUBSET (1 .. MaxMessages), ref : SUBSET Nat, moved : BOOLEAN]

CursorTypeOK ==
    /\ messages \in Seq(Message) /\ lastConsolidated \in Nat
    /\ store \in [rows : Seq(Message), lastConsolidated : Nat, nextSeq : Nat]
    /\ turn \in [pc : {"idle", "reasoning"}, uid : 0 .. MaxMessages, predicted : Nat]
    /\ queue \in Nat /\ task \in {"none", "running", "ended"}
    /\ work \in Consolidation /\ items \subseteq MemoryItem
    /\ journal \subseteq SUBSET Nat
    /\ recorded \cup undone \cup stray \cup lost \subseteq 1 .. MaxMessages
    /\ raced \in BOOLEAN

Passed == {messages[i].uid : i \in 1 .. Min({lastConsolidated, Len(messages)})}

\* No message falls behind the cursor before it was extracted into the memory
\* files, and the cursor stays inside the list: whatever turns, pushes, undos,
\* failures and restarts do in between, unless the list moved under a window
\* that was being consolidated (markdown.py:1102), or was shorter than the rows.
CursorPassesRecordedOnly ==
    ~raced => /\ lastConsolidated <= Len(messages)
              /\ Passed \subseteq recorded

\* After an undo, the messages that shared a memory item with the deleted turn
\* lost that item.  They are ahead of the cursor again, or have another one, unless
\* their window never got a row of its own: then no item names them, and an undo
\* that retires the row they share does not take the cursor back to them.
RetiredIsAheadOrReplaced ==
    ~raced => \A i \in items :
        ~i.active => \A u \in (i.about \cap Passed) \ (lost \cup work.uids) :
            \E j \in items : j.active /\ u \in j.about

\* No active memory item is about a message the user has undone, except for one
\* consolidated while it was undone, one stored under a guessed id that another
\* message got, and one whose clean-up failed, of which the user was told.  A text
\* that was borrowed from a row of other messages is left out: the row keeps its
\* source_ref (store.py:414-431, 493-511), so the undo does not find it.
UndoneIsForgotten ==
    \A i \in items : i.active /\ i.by # "borrowed" => i.about \cap undone \subseteq stray

\* The list in memory is the end of the stored rows, so that a restart gives the
\* same conversation back.
MemoryIsTailOfRows ==
    /\ Len(messages) <= Len(store.rows)
    /\ messages = SubSeq(store.rows, Len(store.rows) - Len(messages) + 1, Len(store.rows))

\* Every committed turn gets its maintenance check, also when it came while the
\* task was returning or after it had failed.
QueueIsServed == (queue > 0) ~> (queue = 0)
=============================================================================
