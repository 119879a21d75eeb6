---------------------------- MODULE PendingMemory ----------------------------
(***************************************************************************)
(* How a fact gets from a conversation into MEMORY.md.  Consolidation      *)
(* appends the facts of a window of messages to PENDING.md, once per       *)
(* source_ref, in a worker thread and under an SQLite transaction; the     *)
(* optimizer moves PENDING.md aside as a snapshot, has a model merge it    *)
(* into MEMORY.md, and deletes the snapshot or rolls it back.  The two     *)
(* share the files and no lock, and the process can die between any two    *)
(* file operations.                                                        *)
(*                                                                         *)
(* A step is one file operation: the worker thread is preempted between    *)
(* any two of its own, and runs between any two of the event loop's.       *)
(***************************************************************************)
EXTENDS Naturals, FiniteSets

CONSTANTS
    Refs,        \* source_refs of consolidation windows; one stands for the
                 \* facts of its window and for the marker line before them
    NoRef,       \* no transaction is open
    MaxCrashes   \* bound: crashes in a behaviour

ASSUME MemoryConstants == NoRef \notin Refs /\ MaxCrashes \in Nat

VARIABLES
    pending,     \* the refs whose lines PENDING.md contains
    snapshot,    \* those of PENDING.snapshot.md; there is no file when empty
    memory,      \* those merged into MEMORY.md
    index,       \* rows of consolidation_writes
    writer,      \* the thread inside append_pending_once's transaction
    finished,    \* windows whose commit returned; cursor moved in memory
    saved,       \* windows the stored session cursor has passed
    opt,         \* where MemoryOptimizer or a recovery stands
    after,       \* what a rollback returns to
    text,        \* snapshot text the optimizer has read
    fresh,       \* PENDING.md text a rollback has read
    base,        \* MEMORY.md text the optimizer has read
    up,          \* the process is up and its MemoryStore constructed
    crashes,     \* crashes so far
    atRisk       \* history: refs hit by one of the races the code leaves open

files == <<pending, snapshot, memory, index, saved>>
optimizer == <<opt, after, text, fresh, base>>
vars == <<files, writer, finished, optimizer, up, crashes, atRisk>>

NoWriter == [ref |-> NoRef, pc |-> "idle", file |-> "none"]

Init ==
    /\ pending = {} /\ snapshot = {} /\ memory = {} /\ index = {} /\ saved = {}
    /\ writer = NoWriter
    /\ finished = {}
    /\ opt = "idle" /\ after = "idle"
    /\ text = {} /\ fresh = {} /\ base = {}
    /\ up = TRUE
    /\ crashes = 0
    /\ atRisk = {}

\* The local variables of a function that has returned.
ForgetTexts == text' = {} /\ fresh' = {} /\ base' = {} /\ after' = "idle"

-----------------------------------------------------------------------------
(* append_pending_once, for the windows whose cursor is not saved yet       *)

\* Variant: a marker without its row ends the append and the row stays missing.
BeginAppendWithoutBackfill(r) ==
    /\ up
    /\ writer = NoWriter
    /\ r \notin finished \cup saved
    /\ IF r \in pending
       THEN /\ finished' = finished \cup {r}
            /\ UNCHANGED writer
       ELSE /\ writer' = [ref |-> r, pc |-> "checked", file |-> "none"]
            /\ UNCHANGED finished
    /\ UNCHANGED <<files, optimizer, up, crashes, atRisk>>

\* BEGIN IMMEDIATE and the checks: with the marker in PENDING.md the row is
\* added if it is missing and nothing is written, also when the row is there.
BeginAppend(r) ==
    /\ up
    /\ writer = NoWriter
    /\ r \notin finished \cup saved
    /\ IF r \in pending
       THEN /\ index' = index \cup {r}
            /\ finished' = finished \cup {r}
            /\ UNCHANGED writer
       ELSE /\ writer' = [ref |-> r, pc |-> "checked", file |-> "none"]
            /\ UNCHANGED <<finished, index>>
    /\ UNCHANGED <<pending, snapshot, memory, saved, optimizer, up, crashes, atRisk>>

\* open(PENDING.md, "a").
OpenPending ==
    /\ writer.pc = "checked"
    /\ writer' = [writer EXCEPT !.pc = "opened", !.file = "pending"]
    /\ UNCHANGED <<files, finished, optimizer, up, crashes, atRisk>>

\* The lines reach the file when it is closed: whichever file PENDING.md has
\* become, and none if that one is deleted.  A rollback that has read PENDING.md
\* and not yet written it will overwrite them.
WriteLines ==
    /\ writer.pc = "opened"
    /\ writer' = [writer EXCEPT !.pc = "written"]
    /\ pending' = IF writer.file = "pending" THEN pending \cup {writer.ref} ELSE pending
    /\ snapshot' = IF writer.file = "snapshot" THEN snapshot \cup {writer.ref} ELSE snapshot
    /\ atRisk' = IF opt \in {"truncate", "rewrite"} THEN atRisk \cup {writer.ref} ELSE atRisk
    /\ UNCHANGED <<memory, index, saved, finished, optimizer, up, crashes>>

\* Variant: the transaction is not closed.
RecordRowKeepingLock ==
    /\ writer.pc = "written"
    /\ index' = index \cup {writer.ref}
    /\ finished' = finished \cup {writer.ref}
    /\ writer' = [writer EXCEPT !.pc = "idle"]
    /\ UNCHANGED <<pending, snapshot, memory, saved, optimizer, up, crashes, atRisk>>

\* The row is inserted and committed, and the connection closed.
RecordRow ==
    /\ writer.pc = "written"
    /\ index' = index \cup {writer.ref}
    /\ finished' = finished \cup {writer.ref}
    /\ writer' = NoWriter
    /\ UNCHANGED <<pending, snapshot, memory, saved, optimizer, up, crashes, atRisk>>

\* save_session stores the advanced cursor.
SaveSession(r) ==
    /\ r \in finished
    /\ finished' = finished \ {r}
    /\ saved' = saved \cup {r}
    /\ UNCHANGED <<pending, snapshot, memory, index, writer, optimizer, up, crashes, atRisk>>

-----------------------------------------------------------------------------
(* snapshot_pending, with the recovery it starts with                       *)

\* Variant: a snapshot left behind is overwritten.
StartWithoutRecovery ==
    /\ up
    /\ opt = "idle"
    /\ opt' = "rename"
    /\ after' = "rename"
    /\ UNCHANGED <<files, writer, finished, text, fresh, base, up, crashes, atRisk>>

\* optimize() takes its lock; a leftover snapshot is rolled back first.
StartOptimize ==
    /\ up
    /\ opt = "idle"
    /\ opt' = IF snapshot # {} THEN "readNew" ELSE "rename"
    /\ after' = "rename"
    /\ UNCHANGED <<files, writer, finished, text, fresh, base, up, crashes, atRisk>>

\* What an open handle refers to once the file it was opened on is f.
Rebind(from, f) == IF writer.file = from THEN [writer EXCEPT !.file = f] ELSE writer

\* An empty PENDING.md stays; another one becomes the snapshot, and with it the
\* file a writer has open.
RenamePending ==
    /\ opt = "rename"
    /\ opt' = "load"
    /\ IF pending = {}
       THEN UNCHANGED <<pending, snapshot, writer, atRisk>>
       ELSE /\ snapshot' = pending
            /\ pending' = {}
            /\ writer' = Rebind("pending", "snapshot")
            /\ atRisk' = IF writer.pc = "opened" THEN atRisk \cup {writer.ref} ELSE atRisk
    /\ UNCHANGED <<memory, index, saved, finished, after, text, fresh, base, up, crashes>>

\* Variant: without a MEMORY.md nothing is merged.
LoadTextsSkippingFirst ==
    /\ opt = "load"
    /\ text' = snapshot
    /\ base' = memory
    /\ opt' = IF memory = {} THEN "idle" ELSE "merging"
    /\ UNCHANGED <<files, writer, finished, after, fresh, up, crashes, atRisk>>

\* Both texts are read; with neither there is nothing to do.
LoadTexts ==
    /\ opt = "load"
    /\ text' = snapshot
    /\ base' = memory
    /\ opt' = IF snapshot = {} /\ memory = {} THEN "idle" ELSE "merging"
    /\ UNCHANGED <<files, writer, finished, after, fresh, up, crashes, atRisk>>

-----------------------------------------------------------------------------
(* The merge and its outcomes                                               *)

\* The model answered.  write_long_term truncates MEMORY.md before it writes.
MergeSucceeds ==
    /\ opt = "merging"
    /\ opt' = "writing"
    /\ memory' = {}
    /\ UNCHANGED <<pending, snapshot, index, saved, writer, finished, after, text, fresh,
                   base, up, crashes, atRisk>>

\* The merged text holds what MEMORY.md had and what was pending.
WriteMemory ==
    /\ opt = "writing"
    /\ opt' = "commit"
    /\ memory' = base \cup text
    /\ UNCHANGED <<pending, snapshot, index, saved, writer, finished, after, text, fresh,
                   base, up, crashes, atRisk>>

\* Variant: the snapshot is not deleted.
CommitKeepingSnapshot ==
    /\ opt = "commit"
    /\ opt' = "idle"
    /\ ForgetTexts
    /\ UNCHANGED <<files, writer, finished, up, crashes, atRisk>>

\* commit_pending_snapshot deletes the snapshot.
CommitSnapshot ==
    /\ opt = "commit"
    /\ opt' = "idle"
    /\ snapshot' = {}
    /\ writer' = Rebind("snapshot", "gone")
    /\ ForgetTexts
    /\ UNCHANGED <<pending, memory, index, saved, finished, up, crashes, atRisk>>

\* The model call failed or gave nothing: roll back, if there is a snapshot.
MergeFails ==
    /\ opt = "merging"
    /\ opt' = IF snapshot # {} THEN "readNew" ELSE "idle"
    /\ ForgetTexts
    /\ UNCHANGED <<files, writer, finished, up, crashes, atRisk>>

\* The task is cancelled while it awaits the model: neither of the two happens.
Abandon ==
    /\ opt = "merging"
    /\ opt' = "idle"
    /\ ForgetTexts
    /\ UNCHANGED <<files, writer, finished, up, crashes, atRisk>>

-----------------------------------------------------------------------------
(* rollback_pending_snapshot                                                *)

ReadNewText ==
    /\ opt = "readNew"
    /\ opt' = "truncate"
    /\ text' = snapshot
    /\ fresh' = pending
    /\ UNCHANGED <<files, writer, finished, after, base, up, crashes, atRisk>>

\* write_text opens PENDING.md for writing, which empties it.
TruncatePending ==
    /\ opt = "truncate"
    /\ opt' = "rewrite"
    /\ pending' = {}
    /\ UNCHANGED <<snapshot, memory, index, saved, writer, finished, after, text, fresh,
                   base, up, crashes, atRisk>>

\* The older lines first, then the newer ones.
RewritePending ==
    /\ opt = "rewrite"
    /\ opt' = "unlink"
    /\ pending' = text \cup fresh
    /\ UNCHANGED <<snapshot, memory, index, saved, writer, finished, after, text, fresh,
                   base, up, crashes, atRisk>>

\* The snapshot is deleted and the rollback returns: to snapshot_pending, to
\* optimize, or to the constructor.
UnlinkSnapshot ==
    /\ opt = "unlink"
    /\ opt' = after
    /\ snapshot' = {}
    /\ writer' = Rebind("snapshot", "gone")
    /\ up' = TRUE
    /\ ForgetTexts
    /\ UNCHANGED <<pending, memory, index, saved, finished, crashes, atRisk>>

-----------------------------------------------------------------------------
(* Crashes and restarts                                                     *)

\* The process dies; a transaction that is open is rolled back by SQLite.  A
\* file that is truncated and not yet written stays empty.
Crash ==
    /\ crashes < MaxCrashes
    /\ crashes' = crashes + 1
    /\ up' = FALSE
    /\ opt' = "down"
    /\ writer' = NoWriter
    /\ finished' = {}
    /\ atRisk' = atRisk \cup (IF opt = "rewrite" THEN fresh
                              ELSE IF opt = "writing" THEN base ELSE {})
    /\ ForgetTexts
    /\ UNCHANGED files

\* MemoryStore is constructed: a leftover snapshot is rolled back.
Boot ==
    /\ opt = "down"
    /\ opt' = IF snapshot # {} THEN "readNew" ELSE "idle"
    /\ up' = (snapshot = {})
    /\ UNCHANGED <<files, writer, finished, after, text, fresh, base, crashes, atRisk>>

-----------------------------------------------------------------------------

Optimizer ==
    \/ StartOptimize \/ RenamePending \/ LoadTexts \/ WriteMemory \/ CommitSnapshot
    \/ ReadNewText \/ TruncatePending \/ RewritePending \/ UnlinkSnapshot \/ Boot

Next ==
    \/ \E r \in Refs : BeginAppend(r)
    \/ OpenPending
    \/ WriteLines
    \/ RecordRow
    \/ \E r \in Refs : SaveSession(r)
    \/ Optimizer
    \/ MergeSucceeds
    \/ MergeFails
    \/ Abandon
    \/ Crash

Spec == Init /\ [][Next]_vars

\* The optimizer loop calls optimize again and again, file operations end, a
\* process that died is restarted, and the model does not fail for ever.
Fairness == WF_vars(Optimizer) /\ SF_vars(MergeSucceeds)

FairSpec == Spec /\ Fairness

-----------------------------------------------------------------------------
(* Properties                                                               *)

Steps == {"idle", "rename", "load", "merging", "writing", "commit", "readNew",
          "truncate", "rewrite", "unlink", "down"}

\* Every variable stays within its type.
TypeOK ==
    /\ pending \subseteq Refs /\ snapshot \subseteq Refs /\ memory \subseteq Refs
    /\ index \subseteq Refs /\ saved \subseteq Refs /\ finished \subseteq Refs
    /\ writer \in {NoWriter} \cup [ref : Refs, pc : {"checked", "opened", "written"},
                                   file : {"none", "pending", "snapshot", "gone"}]
    /\ opt \in Steps /\ after \in {"idle", "rename"}
    /\ text \subseteq Refs /\ fresh \subseteq Refs /\ base \subseteq Refs
    /\ up \in BOOLEAN /\ crashes \in 0 .. MaxCrashes
    /\ atRisk \subseteq Refs

\* What the files hold, with what a rewrite under way has in its hands.
Kept == pending \cup snapshot \cup memory
        \cup (IF opt = "rewrite" THEN fresh ELSE {})
        \cup (IF opt = "writing" THEN base ELSE {})

\* A recorded fact is in one of the files, whenever the process dies and however
\* the optimizer ends, but for three cases: its append met the rename or the
\* rollback of PENDING.md, or a crash met the rewrite of the file it was in.
FactsKept == index \ atRisk \subseteq Kept

\* A fact the store has recorded is never lost.
NothingLost == index \subseteq Kept

\* Without a crash a fact is handed to the merge once: what MEMORY.md holds is
\* neither pending nor in a snapshot, except until that snapshot is deleted.
MergedOnce ==
    crashes = 0 /\ opt # "commit" => memory \cap (pending \cup snapshot) = {}

\* The stored cursor never passes a window whose facts have not been recorded.
CursorBehindIndex == saved \cup finished \subseteq index

\* A recorded fact reaches MEMORY.md.
FactsReachMemory ==
    \A r \in Refs : r \in index ~> r \in memory \/ r \in atRisk
-----------------------------------------------------------------------------
(* The files implement FactLedger: where each fact stands.                  *)

\* What PENDING.md and its snapshot hold, or will again when a rollback is through.
Queued == pending \cup snapshot \cup (IF opt = "rewrite" THEN fresh ELSE {})

\* What MEMORY.md holds, or will again when its rewrite is through.
Merged == memory \cup (IF opt = "writing" THEN base ELSE {})

Ledger == INSTANCE FactLedger
    WITH recorded <- index, queued <- Queued, merged <- Merged, exposed <- atRisk,
         passed <- saved \cup finished

\* However thread, optimizer and crashes interleave, the files move each fact as
\* FactLedger says: recorded once written, off PENDING.md once it is in MEMORY.md.
LedgerSpec == Ledger!Spec
=============================================================================
