------------------------- MODULE MemoryPipelineProofs -------------------------
(***************************************************************************)
(* Theorems about the memory files, for any windows and any number of        *)
(* crashes, and about the whole way from a message to MEMORY.md as TLC checks*)
(* it: the files and the session side by side.                               *)
(***************************************************************************)
EXTENDS MCMemoryPipeline, SessionCursorProofs

-----------------------------------------------------------------------------
(* The memory files                                                         *)

\* The writer's record keeps its shape when its file is renamed or deleted.
Writers == {NoWriter} \cup [ref : Refs, pc : {"checked", "opened", "written"},
                            file : {"none", "pending", "snapshot", "gone"}]

\* Renaming or deleting the file a writer has open changes what it is open on, and nothing else.
LEMMA RebindKeeps ==
  ASSUME writer \in Writers, NEW from \in {"pending", "snapshot"}, NEW f \in {"snapshot", "gone"}
  PROVE  LET w == Rebind(from, f) IN
         /\ w \in Writers
         /\ w.ref = writer.ref /\ w.pc = writer.pc
         /\ w.file = IF writer.file = from THEN f ELSE writer.file
BY MemoryConstants DEF MemoryConstants, Writers, Rebind, NoWriter

\* A writer that is at work has an entry to write.
LEMMA WriterShape ==
  ASSUME writer \in Writers, writer.pc # "idle"
  PROVE  /\ writer \in [ref : Refs, pc : {"checked", "opened", "written"},
                        file : {"none", "pending", "snapshot", "gone"}]
         /\ writer.ref \in Refs
BY DEF Writers, NoWriter

\* Every step keeps the types.
LEMMA TypeStep == TypeOK /\ [Next]_vars => TypeOK'
<1> SUFFICES ASSUME TypeOK, [Next]_vars PROVE TypeOK'
  OBVIOUS
<1> USE DEF TypeOK, Steps, ForgetTexts
<1>0. writer \in Writers
  BY DEF Writers
<1>1. ASSUME NEW r \in Refs, BeginAppend(r) PROVE TypeOK'
  BY <1>1 DEF BeginAppend, optimizer
<1>2. ASSUME OpenPending PROVE TypeOK'
  BY <1>2, <1>0, WriterShape DEF OpenPending, files, optimizer
<1>3. ASSUME WriteLines PROVE TypeOK'
  <2>1. writer' \in Writers
    BY <1>0, <1>3, WriterShape DEF WriteLines, Writers
  <2>2. writer.ref \in Refs
    BY <1>0, <1>3, WriterShape DEF WriteLines
  <2> QED BY <1>3, <2>1, <2>2 DEF WriteLines, optimizer, Writers
<1>4. ASSUME RecordRow PROVE TypeOK'
  BY <1>4, <1>0, WriterShape DEF RecordRow, optimizer
<1>5. ASSUME NEW r \in Refs, SaveSession(r) PROVE TypeOK'
  BY <1>5 DEF SaveSession, optimizer
<1>6. ASSUME RenamePending PROVE TypeOK'
  <2>1. writer' \in Writers
    BY <1>0, <1>6, RebindKeeps DEF RenamePending
  <2>2. writer.pc = "opened" => writer.ref \in Refs
    BY <1>0, WriterShape
  <2> QED BY <1>6, <2>1, <2>2 DEF RenamePending, Writers
<1>7. ASSUME CommitSnapshot \/ UnlinkSnapshot PROVE TypeOK'
  <2>1. writer' \in Writers
    BY <1>0, <1>7, RebindKeeps DEF CommitSnapshot, UnlinkSnapshot
  <2> QED BY <1>7, <2>1 DEF CommitSnapshot, UnlinkSnapshot, Writers
<1>8. ASSUME StartOptimize \/ LoadTexts \/ MergeSucceeds \/ WriteMemory \/ MergeFails \/ Abandon
      PROVE  TypeOK'
  BY <1>8 DEF StartOptimize, LoadTexts, MergeSucceeds, WriteMemory, MergeFails, Abandon, files
<1>9. ASSUME ReadNewText \/ TruncatePending \/ RewritePending \/ Boot PROVE TypeOK'
  BY <1>9 DEF ReadNewText, TruncatePending, RewritePending, Boot, files
<1>10. ASSUME Crash PROVE TypeOK'
  <2>1. crashes' \in 0 .. MaxCrashes
    BY <1>10, MemoryConstants DEF Crash, MemoryConstants
  <2>2. atRisk' \subseteq Refs
    BY <1>10 DEF Crash
  <2> QED BY <1>10, <2>1, <2>2 DEF Crash, files
<1>11. ASSUME UNCHANGED vars PROVE TypeOK'
  BY <1>11 DEF vars, files, optimizer
<1> HIDE DEF TypeOK, Steps, ForgetTexts
<1> QED BY <1>1, <1>2, <1>3, <1>4, <1>5, <1>6, <1>7, <1>8, <1>9, <1>10, <1>11
       DEF Next, Optimizer

\* Every behaviour is well typed.
THEOREM TypeCorrect == Spec => []TypeOK
<1>1. Init => TypeOK
  BY MemoryConstants DEF Init, TypeOK, Steps, MemoryConstants
<1> QED BY <1>1, TypeStep, PTL DEF Spec

-----------------------------------------------------------------------------
(* The stored cursor stays behind the index.                                *)

\* A session cursor passes a window only once its row is there, so a crash can
\* make a window be consolidated again but never be skipped.
THEOREM AppendsPrecedeCursor == Spec => []CursorBehindIndex
<1>1. Init => CursorBehindIndex
  BY DEF Init, CursorBehindIndex
<1>2. CursorBehindIndex /\ [Next]_vars => CursorBehindIndex'
  BY DEF CursorBehindIndex, Next, Optimizer, BeginAppend, OpenPending, WriteLines, RecordRow,
     SaveSession, StartOptimize, RenamePending, LoadTexts, MergeSucceeds, WriteMemory,
     CommitSnapshot, MergeFails, Abandon, ReadNewText, TruncatePending, RewritePending,
     UnlinkSnapshot, Crash, Boot, vars, files
<1> QED BY <1>1, <1>2, PTL DEF Spec

-----------------------------------------------------------------------------
(* A recorded fact is kept.                                                 *)

\* The facts that must be somewhere: recorded, or written and about to be.
Written == IF writer.pc = "written" THEN {writer.ref} ELSE {}
Owed == (index \cup Written) \ atRisk

\* A handle that followed the file into the snapshot belongs to a ref at risk,
\* and exists only as long as the snapshot.
HandleAtRisk ==
    /\ writer.pc = "opened" => writer.file # "none"
    /\ writer.pc = "opened" /\ writer.file \in {"snapshot", "gone"} => writer.ref \in atRisk
    /\ snapshot = {} => writer.file # "snapshot"

\* What each step of the optimizer is about to drop has a copy elsewhere.
Copied ==
    /\ opt = "rename" => snapshot = {}
    /\ opt = "merging" => base = memory
    /\ opt = "writing" => memory = {}
    /\ opt \in {"merging", "writing", "truncate", "rewrite"} => snapshot \ atRisk \subseteq text
    /\ opt = "commit" => snapshot \ atRisk \subseteq memory
    /\ opt \in {"truncate", "rewrite"} => pending \ atRisk \subseteq fresh
    /\ opt = "rewrite" => pending \subseteq atRisk
    /\ opt = "unlink" => snapshot \ atRisk \subseteq pending

\* What an entry that is owed lives in, step by step of the optimizer.
Safe == TypeOK /\ HandleAtRisk /\ Copied /\ Owed \subseteq Kept

\* Every step keeps what makes entries safe: each is in a file, or at risk in a way
\* the model records.
LEMMA SafeStep == Safe /\ [Next]_vars => Safe'
<1> SUFFICES ASSUME Safe, [Next]_vars PROVE Safe'
  OBVIOUS
<1>0. writer \in Writers /\ TypeOK'
  BY TypeStep DEF Safe, TypeOK, Writers
<1> DEFINE Rest == HandleAtRisk /\ Copied /\ Owed \subseteq Kept
<1> USE DEF HandleAtRisk, Copied, Owed, Written, Kept, ForgetTexts, Safe
<1>1. ASSUME NEW r \in Refs, BeginAppend(r) PROVE Rest'
  BY <1>1 DEF BeginAppend, optimizer, NoWriter
<1>2. ASSUME OpenPending PROVE Rest'
  <2>1. writer'.pc = "opened" /\ writer'.file = "pending"
    BY <1>0, <1>2, WriterShape DEF OpenPending
  <2> QED BY <1>2, <2>1 DEF OpenPending, files, optimizer
<1>3. ASSUME WriteLines PROVE Rest'
  <2>1. /\ writer'.pc = "written" /\ writer'.file = writer.file /\ writer'.ref = writer.ref
        /\ writer.pc = "opened" /\ writer.file \in {"pending", "snapshot", "gone"}
    BY <1>0, <1>3, WriterShape DEF WriteLines
  <2>2. /\ UNCHANGED <<memory, index, opt, text, fresh, base>>
        /\ atRisk \subseteq atRisk'
        /\ opt \in {"truncate", "rewrite"} => writer.ref \in atRisk'
    BY <1>3 DEF WriteLines, optimizer
  <2>3. CASE writer.file = "pending"
    <3>1. pending' = pending \cup {writer.ref} /\ snapshot' = snapshot
      BY <1>3, <2>3 DEF WriteLines
    <3>2. HandleAtRisk'
      BY <2>1, <2>3, <3>1
    <3>3. Copied'
      BY <2>2, <3>1
    <3>4. (Owed \subseteq Kept)'
      BY <2>1, <2>2, <3>1
    <3> QED BY <3>2, <3>3, <3>4
  <2>4. CASE writer.file \in {"snapshot", "gone"}
    <3>1. pending' = pending /\ snapshot \subseteq snapshot' /\ writer.ref \in atRisk
          /\ snapshot' \subseteq snapshot \cup {writer.ref}
          /\ (snapshot' = {} => snapshot = {})
      BY <1>3, <2>1, <2>4 DEF WriteLines
    <3>2. snapshot = {} => snapshot' = snapshot
      BY <1>3, <2>1, <2>4 DEF WriteLines
    <3>3. HandleAtRisk'
      BY <2>1, <3>1
    <3>4. Copied'
      BY <2>2, <3>1, <3>2
    <3>5. (Owed \subseteq Kept)'
      BY <2>1, <2>2, <3>1
    <3> QED BY <3>3, <3>4, <3>5
  <2> QED BY <2>1, <2>3, <2>4
<1>4. ASSUME RecordRow PROVE Rest'
  BY <1>4 DEF RecordRow, optimizer, NoWriter
<1>5. ASSUME NEW r \in Refs, SaveSession(r) PROVE Rest'
  BY <1>5 DEF SaveSession, optimizer
<1>6. ASSUME RenamePending PROVE Rest'
  <2>1. CASE pending = {}
    BY <1>6, <2>1 DEF RenamePending
  <2>2. CASE pending # {}
    <3>1. /\ writer'.ref = writer.ref /\ writer'.pc = writer.pc
          /\ snapshot' = pending /\ pending' = {} /\ opt = "rename" /\ opt' = "load"
          /\ writer'.file = IF writer.file = "pending" THEN "snapshot" ELSE writer.file
          /\ UNCHANGED <<memory, index, text, fresh, base>>
          /\ atRisk \subseteq atRisk'
          /\ (writer.pc = "opened" => writer.ref \in atRisk')
      BY <1>0, <1>6, <2>2, RebindKeeps DEF RenamePending
    <3>2. HandleAtRisk'
      BY <2>2, <3>1
    <3>3. Copied'
      BY <3>1
    <3>4. (Owed \subseteq Kept)'
      BY <3>1
    <3> QED BY <3>2, <3>3, <3>4
  <2> QED BY <2>1, <2>2
<1>7. ASSUME CommitSnapshot \/ UnlinkSnapshot PROVE Rest'
  <2>1. /\ writer'.ref = writer.ref /\ writer'.pc = writer.pc
        /\ writer'.file = IF writer.file = "snapshot" THEN "gone" ELSE writer.file
    BY <1>0, <1>7, RebindKeeps DEF CommitSnapshot, UnlinkSnapshot
  <2>2. opt' \in {"idle", "rename"} /\ snapshot' = {}
        /\ UNCHANGED <<pending, memory, index, atRisk>>
    BY <1>7 DEF CommitSnapshot, UnlinkSnapshot, TypeOK
  <2>3. snapshot \ atRisk \subseteq memory \cup pending /\ opt \in {"commit", "unlink"}
    BY <1>7 DEF CommitSnapshot, UnlinkSnapshot
  <2>4. HandleAtRisk'
    BY <2>1, <2>2
  <2>5. Copied'
    BY <2>2
  <2>6. (Owed \subseteq Kept)'
    BY <2>1, <2>2, <2>3
  <2> QED BY <2>4, <2>5, <2>6
<1>8. ASSUME StartOptimize \/ LoadTexts \/ MergeFails \/ Abandon PROVE Rest'
  BY <1>8 DEF StartOptimize, LoadTexts, MergeFails, Abandon, files
<1>9. ASSUME MergeSucceeds \/ WriteMemory PROVE Rest'
  <2>1. UNCHANGED <<pending, snapshot, index, writer, text, base, atRisk>>
    BY <1>9 DEF MergeSucceeds, WriteMemory
  <2>2. CASE MergeSucceeds
    BY <2>1, <2>2 DEF MergeSucceeds
  <2>3. CASE WriteMemory
    <3>1. opt = "writing" /\ opt' = "commit" /\ memory' = base \cup text
      BY <2>3 DEF WriteMemory
    <3>2. HandleAtRisk' /\ Copied'
      BY <2>1, <3>1
    <3>3. (Owed \subseteq Kept)'
      BY <2>1, <3>1
    <3> QED BY <3>2, <3>3
  <2> QED BY <1>9, <2>2, <2>3
<1>10. ASSUME ReadNewText \/ TruncatePending \/ RewritePending \/ Boot PROVE Rest'
  BY <1>10 DEF ReadNewText, TruncatePending, RewritePending, Boot, files
<1>11. ASSUME Crash PROVE Rest'
  BY <1>11 DEF Crash, files, NoWriter
<1>12. ASSUME UNCHANGED vars PROVE Rest'
  BY <1>12 DEF vars, files, optimizer
<1> HIDE DEF HandleAtRisk, Copied, Owed, Written, Kept, ForgetTexts, Rest
<1>13. Rest'
  BY <1>1, <1>2, <1>3, <1>4, <1>5, <1>6, <1>7, <1>8, <1>9, <1>10, <1>11, <1>12
     DEF Next, Optimizer
<1> QED BY <1>0, <1>13 DEF Rest

\* What makes entries safe holds always.
LEMMA SafeAlways == Spec => []Safe
<1>1. Init => Safe
  BY MemoryConstants
     DEF Init, Safe, TypeOK, Steps, HandleAtRisk, Copied, Owed, Written, Kept, NoWriter,
         MemoryConstants
<1> QED BY <1>1, SafeStep, PTL DEF Spec

\* However threads, merges, rollbacks and crashes are interleaved, a recorded
\* fact is in one of the files unless its append met a rename or a rollback, or
\* a crash met the rewrite of its file.
THEOREM RecordedIsKept == Spec => []FactsKept
<1>1. Safe => FactsKept
  BY DEF Safe, FactsKept, Owed
<1> QED BY <1>1, SafeAlways, PTL

-----------------------------------------------------------------------------
(* Without a crash a fact is merged once.                                   *)

Anywhere == pending \cup snapshot \cup memory \cup text \cup base \cup fresh

\* As long as no process has died, a ref is appended in one transaction only, and
\* its lines are nowhere before that.
AppendedOnce ==
    /\ Anywhere \subseteq finished \cup saved \cup Written
    /\ writer.pc # "idle" => writer.ref \notin finished \cup saved

\* What the optimizer holds is neither merged already nor pending again.
HeldOnce ==
    /\ opt # "commit" => memory \cap (pending \cup snapshot) = {}
    /\ opt = "commit" => memory \cap pending = {}
    /\ opt = "load" => snapshot \cap pending = {}
    /\ opt \in {"merging", "writing"} => text \cap pending = {} /\ base \cap pending = {}
    /\ opt \in {"truncate", "rewrite"} => memory \cap (text \cup fresh) = {}

\* Only a crash makes an entry be written twice.
Once == crashes = 0 => AppendedOnce /\ HeldOnce

\* Without a crash, every step keeps an entry from being merged a second time.
LEMMA OnceStep == Safe /\ Once /\ [Next]_vars => Once'
<1> SUFFICES ASSUME Safe, Once, [Next]_vars, crashes' = 0
             PROVE  AppendedOnce' /\ HeldOnce'
  BY DEF Once
<1>0. writer \in Writers /\ TypeOK /\ Copied /\ HandleAtRisk
  BY DEF Safe, TypeOK, Writers
<1>x. crashes = 0 \/ Crash
  BY DEF Next, Optimizer, BeginAppend, OpenPending, WriteLines, RecordRow,
     SaveSession, StartOptimize, RenamePending, LoadTexts, MergeSucceeds, WriteMemory,
     CommitSnapshot, MergeFails, Abandon, ReadNewText, TruncatePending, RewritePending,
     UnlinkSnapshot, Boot, vars
<1>y. ~Crash
  BY <1>0 DEF Crash, TypeOK
<1>z. AppendedOnce /\ HeldOnce
  BY <1>x, <1>y DEF Once
<1> DEFINE Goal == AppendedOnce' /\ HeldOnce'
<1> USE DEF AppendedOnce, HeldOnce, Anywhere, Written, ForgetTexts
<1>1. ASSUME NEW r \in Refs, BeginAppend(r) PROVE Goal
  BY <1>z, <1>1 DEF BeginAppend, optimizer, NoWriter
<1>2. ASSUME OpenPending PROVE Goal
  <2>1. writer'.pc = "opened" /\ writer'.ref = writer.ref /\ writer.pc = "checked"
    BY <1>0, <1>2, WriterShape DEF OpenPending
  <2> QED BY <1>z, <1>2, <2>1 DEF OpenPending, files, optimizer
<1>3. ASSUME WriteLines PROVE Goal
  <2>1. /\ writer'.pc = "written" /\ writer'.ref = writer.ref
        /\ writer.pc = "opened"
    BY <1>0, <1>3, WriterShape DEF WriteLines
  <2>2. UNCHANGED <<memory, opt, text, fresh, base, finished, saved>>
    BY <1>3 DEF WriteLines, optimizer
  <2>3. /\ pending \subseteq pending' /\ pending' \subseteq pending \cup {writer.ref}
        /\ snapshot \subseteq snapshot' /\ snapshot' \subseteq snapshot \cup {writer.ref}
        /\ pending' = pending \/ snapshot' = snapshot
    BY <1>3 DEF WriteLines
  <2>4. writer.ref \notin Anywhere
    BY <1>z, <2>1
  <2>5. AppendedOnce'
    BY <1>z, <2>1, <2>2, <2>3
  <2>6. HeldOnce'
    BY <1>z, <2>2, <2>3, <2>4
  <2> QED BY <2>5, <2>6
<1>4. ASSUME RecordRow PROVE Goal
  BY <1>z, <1>4 DEF RecordRow, optimizer, NoWriter
<1>5. ASSUME NEW r \in Refs, SaveSession(r) PROVE Goal
  BY <1>z, <1>5 DEF SaveSession, optimizer
<1>6. ASSUME RenamePending PROVE Goal
  <2>1. CASE pending = {}
    BY <1>z, <1>6, <2>1 DEF RenamePending
  <2>2. CASE pending # {}
    <3>1. /\ writer'.ref = writer.ref /\ writer'.pc = writer.pc
          /\ snapshot' = pending /\ pending' = {} /\ opt = "rename" /\ opt' = "load"
          /\ UNCHANGED <<memory, text, fresh, base, finished, saved>>
      BY <1>0, <1>6, <2>2, RebindKeeps DEF RenamePending
    <3> QED BY <1>z, <3>1
  <2> QED BY <2>1, <2>2
<1>7. ASSUME CommitSnapshot \/ UnlinkSnapshot PROVE Goal
  <2>1. writer'.ref = writer.ref /\ writer'.pc = writer.pc
    BY <1>0, <1>7, RebindKeeps DEF CommitSnapshot, UnlinkSnapshot
  <2>2. opt' \in {"idle", "rename"} /\ snapshot' = {} /\ opt \in {"commit", "unlink"}
        /\ text' = {} /\ base' = {} /\ fresh' = {}
        /\ UNCHANGED <<pending, memory, finished, saved>>
    BY <1>0, <1>7 DEF CommitSnapshot, UnlinkSnapshot, TypeOK
  <2> QED BY <1>z, <2>1, <2>2
<1>8. ASSUME StartOptimize \/ LoadTexts \/ MergeFails \/ Abandon PROVE Goal
  <2>1. UNCHANGED <<pending, snapshot, memory, finished, saved, writer>>
    BY <1>8 DEF StartOptimize, LoadTexts, MergeFails, Abandon, files
  <2>2. CASE StartOptimize
    BY <1>z, <2>1, <2>2 DEF StartOptimize
  <2>3. CASE LoadTexts
    BY <1>z, <2>1, <2>3 DEF LoadTexts
  <2>4. CASE MergeFails \/ Abandon
    BY <1>z, <2>1, <2>4 DEF MergeFails, Abandon
  <2> QED BY <1>8, <2>2, <2>3, <2>4
<1>9. ASSUME MergeSucceeds \/ WriteMemory PROVE Goal
  BY <1>z, <1>9 DEF MergeSucceeds, WriteMemory
<1>10. ASSUME ReadNewText \/ TruncatePending \/ RewritePending \/ Boot PROVE Goal
  BY <1>z, <1>10 DEF ReadNewText, TruncatePending, RewritePending, Boot, files
<1>11. ASSUME UNCHANGED vars PROVE Goal
  BY <1>z, <1>11 DEF vars, files, optimizer
<1> HIDE DEF AppendedOnce, HeldOnce, Anywhere, Written, ForgetTexts
<1> QED BY <1>y, <1>1, <1>2, <1>3, <1>4, <1>5, <1>6, <1>7, <1>8, <1>9, <1>10, <1>11
       DEF Next, Optimizer

\* In a process that has not died, what MEMORY.md holds is neither pending nor in
\* a snapshot, except until that snapshot is deleted: appends in a thread, merges
\* and rollbacks never hand a fact to the model twice.
THEOREM MergedAtMostOnce == Spec => []MergedOnce
<1>1. Init => Once
  BY DEF Init, Once, AppendedOnce, HeldOnce, Anywhere, Written, NoWriter
<1>2. Once => MergedOnce
  BY DEF Once, HeldOnce, MergedOnce
<1> QED BY <1>1, <1>2, OnceStep, SafeAlways, PTL DEF Spec

-----------------------------------------------------------------------------
(* The files implement FactLedger                                            *)

\* What is about to be written back was read from a file that still holds it.
Texts ==
    /\ opt \in {"merging", "writing", "truncate", "rewrite"} => text \subseteq snapshot
    /\ opt = "truncate" => fresh \subseteq pending

\* Between reading a file and writing its text back, no step shortens that file.
LEMMA TextsStep == Safe /\ Texts /\ [Next]_vars => Texts'
<1> SUFFICES ASSUME Safe, Texts, [Next]_vars PROVE Texts'
  OBVIOUS
<1> USE DEF Texts, ForgetTexts
<1>1. ASSUME NEW r \in Refs, BeginAppend(r) \/ SaveSession(r) PROVE Texts'
  BY <1>1 DEF BeginAppend, SaveSession, files, optimizer
<1>2. ASSUME OpenPending \/ RecordRow PROVE Texts'
  BY <1>2 DEF OpenPending, RecordRow, files, optimizer
<1>3. ASSUME WriteLines PROVE Texts'
  BY <1>3 DEF WriteLines, optimizer
<1>4. ASSUME StartOptimize \/ RenamePending \/ LoadTexts \/ MergeFails \/ Abandon PROVE Texts'
  BY <1>4 DEF StartOptimize, RenamePending, LoadTexts, MergeFails, Abandon, files
<1>5. ASSUME MergeSucceeds \/ WriteMemory PROVE Texts'
  BY <1>5 DEF MergeSucceeds, WriteMemory
<1>6. ASSUME CommitSnapshot \/ UnlinkSnapshot PROVE Texts'
  BY <1>6 DEF CommitSnapshot, UnlinkSnapshot, Safe, TypeOK
<1>7. ASSUME ReadNewText \/ TruncatePending \/ RewritePending PROVE Texts'
  BY <1>7 DEF ReadNewText, TruncatePending, RewritePending, files
<1>8. ASSUME Crash \/ Boot PROVE Texts'
  BY <1>8 DEF Crash, Boot, files
<1>9. ASSUME UNCHANGED vars PROVE Texts'
  BY <1>9 DEF vars, files, optimizer
<1> QED BY <1>1, <1>2, <1>3, <1>4, <1>5, <1>6, <1>7, <1>8, <1>9 DEF Next, Optimizer

\* What an append does to the ledger: it writes a fact, or records one that was written.
LEMMA AppendLedger ==
  ASSUME Safe,
         \/ \E r \in Refs : BeginAppend(r) \/ SaveSession(r)
         \/ OpenPending \/ WriteLines \/ RecordRow
  PROVE  [Ledger!Next]_Ledger!ledger
<1>0. writer \in Writers /\ HandleAtRisk /\ Owed \subseteq Kept
  BY DEF Safe, TypeOK, Writers
<1>1. CASE \E r \in Refs : BeginAppend(r)
  <2>1. PICK r \in Refs : BeginAppend(r)
    BY <1>1
  <2>2. Queued' = Queued /\ Merged' = Merged /\ atRisk' = atRisk /\ saved' = saved
    BY <2>1 DEF BeginAppend, Queued, Merged, optimizer
  <2>3. CASE r \in pending
    <3>1. Ledger!Record(r)
      BY <2>1, <2>2, <2>3 DEF BeginAppend, Queued, Ledger!Record
    <3> QED BY <3>1 DEF Ledger!Next
  <2>4. CASE r \notin pending
    BY <2>1, <2>2, <2>4 DEF BeginAppend, Ledger!ledger
  <2> QED BY <2>3, <2>4
<1>2. CASE \E r \in Refs : SaveSession(r)
  BY <1>2 DEF SaveSession, Queued, Merged, optimizer, Ledger!ledger
<1>3. CASE OpenPending
  BY <1>3 DEF OpenPending, Queued, Merged, files, optimizer, Ledger!ledger
<1>4. CASE WriteLines
  <2>1. /\ writer.ref \in Refs /\ writer.pc = "opened"
        /\ writer.file \in {"pending", "snapshot", "gone"}
    BY <1>0, <1>4, WriterShape DEF WriteLines, HandleAtRisk
  <2>2. /\ UNCHANGED <<memory, index, opt, fresh, base, saved, finished>>
        /\ atRisk' \in {atRisk, atRisk \cup {writer.ref}}
    BY <1>4 DEF WriteLines, optimizer
  <2>3. CASE writer.file = "gone"
    <3>1. pending' = pending /\ snapshot' = snapshot /\ writer.ref \in atRisk
      BY <1>0, <1>4, <2>1, <2>3 DEF WriteLines, HandleAtRisk
    <3>2. Ledger!Write(writer.ref)
      BY <2>2, <3>1 DEF Queued, Merged, Ledger!Write
    <3> QED BY <2>1, <3>2 DEF Ledger!Next
  <2>4. CASE writer.file # "gone"
    <3>1. pending' \cup snapshot' = (pending \cup snapshot) \cup {writer.ref}
      BY <1>4, <2>1, <2>4 DEF WriteLines
    <3>2. Queued' = Queued \cup {writer.ref}
      BY <2>2, <3>1 DEF Queued
    <3>3. Ledger!Write(writer.ref)
      BY <2>2, <3>2 DEF Merged, Ledger!Write
    <3> QED BY <2>1, <3>3 DEF Ledger!Next
  <2> QED BY <2>3, <2>4
<1>5. CASE RecordRow
  <2>1. writer.ref \in Refs /\ writer.pc = "written"
    BY <1>0, <1>5, WriterShape DEF RecordRow
  <2>2. writer.ref \in Queued \cup Merged \cup atRisk
    BY <1>0, <2>1 DEF Owed, Written, Kept, Queued, Merged
  <2>3. Ledger!Record(writer.ref)
    BY <1>5, <2>2 DEF RecordRow, Queued, Merged, optimizer, Ledger!Record
  <2> QED BY <2>1, <2>3 DEF Ledger!Next
<1> QED BY <1>1, <1>2, <1>3, <1>4, <1>5

\* The optimizer merges what is queued, and takes off the queue what is merged; its
\* rename exposes the append that it meets, and its other steps do not show.
LEMMA OptimizerLedger ==
  ASSUME Safe, Texts, Optimizer \/ MergeSucceeds \/ MergeFails \/ Abandon
  PROVE  [Ledger!Next]_Ledger!ledger
<1>0. TypeOK /\ Copied /\ writer \in Writers
  BY DEF Safe, TypeOK, Writers
<1> USE DEF ForgetTexts
<1>1. CASE RenamePending
  <2>1. /\ Queued' = Queued /\ Merged' = Merged
        /\ UNCHANGED <<index, saved, finished>>
        /\ \/ atRisk' = atRisk
           \/ writer.pc = "opened" /\ atRisk' = atRisk \cup {writer.ref}
    BY <1>0, <1>1 DEF RenamePending, Queued, Merged, Copied
  <2>2. CASE atRisk' = atRisk
    BY <2>1, <2>2 DEF Ledger!ledger
  <2>3. CASE writer.pc = "opened" /\ atRisk' = atRisk \cup {writer.ref}
    <3>1. writer.ref \in Refs /\ Ledger!Expose(writer.ref)
      BY <1>0, <2>1, <2>3, WriterShape DEF Ledger!Expose
    <3> QED BY <3>1 DEF Ledger!Next
  <2> QED BY <2>1, <2>2, <2>3
<1>2. CASE WriteMemory
  <2>1. text \in SUBSET Refs /\ text \subseteq Queued
    BY <1>0, <1>2 DEF WriteMemory, Texts, Queued, TypeOK
  <2>2. Merged' = Merged \cup text
    BY <1>0, <1>2 DEF WriteMemory, Merged, Copied
  <2>3. Ledger!Merge(text)
    BY <1>2, <2>1, <2>2 DEF WriteMemory, Queued, Ledger!Merge
  <2> QED BY <2>1, <2>3 DEF Ledger!Next
<1>3. ASSUME Queued' \subseteq Queued, Queued \ Queued' \subseteq Merged \cup atRisk,
             Merged' = Merged, UNCHANGED <<index, atRisk, saved, finished>>
      PROVE  [Ledger!Next]_Ledger!ledger
  <2>1. Queued \ Queued' \in SUBSET Refs
    BY <1>0 DEF TypeOK, Queued
  <2>2. Ledger!Release(Queued \ Queued')
    BY <1>3 DEF Ledger!Release
  <2> QED BY <2>1, <2>2 DEF Ledger!Next
<1>4. CASE CommitSnapshot \/ UnlinkSnapshot
  <2>1. opt \in {"commit", "unlink"} /\ opt' \in {"idle", "rename"} /\ snapshot' = {}
        /\ UNCHANGED <<pending, memory, index, saved, finished, atRisk>>
    BY <1>0, <1>4 DEF CommitSnapshot, UnlinkSnapshot, TypeOK
  <2>2. snapshot \ atRisk \subseteq memory \cup pending
    BY <1>0, <2>1 DEF Copied
  <2> QED BY <1>3, <2>1, <2>2 DEF Queued, Merged
<1>5. CASE TruncatePending
  <2>1. pending \ atRisk \subseteq fresh /\ fresh \subseteq pending
    BY <1>0, <1>5 DEF TruncatePending, Copied, Texts
  <2> QED BY <1>3, <1>5, <2>1 DEF TruncatePending, Queued, Merged
<1>6. CASE RewritePending
  <2>1. pending \subseteq atRisk /\ text \subseteq snapshot
    BY <1>0, <1>6 DEF RewritePending, Copied, Texts
  <2> QED BY <1>3, <1>6, <2>1 DEF RewritePending, Queued, Merged
<1>7. CASE MergeSucceeds
  BY <1>0, <1>7 DEF MergeSucceeds, Copied, Queued, Merged, Ledger!ledger
<1>8. CASE StartOptimize \/ LoadTexts \/ MergeFails \/ Abandon \/ ReadNewText \/ Boot
  BY <1>8 DEF StartOptimize, LoadTexts, MergeFails, Abandon, ReadNewText, Boot, Queued, Merged,
     files, Ledger!ledger
<1> QED BY <1>1, <1>2, <1>4, <1>5, <1>6, <1>7, <1>8 DEF Optimizer

\* A crash exposes the file that was being rewritten.
LEMMA CrashLedger ==
  ASSUME Safe, Crash
  PROVE  [Ledger!Next]_Ledger!ledger
<1>0. TypeOK /\ Copied
  BY DEF Safe
<1> DEFINE S == IF opt = "rewrite" THEN fresh ELSE IF opt = "writing" THEN base ELSE {}
<1>1. S \in SUBSET Refs
  BY <1>0 DEF TypeOK
<1>2. /\ UNCHANGED <<pending, snapshot, memory, index, saved>> /\ finished' = {}
      /\ opt' = "down" /\ atRisk' = atRisk \cup S
  BY DEF Crash, files
<1>3. Queued' = pending \cup snapshot /\ Merged' = memory
  BY <1>2 DEF Queued, Merged
<1>4. Ledger!Crash(S)
  BY <1>2, <1>3 DEF Queued, Merged, Ledger!Crash
<1> HIDE DEF S
<1> QED BY <1>1, <1>4 DEF Ledger!Next

\* Whatever thread, optimizer and crashes do between two file operations, seen from
\* a fact they follow the ledger: recorded only once written, off PENDING.md only once
\* in MEMORY.md, and lost only to a rename, a rollback or a rewrite that a crash met.
THEOREM FilesFollowLedger == Spec => LedgerSpec
<1>1. Init => Ledger!Init /\ Texts
  BY DEF Init, Ledger!Init, Queued, Merged, Texts
<1>2. Safe /\ Texts /\ [Next]_vars => [Ledger!Next]_Ledger!ledger
  <2> SUFFICES ASSUME Safe, Texts, [Next]_vars PROVE [Ledger!Next]_Ledger!ledger
    OBVIOUS
  <2>1. ASSUME UNCHANGED vars PROVE UNCHANGED Ledger!ledger
    BY <2>1 DEF vars, files, optimizer, Queued, Merged, Ledger!ledger
  <2> QED BY <2>1, AppendLedger, OptimizerLedger, CrashLedger DEF Next
<1> QED BY <1>1, <1>2, TextsStep, SafeAlways, PTL DEF Spec, LedgerSpec, Ledger!Spec

\* What follows from the ledger alone holds of the files: a recorded fact is somewhere
\* or exposed, a cursor moves only past recorded facts, and MEMORY.md drops a fact
\* only in a crash that meets its rewrite.
THEOREM LedgerAccounts == LedgerSpec => []Ledger!Accounted /\ Ledger!MergedStays
<1>1. Ledger!Init => Ledger!Accounted
  BY DEF Ledger!Init, Ledger!Accounted
<1>2. Ledger!Accounted /\ [Ledger!Next]_Ledger!ledger => Ledger!Accounted'
  <2> SUFFICES ASSUME Ledger!Accounted, [Ledger!Next]_Ledger!ledger PROVE Ledger!Accounted'
    OBVIOUS
  <2> USE DEF Ledger!Accounted
  <2>1. ASSUME NEW r \in Refs, Ledger!Write(r) \/ Ledger!Expose(r) \/ Ledger!Record(r)
        PROVE  Ledger!Accounted'
    BY <2>1 DEF Ledger!Write, Ledger!Expose, Ledger!Record
  <2>2. ASSUME NEW S \in SUBSET Refs, Ledger!Merge(S) \/ Ledger!Release(S)
        PROVE  Ledger!Accounted'
    BY <2>2 DEF Ledger!Merge, Ledger!Release
  <2>3. ASSUME NEW S \in SUBSET Refs, Ledger!Crash(S) PROVE Ledger!Accounted'
    BY <2>3 DEF Ledger!Crash
  <2>4. ASSUME UNCHANGED Ledger!ledger PROVE Ledger!Accounted'
    BY <2>4 DEF Ledger!ledger
  <2> QED BY <2>1, <2>2, <2>3, <2>4 DEF Ledger!Next
<1>3. [Ledger!Next]_Ledger!ledger => [Merged \ atRisk' \subseteq Merged']_Ledger!ledger
  BY DEF Ledger!Next, Ledger!ledger, Ledger!Write, Ledger!Expose, Ledger!Record, Ledger!Merge,
     Ledger!Release, Ledger!Crash
<1> QED BY <1>1, <1>2, <1>3, PTL DEF LedgerSpec, Ledger!Spec, Ledger!MergedStays

-----------------------------------------------------------------------------
(* The files and the session side by side                                    *)

\* Every behaviour of the pipeline is one of the memory files and one of the session:
\* of the two, the one that is not in focus stutters.
THEOREM PipelineRunsBoth == PipelineSpec => Spec /\ CursorSpec
<1>1. PipelineInit => Init /\ CursorInit
  BY DEF PipelineInit
<1>2. [PipelineNext]_<<vars, cursorVars, focus>> => [Next]_vars /\ [CursorNext]_cursorVars
  BY DEF PipelineNext
<1> QED BY <1>1, <1>2, PTL DEF PipelineSpec, Spec, CursorSpec

\* All variables of the pipeline keep their types.
THEOREM PipelineTypesCorrect == PipelineSpec => []PipelineTypesOK
<1>1. TypeOK /\ CursorTypeOK => PipelineTypesOK
  BY DEF PipelineTypesOK
<1> QED BY <1>1, PipelineRunsBoth, TypeCorrect, CursorTypeCorrect, PTL

\* On the way from a message to MEMORY.md nothing recorded is dropped and nothing is
\* passed over, whichever half a behaviour exercises: the files follow the ledger, keep
\* the facts, merge them once and are ahead of the cursor, and the cursor, the windows
\* and the items of the session agree with its rows, also when texts go into rows that
\* are there or are not stored.
THEOREM PipelineIsSafe ==
  PipelineSpec =>
    /\ LedgerSpec
    /\ [](/\ FactsKept /\ MergedOnce /\ CursorBehindIndex
          /\ CursorPassesRecordedOnly /\ RetiredIsAheadOrReplaced
          /\ UndoneIsForgotten /\ MemoryIsTailOfRows)
BY PipelineRunsBoth, FilesFollowLedger, RecordedIsKept, MergedAtMostOnce,
   AppendsPrecedeCursor, CursorNeverSkips, RetiredIsReplaced, UndoneStaysForgotten,
   MemoryEndsTheRows, PTL
=============================================================================
