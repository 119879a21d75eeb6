--------------------------- MODULE LongTermMemory ---------------------------
(***************************************************************************)
(* The vector memory: MemoryStore2 (memory_system/store.py), the writer    *)
(* above it (memory_system/memorizer.py) and the undo of a turn's items    *)
(* (plugins/default_memory/engine.py).                                     *)
(*                                                                         *)
(* A save embeds its text, an await of the embedding service, and then     *)
(* writes without yielding; a rule that resembles another is merged, with  *)
(* a second await.  Rows and the sqlite-vec index are committed one after  *)
(* the other, so a crash can come between.                                 *)
(*                                                                         *)
(* A text is a set of facts, a merge their union.  Two texts resemble each *)
(* other when two of their facts do; the thresholds are one, whether rules *)
(* need the same tool is open, and reinforcement counters are left out.    *)
(***************************************************************************)
EXTENDS Integers, FiniteSets

CONSTANTS
    Facts, Resemble,  \* facts, and the pairs of them that resemble
    Sources,          \* source_refs of saves
    Savers,           \* the coroutines that save, at most one save each
    MaxSaves,         \* bound: saves begun
    MaxFaults         \* bound: crashes in a write, rows deleted by hand

ASSUME MemoryConstants ==
    /\ Resemble \subseteq Facts \X Facts
    /\ \A p \in Resemble : <<p[2], p[1]>> \in Resemble
    /\ MaxSaves \in Nat /\ MaxFaults \in Nat

ItemKinds == {"rule", "preference", "event"}
RowIds == 1 .. MaxSaves

VARIABLES
    rows,       \* memory_items
    index,      \* vec_items: the text whose embedding a row is indexed under
    handled,    \* consolidation_events: the source_refs written once
    save,       \* the saves under way
    saves,      \* number of saves begun
    faults,     \* number of crashes and deletions
    retiredBy   \* history: for each row, the rows it was superseded for
ltmVars == <<rows, index, handled, save, saves, faults, retiredBy>>

Free == [status |-> "free", kind |-> "event", text |-> {}, source |-> "none"]
NoSave == [pc |-> "idle", kind |-> "event", text |-> {}, source |-> "none", id |-> 0,
           target |-> 0]

LtmInit ==
    /\ rows = [r \in RowIds |-> Free]
    /\ index = [r \in RowIds |-> {}]
    /\ handled = {}
    /\ save = [w \in Savers |-> NoSave]
    /\ saves = 0 /\ faults = 0
    /\ retiredBy = [r \in RowIds |-> {}]

-----------------------------------------------------------------------------
\* The store.

Near(t, u) == \E a \in t, b \in u : a = b \/ <<a, b>> \in Resemble

\* vector_search: the active rows of a kind, found through the index.
Found(kind, text) ==
    {r \in RowIds : /\ rows[r].status = "active" /\ rows[r].kind = kind
                    /\ index[r] # {} /\ Near(index[r], text)}
\* find_similar_recent_events reads the rows themselves.
SimilarEvents(text) ==
    {r \in RowIds : /\ rows[r].status = "active" /\ rows[r].kind = "event"
                    /\ Near(rows[r].text, text)}

Superseded(table, ids) ==
    [r \in RowIds |-> IF r \in ids THEN [table[r] EXCEPT !.status = "superseded"]
                                   ELSE table[r]]

\* upsert_item: a row of the same hash is made active again; else a row is
\* added.  Ids are never used twice: a save brings the id of the row it may add.
Twins(table, kind, text) ==
    {r \in RowIds : /\ table[r].status # "free"
                    /\ table[r].kind = kind /\ table[r].text = text}
UpsertLeavingTwin(table, s) ==
    IF Twins(table, s.kind, s.text) # {} THEN table
    ELSE [table EXCEPT ![s.id] =
            [status |-> "active", kind |-> s.kind, text |-> s.text, source |-> s.source]]
Upsert(table, s) ==
    IF Twins(table, s.kind, s.text) # {}
    THEN [r \in RowIds |-> IF r \in Twins(table, s.kind, s.text)
                             THEN [table[r] EXCEPT !.status = "active"]
                             ELSE table[r]]
    ELSE [table EXCEPT ![s.id] =
            [status |-> "active", kind |-> s.kind, text |-> s.text, source |-> s.source]]

\* The index entry of a new row is a commit of its own.
Indexed(table) == [r \in RowIds |-> IF rows[r].status = "free" THEN table[r].text
                                                              ELSE index[r]]

\* _migrate_existing_to_vec, at the next start: the missing entries.
MigratedNothing(table, entries) == entries
Migrated(table, entries) ==
    [r \in RowIds |-> IF entries[r] = {} THEN table[r].text ELSE entries[r]]

\* Both commits happen, or the process dies between them and starts again.
\* What is under way in memory dies with it.
Written(w, table, entries, done) ==
    \/ /\ rows' = table /\ index' = entries
       /\ save' = [save EXCEPT ![w].pc = done]
       /\ UNCHANGED faults
    \/ /\ faults < MaxFaults /\ faults' = faults + 1
       /\ rows' = table /\ index' = Migrated(table, index)
       /\ save' = [v \in Savers |-> NoSave]

-----------------------------------------------------------------------------
\* Saves.

Resting(w) == save[w].pc \in {"idle", "saved", "merged", "skipped"}

\* memorize and the consolidation begin with the embedding.  A history entry
\* whose source_ref is handled is skipped before it.
BeginSave(w) ==
    /\ Resting(w) /\ saves < MaxSaves /\ saves' = saves + 1
    /\ \E kind \in ItemKinds, f \in Facts, s \in Sources :
         /\ kind = "event" => s \notin handled
         /\ save' = [save EXCEPT ![w] = [pc |-> "embed", kind |-> kind, text |-> {f},
                                         source |-> s, id |-> saves', target |-> 0]]
    /\ UNCHANGED <<rows, index, handled, faults, retiredBy>>

EmbeddingFails(w) ==
    /\ save[w].pc \in {"embed", "merge"}
    /\ save' = [save EXCEPT ![w].pc = "skipped"]
    /\ UNCHANGED <<rows, index, handled, saves, faults, retiredBy>>

\* save_item_with_supersede of a preference, of a profile fact of one category,
\* or of a rule that needs another tool than those it resembles: what resembles
\* it is superseded.
SaveReplacing(w) ==
    LET s == save[w]
        old == Found(s.kind, s.text)
        table == Upsert(Superseded(rows, old), s)
    IN  /\ s.pc = "embed" /\ s.kind \in {"preference", "rule"}
        /\ Written(w, table, Indexed(table), "saved")
        /\ retiredBy' = [r \in RowIds |->
                           IF r \in old /\ table[r].status = "superseded"
                             THEN Twins(table, s.kind, s.text)
                             ELSE retiredBy[r]]
        /\ UNCHANGED <<handled, saves>>

\* A rule is merged into one it resembles and that needs the same tool; the text
\* of both is embedded first, which is a second await.
MergeInto(w, target) ==
    /\ save[w].pc = "embed" /\ save[w].kind = "rule"
    /\ target \in Found("rule", save[w].text)
    /\ save' = [save EXCEPT ![w].pc = "merge", ![w].target = target,
                            ![w].text = @ \union rows[target].text]
    /\ UNCHANGED <<rows, index, handled, saves, faults, retiredBy>>

\* merge_item_raw: the row as it is now gets the text computed before the
\* await; a clash of hashes retires it and strengthens the other row.
MergeRule(w) ==
    LET s == save[w]
        clash == Twins(rows, "rule", s.text) \ {s.target}
        table == IF rows[s.target].status = "free" THEN rows
                 ELSE IF clash = {} THEN [rows EXCEPT ![s.target].text = s.text]
                 ELSE Upsert(Superseded(rows, {s.target}), s)
    IN  /\ s.pc = "merge"
        /\ Written(w, table, [r \in RowIds |-> IF table[r].text # rows[r].text
                                                 THEN table[r].text ELSE index[r]],
                   "merged")
        /\ UNCHANGED <<handled, saves, retiredBy>>

\* save_from_consolidation: an entry like a recent one only strengthens it;
\* an old one no longer counts.  The transaction looks at the source_ref
\* again, since it was read before the await.
EventTableUnchecked(s) == Upsert(rows, s)
EventTable(s) == IF s.source \in handled THEN rows ELSE Upsert(rows, s)
SaveEvent(w) ==
    LET s == save[w] IN
    /\ s.pc = "embed" /\ s.kind = "event"
    /\ Written(w, EventTable(s), Indexed(EventTable(s)), "skipped")
    /\ handled' = handled \union {s.source}
    /\ UNCHANGED <<saves, retiredBy>>
SaveEventAgain(w) ==
    /\ save[w].pc = "embed" /\ save[w].kind = "event"
    /\ SimilarEvents(save[w].text) # {}
    /\ save' = [save EXCEPT ![w].pc = "skipped"]
    /\ UNCHANGED <<rows, index, handled, saves, faults, retiredBy>>

-----------------------------------------------------------------------------
\* Forgetting.

\* The forget tool, and the worker that retires what the user called wrong.
Forget(r) ==
    /\ rows[r].status = "active"
    /\ rows' = Superseded(rows, {r})
    /\ UNCHANGED <<index, handled, save, saves, faults, retiredBy>>

\* The dashboard deletes a row and its index entry in one commit.
DeleteRow(r) ==
    /\ rows[r].status # "free"
    /\ faults < MaxFaults /\ faults' = faults + 1
    /\ rows' = [rows EXCEPT ![r] = Free]
    /\ index' = [index EXCEPT ![r] = {}]
    /\ retiredBy' = [s \in RowIds |-> IF s = r THEN {} ELSE retiredBy[s] \ {r}]
    /\ UNCHANGED <<handled, save, saves>>

\* undo_by_message_sources.  What the undone rows replaced is looked up in
\* memory_replacements, to which no code under src/ writes a row.
Replacements == {}
UndoSource(s) ==
    LET gone == {r \in RowIds : rows[r].status # "free" /\ rows[r].source = s}
        back == {p[1] : p \in {q \in Replacements : q[2] \in gone}}
    IN  /\ \E r \in gone : rows[r].status = "active"
        /\ rows' = [r \in RowIds |->
                      IF r \in gone THEN [rows[r] EXCEPT !.status = "superseded"]
                      ELSE IF r \in back THEN [rows[r] EXCEPT !.status = "active"]
                      ELSE rows[r]]
        /\ UNCHANGED <<index, handled, save, saves, faults, retiredBy>>

LtmNext ==
    \/ \E w \in Savers : \/ BeginSave(w) \/ EmbeddingFails(w)
                         \/ SaveReplacing(w) \/ MergeRule(w)
                         \/ \E target \in RowIds : MergeInto(w, target)
                         \/ SaveEvent(w) \/ SaveEventAgain(w)
    \/ \E r \in RowIds : Forget(r) \/ DeleteRow(r)
    \/ \E s \in Sources : UndoSource(s)

LtmSpec == LtmInit /\ [][LtmNext]_ltmVars

-----------------------------------------------------------------------------
\* Properties.

\* The shape of the store; the unique index on content_hash and memory_type
\* (store.py:72) holds, so a twin is one row.
LtmTypeOK ==
    /\ \A r \in RowIds : /\ rows[r].status \in {"free", "active", "superseded"}
                         /\ rows[r].kind \in ItemKinds /\ rows[r].text \subseteq Facts
                         /\ index[r] \subseteq Facts
                         /\ rows[r].status = "free" <=> rows[r].text = {}
    /\ \A r \in RowIds : rows[r].status # "free" =>
         Twins(rows, rows[r].kind, rows[r].text) = {r}
    /\ handled \subseteq Sources

\* Two active preferences never resemble each other, over concurrent saves,
\* a crash between row and index, and undo (memorizer.py:87-125): the model
\* would be told both.
PreferencesDistinct ==
    \A q, r \in RowIds :
      /\ q # r /\ {rows[q].kind, rows[r].kind} = {"preference"}
      /\ rows[q].status = "active" /\ rows[r].status = "active"
      => ~Near(rows[q].text, rows[r].text)

\* When a save reports an item as new or reinforced, an active row says what
\* was saved, also when the save itself retired the row of the same text a
\* moment before (memorizer.py:111-125, store.py:419-433).
SavedIsActive ==
    [][\A w \in Savers : save[w].pc = "embed" /\ save'[w].pc = "saved" =>
         \E r \in RowIds : /\ rows'[r].status = "active"
                           /\ save[w].text \subseteq rows'[r].text]_ltmVars

\* A window the consolidation delivers again does not bring an event back
\* that was forgotten in the meantime (store.py:479-488), although the
\* source_ref is first looked up before the embedding is awaited.
RedeliveryRevivesNothing ==
    [][\A r \in RowIds : \A w \in Savers :
         /\ rows[r].kind = "event" /\ rows[r].status = "superseded"
         /\ rows'[r].status = "active"
         /\ save[w].pc = "embed" /\ save'[w].pc = "skipped" /\ save[w].kind = "event"
         => save[w].source # rows[r].source]_ltmVars

\* Undoing the turn that replaced a preference brings the replaced one back
\* unless another active row replaces it too.
UndoRestoresReplaced ==
    [][\A s \in Sources : UndoSource(s) =>
         \A r \in RowIds :
           /\ rows[r].status = "superseded"
           /\ \E q \in retiredBy[r] : rows[q].source = s /\ rows[q].status = "active"
           => rows'[r].status = "active"]_ltmVars
=============================================================================
