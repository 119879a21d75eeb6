------------------------ MODULE LongTermMemoryProofs ------------------------
(***************************************************************************)
(* Theorems about LongTermMemory, for any facts, any relation of likeness,  *)
(* and any number of saves, savers, sources and faults.                     *)
(***************************************************************************)
EXTENDS LongTermMemory, TLAPS

Origins == Sources \cup {"none"}
Statuses == {"free", "active", "superseded"}
Row == [status : Statuses, kind : ItemKinds, text : SUBSET Facts, source : Origins]
Stages == {"idle", "embed", "merge", "saved", "merged", "skipped"}
SaveRecord == [pc : Stages, kind : ItemKinds, text : SUBSET Facts, source : Origins,
               id : Nat, target : Nat]

\* The table: a row has a text, and its text and kind are no other row's.
RowsOK(t) ==
    /\ t \in [RowIds -> Row]
    /\ \A r \in RowIds : t[r].status = "free" <=> t[r].text = {}
    /\ \A q, r \in RowIds : /\ t[q].status # "free" /\ t[r].status # "free"
                            /\ t[q].kind = t[r].kind /\ t[q].text = t[r].text
                            => q = r

\* A preference is indexed under its text; a row that is not there is not.
IndexOK(t, e) ==
    /\ e \in [RowIds -> SUBSET Facts]
    /\ \A r \in RowIds : t[r].status = "free" => e[r] = {}
    /\ \A r \in RowIds : t[r].status # "free" /\ t[r].kind = "preference" => e[r] = t[r].text

Distinct(t) ==
    \A q, r \in RowIds :
      /\ q # r /\ t[q].kind = "preference" /\ t[r].kind = "preference"
      /\ t[q].status = "active" /\ t[r].status = "active"
      => ~Near(t[q].text, t[r].text)

\* The source of an event has been handled.
EventsOK(t, h) ==
    \A r \in RowIds : t[r].status # "free" /\ t[r].kind = "event" => t[r].source \in h

\* A save under way has an id of its own, whose row is not there yet; the target
\* of a merge is a rule, if it still is.
SavesOK(t, sv, n) ==
    /\ sv \in [Savers -> SaveRecord] /\ n \in 0 .. MaxSaves
    /\ \A r \in RowIds : r > n => t[r].status = "free"
    /\ \A w \in Savers : sv[w].pc \in {"embed", "merge"} =>
         sv[w].text # {} /\ sv[w].id \in 1 .. n
    /\ \A w \in Savers : sv[w].pc = "embed" => t[sv[w].id].status = "free"
    /\ \A v, w \in Savers : v # w /\ sv[v].pc = "embed" /\ sv[w].pc = "embed" =>
         sv[v].id # sv[w].id
    /\ \A w \in Savers : sv[w].pc = "merge" =>
         /\ sv[w].kind = "rule" /\ sv[w].target \in 1 .. n
         /\ t[sv[w].target].status # "free" => t[sv[w].target].kind = "rule"
         /\ \A v \in Savers : sv[v].pc = "embed" => sv[v].id # sv[w].target

LtmInv ==
    /\ RowsOK(rows) /\ IndexOK(rows, index) /\ Distinct(rows)
    /\ EventsOK(rows, handled) /\ SavesOK(rows, save, saves)

\* The assumptions on the constants that the proofs use.
LEMMA Bounds == MaxSaves \in Nat /\ \A p \in Resemble : <<p[2], p[1]>> \in Resemble
BY MemoryConstants DEF MemoryConstants

\* Likeness has no direction.
LEMMA NearIsSymmetric ==
  ASSUME NEW t, NEW u, Near(t, u)
  PROVE  Near(u, t)
<1>1. PICK a \in t, b \in u : a = b \/ <<a, b>> \in Resemble
  BY DEF Near
<1>2. <<a, b>> \in Resemble => <<b, a>> \in Resemble
  <2>1. ASSUME <<a, b>> \in Resemble PROVE << <<a, b>>[2], <<a, b>>[1] >> \in Resemble
    BY <2>1, Bounds
  <2> QED BY <2>1
<1> QED BY <1>1, <1>2 DEF Near

\* A text that says anything is like itself.
LEMMA NearItself == ASSUME NEW t, t # {} PROVE Near(t, t)
BY DEF Near

\* Ids that have been given out are rows of the table.
LEMMA IdsAreRows == ASSUME NEW n \in 0 .. MaxSaves, NEW i \in 1 .. n PROVE i \in RowIds
BY Bounds DEF RowIds

\* Retiring rows keeps the table; there is less to tell apart.
LEMMA SupersededRows ==
  ASSUME NEW t, RowsOK(t), NEW ids, \A r \in ids : r \in RowIds => t[r].status # "free"
  PROVE  LET u == Superseded(t, ids)
         IN  /\ RowsOK(u)
             /\ \A r \in RowIds :
                  /\ u[r].kind = t[r].kind /\ u[r].text = t[r].text /\ u[r].source = t[r].source
                  /\ u[r].status = IF r \in ids THEN "superseded" ELSE t[r].status
<1> DEFINE u == Superseded(t, ids)
<1>1. \A r \in RowIds : t[r] \in Row
  BY DEF RowsOK
<1>2. \A r \in RowIds : u[r] = IF r \in ids THEN [t[r] EXCEPT !.status = "superseded"] ELSE t[r]
  BY DEF Superseded
<1>3. \A r \in RowIds :
         /\ u[r].kind = t[r].kind /\ u[r].text = t[r].text /\ u[r].source = t[r].source
         /\ u[r].status = IF r \in ids THEN "superseded" ELSE t[r].status
         /\ u[r] \in Row
  BY <1>1, <1>2 DEF Row, Statuses
<1>4. u \in [RowIds -> Row]
  <2>1. u = [r \in RowIds |-> u[r]]
    BY DEF Superseded
  <2> QED BY <1>3, <2>1
<1> HIDE DEF u
<1>5. RowsOK(u)
  BY <1>3, <1>4 DEF RowsOK
<1> QED BY <1>3, <1>5 DEF u

\* What upsert_item leaves: an active row of the text, and every other row as it was.
Unmoved(t, u, r) == u[r] = t[r]
Landed(t, u, s, r) ==
    /\ u[r].kind = s.kind /\ u[r].text = s.text /\ u[r].status = "active"
    /\ \/ /\ t[r].status # "free" /\ u[r].source = t[r].source
          /\ t[r].kind = s.kind /\ t[r].text = s.text
       \/ t[r].status = "free" /\ r = s.id /\ u[r].source = s.source
Landing(t, u, s) ==
    /\ \E r \in RowIds : Landed(t, u, s, r)
    /\ \A r \in RowIds : Unmoved(t, u, r) \/ Landed(t, u, s, r)

\* An upsert keeps the table: it lands on the row with the same kind and text, or on the
\* row of its own id, which is free.
LEMMA UpsertedRows ==
  ASSUME NEW t, RowsOK(t), NEW s \in SaveRecord, s.text # {}, s.id \in RowIds,
         Twins(t, s.kind, s.text) = {} => t[s.id].status = "free"
  PROVE  RowsOK(Upsert(t, s)) /\ Landing(t, Upsert(t, s), s)
<1> DEFINE u == Upsert(t, s)
           twins == Twins(t, s.kind, s.text)
           new == [status |-> "active", kind |-> s.kind, text |-> s.text, source |-> s.source]
<1>1. \A r \in RowIds : t[r] \in Row
  BY DEF RowsOK
<1>2. \A r \in twins : r \in RowIds /\ t[r].status # "free" /\ t[r].kind = s.kind /\ t[r].text = s.text
  BY DEF Twins
<1>3. \A r \in RowIds \ twins : t[r].status = "free" \/ t[r].kind # s.kind \/ t[r].text # s.text
  BY DEF Twins
<1>4. new \in Row
  BY DEF Row, SaveRecord, Statuses
<1>5. CASE twins # {}
  <2>1. u = [r \in RowIds |-> IF r \in twins THEN [t[r] EXCEPT !.status = "active"] ELSE t[r]]
    BY <1>5 DEF Upsert
  <2>2. \A r \in RowIds :
          /\ u[r] \in Row
          /\ u[r].kind = t[r].kind /\ u[r].text = t[r].text /\ u[r].source = t[r].source
          /\ u[r].status = IF r \in twins THEN "active" ELSE t[r].status
          /\ r \notin twins => u[r] = t[r]
    BY <1>1, <2>1 DEF Row, Statuses
  <2>3. u \in [RowIds -> Row]
    BY <2>1, <2>2
  <2> HIDE DEF u, twins, new
  <2>4. RowsOK(u)
    BY <1>2, <2>2, <2>3 DEF RowsOK
  <2> QED BY <1>2, <1>5, <2>2, <2>4 DEF u, Landing, Landed, Unmoved
<1>6. CASE twins = {}
  <2>1. u = [t EXCEPT ![s.id] = new]
    BY <1>6 DEF Upsert
  <2>2. u \in [RowIds -> Row] /\ u[s.id] = new /\ \A r \in RowIds \ {s.id} : u[r] = t[r]
    BY <1>4, <2>1 DEF RowsOK
  <2>3. new.status = "active" /\ new.kind = s.kind /\ new.text = s.text /\ new.source = s.source
    OBVIOUS
  <2>4. \A r \in RowIds : t[r].status = "free" \/ t[r].kind # s.kind \/ t[r].text # s.text
    BY <1>3, <1>6
  <2>5. t[s.id].status = "free"
    BY <1>6
  <2> HIDE DEF u, twins, new
  <2>6. RowsOK(u)
    BY <2>2, <2>3, <2>4 DEF RowsOK
  <2> QED BY <2>2, <2>3, <2>5, <2>6 DEF u, Landing, Landed, Unmoved
<1> QED BY <1>5, <1>6

-----------------------------------------------------------------------------
\* What a write of save w may do to the table and the index.
Keeps(w, table) ==
    /\ RowsOK(table) /\ Distinct(table)
    /\ \A r \in RowIds : rows[r].status # "free" =>
         /\ table[r].status # "free" /\ table[r].kind = rows[r].kind
         /\ rows[r].kind = "preference" => table[r].text = rows[r].text
    /\ \A r \in RowIds : rows[r].status = "free" /\ table[r].status # "free" =>
         r = save[w].id /\ save[w].pc = "embed"

\* A saver that rests is one.
LEMMA NoSaveIsSave == NoSave \in SaveRecord /\ NoSave.pc = "idle"
BY DEF NoSave, SaveRecord, Stages, ItemKinds, Origins

\* A save that moves to another stage keeps what it saves.
LEMMA PcIsSave ==
  ASSUME NEW x \in SaveRecord, NEW pc \in Stages
  PROVE  LET y == [x EXCEPT !.pc = pc]
         IN  /\ y \in SaveRecord /\ y.pc = pc /\ y.kind = x.kind /\ y.text = x.text
             /\ y.source = x.source /\ y.id = x.id /\ y.target = x.target
BY DEF SaveRecord

\* The index after the migration of the next start.
LEMMA MigratedIndex ==
  ASSUME RowsOK(rows), IndexOK(rows, index), NEW w, NEW table, Keeps(w, table)
  PROVE  IndexOK(table, Migrated(table, index))
<1>1. \A r \in RowIds : table[r] \in Row /\ rows[r] \in Row
  BY DEF Keeps, RowsOK
<1>2. \A r \in RowIds : table[r].text \subseteq Facts /\ index[r] \subseteq Facts
  BY <1>1 DEF Row, IndexOK
<1>3. Migrated(table, index) \in [RowIds -> SUBSET Facts]
  BY <1>2 DEF Migrated
<1>4. \A r \in RowIds : Migrated(table, index)[r] = IF index[r] = {} THEN table[r].text ELSE index[r]
  BY DEF Migrated
<1>5. \A r \in RowIds : table[r].status = "free" => Migrated(table, index)[r] = {}
  BY <1>4 DEF Keeps, RowsOK, IndexOK
<1>6. ASSUME NEW r \in RowIds, table[r].status # "free", table[r].kind = "preference"
      PROVE  Migrated(table, index)[r] = table[r].text
  <2>1. rows[r].status = "free" => index[r] = {}
    BY DEF IndexOK
  <2>2. ASSUME rows[r].status # "free" PROVE index[r] = table[r].text
    BY <1>6, <2>2 DEF Keeps, IndexOK
  <2> QED BY <1>4, <2>1, <2>2
<1> QED BY <1>3, <1>5, <1>6 DEF IndexOK

\* A write, with or without a crash behind it, keeps the invariant.
LEMMA WriteStep ==
  ASSUME LtmInv, NEW w \in Savers, NEW table, NEW entries, NEW done \in {"saved", "merged", "skipped"},
         Keeps(w, table), IndexOK(table, entries), EventsOK(table, handled'),
         Written(w, table, entries, done), saves' = saves
  PROVE  LtmInv'
<1>1. rows' = table
  BY DEF Written
<1>2. RowsOK(rows') /\ Distinct(rows') /\ EventsOK(rows', handled')
  BY <1>1 DEF Keeps
<1>3. IndexOK(rows', index')
  BY <1>1, MigratedIndex DEF Written, LtmInv
<1>4. SavesOK(rows', save', saves')
  <2>1. \A r \in RowIds : r > saves => table[r].status = "free"
    <3> SUFFICES ASSUME NEW r \in RowIds, r > saves, table[r].status # "free" PROVE FALSE
      OBVIOUS
    <3>1. rows[r].status = "free"
      BY DEF LtmInv, SavesOK
    <3>2. r = save[w].id /\ save[w].pc = "embed"
      BY <3>1 DEF Keeps
    <3>3. save[w].id \in 1 .. saves /\ saves \in Nat
      BY <3>2, Bounds DEF LtmInv, SavesOK
    <3> QED BY <3>2, <3>3
  <2>2. CASE save' = [v \in Savers |-> NoSave]
    <3>1. save' \in [Savers -> SaveRecord] /\ \A v \in Savers : save'[v].pc = "idle"
      BY <2>2, NoSaveIsSave
    <3> QED BY <1>1, <2>1, <3>1 DEF SavesOK, LtmInv
  <2>3. CASE save' = [save EXCEPT ![w].pc = done]
    <3>1. done \in Stages /\ done \notin {"embed", "merge"} /\ save \in [Savers -> SaveRecord]
      BY DEF Stages, LtmInv, SavesOK
    <3>2. save' \in [Savers -> SaveRecord] /\ save'[w].pc = done
      <4>1. save[w] \in SaveRecord /\ save' = [save EXCEPT ![w] = [save[w] EXCEPT !.pc = done]]
        BY <2>3, <3>1
      <4>2. [save[w] EXCEPT !.pc = done] \in SaveRecord /\ [save[w] EXCEPT !.pc = done].pc = done
        BY <3>1, <4>1, PcIsSave
      <4> QED BY <3>1, <4>1, <4>2
    <3>3. \A v \in Savers : v # w => save'[v] = save[v]
      BY <2>3, <3>1
    <3>4. \A v \in Savers : save'[v].pc \in {"embed", "merge"} => v # w /\ save'[v] = save[v]
      BY <3>1, <3>2, <3>3
    <3>5. ASSUME NEW v \in Savers, save'[v].pc = "embed" PROVE table[save'[v].id].status = "free"
      <4>1. v # w /\ save'[v] = save[v]
        BY <3>4, <3>5
      <4>2. save[v].id \in 1 .. saves /\ rows[save[v].id].status = "free"
        BY <3>5, <4>1 DEF LtmInv, SavesOK
      <4>3. save[v].id \in RowIds
        BY <4>2, IdsAreRows DEF LtmInv, SavesOK
      <4>4. save[w].pc = "embed" => save[v].id # save[w].id
        BY <3>5, <4>1 DEF LtmInv, SavesOK
      <4> QED BY <4>1, <4>2, <4>3, <4>4 DEF Keeps
    <3>6. ASSUME NEW v \in Savers, save'[v].pc = "merge", table[save'[v].target].status # "free"
          PROVE  table[save'[v].target].kind = "rule"
      <4>1. v # w /\ save'[v] = save[v]
        BY <3>4, <3>6
      <4>2. save[v].target \in 1 .. saves
            /\ (rows[save[v].target].status # "free" => rows[save[v].target].kind = "rule")
            /\ (save[w].pc = "embed" => save[w].id # save[v].target)
        BY <3>6, <4>1 DEF LtmInv, SavesOK
      <4>3. save[v].target \in RowIds
        BY <4>2, IdsAreRows DEF LtmInv, SavesOK
      <4>4. rows[save[v].target].status # "free"
        BY <3>6, <4>1, <4>2, <4>3 DEF Keeps
      <4> QED BY <4>1, <4>2, <4>3, <4>4 DEF Keeps
    <3> QED BY <1>1, <2>1, <3>2, <3>4, <3>5, <3>6 DEF LtmInv, SavesOK
  <2> QED BY <2>2, <2>3 DEF Written
<1> QED BY <1>2, <1>3, <1>4 DEF LtmInv

\* The index when the entry of a new row is written as well.
LEMMA IndexedIndex ==
  ASSUME RowsOK(rows), IndexOK(rows, index), NEW w, NEW table, Keeps(w, table)
  PROVE  IndexOK(table, Indexed(table))
<1>1. \A r \in RowIds : table[r] \in Row
  BY DEF Keeps, RowsOK
<1>2. \A r \in RowIds : table[r].text \subseteq Facts /\ index[r] \subseteq Facts
  BY <1>1 DEF Row, IndexOK
<1>3. Indexed(table) \in [RowIds -> SUBSET Facts]
  BY <1>2 DEF Indexed
<1>4. \A r \in RowIds : Indexed(table)[r] = IF rows[r].status = "free" THEN table[r].text ELSE index[r]
  BY DEF Indexed
<1>5. \A r \in RowIds : table[r].status = "free" => Indexed(table)[r] = {}
  BY <1>4 DEF Keeps, RowsOK
<1>6. ASSUME NEW r \in RowIds, table[r].status # "free", table[r].kind = "preference"
      PROVE  Indexed(table)[r] = table[r].text
  <2>1. ASSUME rows[r].status # "free" PROVE index[r] = table[r].text
    BY <1>6, <2>1 DEF Keeps, IndexOK
  <2> QED BY <1>4, <2>1
<1> QED BY <1>3, <1>5, <1>6 DEF IndexOK

\* Nothing retired is the table as it was.
LEMMA SupersededNone == RowsOK(rows) => Superseded(rows, {}) = rows
BY DEF Superseded, RowsOK

\* Retire some rows and write a text no remaining preference resembles.
LEMMA UpsertKeeps ==
  ASSUME RowsOK(rows), Distinct(rows), NEW w \in Savers, NEW ids,
         \A r \in ids : r \in RowIds => rows[r].status # "free",
         save[w] \in SaveRecord, save[w].text # {}, save[w].id \in RowIds,
         save[w].pc = "embed" => rows[save[w].id].status = "free",
         save[w].pc # "embed" => Twins(Superseded(rows, ids), save[w].kind, save[w].text) # {},
         \A r \in RowIds : /\ rows[r].status = "active" /\ r \notin ids
                           /\ rows[r].kind = "preference" /\ save[w].kind = "preference"
                           => ~Near(rows[r].text, save[w].text)
  PROVE  LET table == Upsert(Superseded(rows, ids), save[w])
         IN  /\ Keeps(w, table)
             /\ \A h : /\ EventsOK(rows, h)
                       /\ save[w].kind = "event" => save[w].source \in h
                       => EventsOK(table, h)
             /\ \E r \in RowIds : table[r].status = "active" /\ table[r].text = save[w].text
<1> DEFINE t == Superseded(rows, ids)
           s == save[w]
           u == Upsert(t, s)
<1>1. RowsOK(t) /\ \A r \in RowIds :
         /\ t[r].kind = rows[r].kind /\ t[r].text = rows[r].text /\ t[r].source = rows[r].source
         /\ t[r].status = IF r \in ids THEN "superseded" ELSE rows[r].status
  BY SupersededRows
<1>2. Twins(t, s.kind, s.text) = {} => t[s.id].status = "free"
  <2>1. Twins(t, s.kind, s.text) = {} => s.pc = "embed"
    OBVIOUS
  <2>2. rows[s.id].status = "free" => s.id \notin ids
    OBVIOUS
  <2> QED BY <1>1, <2>1, <2>2
<1>3. RowsOK(u) /\ Landing(t, u, s)
  <2>1. s \in SaveRecord /\ s.text # {} /\ s.id \in RowIds /\ RowsOK(t)
    BY <1>1
  <2> HIDE DEF t, s
  <2> QED BY <1>2, <2>1, UpsertedRows
<1> HIDE DEF t, u
<1>4. \A r \in RowIds : t[r].status = "free" /\ u[r].status # "free" =>
        r = s.id /\ Twins(t, s.kind, s.text) = {}
  <2> SUFFICES ASSUME NEW r \in RowIds, t[r].status = "free", u[r].status # "free"
               PROVE  r = s.id /\ Twins(t, s.kind, s.text) = {}
    OBVIOUS
  <2>1. r = s.id
    BY <1>3 DEF Landing, Unmoved, Landed
  <2>2. ASSUME Twins(t, s.kind, s.text) # {} PROVE FALSE
    <3>1. r \notin Twins(t, s.kind, s.text)
      BY DEF Twins
    <3>2. u = [q \in RowIds |-> IF q \in Twins(t, s.kind, s.text)
                                  THEN [t[q] EXCEPT !.status = "active"] ELSE t[q]]
      BY <2>2 DEF u, Upsert
    <3> QED BY <3>1, <3>2
  <2> QED BY <2>1, <2>2
<1>5. \A r \in RowIds : rows[r].status # "free" =>
         /\ u[r].status # "free" /\ u[r].kind = rows[r].kind /\ u[r].text = rows[r].text
  <2> SUFFICES ASSUME NEW r \in RowIds, rows[r].status # "free"
               PROVE  u[r].status # "free" /\ u[r].kind = rows[r].kind /\ u[r].text = rows[r].text
    OBVIOUS
  <2>1. t[r].status # "free"
    BY <1>1
  <2>2. CASE Unmoved(t, u, r)
    BY <1>1, <2>1, <2>2 DEF Unmoved
  <2>3. CASE Landed(t, u, s, r)
    BY <1>1, <2>1, <2>3 DEF Landed
  <2> QED BY <1>3, <2>2, <2>3 DEF Landing
<1>6. \A r \in RowIds : rows[r].status = "free" /\ u[r].status # "free" =>
         r = s.id /\ s.pc = "embed"
  <2>1. \A r \in RowIds : rows[r].status = "free" => t[r].status = "free"
    BY <1>1
  <2>2. Twins(t, s.kind, s.text) = {} => s.pc = "embed"
    BY DEF t
  <2> QED BY <1>4, <2>1, <2>2
<1>7. Distinct(u)
  <2> SUFFICES ASSUME NEW q \in RowIds, NEW r \in RowIds, q # r,
                      u[q].kind = "preference", u[r].kind = "preference",
                      u[q].status = "active", u[r].status = "active"
               PROVE  ~Near(u[q].text, u[r].text)
    BY DEF Distinct
  <2>1. \A x \in RowIds : Unmoved(t, u, x) /\ u[x].kind = "preference" /\ u[x].status = "active" =>
          /\ rows[x].kind = "preference" /\ rows[x].status = "active" /\ x \notin ids
          /\ rows[x].text = u[x].text
    BY <1>1 DEF Unmoved
  <2>2. CASE Unmoved(t, u, q) /\ Unmoved(t, u, r)
    BY <2>1, <2>2 DEF Distinct
  <2>3. CASE Unmoved(t, u, q) /\ Landed(t, u, s, r)
    <3>1. s.kind = "preference" /\ u[r].text = s.text
      BY <2>3 DEF Landed
    <3> QED BY <2>1, <2>3, <3>1
  <2>4. CASE Landed(t, u, s, q) /\ Unmoved(t, u, r)
    <3>1. s.kind = "preference" /\ u[q].text = s.text
      BY <2>4 DEF Landed
    <3>2. ~Near(u[r].text, u[q].text)
      BY <2>1, <2>4, <3>1
    <3> QED BY <3>2, NearIsSymmetric
  <2>5. CASE Landed(t, u, s, q) /\ Landed(t, u, s, r)
    <3>1. u[q].kind = u[r].kind /\ u[q].text = u[r].text
      BY <2>5 DEF Landed
    <3> QED BY <1>3, <3>1 DEF RowsOK
  <2> QED BY <1>3, <2>2, <2>3, <2>4, <2>5 DEF Landing
<1>8. ASSUME NEW h, EventsOK(rows, h), s.kind = "event" => s.source \in h
      PROVE  EventsOK(u, h)
  <2> SUFFICES ASSUME NEW r \in RowIds, u[r].status # "free", u[r].kind = "event"
               PROVE  u[r].source \in h
    BY DEF EventsOK
  <2>1. t[r].status # "free" => rows[r].status # "free"
    BY <1>1
  <2>2. CASE Unmoved(t, u, r)
    BY <1>1, <1>8, <2>1, <2>2 DEF Unmoved, EventsOK
  <2>3. CASE Landed(t, u, s, r)
    BY <1>1, <1>8, <2>1, <2>3 DEF Landed, EventsOK
  <2> QED BY <1>3, <2>2, <2>3 DEF Landing
<1>9. Keeps(w, u)
  BY <1>3, <1>5, <1>6, <1>7 DEF Keeps
<1>10. \E r \in RowIds : u[r].status = "active" /\ u[r].text = s.text
  BY <1>3 DEF Landing, Landed
<1> QED BY <1>8, <1>9, <1>10 DEF u, t

-----------------------------------------------------------------------------
\* One lemma per action, or for the actions that do the same to the store.
LEMMA BeginStep ==
  ASSUME LtmInv, NEW w \in Savers, BeginSave(w)
  PROVE  LtmInv'
<1>1. PICK kind \in ItemKinds, f \in Facts, s \in Sources :
        save' = [save EXCEPT ![w] = [pc |-> "embed", kind |-> kind, text |-> {f},
                                     source |-> s, id |-> saves', target |-> 0]]
  BY DEF BeginSave
<1> DEFINE x == [pc |-> "embed", kind |-> kind, text |-> {f},
                 source |-> s, id |-> saves', target |-> 0]
<1>2. saves' = saves + 1 /\ saves' \in 0 .. MaxSaves /\ saves \in Nat
  BY Bounds DEF BeginSave, LtmInv, SavesOK
<1>3. x \in SaveRecord /\ x.pc = "embed" /\ x.text # {} /\ x.id = saves'
  BY <1>2 DEF SaveRecord, Stages, Origins
<1> HIDE DEF x
<1>4. save' \in [Savers -> SaveRecord] /\ save'[w] = x /\ \A v \in Savers : v # w => save'[v] = save[v]
  BY <1>1, <1>3 DEF LtmInv, SavesOK, x
<1>5. saves' \in RowIds /\ rows[saves'].status = "free"
  BY <1>2, Bounds DEF RowIds, LtmInv, SavesOK
<1>6. \A v \in Savers : v # w /\ save'[v].pc \in {"embed", "merge"} =>
         save'[v].text # {} /\ save'[v].id \in 1 .. saves
  BY <1>4 DEF LtmInv, SavesOK
<1>7. SavesOK(rows, save', saves')
  <2>1. \A r \in RowIds : r > saves' => rows[r].status = "free"
    BY <1>2 DEF LtmInv, SavesOK, RowIds
  <2>2. \A v \in Savers : save'[v].pc \in {"embed", "merge"} =>
           save'[v].text # {} /\ save'[v].id \in 1 .. saves'
    BY <1>2, <1>3, <1>4, <1>6
  <2>3. \A v \in Savers : save'[v].pc = "embed" => rows[save'[v].id].status = "free"
    BY <1>3, <1>4, <1>5 DEF LtmInv, SavesOK
  <2>4. \A v, u \in Savers : v # u /\ save'[v].pc = "embed" /\ save'[u].pc = "embed" =>
           save'[v].id # save'[u].id
    <3> SUFFICES ASSUME NEW v \in Savers, NEW u \in Savers, v # u,
                        save'[v].pc = "embed", save'[u].pc = "embed"
                 PROVE  save'[v].id # save'[u].id
      OBVIOUS
    <3>1. CASE v # w /\ u # w
      BY <1>4, <3>1 DEF LtmInv, SavesOK
    <3>2. CASE v = w \/ u = w
      BY <1>2, <1>3, <1>4, <1>6, <3>2
    <3> QED BY <3>1, <3>2
  <2>5. ASSUME NEW v \in Savers, save'[v].pc = "merge"
        PROVE  /\ save'[v].kind = "rule" /\ save'[v].target \in 1 .. saves'
               /\ rows[save'[v].target].status # "free" => rows[save'[v].target].kind = "rule"
               /\ \A u \in Savers : save'[u].pc = "embed" => save'[u].id # save'[v].target
    <3>1. v # w /\ save'[v] = save[v]
      BY <1>3, <1>4, <2>5
    <3>2. /\ save[v].kind = "rule" /\ save[v].target \in 1 .. saves
          /\ rows[save[v].target].status # "free" => rows[save[v].target].kind = "rule"
          /\ \A u \in Savers : save[u].pc = "embed" => save[u].id # save[v].target
      BY <2>5, <3>1 DEF LtmInv, SavesOK
    <3>3. \A u \in Savers : save'[u].pc = "embed" => save'[u].id # save[v].target
      BY <1>2, <1>3, <1>4, <3>2
    <3> QED BY <1>2, <3>1, <3>2, <3>3
  <2> QED BY <1>2, <1>4, <2>1, <2>2, <2>3, <2>4, <2>5 DEF SavesOK
<1> QED BY <1>7 DEF LtmInv, BeginSave

\* Writing nothing keeps every save.
LEMMA KeepsItself == LtmInv => \A w : Keeps(w, rows)
BY DEF LtmInv, Keeps

\* A save that ends without a write.
LEMMA StopStep ==
  ASSUME LtmInv, NEW w \in Savers, save' = [save EXCEPT ![w].pc = "skipped"],
         UNCHANGED <<rows, index, handled, saves, faults>>
  PROVE  LtmInv'
<1>1. Written(w, rows, index, "skipped")
  BY DEF Written
<1>2. Keeps(w, rows) /\ IndexOK(rows, index) /\ EventsOK(rows, handled')
  BY KeepsItself DEF LtmInv
<1> QED BY <1>1, <1>2, WriteStep

\* Retiring rows, as forget and undo do.
LEMMA RetireStep ==
  ASSUME LtmInv, NEW ids, \A r \in ids : r \in RowIds => rows[r].status # "free",
         rows' = Superseded(rows, ids), UNCHANGED <<index, handled, save, saves>>
  PROVE  LtmInv'
<1>1. RowsOK(rows') /\ \A r \in RowIds :
         /\ rows'[r].kind = rows[r].kind /\ rows'[r].text = rows[r].text
         /\ rows'[r].source = rows[r].source
         /\ rows'[r].status = IF r \in ids THEN "superseded" ELSE rows[r].status
  BY SupersededRows DEF LtmInv
<1>2. \A r \in RowIds : /\ rows'[r].status = "free" <=> rows[r].status = "free"
                        /\ rows'[r].status = "active" => rows[r].status = "active"
  BY <1>1
<1>3. IndexOK(rows', index')
  BY <1>1, <1>2 DEF LtmInv, IndexOK
<1>4. Distinct(rows')
  BY <1>1, <1>2 DEF LtmInv, Distinct
<1>5. EventsOK(rows', handled')
  BY <1>1, <1>2 DEF LtmInv, EventsOK
<1>6. SavesOK(rows', save', saves')
  <2>1. \A w \in Savers : save[w].pc \in {"embed", "merge"} => save[w].id \in RowIds
    BY IdsAreRows DEF LtmInv, SavesOK
  <2>2. \A w \in Savers : save[w].pc = "merge" => save[w].target \in RowIds
    BY IdsAreRows DEF LtmInv, SavesOK
  <2> QED BY <1>1, <1>2, <2>1, <2>2 DEF LtmInv, SavesOK
<1> QED BY <1>1, <1>3, <1>4, <1>5, <1>6 DEF LtmInv

\* Deleting a row keeps the invariant, though a save may be about to merge into it.
LEMMA DeleteStep ==
  ASSUME LtmInv, NEW r \in RowIds, DeleteRow(r)
  PROVE  LtmInv'
<1>1. Free \in Row /\ Free.status = "free" /\ Free.text = {}
  BY DEF Free, Row, Statuses, ItemKinds, Origins
<1>2. /\ rows' \in [RowIds -> Row] /\ rows'[r] = Free
      /\ \A q \in RowIds : q # r => rows'[q] = rows[q]
  BY <1>1 DEF DeleteRow, LtmInv, RowsOK
<1>3. /\ index' \in [RowIds -> SUBSET Facts] /\ index'[r] = {}
      /\ \A q \in RowIds : q # r => index'[q] = index[q]
  BY DEF DeleteRow, LtmInv, IndexOK
<1>4. UNCHANGED <<handled, save, saves>>
  BY DEF DeleteRow
<1>5. RowsOK(rows')
  BY <1>1, <1>2 DEF LtmInv, RowsOK
<1>6. IndexOK(rows', index')
  BY <1>1, <1>2, <1>3 DEF LtmInv, IndexOK
<1>7. Distinct(rows')
  BY <1>1, <1>2 DEF LtmInv, Distinct
<1>8. EventsOK(rows', handled')
  BY <1>1, <1>2, <1>4 DEF LtmInv, EventsOK
<1>9. SavesOK(rows', save', saves')
  <2>1. \A w \in Savers : save[w].pc \in {"embed", "merge"} => save[w].id \in RowIds
    BY IdsAreRows DEF LtmInv, SavesOK
  <2>2. \A w \in Savers : save[w].pc = "merge" => save[w].target \in RowIds
    BY IdsAreRows DEF LtmInv, SavesOK
  <2> QED BY <1>1, <1>2, <1>4, <2>1, <2>2 DEF LtmInv, SavesOK
<1> QED BY <1>5, <1>6, <1>7, <1>8, <1>9 DEF LtmInv

\* A rule that finds one like it goes on with both texts, and the invariant is kept.
LEMMA MergeIntoStep ==
  ASSUME LtmInv, NEW w \in Savers, NEW target \in RowIds, MergeInto(w, target)
  PROVE  LtmInv'
<1> DEFINE x == [save[w] EXCEPT !.pc = "merge", !.target = target,
                                !.text = @ \union rows[target].text]
<1>1. save[w] \in SaveRecord /\ save[w].pc = "embed" /\ save[w].kind = "rule" /\ save[w].text # {}
      /\ save[w].id \in 1 .. saves
  BY DEF MergeInto, LtmInv, SavesOK
<1>2. rows[target].status = "active" /\ rows[target].kind = "rule" /\ rows[target] \in Row
  BY DEF MergeInto, Found, LtmInv, RowsOK
<1>3. target \in 1 .. saves /\ saves \in Nat
  BY <1>2, Bounds DEF RowIds, LtmInv, SavesOK
<1>4. x \in SaveRecord /\ x.pc = "merge" /\ x.kind = "rule" /\ x.target = target /\ x.id = save[w].id
      /\ x.text # {}
  <2>1. rows[target].text \subseteq Facts
    BY <1>2 DEF Row
  <2>2. PICK u \in SUBSET Facts : u = save[w].text \union rows[target].text
    <3>1. save[w].text \subseteq Facts
      BY <1>1 DEF SaveRecord
    <3> QED BY <2>1, <3>1
  <2>3. u # {}
    BY <1>1, <2>2
  <2>4. x = [save[w] EXCEPT !.pc = "merge", !.target = target, !.text = u]
    BY <2>2
  <2>5. target \in Nat
    BY <1>3
  <2> DEFINE y == [save[w] EXCEPT !.pc = "merge", !.target = target, !.text = u]
  <2>6. /\ y \in SaveRecord /\ y.pc = "merge" /\ y.kind = save[w].kind /\ y.text = u
        /\ y.id = save[w].id /\ y.target = target
    <3>1. save[w] \in SaveRecord
      BY <1>1
    <3> HIDE DEF x
    <3>2. y \in SaveRecord
      BY <2>5, <3>1 DEF SaveRecord, Stages
    <3>3. y.pc = "merge" /\ y.kind = save[w].kind /\ y.text = u
      BY <3>1 DEF SaveRecord
    <3>4. y.id = save[w].id /\ y.target = target
      BY <3>1 DEF SaveRecord
    <3> QED BY <3>2, <3>3, <3>4
  <2>7. x = y
    BY <2>4
  <2> HIDE DEF x, y
  <2> QED BY <1>1, <2>3, <2>6, <2>7
<1>5. save' = [save EXCEPT ![w] = x]
  BY DEF MergeInto
<1> HIDE DEF x
<1>6. save' \in [Savers -> SaveRecord] /\ save'[w] = x /\ \A v \in Savers : v # w => save'[v] = save[v]
  BY <1>4, <1>5 DEF LtmInv, SavesOK
<1>7. UNCHANGED <<rows, index, handled, saves>>
  BY DEF MergeInto
<1>8. SavesOK(rows, save', saves)
  <2>1. \A v \in Savers : save'[v].pc \in {"embed", "merge"} =>
           save'[v].text # {} /\ save'[v].id \in 1 .. saves
    BY <1>1, <1>4, <1>6 DEF LtmInv, SavesOK
  <2>2. \A v \in Savers : save'[v].pc = "embed" => v # w /\ save'[v] = save[v]
    BY <1>4, <1>6
  <2>3. ASSUME NEW v \in Savers, save'[v].pc = "merge"
        PROVE  /\ save'[v].kind = "rule" /\ save'[v].target \in 1 .. saves
               /\ rows[save'[v].target].status # "free" => rows[save'[v].target].kind = "rule"
               /\ \A u \in Savers : save'[u].pc = "embed" => save'[u].id # save'[v].target
    <3>1. CASE v = w
      <4>1. \A u \in Savers : save[u].pc = "embed" => save[u].id # target
        BY <1>2 DEF LtmInv, SavesOK
      <4> QED BY <1>2, <1>3, <1>4, <1>6, <2>2, <3>1, <4>1
    <3>2. CASE v # w
      BY <1>6, <2>2, <2>3, <3>2 DEF LtmInv, SavesOK
    <3> QED BY <3>1, <3>2
  <2> QED BY <1>6, <2>1, <2>2, <2>3 DEF LtmInv, SavesOK
<1> QED BY <1>7, <1>8 DEF LtmInv

\* What is found through the index is what resembles the text.
LEMMA FoundPreferences ==
  ASSUME LtmInv, NEW text, NEW r \in RowIds, rows[r].status = "active",
         rows[r].kind = "preference", r \notin Found("preference", text)
  PROVE  ~Near(rows[r].text, text)
<1>1. index[r] = rows[r].text
  BY DEF LtmInv, IndexOK
<1>2. index[r] # {} => ~Near(index[r], text)
  BY DEF Found
<1>3. rows[r].text # {}
  BY DEF LtmInv, RowsOK
<1> QED BY <1>1, <1>2, <1>3

\* What a replacing save leaves in the table: its text is active, and what it found like
\* it is not.
LEMMA SaveReplacingWrites ==
  ASSUME LtmInv, NEW w \in Savers, SaveReplacing(w)
  PROVE  LET table == Upsert(Superseded(rows, Found(save[w].kind, save[w].text)), save[w])
         IN  /\ Keeps(w, table) /\ EventsOK(table, handled)
             /\ \E r \in RowIds : table[r].status = "active" /\ table[r].text = save[w].text
             /\ Written(w, table, Indexed(table), "saved")
             /\ UNCHANGED <<handled, saves>>
<1> DEFINE old == Found(save[w].kind, save[w].text)
           table == Upsert(Superseded(rows, old), save[w])
<1>1. save[w].pc = "embed" /\ save[w].kind # "event" /\ Written(w, table, Indexed(table), "saved")
      /\ UNCHANGED <<handled, saves>>
  BY DEF SaveReplacing
<1>2. save[w] \in SaveRecord /\ save[w].text # {} /\ save[w].id \in RowIds
      /\ rows[save[w].id].status = "free"
  BY <1>1, IdsAreRows DEF LtmInv, SavesOK
<1>3. \A r \in old : r \in RowIds => rows[r].status # "free"
  BY DEF Found
<1>4. \A r \in RowIds : /\ rows[r].status = "active" /\ r \notin old
                        /\ rows[r].kind = "preference" /\ save[w].kind = "preference"
                        => ~Near(rows[r].text, save[w].text)
  BY FoundPreferences
<1> HIDE DEF old
<1>5. /\ Keeps(w, table)
      /\ \A h : /\ EventsOK(rows, h)
                /\ save[w].kind = "event" => save[w].source \in h
                => EventsOK(table, h)
      /\ \E r \in RowIds : table[r].status = "active" /\ table[r].text = save[w].text
  BY <1>1, <1>2, <1>3, <1>4, UpsertKeeps DEF LtmInv
<1>6. EventsOK(table, handled)
  BY <1>1, <1>5 DEF LtmInv
<1> QED BY <1>1, <1>5, <1>6 DEF old

\* A replacing save keeps the invariant, whether or not it gets to the index.
LEMMA SaveReplacingStep ==
  ASSUME LtmInv, NEW w \in Savers, SaveReplacing(w)
  PROVE  LtmInv'
<1> DEFINE table == Upsert(Superseded(rows, Found(save[w].kind, save[w].text)), save[w])
<1>1. Keeps(w, table) /\ EventsOK(table, handled) /\ Written(w, table, Indexed(table), "saved")
      /\ UNCHANGED <<handled, saves>>
  BY SaveReplacingWrites
<1> HIDE DEF table
<1>2. IndexOK(table, Indexed(table))
  BY <1>1, IndexedIndex DEF LtmInv
<1> QED BY <1>1, <1>2, WriteStep

\* What the save of an event leaves in the table, and that its source is handled.
LEMMA SaveEventWrites ==
  ASSUME LtmInv, NEW w \in Savers, SaveEvent(w)
  PROVE  Keeps(w, EventTable(save[w])) /\ EventsOK(EventTable(save[w]), handled')
<1>1. save[w].pc = "embed" /\ save[w].kind = "event" /\ handled' = handled \union {save[w].source}
  BY DEF SaveEvent
<1>2. EventsOK(rows, handled')
  BY <1>1 DEF LtmInv, EventsOK
<1>3. CASE save[w].source \in handled
  BY <1>2, <1>3, KeepsItself DEF EventTable
<1>4. CASE save[w].source \notin handled
  <2>1. save[w] \in SaveRecord /\ save[w].text # {} /\ save[w].id \in RowIds
        /\ rows[save[w].id].status = "free"
    BY <1>1, IdsAreRows DEF LtmInv, SavesOK
  <2> DEFINE table == Upsert(Superseded(rows, {}), save[w])
  <2>2. /\ Keeps(w, table)
        /\ \A h : /\ EventsOK(rows, h)
                  /\ save[w].kind = "event" => save[w].source \in h
                  => EventsOK(table, h)
    BY <1>1, <2>1, UpsertKeeps DEF LtmInv
  <2>3. table = EventTable(save[w])
    BY <1>4, SupersededNone DEF EventTable, LtmInv
  <2> HIDE DEF table
  <2>4. EventsOK(table, handled')
    BY <1>1, <1>2, <2>2
  <2> QED BY <2>2, <2>3, <2>4
<1> QED BY <1>3, <1>4

\* The save of an event keeps the invariant.
LEMMA SaveEventStep ==
  ASSUME LtmInv, NEW w \in Savers, SaveEvent(w)
  PROVE  LtmInv'
<1> DEFINE table == EventTable(save[w])
<1>1. Keeps(w, table) /\ EventsOK(table, handled')
  BY SaveEventWrites
<1>2. Written(w, table, Indexed(table), "skipped") /\ saves' = saves
  BY DEF SaveEvent
<1> HIDE DEF table
<1>3. IndexOK(table, Indexed(table))
  BY <1>1, IndexedIndex DEF LtmInv
<1> QED BY <1>1, <1>2, <1>3, WriteStep

\* The merge leaves one table, or the row of the same text instead of the target.
LEMMA MergeRuleWrites ==
  ASSUME LtmInv, NEW w \in Savers, MergeRule(w)
  PROVE  \E table : /\ Keeps(w, table) /\ EventsOK(table, handled)
                    /\ Written(w, table, [r \in RowIds |-> IF table[r].text # rows[r].text
                                                             THEN table[r].text ELSE index[r]],
                               "merged")
                    /\ UNCHANGED <<handled, saves>>
<1> DEFINE s == save[w]
           clash == Twins(rows, "rule", s.text) \ {s.target}
           table == IF rows[s.target].status = "free" THEN rows
                    ELSE IF clash = {} THEN [rows EXCEPT ![s.target].text = s.text]
                    ELSE Upsert(Superseded(rows, {s.target}), s)
<1>1. /\ s.pc = "merge" /\ UNCHANGED <<handled, saves>>
      /\ Written(w, table, [r \in RowIds |-> IF table[r].text # rows[r].text
                                               THEN table[r].text ELSE index[r]], "merged")
  BY DEF MergeRule
<1>2. /\ s \in SaveRecord /\ s.text # {} /\ s.id \in RowIds /\ s.kind = "rule" /\ s.target \in RowIds
      /\ rows[s.target].status # "free" => rows[s.target].kind = "rule"
  BY <1>1, IdsAreRows DEF LtmInv, SavesOK
<1>3. Keeps(w, table) /\ EventsOK(table, handled)
  <2>1. CASE rows[s.target].status = "free"
    BY <2>1, KeepsItself DEF LtmInv
  <2>2. CASE rows[s.target].status # "free" /\ clash = {}
    <3>1. \A r \in RowIds : rows[r] \in Row
      BY DEF LtmInv, RowsOK
    <3> DEFINE x == [rows[s.target] EXCEPT !.text = s.text]
    <3>2. table = [rows EXCEPT ![s.target] = x]
      BY <2>2
    <3>3. /\ x \in Row /\ x.text = s.text /\ x.kind = rows[s.target].kind
          /\ x.status = rows[s.target].status /\ x.source = rows[s.target].source
      <4>1. s.text \in SUBSET Facts /\ rows[s.target] \in Row
        BY <1>2, <3>1 DEF SaveRecord
      <4> HIDE DEF s
      <4> QED BY <4>1 DEF Row
    <3> HIDE DEF x
    <3>4. table \in [RowIds -> Row] /\ table[s.target] = x
          /\ \A r \in RowIds : r # s.target => table[r] = rows[r]
      BY <1>2, <3>2, <3>3 DEF LtmInv, RowsOK
    <3> HIDE DEF table
    <3>5. \A r \in RowIds : r # s.target /\ rows[r].status # "free" /\ rows[r].kind = "rule" =>
             rows[r].text # s.text
      BY <2>2 DEF Twins
    <3>6. \A r \in RowIds : /\ table[r].status = rows[r].status /\ table[r].kind = rows[r].kind
                            /\ table[r].source = rows[r].source
                            /\ table[r].text = IF r = s.target THEN s.text ELSE rows[r].text
      BY <3>3, <3>4
    <3> HIDE DEF s, clash
    <3>7. \A r \in RowIds : table[r].status = "free" <=> table[r].text = {}
      BY <1>2, <2>2, <3>6 DEF LtmInv, RowsOK
    <3>8. \A q, r \in RowIds : /\ table[q].status # "free" /\ table[r].status # "free"
                               /\ table[q].kind = table[r].kind /\ table[q].text = table[r].text
                               => q = r
      BY <1>2, <2>2, <3>5, <3>6 DEF LtmInv, RowsOK
    <3>9. Distinct(table)
      BY <1>2, <2>2, <3>6 DEF LtmInv, Distinct
    <3>10. EventsOK(table, handled)
      BY <3>6 DEF LtmInv, EventsOK
    <3>11. RowsOK(table)
      BY <3>4, <3>7, <3>8 DEF RowsOK
    <3>12. \A r \in RowIds : rows[r].kind = "preference" /\ rows[r].status # "free" =>
              table[r].text = rows[r].text
      BY <1>2, <3>6
    <3> QED BY <3>6, <3>9, <3>10, <3>11, <3>12 DEF Keeps
  <2>3. CASE rows[s.target].status # "free" /\ clash # {}
    <3> DEFINE u == Upsert(Superseded(rows, {s.target}), s)
    <3>1. table = u
      BY <2>3
    <3>2. Twins(Superseded(rows, {s.target}), s.kind, s.text) # {}
      <4>1. PICK r \in clash : TRUE
        BY <2>3
      <4>2. r \in RowIds /\ r # s.target /\ rows[r].status # "free" /\ rows[r].kind = "rule"
            /\ rows[r].text = s.text
        BY <4>1 DEF Twins
      <4>3. Superseded(rows, {s.target})[r] = rows[r]
        BY <4>2 DEF Superseded
      <4> QED BY <1>2, <4>2, <4>3 DEF Twins
    <3>3. \A r \in {s.target} : r \in RowIds => rows[r].status # "free"
      BY <2>3
    <3> HIDE DEF table, clash
    <3>4. /\ Keeps(w, u)
          /\ \A h : EventsOK(rows, h) /\ (s.kind = "event" => s.source \in h) => EventsOK(u, h)
      BY <1>1, <1>2, <3>2, <3>3, UpsertKeeps DEF LtmInv
    <3> HIDE DEF u
    <3> QED BY <1>2, <3>1, <3>4 DEF LtmInv
  <2> QED BY <2>1, <2>2, <2>3
<1> HIDE DEF table
<1> QED BY <1>1, <1>3

\* The write of a merged rule keeps the invariant, whatever became of its target.
LEMMA MergeRuleStep ==
  ASSUME LtmInv, NEW w \in Savers, MergeRule(w)
  PROVE  LtmInv'
<1>1. PICK table : /\ Keeps(w, table) /\ EventsOK(table, handled)
                   /\ Written(w, table, [r \in RowIds |-> IF table[r].text # rows[r].text
                                                            THEN table[r].text ELSE index[r]],
                              "merged")
                   /\ UNCHANGED <<handled, saves>>
  BY MergeRuleWrites
<1> DEFINE entries == [r \in RowIds |-> IF table[r].text # rows[r].text
                                          THEN table[r].text ELSE index[r]]
<1>2. \A r \in RowIds : entries[r] = IF table[r].text # rows[r].text THEN table[r].text ELSE index[r]
  OBVIOUS
<1>3. entries \in [RowIds -> SUBSET Facts]
  <2>1. \A r \in RowIds : table[r] \in Row
    BY <1>1 DEF Keeps, RowsOK
  <2>2. \A r \in RowIds : table[r].text \in SUBSET Facts /\ index[r] \in SUBSET Facts
    BY <2>1 DEF Row, LtmInv, IndexOK
  <2> QED BY <2>2
<1>4. save[w].pc # "embed"
  BY DEF MergeRule
<1>5. \A r \in RowIds : table[r].status = "free" <=> rows[r].status = "free"
  BY <1>1, <1>4 DEF Keeps
<1> HIDE DEF entries
<1>6. \A r \in RowIds : table[r].status = "free" => entries[r] = {}
  BY <1>1, <1>2, <1>5 DEF Keeps, RowsOK, LtmInv, IndexOK
<1>7. \A r \in RowIds : table[r].status # "free" /\ table[r].kind = "preference" =>
         entries[r] = table[r].text
  BY <1>1, <1>2, <1>5 DEF Keeps, LtmInv, IndexOK
<1>8. IndexOK(table, entries)
  BY <1>3, <1>6, <1>7 DEF IndexOK
<1>9. Written(w, table, entries, "merged")
  BY <1>1 DEF entries
<1>10. EventsOK(table, handled')
  BY <1>1
<1> QED BY <1>1, <1>8, <1>9, <1>10, WriteStep

-----------------------------------------------------------------------------
\* An empty table, with nothing under way, satisfies the invariant.
LEMMA LtmInvInit == LtmInit => LtmInv
<1> SUFFICES ASSUME LtmInit PROVE LtmInv
  OBVIOUS
<1>1. \A r \in RowIds : rows[r] = Free /\ index[r] = {}
  BY DEF LtmInit
<1>2. \A w \in Savers : save[w] = NoSave
  BY DEF LtmInit
<1>3. Free \in Row /\ Free.status = "free" /\ Free.text = {}
  BY DEF Free, Row, Statuses, ItemKinds, Origins
<1>4. RowsOK(rows) /\ IndexOK(rows, index) /\ Distinct(rows) /\ EventsOK(rows, handled)
  BY <1>1, <1>3 DEF LtmInit, RowsOK, IndexOK, Distinct, EventsOK
<1>5. SavesOK(rows, save, saves)
  BY <1>1, <1>2, <1>3, NoSaveIsSave, Bounds DEF LtmInit, SavesOK
<1> QED BY <1>4, <1>5 DEF LtmInv

\* Every step keeps the invariant.
LEMMA LtmInvStep == LtmInv /\ [LtmNext]_ltmVars => LtmInv'
<1> SUFFICES ASSUME LtmInv, [LtmNext]_ltmVars PROVE LtmInv'
  OBVIOUS
<1>1. ASSUME NEW w \in Savers, BeginSave(w) PROVE LtmInv'
  BY <1>1, BeginStep
<1>2. ASSUME NEW w \in Savers, EmbeddingFails(w) PROVE LtmInv'
  BY <1>2, StopStep DEF EmbeddingFails
<1>3. ASSUME NEW w \in Savers, SaveReplacing(w) PROVE LtmInv'
  BY <1>3, SaveReplacingStep
<1>4. ASSUME NEW w \in Savers, MergeRule(w) PROVE LtmInv'
  BY <1>4, MergeRuleStep
<1>5. ASSUME NEW w \in Savers, NEW target \in RowIds, MergeInto(w, target) PROVE LtmInv'
  BY <1>5, MergeIntoStep
<1>6. ASSUME NEW w \in Savers, SaveEvent(w) PROVE LtmInv'
  BY <1>6, SaveEventStep
<1>7. ASSUME NEW w \in Savers, SaveEventAgain(w) PROVE LtmInv'
  BY <1>7, StopStep DEF SaveEventAgain
<1>8. ASSUME NEW r \in RowIds, Forget(r) PROVE LtmInv'
  BY <1>8, RetireStep DEF Forget
<1>9. ASSUME NEW r \in RowIds, DeleteRow(r) PROVE LtmInv'
  BY <1>9, DeleteStep
<1>10. ASSUME NEW s \in Sources, UndoSource(s) PROVE LtmInv'
  <2> DEFINE gone == {r \in RowIds : rows[r].status # "free" /\ rows[r].source = s}
  <2>1. rows' = Superseded(rows, gone)
    BY <1>10 DEF UndoSource, Replacements, Superseded
  <2>2. UNCHANGED <<index, handled, save, saves>>
    BY <1>10 DEF UndoSource
  <2>3. \A r \in gone : r \in RowIds => rows[r].status # "free"
    OBVIOUS
  <2> HIDE DEF gone
  <2> QED BY <2>1, <2>2, <2>3, RetireStep
<1>11. ASSUME UNCHANGED ltmVars PROVE LtmInv'
  BY <1>11 DEF ltmVars, LtmInv, RowsOK, IndexOK, Distinct, EventsOK, SavesOK, Near
<1> QED BY <1>1, <1>2, <1>3, <1>4, <1>5, <1>6, <1>7, <1>8, <1>9, <1>10, <1>11 DEF LtmNext

\* The invariant holds always.
LEMMA LtmInvHolds == LtmSpec => []LtmInv
BY LtmInvInit, LtmInvStep, PTL DEF LtmSpec

\* Two active preferences never resemble each other, whatever the saves that run
\* together, the crashes between row and index, and the deletions.
THEOREM PreferencesStayDistinct == LtmSpec => []PreferencesDistinct
<1>1. LtmInv => PreferencesDistinct
  BY DEF LtmInv, Distinct, PreferencesDistinct
<1> QED BY <1>1, LtmInvHolds, PTL

-----------------------------------------------------------------------------
\* The sources of saves and of what is handled.
Sourced == handled \subseteq Sources /\ \A w \in Savers : save[w].pc = "embed" => save[w].source \in Sources

\* A write moves its own save on, or the process dies and forgets all of them.
SaveMoved(v, w, done) == \/ save'[v] = NoSave
                         \/ v # w /\ save'[v] = save[v]
                         \/ v = w /\ save'[v].pc = done

\* A write moves the save of one saver, unless the process dies in it.
LEMMA WrittenMoves ==
  ASSUME save \in [Savers -> SaveRecord], NEW w \in Savers, NEW table, NEW entries,
         NEW done \in {"saved", "merged", "skipped"}, Written(w, table, entries, done), NEW v \in Savers
  PROVE  SaveMoved(v, w, done)
<1>1. CASE save' = [save EXCEPT ![w].pc = done]
  <2>1. v # w => save'[v] = save[v]
    BY <1>1
  <2>2. [save[w] EXCEPT !.pc = done].pc = done
    BY PcIsSave DEF Stages
  <2>3. save'[w] = [save[w] EXCEPT !.pc = done]
    BY <1>1
  <2> QED BY <2>1, <2>2, <2>3 DEF SaveMoved
<1>2. CASE save' = [u \in Savers |-> NoSave]
  BY <1>2 DEF SaveMoved
<1> QED BY <1>1, <1>2 DEF Written

\* Only SaveReplacing reports an item saved; only SaveEvent can write and end skipped.
LEMMA WhoMoves ==
  ASSUME LtmInv, LtmNext, NEW v \in Savers, save[v].pc = "embed"
  PROVE  /\ save'[v].pc = "saved" => SaveReplacing(v)
         /\ save'[v].pc = "skipped" => SaveEvent(v) \/ rows' = rows
         /\ save'[v].pc = "embed" => save'[v] = save[v]
<1> DEFINE Goal == /\ save'[v].pc = "saved" => SaveReplacing(v)
                   /\ save'[v].pc = "skipped" => SaveEvent(v) \/ rows' = rows
                   /\ save'[v].pc = "embed" => save'[v] = save[v]
<1>0. save \in [Savers -> SaveRecord] /\ NoSave.pc = "idle"
  BY NoSaveIsSave DEF LtmInv, SavesOK
<1>a. ASSUME NEW w \in Savers, NEW table, NEW entries, NEW done \in {"saved", "merged", "skipped"},
             Written(w, table, entries, done)
      PROVE  SaveMoved(v, w, done)
  BY <1>0, <1>a, WrittenMoves
<1>1. ASSUME NEW w \in Savers, BeginSave(w) PROVE Goal
  <2>1. v # w
    BY <1>1 DEF BeginSave, Resting
  <2>2. save'[v] = save[v]
    BY <1>0, <1>1, <2>1 DEF BeginSave
  <2> QED BY <2>2
<1>2. ASSUME NEW w \in Savers, save' = [save EXCEPT ![w].pc = "skipped"], rows' = rows PROVE Goal
  <2>1. v # w => save'[v] = save[v]
    BY <1>0, <1>2
  <2>2. [save[w] EXCEPT !.pc = "skipped"].pc = "skipped"
    BY <1>0, PcIsSave DEF Stages
  <2>3. save'[w] = [save[w] EXCEPT !.pc = "skipped"]
    BY <1>0, <1>2
  <2> QED BY <1>2, <2>1, <2>2, <2>3
<1>3. ASSUME NEW w \in Savers, SaveReplacing(w) PROVE Goal
  <2>1. PICK table : Written(w, table, Indexed(table), "saved")
    BY <1>3 DEF SaveReplacing
  <2>2. SaveMoved(v, w, "saved")
    BY <1>a, <2>1
  <2> QED BY <1>0, <1>3, <2>2 DEF SaveMoved
<1>4. ASSUME NEW w \in Savers, MergeRule(w) PROVE Goal
  <2>1. PICK table : Written(w, table, [r \in RowIds |-> IF table[r].text # rows[r].text
                                                          THEN table[r].text ELSE index[r]],
                             "merged")
    BY <1>4, MergeRuleWrites
  <2>2. SaveMoved(v, w, "merged")
    BY <1>a, <2>1
  <2> QED BY <1>0, <2>2 DEF SaveMoved
<1>5. ASSUME NEW w \in Savers, NEW target \in RowIds, MergeInto(w, target) PROVE Goal
  <2>1. v # w => save'[v] = save[v]
    BY <1>0, <1>5 DEF MergeInto
  <2>2. save'[w] = [save[w] EXCEPT !.pc = "merge", !.target = target,
                                   !.text = @ \union rows[target].text]
    BY <1>0, <1>5 DEF MergeInto
  <2>3. save'[w].pc = "merge"
    BY <1>0, <2>2 DEF SaveRecord
  <2> QED BY <2>1, <2>3
<1>6. ASSUME NEW w \in Savers, SaveEvent(w) PROVE Goal
  <2>1. PICK table : Written(w, table, Indexed(table), "skipped")
    BY <1>6 DEF SaveEvent
  <2>2. SaveMoved(v, w, "skipped")
    BY <1>a, <2>1
  <2> QED BY <1>0, <1>6, <2>2 DEF SaveMoved
<1>7. ASSUME NEW w \in Savers, EmbeddingFails(w) \/ SaveEventAgain(w) PROVE Goal
  BY <1>2, <1>7 DEF EmbeddingFails, SaveEventAgain
<1>8. ASSUME save' = save PROVE Goal
  BY <1>8
<1>9. ASSUME NEW r \in RowIds, Forget(r) \/ DeleteRow(r) PROVE Goal
  BY <1>8, <1>9 DEF Forget, DeleteRow
<1>10. ASSUME NEW s \in Sources, UndoSource(s) PROVE Goal
  BY <1>8, <1>10 DEF UndoSource
<1> HIDE DEF Goal
<1>11. Goal
  BY <1>1, <1>3, <1>4, <1>5, <1>6, <1>7, <1>9, <1>10 DEF LtmNext
<1> QED BY <1>11 DEF Goal

\* A save is embedded only since it began.
LEMMA WhoBegins ==
  ASSUME LtmInv, LtmNext, NEW v \in Savers, save[v].pc # "embed", save'[v].pc = "embed"
  PROVE  BeginSave(v)
<1>0. save \in [Savers -> SaveRecord] /\ NoSave.pc = "idle"
  BY NoSaveIsSave DEF LtmInv, SavesOK
<1>1. ASSUME NEW w \in Savers, BeginSave(w) PROVE BeginSave(v)
  <2>1. v # w => save'[v] = save[v]
    BY <1>0, <1>1 DEF BeginSave
  <2> QED BY <1>1, <2>1
<1>2. ASSUME NEW w \in Savers, save' = [save EXCEPT ![w].pc = "skipped"] PROVE FALSE
  <2>1. v # w => save'[v] = save[v]
    BY <1>0, <1>2
  <2>2. [save[w] EXCEPT !.pc = "skipped"].pc = "skipped"
    BY <1>0, PcIsSave DEF Stages
  <2>3. save'[w] = [save[w] EXCEPT !.pc = "skipped"]
    BY <1>0, <1>2
  <2> QED BY <2>1, <2>2, <2>3
<1>3. ASSUME NEW w \in Savers, NEW table, NEW entries, NEW done \in {"saved", "merged", "skipped"},
             Written(w, table, entries, done)
      PROVE  FALSE
  <2>1. SaveMoved(v, w, done)
    BY <1>0, <1>3, WrittenMoves
  <2> QED BY <1>0, <2>1 DEF SaveMoved
<1>4. ASSUME NEW w \in Savers, NEW target \in RowIds, MergeInto(w, target) PROVE FALSE
  <2>1. v # w => save'[v] = save[v]
    BY <1>0, <1>4 DEF MergeInto
  <2>2. save'[w] = [save[w] EXCEPT !.pc = "merge", !.target = target,
                                   !.text = @ \union rows[target].text]
    BY <1>0, <1>4 DEF MergeInto
  <2>3. save'[w].pc = "merge"
    BY <1>0, <2>2 DEF SaveRecord
  <2> QED BY <2>1, <2>3
<1>5. ASSUME NEW w \in Savers, SaveReplacing(w) PROVE FALSE
  BY <1>3, <1>5 DEF SaveReplacing
<1>6. ASSUME NEW w \in Savers, MergeRule(w) PROVE FALSE
  BY <1>3, <1>6, MergeRuleWrites
<1>7. ASSUME NEW w \in Savers, SaveEvent(w) PROVE FALSE
  BY <1>3, <1>7 DEF SaveEvent
<1>8. ASSUME NEW w \in Savers, EmbeddingFails(w) \/ SaveEventAgain(w) PROVE FALSE
  BY <1>2, <1>8 DEF EmbeddingFails, SaveEventAgain
<1>9. ASSUME save' = save PROVE FALSE
  BY <1>9
<1>10. ASSUME NEW r \in RowIds, Forget(r) \/ DeleteRow(r) PROVE FALSE
  BY <1>9, <1>10 DEF Forget, DeleteRow
<1>11. ASSUME NEW s \in Sources, UndoSource(s) PROVE FALSE
  BY <1>9, <1>11 DEF UndoSource
<1> QED BY <1>1, <1>4, <1>5, <1>6, <1>7, <1>8, <1>10, <1>11 DEF LtmNext

\* When a save reports an item as saved, an active row says what was saved.
THEOREM SavedItemsAreActive == LtmSpec => SavedIsActive
<1>1. LtmInv /\ [LtmNext]_ltmVars =>
        [\A w \in Savers : save[w].pc = "embed" /\ save'[w].pc = "saved" =>
           \E r \in RowIds : /\ rows'[r].status = "active"
                             /\ save[w].text \subseteq rows'[r].text]_ltmVars
  <2> SUFFICES ASSUME LtmInv, LtmNext, NEW w \in Savers, save[w].pc = "embed", save'[w].pc = "saved"
               PROVE  \E r \in RowIds : /\ rows'[r].status = "active"
                                        /\ save[w].text \subseteq rows'[r].text
    OBVIOUS
  <2>1. SaveReplacing(w)
    BY WhoMoves
  <2> DEFINE table == Upsert(Superseded(rows, Found(save[w].kind, save[w].text)), save[w])
  <2>2. /\ \E r \in RowIds : table[r].status = "active" /\ table[r].text = save[w].text
        /\ Written(w, table, Indexed(table), "saved")
    BY <2>1, SaveReplacingWrites
  <2>3. rows' = table
    BY <2>2 DEF Written
  <2> HIDE DEF table
  <2> QED BY <2>2, <2>3
<1> QED BY <1>1, LtmInvHolds, PTL DEF LtmSpec, SavedIsActive

\* What is consolidated a second time revives no event that was forgotten.
THEOREM RedeliveryIsQuiet == LtmSpec => RedeliveryRevivesNothing
<1>1. LtmInv /\ [LtmNext]_ltmVars =>
        [\A r \in RowIds : \A w \in Savers :
           /\ rows[r].kind = "event" /\ rows[r].status = "superseded"
           /\ rows'[r].status = "active"
           /\ save[w].pc = "embed" /\ save'[w].pc = "skipped" /\ save[w].kind = "event"
           => save[w].source # rows[r].source]_ltmVars
  <2> SUFFICES ASSUME LtmInv, LtmNext, NEW r \in RowIds, NEW w \in Savers,
                      rows[r].kind = "event", rows[r].status = "superseded",
                      rows'[r].status = "active",
                      save[w].pc = "embed", save'[w].pc = "skipped"
               PROVE  save[w].source # rows[r].source
    OBVIOUS
  <2>1. SaveEvent(w)
    BY WhoMoves
  <2>2. rows' = EventTable(save[w])
    BY <2>1 DEF SaveEvent, Written
  <2>3. save[w].source \notin handled
    BY <2>2 DEF EventTable
  <2>4. rows[r].source \in handled
    BY DEF LtmInv, EventsOK
  <2> QED BY <2>3, <2>4
<1> QED BY <1>1, LtmInvHolds, PTL DEF LtmSpec, RedeliveryRevivesNothing

\* The shape of the store, and one row for a text and a kind, at every step.
THEOREM LtmTypeCorrect == LtmSpec => []LtmTypeOK
<1>1. LtmInit => Sourced
  BY DEF LtmInit, Sourced, NoSave
<1>2. LtmInv /\ Sourced /\ [LtmNext]_ltmVars => Sourced'
  <2> SUFFICES ASSUME LtmInv, Sourced, [LtmNext]_ltmVars PROVE Sourced'
    OBVIOUS
  <2>1. CASE UNCHANGED ltmVars
    BY <2>1 DEF Sourced, ltmVars
  <2>2. CASE LtmNext
    <3>1. handled' \subseteq Sources
      <4>1. CASE \E w \in Savers : SaveEvent(w)
        BY <4>1 DEF SaveEvent, Sourced
      <4>2. CASE handled' = handled
        BY <4>2 DEF Sourced
      <4> QED BY <2>2, <4>1, <4>2 DEF LtmNext, BeginSave, EmbeddingFails, SaveReplacing, MergeRule,
               MergeInto, SaveEventAgain, Forget, DeleteRow, UndoSource
    <3>2. ASSUME NEW v \in Savers, save'[v].pc = "embed" PROVE save'[v].source \in Sources
      <4>1. CASE save[v].pc = "embed"
        BY <2>2, <3>2, <4>1, WhoMoves DEF Sourced
      <4>2. CASE save[v].pc # "embed"
        <5>1. BeginSave(v)
          BY <2>2, <3>2, <4>2, WhoBegins
        <5> QED BY <5>1 DEF BeginSave, LtmInv, SavesOK
      <4> QED BY <4>1, <4>2
    <3> QED BY <3>1, <3>2 DEF Sourced
  <2> QED BY <2>1, <2>2
<1>3. LtmInv /\ Sourced => LtmTypeOK
  <2> SUFFICES ASSUME LtmInv, Sourced PROVE LtmTypeOK
    OBVIOUS
  <2>1. \A r \in RowIds : rows[r] \in Row /\ index[r] \subseteq Facts
    BY DEF LtmInv, RowsOK, IndexOK
  <2>2. ASSUME NEW r \in RowIds, rows[r].status # "free"
        PROVE  Twins(rows, rows[r].kind, rows[r].text) = {r}
    BY <2>2 DEF Twins, LtmInv, RowsOK
  <2>3. \A r \in RowIds : rows[r].status = "free" <=> rows[r].text = {}
    BY DEF LtmInv, RowsOK
  <2> QED BY <2>1, <2>2, <2>3 DEF LtmTypeOK, Row, Statuses, Sourced
<1> QED BY <1>1, <1>2, <1>3, LtmInvHolds, PTL DEF LtmSpec
=============================================================================
