------------------------ MODULE SessionCursorProofs ------------------------
(***************************************************************************)
(* Theorems about SessionCursor, for any number of messages and incidents,  *)
(* any keep_count and any least window.                                    *)
(***************************************************************************)
EXTENDS SessionCursor, FiniteSetTheorems, SequenceTheorems, WellFoundedInduction, TLAPS

-----------------------------------------------------------------------------
(* Numbers and sequences                                                     *)

\* Min and Max of a set of numbers are what their names say.
LEMMA LeastIs ==
  ASSUME NEW S \in SUBSET Nat, S # {}
  PROVE  Min(S) \in S /\ \A n \in S : Min(S) <= n
<1>1. IsWellFoundedOn(OpToRel(<, Nat), Nat)
  BY NatLessThanWellFounded
<1>2. PICK m \in S : \A n \in S : ~ (<<n, m>> \in OpToRel(<, Nat))
  BY <1>1, WFMin, Zenon
<1>3. \A n \in S : ~ (n < m)
  BY <1>2 DEF OpToRel
<1>4. \A n \in S : m <= n
  BY <1>3
<1> QED BY <1>4 DEF Min

\* A non-empty set of numbers with a bound has a greatest one, and Max is it.
LEMMA LargestIs ==
  ASSUME NEW S \in SUBSET Nat, S # {}, NEW b \in Nat, \A n \in S : n <= b
  PROVE  Max(S) \in S /\ \A n \in S : Max(S) >= n
<1>1. {b - n : n \in S} \in SUBSET Nat /\ {b - n : n \in S} # {}
  <2>1. \A n \in S : b - n \in Nat
    OBVIOUS
  <2>2. PICK n : n \in S
    OBVIOUS
  <2>3. b - n \in {b - k : k \in S}
    BY <2>2, Zenon
  <2>4. {b - k : k \in S} \in SUBSET Nat
    BY <2>1, Zenon
  <2> QED BY <2>3, <2>4
<1> DEFINE T == {b - n : n \in S}
<1>a. PICK c \in T : \A d \in T : c <= d
  <2> HIDE DEF T
  <2>1. T \in SUBSET Nat /\ T # {}
    BY <1>1 DEF T
  <2> QED BY <2>1, LeastIs
<1>2. PICK m \in S : \A n \in S : b - m <= b - n
  BY <1>a
<1>3. \A n \in S : m >= n
  BY <1>2
<1> QED BY <1>3 DEF Max

\* What the message lists are made of.
LEMMA ListIs ==
  ASSUME NEW s \in Seq(Message)
  PROVE  /\ Len(s) \in Nat /\ DOMAIN s = 1 .. Len(s)
         /\ \A k \in 1 .. Len(s) : /\ s[k] \in Message
                                   /\ s[k].uid \in 1 .. MaxMessages /\ s[k].seq \in Nat
<1>1. /\ Len(s) \in Nat /\ DOMAIN s = 1 .. Len(s)
      /\ \A k \in 1 .. Len(s) : s[k] \in Message
  OBVIOUS
<1>2. \A m \in Message : m.uid \in 1 .. MaxMessages /\ m.seq \in Nat
  BY DEF Message
<1> QED BY <1>1, <1>2

\* One sequence after the other.
LEMMA JoinIs ==
  ASSUME NEW M, NEW u \in Seq(M), NEW v \in Seq(M)
  PROVE  /\ u \o v \in Seq(M) /\ Len(u \o v) = Len(u) + Len(v)
         /\ \A n \in 1 .. Len(u) + Len(v) :
               (u \o v)[n] = IF n <= Len(u) THEN u[n] ELSE v[n - Len(u)]
BY ConcatProperties

\* A sequence without its positions p - 1 and p.
Closed(s, p) == [n \in 1 .. Len(s) - 2 |-> IF n <= p - 2 THEN s[n] ELSE s[n + 2]]

\* A sequence without the two elements at p - 1 and p.
LEMMA ClosedIs ==
  ASSUME NEW M, NEW s \in Seq(M), NEW p \in 2 .. Len(s)
  PROVE  /\ Closed(s, p) \in Seq(M) /\ Len(Closed(s, p)) = Len(s) - 2
         /\ \A n \in 1 .. Len(s) - 2 : Closed(s, p)[n] = IF n <= p - 2 THEN s[n] ELSE s[n + 2]
<1>1. Len(s) - 2 \in Nat /\ Len(s) \in Nat
  OBVIOUS
<1>2. \A n \in 1 .. Len(s) - 2 : s[n] \in M /\ s[n + 2] \in M
  BY <1>1
<1>3. Closed(s, p) \in [1 .. Len(s) - 2 -> M]
  BY <1>2 DEF Closed
<1>4. Closed(s, p) \in Seq(M)
  BY <1>1, <1>3, SeqDef, Zenon
<1>5. DOMAIN Closed(s, p) = 1 .. Len(s) - 2
  BY DEF Closed
<1>6. Len(Closed(s, p)) = Len(s) - 2
  BY <1>1, <1>4, <1>5, LenProperties
<1> QED BY <1>4, <1>6 DEF Closed

\* Deleting by position, as it is done in memory.
LEMMA DeletedByPosition ==
  ASSUME NEW M, NEW s \in Seq(M), NEW p \in 2 .. Len(s)
  PROVE  SubSeq(s, 1, p - 2) \o SubSeq(s, p + 1, Len(s)) = Closed(s, p)
<1>1. /\ SubSeq(s, 1, p - 2) \in Seq(M) /\ Len(SubSeq(s, 1, p - 2)) = p - 2
      /\ \A n \in 1 .. p - 2 : SubSeq(s, 1, p - 2)[n] = s[n]
  OBVIOUS
<1>2. /\ SubSeq(s, p + 1, Len(s)) \in Seq(M) /\ Len(SubSeq(s, p + 1, Len(s))) = Len(s) - p
      /\ \A n \in 1 .. Len(s) - p : SubSeq(s, p + 1, Len(s))[n] = s[n + p]
  OBVIOUS
<1> DEFINE u == SubSeq(s, 1, p - 2)
           v == SubSeq(s, p + 1, Len(s))
<1>4. u \o v \in Seq(M) /\ Len(u \o v) = Len(s) - 2
  <2> HIDE DEF u, v
  <2>1. u \in Seq(M) /\ v \in Seq(M) /\ Len(u) = p - 2 /\ Len(v) = Len(s) - p
    BY <1>1, <1>2 DEF u, v
  <2>2. u \o v \in Seq(M) /\ Len(u \o v) = Len(u) + Len(v)
    BY <2>1, JoinIs
  <2>3. Len(s) \in Nat /\ p \in Nat
    OBVIOUS
  <2> QED BY <2>1, <2>2, <2>3
<1>5. \A n \in 1 .. Len(s) - 2 : (u \o v)[n] = IF n <= p - 2 THEN s[n] ELSE s[n + 2]
  <2>1. /\ u \in Seq(M) /\ v \in Seq(M) /\ Len(u) = p - 2 /\ Len(v) = Len(s) - p
        /\ \A n \in 1 .. p - 2 : u[n] = s[n]
        /\ \A n \in 1 .. Len(s) - p : v[n] = s[n + p]
    BY <1>1, <1>2
  <2> HIDE DEF u, v
  <2> SUFFICES ASSUME NEW n \in 1 .. Len(s) - 2
               PROVE  (u \o v)[n] = IF n <= p - 2 THEN s[n] ELSE s[n + 2]
    OBVIOUS
  <2>2. PICK m \in Nat : m = Len(s) /\ n \in 1 .. m - 2 /\ p \in 2 .. m
    OBVIOUS
  <2>3. PICK k \in Nat : k = p - 2
    BY <2>2
  <2>4. n \in 1 .. Len(u) + Len(v) /\ Len(u) = k
    BY <2>1, <2>2, <2>3
  <2>5. (u \o v)[n] = IF n <= k THEN u[n] ELSE v[n - k]
    BY <2>1, <2>4, JoinIs
  <2>6. CASE n <= k
    <3>1. n \in 1 .. p - 2
      BY <2>2, <2>3, <2>6
    <3> QED BY <2>1, <2>3, <2>5, <2>6, <3>1
  <2>7. CASE ~(n <= k)
    <3>1. n - k \in 1 .. m - p /\ (n - k) + p = n + 2
      BY <2>2, <2>3, <2>7
    <3>2. v[n - k] = s[n + 2]
      BY <2>1, <2>2, <3>1
    <3> QED BY <2>3, <2>5, <2>7, <3>2
  <2> QED BY <2>6, <2>7
<1> HIDE DEF u, v
<1>6. /\ Closed(s, p) \in Seq(M) /\ Len(Closed(s, p)) = Len(u \o v)
      /\ \A n \in 1 .. Len(u \o v) : (u \o v)[n] = Closed(s, p)[n]
  BY <1>4, <1>5, ClosedIs
<1>7. u \o v = Closed(s, p)
  BY <1>4, <1>6, SeqEqual
<1> QED BY <1>7 DEF u, v

\* An interval without two of its numbers.
LEMMA PairRemoved ==
  ASSUME NEW n \in Nat, NEW p \in 2 .. n
  PROVE  Cardinality((1 .. n) \ {p - 1, p}) = n - 2
<1> DEFINE S == 1 .. n
           T == S \ {p - 1}
<1>1. IsFiniteSet(S) /\ Cardinality(S) = n /\ p - 1 \in S
  BY FS_Interval
<1>2. p \in T /\ T \ {p} = (1 .. n) \ {p - 1, p}
  OBVIOUS
<1> HIDE DEF S
<1>3. IsFiniteSet(T) /\ Cardinality(T) = n - 1
  BY <1>1, FS_RemoveElement
<1> HIDE DEF T
<1>4. Cardinality(T \ {p}) = n - 2
  BY <1>2, <1>3, FS_RemoveElement
<1> QED BY <1>2, <1>4

\* Deleting by id, as it is done in SQLite: the same, as ids ascend.
LEMMA DeletedById ==
  ASSUME NEW s \in Seq(Message), NEW p \in 2 .. Len(s),
         \A k, l \in 1 .. Len(s) : k < l => s[k].seq < s[l].seq
  PROVE  Without(s, {s[p - 1].seq, s[p].seq}) = Closed(s, p)
<1> DEFINE gone == {s[p - 1].seq, s[p].seq}
           left == {k \in DOMAIN s : s[k].seq \notin gone}
           count(k) == Cardinality({l \in left : l <= k})
           Nth(n) == CHOOSE k \in left : count(k) = n
<1>0. DOMAIN s = 1 .. Len(s) /\ Len(s) \in Nat /\ \A k \in 1 .. Len(s) : s[k].seq \in Nat
  BY ListIs
<1>1. left = (1 .. Len(s)) \ {p - 1, p}
  <2>1. \A k \in 1 .. Len(s) : k \notin {p - 1, p} => s[k].seq \notin gone
    BY <1>0
  <2> QED BY <1>0, <2>1
<1> HIDE DEF left
<1>2. \A k \in left : count(k) = IF k <= p - 2 THEN k ELSE k - 2
  <2> SUFFICES ASSUME NEW k \in left PROVE count(k) = IF k <= p - 2 THEN k ELSE k - 2
    OBVIOUS
  <2>1. k \in 1 .. Len(s) /\ k # p - 1 /\ k # p
    BY <1>1
  <2>2. IsFiniteSet(1 .. k) /\ Cardinality(1 .. k) = k
    BY <2>1, FS_Interval
  <2>3. CASE k <= p - 2
    <3>1. {l \in left : l <= k} = 1 .. k
      BY <1>1, <2>1, <2>3
    <3> QED BY <2>2, <2>3, <3>1
  <2>4. CASE k > p
    <3>1. {l \in left : l <= k} = (1 .. k) \ {p - 1, p}
      BY <1>1, <2>1, <2>4
    <3>2. Cardinality((1 .. k) \ {p - 1, p}) = k - 2
      BY <2>1, <2>4, PairRemoved
    <3>3. k \in Nat /\ p \in Nat
      BY <2>1
    <3>4. count(k) = k - 2
      BY <3>1, <3>2, Zenon
    <3> HIDE DEF count
    <3> QED BY <2>4, <3>3, <3>4
  <2> QED BY <2>1, <2>3, <2>4
<1>3. Cardinality(left) = Len(s) - 2
  BY <1>0, <1>1, PairRemoved
<1>4. \A n \in 1 .. Len(s) - 2 : Nth(n) = IF n <= p - 2 THEN n ELSE n + 2
  <2> SUFFICES ASSUME NEW n \in 1 .. Len(s) - 2 PROVE Nth(n) = IF n <= p - 2 THEN n ELSE n + 2
    OBVIOUS
  <2> DEFINE k == IF n <= p - 2 THEN n ELSE n + 2
  <2>1. k \in left
    BY <1>0, <1>1
  <2>2. count(k) = n
    BY <1>0, <1>2, <2>1
  <2>3. \A l \in left : count(l) = n => l = k
    BY <1>1, <1>2
  <2> HIDE DEF count, k
  <2>4. Nth(n) = k
    BY <2>1, <2>2, <2>3
  <2> QED BY <2>4 DEF k
<1>5. Without(s, gone) = [n \in 1 .. Cardinality(left) |-> s[Nth(n)]]
  BY DEF Without, left
<1> HIDE DEF count, Nth
<1>6. [n \in 1 .. Cardinality(left) |-> s[Nth(n)]] = Closed(s, p)
  BY <1>0, <1>3, <1>4 DEF Closed
<1> QED BY <1>5, <1>6

\* What the end of a sequence is.
LEMMA TailIs ==
  ASSUME NEW M, NEW s \in Seq(M), NEW w \in 0 .. Len(s)
  PROVE  /\ SubSeq(s, Len(s) - w + 1, Len(s)) \in Seq(M)
         /\ Len(SubSeq(s, Len(s) - w + 1, Len(s))) = w
         /\ \A k \in 1 .. w : SubSeq(s, Len(s) - w + 1, Len(s))[k] = s[Len(s) - w + k]
OBVIOUS

-----------------------------------------------------------------------------
(* The window and the undo, in positions                                     *)

\* The messages of a window: the positions first to last.
LEMMA WindowIs ==
  ASSUME NEW s \in Seq(Message), NEW first \in 1 .. Len(s) + 1, NEW last \in 0 .. Len(s),
         first <= last + 1
  PROVE  /\ \A k \in first .. last : /\ s[k].uid \in Uids(SubSeq(s, first, last))
                                    /\ s[k].seq \in Seqs(SubSeq(s, first, last))
         /\ \A u \in Uids(SubSeq(s, first, last)) : \E k \in first .. last : u = s[k].uid
         /\ \A q \in Seqs(SubSeq(s, first, last)) : \E k \in first .. last : q = s[k].seq
<1> DEFINE t == SubSeq(s, first, last)
<1>1. /\ DOMAIN t = 1 .. last - first + 1
      /\ \A k \in 1 .. last - first + 1 : t[k] = s[first + k - 1]
  <2>1. last - first + 1 \in Nat /\ first \in Nat /\ last \in Nat
    BY ListIs
  <2>2. /\ t \in Seq(Message) /\ Len(t) = last - first + 1
        /\ \A k \in 1 .. last - first + 1 : t[k] = s[first + k - 1]
    BY <2>1, SubSeqProperties
  <2> QED BY <2>2, ListIs
<1>2. \A k \in first .. last : /\ k - first + 1 \in 1 .. last - first + 1
                               /\ t[k - first + 1] = s[k]
  <2> HIDE DEF t
  <2> QED BY <1>1, ListIs
<1>3. \A k \in 1 .. last - first + 1 : first + k - 1 \in first .. last
  BY ListIs
<1> HIDE DEF t
<1>4. \A i \in DOMAIN t : \E k \in first .. last : t[i] = s[k]
  BY <1>1, <1>3
<1>5. \A k \in first .. last : \E i \in DOMAIN t : t[i] = s[k]
  BY <1>1, <1>2
<1>6. \A k \in first .. last : s[k].uid \in Uids(t) /\ s[k].seq \in Seqs(t)
  BY <1>5, Zenon DEF Uids, Seqs
<1>7. /\ \A u \in Uids(t) : \E k \in first .. last : u = s[k].uid
      /\ \A q \in Seqs(t) : \E k \in first .. last : q = s[k].seq
  BY <1>4, Zenon DEF Uids, Seqs
<1> QED BY <1>6, <1>7 DEF t

\* The turn that is undone is a pair of neighbours, and no later one is a turn.
LEMMA LastTurnIs ==
  ASSUME messages \in Seq(Message), PassiveTurns # {}
  PROVE  /\ Max(PassiveTurns) \in PassiveTurns /\ Max(PassiveTurns) \in 2 .. Len(messages)
         /\ \A a \in PassiveTurns : a <= Max(PassiveTurns)
<1>1. PassiveTurns \in SUBSET Nat /\ Len(messages) \in Nat
      /\ \A a \in PassiveTurns : a <= Len(messages) /\ a \in 2 .. Len(messages)
  BY ListIs DEF PassiveTurns
<1>2. /\ Max(PassiveTurns) \in PassiveTurns
      /\ \A a \in PassiveTurns : Max(PassiveTurns) >= a
  BY <1>1, LargestIs
<1> QED BY <1>1, <1>2

\* The smaller of two numbers.
LEMMA LessIs ==
  ASSUME NEW x \in Nat, NEW y \in Nat
  PROVE  /\ Min({x, y}) \in Nat
         /\ x <= y => Min({x, y}) = x
         /\ y <= x => Min({x, y}) = y
<1>1. {x, y} \in SUBSET Nat /\ {x, y} # {}
  OBVIOUS
<1>2. Min({x, y}) \in {x, y} /\ \A n \in {x, y} : Min({x, y}) <= n
  BY <1>1, LeastIs, Zenon
<1> QED BY <1>2

\* Neither message of the turn is before the place rolled back to.
LEMMA CursorIsRollback ==
  ASSUME messages \in Seq(Message), NEW a \in PassiveTurns,
         NEW r \in Nat, r <= a - 2
  PROVE  CursorAfterUndo(a, r) = r
<1>1. a \in 2 .. Len(messages) /\ Len(messages) \in Nat
  BY ListIs DEF PassiveTurns
<1>2. {i \in {a - 2, a - 1} : i < r} = {}
  BY <1>1
<1>3. Cardinality({i \in {a - 2, a - 1} : i < r}) = 0
  BY <1>2, FS_EmptySet
<1>4. r - Cardinality({i \in {a - 2, a - 1} : i < r}) = r
  BY <1>3
<1>5. CursorAfterUndo(a, r) = Min({r, Len(messages) - 2})
  BY <1>4, Zenon DEF CursorAfterUndo
<1> QED BY <1>1, <1>5, LessIs

\* Where an undo leaves the cursor: it was there, or is taken back to the turn, or
\* to the first message that shares an item with it; it never passes the turn.
LEMMA CursorGoesBack ==
  ASSUME messages \in Seq(Message), lastConsolidated \in Nat,
         NEW a \in PassiveTurns, NEW sources
  PROVE  LET c == CursorAfterUndo(a, RollbackIndex(a, sources))
             shared == {k \in DOMAIN messages : messages[k].seq \in sources}
         IN  /\ c \in Nat /\ c <= a - 2 /\ c <= lastConsolidated
             /\ a - 2 >= lastConsolidated => c = lastConsolidated
             /\ a - 2 < lastConsolidated =>
                   /\ c = a - 2 \/ c + 1 \in shared
                   /\ \A k \in shared : c <= k - 1
<1>0. /\ a \in 2 .. Len(messages) /\ Len(messages) \in Nat /\ DOMAIN messages = 1 .. Len(messages)
      /\ a \in Nat /\ a - 2 \in Nat /\ a - 2 <= Len(messages) - 2 /\ Len(messages) - 2 \in Nat
  BY ListIs DEF PassiveTurns
<1> DEFINE r == RollbackIndex(a, sources)
           shared == {k \in DOMAIN messages : messages[k].seq \in sources}
           starts == {lastConsolidated, a - 2} \cup {i - 1 : i \in shared}
<1>2. CASE a - 2 >= lastConsolidated
  <2>1. r = Min({lastConsolidated, Len(messages) - 2})
    BY <1>2 DEF RollbackIndex
  <2>2. lastConsolidated <= Len(messages) - 2
    BY <1>0, <1>2
  <2>3. r = lastConsolidated
    BY <1>0, <2>1, <2>2, LessIs
  <2>4. CursorAfterUndo(a, r) = r
    BY <1>2, <2>3, CursorIsRollback
  <2> QED BY <1>0, <1>2, <2>3, <2>4
<1>3. CASE a - 2 < lastConsolidated
  <2>1. r = Min(starts)
    BY <1>0, <1>3 DEF RollbackIndex
  <2>2. starts \in SUBSET Nat /\ starts # {}
    BY <1>0
  <2>3. r \in starts /\ \A n \in starts : r <= n
    <3> HIDE DEF starts, r
    <3> QED BY <2>1, <2>2, LeastIs
  <2>4. r \in Nat /\ r <= a - 2 /\ \A k \in shared : r <= k - 1
    BY <1>0, <2>2, <2>3
  <2>5. r = a - 2 \/ r + 1 \in shared
    <3>1. r # lastConsolidated
      BY <1>0, <1>3, <2>4
    <3> HIDE DEF r
    <3>2. r = a - 2 \/ \E i \in shared : r = i - 1
      BY <2>3, <3>1
    <3> QED BY <1>0, <3>2
  <2> HIDE DEF r
  <2>6. CursorAfterUndo(a, r) = r
    BY <2>4, CursorIsRollback
  <2> QED BY <1>0, <1>3, <2>4, <2>5, <2>6 DEF r
<1> QED BY <1>0, <1>2, <1>3

-----------------------------------------------------------------------------
(* The inductive invariant: ids                                              *)

\* The ids of a list ascend and no message is in it twice; they are below these
\* bounds; a user's message is followed by its reply.
Ascending(s) ==
    \A k, l \in 1 .. Len(s) : k < l => s[k].seq < s[l].seq /\ s[k].uid # s[l].uid
Below(s, top, next) == \A k \in 1 .. Len(s) : s[k].uid <= top /\ s[k].seq < next
Answered(s) ==
    \A k \in 1 .. Len(s) : s[k].role = "user" => k < Len(s) /\ s[k + 1].role = "assistant"

StoredOK ==
    /\ created \in 0 .. MaxMessages
    /\ Below(store.rows, created, store.nextSeq) /\ Ascending(store.rows) /\ Answered(store.rows)

\* The message of a running turn is none of the stored or undone ones.
TurnIsNew ==
    turn.pc = "reasoning" =>
        /\ turn.uid \in 1 .. created /\ turn.uid \notin undone
        /\ \A k \in 1 .. Len(store.rows) : store.rows[k].uid # turn.uid

\* What a window names and what it is about: among the stored rows the same, and
\* a stretch of them without gaps.
WindowOf(ref, about) ==
    /\ \A q \in ref : q < store.nextSeq
    /\ \A u \in about : 1 <= u /\ u <= created
    /\ \A k \in 1 .. Len(store.rows) : store.rows[k].seq \in ref <=> store.rows[k].uid \in about
    /\ \A k \in 1 .. Len(store.rows) : \A q, r \in ref :
          q <= store.rows[k].seq /\ store.rows[k].seq <= r => store.rows[k].seq \in ref
    /\ turn.pc = "reasoning" => turn.uid \notin about

\* What an item names that is in a row for its own messages: them, unless they are
\* stray.
SourcedOf(ref, about) ==
    /\ \A u \in about : 1 <= u /\ u <= created
    /\ \A k \in 1 .. Len(store.rows) : store.rows[k].uid \in about =>
          store.rows[k].seq \in ref \/ store.rows[k].uid \in stray
    /\ turn.pc = "reasoning" /\ turn.uid \in about => turn.predicted \in ref

\* What an item may be, by the way it was stored.
ItemOf(by, ref, about) ==
    /\ by = "window" => WindowOf(ref, about)
    /\ by \in {"memorize", "again"} => SourcedOf(ref, about)

\* The source_ref of a row names one message or none, or is that of a window.
RefOK(by, ref) ==
    \/ by = "window" \/ ref = {} \/ \E q \in ref : ref = {q}
    \/ \E j \in items : j.by = "window" /\ j.ref = ref

ItemsOK ==
    /\ \A i \in items : ItemOf(i.by, i.ref, i.about) /\ RefOK(i.by, i.ref)
    /\ WindowOf(work.ref, work.uids)
    /\ work.stage = "idle" => work.ref = {} /\ work.uids = {}

\* What is undone is not stored, and remembered or being consolidated only if stray.
UndoneIsGone ==
    /\ \A u \in undone : 1 <= u /\ u <= created
    /\ \A k \in 1 .. Len(store.rows) : store.rows[k].uid \notin undone
    /\ work.uids \cap undone \subseteq stray
    /\ UndoneIsForgotten

\* A window's item is retired only with one of its rows.
RetiredIsGone ==
    \A i \in items : i.by = "window" /\ ~i.active =>
        \E q \in i.ref : \A k \in 1 .. Len(store.rows) : store.rows[k].seq # q

\* What a journalled window names has been extracted.
JournalOK ==
    /\ \A r \in journal :
          /\ \A q \in r : q < store.nextSeq
          /\ \A k \in 1 .. Len(store.rows) :
                store.rows[k].seq \in r => store.rows[k].uid \in recorded
    /\ work.stage = "appended" => work.ref \in journal

IdsInv == /\ CursorTypeOK /\ MemoryIsTailOfRows /\ StoredOK /\ TurnIsNew
          /\ ItemsOK /\ UndoneIsGone /\ RetiredIsGone /\ JournalOK

-----------------------------------------------------------------------------
(* Types                                                                     *)

\* What a window selected in this list is made of.
LEMMA WindowTyped ==
  ASSUME CursorTypeOK, NEW who \in {"task", "manual"}, NEW archive \in BOOLEAN,
         NEW first \in 1 .. Len(messages) + 1, NEW last \in 0 .. Len(messages), first <= last + 1
  PROVE  Window(who, first, last, archive) \in Consolidation
<1>1. messages \in Seq(Message) /\ last \in Nat
  BY ListIs DEF CursorTypeOK
<1>2. \A k \in first .. last : k \in 1 .. Len(messages)
  BY <1>1, ListIs
<1>3. ASSUME NEW u \in Uids(SubSeq(messages, first, last)) PROVE u \in 1 .. MaxMessages
  <2>1. PICK k \in first .. last : u = messages[k].uid
    BY <1>1, <1>3, WindowIs
  <2> QED BY <1>1, <1>2, <2>1, ListIs
<1>4. ASSUME NEW q \in Seqs(SubSeq(messages, first, last)) PROVE q \in Nat
  <2>1. PICK k \in first .. last : q = messages[k].seq
    BY <1>1, <1>4, WindowIs
  <2> QED BY <1>1, <1>2, <2>1, ListIs
<1> QED BY <1>1, <1>3, <1>4 DEF Window, Consolidation

\* What can be consolidated lies after the cursor.
LEMMA SelectableIs ==
  ASSUME CursorTypeOK, NEW force \in BOOLEAN, Selectable(force)
  PROVE  /\ lastConsolidated + 1 \in 1 .. Len(messages)
         /\ WindowEnd(force) \in 1 .. Len(messages) /\ lastConsolidated + 1 <= WindowEnd(force)
BY SessionConstants, ListIs DEF CursorTypeOK, Selectable, WindowEnd

\* One message, or two.
LEMMA ListsOf ==
  ASSUME NEW m \in Message, NEW n \in Message
  PROVE  /\ <<m>> \in Seq(Message) /\ Len(<<m>>) = 1 /\ <<m>>[1] = m
         /\ <<m, n>> \in Seq(Message) /\ Len(<<m, n>>) = 2 /\ <<m, n>>[1] = m /\ <<m, n>>[2] = n
OBVIOUS

\* What append_messages stores is a list of messages.
LEMMA AppendTyped ==
  ASSUME CursorTypeOK, NEW new \in Seq(Message), AppendMessages(new)
  PROVE  /\ messages' \in Seq(Message)
         /\ store' \in [rows : Seq(Message), lastConsolidated : Nat, nextSeq : Nat]
<1>1. /\ messages \in Seq(Message) /\ store.rows \in Seq(Message) /\ lastConsolidated \in Nat
      /\ store.nextSeq \in Nat
  BY DEF CursorTypeOK
<1>2. /\ messages \o new \in Seq(Message) /\ store.rows \o new \in Seq(Message)
      /\ store.nextSeq + Len(new) \in Nat
  BY <1>1, JoinIs, ListIs
<1> QED BY <1>1, <1>2 DEF AppendMessages

\* A message in memory and its row.
LEMMA RowOf ==
  ASSUME CursorTypeOK, MemoryIsTailOfRows
  PROVE  /\ Len(messages) \in Nat /\ Len(store.rows) \in Nat /\ Len(messages) <= Len(store.rows)
         /\ messages \in Seq(Message) /\ store.rows \in Seq(Message)
         /\ \A k \in 1 .. Len(messages) :
               /\ Len(store.rows) - Len(messages) + k \in 1 .. Len(store.rows)
               /\ messages[k] = store.rows[Len(store.rows) - Len(messages) + k]
<1>1. messages \in Seq(Message) /\ store.rows \in Seq(Message)
  BY DEF CursorTypeOK
<1>2. Len(messages) \in Nat /\ Len(store.rows) \in Nat /\ Len(messages) <= Len(store.rows)
  BY <1>1, ListIs DEF MemoryIsTailOfRows
<1>3. messages = SubSeq(store.rows, Len(store.rows) - Len(messages) + 1, Len(store.rows))
  BY DEF MemoryIsTailOfRows
<1>4. ASSUME NEW k \in 1 .. Len(messages)
      PROVE  messages[k] = store.rows[Len(store.rows) - Len(messages) + k]
  <2>1. PICK w \in 0 .. Len(store.rows) : w = Len(messages)
    BY <1>2
  <2>2. SubSeq(store.rows, Len(store.rows) - w + 1, Len(store.rows))[k]
          = store.rows[Len(store.rows) - w + k]
    BY <1>1, <2>1, TailIs
  <2>3. messages = SubSeq(store.rows, Len(store.rows) - w + 1, Len(store.rows))
    BY <1>3, <2>1, Zenon
  <2>4. messages[k] = store.rows[Len(store.rows) - w + k]
    BY <2>2, <2>3, Zenon
  <2> QED BY <2>1, <2>4, Zenon
<1> QED BY <1>1, <1>2, <1>4

\* A list is the end of another when it has the same at each place from there.
LEMMA TailFound ==
  ASSUME NEW s \in Seq(Message), NEW t \in Seq(Message), Len(t) <= Len(s),
         \A k \in 1 .. Len(t) : t[k] = s[Len(s) - Len(t) + k]
  PROVE  t = SubSeq(s, Len(s) - Len(t) + 1, Len(s))
<1>1. Len(t) \in 0 .. Len(s)
  BY ListIs
<1> DEFINE u == SubSeq(s, Len(s) - Len(t) + 1, Len(s))
<1>2. u \in Seq(Message) /\ Len(u) = Len(t) /\ \A k \in 1 .. Len(t) : u[k] = s[Len(s) - Len(t) + k]
  BY <1>1, TailIs
<1> HIDE DEF u
<1>3. t = u
  BY <1>2, SeqEqual
<1> QED BY <1>3 DEF u

\* An undo deletes the same two messages from memory and from the rows.
LEMMA UndoIs ==
  ASSUME CursorTypeOK, MemoryIsTailOfRows, StoredOK, NEW a \in PassiveTurns, UndoTurn(a),
         NEW p, p = Len(store.rows) - Len(messages) + a
  PROVE  /\ a \in 2 .. Len(messages) /\ p \in 2 .. Len(store.rows)
         /\ messages[a] = store.rows[p] /\ messages[a - 1] = store.rows[p - 1]
         /\ messages' = Closed(messages, a) /\ lastConsolidated' \in Nat
         /\ store' = [rows |-> Closed(store.rows, p), lastConsolidated |-> lastConsolidated',
                      nextSeq |-> store.nextSeq]
<1>1. a \in 2 .. Len(messages) /\ p \in 2 .. Len(store.rows)
  BY RowOf DEF PassiveTurns
<1>2. messages[a] = store.rows[p] /\ messages[a - 1] = store.rows[p - 1]
  <2>1. a \in 1 .. Len(messages) /\ a - 1 \in 1 .. Len(messages)
        /\ Len(store.rows) - Len(messages) + (a - 1) = p - 1
    BY <1>1, RowOf
  <2> QED BY <2>1, RowOf
<1>3. messages' = Closed(messages, a)
  BY <1>1, RowOf, DeletedByPosition DEF UndoTurn
<1>4. Without(store.rows, {messages[a - 1].seq, messages[a].seq}) = Closed(store.rows, p)
  <2>1. \A k, l \in 1 .. Len(store.rows) : k < l => store.rows[k].seq < store.rows[l].seq
    BY DEF StoredOK, Ascending
  <2> QED BY <1>1, <1>2, <2>1, RowOf, DeletedById
<1>5. lastConsolidated' \in Nat
  BY CursorGoesBack DEF UndoTurn, CursorTypeOK
<1>6. store' = [store EXCEPT !.rows = Closed(store.rows, p), !.lastConsolidated = lastConsolidated']
  BY <1>4 DEF UndoTurn
<1>7. store' = [rows |-> Closed(store.rows, p), lastConsolidated |-> lastConsolidated',
                nextSeq |-> store.nextSeq]
  BY <1>6 DEF CursorTypeOK
<1> QED BY <1>1, <1>2, <1>3, <1>5, <1>7

\* /undo keeps the types.
LEMMA UndoTyped ==
  ASSUME CursorTypeOK, MemoryIsTailOfRows, StoredOK, NEW a \in PassiveTurns, UndoTurn(a)
  PROVE  CursorTypeOK'
<1> DEFINE p == Len(store.rows) - Len(messages) + a
<1>1. /\ a \in 2 .. Len(messages) /\ p \in 2 .. Len(store.rows)
      /\ messages' = Closed(messages, a) /\ lastConsolidated' \in Nat
      /\ store' = [rows |-> Closed(store.rows, p), lastConsolidated |-> lastConsolidated',
                   nextSeq |-> store.nextSeq]
  BY UndoIs
<1>2. messages' \in Seq(Message) /\ Closed(store.rows, p) \in Seq(Message)
  BY <1>1, RowOf, ClosedIs
<1>3. store' \in [rows : Seq(Message), lastConsolidated : Nat, nextSeq : Nat]
  BY <1>1, <1>2 DEF CursorTypeOK
<1>4. items' \subseteq MemoryItem
  <2>1. ASSUME NEW i \in items PROVE [i EXCEPT !.active = FALSE] \in MemoryItem
    <3>1. i \in MemoryItem
      BY DEF CursorTypeOK
    <3> QED BY <3>1 DEF MemoryItem
  <2>2. ASSUME NEW j \in items' PROVE j \in items \/ \E i \in items : j = [i EXCEPT !.active = FALSE]
    BY DEF UndoTurn, Affected
  <2> QED BY <2>1, <2>2 DEF CursorTypeOK
<1>5. {messages[a - 1].uid, messages[a].uid} \subseteq 1 .. MaxMessages
  <2>1. a \in 1 .. Len(messages) /\ a - 1 \in 1 .. Len(messages)
    BY <1>1, RowOf
  <2> QED BY <2>1, RowOf, ListIs
<1>6. undone' \subseteq 1 .. MaxMessages /\ stray' \subseteq 1 .. MaxMessages
  BY <1>5 DEF UndoTurn, CursorTypeOK
<1>7. work' \in Consolidation
  <2>1. work \in Consolidation
    BY DEF CursorTypeOK
  <2> QED BY <2>1 DEF UndoTurn, Consolidation, Pending
<1>8. UNCHANGED <<turn, queue, task, journal, recorded, lost, raced>>
  BY DEF UndoTurn
<1> QED BY <1>1, <1>2, <1>3, <1>4, <1>6, <1>7, <1>8 DEF CursorTypeOK

\* The store after one of its parts was set.
LEMMA CursorSaved ==
  ASSUME CursorTypeOK, NEW c \in Nat
  PROVE  /\ [store EXCEPT !.lastConsolidated = c]
               \in [rows : Seq(Message), lastConsolidated : Nat, nextSeq : Nat]
         /\ [store EXCEPT !.lastConsolidated = c].rows = store.rows
         /\ [store EXCEPT !.lastConsolidated = c].nextSeq = store.nextSeq
         /\ [store EXCEPT !.lastConsolidated = c].lastConsolidated = c
BY DEF CursorTypeOK

\* The consolidation after one of its parts was set, or when it is over.
LEMMA WorkTyped ==
  ASSUME CursorTypeOK
  PROVE  /\ Unlocked \in Consolidation /\ [Unlocked EXCEPT !.by = "task"] \in Consolidation
         /\ Finished \in Consolidation
         /\ \A stage \in {"appended", "emit"} : [work EXCEPT !.stage = stage] \in Consolidation
         /\ \A moved \in BOOLEAN : [work EXCEPT !.moved = moved] \in Consolidation
         /\ work.uids \subseteq 1 .. MaxMessages /\ work.ref \in SUBSET Nat /\ work.upTo \in Nat
         /\ work.moved \in BOOLEAN /\ work.archive \in BOOLEAN
<1>1. work \in Consolidation
  BY DEF CursorTypeOK
<1> QED BY <1>1 DEF Unlocked, Finished, Consolidation

\* Item makes memory items.
LEMMA ItemTyped ==
  ASSUME NEW by \in {"memorize", "window", "again", "borrowed"}, NEW ref \in SUBSET Nat,
         NEW about \in SUBSET (1 .. MaxMessages)
  PROVE  Item(by, ref, about) \in MemoryItem
BY DEF Item, MemoryItem

\* and what a known row says.
LEMMA KnownRowTyped ==
  ASSUME CursorTypeOK, NEW ref \in KnownRefs, NEW named, NEW about \in SUBSET (1 .. MaxMessages)
  PROVE  InKnownRow(ref, named, about) \in MemoryItem
<1>1. ref \in SUBSET Nat
  <2>1. \A i \in items : i.ref \in SUBSET Nat
    BY DEF CursorTypeOK, MemoryItem
  <2> QED BY <2>1 DEF KnownRefs
<1> QED BY <1>1, ItemTyped DEF InKnownRow

\* What the engine does when it indexes a window.
LEMMA IndexedIs ==
  ASSUME Indexed
  PROVE  /\ items \subseteq items' /\ lost' \in {lost, lost \cup work.uids}
         /\ OwnItem \in items' \/ work.uids \subseteq lost'
         /\ \A i \in items' :
               \/ i \in items \/ i = OwnItem
               \/ \E ref \in KnownRefs : i = InKnownRow(ref, work.ref, work.uids)
<1>1. PICK own \in {{}, {OwnItem}} :
         \/ items' = items \cup own
         \/ \E ref \in KnownRefs :
               items' = items \cup own \cup {InKnownRow(ref, work.ref, work.uids)}
  BY DEF Indexed, StoredInKnownRow
<1>2. lost' = IF OwnItem \in items' THEN lost ELSE lost \cup work.uids
  BY DEF Indexed
<1> QED BY <1>1, <1>2

\* It stores memory items.
LEMMA IndexedTyped ==
  ASSUME CursorTypeOK, Indexed PROVE items' \subseteq MemoryItem /\ lost' \subseteq 1 .. MaxMessages
<1>1. OwnItem \in MemoryItem
  BY WorkTyped, ItemTyped DEF OwnItem
<1>2. ASSUME NEW ref \in KnownRefs PROVE InKnownRow(ref, work.ref, work.uids) \in MemoryItem
  BY WorkTyped, KnownRowTyped
<1>3. items' \subseteq MemoryItem
  BY <1>1, <1>2, IndexedIs DEF CursorTypeOK
<1>4. lost \subseteq 1 .. MaxMessages /\ work.uids \subseteq 1 .. MaxMessages
  BY WorkTyped DEF CursorTypeOK
<1> QED BY <1>3, <1>4, IndexedIs

\* What memorize stores.
LEMMA MemorizeIs ==
  ASSUME Memorize
  PROVE  /\ items \subseteq items'
         /\ \A i \in items' :
               \/ i \in items \/ i = Item("memorize", {turn.predicted}, {turn.uid})
               \/ \E ref \in KnownRefs : i = InKnownRow(ref, {turn.predicted}, {turn.uid})
BY DEF Memorize, StoredInKnownRow

\* A turn's steps and a push keep the types.
LEMMA TurnTyped ==
  ASSUME CursorTypeOK, StoredOK, TurnIsNew, StartTurn \/ Memorize \/ AbandonTurn \/ Push
         \/ \E skip \in BOOLEAN : Commit(skip)
  PROVE  CursorTypeOK'
<1> USE DEF conversation, maintenance, memories, histories, counters
<1>0. /\ messages \in Seq(Message) /\ store.nextSeq \in Nat /\ created \in Nat
      /\ turn.uid \in 0 .. MaxMessages
  BY DEF CursorTypeOK, StoredOK
<1>1. CASE StartTurn
  BY <1>0, <1>1, SessionConstants DEF StartTurn, CursorTypeOK, StoredOK
<1>2. CASE Memorize
  <2>1. Item("memorize", {turn.predicted}, {turn.uid}) \in MemoryItem
    <3>1. {turn.predicted} \in SUBSET Nat /\ {turn.uid} \in SUBSET (1 .. MaxMessages)
      BY <1>2, SessionConstants DEF Memorize, CursorTypeOK, TurnIsNew, StoredOK
    <3> QED BY <3>1, ItemTyped
  <2>2. ASSUME NEW ref \in KnownRefs
        PROVE  InKnownRow(ref, {turn.predicted}, {turn.uid}) \in MemoryItem
    <3>1. {turn.uid} \in SUBSET (1 .. MaxMessages)
      BY <1>2, SessionConstants DEF Memorize, TurnIsNew, StoredOK
    <3> QED BY <3>1, KnownRowTyped
  <2>3. items' \subseteq MemoryItem
    BY <1>2, <2>1, <2>2, MemorizeIs DEF CursorTypeOK
  <2>4. UNCHANGED <<messages, lastConsolidated, store, turn, queue, task, work, journal, recorded,
                    undone, stray, lost, raced>>
    BY <1>2 DEF Memorize
  <2> QED BY <2>3, <2>4 DEF CursorTypeOK
<1>3. CASE AbandonTurn
  <2>1. turn' \in [pc : {"idle", "reasoning"}, uid : 0 .. MaxMessages, predicted : Nat]
    BY <1>3, SessionConstants DEF AbandonTurn, NoTurn
  <2> QED BY <1>3, <2>1 DEF AbandonTurn, CursorTypeOK
<1>4. CASE Push
  <2>1. [uid |-> created + 1, seq |-> store.nextSeq, role |-> "push"] \in Message
    BY <1>0, <1>4, SessionConstants DEF Push, Message
  <2>2. /\ messages' \in Seq(Message)
        /\ store' \in [rows : Seq(Message), lastConsolidated : Nat, nextSeq : Nat]
    BY <1>4, <2>1, ListsOf, AppendTyped DEF Push
  <2> QED BY <1>4, <2>2 DEF Push, CursorTypeOK
<1>5. ASSUME NEW skip \in BOOLEAN, Commit(skip) PROVE CursorTypeOK'
  <2>1. /\ [uid |-> turn.uid, seq |-> store.nextSeq, role |-> "user"] \in Message
        /\ [uid |-> created + 1, seq |-> store.nextSeq + 1, role |-> "assistant"] \in Message
        /\ turn.uid \in 1 .. MaxMessages
    BY <1>0, <1>5, SessionConstants DEF Commit, Message, TurnIsNew, StoredOK
  <2>2. /\ messages' \in Seq(Message)
        /\ store' \in [rows : Seq(Message), lastConsolidated : Nat, nextSeq : Nat]
    BY <1>5, <2>1, ListsOf, AppendTyped DEF Commit
  <2>3. /\ queue' \in Nat /\ task' \in {"none", "running", "ended"}
        /\ stray' \subseteq 1 .. MaxMessages
        /\ turn' \in [pc : {"idle", "reasoning"}, uid : 0 .. MaxMessages, predicted : Nat]
    BY <1>5, <2>1, SessionConstants, SMTT(30) DEF Commit, CursorTypeOK, EnqueueMaintenance, NoTurn
  <2>4. UNCHANGED <<lastConsolidated, work, journal, items, recorded, undone, lost, raced>>
    BY <1>5 DEF Commit
  <2> QED BY <2>2, <2>3, <2>4 DEF CursorTypeOK
<1> QED BY <1>1, <1>2, <1>3, <1>4, <1>5

\* The windows that are selected are windows of the list.
LEMMA WindowsTyped ==
  ASSUME CursorTypeOK, NEW who \in {"task", "manual"}
  PROVE  /\ Window(who, 1, Len(messages), TRUE) \in Consolidation
         /\ \A force \in BOOLEAN : Selectable(force) =>
               Window(who, lastConsolidated + 1, WindowEnd(force), FALSE) \in Consolidation
<1>1. Len(messages) \in Nat
  BY ListIs DEF CursorTypeOK
<1>2. Window(who, 1, Len(messages), TRUE) \in Consolidation
  <2>1. 1 \in 1 .. Len(messages) + 1 /\ Len(messages) \in 0 .. Len(messages) /\ 1 <= Len(messages) + 1
    BY <1>1
  <2> QED BY <2>1, WindowTyped
<1>3. ASSUME NEW force \in BOOLEAN, Selectable(force)
      PROVE  Window(who, lastConsolidated + 1, WindowEnd(force), FALSE) \in Consolidation
  <2>1. /\ lastConsolidated + 1 \in 1 .. Len(messages) + 1 /\ WindowEnd(force) \in 0 .. Len(messages)
        /\ lastConsolidated + 1 <= WindowEnd(force) + 1
    BY <1>1, <1>3, SelectableIs
  <2> QED BY <2>1, WindowTyped
<1> QED BY <1>2, <1>3

\* So do the steps that select a window.
LEMMA WindowTypes ==
  ASSUME CursorTypeOK,
         \/ TaskNext \/ TaskReturn \/ TaskDone
         \/ \E force \in BOOLEAN : Manual(force, FALSE)
         \/ Manual(TRUE, TRUE)
  PROVE  CursorTypeOK'
<1> USE DEF conversation, memories, histories
<1>0. Len(messages) \in Nat /\ queue \in Nat
  BY ListIs DEF CursorTypeOK
<1>1. CASE TaskNext
  <2>1. work' \in Consolidation
    BY <1>1, WindowsTyped, WorkTyped DEF TaskNext
  <2>2. queue' \in Nat
    BY <1>0, <1>1 DEF TaskNext
  <2>3. UNCHANGED <<messages, lastConsolidated, store, turn, task, journal, items, recorded,
                    undone, stray, lost, raced>>
    BY <1>1 DEF TaskNext
  <2> QED BY <2>1, <2>2, <2>3 DEF CursorTypeOK
<1>2. CASE TaskReturn
  BY <1>2, WorkTyped DEF TaskReturn, CursorTypeOK
<1>3. CASE TaskDone
  BY <1>3 DEF TaskDone, CursorTypeOK
<1>4. ASSUME NEW force \in BOOLEAN, NEW archive \in BOOLEAN, Manual(force, archive)
      PROVE  CursorTypeOK'
  <2>1. work' \in Consolidation
    <3>1. CASE archive
      BY <1>4, <3>1, WindowsTyped DEF Manual
    <3>2. CASE ~archive
      BY <1>4, <3>2, WindowsTyped DEF Manual
    <3> QED BY <3>1, <3>2
  <2>2. UNCHANGED <<messages, lastConsolidated, store, turn, queue, task, journal, items,
                    recorded, undone, stray, lost, raced>>
    BY <1>4 DEF Manual
  <2> QED BY <2>1, <2>2 DEF CursorTypeOK
<1> QED BY <1>1, <1>2, <1>3, <1>4

\* So do the steps of a consolidation.
LEMMA ConsolidateTypes ==
  ASSUME CursorTypeOK, Consolidate \/ ManualTimeout PROVE CursorTypeOK'
<1> USE DEF conversation, memories, histories
<1>0. lastConsolidated \in Nat
  BY DEF CursorTypeOK
<1>1. CASE SkipWindow
  BY <1>1, WorkTyped DEF SkipWindow, CursorTypeOK
<1>2. CASE AppendOnce
  BY <1>2, WorkTyped DEF AppendOnce, CursorTypeOK
<1>3. CASE SetCursor
  <2>1. lastConsolidated' \in Nat /\ work' \in Consolidation /\ raced' \in BOOLEAN
    BY <1>3, WorkTyped DEF SetCursor, CursorTypeOK
  <2>2. UNCHANGED <<messages, store, turn, queue, task, journal, items, recorded, undone, stray,
                    lost>>
    BY <1>3 DEF SetCursor
  <2> QED BY <2>1, <2>2 DEF CursorTypeOK
<1>4. CASE IndexAndSave
  <2>1. /\ store' \in [rows : Seq(Message), lastConsolidated : Nat, nextSeq : Nat]
        /\ work' \in Consolidation /\ items' \subseteq MemoryItem /\ lost' \subseteq 1 .. MaxMessages
    BY <1>0, <1>4, CursorSaved, WorkTyped, IndexedTyped DEF IndexAndSave
  <2>2. UNCHANGED <<messages, lastConsolidated, turn, queue, task, journal, recorded, undone,
                    stray, raced>>
    BY <1>4 DEF IndexAndSave
  <2> QED BY <2>1, <2>2 DEF CursorTypeOK
<1>5. CASE EmitFails
  <2>1. /\ work' \in Consolidation /\ items' \subseteq MemoryItem
        /\ task' \in {"none", "running", "ended"} /\ lost' \subseteq 1 .. MaxMessages
    BY <1>5, WorkTyped, IndexedTyped DEF EmitFails, CursorTypeOK
  <2>2. UNCHANGED <<messages, lastConsolidated, store, turn, queue, journal, recorded, undone,
                    stray, raced>>
    BY <1>5 DEF EmitFails
  <2> QED BY <2>1, <2>2 DEF CursorTypeOK
<1>6. CASE ManualTimeout
  <2>1. work' \in Consolidation /\ lost' \subseteq 1 .. MaxMessages
    BY <1>6, WorkTyped DEF ManualTimeout, Unindexed, CursorTypeOK
  <2>2. UNCHANGED <<messages, lastConsolidated, store, turn, queue, task, journal, items, recorded,
                    undone, stray, raced>>
    BY <1>6 DEF ManualTimeout
  <2> QED BY <2>1, <2>2 DEF CursorTypeOK
<1> QED BY <1>1, <1>2, <1>3, <1>4, <1>5, <1>6 DEF Consolidate

\* So do a restart and a retry with less history.
LEMMA IncidentTypes ==
  ASSUME CursorTypeOK, Restart \/ \E w \in 0 .. Len(messages) : TrimHistory(w)
  PROVE  CursorTypeOK'
<1> USE DEF memories, histories
<1>1. CASE Restart
  <2>1. /\ messages' \in Seq(Message) /\ lastConsolidated' \in Nat
        /\ turn' \in [pc : {"idle", "reasoning"}, uid : 0 .. MaxMessages, predicted : Nat]
    BY <1>1, SessionConstants DEF Restart, CursorTypeOK, NoTurn
  <2>2. /\ work' \in Consolidation /\ queue' \in Nat /\ task' \in {"none", "running", "ended"}
        /\ lost' \subseteq 1 .. MaxMessages /\ raced' \in BOOLEAN
    BY <1>1, WorkTyped DEF Restart, Unindexed, CursorTypeOK
  <2>3. UNCHANGED <<store, journal, items, recorded, undone, stray>>
    BY <1>1 DEF Restart
  <2> QED BY <2>1, <2>2, <2>3 DEF CursorTypeOK
<1>2. ASSUME NEW w \in 0 .. Len(messages), TrimHistory(w) PROVE CursorTypeOK'
  <2>1. messages' \in Seq(Message)
    BY <1>2, TailIs DEF TrimHistory, CursorTypeOK
  <2>2. store' \in [rows : Seq(Message), lastConsolidated : Nat, nextSeq : Nat]
    BY <1>2, CursorSaved DEF TrimHistory
  <2>3. work' \in Consolidation
    BY <1>2, WorkTyped DEF TrimHistory, Pending
  <2>4. UNCHANGED <<turn, queue, task, journal, items, recorded, undone, stray, lost, raced>>
        /\ lastConsolidated' = 0
    BY <1>2 DEF TrimHistory
  <2> QED BY <2>1, <2>2, <2>3, <2>4 DEF CursorTypeOK
<1> QED BY <1>1, <1>2

-----------------------------------------------------------------------------
(* The list in memory and the rows                                           *)

\* The lists after messages were added to both.
LEMMA AppendIs ==
  ASSUME CursorTypeOK, NEW new \in Seq(Message), AppendMessages(new)
  PROVE  /\ Len(new) \in Nat
         /\ Len(messages') = Len(messages) + Len(new) /\ Len(store.rows') = Len(store.rows) + Len(new)
         /\ \A k \in 1 .. Len(messages) : messages'[k] = messages[k]
         /\ \A k \in 1 .. Len(new) : messages'[Len(messages) + k] = new[k]
         /\ \A k \in 1 .. Len(store.rows) : store.rows'[k] = store.rows[k]
         /\ \A k \in 1 .. Len(new) : store.rows'[Len(store.rows) + k] = new[k]
         /\ store.nextSeq' = store.nextSeq + Len(new)
         /\ store.lastConsolidated' = lastConsolidated
<1>0. ASSUME NEW s \in Seq(Message)
      PROVE  /\ Len(s \o new) = Len(s) + Len(new)
             /\ \A k \in 1 .. Len(s) : (s \o new)[k] = s[k]
             /\ \A k \in 1 .. Len(new) : (s \o new)[Len(s) + k] = new[k]
  <2>1. Len(s) \in Nat /\ Len(new) \in Nat
    BY ListIs
  <2> QED BY <2>1, JoinIs
<1>1. /\ messages \in Seq(Message) /\ store.rows \in Seq(Message)
      /\ messages' = messages \o new /\ store.rows' = store.rows \o new
      /\ store.nextSeq' = store.nextSeq + Len(new)
      /\ store.lastConsolidated' = lastConsolidated
  BY DEF CursorTypeOK, AppendMessages
<1>2. Len(new) \in Nat
  BY ListIs
<1> QED BY <1>0, <1>1, <1>2

\* One list is the end of another, d places later.
EndAt(t, s, d) == Len(s) = Len(t) + d /\ \A k \in 1 .. Len(t) : t[k] = s[k + d]

\* A list that is d rows shorter and agrees with the rows' end is cut from them.
LEMMA EndFound ==
  ASSUME NEW s \in Seq(Message), NEW t \in Seq(Message), NEW d \in Nat, EndAt(t, s, d)
  PROVE  Len(t) <= Len(s) /\ t = SubSeq(s, Len(s) - Len(t) + 1, Len(s))
<1>1. Len(s) \in Nat /\ Len(t) \in Nat
  BY ListIs
<1>2. Len(s) = Len(t) + d
  BY DEF EndAt
<1>3. Len(t) <= Len(s) /\ Len(s) - Len(t) = d
  BY <1>1, <1>2
<1>4. ASSUME NEW k \in 1 .. Len(t) PROVE t[k] = s[Len(s) - Len(t) + k]
  <2>1. k + d = Len(s) - Len(t) + k
    BY <1>1, <1>2
  <2>2. t[k] = s[k + d]
    BY DEF EndAt
  <2> QED BY <2>1, <2>2, Zenon
<1> QED BY <1>3, <1>4, TailFound

\* The list in memory is such an end.
LEMMA MemoryEndsRows ==
  ASSUME CursorTypeOK, MemoryIsTailOfRows
  PROVE  \E d \in Nat : d = Len(store.rows) - Len(messages) /\ EndAt(messages, store.rows, d)
<1>1. PICK m \in Nat : m = Len(messages)
  BY RowOf
<1>2. PICK n \in Nat : n = Len(store.rows)
  BY RowOf
<1>3. n - m \in Nat /\ n = m + (n - m)
  BY <1>1, <1>2, RowOf
<1>4. ASSUME NEW k \in 1 .. m PROVE messages[k] = store.rows[k + (n - m)]
  <2>1. k + (n - m) = n - m + k
    BY <1>1, <1>2
  <2>2. messages[k] = store.rows[n - m + k]
    BY <1>1, <1>2, RowOf
  <2> QED BY <2>1, <2>2, Zenon
<1>5. EndAt(messages, store.rows, n - m)
  BY <1>1, <1>2, <1>3, <1>4 DEF EndAt
<1> QED BY <1>1, <1>2, <1>3, <1>5

\* It stays one when both get the same new messages,
LEMMA EndAfterAppend ==
  ASSUME NEW s \in Seq(Message), NEW t \in Seq(Message), NEW d \in Nat, EndAt(t, s, d),
         NEW new \in Seq(Message)
  PROVE  EndAt(t \o new, s \o new, d)
<1>1. PICK m \in Nat : m = Len(t)
  BY ListIs
<1>2. PICK n \in Nat : n = Len(new)
  BY ListIs
<1>3. PICK e \in Nat : e = Len(s)
  BY ListIs
<1>4. e = m + d /\ \A k \in 1 .. m : t[k] = s[k + d]
  BY <1>1, <1>3 DEF EndAt
<1>5. /\ Len(t \o new) = m + n
      /\ \A k \in 1 .. m + n : (t \o new)[k] = IF k <= m THEN t[k] ELSE new[k - m]
  BY <1>1, <1>2, JoinIs
<1>6. /\ Len(s \o new) = e + n
      /\ \A k \in 1 .. e + n : (s \o new)[k] = IF k <= e THEN s[k] ELSE new[k - e]
  BY <1>2, <1>3, JoinIs
<1>7. ASSUME NEW k \in 1 .. m + n PROVE (t \o new)[k] = (s \o new)[k + d]
  <2>1. PICK j \in 1 .. e + n : j = k + d
    BY <1>4
  <2>2. (j <= e <=> k <= m) /\ j - e = k - m
    BY <1>4, <2>1
  <2>3. CASE k <= m
    <3>1. (t \o new)[k] = t[k] /\ (s \o new)[j] = s[j]
      BY <1>5, <1>6, <2>2, <2>3
    <3>2. t[k] = s[j]
      BY <1>4, <2>1, <2>3
    <3> QED BY <2>1, <3>1, <3>2
  <2>4. CASE ~(k <= m)
    <3>1. (t \o new)[k] = new[k - m]
      BY <1>5, <2>4
    <3>2. (s \o new)[j] = new[j - e]
      BY <1>6, <2>2, <2>4
    <3> QED BY <2>1, <2>2, <3>1, <3>2
  <2> QED BY <2>3, <2>4
<1>8. Len(s \o new) = Len(t \o new) + d
  BY <1>4, <1>5, <1>6
<1> QED BY <1>5, <1>7, <1>8 DEF EndAt

\* when the same two are deleted from both,
LEMMA EndAfterClosing ==
  ASSUME NEW s \in Seq(Message), NEW t \in Seq(Message), NEW d \in Nat, EndAt(t, s, d),
         NEW a \in 2 .. Len(t)
  PROVE  EndAt(Closed(t, a), Closed(s, a + d), d)
<1>1. PICK m \in Nat : m = Len(t)
  BY ListIs
<1>2. Len(s) = m + d /\ (\A k \in 1 .. m : t[k] = s[k + d]) /\ a \in 2 .. m
  BY <1>1 DEF EndAt
<1>3. PICK p \in 2 .. Len(s) : p = a + d
  BY <1>2
<1>4. /\ Len(Closed(t, a)) = m - 2
      /\ \A k \in 1 .. m - 2 : Closed(t, a)[k] = IF k <= a - 2 THEN t[k] ELSE t[k + 2]
  BY <1>1, ClosedIs
<1>5. /\ Len(Closed(s, a + d)) = m + d - 2
      /\ \A k \in 1 .. m + d - 2 :
            Closed(s, a + d)[k] = IF k <= a + d - 2 THEN s[k] ELSE s[k + 2]
  <2>1. /\ Len(Closed(s, p)) = Len(s) - 2
        /\ \A k \in 1 .. Len(s) - 2 : Closed(s, p)[k] = IF k <= p - 2 THEN s[k] ELSE s[k + 2]
    BY ClosedIs
  <2>2. Len(s) - 2 = m + d - 2
    BY <1>2
  <2> QED BY <1>3, <2>1, <2>2
<1>6. ASSUME NEW k \in 1 .. m - 2 PROVE Closed(t, a)[k] = Closed(s, a + d)[k + d]
  <2>1. /\ k + d \in 1 .. m + d - 2 /\ (k + d <= a + d - 2 <=> k <= a - 2)
        /\ k \in 1 .. m /\ k + 2 \in 1 .. m /\ k + d + 2 = k + 2 + d
    BY <1>2
  <2>2. t[k] = s[k + d] /\ t[k + 2] = s[k + 2 + d]
    BY <1>2, <2>1
  <2>3. CASE k <= a - 2
    BY <1>4, <1>5, <2>1, <2>2, <2>3
  <2>4. CASE ~(k <= a - 2)
    BY <1>4, <1>5, <2>1, <2>2, <2>4
  <2> QED BY <2>3, <2>4
<1> QED BY <1>2, <1>4, <1>5, <1>6 DEF EndAt

\* and when it is cut at the front.
LEMMA EndAfterTrim ==
  ASSUME NEW s \in Seq(Message), NEW t \in Seq(Message), NEW d \in Nat, EndAt(t, s, d),
         NEW w \in 0 .. Len(t)
  PROVE  EndAt(SubSeq(t, Len(t) - w + 1, Len(t)), s, d + (Len(t) - w)) /\ d + (Len(t) - w) \in Nat
<1>1. PICK m \in Nat : m = Len(t)
  BY ListIs
<1>2. Len(s) = m + d /\ (\A k \in 1 .. m : t[k] = s[k + d]) /\ w \in 0 .. m
  BY <1>1 DEF EndAt
<1> DEFINE u == SubSeq(t, m - w + 1, m)
<1>3. Len(u) = w /\ \A k \in 1 .. w : u[k] = t[m - w + k]
  BY <1>1, <1>2, TailIs
<1> HIDE DEF u
<1>4. ASSUME NEW k \in 1 .. w PROVE u[k] = s[k + (d + (m - w))]
  <2>1. m - w + k \in 1 .. m /\ m - w + k + d = k + (d + (m - w))
    BY <1>2
  <2> QED BY <1>2, <1>3, <2>1
<1>a. Len(s) = w + (d + (m - w))
  BY <1>2
<1>5. EndAt(u, s, d + (m - w))
  BY <1>3, <1>4, <1>a DEF EndAt
<1>6. d + (m - w) \in Nat
  BY <1>2
<1> QED BY <1>1, <1>5, <1>6 DEF u

\* The same, of the actions: a turn or a push,
LEMMA TailAfterAppend ==
  ASSUME CursorTypeOK, MemoryIsTailOfRows, CursorTypeOK',
         NEW new \in Seq(Message), AppendMessages(new)
  PROVE  MemoryIsTailOfRows'
<1>1. PICK d \in Nat : EndAt(messages, store.rows, d)
  BY MemoryEndsRows
<1>2. messages' = messages \o new /\ store.rows' = store.rows \o new
  BY DEF AppendMessages
<1>3. EndAt(messages', store.rows', d)
  BY <1>1, <1>2, RowOf, EndAfterAppend
<1>4. messages' \in Seq(Message) /\ store.rows' \in Seq(Message)
  BY DEF CursorTypeOK
<1> QED BY <1>3, <1>4, EndFound DEF MemoryIsTailOfRows

\* /undo, which deletes by position here and by id there,
LEMMA TailAfterUndo ==
  ASSUME CursorTypeOK, MemoryIsTailOfRows, StoredOK, CursorTypeOK',
         NEW a \in PassiveTurns, UndoTurn(a)
  PROVE  MemoryIsTailOfRows'
<1>1. PICK d \in Nat : d = Len(store.rows) - Len(messages) /\ EndAt(messages, store.rows, d)
  BY MemoryEndsRows
<1>2. a + d = Len(store.rows) - Len(messages) + a
  BY <1>1, RowOf DEF PassiveTurns
<1>3. a \in 2 .. Len(messages) /\ messages' = Closed(messages, a) /\ store.rows' = Closed(store.rows, a + d)
  BY <1>2, UndoIs
<1>4. EndAt(messages', store.rows', d)
  BY <1>1, <1>3, RowOf, EndAfterClosing
<1>5. messages' \in Seq(Message) /\ store.rows' \in Seq(Message)
  BY DEF CursorTypeOK
<1> QED BY <1>4, <1>5, EndFound DEF MemoryIsTailOfRows

\* a restart and a retry with less history.
LEMMA TailAfterIncident ==
  ASSUME CursorTypeOK, MemoryIsTailOfRows, CursorTypeOK',
         Restart \/ \E w \in 0 .. Len(messages) : TrimHistory(w)
  PROVE  MemoryIsTailOfRows'
<1>0. messages' \in Seq(Message) /\ store.rows' \in Seq(Message)
  BY DEF CursorTypeOK
<1>1. CASE Restart
  <2>1. messages' = store.rows'
    BY <1>1 DEF Restart
  <2>2. EndAt(messages', store.rows', 0)
    BY <1>0, <2>1, ListIs DEF EndAt
  <2> QED BY <1>0, <2>2, EndFound DEF MemoryIsTailOfRows
<1>2. ASSUME NEW w \in 0 .. Len(messages), TrimHistory(w) PROVE MemoryIsTailOfRows'
  <2>1. PICK d \in Nat : EndAt(messages, store.rows, d)
    BY MemoryEndsRows
  <2>2. store.rows' = store.rows /\ messages' = SubSeq(messages, Len(messages) - w + 1, Len(messages))
    BY <1>2, CursorSaved DEF TrimHistory
  <2>3. \E e \in Nat : EndAt(messages', store.rows', e)
    BY <2>1, <2>2, RowOf, EndAfterTrim
  <2> QED BY <1>0, <2>3, EndFound DEF MemoryIsTailOfRows
<1> QED BY <1>1, <1>2

-----------------------------------------------------------------------------
(* What is stored                                                            *)

\* A place in a joined list is one of the first or one of the second.
Joined(u, s, t, n, m) ==
    /\ Len(u) = n + m
    /\ \A k \in 1 .. n : u[k] = s[k]
    /\ \A k \in 1 .. m : u[n + k] = t[k]
    /\ \A k \in 1 .. n + m : k \in 1 .. n \/ \E j \in 1 .. m : k = n + j

\* Where the elements of two joined lists are.
LEMMA JoinedPlaces ==
  ASSUME NEW s \in Seq(Message), NEW t \in Seq(Message)
  PROVE  \E n \in Nat : \E m \in Nat : n = Len(s) /\ m = Len(t) /\ Joined(s \o t, s, t, n, m)
<1>0. PICK n, m : n = Len(s) /\ m = Len(t)
  OBVIOUS
<1>1. n \in Nat /\ m \in Nat
  BY <1>0, ListIs
<1>2. /\ s \o t \in Seq(Message) /\ Len(s \o t) = n + m
      /\ \A k \in 1 .. n + m : (s \o t)[k] = IF k <= n THEN s[k] ELSE t[k - n]
  BY <1>0, JoinIs
<1>3. ASSUME NEW k \in 1 .. n PROVE (s \o t)[k] = s[k]
  BY <1>1, <1>2
<1>4. ASSUME NEW k \in 1 .. m PROVE (s \o t)[n + k] = t[k]
  <2>1. PICK l \in 1 .. n + m : l = n + k /\ ~(l <= n) /\ l - n = k
    BY <1>1
  <2> QED BY <1>2, <2>1
<1>5. ASSUME NEW k \in 1 .. n + m, k \notin 1 .. n PROVE \E j \in 1 .. m : k = n + j
  <2>1. k - n \in 1 .. m /\ k = n + (k - n)
    BY <1>1, <1>5
  <2> QED BY <2>1
<1>6. Joined(s \o t, s, t, n, m)
  BY <1>2, <1>3, <1>4, <1>5 DEF Joined
<1> QED BY <1>0, <1>1, <1>6

\* Joining keeps ids below the next ones,
LEMMA JoinedBelow ==
  ASSUME NEW s \in Seq(Message), NEW t \in Seq(Message), NEW top \in Nat, NEW next \in Nat,
         NEW top2 \in Nat, NEW next2 \in Nat, top <= top2, next <= next2,
         Below(s, top, next), Below(t, top2, next2)
  PROVE  Below(s \o t, top2, next2)
<1>0. PICK n \in Nat : \E m \in Nat : n = Len(s) /\ m = Len(t) /\ Joined(s \o t, s, t, n, m)
  BY JoinedPlaces
<1>1. PICK m \in Nat : n = Len(s) /\ m = Len(t) /\ Joined(s \o t, s, t, n, m)
  BY <1>0
<1>2. ASSUME NEW k \in 1 .. n PROVE (s \o t)[k].uid <= top2 /\ (s \o t)[k].seq < next2
  <2>1. (s \o t)[k] = s[k]
    BY <1>1 DEF Joined
  <2>2. s[k].uid \in Nat /\ s[k].seq \in Nat /\ s[k].uid <= top /\ s[k].seq < next
    BY <1>1, ListIs, SessionConstants DEF Below
  <2>3. s[k].uid <= top2 /\ s[k].seq < next2
    BY <2>2
  <2> QED BY <2>1, <2>3
<1>3. ASSUME NEW k \in 1 .. m PROVE (s \o t)[n + k].uid <= top2 /\ (s \o t)[n + k].seq < next2
  <2>1. (s \o t)[n + k] = t[k]
    BY <1>1 DEF Joined
  <2>2. t[k].uid <= top2 /\ t[k].seq < next2
    BY <1>1 DEF Below
  <2> QED BY <2>1, <2>2
<1>4. Len(s \o t) = n + m /\ \A k \in 1 .. n + m : k \in 1 .. n \/ \E j \in 1 .. m : k = n + j
  BY <1>1 DEF Joined
<1>5. ASSUME NEW k \in 1 .. n + m PROVE (s \o t)[k].uid <= top2 /\ (s \o t)[k].seq < next2
  BY <1>2, <1>3, <1>4
<1> QED BY <1>4, <1>5 DEF Below

\* in order if the second list is all after the first,
LEMMA JoinedAscending ==
  ASSUME NEW s \in Seq(Message), NEW t \in Seq(Message), NEW top \in Nat, NEW next \in Nat,
         Below(s, top, next), Ascending(s), Ascending(t),
         \A k \in 1 .. Len(t) : t[k].seq >= next,
         \A k \in 1 .. Len(s), l \in 1 .. Len(t) : s[k].uid # t[l].uid
  PROVE  Ascending(s \o t)
<1>0. PICK n \in Nat : \E m \in Nat : n = Len(s) /\ m = Len(t) /\ Joined(s \o t, s, t, n, m)
  BY JoinedPlaces
<1>1. PICK m \in Nat : n = Len(s) /\ m = Len(t) /\ Joined(s \o t, s, t, n, m)
  BY <1>0
<1> DEFINE u == s \o t
<1>2. /\ n \in Nat /\ m \in Nat /\ Len(u) = n + m
      /\ \A k \in 1 .. n : u[k] = s[k]
      /\ \A k \in 1 .. m : u[n + k] = t[k]
      /\ \A k \in 1 .. n + m : k \in 1 .. n \/ \E j \in 1 .. m : k = n + j
  BY <1>1 DEF Joined
<1> HIDE DEF u
<1>3. ASSUME NEW k \in 1 .. n, NEW l \in 1 .. n, k < l
      PROVE  u[k].seq < u[l].seq /\ u[k].uid # u[l].uid
  <2>1. s[k].seq < s[l].seq /\ s[k].uid # s[l].uid
    BY <1>1, <1>3 DEF Ascending
  <2> QED BY <1>2, <2>1
<1>4. ASSUME NEW k \in 1 .. n, NEW j \in 1 .. m
      PROVE  u[k].seq < u[n + j].seq /\ u[k].uid # u[n + j].uid
  <2>1. s[k].seq < next /\ t[j].seq >= next /\ s[k].uid # t[j].uid
    BY <1>1 DEF Below
  <2>2. s[k].seq \in Nat /\ t[j].seq \in Nat
    BY <1>1, ListIs
  <2>3. s[k].seq < t[j].seq
    <3>1. PICK x \in Nat, y \in Nat : x = s[k].seq /\ y = t[j].seq
      BY <2>2
    <3>2. x < next /\ y >= next
      BY <2>1, <3>1
    <3> QED BY <3>1, <3>2
  <2> QED BY <1>2, <2>1, <2>3
<1>5. ASSUME NEW i \in 1 .. m, NEW j \in 1 .. m, n + i < n + j
      PROVE  u[n + i].seq < u[n + j].seq /\ u[n + i].uid # u[n + j].uid
  <2>1. i < j
    BY <1>2, <1>5
  <2>2. t[i].seq < t[j].seq /\ t[i].uid # t[j].uid
    BY <1>1, <2>1 DEF Ascending
  <2> QED BY <1>2, <2>2
<1>6. ASSUME NEW k \in 1 .. n + m, NEW l \in 1 .. n + m, k < l
      PROVE  u[k].seq < u[l].seq /\ u[k].uid # u[l].uid
  <2>1. CASE k \in 1 .. n /\ l \in 1 .. n
    BY <1>3, <1>6, <2>1
  <2>2. CASE k \in 1 .. n /\ l \notin 1 .. n
    <3>1. PICK j \in 1 .. m : l = n + j
      BY <1>2, <2>2
    <3> QED BY <1>4, <2>2, <3>1
  <2>3. CASE k \notin 1 .. n
    <3>1. l \notin 1 .. n
      BY <1>2, <1>6, <2>3
    <3>2. PICK i \in 1 .. m : k = n + i
      BY <1>2, <2>3
    <3>3. PICK j \in 1 .. m : l = n + j
      BY <1>2, <3>1
    <3> QED BY <1>5, <1>6, <3>2, <3>3
  <2> QED BY <2>1, <2>2, <2>3
<1> QED BY <1>2, <1>6 DEF Ascending, u

\* and replies after the messages they answer.
LEMMA JoinedAnswered ==
  ASSUME NEW s \in Seq(Message), NEW t \in Seq(Message), Answered(s), Answered(t)
  PROVE  Answered(s \o t)
<1>0. PICK n \in Nat : \E m \in Nat : n = Len(s) /\ m = Len(t) /\ Joined(s \o t, s, t, n, m)
  BY JoinedPlaces
<1>1. PICK m \in Nat : n = Len(s) /\ m = Len(t) /\ Joined(s \o t, s, t, n, m)
  BY <1>0
<1> DEFINE u == s \o t
<1>2. /\ n \in Nat /\ m \in Nat /\ Len(u) = n + m
      /\ \A k \in 1 .. n : u[k] = s[k]
      /\ \A k \in 1 .. m : u[n + k] = t[k]
      /\ \A k \in 1 .. n + m : k \in 1 .. n \/ \E j \in 1 .. m : k = n + j
  BY <1>1 DEF Joined
<1> HIDE DEF u
<1>3. ASSUME NEW k \in 1 .. n, u[k].role = "user"
      PROVE  k < n + m /\ u[k + 1].role = "assistant"
  <2>1. k < n /\ s[k + 1].role = "assistant"
    BY <1>1, <1>2, <1>3 DEF Answered
  <2>2. k + 1 \in 1 .. n /\ k < n + m
    BY <1>2, <2>1
  <2> QED BY <1>2, <2>1, <2>2
<1>4. ASSUME NEW j \in 1 .. m, u[n + j].role = "user"
      PROVE  n + j < n + m /\ u[n + j + 1].role = "assistant"
  <2>1. j < m /\ t[j + 1].role = "assistant"
    BY <1>1, <1>2, <1>4 DEF Answered
  <2>2. j + 1 \in 1 .. m /\ n + (j + 1) = n + j + 1 /\ n + j < n + m
    BY <1>2, <2>1
  <2>3. u[n + (j + 1)] = t[j + 1]
    BY <1>2, <2>2
  <2> QED BY <2>1, <2>2, <2>3
<1>5. ASSUME NEW k \in 1 .. n + m, u[k].role = "user"
      PROVE  k < n + m /\ u[k + 1].role = "assistant"
  BY <1>2, <1>3, <1>4, <1>5
<1> QED BY <1>2, <1>5 DEF Answered, u

\* What is left was there before, and only the two are not.
LEMMA ClosedPlaces ==
  ASSUME NEW s \in Seq(Message), NEW p \in 2 .. Len(s)
  PROVE  /\ \A k \in 1 .. Len(Closed(s, p)) :
               \E l \in 1 .. Len(s) : /\ Closed(s, p)[k] = s[l] /\ l # p - 1 /\ l # p
                                      /\ l = IF k <= p - 2 THEN k ELSE k + 2
         /\ Len(Closed(s, p)) = Len(s) - 2
<1>1. PICK n \in Nat : n = Len(s) /\ p \in 2 .. n
  BY ListIs
<1> DEFINE u == Closed(s, p)
<1>2. Len(u) = n - 2 /\ \A k \in 1 .. n - 2 : u[k] = IF k <= p - 2 THEN s[k] ELSE s[k + 2]
  BY <1>1, ClosedIs
<1> HIDE DEF u
<1>3. ASSUME NEW k \in 1 .. n - 2
      PROVE  \E l \in 1 .. n : /\ u[k] = s[l] /\ l # p - 1 /\ l # p
                               /\ l = IF k <= p - 2 THEN k ELSE k + 2
  <2>1. CASE k <= p - 2
    <3>1. k \in 1 .. n /\ u[k] = s[k] /\ k # p - 1 /\ k # p
      BY <1>1, <1>2, <2>1
    <3> QED BY <2>1, <3>1
  <2>2. CASE ~(k <= p - 2)
    <3>1. k + 2 \in 1 .. n /\ u[k] = s[k + 2] /\ k + 2 # p - 1 /\ k + 2 # p
      BY <1>1, <1>2, <2>2
    <3> QED BY <2>2, <3>1
  <2> QED BY <2>1, <2>2
<1> QED BY <1>1, <1>2, <1>3 DEF u

\* What is left keeps its order and its neighbours.
LEMMA ClosedStored ==
  ASSUME NEW s \in Seq(Message), NEW p \in 2 .. Len(s), NEW top \in Nat, NEW next \in Nat,
         Below(s, top, next), Ascending(s), Answered(s), s[p - 1].role = "user"
  PROVE  Below(Closed(s, p), top, next) /\ Ascending(Closed(s, p)) /\ Answered(Closed(s, p))
<1>1. PICK n \in Nat : n = Len(s) /\ p \in 2 .. n
  BY ListIs
<1> DEFINE u == Closed(s, p)
<1>2. Len(u) = n - 2 /\ \A k \in 1 .. n - 2 : u[k] = IF k <= p - 2 THEN s[k] ELSE s[k + 2]
  BY <1>1, ClosedIs
<1> HIDE DEF u
<1>a. ASSUME NEW k \in 1 .. n - 2
      PROVE  \E i \in 1 .. n : u[k] = s[i] /\ i = IF k <= p - 2 THEN k ELSE k + 2
  BY <1>1, <1>2, ClosedPlaces DEF u
<1>3. ASSUME NEW k \in 1 .. n - 2 PROVE u[k].uid <= top /\ u[k].seq < next
  <2>1. PICK l \in 1 .. n : u[k] = s[l]
    BY <1>a
  <2> QED BY <1>1, <2>1 DEF Below
<1>4. ASSUME NEW k \in 1 .. n - 2, NEW l \in 1 .. n - 2, k < l
      PROVE  u[k].seq < u[l].seq /\ u[k].uid # u[l].uid
  <2>1. PICK i \in 1 .. n : u[k] = s[i] /\ i = IF k <= p - 2 THEN k ELSE k + 2
    BY <1>a
  <2>2. PICK j \in 1 .. n : u[l] = s[j] /\ j = IF l <= p - 2 THEN l ELSE l + 2
    BY <1>a
  <2>3. i < j
    BY <1>1, <1>4, <2>1, <2>2
  <2>4. s[i].seq < s[j].seq /\ s[i].uid # s[j].uid
    BY <1>1, <2>3 DEF Ascending
  <2> QED BY <2>1, <2>2, <2>4
<1>5. ASSUME NEW k \in 1 .. n - 2, u[k].role = "user"
      PROVE  k < n - 2 /\ u[k + 1].role = "assistant"
  <2>1. CASE k <= p - 2
    <3>1. u[k] = s[k] /\ k \in 1 .. n
      BY <1>2, <2>1
    <3>2. s[k + 1].role = "assistant"
      BY <1>1, <1>5, <3>1 DEF Answered
    <3>3. k + 1 # p - 1
      BY <3>2
    <3>4. k + 1 <= p - 2 /\ k + 1 \in 1 .. n - 2 /\ k < n - 2
      BY <1>1, <2>1, <3>3
    <3> QED BY <1>2, <3>2, <3>4
  <2>2. CASE ~(k <= p - 2)
    <3>1. u[k] = s[k + 2] /\ k + 2 \in 1 .. n
      BY <1>2, <2>2
    <3>2. k + 2 < n /\ s[k + 2 + 1].role = "assistant"
      BY <1>1, <1>5, <3>1 DEF Answered
    <3>3. k + 1 \in 1 .. n - 2 /\ ~(k + 1 <= p - 2) /\ k + 1 + 2 = k + 2 + 1
      BY <1>1, <2>2, <3>2
    <3>4. u[k + 1] = s[k + 2 + 1]
      BY <1>2, <3>3
    <3> QED BY <3>2, <3>3, <3>4
  <2> QED BY <2>1, <2>2
<1> QED BY <1>2, <1>3, <1>4, <1>5 DEF u, Below, Ascending, Answered

\* /undo leaves rows in order and replies answered.
LEMMA StoredAfterUndo ==
  ASSUME CursorTypeOK, MemoryIsTailOfRows, StoredOK, NEW a \in PassiveTurns, UndoTurn(a)
  PROVE  StoredOK'
<1>1. PICK p : p = Len(store.rows) - Len(messages) + a
  OBVIOUS
<1>2. /\ p \in 2 .. Len(store.rows) /\ store.rows[p - 1] = messages[a - 1]
      /\ store.rows' = Closed(store.rows, p) /\ store.nextSeq' = store.nextSeq
  BY <1>1, UndoIs
<1>3. store.rows[p - 1].role = "user" /\ created' = created
  BY <1>2 DEF PassiveTurns, UndoTurn, counters
<1>4. store.rows \in Seq(Message) /\ store.nextSeq \in Nat /\ created \in Nat
  BY SessionConstants DEF CursorTypeOK, StoredOK
<1>5. /\ Below(Closed(store.rows, p), created, store.nextSeq) /\ Ascending(Closed(store.rows, p))
      /\ Answered(Closed(store.rows, p))
  BY <1>2, <1>3, <1>4, ClosedStored DEF StoredOK
<1> QED BY <1>2, <1>3, <1>5 DEF StoredOK

\* One new message, or the two of a turn.
LEMMA NewPush ==
  ASSUME NEW m \in Message, NEW top \in Nat, NEW next \in Nat,
         m.uid <= top, m.seq < next, m.role # "user"
  PROVE  Below(<<m>>, top, next) /\ Ascending(<<m>>) /\ Answered(<<m>>)
BY ListsOf DEF Below, Ascending, Answered

\* The two messages of a turn are in order.
LEMMA NewTurn ==
  ASSUME NEW m \in Message, NEW n \in Message, NEW top \in Nat, NEW next \in Nat,
         m.uid <= top, m.seq < next, n.uid <= top, n.seq < next, n.role = "assistant",
         m.seq < n.seq, m.uid # n.uid
  PROVE  Below(<<m, n>>, top, next) /\ Ascending(<<m, n>>) /\ Answered(<<m, n>>)
<1> DEFINE s == <<m, n>>
<1>1. Len(s) = 2 /\ s[1] = m /\ s[2] = n
  BY ListsOf
<1> HIDE DEF s
<1>2. \A k \in 1 .. 2 : k = 1 \/ k = 2
  OBVIOUS
<1> QED BY <1>1, <1>2 DEF Below, Ascending, Answered, s

\* Rows stay in order when newer messages are appended.
LEMMA StoredAfterAppend ==
  ASSUME CursorTypeOK, StoredOK, NEW new \in Seq(Message), AppendMessages(new),
         created' \in 0 .. MaxMessages, created <= created',
         Below(new, created', store.nextSeq'), Ascending(new), Answered(new),
         \A k \in 1 .. Len(new) : new[k].seq >= store.nextSeq,
         \A k \in 1 .. Len(store.rows), l \in 1 .. Len(new) : store.rows[k].uid # new[l].uid
  PROVE  StoredOK'
<1>1. /\ store.rows \in Seq(Message) /\ store.nextSeq \in Nat /\ created \in Nat /\ created' \in Nat
      /\ store.rows' = store.rows \o new /\ store.nextSeq' = store.nextSeq + Len(new)
  BY SessionConstants DEF CursorTypeOK, StoredOK, AppendMessages
<1>2. store.nextSeq' \in Nat /\ store.nextSeq <= store.nextSeq'
  BY <1>1, ListIs
<1>3. Below(store.rows \o new, created', store.nextSeq')
  BY <1>1, <1>2, JoinedBelow DEF StoredOK
<1>4. Ascending(store.rows \o new)
  BY <1>1, JoinedAscending DEF StoredOK
<1>5. Answered(store.rows \o new)
  BY <1>1, JoinedAnswered DEF StoredOK
<1> QED BY <1>1, <1>3, <1>4, <1>5 DEF StoredOK

-----------------------------------------------------------------------------
(* What a step does to the ids                                               *)

\* A message that was not stored before: later than all others, and either
\* created by this step or the one of the turn that ends with it.
IsNew(m) ==
    /\ m.uid \in Nat /\ m.seq \in Nat
    /\ m.seq >= store.nextSeq
    /\ \/ m.uid > created
       \/ /\ turn.pc = "reasoning" /\ turn'.pc = "idle" /\ m.uid = turn.uid
          /\ m.seq = turn.predicted \/ turn.uid \in stray'

\* A step stores new messages only, and forgets no history.
Follows ==
    /\ created \in Nat /\ created' \in Nat /\ store.nextSeq \in Nat /\ store.nextSeq' \in Nat
    /\ turn.uid \in Nat /\ turn'.uid \in Nat
    /\ created <= created' /\ store.nextSeq <= store.nextSeq'
    /\ stray \subseteq stray' /\ recorded \subseteq recorded'
    /\ \A k \in 1 .. Len(store.rows') :
          \/ \E l \in 1 .. Len(store.rows) : store.rows'[k] = store.rows[l]
          \/ IsNew(store.rows'[k])
    /\ turn'.pc = "reasoning" =>
          \/ turn' = turn
          \/ turn'.uid > created /\ turn'.uid <= created' /\ store' = store /\ undone' = undone

\* What can be said of one row.
LEMMA RowsAre ==
  ASSUME CursorTypeOK, StoredOK
  PROVE  /\ store.rows \in Seq(Message) /\ Len(store.rows) \in Nat
         /\ store.nextSeq \in Nat /\ created \in Nat
         /\ \A k \in 1 .. Len(store.rows) :
               /\ store.rows[k] \in Message
               /\ store.rows[k].uid \in Nat /\ store.rows[k].seq \in Nat
               /\ store.rows[k].uid <= created /\ store.rows[k].seq < store.nextSeq
<1>1. store.rows \in Seq(Message) /\ store.nextSeq \in Nat /\ created \in Nat
  BY SessionConstants DEF CursorTypeOK, StoredOK
<1>2. \A k \in 1 .. Len(store.rows) : store.rows[k].uid <= created /\ store.rows[k].seq < store.nextSeq
  BY DEF StoredOK, Below
<1> QED BY <1>1, <1>2, ListIs, SessionConstants

\* What a window names and what it is about stay the same rows,
LEMMA WindowStays ==
  ASSUME CursorTypeOK, StoredOK, Follows, NEW ref \in SUBSET Nat, NEW about \in SUBSET Nat, WindowOf(ref, about)
  PROVE  WindowOf(ref, about)'
<1>1. /\ \A q \in ref : q < store.nextSeq
      /\ \A u \in about : 1 <= u /\ u <= created
  BY DEF WindowOf
<1>2. /\ store.nextSeq \in Nat /\ created \in Nat /\ \A q \in ref : q \in Nat
      /\ \A u \in about : u \in Nat
      /\ store.nextSeq' \in Nat /\ created' \in Nat /\ turn.uid \in Nat /\ turn'.uid \in Nat
  BY DEF Follows
<1>3. \A q \in ref : q < store.nextSeq'
  BY <1>1, <1>2 DEF Follows
<1>4. \A u \in about : 1 <= u /\ u <= created'
  BY <1>1, <1>2 DEF Follows
<1>5. ASSUME NEW m, IsNew(m) PROVE m.seq \notin ref /\ m.uid \notin about /\ \A q \in ref : ~(m.seq <= q)
  <2>1. \A q \in ref : ~(m.seq <= q)
    BY <1>1, <1>2, <1>5 DEF IsNew
  <2>2. m.seq \notin ref
    BY <1>1, <1>2, <1>5 DEF IsNew
  <2>3. m.uid \notin about
    BY <1>1, <1>2, <1>5 DEF IsNew, WindowOf
  <2> QED BY <2>1, <2>2, <2>3
<1>6. ASSUME NEW k \in 1 .. Len(store.rows')
      PROVE  store.rows'[k].seq \in ref <=> store.rows'[k].uid \in about
  <2>1. CASE IsNew(store.rows'[k])
    BY <1>5, <2>1
  <2>2. ASSUME NEW l \in 1 .. Len(store.rows), store.rows'[k] = store.rows[l]
        PROVE  store.rows'[k].seq \in ref <=> store.rows'[k].uid \in about
    BY <2>2 DEF WindowOf
  <2> QED BY <2>1, <2>2 DEF Follows
<1>7. ASSUME NEW k \in 1 .. Len(store.rows'), NEW q \in ref, NEW r \in ref,
             q <= store.rows'[k].seq, store.rows'[k].seq <= r
      PROVE  store.rows'[k].seq \in ref
  <2>1. CASE IsNew(store.rows'[k])
    BY <1>5, <1>7, <2>1
  <2>2. ASSUME NEW l \in 1 .. Len(store.rows), store.rows'[k] = store.rows[l]
        PROVE  store.rows'[k].seq \in ref
    BY <1>7, <2>2 DEF WindowOf
  <2> QED BY <2>1, <2>2 DEF Follows
<1>8. turn'.pc = "reasoning" => turn'.uid \notin about
  <2>1. turn' = turn => (turn'.pc = "reasoning" => turn'.uid \notin about)
    BY DEF WindowOf
  <2>2. ASSUME turn'.uid > created PROVE turn'.uid \notin about
    BY <1>1, <1>2, <2>2
  <2> QED BY <2>1, <2>2 DEF Follows
<1> QED BY <1>3, <1>4, <1>6, <1>7, <1>8 DEF WindowOf

\* what an item names that is in its messages' own row stays them or is stray,
LEMMA SourcedStays ==
  ASSUME CursorTypeOK, StoredOK, Follows, NEW ref \in SUBSET Nat, NEW about \in SUBSET Nat, SourcedOf(ref, about)
  PROVE  SourcedOf(ref, about)'
<1>1. \A u \in about : 1 <= u /\ u <= created
  BY DEF SourcedOf
<1>2. /\ store.nextSeq \in Nat /\ created \in Nat /\ \A u \in about : u \in Nat
      /\ store.nextSeq' \in Nat /\ created' \in Nat /\ turn.uid \in Nat /\ turn'.uid \in Nat
  BY DEF Follows
<1>3. \A u \in about : 1 <= u /\ u <= created'
  BY <1>1, <1>2 DEF Follows
<1>4. ASSUME NEW k \in 1 .. Len(store.rows'), store.rows'[k].uid \in about
      PROVE  store.rows'[k].seq \in ref \/ store.rows'[k].uid \in stray'
  <2>1. CASE IsNew(store.rows'[k])
    <3>1. PICK u \in about : u = store.rows'[k].uid
      BY <1>4
    <3>2. ~(u > created)
      BY <1>1, <1>2
    <3> QED BY <1>4, <2>1, <3>1, <3>2 DEF IsNew, SourcedOf
  <2>2. ASSUME NEW l \in 1 .. Len(store.rows), store.rows'[k] = store.rows[l]
        PROVE  store.rows'[k].seq \in ref \/ store.rows'[k].uid \in stray'
    BY <1>4, <2>2 DEF SourcedOf, Follows
  <2> QED BY <2>1, <2>2 DEF Follows
<1>5. turn'.pc = "reasoning" /\ turn'.uid \in about => turn'.predicted \in ref
  <2>1. turn' = turn => (turn'.pc = "reasoning" /\ turn'.uid \in about => turn'.predicted \in ref)
    BY DEF SourcedOf
  <2>2. ASSUME turn'.uid > created PROVE turn'.uid \notin about
    BY <1>1, <1>2, <2>2
  <2> QED BY <2>1, <2>2 DEF Follows
<1> QED BY <1>3, <1>4, <1>5 DEF SourcedOf

\* the messages of a running turn stay new,
LEMMA TurnStaysNew ==
  ASSUME CursorTypeOK, StoredOK, Follows, TurnIsNew,
         undone' = undone \/ turn.pc = "idle", \A u \in undone : u <= created
  PROVE  TurnIsNew'
<1>1. /\ store.nextSeq \in Nat /\ created \in Nat /\ turn.uid \in Nat /\ turn'.uid \in Nat
      /\ created' \in Nat
  BY DEF Follows
<1>2. CASE turn' = turn /\ turn'.pc = "reasoning"
  <2>1. turn'.uid \in 1 .. created /\ turn'.uid \notin undone' /\ undone' = undone
    BY <1>2 DEF TurnIsNew
  <2>2. ASSUME NEW k \in 1 .. Len(store.rows') PROVE store.rows'[k].uid # turn'.uid
    <3>1. CASE IsNew(store.rows'[k])
      BY <1>1, <1>2, <2>1, <3>1 DEF IsNew
    <3>2. ASSUME NEW l \in 1 .. Len(store.rows), store.rows'[k] = store.rows[l]
          PROVE  store.rows'[k].uid # turn'.uid
      BY <1>2, <3>2 DEF TurnIsNew
    <3> QED BY <3>1, <3>2 DEF Follows
  <2>3. turn'.uid \in 1 .. created'
    <3>1. created' >= created
      BY <1>1 DEF Follows
    <3> QED BY <1>1, <2>1, <3>1
  <2> QED BY <2>1, <2>2, <2>3 DEF TurnIsNew
<1>3. CASE turn'.uid > created /\ turn'.uid <= created' /\ store' = store /\ undone' = undone
  BY <1>1, <1>3, RowsAre, SMTT(30) DEF TurnIsNew, CursorTypeOK
<1> QED BY <1>2, <1>3 DEF Follows, TurnIsNew

\* a row that is gone stays gone,
LEMMA RetiredStays ==
  ASSUME CursorTypeOK, StoredOK, Follows, NEW ref \in SUBSET Nat, NEW about \in SUBSET Nat, WindowOf(ref, about),
         \E q \in ref : \A k \in 1 .. Len(store.rows) : store.rows[k].seq # q
  PROVE  \E q \in ref : \A k \in 1 .. Len(store.rows') : store.rows'[k].seq # q
<1>1. PICK q \in ref : \A k \in 1 .. Len(store.rows) : store.rows[k].seq # q
  OBVIOUS
<1>2. q \in Nat /\ q < store.nextSeq /\ store.nextSeq \in Nat
  BY RowsAre DEF WindowOf
<1>3. ASSUME NEW k \in 1 .. Len(store.rows') PROVE store.rows'[k].seq # q
  <2>1. CASE IsNew(store.rows'[k])
    BY <1>2, <2>1 DEF IsNew
  <2>2. ASSUME NEW l \in 1 .. Len(store.rows), store.rows'[k] = store.rows[l]
        PROVE  store.rows'[k].seq # q
    BY <1>1, <2>2
  <2> QED BY <2>1, <2>2 DEF Follows
<1> QED BY <1>3

\* a row that was extracted stays extracted,
LEMMA ExtractedStays ==
  ASSUME CursorTypeOK, StoredOK, Follows, NEW ref \in SUBSET Nat,
         \A q \in ref : q < store.nextSeq,
         \A k \in 1 .. Len(store.rows) : store.rows[k].seq \in ref => store.rows[k].uid \in recorded
  PROVE  /\ \A q \in ref : q < store.nextSeq'
         /\ \A k \in 1 .. Len(store.rows') :
               store.rows'[k].seq \in ref => store.rows'[k].uid \in recorded'
<1>1. store.nextSeq \in Nat /\ store.nextSeq' \in Nat /\ \A q \in ref : q \in Nat
  BY DEF Follows
<1>2. \A q \in ref : q < store.nextSeq'
  BY <1>1 DEF Follows
<1>3. ASSUME NEW k \in 1 .. Len(store.rows'), store.rows'[k].seq \in ref
      PROVE  store.rows'[k].uid \in recorded'
  <2>1. CASE IsNew(store.rows'[k])
    BY <1>1, <1>3, <2>1 DEF IsNew
  <2>2. ASSUME NEW l \in 1 .. Len(store.rows), store.rows'[k] = store.rows[l]
        PROVE  store.rows'[k].uid \in recorded'
    BY <1>3, <2>2 DEF Follows
  <2> QED BY <2>1, <2>2 DEF Follows
<1> QED BY <1>2, <1>3

\* and a message that was undone is not stored again.
LEMMA UndoneStays ==
  ASSUME CursorTypeOK, StoredOK, TurnIsNew, Follows,
         \A u \in undone : 1 <= u /\ u <= created,
         \A k \in 1 .. Len(store.rows) : store.rows[k].uid \notin undone
  PROVE  /\ \A u \in undone : 1 <= u /\ u <= created'
         /\ \A k \in 1 .. Len(store.rows') : store.rows'[k].uid \notin undone
<1>1. created \in Nat /\ created' \in Nat /\ \A u \in undone : u \in Nat
  BY SessionConstants DEF CursorTypeOK, Follows
<1>2. \A u \in undone : 1 <= u /\ u <= created'
  BY <1>1 DEF Follows
<1>3. ASSUME NEW k \in 1 .. Len(store.rows') PROVE store.rows'[k].uid \notin undone
  <2>1. CASE IsNew(store.rows'[k])
    BY <1>1, <2>1 DEF IsNew, TurnIsNew
  <2>2. ASSUME NEW l \in 1 .. Len(store.rows), store.rows'[k] = store.rows[l]
        PROVE  store.rows'[k].uid \notin undone
    BY <2>2
  <2> QED BY <2>1, <2>2 DEF Follows
<1> QED BY <1>2, <1>3

\* A step that leaves the lists alone.
Calm ==
    /\ messages' = messages /\ store.rows' = store.rows /\ store.nextSeq' = store.nextSeq
    /\ stray' = stray /\ undone' = undone /\ recorded \subseteq recorded'
    /\ StartTurn \/ (created' = created /\ (turn' = turn \/ turn' = NoTurn))

\* One that adds to both.
Appending(new) ==
    /\ AppendMessages(new)
    /\ created' \in 0 .. MaxMessages /\ created <= created'
    /\ Below(new, created', store.nextSeq') /\ Ascending(new) /\ Answered(new)
    /\ \A k \in 1 .. Len(new) : new[k].seq >= store.nextSeq /\ IsNew(new[k])
    /\ \A k \in 1 .. Len(store.rows), l \in 1 .. Len(new) : store.rows[k].uid # new[l].uid
    /\ stray \subseteq stray' /\ undone' = undone /\ recorded' = recorded
    /\ turn' = turn \/ turn' = NoTurn

\* A proactive push appends new messages.
LEMMA PushIs ==
  ASSUME CursorTypeOK, StoredOK, Push PROVE \E new \in Seq(Message) : Appending(new)
<1> USE DEF memories, histories
<1>1. store.nextSeq \in Nat /\ created \in Nat /\ created + 1 \in 1 .. MaxMessages
  BY RowsAre, SessionConstants DEF Push
<1>2. PICK m : m = [uid |-> created + 1, seq |-> store.nextSeq, role |-> "push"]
  OBVIOUS
<1>3. /\ m \in Message /\ m.uid = created + 1 /\ m.seq = store.nextSeq /\ m.role = "push"
      /\ AppendMessages(<<m>>) /\ created' = created + 1
  BY <1>1, <1>2 DEF Push, Message
<1>4. <<m>> \in Seq(Message) /\ Len(<<m>>) = 1 /\ <<m>>[1] = m
  BY <1>3, ListsOf
<1>5. store.nextSeq' = store.nextSeq + 1
  BY <1>3, <1>4, AppendIs
<1>6. /\ created + 1 \in Nat /\ created + 1 <= created + 1
      /\ store.nextSeq < store.nextSeq + 1 /\ store.nextSeq + 1 \in Nat
  BY <1>1
<1>7. Below(<<m>>, created + 1, store.nextSeq + 1) /\ Ascending(<<m>>) /\ Answered(<<m>>)
  BY <1>3, <1>6, NewPush
<1>8. IsNew(m) /\ m.seq >= store.nextSeq
  BY <1>1, <1>3 DEF IsNew
<1>9. \A k \in 1 .. Len(store.rows) : store.rows[k].uid # m.uid
  BY <1>1, <1>3, RowsAre
<1>10. \A k \in 1 .. Len(<<m>>) : <<m>>[k] = m
  BY <1>4
<1>11. stray' = stray /\ undone' = undone /\ recorded' = recorded /\ turn' = turn
  BY DEF Push
<1>12. created' \in 0 .. MaxMessages /\ created <= created'
  BY <1>1, <1>3
<1>13. Appending(<<m>>)
  BY <1>3, <1>5, <1>7, <1>8, <1>9, <1>10, <1>11, <1>12 DEF Appending
<1> QED BY <1>4, <1>13

\* So does a turn that is committed.
LEMMA CommitIs ==
  ASSUME CursorTypeOK, StoredOK, TurnIsNew, NEW skip \in BOOLEAN, Commit(skip)
  PROVE  \E new \in Seq(Message) : Appending(new)
<1> USE DEF memories, histories
<1>1. /\ store.nextSeq \in Nat /\ created \in Nat /\ created + 1 \in 1 .. MaxMessages
      /\ turn.pc = "reasoning" /\ turn.uid \in 1 .. created /\ turn.predicted \in Nat
      /\ turn.uid \in 1 .. MaxMessages
  BY RowsAre, SessionConstants, SMTT(30) DEF Commit, TurnIsNew, CursorTypeOK
<1>2. PICK m : m = [uid |-> turn.uid, seq |-> store.nextSeq, role |-> "user"]
  OBVIOUS
<1>3. PICK n : n = [uid |-> created + 1, seq |-> store.nextSeq + 1, role |-> "assistant"]
  OBVIOUS
<1>4. /\ m \in Message /\ m.uid = turn.uid /\ m.seq = store.nextSeq
      /\ n \in Message /\ n.uid = created + 1 /\ n.seq = store.nextSeq + 1 /\ n.role = "assistant"
  BY <1>1, <1>2, <1>3 DEF Message
<1>5. AppendMessages(<<m, n>>) /\ created' = created + 1 /\ turn' = NoTurn
  BY <1>2, <1>3 DEF Commit
<1>6. <<m, n>> \in Seq(Message) /\ Len(<<m, n>>) = 2 /\ <<m, n>>[1] = m /\ <<m, n>>[2] = n
  BY <1>4, ListsOf
<1>7. store.nextSeq' = store.nextSeq + 2
  BY <1>5, <1>6, AppendIs
<1>8. /\ created + 1 \in Nat /\ store.nextSeq + 2 \in Nat
      /\ m.uid <= created + 1 /\ m.seq < store.nextSeq + 2
      /\ n.uid <= created + 1 /\ n.seq < store.nextSeq + 2 /\ m.seq < n.seq /\ m.uid # n.uid
  BY <1>1, <1>4
<1>9. Below(<<m, n>>, created + 1, store.nextSeq + 2) /\ Ascending(<<m, n>>) /\ Answered(<<m, n>>)
  BY <1>4, <1>8, NewTurn
<1>10. m.seq = turn.predicted \/ turn.uid \in stray'
  BY <1>4 DEF Commit
<1>11. IsNew(m) /\ m.seq >= store.nextSeq /\ IsNew(n) /\ n.seq >= store.nextSeq
  BY <1>1, <1>4, <1>5, <1>10 DEF IsNew, NoTurn
<1>12. \A k \in 1 .. Len(store.rows) : store.rows[k].uid # m.uid /\ store.rows[k].uid # n.uid
  BY <1>1, <1>4, RowsAre DEF TurnIsNew
<1>13. \A k \in 1 .. Len(<<m, n>>) : <<m, n>>[k] = m \/ <<m, n>>[k] = n
  BY <1>6
<1>14. stray \subseteq stray' /\ undone' = undone /\ recorded' = recorded
  BY DEF Commit
<1>15. created' \in 0 .. MaxMessages /\ created <= created'
  BY <1>1, <1>5
<1>16. Appending(<<m, n>>)
  BY <1>5, <1>7, <1>9, <1>11, <1>12, <1>13, <1>14, <1>15 DEF Appending
<1> QED BY <1>6, <1>16

\* What the steps do to the lists.
LEMMA StepIs ==
  ASSUME CursorTypeOK, StoredOK, TurnIsNew, CursorNext
  PROVE  \/ Calm
         \/ \E new \in Seq(Message) : Appending(new)
         \/ turn.pc = "idle" /\ \E a \in PassiveTurns : UndoTurn(a)
         \/ Restart
         \/ \E w \in 0 .. Len(messages) : TrimHistory(w)
<1> USE DEF conversation, maintenance, memories, histories, counters
<1>1. CASE StartTurn
  <2>1. store' = store /\ UNCHANGED <<messages, stray, undone, recorded>>
    BY <1>1 DEF StartTurn
  <2> QED BY <1>1, <2>1 DEF Calm
<1>2. CASE Memorize
  BY <1>2 DEF Memorize, Calm
<1>3. CASE AbandonTurn
  BY <1>3 DEF AbandonTurn, Calm
<1>4. CASE Push
  BY <1>4, PushIs
<1>5. CASE Undo
  <2>1. Max(PassiveTurns) \in PassiveTurns
    BY <1>5, LastTurnIs DEF Undo, CursorTypeOK
  <2> QED BY <1>5, <2>1 DEF Undo
<1>6. ASSUME NEW skip \in BOOLEAN, Commit(skip) PROVE \E new \in Seq(Message) : Appending(new)
  BY <1>6, CommitIs
<1>7. CASE TaskNext \/ TaskReturn \/ TaskDone
  BY <1>7 DEF TaskNext, TaskReturn, TaskDone, Calm
<1>8. ASSUME NEW force \in BOOLEAN, NEW archive \in BOOLEAN, Manual(force, archive) PROVE Calm
  BY <1>8 DEF Manual, Calm
<1>9. CASE SkipWindow
  BY <1>9 DEF SkipWindow, Calm
<1>10. CASE AppendOnce
  BY <1>10 DEF AppendOnce, Calm
<1>11. CASE SetCursor
  BY <1>11 DEF SetCursor, Calm
<1>12. CASE IndexAndSave
  <2>1. store.rows' = store.rows /\ store.nextSeq' = store.nextSeq
    BY <1>12, CursorSaved DEF IndexAndSave, CursorTypeOK
  <2> QED BY <1>12, <2>1 DEF IndexAndSave, Calm
<1>13. CASE EmitFails
  BY <1>13 DEF EmitFails, Calm
<1>14. CASE ManualTimeout
  BY <1>14 DEF ManualTimeout, Calm
<1> QED BY <1>1, <1>2, <1>3, <1>4, <1>5, <1>6, <1>7, <1>8, <1>9, <1>10, <1>11, <1>12, <1>13, <1>14
        DEF CursorNext

\* Every step keeps the types,
LEMMA TypesStep ==
  ASSUME CursorTypeOK, MemoryIsTailOfRows, StoredOK, TurnIsNew, CursorNext
  PROVE  CursorTypeOK'
<1>1. CASE Undo
  <2>1. Max(PassiveTurns) \in PassiveTurns
    BY <1>1, LastTurnIs DEF Undo, CursorTypeOK
  <2> QED BY <1>1, <2>1, UndoTyped DEF Undo
<1> QED BY <1>1, TurnTyped, WindowTypes, ConsolidateTypes, IncidentTypes DEF CursorNext, Consolidate

\* the list at the end of the rows,
LEMMA TailStep ==
  ASSUME CursorTypeOK, MemoryIsTailOfRows, StoredOK, TurnIsNew, CursorNext, CursorTypeOK'
  PROVE  MemoryIsTailOfRows'
<1>1. CASE Calm
  BY <1>1 DEF Calm, MemoryIsTailOfRows
<1>2. ASSUME NEW new \in Seq(Message), Appending(new) PROVE MemoryIsTailOfRows'
  BY <1>2, TailAfterAppend DEF Appending
<1>3. ASSUME NEW a \in PassiveTurns, UndoTurn(a) PROVE MemoryIsTailOfRows'
  BY <1>3, TailAfterUndo
<1>4. CASE Restart \/ \E w \in 0 .. Len(messages) : TrimHistory(w)
  BY <1>4, TailAfterIncident
<1> QED BY <1>1, <1>2, <1>3, <1>4, StepIs

\* What a restart or a retry leaves alone.
LEMMA IncidentIs ==
  ASSUME CursorTypeOK, Restart \/ \E w \in 0 .. Len(messages) : TrimHistory(w)
  PROVE  /\ store.rows' = store.rows /\ store.nextSeq' = store.nextSeq
         /\ UNCHANGED <<created, stray, undone, recorded>>
         /\ turn' = turn \/ turn' = NoTurn
<1> USE DEF memories, histories
<1>1. CASE Restart
  BY <1>1 DEF Restart
<1>2. ASSUME NEW w \in 0 .. Len(messages), TrimHistory(w)
      PROVE  /\ store.rows' = store.rows /\ store.nextSeq' = store.nextSeq
             /\ UNCHANGED <<created, stray, undone, recorded>>
             /\ turn' = turn \/ turn' = NoTurn
  BY <1>2, CursorSaved DEF TrimHistory
<1> QED BY <1>1, <1>2

\* the order of the rows,
LEMMA StoredStep ==
  ASSUME CursorTypeOK, MemoryIsTailOfRows, StoredOK, TurnIsNew, CursorNext
  PROVE  StoredOK'
<1>1. CASE Calm
  <2>1. created' \in 0 .. MaxMessages /\ created <= created'
    BY <1>1, RowsAre, SessionConstants DEF Calm, StartTurn, StoredOK
  <2>2. \A k \in 1 .. Len(store.rows) : store.rows[k].uid <= created'
    BY <2>1, RowsAre
  <2>3. Below(store.rows', created', store.nextSeq')
    BY <1>1, <2>2, RowsAre DEF Calm, Below
  <2>4. Ascending(store.rows') /\ Answered(store.rows')
    BY <1>1 DEF Calm, StoredOK
  <2> QED BY <2>1, <2>3, <2>4 DEF StoredOK
<1>2. ASSUME NEW new \in Seq(Message), Appending(new) PROVE StoredOK'
  BY <1>2, StoredAfterAppend DEF Appending
<1>3. ASSUME NEW a \in PassiveTurns, UndoTurn(a) PROVE StoredOK'
  BY <1>3, StoredAfterUndo
<1>4. CASE Restart \/ \E w \in 0 .. Len(messages) : TrimHistory(w)
  BY <1>4, IncidentIs DEF StoredOK
<1> QED BY <1>1, <1>2, <1>3, <1>4, StepIs

\* and only appends newer rows or deletes some.
LEMMA FollowsStep ==
  ASSUME CursorTypeOK, MemoryIsTailOfRows, StoredOK, TurnIsNew, CursorNext, CursorTypeOK', StoredOK'
  PROVE  Follows
<1>0. /\ created \in Nat /\ created' \in Nat /\ store.nextSeq \in Nat /\ store.nextSeq' \in Nat
      /\ turn.uid \in Nat /\ turn'.uid \in Nat
  BY SessionConstants DEF CursorTypeOK, StoredOK
<1>1. ASSUME store.rows' = store.rows, store.nextSeq' = store.nextSeq, created <= created',
             stray \subseteq stray', recorded \subseteq recorded',
             turn' = turn \/ turn' = NoTurn \/ StartTurn
      PROVE  Follows
  <2>1. turn'.pc = "reasoning" =>
          \/ turn' = turn
          \/ turn'.uid > created /\ turn'.uid <= created' /\ store' = store /\ undone' = undone
    BY <1>0, <1>1 DEF NoTurn, StartTurn, histories
  <2> QED BY <1>0, <1>1, <2>1 DEF Follows
<1>2. CASE Calm
  <2>1. created <= created'
    BY <1>0, <1>2 DEF Calm, StartTurn
  <2> QED BY <1>1, <1>2, <2>1 DEF Calm
<1>3. ASSUME NEW new \in Seq(Message), Appending(new) PROVE Follows
  <2>1. AppendMessages(new) /\ store.rows' = store.rows \o new
    BY <1>3 DEF Appending, AppendMessages
  <2>2. store.nextSeq <= store.nextSeq'
    BY <1>0, <2>1, AppendIs
  <2>3. \A k \in 1 .. Len(store.rows') :
          \/ \E l \in 1 .. Len(store.rows) : store.rows'[k] = store.rows[l]
          \/ IsNew(store.rows'[k])
    <3>1. PICK n \in Nat : \E m \in Nat : n = Len(store.rows) /\ m = Len(new)
                                          /\ Joined(store.rows \o new, store.rows, new, n, m)
      BY JoinedPlaces, RowsAre
    <3>2. PICK m \in Nat : n = Len(store.rows) /\ m = Len(new)
                           /\ Joined(store.rows \o new, store.rows, new, n, m)
      BY <3>1
    <3>3. ASSUME NEW k \in 1 .. n + m
          PROVE  \/ \E l \in 1 .. n : store.rows'[k] = store.rows[l]
                 \/ IsNew(store.rows'[k])
      <4>1. CASE k \in 1 .. n
        BY <2>1, <3>2, <4>1 DEF Joined
      <4>2. ASSUME NEW j \in 1 .. m, k = n + j PROVE IsNew(store.rows'[k])
        <5>1. store.rows'[k] = new[j] /\ IsNew(new[j])
          BY <1>3, <2>1, <3>2, <4>2 DEF Joined, Appending
        <5> QED BY <5>1
      <4> QED BY <3>2, <4>1, <4>2 DEF Joined
    <3> QED BY <2>1, <3>2, <3>3 DEF Joined
  <2>4. turn'.pc = "reasoning" => turn' = turn
    BY <1>3 DEF Appending, NoTurn
  <2> QED BY <1>0, <1>3, <2>2, <2>3, <2>4 DEF Follows, Appending
<1>4. ASSUME turn.pc = "idle", NEW a \in PassiveTurns, UndoTurn(a) PROVE Follows
  <2>1. PICK p : p = Len(store.rows) - Len(messages) + a
    OBVIOUS
  <2>2. /\ p \in 2 .. Len(store.rows)
        /\ store.rows' = Closed(store.rows, p) /\ store.nextSeq' = store.nextSeq
    BY <1>4, <2>1, UndoIs
  <2>3. \A k \in 1 .. Len(store.rows') : \E l \in 1 .. Len(store.rows) : store.rows'[k] = store.rows[l]
    <3>1. PICK s \in Seq(Message) : s = store.rows
      BY RowsAre
    <3>2. \A k \in 1 .. Len(Closed(s, p)) : \E l \in 1 .. Len(s) : Closed(s, p)[k] = s[l]
      <4>1. p \in 2 .. Len(s)
        BY <2>2, <3>1
      <4>2. ASSUME NEW k \in 1 .. Len(Closed(s, p))
            PROVE  \E l \in 1 .. Len(s) : Closed(s, p)[k] = s[l]
        BY <4>1, ClosedPlaces
      <4> QED BY <4>2
    <3> QED BY <2>2, <3>1, <3>2
  <2>4. UNCHANGED <<created, recorded, turn>> /\ stray \subseteq stray'
    BY <1>4 DEF UndoTurn, counters
  <2> QED BY <1>0, <2>2, <2>3, <2>4 DEF Follows
<1>5. CASE Restart \/ \E w \in 0 .. Len(messages) : TrimHistory(w)
  BY <1>0, <1>1, <1>5, IncidentIs
<1> QED BY <1>2, <1>3, <1>4, <1>5, StepIs

\* Ids tell the places of an ascending list apart, and order them.
LEMMA AscendingIs ==
  ASSUME NEW s \in Seq(Message), Ascending(s), NEW k \in 1 .. Len(s), NEW l \in 1 .. Len(s)
  PROVE  /\ s[k].seq = s[l].seq => k = l
         /\ s[k].uid = s[l].uid => k = l
         /\ s[k].seq <= s[l].seq => k <= l
         /\ k <= l => s[k].seq <= s[l].seq
<1>1. /\ s[k].seq \in Nat /\ s[l].seq \in Nat
      /\ k < l => s[k].seq < s[l].seq /\ s[k].uid # s[l].uid
      /\ l < k => s[l].seq < s[k].seq /\ s[l].uid # s[k].uid
  BY ListIs DEF Ascending
<1>2. k < l \/ l < k \/ k = l
  BY ListIs
<1> QED BY <1>1, <1>2

\* A window of the list, in ids.
LEMMA WindowSelected ==
  ASSUME CursorTypeOK, MemoryIsTailOfRows, StoredOK, TurnIsNew,
         NEW first \in 1 .. Len(messages) + 1, NEW last \in 0 .. Len(messages), first <= last + 1,
         NEW ref, ref = Seqs(SubSeq(messages, first, last)),
         NEW about, about = Uids(SubSeq(messages, first, last))
  PROVE  /\ WindowOf(ref, about)
         /\ \A u \in about : \E l \in 1 .. Len(store.rows) : store.rows[l].uid = u
<1>1. PICK n \in Nat : n = Len(store.rows)
  BY RowOf
<1>2. PICK d \in Nat : d = Len(store.rows) - Len(messages)
  BY MemoryEndsRows
<1>3. PICK m \in Nat : m = Len(messages) /\ n = m + d /\ first \in 1 .. m + 1 /\ last \in 0 .. m
  BY <1>1, <1>2, RowOf
<1>4. /\ \A k \in 1 .. m : d + k \in 1 .. n /\ messages[k] = store.rows[d + k]
      /\ \A k \in 1 .. n : /\ store.rows[k].seq \in Nat /\ store.rows[k].seq < store.nextSeq
                           /\ store.rows[k].uid \in Nat /\ store.rows[k].uid <= created
                           /\ 1 <= store.rows[k].uid
  <2>1. \A k \in 1 .. m : d + k \in 1 .. n /\ messages[k] = store.rows[d + k]
    BY <1>1, <1>2, <1>3, RowOf
  <2>2. \A k \in 1 .. n : /\ store.rows[k].seq \in Nat /\ store.rows[k].seq < store.nextSeq
                          /\ store.rows[k].uid \in Nat /\ store.rows[k].uid <= created
                          /\ store.rows[k].uid \in 1 .. MaxMessages
    BY <1>1, RowsAre, ListIs
  <2> QED BY <2>1, <2>2, SessionConstants
<1>5. \A k \in first .. last : k \in 1 .. m
  BY <1>3
<1>6. /\ \A k \in first .. last : messages[k].uid \in about /\ messages[k].seq \in ref
      /\ \A u \in about : \E k \in first .. last : u = messages[k].uid
      /\ \A q \in ref : \E k \in first .. last : q = messages[k].seq
  BY RowOf, WindowIs
<1>7. ASSUME NEW k \in 1 .. n, NEW l \in 1 .. n
      PROVE  /\ store.rows[k].seq = store.rows[l].seq => k = l
             /\ store.rows[k].uid = store.rows[l].uid => k = l
             /\ store.rows[k].seq <= store.rows[l].seq => k <= l
  BY <1>1, RowsAre, AscendingIs DEF StoredOK
<1>8. ASSUME NEW q \in ref PROVE \E k \in first .. last : q = store.rows[d + k].seq /\ d + k \in 1 .. n
  BY <1>4, <1>5, <1>6
<1>9. ASSUME NEW u \in about PROVE \E k \in first .. last : u = store.rows[d + k].uid /\ d + k \in 1 .. n
  BY <1>4, <1>5, <1>6
<1>10. ASSUME NEW q \in ref PROVE q < store.nextSeq
  BY <1>4, <1>8
<1>11. ASSUME NEW u \in about
       PROVE  1 <= u /\ u <= created /\ \E l \in 1 .. n : store.rows[l].uid = u
  BY <1>4, <1>9
<1>12. ASSUME NEW k \in 1 .. n PROVE store.rows[k].seq \in ref <=> store.rows[k].uid \in about
  <2>1. ASSUME store.rows[k].seq \in ref PROVE store.rows[k].uid \in about
    <3>1. PICK j \in first .. last : store.rows[k].seq = store.rows[d + j].seq /\ d + j \in 1 .. n
      BY <1>8, <2>1
    <3>2. k = d + j
      BY <1>7, <3>1
    <3> QED BY <1>4, <1>5, <1>6, <3>2
  <2>2. ASSUME store.rows[k].uid \in about PROVE store.rows[k].seq \in ref
    <3>1. PICK j \in first .. last : store.rows[k].uid = store.rows[d + j].uid /\ d + j \in 1 .. n
      BY <1>9, <2>2
    <3>2. k = d + j
      BY <1>7, <3>1
    <3> QED BY <1>4, <1>5, <1>6, <3>2
  <2> QED BY <2>1, <2>2
<1>13. ASSUME NEW k \in 1 .. n, NEW q \in ref, NEW r \in ref,
              q <= store.rows[k].seq, store.rows[k].seq <= r
       PROVE  store.rows[k].seq \in ref
  <2>1. PICK i \in first .. last : q = store.rows[d + i].seq /\ d + i \in 1 .. n
    BY <1>8
  <2>2. PICK j \in first .. last : r = store.rows[d + j].seq /\ d + j \in 1 .. n
    BY <1>8
  <2>3. d + i <= k
    BY <1>7, <1>13, <2>1
  <2>4. k <= d + j
    BY <1>7, <1>13, <2>2
  <2>5. PICK h \in first .. last : k = d + h
    <3>1. k - d \in first .. last /\ k = d + (k - d)
      BY <1>3, <2>3, <2>4
    <3> QED BY <3>1
  <2>6. messages[h] = store.rows[k]
    BY <1>4, <1>5, <2>5
  <2> QED BY <1>6, <2>6
<1>14. ASSUME turn.pc = "reasoning" PROVE turn.uid \notin about
  BY <1>1, <1>11, <1>14 DEF TurnIsNew
<1> QED BY <1>1, <1>10, <1>11, <1>12, <1>13, <1>14 DEF WindowOf

\* The lock's holder goes on with its window, lets it go, or takes a new one.
WindowKept ==
    /\ work'.ref = work.ref /\ work'.uids = work.uids
    /\ work'.stage = "idle" => work.stage = "idle"
    /\ work'.stage = "appended" => AppendOnce \/ (work.stage = "appended" /\ journal' = journal)

\* The lock is released, or its holder selected nothing.
WindowLeft == work'.ref = {} /\ work'.uids = {} /\ work'.stage = "idle"

\* A window is selected.
WindowTaken ==
    /\ store' = store /\ turn' = turn /\ created' = created
    /\ undone' = undone /\ stray' = stray
    /\ work'.stage = "extract"
    /\ \E first \in 1 .. Len(messages) + 1, last \in 0 .. Len(messages) :
          /\ first <= last + 1
          /\ work'.ref = Seqs(SubSeq(messages, first, last))
          /\ work'.uids = Uids(SubSeq(messages, first, last))

\* There is no other change to the window under the lock.
LEMMA WorkIs ==
  ASSUME CursorTypeOK, CursorNext PROVE WindowKept \/ WindowLeft \/ WindowTaken
<1> USE DEF conversation, maintenance, memories, histories, counters
<1>0. work \in Consolidation /\ Len(messages) \in Nat
  BY ListIs DEF CursorTypeOK
<1>a. /\ Finished.ref = {} /\ Finished.uids = {} /\ Finished.stage = "idle"
      /\ Unlocked.ref = {} /\ Unlocked.uids = {} /\ Unlocked.stage = "idle"
      /\ [Unlocked EXCEPT !.by = "task"].ref = {} /\ [Unlocked EXCEPT !.by = "task"].uids = {}
      /\ [Unlocked EXCEPT !.by = "task"].stage = "idle"
  BY DEF Finished, Unlocked
<1>b. ASSUME work' = work, journal' = journal PROVE WindowKept
  BY <1>b DEF WindowKept
<1>c. ASSUME NEW moved, work' = [work EXCEPT !.moved = moved], journal' = journal PROVE WindowKept
  BY <1>0, <1>c DEF WindowKept, Consolidation
<1>d. ASSUME NEW who \in {"task", "manual"}, NEW first \in 1 .. Len(messages) + 1,
             NEW last \in 0 .. Len(messages), first <= last + 1, NEW archive \in BOOLEAN,
             work' = Window(who, first, last, archive),
             UNCHANGED <<store, turn, created, undone, stray>>
      PROVE  WindowTaken
  <2>1. /\ work'.ref = Seqs(SubSeq(messages, first, last))
        /\ work'.uids = Uids(SubSeq(messages, first, last)) /\ work'.stage = "extract"
    BY <1>d DEF Window
  <2> QED BY <1>d, <2>1 DEF WindowTaken
<1>e. ASSUME NEW force \in BOOLEAN, Selectable(force)
      PROVE  /\ lastConsolidated + 1 \in 1 .. Len(messages) + 1
             /\ WindowEnd(force) \in 0 .. Len(messages) /\ lastConsolidated + 1 <= WindowEnd(force) + 1
  BY <1>0, <1>e, SelectableIs
<1>1. CASE StartTurn \/ Memorize \/ AbandonTurn \/ Push \/ TaskDone
  BY <1>1, <1>b DEF StartTurn, Memorize, AbandonTurn, Push, TaskDone
<1>2. CASE Undo
  BY <1>2, <1>c DEF Undo, UndoTurn
<1>3. ASSUME NEW w \in 0 .. Len(messages), TrimHistory(w) PROVE WindowKept
  BY <1>3, <1>c DEF TrimHistory
<1>4. ASSUME NEW skip \in BOOLEAN, Commit(skip) PROVE WindowKept
  BY <1>4, <1>b DEF Commit
<1>5. CASE TaskNext
  BY <1>5, <1>a, <1>d, <1>e DEF TaskNext, WindowLeft
<1>6. CASE TaskReturn \/ SkipWindow \/ IndexAndSave \/ EmitFails \/ ManualTimeout \/ Restart
  BY <1>6, <1>a DEF TaskReturn, SkipWindow, IndexAndSave, EmitFails, ManualTimeout, Restart, WindowLeft
<1>7. ASSUME NEW force \in BOOLEAN, Manual(force, FALSE) PROVE WindowTaken
  BY <1>7, <1>d, <1>e DEF Manual
<1>8. CASE Manual(TRUE, TRUE)
  <2>1. 1 \in 1 .. Len(messages) + 1 /\ Len(messages) \in 0 .. Len(messages) /\ 1 <= Len(messages) + 1
    BY <1>0
  <2> QED BY <1>8, <2>1, <1>d DEF Manual
<1>9. CASE AppendOnce
  BY <1>0, <1>9 DEF AppendOnce, WindowKept, Consolidation
<1>10. CASE SetCursor
  BY <1>0, <1>10 DEF SetCursor, WindowKept, Consolidation
<1> QED BY <1>1, <1>2, <1>3, <1>4, <1>5, <1>6, <1>7, <1>8, <1>9, <1>10 DEF CursorNext

\* What can be said of one item.
LEMMA ItemIs ==
  ASSUME CursorTypeOK, NEW i \in items
  PROVE  /\ i \in MemoryItem /\ i.ref \in SUBSET Nat /\ i.about \in SUBSET Nat
         /\ i.by \in {"memorize", "window", "again", "borrowed"} /\ i.active \in BOOLEAN
<1>1. i \in MemoryItem
  BY DEF CursorTypeOK
<1> QED BY <1>1, SessionConstants DEF MemoryItem

\* The steps that change the items.
LEMMA ItemsChange ==
  ASSUME CursorNext PROVE IndexAndSave \/ EmitFails \/ Undo \/ Memorize \/ items' = items
<1> USE DEF conversation, maintenance, memories, histories, counters
<1>1. CASE StartTurn \/ AbandonTurn \/ Push \/ TaskNext \/ TaskReturn \/ TaskDone
  BY <1>1 DEF StartTurn, AbandonTurn, Push, TaskNext, TaskReturn, TaskDone
<1>2. ASSUME NEW w \in 0 .. Len(messages), TrimHistory(w) PROVE items' = items
  BY <1>2 DEF TrimHistory
<1>3. ASSUME NEW skip \in BOOLEAN, Commit(skip) PROVE items' = items
  BY <1>3 DEF Commit
<1>4. ASSUME NEW force \in BOOLEAN, NEW archive \in BOOLEAN, Manual(force, archive)
      PROVE  items' = items
  BY <1>4 DEF Manual
<1>5. CASE SkipWindow \/ AppendOnce \/ SetCursor \/ ManualTimeout \/ Restart
  BY <1>5 DEF SkipWindow, AppendOnce, SetCursor, ManualTimeout, Restart
<1> QED BY <1>1, <1>2, <1>3, <1>4, <1>5 DEF CursorNext

\* Where the items come from.
LEMMA ItemsAre ==
  ASSUME CursorTypeOK, CursorNext, NEW i \in items'
  PROVE  \/ i \in items
         \/ /\ \/ i = OwnItem
               \/ \E ref \in KnownRefs : i = InKnownRow(ref, work.ref, work.uids)
            /\ undone' = undone /\ work.stage = "emit"
         \/ /\ \/ i = Item("memorize", {turn.predicted}, {turn.uid})
               \/ \E ref \in KnownRefs : i = InKnownRow(ref, {turn.predicted}, {turn.uid})
            /\ Memorize
         \/ \E j \in items : /\ i = [j EXCEPT !.active = FALSE]
                             /\ \E a \in PassiveTurns :
                                   /\ turn.pc = "idle" /\ UndoTurn(a)
                                   /\ j \in Affected({messages[a - 1].seq, messages[a].seq})
<1> USE DEF conversation, maintenance, memories, histories, counters
<1>1. CASE items' = items
  BY <1>1
<1>2. CASE Memorize
  BY <1>2, MemorizeIs
<1>3. CASE Undo
  <2>1. Max(PassiveTurns) \in PassiveTurns
    BY <1>3, LastTurnIs DEF Undo, CursorTypeOK
  <2>2. PICK a \in PassiveTurns : turn.pc = "idle" /\ UndoTurn(a)
    BY <1>3, <2>1 DEF Undo
  <2>3. i \in items \/ \E j \in Affected({messages[a - 1].seq, messages[a].seq}) : i = [j EXCEPT !.active = FALSE]
    BY <2>2 DEF UndoTurn
  <2>4. Affected({messages[a - 1].seq, messages[a].seq}) \subseteq items
    BY DEF Affected
  <2> QED BY <2>2, <2>3, <2>4
<1>4. CASE IndexAndSave
  BY <1>4, IndexedIs DEF IndexAndSave
<1>5. CASE EmitFails
  BY <1>5, IndexedIs DEF EmitFails
<1> QED BY <1>1, <1>2, <1>3, <1>4, <1>5, ItemsChange

\* No step takes an item away, except that an undo retires it.
LEMMA ItemsGo ==
  ASSUME CursorTypeOK, CursorNext, NEW j \in items, j \notin items'
  PROVE  \E i \in items' : i = [j EXCEPT !.active = FALSE]
<1> USE DEF conversation, maintenance, memories, histories, counters
<1>1. CASE Undo
  <2>1. Max(PassiveTurns) \in PassiveTurns
    BY <1>1, LastTurnIs DEF Undo, CursorTypeOK
  <2>2. PICK a \in PassiveTurns : UndoTurn(a)
    BY <1>1, <2>1 DEF Undo
  <2> QED BY <2>2 DEF UndoTurn
<1>2. CASE Memorize
  BY <1>2, MemorizeIs
<1>3. CASE IndexAndSave \/ EmitFails
  BY <1>3, IndexedIs DEF IndexAndSave, EmitFails
<1> QED BY <1>1, <1>2, <1>3, ItemsChange

\* A window keeps what it is when it is put into an item.
LEMMA WorkStays ==
  ASSUME CursorTypeOK, StoredOK, Follows, ItemsOK,
         NEW ref, ref = work.ref, NEW about, about = work.uids
  PROVE  WindowOf(ref, about)'
<1>1. ref \in SUBSET Nat /\ about \in SUBSET Nat
  BY WorkTyped, SessionConstants
<1>2. WindowOf(ref, about)
  BY DEF ItemsOK
<1> QED BY <1>1, <1>2, WindowStays

\* An item keeps saying what it is about.
LEMMA ItemStays ==
  ASSUME CursorTypeOK, StoredOK, Follows, ItemsOK, NEW i \in items,
         NEW by, NEW ref, NEW about, by = i.by, ref = i.ref, about = i.about
  PROVE  ItemOf(by, ref, about)'
<1>1. ref \in SUBSET Nat /\ about \in SUBSET Nat
  BY ItemIs
<1>2. ItemOf(by, ref, about)
  BY DEF ItemsOK
<1>3. by = "window" => WindowOf(ref, about)'
  BY <1>1, <1>2, WindowStays DEF ItemOf
<1>4. by \in {"memorize", "again"} => SourcedOf(ref, about)'
  BY <1>1, <1>2, SourcedStays DEF ItemOf
<1> QED BY <1>3, <1>4 DEF ItemOf

\* Rows keep the source_ref of a window that has an item.
LEMMA RefStays ==
  ASSUME CursorTypeOK, CursorNext, NEW by, NEW ref, RefOK(by, ref) PROVE RefOK(by, ref)'
<1>1. ASSUME NEW j \in items, j.by = "window", j.ref = ref
      PROVE  \E k \in items' : k.by = "window" /\ k.ref = ref
  <2>1. CASE j \in items'
    BY <1>1, <2>1
  <2>2. CASE j \notin items'
    <3>1. PICK k \in items' : k = [j EXCEPT !.active = FALSE]
      BY <1>1, <2>2, ItemsGo
    <3>2. k.by = "window" /\ k.ref = ref
      BY <1>1, <3>1, ItemIs DEF MemoryItem
    <3> QED BY <3>2
  <2> QED BY <2>1, <2>2
<1> QED BY <1>1 DEF RefOK

\* A known row's source_ref is one that may be.
LEMMA KnownRefOK ==
  ASSUME ItemsOK, NEW by, NEW ref \in KnownRefs PROVE RefOK(by, ref)
<1>1. ASSUME NEW i \in items, ref = i.ref PROVE RefOK(by, ref)
  BY <1>1 DEF ItemsOK, RefOK
<1> QED BY <1>1 DEF KnownRefs, RefOK

\* What a known row says of messages it names, it says of nothing else.
LEMMA KnownRowOf ==
  ASSUME NEW ref, NEW named, NEW about, NEW i, i = InKnownRow(ref, named, about),
         named \subseteq ref => SourcedOf(ref, about)'
  PROVE  i.ref = ref /\ i.about = about /\ ItemOf(i.by, i.ref, i.about)'
<1>1. i.ref = ref /\ i.about = about /\ i.by = IF named \subseteq ref THEN "again" ELSE "borrowed"
  BY DEF InKnownRow, Item
<1>2. PICK by : by = i.by
  OBVIOUS
<1>3. ItemOf(by, ref, about)'
  BY <1>1, <1>2 DEF ItemOf
<1> QED BY <1>1, <1>2, <1>3

\* Every step keeps the items and the window under the lock true.
LEMMA ItemsStep ==
  ASSUME CursorTypeOK, MemoryIsTailOfRows, StoredOK, TurnIsNew, ItemsOK, CursorNext, Follows
  PROVE  ItemsOK'
<1>a. ASSUME NEW i \in items', ItemOf(i.by, i.ref, i.about)', RefOK(i.by, i.ref)
      PROVE  (ItemOf(i.by, i.ref, i.about) /\ RefOK(i.by, i.ref))'
  <2>1. PICK by, ref : by = i.by /\ ref = i.ref
    OBVIOUS
  <2>2. RefOK(by, ref)'
    BY <1>a, <2>1, RefStays
  <2> QED BY <1>a, <2>1, <2>2
<1>b. ASSUME NEW j \in items PROVE ItemOf(j.by, j.ref, j.about)' /\ RefOK(j.by, j.ref)
  <2>1. PICK by, ref, about : by = j.by /\ ref = j.ref /\ about = j.about
    OBVIOUS
  <2>2. ItemOf(by, ref, about)'
    BY <2>1, ItemStays
  <2> QED BY <2>1, <2>2 DEF ItemsOK
<1>1. ASSUME NEW i \in items' PROVE ItemOf(i.by, i.ref, i.about)' /\ RefOK(i.by, i.ref)
  <2>1. CASE i \in items
    BY <1>b, <2>1
  <2>2. CASE i = OwnItem
    <3>1. PICK by, ref, about : by = i.by /\ ref = i.ref /\ about = i.about
      OBVIOUS
    <3>2. by = "window" /\ ref = work.ref /\ about = work.uids
      BY <2>2, <3>1 DEF OwnItem, Item
    <3>3. WindowOf(ref, about)'
      BY <3>2, WorkStays
    <3> QED BY <3>1, <3>2, <3>3 DEF ItemOf, RefOK
  <2>3. ASSUME NEW ref \in KnownRefs, i = InKnownRow(ref, work.ref, work.uids)
        PROVE  ItemOf(i.by, i.ref, i.about)' /\ RefOK(i.by, i.ref)
    <3>1. PICK named, about : named = work.ref /\ about = work.uids
      OBVIOUS
    <3>2. WindowOf(named, about)'
      BY <3>1, WorkStays
    <3>3. named \subseteq ref => SourcedOf(ref, about)'
      BY <3>2 DEF WindowOf, SourcedOf
    <3>4. i.ref = ref /\ ItemOf(i.by, i.ref, i.about)'
      BY <2>3, <3>1, <3>3, KnownRowOf
    <3> QED BY <3>4, KnownRefOK
  <2>4. CASE Memorize
    <3>1. /\ turn.pc = "reasoning" /\ turn' = turn /\ store' = store /\ created' = created
          /\ stray' = stray
      BY <2>4 DEF Memorize, conversation, histories
    <3>2. PICK named, about : named = {turn.predicted} /\ about = {turn.uid}
      OBVIOUS
    <3>3. turn.uid \in 1 .. created /\ \A k \in 1 .. Len(store.rows) : store.rows[k].uid # turn.uid
      BY <3>1 DEF TurnIsNew
    <3>4. ASSUME NEW ref, named \subseteq ref PROVE SourcedOf(ref, about)'
      BY <3>1, <3>2, <3>3, <3>4 DEF SourcedOf
    <3>5. CASE i = Item("memorize", named, about)
      <4>1. PICK by, ref : by = i.by /\ ref = i.ref
        OBVIOUS
      <4>2. by = "memorize" /\ ref = named /\ i.about = about
        BY <3>5, <4>1 DEF Item
      <4>3. SourcedOf(ref, about)'
        BY <3>4, <4>2
      <4>4. RefOK(by, ref)
        BY <3>2, <4>2 DEF RefOK
      <4> QED BY <4>1, <4>2, <4>3, <4>4 DEF ItemOf
    <3>6. ASSUME NEW ref \in KnownRefs, i = InKnownRow(ref, named, about)
          PROVE  ItemOf(i.by, i.ref, i.about)' /\ RefOK(i.by, i.ref)
      <4>1. i.ref = ref /\ ItemOf(i.by, i.ref, i.about)'
        BY <3>4, <3>6, KnownRowOf
      <4> QED BY <4>1, KnownRefOK
    <3> QED BY <2>1, <2>4, <3>2, <3>5, <3>6, MemorizeIs
  <2>5. ASSUME NEW j \in items, i = [j EXCEPT !.active = FALSE]
        PROVE  ItemOf(i.by, i.ref, i.about)' /\ RefOK(i.by, i.ref)
    <3>1. j \in MemoryItem
      BY ItemIs
    <3>2. i.by = j.by /\ i.ref = j.ref /\ i.about = j.about
      BY <2>5, <3>1 DEF MemoryItem
    <3> QED BY <1>b, <3>2
  <2> QED BY <2>1, <2>2, <2>3, <2>4, <2>5, ItemsAre
<1>2. WindowOf(work.ref, work.uids)' /\ (work'.stage = "idle" => work'.ref = {} /\ work'.uids = {})
  <2>1. PICK ref, about : ref = work'.ref /\ about = work'.uids
    OBVIOUS
  <2>2. CASE WindowKept
    <3>1. WindowOf(ref, about)'
      BY <2>1, <2>2, WorkStays DEF WindowKept
    <3> QED BY <2>1, <2>2, <3>1 DEF WindowKept, ItemsOK
  <2>3. CASE WindowLeft
    BY <2>3 DEF WindowLeft, WindowOf
  <2>4. CASE WindowTaken
    <3>1. WindowOf(ref, about)
      BY <2>1, <2>4, WindowSelected DEF WindowTaken
    <3>2. WindowOf(ref, about)'
      BY <2>4, <3>1 DEF WindowTaken, WindowOf
    <3>3. work'.stage # "idle"
      BY <2>4 DEF WindowTaken
    <3> QED BY <2>1, <3>2, <3>3
  <2> QED BY <2>2, <2>3, <2>4, WorkIs
<1> QED BY <1>1, <1>2, <1>a DEF ItemsOK

\* Only append_history_once writes the journal.
LEMMA JournalIs ==
  ASSUME CursorNext PROVE AppendOnce \/ journal' = journal
<1> USE DEF conversation, maintenance, memories, histories, counters
<1>1. CASE StartTurn \/ Memorize \/ AbandonTurn \/ Push \/ TaskNext \/ TaskReturn \/ TaskDone
  BY <1>1 DEF StartTurn, Memorize, AbandonTurn, Push, TaskNext, TaskReturn, TaskDone
<1>2. ASSUME NEW w \in 0 .. Len(messages), TrimHistory(w) PROVE journal' = journal
  BY <1>2 DEF TrimHistory
<1>3. ASSUME NEW skip \in BOOLEAN, Commit(skip) PROVE journal' = journal
  BY <1>3 DEF Commit
<1>4. ASSUME NEW force \in BOOLEAN, NEW archive \in BOOLEAN, Manual(force, archive)
      PROVE  journal' = journal
  BY <1>4 DEF Manual
<1>5. CASE SkipWindow \/ IndexAndSave \/ ManualTimeout \/ Restart \/ Undo
  BY <1>5 DEF SkipWindow, IndexAndSave, ManualTimeout, Restart, Undo, UndoTurn
<1>6. CASE EmitFails \/ SetCursor
  BY <1>6 DEF EmitFails, SetCursor
<1> QED BY <1>1, <1>2, <1>3, <1>4, <1>5, <1>6 DEF CursorNext

\* What a journalled window names is extracted in every step.
LEMMA JournalStep ==
  ASSUME CursorTypeOK, StoredOK, ItemsOK, JournalOK, CursorNext, Follows
  PROVE  JournalOK'
<1>1. ASSUME NEW r \in journal
      PROVE  /\ \A q \in r : q < store.nextSeq'
             /\ \A k \in 1 .. Len(store.rows') :
                   store.rows'[k].seq \in r => store.rows'[k].uid \in recorded'
  <2>1. r \in SUBSET Nat
    BY DEF CursorTypeOK
  <2> QED BY <2>1, ExtractedStays DEF JournalOK
<1>2. CASE AppendOnce
  <2>1. PICK ref, about : ref = work.ref /\ about = work.uids
    OBVIOUS
  <2>2. /\ store' = store /\ journal' = journal \cup {ref} /\ work'.ref = ref
        /\ recorded' = IF ref \in journal THEN recorded ELSE recorded \cup about
    <3>1. work \in Consolidation
      BY DEF CursorTypeOK
    <3> QED BY <1>2, <2>1, <3>1 DEF AppendOnce, conversation, Consolidation
  <2>3. WindowOf(ref, about)
    BY <2>1 DEF ItemsOK
  <2>4. ASSUME ref \notin journal
        PROVE  /\ \A q \in ref : q < store.nextSeq'
               /\ \A k \in 1 .. Len(store.rows') :
                     store.rows'[k].seq \in ref => store.rows'[k].uid \in recorded'
    BY <2>2, <2>3, <2>4 DEF WindowOf
  <2>5. ASSUME NEW r \in journal'
        PROVE  /\ \A q \in r : q < store.nextSeq'
               /\ \A k \in 1 .. Len(store.rows') :
                     store.rows'[k].seq \in r => store.rows'[k].uid \in recorded'
    BY <1>1, <2>2, <2>4
  <2>6. work'.ref \in journal'
    BY <2>2
  <2> QED BY <2>5, <2>6 DEF JournalOK
<1>3. CASE ~AppendOnce
  <2>1. journal' = journal
    BY <1>3, JournalIs
  <2>2. work'.stage = "appended" => work'.ref \in journal'
    <3>1. CASE WindowKept
      BY <1>3, <2>1, <3>1 DEF WindowKept, JournalOK
    <3>2. CASE WindowLeft \/ WindowTaken
      BY <3>2 DEF WindowLeft, WindowTaken
    <3> QED BY <3>1, <3>2, WorkIs
  <2> QED BY <1>1, <2>1, <2>2 DEF JournalOK
<1> QED BY <1>2, <1>3

\* An undo: the two messages and their rows, by their place.
LEMMA PairIs ==
  ASSUME CursorTypeOK, MemoryIsTailOfRows, StoredOK, NEW a \in PassiveTurns, UndoTurn(a)
  PROVE  \E p \in 2 .. Len(store.rows) :
            /\ messages[a] = store.rows[p] /\ messages[a - 1] = store.rows[p - 1]
            /\ p - 1 \in 1 .. Len(store.rows) /\ p \in 1 .. Len(store.rows)
            /\ \A k \in 1 .. Len(store.rows') :
                  \E l \in 1 .. Len(store.rows) :
                     store.rows'[k] = store.rows[l] /\ l # p - 1 /\ l # p
<1>1. PICK p : p = Len(store.rows) - Len(messages) + a
  OBVIOUS
<1>2. /\ p \in 2 .. Len(store.rows) /\ messages[a] = store.rows[p] /\ messages[a - 1] = store.rows[p - 1]
      /\ store.rows' = Closed(store.rows, p)
  BY <1>1, UndoIs, SMTT(30)
<1>3. PICK s \in Seq(Message) : s = store.rows
  BY RowsAre
<1>4. \A k \in 1 .. Len(Closed(s, p)) :
         \E l \in 1 .. Len(s) : Closed(s, p)[k] = s[l] /\ l # p - 1 /\ l # p
  <2>1. p \in 2 .. Len(s)
    BY <1>2, <1>3
  <2>2. ASSUME NEW k \in 1 .. Len(Closed(s, p))
        PROVE  \E l \in 1 .. Len(s) : Closed(s, p)[k] = s[l] /\ l # p - 1 /\ l # p
    BY <2>1, ClosedPlaces
  <2> QED BY <2>2
<1>5. p - 1 \in 1 .. Len(store.rows) /\ p \in 1 .. Len(store.rows)
  BY <1>2, RowsAre
<1>6. \A k \in 1 .. Len(store.rows') :
         \E l \in 1 .. Len(store.rows) : store.rows'[k] = store.rows[l] /\ l # p - 1 /\ l # p
  BY <1>2, <1>3, <1>4
<1> QED BY <1>2, <1>5, <1>6

\* No row is left with the id of either, nor with its number.
LEMMA PairIsGone ==
  ASSUME CursorTypeOK, MemoryIsTailOfRows, StoredOK, NEW a \in PassiveTurns, UndoTurn(a),
         NEW m \in {messages[a - 1], messages[a]}
  PROVE  /\ \A k \in 1 .. Len(store.rows') : store.rows'[k].seq # m.seq /\ store.rows'[k].uid # m.uid
         /\ \E l \in 1 .. Len(store.rows) : store.rows[l] = m
<1>1. PICK p \in 2 .. Len(store.rows) :
            /\ messages[a] = store.rows[p] /\ messages[a - 1] = store.rows[p - 1]
            /\ p - 1 \in 1 .. Len(store.rows) /\ p \in 1 .. Len(store.rows)
            /\ \A k \in 1 .. Len(store.rows') :
                  \E l \in 1 .. Len(store.rows) :
                     store.rows'[k] = store.rows[l] /\ l # p - 1 /\ l # p
  BY PairIs
<1>2. PICK j \in 1 .. Len(store.rows) : m = store.rows[j] /\ (j = p \/ j = p - 1)
  BY <1>1
<1>3. ASSUME NEW k \in 1 .. Len(store.rows')
      PROVE  store.rows'[k].seq # m.seq /\ store.rows'[k].uid # m.uid
  <2>1. PICK l \in 1 .. Len(store.rows) : store.rows'[k] = store.rows[l] /\ l # p - 1 /\ l # p
    BY <1>1
  <2>2. /\ store.rows[l].seq = store.rows[j].seq => l = j
        /\ store.rows[l].uid = store.rows[j].uid => l = j
    BY RowsAre, AscendingIs DEF StoredOK
  <2> QED BY <1>2, <2>1, <2>2
<1> QED BY <1>2, <1>3

\* A window item is retired only together with a row.
LEMMA RetiredStep ==
  ASSUME CursorTypeOK, MemoryIsTailOfRows, StoredOK, ItemsOK, RetiredIsGone, CursorNext, Follows
  PROVE  RetiredIsGone'
<1> SUFFICES ASSUME NEW i \in items', i.by = "window", ~i.active
             PROVE  \E q \in i.ref : \A k \in 1 .. Len(store.rows') : store.rows'[k].seq # q
  BY DEF RetiredIsGone
<1>1. ASSUME NEW j \in items, j.by = "window", ~j.active
      PROVE  \E q \in j.ref : \A k \in 1 .. Len(store.rows') : store.rows'[k].seq # q
  <2>1. PICK ref, about : ref = j.ref /\ about = j.about
    OBVIOUS
  <2>2. /\ ref \in SUBSET Nat /\ about \in SUBSET Nat /\ WindowOf(ref, about)
        /\ \E q \in ref : \A k \in 1 .. Len(store.rows) : store.rows[k].seq # q
    BY <1>1, <2>1, ItemIs DEF ItemsOK, ItemOf, RetiredIsGone
  <2> QED BY <2>1, <2>2, RetiredStays
<1>2. CASE i \in items
  BY <1>1, <1>2
<1>3. /\ i # OwnItem /\ i # Item("memorize", {turn.predicted}, {turn.uid})
      /\ \A ref \in KnownRefs : /\ i # InKnownRow(ref, work.ref, work.uids)
                               /\ i # InKnownRow(ref, {turn.predicted}, {turn.uid})
  BY DEF OwnItem, InKnownRow, Item
<1>4. ASSUME NEW j \in items, i = [j EXCEPT !.active = FALSE], NEW a \in PassiveTurns, UndoTurn(a),
             j \in Affected({messages[a - 1].seq, messages[a].seq})
      PROVE  \E q \in i.ref : \A k \in 1 .. Len(store.rows') : store.rows'[k].seq # q
  <2>1. i.ref = j.ref
    BY <1>4, ItemIs DEF MemoryItem
  <2>2. PICK m \in {messages[a - 1], messages[a]} : m.seq \in i.ref
    BY <1>4, <2>1 DEF Affected
  <2>3. \A k \in 1 .. Len(store.rows') : store.rows'[k].seq # m.seq
    BY <1>4, PairIsGone
  <2> QED BY <2>2, <2>3
<1> QED BY <1>2, <1>3, <1>4, ItemsAre

\* Only an undo adds to what is undone.
LEMMA UndoneIs ==
  ASSUME CursorTypeOK, StoredOK, TurnIsNew, CursorNext
  PROVE  undone' = undone \/ (turn.pc = "idle" /\ \E a \in PassiveTurns : UndoTurn(a))
BY StepIs, IncidentIs DEF Calm, Appending

\* /undo forgets what it deletes, except for what is stray.
LEMMA UndoneByUndo ==
  ASSUME CursorTypeOK, MemoryIsTailOfRows, StoredOK, TurnIsNew, ItemsOK, UndoneIsGone, Follows,
         NEW a \in PassiveTurns, UndoTurn(a)
  PROVE  UndoneIsGone'
<1>1. PICK t, u : t = messages[a - 1] /\ u = messages[a]
  OBVIOUS
<1>2. undone' = undone \cup {t.uid, u.uid}
  BY <1>1 DEF UndoTurn
<1>3. \A m \in {t, u} :
         /\ \A k \in 1 .. Len(store.rows') : store.rows'[k].uid # m.uid
         /\ \E l \in 1 .. Len(store.rows) : store.rows[l] = m
  BY <1>1, PairIsGone
<1>4. /\ \A v \in undone : 1 <= v /\ v <= created'
      /\ \A k \in 1 .. Len(store.rows') : store.rows'[k].uid \notin undone
  BY UndoneStays DEF UndoneIsGone
<1>5. \A m \in {t, u} : 1 <= m.uid /\ m.uid <= created'
  <2>1. created' = created
    BY DEF UndoTurn, counters
  <2>2. \A l \in 1 .. Len(store.rows) : 1 <= store.rows[l].uid /\ store.rows[l].uid <= created
    BY RowsAre, ListIs, SessionConstants
  <2> QED BY <1>3, <2>1, <2>2
<1>6. \A v \in undone' : 1 <= v /\ v <= created'
  BY <1>2, <1>4, <1>5
<1>7. \A k \in 1 .. Len(store.rows') : store.rows'[k].uid \notin undone'
  BY <1>2, <1>3, <1>4
<1>8. work'.uids \cap undone' \subseteq stray'
  <2>1. work'.uids = work.uids
    BY DEF UndoTurn, CursorTypeOK, Consolidation
  <2>2. stray' \in {stray, stray \cup ({t.uid, u.uid} \cap work.uids), stray \cup {t.uid, u.uid}}
        /\ (work.stage # "idle" => stray \cup ({t.uid, u.uid} \cap work.uids) \subseteq stray')
    BY <1>1 DEF UndoTurn
  <2>3. work.uids \cap undone \subseteq stray /\ (work.stage = "idle" => work.uids = {})
    BY DEF UndoneIsGone, ItemsOK
  <2> QED BY <1>2, <2>1, <2>2, <2>3
<1>a. stray \subseteq stray'
  BY DEF Follows
<1>b. \/ items' = (items \ Affected({t.seq, u.seq}))
                     \cup {[i EXCEPT !.active = FALSE] : i \in Affected({t.seq, u.seq})}
      \/ items' = items /\ {t.uid, u.uid} \subseteq stray'
  BY <1>1 DEF UndoTurn
<1>9. ASSUME NEW i \in items', i.active, i.by # "borrowed", ~({t.uid, u.uid} \subseteq stray')
      PROVE  i.about \cap undone' \subseteq stray'
  <2>1. i \in items /\ i \notin Affected({t.seq, u.seq})
    <3>1. ASSUME NEW j \in items, i = [j EXCEPT !.active = FALSE] PROVE FALSE
      BY <1>9, <3>1, ItemIs DEF MemoryItem
    <3>2. Affected({t.seq, u.seq}) \subseteq items
      BY DEF Affected
    <3> QED BY <1>9, <1>b, <3>1, <3>2
  <2>2. t.seq \notin i.ref /\ u.seq \notin i.ref
    BY <2>1 DEF Affected
  <2>3. stray \subseteq stray' /\ i.about \cap undone \subseteq stray
    BY <1>9, <2>1 DEF Follows, UndoneIsGone, UndoneIsForgotten
  <2>4. ASSUME NEW m \in {t, u}, m.uid \in i.about PROVE m.uid \in stray
    <3>1. PICK l \in 1 .. Len(store.rows) : store.rows[l] = m
      BY <1>3
    <3>2. m.seq \notin i.ref
      BY <2>2
    <3>3. ItemOf(i.by, i.ref, i.about) /\ i.by \in {"memorize", "window", "again"}
      BY <1>9, <2>1, ItemIs DEF ItemsOK
    <3>4. i.by # "window"
      BY <2>4, <3>1, <3>2, <3>3 DEF ItemOf, WindowOf
    <3> QED BY <2>4, <3>1, <3>2, <3>3, <3>4 DEF ItemOf, SourcedOf
  <2> QED BY <1>2, <2>3, <2>4
<1>10. ASSUME NEW i \in items', i.active, i.by # "borrowed", {t.uid, u.uid} \subseteq stray'
       PROVE  i.about \cap undone' \subseteq stray'
  <2>1. i \in items
    <3>1. ASSUME NEW j \in items, i = [j EXCEPT !.active = FALSE] PROVE FALSE
      BY <1>10, <3>1, ItemIs DEF MemoryItem
    <3>2. Affected({t.seq, u.seq}) \subseteq items
      BY DEF Affected
    <3> QED BY <1>b, <3>1, <3>2
  <2>2. i.about \cap undone \subseteq stray
    BY <1>10, <2>1 DEF UndoneIsGone, UndoneIsForgotten
  <2> QED BY <1>2, <1>a, <1>10, <2>2
<1> QED BY <1>6, <1>7, <1>8, <1>9, <1>10 DEF UndoneIsGone, UndoneIsForgotten

\* Nothing brings it back.
LEMMA UndoneStep ==
  ASSUME CursorTypeOK, MemoryIsTailOfRows, StoredOK, TurnIsNew, ItemsOK, UndoneIsGone, CursorNext,
         Follows
  PROVE  UndoneIsGone'
<1>1. ASSUME NEW a \in PassiveTurns, UndoTurn(a) PROVE UndoneIsGone'
  BY <1>1, UndoneByUndo
<1>2. CASE ~(\E a \in PassiveTurns : UndoTurn(a))
  <2>1. undone' = undone
    BY <1>2, UndoneIs
  <2>2. /\ \A u \in undone : 1 <= u /\ u <= created'
        /\ \A k \in 1 .. Len(store.rows') : store.rows'[k].uid \notin undone
    BY UndoneStays DEF UndoneIsGone
  <2>3. stray \subseteq stray'
    BY DEF Follows
  <2>4. work'.uids \cap undone \subseteq stray'
    <3>1. CASE WindowKept \/ WindowLeft
      BY <2>3, <3>1 DEF WindowKept, WindowLeft, UndoneIsGone
    <3>2. CASE WindowTaken
      <4>1. PICK ref, about : ref = work'.ref /\ about = work'.uids
        OBVIOUS
      <4>2. \A u \in about : \E l \in 1 .. Len(store.rows) : store.rows[l].uid = u
        BY <3>2, <4>1, WindowSelected DEF WindowTaken
      <4>3. about \cap undone = {}
        BY <4>2 DEF UndoneIsGone
      <4> QED BY <4>1, <4>3
    <3> QED BY <3>1, <3>2, WorkIs
  <2>5. ASSUME NEW i \in items', i.active, i.by # "borrowed"
        PROVE  i.about \cap undone \subseteq stray'
    <3>1. CASE i \in items
      BY <2>3, <2>5, <3>1 DEF UndoneIsGone, UndoneIsForgotten
    <3>2. CASE \/ i = OwnItem
               \/ \E ref \in KnownRefs : i = InKnownRow(ref, work.ref, work.uids)
      <4>1. i.about = work.uids
        BY <3>2 DEF OwnItem, InKnownRow, Item
      <4> QED BY <2>3, <4>1 DEF UndoneIsGone
    <3>3. CASE /\ \/ i = Item("memorize", {turn.predicted}, {turn.uid})
                  \/ \E ref \in KnownRefs : i = InKnownRow(ref, {turn.predicted}, {turn.uid})
               /\ Memorize
      <4>1. i.about = {turn.uid}
        BY <3>3 DEF InKnownRow, Item
      <4> QED BY <3>3, <4>1 DEF Memorize, TurnIsNew
    <3> QED BY <1>2, <3>1, <3>2, <3>3, ItemsAre
  <2> QED BY <2>1, <2>2, <2>4, <2>5 DEF UndoneIsGone, UndoneIsForgotten
<1> QED BY <1>1, <1>2

\* The message of a running turn stays new.
LEMMA TurnStep ==
  ASSUME CursorTypeOK, StoredOK, TurnIsNew, UndoneIsGone, CursorNext, Follows
  PROVE  TurnIsNew'
<1>1. undone' = undone \/ turn.pc = "idle"
  BY UndoneIs
<1>2. \A u \in undone : u <= created
  BY DEF UndoneIsGone
<1> QED BY <1>1, <1>2, TurnStaysNew

\* The ids at the start.
LEMMA IdsInit == CursorInit => IdsInv
<1> SUFFICES ASSUME CursorInit PROVE IdsInv
  OBVIOUS
<1>1. /\ messages = <<>> /\ store.rows = <<>> /\ store.nextSeq = 0 /\ store.lastConsolidated = 0
      /\ lastConsolidated = 0 /\ created = 0 /\ turn = NoTurn /\ work = Unlocked
      /\ items = {} /\ journal = {} /\ recorded = {} /\ undone = {} /\ stray = {} /\ lost = {}
  BY DEF CursorInit
<1>2. <<>> \in Seq(Message) /\ Len(<<>>) = 0 /\ SubSeq(<<>>, 1, 0) = <<>>
  OBVIOUS
<1>3. CursorTypeOK
  <2>1. store \in [rows : Seq(Message), lastConsolidated : Nat, nextSeq : Nat]
    BY <1>2 DEF CursorInit
  <2>2. turn \in [pc : {"idle", "reasoning"}, uid : 0 .. MaxMessages, predicted : Nat]
    BY SessionConstants DEF CursorInit, NoTurn
  <2>3. work \in Consolidation
    BY DEF CursorInit, Unlocked, Consolidation
  <2> QED BY <1>1, <1>2, <2>1, <2>2, <2>3 DEF CursorInit, CursorTypeOK
<1>4. MemoryIsTailOfRows
  BY <1>1, <1>2 DEF MemoryIsTailOfRows
<1>5. StoredOK
  BY <1>1, <1>2, SessionConstants DEF StoredOK, Below, Ascending, Answered
<1>6. TurnIsNew
  BY <1>1 DEF TurnIsNew, NoTurn
<1>7. ItemsOK
  BY <1>1, <1>2 DEF ItemsOK, WindowOf, Unlocked
<1>8. UndoneIsGone /\ RetiredIsGone /\ JournalOK
  BY <1>1, <1>2 DEF UndoneIsGone, UndoneIsForgotten, RetiredIsGone, JournalOK, Unlocked
<1> QED BY <1>3, <1>4, <1>5, <1>6, <1>7, <1>8 DEF IdsInv

\* The ids after a step.
LEMMA IdsNext == IdsInv /\ CursorNext => IdsInv'
<1> SUFFICES ASSUME IdsInv, CursorNext PROVE IdsInv'
  OBVIOUS
<1>1. /\ CursorTypeOK /\ MemoryIsTailOfRows /\ StoredOK /\ TurnIsNew
      /\ ItemsOK /\ UndoneIsGone /\ RetiredIsGone /\ JournalOK
  BY DEF IdsInv
<1>2. CursorTypeOK' /\ StoredOK'
  BY <1>1, TypesStep, StoredStep
<1>3. MemoryIsTailOfRows' /\ Follows
  BY <1>1, <1>2, TailStep, FollowsStep
<1>4. TurnIsNew' /\ ItemsOK' /\ UndoneIsGone'
  BY <1>1, <1>3, TurnStep, ItemsStep, UndoneStep
<1>5. RetiredIsGone' /\ JournalOK'
  BY <1>1, <1>3, RetiredStep, JournalStep
<1> QED BY <1>2, <1>3, <1>4, <1>5 DEF IdsInv

\* The ids when nothing changes.
LEMMA IdsStutter == IdsInv /\ UNCHANGED cursorVars => IdsInv'
<1> SUFFICES ASSUME IdsInv, UNCHANGED cursorVars PROVE IdsInv'
  OBVIOUS
<1>1. /\ UNCHANGED <<messages, lastConsolidated, store, turn>> /\ UNCHANGED <<queue, task, work>>
      /\ UNCHANGED <<journal, items>> /\ UNCHANGED <<recorded, undone, stray, lost, raced>>
      /\ UNCHANGED <<created, incidents>>
  BY DEF cursorVars, conversation, maintenance, memories, histories, counters
<1>2. /\ CursorTypeOK /\ MemoryIsTailOfRows /\ StoredOK /\ TurnIsNew
      /\ ItemsOK /\ UndoneIsGone /\ RetiredIsGone /\ JournalOK
  BY DEF IdsInv
<1>3. CursorTypeOK' /\ MemoryIsTailOfRows' /\ StoredOK' /\ TurnIsNew'
  BY <1>1, <1>2 DEF CursorTypeOK, MemoryIsTailOfRows, StoredOK, TurnIsNew
<1>4. ItemsOK'
  BY <1>1, <1>2 DEF ItemsOK, ItemOf, RefOK, WindowOf, SourcedOf
<1>5. UndoneIsGone' /\ RetiredIsGone' /\ JournalOK'
  BY <1>1, <1>2 DEF UndoneIsGone, UndoneIsForgotten, RetiredIsGone, JournalOK
<1> QED BY <1>3, <1>4, <1>5 DEF IdsInv

\* Which ids a window, an item, the journal and /undo name, in every state.
THEOREM IdsAreKept == CursorSpec => []IdsInv
<1>1. IdsInv /\ [CursorNext]_cursorVars => IdsInv'
  BY IdsNext, IdsStutter
<1> QED BY <1>1, IdsInit, PTL DEF CursorSpec

-----------------------------------------------------------------------------
(* The inductive invariant: the cursor                                       *)

\* Nobody consolidates without holding the maintenance lock.
LockOK == work.by = "none" => work.stage = "idle"

\* These ids are those of the messages first to last, no others.
Spans(first, last, ref) ==
    /\ last <= Len(messages)
    /\ \A k \in 1 .. Len(messages) : messages[k].seq \in ref <=> first <= k /\ k <= last
    /\ \A q \in ref : \E k \in 1 .. Len(messages) : messages[k].seq = q

\* A selected window that has not moved starts at the cursor, or is all of the list.
WindowAhead ==
    Pending /\ ~work.moved =>
        /\ lastConsolidated <= work.upTo
        /\ Spans(IF work.archive THEN 1 ELSE lastConsolidated + 1, work.upTo, work.ref)

\* Everything up to here is in the memory files.
Extracted(c) == c <= Len(messages) /\ \A k \in 1 .. c : messages[k].uid \in recorded

\* No turn that could be undone without moving a cursor at c shares these ids.
SafeFrom(ref, c) ==
    \A a \in PassiveTurns : a - 2 >= c => messages[a - 1].seq \notin ref /\ messages[a].seq \notin ref

\* The cursor has passed the window and its item is still to come.
Arriving == work.stage = "emit"

\* A message has an active item that outlives such an undo, or will have one.
Covered(u, c) ==
    \/ \E i \in items : i.by = "window" /\ i.active /\ u \in i.about /\ SafeFrom(i.ref, c)
    \/ Arriving /\ u \in work.uids /\ SafeFrom(work.ref, c)

\* Everything up to here has an item that an undo which stops here keeps.
Remembered(c) == \A k \in 1 .. c : messages[k].uid \in lost \/ Covered(messages[k].uid, c)

\* An undo that takes the cursor back to the first message of a window finds
\* everything before it remembered.
RollbackSafe(ref) ==
    \A a \in PassiveTurns : \A p \in 1 .. a - 1 :
        /\ messages[p].seq \in ref /\ \A q \in 1 .. p - 1 : messages[q].seq \notin ref
        /\ messages[a - 1].seq \in ref \/ messages[a].seq \in ref
        => Remembered(p - 1)

\* Every window that has an item or is about to get one is safe to roll back.
WindowsSafe ==
    /\ \A i \in items : i.by = "window" => RollbackSafe(i.ref)
    /\ work.stage = "emit" => RollbackSafe(work.ref)

\* Both cursors, in memory and in SQLite, are after extracted and remembered messages.
CursorOK ==
    /\ WindowAhead
    /\ Extracted(lastConsolidated) /\ Remembered(lastConsolidated)
    /\ Extracted(store.lastConsolidated) /\ Remembered(store.lastConsolidated)
    /\ WindowsSafe

\* The cursor is promised something only until it was set for another list.
CursorInv == IdsInv /\ LockOK /\ (~raced => CursorOK)

-----------------------------------------------------------------------------
(* The list in memory                                                        *)

\* What can be said of one message of the list.
LEMMA MemoryIs ==
  ASSUME IdsInv
  PROVE  /\ messages \in Seq(Message) /\ Len(messages) \in Nat
         /\ lastConsolidated \in Nat /\ store.lastConsolidated \in Nat
         /\ \A k \in 1 .. Len(messages) :
               /\ messages[k].uid \in Nat /\ messages[k].seq \in Nat
               /\ messages[k].seq < store.nextSeq /\ store.nextSeq \in Nat
               /\ \E l \in 1 .. Len(store.rows) : messages[k] = store.rows[l]
         /\ Ascending(messages) /\ Answered(messages)
<1>1. CursorTypeOK /\ MemoryIsTailOfRows /\ StoredOK
  BY DEF IdsInv
<1>2. PICK d \in Nat : EndAt(messages, store.rows, d)
  BY <1>1, MemoryEndsRows
<1>3. PICK m \in Nat : m = Len(messages) /\ Len(store.rows) = m + d
                       /\ \A k \in 1 .. m : messages[k] = store.rows[k + d]
  BY <1>1, <1>2, RowOf DEF EndAt
<1>4. \A k \in 1 .. m : k + d \in 1 .. Len(store.rows)
  BY <1>3
<1>5. \A k \in 1 .. m :
         /\ messages[k].uid \in Nat /\ messages[k].seq \in Nat
         /\ messages[k].seq < store.nextSeq /\ store.nextSeq \in Nat
         /\ \E l \in 1 .. Len(store.rows) : messages[k] = store.rows[l]
  BY <1>1, <1>3, <1>4, RowsAre
<1>6. ASSUME NEW k \in 1 .. m, NEW l \in 1 .. m, k < l
      PROVE  messages[k].seq < messages[l].seq /\ messages[k].uid # messages[l].uid
  <2>1. PICK i, j \in 1 .. Len(store.rows) : i = k + d /\ j = l + d
    BY <1>4
  <2>2. i < j
    BY <1>6, <2>1
  <2>3. store.rows[i].seq < store.rows[j].seq /\ store.rows[i].uid # store.rows[j].uid
    BY <1>1, <2>2 DEF StoredOK, Ascending
  <2> QED BY <1>3, <2>1, <2>3
<1>7. ASSUME NEW k \in 1 .. m, messages[k].role = "user"
      PROVE  k < m /\ messages[k + 1].role = "assistant"
  <2>1. k + d < Len(store.rows) /\ store.rows[k + d + 1].role = "assistant"
    BY <1>1, <1>3, <1>4, <1>7 DEF StoredOK, Answered
  <2>2. k < m /\ k + 1 \in 1 .. m /\ k + d + 1 = k + 1 + d
    BY <1>3, <2>1
  <2>3. messages[k + 1] = store.rows[k + 1 + d]
    BY <1>3, <2>2
  <2> QED BY <2>1, <2>2, <2>3
<1>8. lastConsolidated \in Nat /\ store.lastConsolidated \in Nat
  BY <1>1 DEF CursorTypeOK
<1> QED BY <1>1, <1>3, <1>5, <1>6, <1>7, <1>8, RowOf DEF Ascending, Answered

\* What a window names among the messages.
LEMMA WindowInMemory ==
  ASSUME IdsInv, NEW ref \in SUBSET Nat, NEW about, WindowOf(ref, about)
  PROVE  /\ \A k \in 1 .. Len(messages) : messages[k].seq \in ref <=> messages[k].uid \in about
         /\ \A i, j, k \in 1 .. Len(messages) :
               i <= j /\ j <= k /\ messages[i].seq \in ref /\ messages[k].seq \in ref
               => messages[j].seq \in ref
         /\ \A q \in ref : q < store.nextSeq
<1>1. \A k \in 1 .. Len(messages) : messages[k].seq \in ref <=> messages[k].uid \in about
  BY MemoryIs DEF WindowOf
<1>2. ASSUME NEW i \in 1 .. Len(messages), NEW j \in 1 .. Len(messages), NEW k \in 1 .. Len(messages),
             i <= j, j <= k, messages[i].seq \in ref, messages[k].seq \in ref
      PROVE  messages[j].seq \in ref
  <2>1. messages[i].seq <= messages[j].seq /\ messages[j].seq <= messages[k].seq
    BY <1>2, MemoryIs, AscendingIs
  <2>2. PICK l \in 1 .. Len(store.rows) : messages[j] = store.rows[l]
    BY MemoryIs
  <2> QED BY <1>2, <2>1, <2>2 DEF WindowOf
<1>3. \A q \in ref : q < store.nextSeq
  BY DEF WindowOf
<1> QED BY <1>1, <1>2, <1>3

\* The ids of a selected window are those of its positions.
LEMMA SpansSelected ==
  ASSUME IdsInv, NEW first \in 1 .. Len(messages) + 1, NEW last \in 0 .. Len(messages),
         first <= last + 1
  PROVE  Spans(first, last, Seqs(SubSeq(messages, first, last)))
<1>1. PICK ref : ref = Seqs(SubSeq(messages, first, last))
  OBVIOUS
<1>2. PICK m \in Nat : m = Len(messages) /\ first \in 1 .. m + 1 /\ last \in 0 .. m
  BY MemoryIs
<1>3. /\ \A k \in first .. last : messages[k].seq \in ref
      /\ \A q \in ref : \E k \in first .. last : q = messages[k].seq
  BY <1>1, MemoryIs, WindowIs
<1>4. \A k \in first .. last : k \in 1 .. m
  BY <1>2
<1>5. ASSUME NEW k \in 1 .. m, messages[k].seq \in ref PROVE first <= k /\ k <= last
  <2>1. PICK j \in first .. last : messages[k].seq = messages[j].seq
    BY <1>3, <1>5
  <2>2. k = j
    BY <1>2, <1>4, <2>1, MemoryIs, AscendingIs
  <2> QED BY <1>2, <2>2
<1>6. \A k \in 1 .. m : first <= k /\ k <= last => k \in first .. last
  BY <1>2
<1>7. \A q \in ref : \E k \in 1 .. m : messages[k].seq = q
  BY <1>3, <1>4
<1> QED BY <1>1, <1>2, <1>3, <1>5, <1>6, <1>7 DEF Spans

\* What can be said of a turn that /undo could delete.
LEMMA TurnIs ==
  ASSUME IdsInv, NEW a \in PassiveTurns
  PROVE  /\ a \in Nat /\ a - 1 \in 1 .. Len(messages) /\ a \in 1 .. Len(messages)
         /\ a - 2 \in Nat /\ a - 2 <= Len(messages)
         /\ messages[a].role = "assistant" /\ messages[a - 1].role = "user"
BY MemoryIs DEF PassiveTurns

-----------------------------------------------------------------------------
(* Steps that keep the list                                                  *)

\* Active window items stay; one that is on its way arrives or is lost.
ItemsLast ==
    /\ lost \subseteq lost'
    /\ \A i \in items : i.by = "window" /\ i.active => i \in items'
    /\ Arriving => \/ Arriving' /\ work'.ref = work.ref /\ work'.uids = work.uids
                   \/ work.uids \subseteq lost'
                   \/ OwnItem \in items'

\* The ids of a window that has an item or will have one.
Named(ref) ==
    \/ \E i \in items : i.by = "window" /\ i.ref = ref
    \/ work.stage = "emit" /\ work.ref = ref

\* A message that is covered stays covered where undos are safe from c2.
LEMMA CoverStays ==
  ASSUME CursorTypeOK, ItemsLast, NEW u, NEW c, NEW c2, Covered(u, c),
         \A r \in SUBSET Nat : Named(r) /\ SafeFrom(r, c) => SafeFrom(r, c2)'
  PROVE  u \in lost' \/ Covered(u, c2)'
<1>1. ASSUME NEW i \in items, i.by = "window", i.active, u \in i.about, SafeFrom(i.ref, c)
      PROVE  Covered(u, c2)'
  <2>1. PICK r \in SUBSET Nat : r = i.ref
    BY ItemIs
  <2>2. SafeFrom(r, c2)'
    BY <1>1, <2>1 DEF Named
  <2>3. i \in items'
    BY <1>1 DEF ItemsLast
  <2> QED BY <1>1, <2>1, <2>2, <2>3 DEF Covered
<1>2. ASSUME Arriving, u \in work.uids, SafeFrom(work.ref, c)
      PROVE  u \in lost' \/ Covered(u, c2)'
  <2>1. PICK r \in SUBSET Nat : r = work.ref
    BY WorkTyped
  <2>2. SafeFrom(r, c2)'
    BY <1>2, <2>1 DEF Arriving, Named
  <2>3. CASE Arriving' /\ work'.ref = work.ref /\ work'.uids = work.uids
    BY <1>2, <2>1, <2>2, <2>3 DEF Covered
  <2>4. CASE work.uids \subseteq lost'
    BY <1>2, <2>4
  <2>5. ASSUME OwnItem \in items' PROVE Covered(u, c2)'
    <3>1. PICK i \in items' : i = OwnItem
      BY <2>5
    <3>2. i.by = "window" /\ i.active /\ i.about = work.uids /\ i.ref = r
      BY <2>1, <3>1 DEF OwnItem, Item
    <3> QED BY <1>2, <2>2, <3>2 DEF Covered
  <2> QED BY <1>2, <2>3, <2>4, <2>5 DEF ItemsLast
<1> QED BY <1>1, <1>2 DEF Covered

\* What is remembered stays remembered while the list stays.
LEMMA CalmRemembers ==
  ASSUME CursorTypeOK, ItemsLast, messages' = messages, NEW c, Remembered(c)
  PROVE  Remembered(c)'
<1>1. \A r : SafeFrom(r, c) => SafeFrom(r, c)'
  BY DEF SafeFrom, PassiveTurns
<1>2. ASSUME NEW k \in 1 .. c PROVE messages'[k].uid \in lost' \/ Covered(messages[k].uid, c)'
  <2>1. PICK u : u = messages[k].uid /\ u = messages'[k].uid
    OBVIOUS
  <2>2. u \in lost \/ Covered(u, c)
    BY <2>1 DEF Remembered
  <2>3. ASSUME Covered(u, c) PROVE u \in lost' \/ Covered(u, c)'
    BY <1>1, <2>3, CoverStays
  <2>4. u \in lost' \/ Covered(u, c)'
    BY <2>2, <2>3 DEF ItemsLast
  <2> QED BY <2>1, <2>4
<1> QED BY <1>2 DEF Remembered

\* So does what a rollback would find.
LEMMA CalmRollback ==
  ASSUME CursorTypeOK, ItemsLast, messages' = messages, NEW ref, RollbackSafe(ref)
  PROVE  RollbackSafe(ref)'
<1> SUFFICES ASSUME NEW a \in PassiveTurns', NEW p \in 1 .. a - 1,
                    messages'[p].seq \in ref, \A q \in 1 .. p - 1 : messages'[q].seq \notin ref,
                    messages'[a - 1].seq \in ref \/ messages'[a].seq \in ref
             PROVE  Remembered(p - 1)'
  BY DEF RollbackSafe
<1>1. a \in PassiveTurns
  BY DEF PassiveTurns
<1>2. Remembered(p - 1)
  BY <1>1 DEF RollbackSafe
<1> QED BY <1>2, CalmRemembers

\* The lock's holder goes on with the same window, at the same stage or the next.
Onward ==
    /\ work'.by = work.by /\ work'.ref = work.ref /\ work'.uids = work.uids
    /\ work'.upTo = work.upTo /\ work'.archive = work.archive
    /\ work.moved => work'.moved
    /\ work'.stage = work.stage \/ (work.stage = "extract" /\ work'.stage = "appended")

\* A consolidation that keeps its window goes on with it.
LEMMA OnwardIs ==
  ASSUME CursorTypeOK,
         \/ work' = work
         \/ \E moved \in BOOLEAN : (work.moved => moved) /\ work' = [work EXCEPT !.moved = moved]
         \/ work.stage = "extract" /\ work' = [work EXCEPT !.stage = "appended"]
  PROVE  Onward
<1>1. work \in Consolidation
  BY DEF CursorTypeOK
<1> QED BY <1>1 DEF Onward, Consolidation

\* Steps that change neither a list nor a cursor in memory.
Resting == messages' = messages /\ lastConsolidated' = lastConsolidated /\ raced' = raced

\* Steps that neither move the cursor nor leave the window.
LEMMA QuietIs ==
  ASSUME CursorTypeOK, StartTurn \/ Memorize \/ AbandonTurn \/ TaskDone \/ AppendOnce
  PROVE  /\ Resting /\ Onward /\ store' = store /\ items \subseteq items' /\ lost' = lost
         /\ \A i \in items' : i.by = "window" => i \in items
         /\ recorded \subseteq recorded'
<1> USE DEF conversation, maintenance, memories, histories, counters
<1>1. CASE StartTurn
  BY <1>1, OnwardIs DEF StartTurn, Resting
<1>2. CASE Memorize
  <2>1. \A i \in items' : i.by = "window" => i \in items
    BY <1>2, MemorizeIs DEF InKnownRow, Item
  <2>2. items \subseteq items'
    BY <1>2, MemorizeIs
  <2>3. UNCHANGED <<messages, lastConsolidated, store, work, recorded, lost, raced>>
    BY <1>2 DEF Memorize
  <2> QED BY <2>1, <2>2, <2>3, OnwardIs DEF Resting
<1>3. CASE AbandonTurn
  BY <1>3, OnwardIs DEF AbandonTurn, Resting
<1>4. CASE TaskDone
  BY <1>4, OnwardIs DEF TaskDone, Resting
<1>5. CASE AppendOnce
  BY <1>5, OnwardIs DEF AppendOnce, Resting
<1> QED BY <1>1, <1>2, <1>3, <1>4, <1>5

\* Steps that leave the window.
LEMMA ReleaseIs ==
  ASSUME CursorTypeOK, TaskReturn \/ SkipWindow \/ IndexAndSave \/ EmitFails \/ ManualTimeout
  PROVE  /\ Resting /\ work'.stage = "idle" /\ (work'.by = "none" \/ work'.by = "task")
         /\ store'.lastConsolidated \in {store.lastConsolidated, lastConsolidated}
         /\ recorded' = recorded /\ store'.rows = store.rows
<1> USE DEF conversation, maintenance, memories, histories, counters
<1>a. /\ Finished.stage = "idle" /\ (Finished.by = "none" \/ Finished.by = "task")
      /\ Unlocked.stage = "idle" /\ Unlocked.by = "none"
  BY DEF Finished, Unlocked
<1>1. CASE TaskReturn
  BY <1>a, <1>1 DEF TaskReturn, Resting
<1>2. CASE SkipWindow
  BY <1>a, <1>2 DEF SkipWindow, Resting
<1>3. CASE IndexAndSave
  BY <1>a, <1>3, CursorSaved DEF IndexAndSave, Resting, CursorTypeOK
<1>4. CASE EmitFails
  BY <1>a, <1>4 DEF EmitFails, Resting
<1>5. CASE ManualTimeout
  BY <1>a, <1>5 DEF ManualTimeout, Resting
<1> QED BY <1>1, <1>2, <1>3, <1>4, <1>5

\* Steps that select a window.
LEMMA SelectIs ==
  ASSUME CursorTypeOK, LockOK,
         \/ TaskNext
         \/ \E force \in BOOLEAN : Manual(force, FALSE)
         \/ Manual(TRUE, TRUE)
  PROVE  /\ Resting /\ work.stage = "idle" /\ store' = store /\ items' = items /\ lost' = lost
         /\ recorded' = recorded
         /\ \E who \in {"task", "manual"} :
               \/ work' = [Unlocked EXCEPT !.by = "task"]
               \/ work' = Window(who, 1, Len(messages), TRUE)
               \/ \E force \in BOOLEAN :
                     /\ Selectable(force)
                     /\ work' = Window(who, lastConsolidated + 1, WindowEnd(force), FALSE)
<1> USE DEF conversation, memories, histories
<1>1. CASE TaskNext
  <2>1. /\ Resting /\ work.stage = "idle" /\ store' = store /\ items' = items /\ lost' = lost
        /\ recorded' = recorded
    BY <1>1 DEF TaskNext, Resting
  <2>2. \/ work' = [Unlocked EXCEPT !.by = "task"]
        \/ Selectable(FALSE) /\ work' = Window("task", lastConsolidated + 1, WindowEnd(FALSE), FALSE)
    BY <1>1 DEF TaskNext
  <2> QED BY <2>1, <2>2
<1>2. ASSUME NEW force \in BOOLEAN, NEW archive \in BOOLEAN, Manual(force, archive)
      PROVE  /\ Resting /\ work.stage = "idle" /\ store' = store /\ items' = items /\ lost' = lost
             /\ recorded' = recorded
  BY <1>2 DEF Manual, Resting, LockOK
<1>3. ASSUME NEW force \in BOOLEAN, Manual(force, FALSE)
      PROVE  /\ Selectable(force)
             /\ work' = Window("manual", lastConsolidated + 1, WindowEnd(force), FALSE)
  BY <1>3 DEF Manual
<1>4. ASSUME Manual(TRUE, TRUE) PROVE work' = Window("manual", 1, Len(messages), TRUE)
  BY <1>4 DEF Manual
<1> QED BY <1>1, <1>2, <1>3, <1>4

\* The step that sets the cursor.
LEMMA SetCursorIs ==
  ASSUME CursorTypeOK, SetCursor
  PROVE  /\ messages' = messages /\ store' = store /\ items' = items /\ lost' = lost
         /\ recorded' = recorded /\ work.stage = "appended" /\ work'.stage = "emit"
         /\ work'.by = work.by /\ work'.ref = work.ref /\ work'.uids = work.uids
         /\ lastConsolidated' = IF work.archive THEN 0 ELSE work.upTo
         /\ raced' = (raced \/ work.moved)
<1>1. work \in Consolidation
  BY DEF CursorTypeOK
<1> QED BY <1>1 DEF SetCursor, memories, Consolidation

\* Consolidating needs the lock in every step.
LEMMA LockStep ==
  ASSUME CursorTypeOK, LockOK, CursorNext PROVE LockOK'
<1> USE DEF conversation, maintenance, memories, histories, counters
<1>a. /\ \A who \in {"task", "manual"} : \A first, last, archive :
            Window(who, first, last, archive).by # "none"
      /\ [Unlocked EXCEPT !.by = "task"].by # "none"
  BY DEF Window, Unlocked
<1>1. CASE StartTurn \/ Memorize \/ AbandonTurn \/ TaskDone \/ AppendOnce
  BY <1>1, QuietIs DEF LockOK, Onward
<1>2. CASE TaskReturn \/ SkipWindow \/ IndexAndSave \/ EmitFails \/ ManualTimeout
  BY <1>2, ReleaseIs DEF LockOK
<1>3. CASE TaskNext \/ (\E force \in BOOLEAN : Manual(force, FALSE)) \/ Manual(TRUE, TRUE)
  BY <1>3, <1>a, SelectIs DEF LockOK
<1>4. CASE SetCursor
  BY <1>4, SetCursorIs DEF LockOK
<1>5. CASE Push
  BY <1>5 DEF Push, LockOK
<1>6. ASSUME NEW skip \in BOOLEAN, Commit(skip) PROVE LockOK'
  BY <1>6 DEF Commit, LockOK
<1>7. ASSUME NEW w \in 0 .. Len(messages), TrimHistory(w) PROVE LockOK'
  <2>1. Onward
    BY <1>7, OnwardIs DEF TrimHistory, Pending, CursorTypeOK, Consolidation
  <2> QED BY <2>1 DEF LockOK, Onward
<1>8. CASE Undo
  <2>1. Onward
    BY <1>8, OnwardIs DEF Undo, UndoTurn, Pending, CursorTypeOK, Consolidation
  <2> QED BY <2>1 DEF LockOK, Onward
<1>9. CASE Restart
  BY <1>9 DEF Restart, LockOK, Unlocked
<1> QED BY <1>1, <1>2, <1>3, <1>4, <1>5, <1>6, <1>7, <1>8, <1>9 DEF CursorNext

\* Only an undo retires an item of a window.
LEMMA ItemsLastStep ==
  ASSUME CursorTypeOK, LockOK, CursorNext, ~Undo PROVE ItemsLast
<1> USE DEF conversation, maintenance, memories, histories, counters
<1>a. ASSUME items \subseteq items', \A i \in items' : i.by = "window" => i \in items,
             lost' = lost, Onward
      PROVE  ItemsLast
  BY <1>a DEF ItemsLast, Arriving, Onward
<1>b. ASSUME items \subseteq items', lost' = lost, work.stage # "emit" PROVE ItemsLast
  BY <1>b DEF ItemsLast, Arriving
<1>1. CASE StartTurn \/ Memorize \/ AbandonTurn \/ TaskDone \/ AppendOnce
  BY <1>1, <1>a, QuietIs
<1>2. CASE TaskNext \/ (\E force \in BOOLEAN : Manual(force, FALSE)) \/ Manual(TRUE, TRUE)
  BY <1>2, <1>b, SelectIs
<1>3. CASE SetCursor
  BY <1>3, <1>b, SetCursorIs
<1>4. CASE TaskReturn \/ SkipWindow
  BY <1>4, <1>b DEF TaskReturn, SkipWindow
<1>5. ASSUME Indexed PROVE ItemsLast
  BY <1>5, IndexedIs DEF ItemsLast
<1>6. CASE IndexAndSave
  BY <1>5, <1>6 DEF IndexAndSave
<1>7. CASE EmitFails
  BY <1>5, <1>7 DEF EmitFails
<1>8. CASE ManualTimeout \/ Restart
  BY <1>8 DEF ManualTimeout, Restart, Unindexed, ItemsLast, Arriving
<1>9. CASE Push
  <2>1. Onward
    BY <1>9, OnwardIs DEF Push
  <2> QED BY <1>9, <2>1, <1>a DEF Push
<1>10. ASSUME NEW skip \in BOOLEAN, Commit(skip) PROVE ItemsLast
  <2>1. Onward
    BY <1>10, OnwardIs DEF Commit
  <2> QED BY <1>10, <2>1, <1>a DEF Commit
<1>11. ASSUME NEW w \in 0 .. Len(messages), TrimHistory(w) PROVE ItemsLast
  <2>1. Onward
    BY <1>11, OnwardIs DEF TrimHistory, Pending, CursorTypeOK, Consolidation
  <2> QED BY <1>11, <2>1, <1>a DEF TrimHistory
<1> QED BY <1>1, <1>2, <1>3, <1>4, <1>6, <1>7, <1>8, <1>9, <1>10, <1>11 DEF CursorNext

\* Every window that has an item had one or was on its way.
LEMMA NamedBefore ==
  ASSUME CursorTypeOK, CursorNext, NEW i \in items', i.by = "window" PROVE Named(i.ref)
<1>1. CASE i \in items
  BY <1>1 DEF Named
<1>2. CASE i = OwnItem /\ work.stage = "emit"
  BY <1>2 DEF OwnItem, Item, Named
<1>3. /\ i # Item("memorize", {turn.predicted}, {turn.uid})
      /\ \A ref \in KnownRefs : /\ i # InKnownRow(ref, work.ref, work.uids)
                               /\ i # InKnownRow(ref, {turn.predicted}, {turn.uid})
  BY DEF InKnownRow, Item
<1>4. ASSUME NEW j \in items, i = [j EXCEPT !.active = FALSE] PROVE Named(i.ref)
  <2>1. i.by = j.by /\ i.ref = j.ref
    BY <1>4, ItemIs DEF MemoryItem
  <2> QED BY <2>1 DEF Named
<1> QED BY <1>1, <1>2, <1>3, <1>4, ItemsAre

\* No rollback becomes unsafe while the list stays.
LEMMA CalmWindows ==
  ASSUME CursorTypeOK, CursorNext, ItemsLast, messages' = messages, WindowsSafe,
         work'.stage = "emit" => work.stage = "emit" /\ work'.ref = work.ref
  PROVE  WindowsSafe'
<1>1. ASSUME NEW r, Named(r) PROVE RollbackSafe(r)'
  <2>1. RollbackSafe(r)
    BY <1>1 DEF Named, WindowsSafe
  <2> QED BY <2>1, CalmRollback
<1>2. ASSUME NEW i \in items', i.by = "window" PROVE RollbackSafe(i.ref)'
  <2>1. PICK r : r = i.ref
    OBVIOUS
  <2> QED BY <1>1, <1>2, <2>1, NamedBefore
<1>3. ASSUME work'.stage = "emit" PROVE RollbackSafe(work.ref)'
  <2>1. PICK r : r = work.ref /\ r = work'.ref
    BY <1>3
  <2> QED BY <1>1, <1>3, <2>1 DEF Named
<1> QED BY <1>2, <1>3 DEF WindowsSafe

\* What a step that keeps the list has to show.
LEMMA CalmCursor ==
  ASSUME IdsInv, CursorOK, CursorNext, ItemsLast, messages' = messages, recorded \subseteq recorded',
         store'.lastConsolidated \in {store.lastConsolidated, lastConsolidated},
         WindowAhead', WindowsSafe',
         \/ lastConsolidated' \in {lastConsolidated, store.lastConsolidated}
         \/ (Extracted(lastConsolidated) /\ Remembered(lastConsolidated))'
  PROVE  CursorOK'
<1>0. CursorTypeOK
  BY DEF IdsInv
<1>1. ASSUME NEW c \in {lastConsolidated, store.lastConsolidated}
      PROVE  \A d : d = c => Extracted(d)' /\ Remembered(d)'
  <2>1. ASSUME NEW d, d = c PROVE Extracted(d)' /\ Remembered(d)'
    <3>1. Extracted(d) /\ Remembered(d)
      BY <1>1, <2>1 DEF CursorOK
    <3>2. Extracted(d)'
      BY <3>1 DEF Extracted
    <3>3. Remembered(d)'
      BY <1>0, <3>1, CalmRemembers
    <3> QED BY <3>2, <3>3
  <2> QED BY <2>1
<1>2. (Extracted(lastConsolidated) /\ Remembered(lastConsolidated))'
  <2>1. CASE lastConsolidated' \in {lastConsolidated, store.lastConsolidated}
    <3>1. PICK d \in {lastConsolidated, store.lastConsolidated} : d = lastConsolidated'
      BY <2>1
    <3> QED BY <1>1, <3>1
  <2> QED BY <2>1
<1>3. (Extracted(store.lastConsolidated) /\ Remembered(store.lastConsolidated))'
  <2>1. PICK d \in {lastConsolidated, store.lastConsolidated} : d = store'.lastConsolidated
    OBVIOUS
  <2> QED BY <1>1, <2>1
<1> QED BY <1>2, <1>3 DEF CursorOK

\* The cursor is kept by every step that leaves it alone,
LEMMA QuietCursor ==
  ASSUME IdsInv, LockOK, CursorOK, CursorNext,
         \/ StartTurn \/ Memorize \/ AbandonTurn \/ TaskDone \/ AppendOnce
         \/ TaskReturn \/ SkipWindow \/ IndexAndSave \/ EmitFails \/ ManualTimeout
  PROVE  CursorOK'
<1>0. CursorTypeOK
  BY DEF IdsInv
<1>1. ~Undo \/ CursorOK'
  <2>1. CASE Undo
    <3>1. Len(messages') # Len(messages)
      <4>1. Max(PassiveTurns) \in PassiveTurns
        BY <1>0, <2>1, LastTurnIs DEF Undo, CursorTypeOK
      <4>2. PICK a \in PassiveTurns : UndoTurn(a)
        BY <2>1, <4>1 DEF Undo
      <4>3. messages' = Closed(messages, a) /\ a \in 2 .. Len(messages)
        BY <4>2, UndoIs DEF IdsInv
      <4>4. Len(Closed(messages, a)) = Len(messages) - 2
        BY <4>3, MemoryIs, ClosedIs
      <4> QED BY <4>3, <4>4, MemoryIs
    <3>2. messages' = messages
      BY <1>0, QuietIs, ReleaseIs DEF Resting
    <3> QED BY <3>1, <3>2
  <2> QED BY <2>1
<1>2. CASE ~Undo
  <2>0. ItemsLast
    BY <1>0, <1>2, ItemsLastStep
  <2>1. CASE StartTurn \/ Memorize \/ AbandonTurn \/ TaskDone \/ AppendOnce
    <3>1. /\ messages' = messages /\ lastConsolidated' = lastConsolidated /\ store' = store
          /\ Onward /\ recorded \subseteq recorded'
      BY <1>0, <2>1, QuietIs DEF Resting
    <3>2. WindowAhead'
      BY <3>1 DEF CursorOK, WindowAhead, Pending, Onward, Spans
    <3>3. WindowsSafe'
      BY <1>0, <2>0, <3>1, CalmWindows DEF CursorOK, Onward
    <3> QED BY <2>0, <3>1, <3>2, <3>3, CalmCursor
  <2>2. CASE TaskReturn \/ SkipWindow \/ IndexAndSave \/ EmitFails \/ ManualTimeout
    <3>1. /\ messages' = messages /\ lastConsolidated' = lastConsolidated /\ work'.stage = "idle"
          /\ store'.lastConsolidated \in {store.lastConsolidated, lastConsolidated}
          /\ recorded' = recorded
      BY <1>0, <2>2, ReleaseIs DEF Resting
    <3>2. WindowAhead'
      BY <3>1 DEF WindowAhead, Pending
    <3>3. WindowsSafe'
      BY <1>0, <2>0, <3>1, CalmWindows DEF CursorOK
    <3> QED BY <2>0, <3>1, <3>2, <3>3, CalmCursor
  <2> QED BY <2>1, <2>2
<1> QED BY <1>1, <1>2

\* when a window is selected,
LEMMA SelectCursor ==
  ASSUME IdsInv, LockOK, CursorOK, CursorNext, ~Undo,
         \/ TaskNext
         \/ \E force \in BOOLEAN : Manual(force, FALSE)
         \/ Manual(TRUE, TRUE)
  PROVE  CursorOK'
<1>0. CursorTypeOK /\ ItemsLast
  BY ItemsLastStep DEF IdsInv
<1>1. /\ messages' = messages /\ lastConsolidated' = lastConsolidated /\ store' = store
      /\ recorded' = recorded
  BY <1>0, SelectIs DEF Resting
<1>2. PICK who \in {"task", "manual"} :
               \/ work' = [Unlocked EXCEPT !.by = "task"]
               \/ work' = Window(who, 1, Len(messages), TRUE)
               \/ \E force \in BOOLEAN :
                     /\ Selectable(force)
                     /\ work' = Window(who, lastConsolidated + 1, WindowEnd(force), FALSE)
  BY <1>0, SelectIs
<1>3. work'.stage # "emit"
  BY <1>2 DEF Unlocked, Window
<1>4. \A first, last, ref : Spans(first, last, ref) => Spans(first, last, ref)'
  BY <1>1 DEF Spans
<1>5. WindowAhead'
  <2>1. CASE work' = [Unlocked EXCEPT !.by = "task"]
    BY <2>1 DEF WindowAhead, Pending, Unlocked
  <2>2. CASE work' = Window(who, 1, Len(messages), TRUE)
    <3>1. /\ work'.archive = TRUE /\ work'.upTo = Len(messages)
          /\ work'.ref = Seqs(SubSeq(messages, 1, Len(messages)))
      BY <2>2 DEF Window
    <3>2. 1 \in 1 .. Len(messages) + 1 /\ Len(messages) \in 0 .. Len(messages) /\ 1 <= Len(messages) + 1
      BY MemoryIs
    <3>3. Spans(1, Len(messages), Seqs(SubSeq(messages, 1, Len(messages))))
      BY <3>2, SpansSelected
    <3>4. PICK ref, last : /\ ref = Seqs(SubSeq(messages, 1, Len(messages))) /\ last = Len(messages)
                           /\ Spans(1, last, ref)
      BY <3>3
    <3>5. Spans(1, last, ref)'
      BY <1>4, <3>4
    <3>6. lastConsolidated' <= last
      BY <1>1, <3>4 DEF CursorOK, Extracted
    <3> QED BY <3>1, <3>4, <3>5, <3>6 DEF WindowAhead
  <2>3. ASSUME NEW force \in BOOLEAN, Selectable(force),
               work' = Window(who, lastConsolidated + 1, WindowEnd(force), FALSE)
        PROVE  WindowAhead'
    <3>1. PICK first, last : first = lastConsolidated + 1 /\ last = WindowEnd(force)
      OBVIOUS
    <3>2. PICK ref : ref = Seqs(SubSeq(messages, first, last))
      OBVIOUS
    <3>3. work'.archive = FALSE /\ work'.upTo = last /\ work'.ref = ref
      BY <2>3, <3>1, <3>2 DEF Window
    <3>4. /\ first \in 1 .. Len(messages) + 1 /\ last \in 0 .. Len(messages) /\ first <= last + 1
          /\ lastConsolidated <= last
      BY <1>0, <2>3, <3>1, SelectableIs, MemoryIs
    <3>5. Spans(first, last, ref)
      BY <3>2, <3>4, SpansSelected
    <3>6. Spans(first, last, ref)'
      BY <1>4, <3>5
    <3> QED BY <1>1, <3>1, <3>3, <3>4, <3>6 DEF WindowAhead
  <2> QED BY <1>2, <2>1, <2>2, <2>3
<1>6. WindowsSafe'
  BY <1>0, <1>1, <1>3, CalmWindows DEF CursorOK
<1> QED BY <1>0, <1>1, <1>5, <1>6, CalmCursor

\* and when a restart loads the saved one.
LEMMA RestartCursor ==
  ASSUME IdsInv, LockOK, CursorOK, CursorNext, ~Undo, Restart, ~raced'
  PROVE  CursorOK'
<1>0. CursorTypeOK /\ ItemsLast
  BY ItemsLastStep DEF IdsInv
<1>1. /\ messages' = store.rows /\ lastConsolidated' = store.lastConsolidated /\ store' = store
      /\ recorded' = recorded /\ work'.stage = "idle" /\ Len(messages) = Len(store.rows)
  BY DEF Restart, Unlocked
<1>2. messages = store.rows
  <2>1. PICK s, t : s = store.rows /\ t = messages /\ Len(s) = Len(t)
    BY <1>1
  <2>2. s \in Seq(Message) /\ t \in Seq(Message) /\ \A k \in 1 .. Len(t) : t[k] = s[k]
    <3>1. PICK d \in Nat : EndAt(t, s, d)
      BY <1>0, <2>1, MemoryEndsRows DEF IdsInv
    <3>2. s \in Seq(Message) /\ t \in Seq(Message) /\ Len(s) \in Nat /\ Len(t) \in Nat
      BY <1>0, <2>1, ListIs DEF CursorTypeOK
    <3>3. d = 0
      BY <2>1, <3>1, <3>2 DEF EndAt
    <3>4. \A k \in 1 .. Len(t) : k + d = k
      BY <3>3
    <3> QED BY <3>1, <3>2, <3>4 DEF EndAt
  <2>3. s = t
    BY <2>1, <2>2, SeqEqual
  <2> QED BY <2>1, <2>3
<1>3. messages' = messages
  BY <1>1, <1>2
<1>4. WindowAhead' /\ WindowsSafe'
  BY <1>0, <1>1, <1>3, CalmWindows DEF WindowAhead, Pending, CursorOK
<1> QED BY <1>0, <1>1, <1>3, <1>4, CalmCursor

\* The cursor moves to the end of the window: what it passes was extracted, and has
\* an item or is to get one.
LEMMA PassedIsWindow ==
  ASSUME IdsInv, CursorOK, CursorNext, SetCursor, ~work.moved, ~work.archive
  PROVE  (Extracted(lastConsolidated) /\ Remembered(lastConsolidated))'
<1>0. CursorTypeOK
  BY DEF IdsInv
<1>1. /\ messages' = messages /\ items' = items /\ lost' = lost /\ recorded' = recorded
      /\ work.stage = "appended" /\ work'.stage = "emit"
      /\ work'.ref = work.ref /\ work'.uids = work.uids /\ lastConsolidated' = work.upTo
  BY <1>0, SetCursorIs
<1>2. PICK c, e, ref, about : c = lastConsolidated /\ e = work.upTo /\ ref = work.ref /\ about = work.uids
  OBVIOUS
<1>3. /\ c \in Nat /\ e \in Nat /\ c <= e /\ e <= Len(messages) /\ Len(messages) \in Nat
      /\ \A k \in 1 .. Len(messages) : messages[k].seq \in ref <=> c + 1 <= k /\ k <= e
      /\ \A q \in ref : \E k \in 1 .. Len(messages) : messages[k].seq = q
      /\ Remembered(c) /\ Extracted(c)
  BY <1>0, <1>1, <1>2, MemoryIs, WorkTyped DEF CursorOK, WindowAhead, Pending, Spans
<1>4. ref \in SUBSET Nat /\ WindowOf(ref, about) /\ ref \in journal
  BY <1>0, <1>1, <1>2, WorkTyped DEF IdsInv, ItemsOK, JournalOK
<1>5. ASSUME NEW k \in 1 .. e PROVE k \in 1 .. c \/ (messages[k].seq \in ref /\ messages[k].uid \in about)
  <2>1. k \in 1 .. c \/ c + 1 <= k
    BY <1>3
  <2>2. k \in 1 .. Len(messages) /\ k <= e
    BY <1>3
  <2> QED BY <1>3, <1>4, <2>1, <2>2, WindowInMemory
<1>6. Extracted(e)'
  <2>1. ASSUME NEW k \in 1 .. e PROVE messages[k].uid \in recorded
    <3>1. CASE k \in 1 .. c
      BY <1>3, <3>1 DEF Extracted
    <3>2. CASE messages[k].seq \in ref
      <4>1. k \in 1 .. Len(messages)
        BY <1>3
      <4>2. PICK l \in 1 .. Len(store.rows) : messages[k] = store.rows[l]
        BY <4>1, MemoryIs
      <4> QED BY <1>4, <3>2, <4>2 DEF IdsInv, JournalOK
    <3> QED BY <1>5, <3>1, <3>2
  <2> QED BY <1>1, <1>3, <2>1 DEF Extracted
<1>7. ASSUME NEW r, SafeFrom(r, c) PROVE SafeFrom(r, e)'
  <2>1. \A a \in PassiveTurns : a - 2 >= e => a - 2 >= c
    BY <1>3, TurnIs
  <2> QED BY <1>1, <1>7, <2>1 DEF SafeFrom, PassiveTurns
<1>8. SafeFrom(ref, e)'
  <2>1. ASSUME NEW a \in PassiveTurns, a - 2 >= e
        PROVE  messages[a - 1].seq \notin ref /\ messages[a].seq \notin ref
    <3>1. a - 1 \in 1 .. Len(messages) /\ a \in 1 .. Len(messages) /\ ~(a - 1 <= e) /\ ~(a <= e)
      BY <1>3, <2>1, TurnIs
    <3> QED BY <1>3, <3>1
  <2>2. PassiveTurns' = PassiveTurns
    BY <1>1 DEF PassiveTurns
  <2> QED BY <1>1, <2>1, <2>2 DEF SafeFrom
<1>9. ASSUME NEW k \in 1 .. e PROVE messages[k].uid \in lost \/ Covered(messages[k].uid, e)'
  <2>1. PICK u : u = messages[k].uid
    OBVIOUS
  <2>2. CASE k \in 1 .. c
    <3>1. u \in lost \/ Covered(u, c)
      BY <1>3, <2>1, <2>2 DEF Remembered
    <3>2. ASSUME Covered(u, c) PROVE Covered(u, e)'
      <4>1. PICK i \in items : i.by = "window" /\ i.active /\ u \in i.about /\ SafeFrom(i.ref, c)
        BY <1>1, <3>2 DEF Covered, Arriving
      <4>2. PICK r : r = i.ref
        OBVIOUS
      <4>3. SafeFrom(r, e)'
        BY <1>7, <4>1, <4>2
      <4> QED BY <1>1, <4>1, <4>2, <4>3 DEF Covered
    <3> QED BY <1>1, <2>1, <3>1, <3>2
  <2>3. CASE messages[k].seq \in ref /\ messages[k].uid \in about
    <3>1. CASE \E i \in items : i.by = "window" /\ i.ref = ref
      <4>1. PICK i \in items : i.by = "window" /\ i.ref = ref
        BY <3>1
      <4>2. i.active
        <5>1. ASSUME NEW q \in ref PROVE \E l \in 1 .. Len(store.rows) : store.rows[l].seq = q
          <6>1. PICK j \in 1 .. Len(messages) : messages[j].seq = q
            BY <1>3
          <6>2. PICK l \in 1 .. Len(store.rows) : messages[j] = store.rows[l]
            BY MemoryIs
          <6> QED BY <6>1, <6>2
        <5> QED BY <4>1, <5>1 DEF IdsInv, RetiredIsGone
      <4>3. PICK other : other = i.about
        OBVIOUS
      <4>4. WindowOf(ref, other)
        BY <4>1, <4>3 DEF IdsInv, ItemsOK, ItemOf
      <4>5. k \in 1 .. Len(messages)
        BY <1>3
      <4>6. u \in other
        BY <1>4, <2>1, <2>3, <4>4, <4>5, WindowInMemory
      <4> QED BY <1>1, <1>8, <2>1, <4>1, <4>2, <4>3, <4>6 DEF Covered
    <3>2. CASE ~(\E i \in items : i.by = "window" /\ i.ref = ref)
      <4>1. Arriving'
        BY <1>1, <1>2, <3>2 DEF Arriving
      <4> QED BY <1>1, <1>2, <1>8, <2>1, <2>3, <4>1 DEF Covered
    <3> QED BY <3>1, <3>2
  <2> QED BY <1>5, <2>2, <2>3
<1>10. Remembered(e)'
  BY <1>1, <1>9 DEF Remembered
<1> QED BY <1>1, <1>2, <1>6, <1>10

\* It is kept when it is set to the end of a window that did not move.
LEMMA SetCursorCursor ==
  ASSUME IdsInv, LockOK, CursorOK, CursorNext, ~Undo, SetCursor, ~raced'
  PROVE  CursorOK'
<1>0. CursorTypeOK /\ ItemsLast
  BY ItemsLastStep DEF IdsInv
<1>1. /\ messages' = messages /\ store' = store /\ items' = items /\ lost' = lost
      /\ recorded' = recorded /\ work.stage = "appended" /\ work'.stage = "emit"
      /\ work'.ref = work.ref /\ work'.uids = work.uids
      /\ lastConsolidated' = (IF work.archive THEN 0 ELSE work.upTo)
      /\ ~work.moved
  BY <1>0, SetCursorIs
<1>2. WindowAhead'
  BY <1>1 DEF WindowAhead, Pending
<1>3. (Extracted(lastConsolidated) /\ Remembered(lastConsolidated))'
  <2>1. CASE work.archive
    <3>1. Extracted(0)' /\ Remembered(0)'
      <4>1. Len(messages') \in Nat /\ 1 .. 0 = {}
        BY <1>1, MemoryIs
      <4> QED BY <4>1 DEF Extracted, Remembered
    <3> QED BY <1>1, <2>1, <3>1
  <2>2. CASE ~work.archive
    BY <1>1, <2>2, PassedIsWindow
  <2> QED BY <2>1, <2>2
<1>4. PICK ref, e, c, first : /\ ref = work.ref /\ e = work.upTo /\ c = lastConsolidated
                              /\ first = IF work.archive THEN 1 ELSE c + 1
  OBVIOUS
<1>5. /\ c \in Nat /\ e \in Nat /\ c <= e /\ e <= Len(messages) /\ Len(messages) \in Nat
      /\ \A k \in 1 .. Len(messages) : messages[k].seq \in ref <=> first <= k /\ k <= e
      /\ Remembered(c)
  BY <1>0, <1>1, <1>4, MemoryIs, WorkTyped DEF CursorOK, WindowAhead, Pending, Spans
<1>6. Remembered(c)' /\ Remembered(0)'
  <2>1. Remembered(0)
    BY DEF Remembered
  <2> QED BY <1>0, <1>1, <1>5, <2>1, CalmRemembers
<1>7. RollbackSafe(ref)'
  <2> SUFFICES ASSUME NEW a \in PassiveTurns', NEW p \in 1 .. a - 1,
                      messages'[p].seq \in ref, \A q \in 1 .. p - 1 : messages'[q].seq \notin ref,
                      messages'[a - 1].seq \in ref \/ messages'[a].seq \in ref
               PROVE  Remembered(p - 1)'
    BY DEF RollbackSafe
  <2>1. a \in PassiveTurns
    BY <1>1 DEF PassiveTurns
  <2>2. a \in Nat /\ a - 1 \in 1 .. Len(messages) /\ p \in 1 .. Len(messages)
    BY <1>5, <2>1, TurnIs
  <2>3. first <= p /\ p <= e
    BY <1>1, <1>5, <2>2
  <2>4. first \in 1 .. Len(messages) /\ first <= e
    BY <1>4, <1>5, <2>2, <2>3
  <2>5. messages[first].seq \in ref
    BY <1>5, <2>4
  <2>6. ~(first \in 1 .. p - 1)
    BY <1>1, <2>5
  <2>7. p = first
    BY <2>2, <2>3, <2>4, <2>6
  <2>8. p - 1 = 0 \/ p - 1 = c
    BY <1>4, <1>5, <2>7
  <2> QED BY <1>6, <2>8
<1>8. WindowsSafe'
  <2>1. ASSUME NEW i \in items', i.by = "window" PROVE RollbackSafe(i.ref)'
    <3>1. PICK r : r = i.ref /\ RollbackSafe(r)
      BY <1>1, <2>1 DEF CursorOK, WindowsSafe
    <3>2. RollbackSafe(r)'
      BY <1>0, <1>1, <3>1, CalmRollback
    <3> QED BY <3>1, <3>2
  <2>2. RollbackSafe(work.ref)'
    BY <1>1, <1>4, <1>7
  <2> QED BY <2>1, <2>2 DEF WindowsSafe
<1> QED BY <1>0, <1>1, <1>2, <1>3, <1>8, CalmCursor

-----------------------------------------------------------------------------
(* Steps that change the list                                                *)

\* A window that has an item or will have one is a window.
LEMMA NamedIs ==
  ASSUME IdsInv, NEW r, Named(r)
  PROVE  r \in SUBSET Nat /\ (\A q \in r : q < store.nextSeq) /\ \E about : WindowOf(r, about)
<1>0. CursorTypeOK
  BY DEF IdsInv
<1>1. ASSUME NEW i \in items, i.by = "window", i.ref = r
      PROVE  r \in SUBSET Nat /\ \E about : WindowOf(r, about)
  <2>1. r \in SUBSET Nat
    BY <1>0, <1>1, ItemIs
  <2>2. PICK about : about = i.about
    OBVIOUS
  <2>3. WindowOf(r, about)
    BY <1>1, <2>2 DEF IdsInv, ItemsOK, ItemOf
  <2> QED BY <2>1, <2>3
<1>2. ASSUME work.ref = r PROVE r \in SUBSET Nat /\ \E about : WindowOf(r, about)
  <2>1. r \in SUBSET Nat
    BY <1>0, <1>2, WorkTyped
  <2>2. PICK about : about = work.uids
    OBVIOUS
  <2>3. WindowOf(r, about)
    BY <1>2, <2>2 DEF IdsInv, ItemsOK
  <2> QED BY <2>1, <2>3
<1>3. r \in SUBSET Nat /\ \E about : WindowOf(r, about)
  BY <1>1, <1>2 DEF Named
<1> QED BY <1>3 DEF WindowOf

\* What is to be shown of the windows after a step.
LEMMA NamedSafe ==
  ASSUME CursorTypeOK, CursorNext, \A r : Named(r) => RollbackSafe(r)',
         work'.stage = "emit" => work.stage = "emit" /\ work'.ref = work.ref
  PROVE  WindowsSafe'
<1>1. ASSUME NEW i \in items', i.by = "window" PROVE RollbackSafe(i.ref)'
  <2>1. PICK r : r = i.ref
    OBVIOUS
  <2> QED BY <1>1, <2>1, NamedBefore
<1>2. ASSUME work'.stage = "emit" PROVE RollbackSafe(work.ref)'
  <2>1. PICK r : r = work.ref /\ r = work'.ref
    BY <1>2
  <2> QED BY <1>2, <2>1 DEF Named
<1> QED BY <1>1, <1>2 DEF WindowsSafe

\* The list after an append: the same messages, then newer ones.
LEMMA AppendedIs ==
  ASSUME IdsInv, NEW new \in Seq(Message), Appending(new), NEW m, m = Len(messages)
  PROVE  /\ m \in Nat /\ Len(messages') \in Nat /\ m <= Len(messages')
         /\ \A k \in 1 .. m : messages'[k] = messages[k]
         /\ \A k \in 1 .. Len(messages') :
               k \notin 1 .. m => messages'[k].seq \in Nat /\ messages'[k].seq >= store.nextSeq
         /\ \A a \in PassiveTurns' : a \in PassiveTurns
               \/ (a - 1 \in (1 .. Len(messages')) \ (1 .. m) /\ a \in (1 .. Len(messages')) \ (1 .. m))
<1>1. messages' = messages \o new /\ \A k \in 1 .. Len(new) : new[k].seq >= store.nextSeq
  BY DEF Appending, AppendMessages
<1>2. PICK n \in Nat : \E j \in Nat : n = Len(messages) /\ j = Len(new)
                                      /\ Joined(messages \o new, messages, new, n, j)
  BY JoinedPlaces, MemoryIs
<1>3. PICK j \in Nat : n = Len(messages) /\ j = Len(new) /\ Joined(messages \o new, messages, new, n, j)
  BY <1>2
<1>4. /\ n = m /\ Len(messages') = m + j
      /\ \A k \in 1 .. m : messages'[k] = messages[k]
      /\ \A k \in 1 .. j : messages'[m + k] = new[k]
      /\ \A k \in 1 .. m + j : k \in 1 .. m \/ \E l \in 1 .. j : k = m + l
  BY <1>1, <1>3 DEF Joined
<1>5. ASSUME NEW k \in 1 .. m + j, k \notin 1 .. m
      PROVE  messages'[k].seq \in Nat /\ messages'[k].seq >= store.nextSeq
  <2>1. PICK l \in 1 .. j : k = m + l
    BY <1>4, <1>5
  <2>2. messages'[k] = new[l]
    BY <1>4, <2>1
  <2>3. new[l].seq \in Nat /\ new[l].seq >= store.nextSeq
    BY <1>1, <1>3, ListIs
  <2> QED BY <2>2, <2>3
<1>6. ASSUME NEW a \in PassiveTurns', a \notin PassiveTurns
      PROVE  a - 1 \in (1 .. m + j) \ (1 .. m) /\ a \in (1 .. m + j) \ (1 .. m)
  <2>1. /\ a \in 2 .. m + j /\ messages'[a].role = "assistant" /\ messages'[a - 1].role = "user"
    BY <1>4 DEF PassiveTurns
  <2>2. m \in Nat
    BY <1>3, <1>4
  <2>3. a \notin 2 .. m
    <3>1. ASSUME a \in 2 .. m PROVE FALSE
      <4>1. a \in 1 .. m /\ a - 1 \in 1 .. m
        BY <2>2, <3>1
      <4>2. messages[a].role = "assistant" /\ messages[a - 1].role = "user"
        BY <1>4, <2>1, <4>1
      <4> QED BY <1>6, <3>1, <4>2 DEF PassiveTurns
    <3> QED BY <3>1
  <2>4. a - 1 # m
    <3>1. ASSUME a - 1 = m PROVE FALSE
      <4>1. m \in 1 .. m
        BY <2>1, <2>2, <3>1
      <4>2. messages[m].role = "user"
        BY <1>4, <2>1, <3>1, <4>1
      <4>3. m < m
        BY <4>1, <4>2, MemoryIs DEF Answered
      <4> QED BY <2>2, <4>3
    <3> QED BY <3>1
  <2> QED BY <2>1, <2>2, <2>3, <2>4
<1>7. m \in Nat /\ m + j \in Nat /\ m <= m + j
  BY <1>3, <1>4
<1> QED BY <1>4, <1>5, <1>6, <1>7

\* The cursor is kept when messages are appended,
LEMMA AppendCursor ==
  ASSUME IdsInv, LockOK, CursorOK, CursorNext, ~Undo, NEW new \in Seq(Message), Appending(new),
         work' = work, lastConsolidated' = lastConsolidated
  PROVE  CursorOK'
<1>0. CursorTypeOK /\ ItemsLast
  BY ItemsLastStep DEF IdsInv
<1>1. store'.lastConsolidated = lastConsolidated /\ recorded' = recorded
  BY DEF Appending, AppendMessages
<1>2. PICK m : m = Len(messages)
  OBVIOUS
<1>3. /\ m \in Nat /\ Len(messages') \in Nat /\ m <= Len(messages')
      /\ \A k \in 1 .. m : messages'[k] = messages[k]
      /\ \A k \in 1 .. Len(messages') :
            k \notin 1 .. m => messages'[k].seq \in Nat /\ messages'[k].seq >= store.nextSeq
      /\ \A a \in PassiveTurns' : a \in PassiveTurns
            \/ (a - 1 \in (1 .. Len(messages')) \ (1 .. m) /\ a \in (1 .. Len(messages')) \ (1 .. m))
  BY <1>2, AppendedIs
<1>4. store.nextSeq \in Nat
  BY <1>0 DEF CursorTypeOK
<1>5. ASSUME NEW r \in SUBSET Nat, \A q \in r : q < store.nextSeq,
             NEW k \in 1 .. Len(messages'), k \notin 1 .. m
      PROVE  messages'[k].seq \notin r
  <2>1. PICK q : q = messages'[k].seq /\ q \in Nat /\ q >= store.nextSeq
    BY <1>3, <1>5
  <2> QED BY <1>4, <1>5, <2>1
<1>6. ASSUME NEW r, Named(r), NEW c, SafeFrom(r, c) PROVE SafeFrom(r, c)'
  <2>1. r \in SUBSET Nat /\ \A q \in r : q < store.nextSeq
    BY <1>6, NamedIs
  <2>2. ASSUME NEW a \in PassiveTurns', a - 2 >= c
        PROVE  messages'[a - 1].seq \notin r /\ messages'[a].seq \notin r
    <3>1. CASE a \in PassiveTurns
      <4>1. a \in 1 .. m /\ a - 1 \in 1 .. m
        BY <1>2, <3>1, TurnIs
      <4> QED BY <1>3, <1>6, <2>2, <3>1, <4>1 DEF SafeFrom
    <3>2. CASE a \notin PassiveTurns
      BY <1>3, <1>5, <2>1, <3>2
    <3> QED BY <3>1, <3>2
  <2> QED BY <2>2 DEF SafeFrom
<1>7. ASSUME NEW c, c \in Nat, c <= m, Remembered(c) PROVE Remembered(c)'
  <2>1. ASSUME NEW k \in 1 .. c PROVE messages'[k].uid \in lost' \/ Covered(messages[k].uid, c)'
    <3>1. k \in 1 .. m
      BY <1>3, <1>7
    <3>2. PICK u : u = messages[k].uid /\ u = messages'[k].uid
      BY <1>3, <3>1
    <3>3. u \in lost \/ Covered(u, c)
      BY <1>7, <3>2 DEF Remembered
    <3>4. ASSUME Covered(u, c) PROVE u \in lost' \/ Covered(u, c)'
      BY <1>0, <1>6, <3>4, CoverStays
    <3>5. u \in lost' \/ Covered(u, c)'
      BY <1>0, <3>3, <3>4 DEF ItemsLast
    <3> QED BY <3>2, <3>5
  <2> QED BY <2>1 DEF Remembered
<1>8. ASSUME NEW r, Named(r) PROVE RollbackSafe(r)'
  <2> SUFFICES ASSUME NEW a \in PassiveTurns', NEW p \in 1 .. a - 1,
                      messages'[p].seq \in r, \A q \in 1 .. p - 1 : messages'[q].seq \notin r,
                      messages'[a - 1].seq \in r \/ messages'[a].seq \in r
               PROVE  Remembered(p - 1)'
    BY DEF RollbackSafe
  <2>1. r \in SUBSET Nat /\ \A q \in r : q < store.nextSeq
    BY <1>8, NamedIs
  <2>2. a \in PassiveTurns
    BY <1>3, <1>5, <2>1
  <2>3. /\ a \in 1 .. m /\ a - 1 \in 1 .. m /\ p \in 1 .. m /\ p - 1 \in Nat /\ p - 1 <= m
        /\ \A q \in 1 .. p - 1 : q \in 1 .. m
    BY <1>2, <1>3, <2>2, TurnIs
  <2>4. /\ messages[p].seq \in r /\ \A q \in 1 .. p - 1 : messages[q].seq \notin r
        /\ messages[a - 1].seq \in r \/ messages[a].seq \in r
    BY <1>3, <2>3
  <2>5. RollbackSafe(r)
    BY <1>8 DEF Named, CursorOK, WindowsSafe
  <2>6. Remembered(p - 1)
    BY <2>2, <2>4, <2>5 DEF RollbackSafe
  <2> QED BY <1>7, <2>3, <2>6
<1>9. WindowsSafe'
  BY <1>0, <1>8, NamedSafe
<1>10. WindowAhead'
  <2>1. ASSUME NEW f, NEW l, NEW r \in SUBSET Nat, l \in Nat, \A q \in r : q < store.nextSeq, Spans(f, l, r)
        PROVE  Spans(f, l, r)'
    <3>1. l <= Len(messages')
      BY <1>2, <1>3, <2>1 DEF Spans
    <3>2. ASSUME NEW k \in 1 .. Len(messages')
          PROVE  messages'[k].seq \in r <=> f <= k /\ k <= l
      <4>1. CASE k \in 1 .. m
        BY <1>2, <1>3, <2>1, <4>1 DEF Spans
      <4>2. CASE k \notin 1 .. m
        <5>1. messages'[k].seq \notin r
          BY <1>5, <2>1, <4>2
        <5>2. ~(k <= l)
          BY <1>2, <1>3, <2>1, <4>2 DEF Spans
        <5> QED BY <5>1, <5>2
      <4> QED BY <4>1, <4>2
    <3>3. ASSUME NEW q \in r PROVE \E k \in 1 .. Len(messages') : messages'[k].seq = q
      <4>1. PICK k \in 1 .. m : messages[k].seq = q
        BY <1>2, <2>1 DEF Spans
      <4>2. k \in 1 .. Len(messages') /\ messages'[k].seq = q
        BY <1>3, <4>1
      <4> QED BY <4>2
    <3> QED BY <3>1, <3>2, <3>3 DEF Spans
  <2>2. PICK r, l, f : /\ r = work.ref /\ l = work.upTo
                       /\ f = IF work.archive THEN 1 ELSE lastConsolidated + 1
    OBVIOUS
  <2>3. r \in SUBSET Nat /\ l \in Nat /\ \A q \in r : q < store.nextSeq
    BY <1>0, <2>2, WorkTyped DEF IdsInv, ItemsOK, WindowOf
  <2>4. Spans(f, l, r) => Spans(f, l, r)'
    BY <2>1, <2>3
  <2> QED BY <2>2, <2>4 DEF CursorOK, WindowAhead, Pending
<1>11. PICK c : c = lastConsolidated /\ c = store'.lastConsolidated /\ c = lastConsolidated'
  BY <1>1
<1>12. c \in Nat /\ c <= m /\ Extracted(c) /\ Remembered(c)
  BY <1>2, <1>11, MemoryIs DEF CursorOK, Extracted
<1>13. Extracted(c)'
  <2>1. c <= Len(messages') /\ \A k \in 1 .. c : k \in 1 .. m
    BY <1>3, <1>12
  <2> QED BY <1>1, <1>3, <1>12, <2>1 DEF Extracted
<1>14. Remembered(c)'
  BY <1>7, <1>12
<1> QED BY <1>9, <1>10, <1>11, <1>13, <1>14 DEF CursorOK

\* The list in memory cut to its end.
LEMMA TrimmedIs ==
  ASSUME IdsInv, NEW w \in 0 .. Len(messages), TrimHistory(w)
  PROVE  \E d \in Nat : /\ Len(messages) = w + d /\ Len(messages') = w /\ w \in Nat
                        /\ \A k \in 1 .. w : messages'[k] = messages[k + d] /\ k + d \in 1 .. w + d
                        /\ \A a \in PassiveTurns' : a + d \in PassiveTurns
<1>1. PICK m \in Nat : m = Len(messages) /\ w \in 0 .. m
  BY MemoryIs
<1>2. PICK d \in Nat : d = m - w /\ m = w + d
  <2>1. m - w \in Nat /\ m = w + (m - w)
    BY <1>1
  <2> QED BY <2>1
<1>3. /\ messages' = SubSeq(messages, m - w + 1, m)
  BY <1>1 DEF TrimHistory
<1>4. Len(messages') = w /\ \A k \in 1 .. w : messages'[k] = messages[m - w + k]
  BY <1>1, <1>3, TailIs, MemoryIs
<1>5. ASSUME NEW k \in 1 .. w PROVE messages'[k] = messages[k + d] /\ k + d \in 1 .. w + d
  <2>1. m - w + k = k + d /\ k + d \in 1 .. w + d
    BY <1>1, <1>2
  <2> QED BY <1>4, <2>1
<1>6. ASSUME NEW a \in PassiveTurns' PROVE a + d \in PassiveTurns
  <2>1. a \in 2 .. w /\ messages'[a].role = "assistant" /\ messages'[a - 1].role = "user"
    BY <1>4 DEF PassiveTurns
  <2>2. a \in 1 .. w /\ a - 1 \in 1 .. w /\ a + d \in 2 .. m /\ a - 1 + d = a + d - 1
    BY <1>1, <1>2, <2>1
  <2>3. messages[a + d].role = "assistant" /\ messages[a - 1 + d].role = "user"
    BY <1>5, <2>1, <2>2
  <2>4. PICK b \in 2 .. m : b = a + d /\ b - 1 = a - 1 + d
    BY <2>2
  <2>5. b \in PassiveTurns
    BY <1>1, <2>3, <2>4 DEF PassiveTurns
  <2> QED BY <2>4, <2>5
<1>7. Len(messages) = w + d /\ w \in Nat
  BY <1>1, <1>2
<1> QED BY <1>4, <1>5, <1>6, <1>7

\* and when the list is cut and the cursor taken to its start.
LEMMA TrimCursor ==
  ASSUME IdsInv, LockOK, CursorOK, CursorNext, ~Undo, NEW w \in 0 .. Len(messages), TrimHistory(w)
  PROVE  CursorOK'
<1>0. CursorTypeOK /\ ItemsLast
  BY ItemsLastStep DEF IdsInv
<1>1. PICK d \in Nat : /\ Len(messages) = w + d /\ Len(messages') = w /\ w \in Nat
                       /\ \A k \in 1 .. w : messages'[k] = messages[k + d] /\ k + d \in 1 .. w + d
                       /\ \A a \in PassiveTurns' : a + d \in PassiveTurns
  BY TrimmedIs
<1>2. /\ lastConsolidated' = 0 /\ store'.lastConsolidated = 0 /\ Onward
      /\ (Pending => work'.moved)
  <2>1. Onward
    BY <1>0, OnwardIs DEF TrimHistory, Pending, CursorTypeOK, Consolidation
  <2>2. store'.lastConsolidated = 0
    BY <1>0, CursorSaved DEF TrimHistory
  <2> QED BY <1>0, <2>1, <2>2 DEF TrimHistory, CursorTypeOK, Consolidation
<1>3. WindowAhead'
  BY <1>2 DEF WindowAhead, Pending, Onward
<1>4. Extracted(0)' /\ Remembered(0)'
  BY <1>1 DEF Extracted, Remembered
<1>5. ASSUME NEW r, NEW c, NEW c2, c \in Nat, c2 \in Nat, c = c2 + d, SafeFrom(r, c)
      PROVE  SafeFrom(r, c2)'
  <2>1. ASSUME NEW a \in PassiveTurns', a - 2 >= c2
        PROVE  messages'[a - 1].seq \notin r /\ messages'[a].seq \notin r
    <3>1. a + d \in PassiveTurns /\ a \in 2 .. w
      BY <1>1 DEF PassiveTurns
    <3>2. a \in 1 .. w /\ a - 1 \in 1 .. w /\ a - 1 + d = a + d - 1 /\ a + d - 2 >= c
      BY <1>1, <1>5, <2>1, <3>1
    <3>3. messages[a + d - 1].seq \notin r /\ messages[a + d].seq \notin r
      BY <1>5, <3>1, <3>2 DEF SafeFrom
    <3> QED BY <1>1, <3>2, <3>3
  <2> QED BY <2>1 DEF SafeFrom
<1>6. ASSUME NEW r, Named(r) PROVE RollbackSafe(r)'
  <2> SUFFICES ASSUME NEW a \in PassiveTurns', NEW p \in 1 .. a - 1,
                      messages'[p].seq \in r, \A q \in 1 .. p - 1 : messages'[q].seq \notin r,
                      messages'[a - 1].seq \in r \/ messages'[a].seq \in r
               PROVE  Remembered(p - 1)'
    BY DEF RollbackSafe
  <2>1. a + d \in PassiveTurns /\ a \in 2 .. w
    BY <1>1 DEF PassiveTurns
  <2>2. /\ a \in 1 .. w /\ a - 1 \in 1 .. w /\ p \in 1 .. w /\ a - 1 + d = a + d - 1
        /\ p + d \in 1 .. a + d - 1
    BY <1>1, <2>1
  <2>3. /\ messages[p + d].seq \in r
        /\ messages[a + d - 1].seq \in r \/ messages[a + d].seq \in r
    BY <1>1, <2>2
  <2>4. CASE p = 1
    <3>1. p - 1 = 0
      BY <2>4
    <3> QED BY <1>4, <3>1
  <2>5. CASE p # 1
    <3>1. p - 1 \in 1 .. w /\ p - 1 \in 1 .. p - 1
      BY <2>2, <2>5
    <3>2. messages[p - 1 + d].seq \notin r
      BY <1>1, <3>1
    <3>3. PICK about : r \in SUBSET Nat /\ WindowOf(r, about)
      BY <1>6, NamedIs
    <3>4. ASSUME NEW q \in 1 .. p + d - 1, messages[q].seq \in r PROVE FALSE
      <4>1. PICK i, j, k \in 1 .. Len(messages) :
               i = q /\ j = p - 1 + d /\ k = p + d /\ i <= j /\ j <= k
        <5>1. /\ q \in 1 .. Len(messages) /\ p - 1 + d \in 1 .. Len(messages)
              /\ p + d \in 1 .. Len(messages)
              /\ q <= p - 1 + d /\ p - 1 + d <= p + d
          BY <1>1, <2>2, <3>1, <3>4
        <5> QED BY <5>1
      <4>2. messages[i].seq \in r /\ messages[k].seq \in r
        BY <2>3, <3>4, <4>1
      <4>3. messages[j].seq \in r
        <5>1. \A x, y, z \in 1 .. Len(messages) :
                 x <= y /\ y <= z /\ messages[x].seq \in r /\ messages[z].seq \in r
                 => messages[y].seq \in r
          BY <3>3, WindowInMemory
        <5> QED BY <4>1, <4>2, <5>1
      <4> QED BY <3>2, <4>1, <4>3
    <3>5. RollbackSafe(r)
      BY <1>6 DEF Named, CursorOK, WindowsSafe
    <3>6. Remembered(p + d - 1)
      <4>1. PICK b \in PassiveTurns : b = a + d
        BY <2>1
      <4>2. PICK o \in 1 .. b - 1 : o = p + d
        BY <2>2, <4>1
      <4>3. /\ messages[o].seq \in r /\ \A q \in 1 .. o - 1 : messages[q].seq \notin r
            /\ messages[b - 1].seq \in r \/ messages[b].seq \in r
        <5>1. o - 1 = p + d - 1 /\ b - 1 = a + d - 1
          BY <1>1, <2>1, <2>2, <4>1, <4>2
        <5>2. \A q \in 1 .. o - 1 : messages[q].seq \notin r
          BY <3>4, <5>1
        <5> QED BY <2>3, <4>1, <4>2, <5>1, <5>2
      <4>4. Remembered(o - 1)
        BY <3>5, <4>3 DEF RollbackSafe
      <4> QED BY <4>2, <4>4
    <3>7. PICK c, c2 \in Nat : c2 = p - 1 /\ c = p + d - 1 /\ c = c2 + d
      BY <2>2
    <3>8. ASSUME NEW k \in 1 .. c2 PROVE messages'[k].uid \in lost' \/ Covered(messages[k].uid, c2)'
      <4>1. k \in 1 .. w /\ k + d \in 1 .. c
        BY <2>2, <3>7
      <4>2. PICK u : u = messages'[k].uid /\ u = messages[k + d].uid
        BY <1>1, <4>1
      <4>3. u \in lost \/ Covered(u, c)
        BY <3>6, <3>7, <4>1, <4>2 DEF Remembered
      <4>4. ASSUME Covered(u, c) PROVE u \in lost' \/ Covered(u, c2)'
        <5>1. \A q \in SUBSET Nat : Named(q) /\ SafeFrom(q, c) => SafeFrom(q, c2)'
          BY <1>5, <3>7
        <5> QED BY <1>0, <4>4, <5>1, CoverStays
      <4>5. u \in lost' \/ Covered(u, c2)'
        BY <1>0, <4>3, <4>4 DEF ItemsLast
      <4> QED BY <4>2, <4>5
    <3> QED BY <3>7, <3>8 DEF Remembered
  <2> QED BY <2>4, <2>5
<1>7. WindowsSafe'
  BY <1>0, <1>2, <1>6, NamedSafe DEF Onward
<1> QED BY <1>2, <1>3, <1>4, <1>7 DEF CursorOK

-----------------------------------------------------------------------------
(* /undo and the cursor                                                      *)

\* Before the turn the list is the same, and the turns left are all before it.
LEMMA UndoneList ==
  ASSUME IdsInv, NEW a \in PassiveTurns, UndoTurn(a), \A b \in PassiveTurns : b <= a
  PROVE  /\ a \in Nat /\ a - 2 \in Nat /\ Len(messages') \in Nat /\ Len(messages') = Len(messages) - 2
         /\ a - 2 <= Len(messages')
         /\ \A k \in 1 .. a - 2 : messages'[k] = messages[k]
         /\ \A k \in 1 .. Len(messages') :
               k \in 1 .. a - 2 \/ (k + 2 \in 1 .. Len(messages) /\ k + 2 > a /\ messages'[k] = messages[k + 2])
         /\ \A b \in PassiveTurns' : b \in PassiveTurns /\ b <= a - 2
<1>1. PICK m \in Nat : m = Len(messages) /\ a \in 2 .. m
  BY MemoryIs DEF PassiveTurns
<1>2. messages' = Closed(messages, a)
  BY UndoIs DEF IdsInv
<1>3. /\ Len(messages') = m - 2
      /\ \A k \in 1 .. m - 2 : messages'[k] = IF k <= a - 2 THEN messages[k] ELSE messages[k + 2]
  BY <1>1, <1>2, MemoryIs, ClosedIs
<1>4. \A k \in 1 .. a - 2 : messages'[k] = messages[k]
  BY <1>1, <1>3
<1>5. ASSUME NEW k \in 1 .. m - 2, k \notin 1 .. a - 2
      PROVE  k + 2 \in 1 .. m /\ k + 2 > a /\ messages'[k] = messages[k + 2]
  BY <1>1, <1>3, <1>5
<1>6. ASSUME NEW b \in PassiveTurns' PROVE b \in PassiveTurns /\ b <= a - 2
  <2>1. b \in 2 .. m - 2 /\ messages'[b].role = "assistant" /\ messages'[b - 1].role = "user"
    BY <1>3 DEF PassiveTurns
  <2>2. CASE b <= a - 2
    <3>1. b \in 1 .. a - 2 /\ b - 1 \in 1 .. a - 2 /\ b \in 2 .. m
      BY <1>1, <2>1, <2>2
    <3>2. messages[b].role = "assistant" /\ messages[b - 1].role = "user"
      BY <1>4, <2>1, <3>1
    <3> QED BY <1>1, <2>2, <3>1, <3>2 DEF PassiveTurns
  <2>3. CASE b = a - 1
    <3>1. b - 1 \in 1 .. a - 2 /\ b - 1 \in 1 .. m /\ b - 1 + 1 = a - 1
      BY <1>1, <2>1, <2>3
    <3>2. messages[b - 1].role = "user"
      BY <1>4, <2>1, <3>1
    <3>3. messages[b - 1 + 1].role = "assistant"
      BY <1>1, <3>1, <3>2, MemoryIs DEF Answered
    <3>4. messages[a - 1].role = "user"
      BY TurnIs
    <3> QED BY <3>1, <3>3, <3>4
  <2>4. CASE b >= a
    <3>1. /\ b \in 1 .. m - 2 /\ b \notin 1 .. a - 2 /\ b - 1 \in 1 .. m - 2 /\ b - 1 \notin 1 .. a - 2
          /\ b - 1 + 2 = b + 1
      BY <1>1, <2>1, <2>4
    <3>2. messages[b + 2].role = "assistant" /\ messages[b + 1].role = "user"
      BY <1>5, <2>1, <3>1
    <3>3. PICK e \in 2 .. m : e = b + 2 /\ e - 1 = b + 1 /\ e > a
      BY <1>1, <2>1, <2>4
    <3>4. e \in PassiveTurns
      BY <1>1, <3>2, <3>3 DEF PassiveTurns
    <3>5. e <= a
      BY <3>4
    <3> QED BY <1>1, <3>3, <3>5
  <2> QED BY <1>1, <2>1, <2>2, <2>3, <2>4
<1>7. a \in Nat /\ a - 2 \in Nat /\ m - 2 \in Nat /\ a - 2 <= m - 2
  BY <1>1
<1> QED BY <1>1, <1>3, <1>4, <1>5, <1>6, <1>7

\* The items that share nothing with the turn stay, and no window gets or loses an
\* item; the cursors are where _compute_rollback_index puts them.
LEMMA UndoKeeps ==
  ASSUME CursorTypeOK, NEW a \in PassiveTurns, UndoTurn(a),
         NEW gone, gone = {messages[a - 1].seq, messages[a].seq}
  PROVE  /\ Onward /\ lost' = lost /\ recorded' = recorded
         /\ work'.stage = work.stage
         /\ \A i \in items : i.ref \cap gone = {} => i \in items'
         /\ Arriving => Arriving'
<1>1. Onward /\ work'.stage = work.stage
  BY OnwardIs DEF UndoTurn, Pending, CursorTypeOK, Consolidation
<1>2. lost' = lost /\ recorded' = recorded
  BY DEF UndoTurn
<1>3. ASSUME NEW i \in items, i.ref \cap gone = {} PROVE i \in items'
  <2>1. i \notin Affected(gone)
    BY <1>3 DEF Affected
  <2> QED BY <2>1 DEF UndoTurn
<1>4. ASSUME NEW i \in items', i.by = "window" PROVE \E j \in items : j.by = "window" /\ j.ref = i.ref
  <2>1. i \in items \/ \E j \in Affected(gone) : i = [j EXCEPT !.active = FALSE]
    BY DEF UndoTurn
  <2>2. ASSUME NEW j \in Affected(gone), i = [j EXCEPT !.active = FALSE]
        PROVE  \E h \in items : h.by = "window" /\ h.ref = i.ref
    <3>1. j \in items
      BY DEF Affected
    <3>2. i.by = j.by /\ i.ref = j.ref
      BY <2>2, <3>1, ItemIs DEF MemoryItem
    <3> QED BY <1>4, <3>1, <3>2
  <2> QED BY <1>4, <2>1, <2>2
<1>5. Arriving => Arriving'
  BY <1>1, <1>4 DEF Arriving, Onward
<1> QED BY <1>1, <1>2, <1>3, <1>5

\* What is remembered before the turn stays remembered.
LEMMA UndoRemembers ==
  ASSUME IdsInv, NEW a \in PassiveTurns, UndoTurn(a), \A b \in PassiveTurns : b <= a,
         NEW c \in Nat, c <= a - 2, Remembered(c)
  PROVE  Remembered(c)'
<1>0. CursorTypeOK
  BY DEF IdsInv
<1>1. PICK gone : gone = {messages[a - 1].seq, messages[a].seq}
  OBVIOUS
<1>2. /\ Onward /\ lost' = lost /\ (\A i \in items : i.ref \cap gone = {} => i \in items')
      /\ Arriving => Arriving'
  BY <1>0, <1>1, UndoKeeps
<1>3. /\ a - 2 \in Nat /\ (\A k \in 1 .. a - 2 : messages'[k] = messages[k])
      /\ \A b \in PassiveTurns' : b \in PassiveTurns /\ b <= a - 2
  BY UndoneList
<1>4. ASSUME NEW r, SafeFrom(r, c) PROVE SafeFrom(r, c)' /\ r \cap gone = {}
  <2>1. ASSUME NEW b \in PassiveTurns', b - 2 >= c
        PROVE  messages'[b - 1].seq \notin r /\ messages'[b].seq \notin r
    <3>1. b \in PassiveTurns /\ b - 1 \in 1 .. a - 2 /\ b \in 1 .. a - 2
      BY <1>3, TurnIs
    <3>2. messages[b - 1].seq \notin r /\ messages[b].seq \notin r
      BY <1>4, <2>1, <3>1 DEF SafeFrom
    <3> QED BY <1>3, <3>1, <3>2
  <2>2. messages[a - 1].seq \notin r /\ messages[a].seq \notin r
    BY <1>3, <1>4 DEF SafeFrom
  <2> QED BY <1>1, <2>1, <2>2 DEF SafeFrom
<1>5. ASSUME NEW k \in 1 .. c PROVE messages'[k].uid \in lost' \/ Covered(messages[k].uid, c)'
  <2>1. k \in 1 .. a - 2
    BY <1>3
  <2>2. PICK u : u = messages[k].uid /\ u = messages'[k].uid
    BY <1>3, <2>1
  <2>3. u \in lost \/ Covered(u, c)
    BY <2>2 DEF Remembered
  <2>4. ASSUME NEW i \in items, i.by = "window", i.active, u \in i.about, SafeFrom(i.ref, c)
        PROVE  Covered(u, c)'
    <3>1. PICK r : r = i.ref
      OBVIOUS
    <3>2. SafeFrom(r, c)' /\ i \in items'
      BY <1>2, <1>4, <2>4, <3>1
    <3> QED BY <2>4, <3>1, <3>2 DEF Covered
  <2>5. ASSUME Arriving, u \in work.uids, SafeFrom(work.ref, c) PROVE Covered(u, c)'
    <3>1. PICK r : r = work.ref /\ r = work'.ref
      BY <1>2 DEF Onward
    <3>2. SafeFrom(r, c)'
      BY <1>4, <2>5, <3>1
    <3> QED BY <1>2, <2>5, <3>1, <3>2 DEF Covered, Onward
  <2>6. u \in lost' \/ Covered(u, c)'
    BY <1>2, <2>3, <2>4, <2>5 DEF Covered
  <2> QED BY <2>2, <2>6
<1> QED BY <1>5 DEF Remembered

\* Everything before the place the cursor is taken back to is remembered.
LEMMA RolledBack ==
  ASSUME IdsInv, CursorOK, NEW a \in PassiveTurns, UndoTurn(a), \A b \in PassiveTurns : b <= a
  PROVE  Remembered(lastConsolidated)'
<1>0. CursorTypeOK
  BY DEF IdsInv
<1>1. PICK gone, affected, sources :
         /\ gone = {messages[a - 1].seq, messages[a].seq} /\ affected = Affected(gone)
         /\ sources = UNION {i.ref : i \in affected}
  OBVIOUS
<1>2. PICK c, l : c = lastConsolidated' /\ l = lastConsolidated
  OBVIOUS
<1>3. c = CursorAfterUndo(a, RollbackIndex(a, sources))
  BY <1>1, <1>2 DEF UndoTurn
<1>4. /\ c \in Nat /\ c <= a - 2 /\ c <= l
      /\ a - 2 >= l => c = l
      /\ a - 2 < l =>
            /\ c = a - 2 \/ c + 1 \in {k \in DOMAIN messages : messages[k].seq \in sources}
            /\ \A k \in {k \in DOMAIN messages : messages[k].seq \in sources} : c <= k - 1
  BY <1>2, <1>3, CursorGoesBack, MemoryIs
<1>5. /\ l \in Nat /\ Remembered(l) /\ l <= Len(messages) /\ Len(messages) \in Nat
      /\ DOMAIN messages = 1 .. Len(messages)
  BY <1>2, MemoryIs, ListIs DEF CursorOK, Extracted
<1>6. /\ a - 2 \in Nat /\ a - 1 \in 1 .. Len(messages) /\ a \in 1 .. Len(messages)
      /\ messages[a - 1].seq \in gone /\ messages[a].seq \in gone
      /\ \A q \in gone : q = messages[a - 1].seq \/ q = messages[a].seq
  BY <1>1, TurnIs
<1>7. CASE a - 2 >= l
  <2>1. Remembered(c)
    BY <1>4, <1>5, <1>7
  <2> QED BY <1>2, <1>4, <2>1, UndoRemembers
<1>8. CASE a - 2 < l /\ c = a - 2
  <2>1. /\ Onward /\ lost' = lost /\ (\A i \in items : i.ref \cap gone = {} => i \in items')
        /\ Arriving => Arriving'
    BY <1>0, <1>1, UndoKeeps
  <2>2. /\ \A k \in 1 .. a - 2 : messages'[k] = messages[k]
        /\ \A b \in PassiveTurns' : b \in PassiveTurns /\ b <= a - 2
    BY UndoneList
  <2>3. ASSUME NEW r PROVE SafeFrom(r, c)'
    <3>1. ASSUME NEW b \in PassiveTurns', b - 2 >= c PROVE FALSE
      <4>1. b \in Nat /\ b <= a - 2
        BY <2>2, TurnIs
      <4> QED BY <1>6, <1>8, <3>1, <4>1
    <3> QED BY <3>1 DEF SafeFrom
  <2>4. ASSUME NEW k \in 1 .. c PROVE messages'[k].uid \in lost' \/ Covered(messages[k].uid, c)'
    <3>1. k \in 1 .. a - 2 /\ k \in 1 .. l /\ k \in 1 .. Len(messages) /\ ~(c <= k - 1)
      BY <1>4, <1>5, <1>8
    <3>2. PICK u : u = messages[k].uid /\ u = messages'[k].uid
      BY <2>2, <3>1
    <3>3. u \in lost \/ Covered(u, l)
      BY <1>5, <3>1, <3>2 DEF Remembered
    <3>4. ASSUME NEW i \in items, i.by = "window", i.active, u \in i.about
          PROVE  Covered(u, c)'
      <4>1. PICK r, about : r = i.ref /\ about = i.about
        OBVIOUS
      <4>2. r \in SUBSET Nat /\ WindowOf(r, about)
        BY <1>0, <3>4, <4>1, ItemIs DEF IdsInv, ItemsOK, ItemOf
      <4>3. messages[k].seq \in r
        <5>1. \A x \in 1 .. Len(messages) : messages[x].seq \in r <=> messages[x].uid \in about
          BY <4>2, WindowInMemory
        <5>2. messages[k].uid \in about
          BY <3>2, <3>4, <4>1
        <5> QED BY <3>1, <5>1, <5>2
      <4>4. ASSUME r \cap gone # {} PROVE FALSE
        <5>1. i \in affected
          BY <1>1, <3>4, <4>1, <4>4 DEF Affected
        <5>2. messages[k].seq \in sources
          BY <1>1, <4>1, <4>3, <5>1
        <5> QED BY <1>4, <1>5, <1>8, <3>1, <5>2
      <4>5. i \in items' /\ SafeFrom(r, c)'
        BY <2>1, <2>3, <3>4, <4>1, <4>4
      <4> QED BY <3>4, <4>1, <4>5 DEF Covered
    <3>5. ASSUME Arriving, u \in work.uids PROVE Covered(u, c)'
      <4>1. PICK r : r = work'.ref
        OBVIOUS
      <4>2. SafeFrom(r, c)'
        BY <2>3
      <4> QED BY <2>1, <3>5, <4>1, <4>2 DEF Covered, Onward
    <3>6. u \in lost' \/ Covered(u, c)'
      BY <2>1, <3>3, <3>4, <3>5 DEF Covered
    <3> QED BY <3>2, <3>6
  <2> QED BY <1>2, <2>4 DEF Remembered
<1>9. CASE a - 2 < l /\ c # a - 2
  <2>1. c + 1 \in 1 .. Len(messages) /\ messages[c + 1].seq \in sources /\ c + 1 \in 1 .. a - 1 /\ c + 1 # a - 1
    BY <1>4, <1>5, <1>6, <1>9
  <2>2. PICK i \in affected : messages[c + 1].seq \in i.ref
    BY <1>1, <2>1
  <2>3. i \in items /\ i.ref \cap gone # {}
    BY <1>1 DEF Affected
  <2>4. PICK r : r = i.ref
    OBVIOUS
  <2>5. ASSUME NEW q \in 1 .. c + 1 - 1 PROVE messages[q].seq \notin r
    <3>1. q \in 1 .. Len(messages) /\ ~(c <= q - 1)
      BY <1>4, <1>5
    <3>2. messages[q].seq \notin sources
      BY <1>4, <1>5, <1>9, <3>1
    <3> QED BY <1>1, <2>2, <2>4, <3>2
  <2>6. messages[a - 1].seq \in r \/ messages[a].seq \in r
    BY <1>6, <2>3, <2>4
  <2>7. \E j \in items : j.by = "window" /\ j.ref = r
    <3>1. ASSUME ~(\E j \in items : j.by = "window" /\ j.ref = r) PROVE FALSE
      <4>1. \E q \in i.ref : i.ref = {q}
        BY <2>2, <2>3, <2>4, <3>1 DEF IdsInv, ItemsOK, RefOK
      <4>2. messages[c + 1].seq = messages[a - 1].seq \/ messages[c + 1].seq = messages[a].seq
        BY <2>2, <2>4, <2>6, <4>1
      <4>3. c + 1 = a - 1 \/ c + 1 = a
        BY <1>6, <2>1, <4>2, MemoryIs, AscendingIs
      <4> QED BY <1>4, <1>6, <1>9, <2>1, <4>3
    <3> QED BY <3>1
  <2>8. RollbackSafe(r)
    BY <2>3, <2>4, <2>7 DEF CursorOK, WindowsSafe
  <2>9. Remembered(c)
    <3>1. PICK p \in 1 .. a - 1 : p = c + 1 /\ p - 1 = c
      BY <1>4, <2>1
    <3>2. messages[p].seq \in r /\ \A q \in 1 .. p - 1 : messages[q].seq \notin r
      BY <2>2, <2>4, <2>5, <3>1
    <3>3. Remembered(p - 1)
      BY <2>6, <2>8, <3>2 DEF RollbackSafe
    <3> QED BY <3>1, <3>3
  <2> QED BY <1>2, <1>4, <2>9, UndoRemembers
<1> QED BY <1>4, <1>5, <1>6, <1>7, <1>8, <1>9

\* /undo takes the cursor back to where everything before it keeps an item.
LEMMA UndoCursor ==
  ASSUME IdsInv, LockOK, CursorOK, CursorNext, Undo
  PROVE  CursorOK'
<1>0. CursorTypeOK
  BY DEF IdsInv
<1>1. PICK a \in PassiveTurns : UndoTurn(a) /\ \A b \in PassiveTurns : b <= a
  BY <1>0, LastTurnIs DEF Undo, CursorTypeOK
<1>2. /\ Onward /\ work'.stage = work.stage /\ recorded' = recorded
  BY <1>0, <1>1, UndoKeeps
<1>3. /\ a \in Nat /\ a - 2 \in Nat /\ Len(messages') \in Nat /\ a - 2 <= Len(messages')
      /\ \A k \in 1 .. a - 2 : messages'[k] = messages[k]
      /\ \A k \in 1 .. Len(messages') :
            k \in 1 .. a - 2 \/ (k + 2 \in 1 .. Len(messages) /\ k + 2 > a /\ messages'[k] = messages[k + 2])
      /\ \A b \in PassiveTurns' : b \in PassiveTurns /\ b <= a - 2
  BY <1>1, UndoneList
<1>4. PICK c, l : c = lastConsolidated' /\ l = lastConsolidated
  OBVIOUS
<1>5. /\ c \in Nat /\ c <= a - 2 /\ c <= l /\ (a - 2 >= l => c = l)
      /\ store'.lastConsolidated = c /\ l \in Nat
  <2>1. /\ c \in Nat /\ c <= a - 2 /\ c <= l /\ (a - 2 >= l => c = l)
    BY <1>1, <1>4, CursorGoesBack, MemoryIs DEF UndoTurn
  <2>2. store'.lastConsolidated = c
    BY <1>1, <1>4, UndoIs DEF IdsInv
  <2> QED BY <1>4, <2>1, <2>2, MemoryIs
<1>6. Remembered(c)'
  BY <1>1, <1>4, RolledBack
<1>7. Extracted(c)'
  <2>1. ASSUME NEW k \in 1 .. c PROVE messages'[k].uid \in recorded'
    <3>1. k \in 1 .. a - 2 /\ k \in 1 .. l
      BY <1>3, <1>5
    <3> QED BY <1>2, <1>3, <1>4, <3>1 DEF CursorOK, Extracted
  <2>2. c <= Len(messages')
    BY <1>3, <1>5
  <2> QED BY <2>1, <2>2 DEF Extracted
<1>8. WindowAhead'
  <2>1. CASE Pending' /\ ~work'.moved
    <3>1. Pending /\ ~work.moved /\ ~(a - 1 <= work.upTo)
      <4>1. Pending /\ work'.moved = (work.moved \/ (Pending /\ a - 1 <= work.upTo))
        BY <1>0, <1>1, <1>2, <2>1 DEF UndoTurn, Pending, CursorTypeOK, Consolidation
      <4> QED BY <2>1, <4>1
    <3>2. PICK e, r, f : /\ e = work.upTo /\ r = work.ref
                         /\ f = IF work.archive THEN 1 ELSE l + 1
      OBVIOUS
    <3>3. e \in Nat /\ l <= e /\ Spans(f, e, r) /\ e <= a - 2
      BY <1>0, <1>3, <1>4, <3>1, <3>2, WorkTyped DEF CursorOK, WindowAhead
    <3>4. c = l
      BY <1>3, <1>5, <3>3
    <3>5. Spans(f, e, r)'
      <4>1. e <= Len(messages')
        BY <1>3, <3>3
      <4>2. ASSUME NEW k \in 1 .. Len(messages') PROVE messages'[k].seq \in r <=> f <= k /\ k <= e
        <5>1. CASE k \in 1 .. a - 2
          <6>1. k \in 1 .. Len(messages)
            BY <1>1, <1>3, <5>1, TurnIs
          <6> QED BY <1>3, <3>3, <5>1, <6>1 DEF Spans
        <5>2. CASE k \notin 1 .. a - 2
          <6>1. k + 2 \in 1 .. Len(messages) /\ k + 2 > a /\ messages'[k] = messages[k + 2]
            BY <1>3, <5>2
          <6>2. ~(k + 2 <= e) /\ ~(k <= e)
            BY <1>3, <3>3, <5>2, <6>1
          <6> QED BY <3>3, <6>1, <6>2 DEF Spans
        <5> QED BY <5>1, <5>2
      <4>3. ASSUME NEW q \in r PROVE \E k \in 1 .. Len(messages') : messages'[k].seq = q
        <5>1. PICK k \in 1 .. Len(messages) : messages[k].seq = q
          BY <3>3 DEF Spans
        <5>2. k <= e
          BY <3>3, <5>1 DEF Spans
        <5>3. k \in 1 .. a - 2 /\ k \in 1 .. Len(messages')
          BY <1>3, <3>3, <5>2, MemoryIs
        <5>4. messages'[k].seq = q
          BY <1>3, <5>1, <5>3
        <5> QED BY <5>3, <5>4
      <4> QED BY <4>1, <4>2, <4>3 DEF Spans
    <3> QED BY <1>2, <1>4, <3>2, <3>3, <3>4, <3>5 DEF WindowAhead, Onward
  <2> QED BY <2>1 DEF WindowAhead
<1>9. ASSUME NEW r, Named(r) PROVE RollbackSafe(r)'
  <2> SUFFICES ASSUME NEW b \in PassiveTurns', NEW p \in 1 .. b - 1,
                      messages'[p].seq \in r, \A q \in 1 .. p - 1 : messages'[q].seq \notin r,
                      messages'[b - 1].seq \in r \/ messages'[b].seq \in r
               PROVE  Remembered(p - 1)'
    BY DEF RollbackSafe
  <2>1. b \in PassiveTurns /\ b <= a - 2 /\ b \in Nat
    BY <1>3, TurnIs
  <2>2. /\ b \in 1 .. a - 2 /\ b - 1 \in 1 .. a - 2 /\ p \in 1 .. a - 2 /\ p - 1 \in Nat /\ p - 1 <= a - 2
        /\ \A q \in 1 .. p - 1 : q \in 1 .. a - 2
    BY <1>3, <2>1, TurnIs
  <2>3. /\ messages[p].seq \in r /\ (\A q \in 1 .. p - 1 : messages[q].seq \notin r)
        /\ (messages[b - 1].seq \in r \/ messages[b].seq \in r)
    BY <1>3, <2>2
  <2>4. RollbackSafe(r)
    BY <1>9 DEF Named, CursorOK, WindowsSafe
  <2>5. Remembered(p - 1)
    BY <2>1, <2>3, <2>4 DEF RollbackSafe
  <2> QED BY <1>1, <2>2, <2>5, UndoRemembers
<1>10. WindowsSafe'
  BY <1>0, <1>2, <1>9, NamedSafe DEF Onward
<1> QED BY <1>4, <1>5, <1>6, <1>7, <1>8, <1>10 DEF CursorOK

-----------------------------------------------------------------------------
(* The cursor is kept                                                        *)

\* Nothing is extracted, remembered or selected at the start.
LEMMA CursorStarts == CursorInit => LockOK /\ CursorOK
<1> SUFFICES ASSUME CursorInit PROVE LockOK /\ CursorOK
  OBVIOUS
<1>1. /\ Len(messages) = 0 /\ lastConsolidated = 0 /\ store.lastConsolidated = 0
      /\ items = {} /\ work.stage = "idle"
  BY DEF CursorInit, Unlocked
<1>2. Extracted(0) /\ Remembered(0)
  BY <1>1 DEF Extracted, Remembered
<1>3. WindowAhead /\ WindowsSafe
  BY <1>1 DEF WindowAhead, Pending, WindowsSafe
<1> QED BY <1>1, <1>2, <1>3 DEF CursorOK, LockOK

\* A cursor that was set for another list stays so.
LEMMA RacedStays ==
  ASSUME CursorTypeOK, CursorNext, raced PROVE raced'
<1> USE DEF conversation, maintenance, memories, histories, counters
<1>1. CASE \/ StartTurn \/ Memorize \/ AbandonTurn \/ Push \/ Undo
           \/ TaskNext \/ TaskReturn \/ TaskDone \/ SkipWindow \/ AppendOnce
  BY <1>1 DEF StartTurn, Memorize, AbandonTurn, Push, Undo, UndoTurn,
              TaskNext, TaskReturn, TaskDone, SkipWindow, AppendOnce
<1>2. CASE SetCursor \/ IndexAndSave \/ EmitFails \/ ManualTimeout \/ Restart
  BY <1>2 DEF SetCursor, IndexAndSave, EmitFails, ManualTimeout, Restart
<1>3. CASE \E w \in 0 .. Len(messages) : TrimHistory(w)
  BY <1>3 DEF TrimHistory
<1>4. CASE \E skip \in BOOLEAN : Commit(skip)
  BY <1>4 DEF Commit
<1>5. CASE Manual(TRUE, TRUE) \/ \E force \in BOOLEAN : Manual(force, FALSE)
  BY <1>5 DEF Manual
<1> QED BY <1>1, <1>2, <1>3, <1>4, <1>5 DEF CursorNext

\* The invariant of the cursor, action by action.
LEMMA CursorStep ==
  ASSUME IdsInv, LockOK, CursorOK, CursorNext, ~raced' PROVE CursorOK'
<1>0. CursorTypeOK /\ StoredOK /\ TurnIsNew
  BY DEF IdsInv
<1>1. CASE Undo
  BY <1>1, UndoCursor
<1>2. CASE \/ StartTurn \/ Memorize \/ AbandonTurn \/ TaskDone \/ AppendOnce
           \/ TaskReturn \/ SkipWindow \/ IndexAndSave \/ EmitFails \/ ManualTimeout
  BY <1>2, QuietCursor
<1>3. CASE ~Undo /\ (TaskNext \/ Manual(TRUE, TRUE) \/ \E force \in BOOLEAN : Manual(force, FALSE))
  BY <1>3, SelectCursor
<1>4. CASE ~Undo /\ SetCursor
  BY <1>4, SetCursorCursor
<1>5. CASE ~Undo /\ Restart
  BY <1>5, RestartCursor
<1>6. CASE ~Undo /\ Push
  <2>1. PICK new \in Seq(Message) : Appending(new)
    BY <1>0, <1>6, PushIs
  <2>2. work' = work /\ lastConsolidated' = lastConsolidated
    BY <1>6 DEF Push, maintenance
  <2> QED BY <1>6, <2>1, <2>2, AppendCursor
<1>7. CASE ~Undo /\ \E skip \in BOOLEAN : Commit(skip)
  <2>1. PICK skip \in BOOLEAN : Commit(skip)
    BY <1>7
  <2>2. PICK new \in Seq(Message) : Appending(new)
    BY <1>0, <2>1, CommitIs
  <2>3. work' = work /\ lastConsolidated' = lastConsolidated
    BY <2>1 DEF Commit
  <2> QED BY <1>7, <2>2, <2>3, AppendCursor
<1>8. CASE ~Undo /\ \E w \in 0 .. Len(messages) : TrimHistory(w)
  BY <1>8, TrimCursor
<1> QED BY <1>1, <1>2, <1>3, <1>4, <1>5, <1>6, <1>7, <1>8 DEF CursorNext

\* Nothing changes.
LEMMA CursorStutter ==
  ASSUME LockOK, ~raced => CursorOK, UNCHANGED cursorVars
  PROVE  LockOK' /\ (~raced' => CursorOK')
<1>1. /\ messages' = messages /\ lastConsolidated' = lastConsolidated /\ store' = store
      /\ work' = work /\ items' = items /\ recorded' = recorded /\ lost' = lost /\ raced' = raced
  BY DEF cursorVars, conversation, maintenance, memories, histories, counters
<1>2. PassiveTurns' = PassiveTurns
  BY <1>1 DEF PassiveTurns
<1>3. LockOK' /\ WindowAhead' = WindowAhead
  BY <1>1 DEF LockOK, WindowAhead, Pending, Spans
<1>4. \A c : Extracted(c)' = Extracted(c)
  BY <1>1 DEF Extracted
<1>5. \A ref, c : SafeFrom(ref, c)' = SafeFrom(ref, c)
  BY <1>1, <1>2 DEF SafeFrom
<1>6. \A u, c : Covered(u, c)' = Covered(u, c)
  BY <1>1, <1>5 DEF Covered, Arriving
<1>7. \A c : Remembered(c)' = Remembered(c)
  BY <1>1, <1>6 DEF Remembered
<1>8. \A ref : RollbackSafe(ref)' = RollbackSafe(ref)
  BY <1>1, <1>2, <1>7 DEF RollbackSafe
<1>9. WindowsSafe' = WindowsSafe
  BY <1>1, <1>8 DEF WindowsSafe
<1> QED BY <1>1, <1>3, <1>4, <1>7, <1>9 DEF CursorOK

\* The inductive invariant holds in every state.
THEOREM CursorIsKept == CursorSpec => []CursorInv
<1>1. CursorInit => CursorInv
  BY IdsInit, CursorStarts DEF CursorInv
<1>2. CursorInv /\ CursorNext => CursorInv'
  <2> SUFFICES ASSUME CursorInv, CursorNext PROVE CursorInv'
    OBVIOUS
  <2>1. IdsInv /\ LockOK /\ CursorTypeOK /\ (~raced => CursorOK)
    BY DEF CursorInv, IdsInv
  <2>2. IdsInv' /\ LockOK'
    BY <2>1, IdsNext, LockStep
  <2>3. ~raced' => CursorOK'
    BY <2>1, RacedStays, CursorStep
  <2> QED BY <2>2, <2>3 DEF CursorInv
<1>3. CursorInv /\ UNCHANGED cursorVars => CursorInv'
  BY IdsStutter, CursorStutter DEF CursorInv
<1>4. CursorInv /\ [CursorNext]_cursorVars => CursorInv'
  BY <1>2, <1>3
<1> QED BY <1>1, <1>4, PTL DEF CursorSpec

-----------------------------------------------------------------------------
(* What the system relies on                                                 *)

\* Every variable has its type.
THEOREM CursorTypeCorrect == CursorSpec => []CursorTypeOK
<1>1. IdsInv => CursorTypeOK
  BY DEF IdsInv
<1> QED BY <1>1, IdsAreKept, PTL

\* The list in memory is the end of the stored rows (store.py:append_messages,
\* delete_session_messages_and_update_cursor), cut by a retry or not.
THEOREM MemoryEndsTheRows == CursorSpec => []MemoryIsTailOfRows
<1>1. IdsInv => MemoryIsTailOfRows
  BY DEF IdsInv
<1> QED BY <1>1, IdsAreKept, PTL

\* No active memory item is about a message that /undo deleted, whether it was stored
\* on its own or again in a row that names the message; except for stray messages and
\* texts borrowed from a row of others, which the undo does not find by source_ref
\* (engine.py:_undo_store_by_message_sources).
THEOREM UndoneStaysForgotten == CursorSpec => []UndoneIsForgotten
<1>1. IdsInv => UndoneIsForgotten
  BY DEF IdsInv, UndoneIsGone
<1> QED BY <1>1, IdsAreKept, PTL

\* The first messages, as many as the cursor says.
LEMMA PassedAre ==
  ASSUME IdsInv, Extracted(lastConsolidated)
  PROVE  \A u \in Passed : \E k \in 1 .. lastConsolidated : u = messages[k].uid
<1>1. PICK l, m \in Nat : l = lastConsolidated /\ m = Len(messages) /\ l <= m
  BY MemoryIs DEF Extracted
<1>2. Min({l, m}) = l
  BY <1>1, LessIs
<1> QED BY <1>1, <1>2 DEF Passed

\* The cursor passes extracted messages only (markdown.py:consolidate,
\* plugin.py:_compute_rollback_index), unless the list moved under a window.
THEOREM CursorNeverSkips == CursorSpec => []CursorPassesRecordedOnly
<1>1. CursorInv => CursorPassesRecordedOnly
  <2> SUFFICES ASSUME IdsInv, CursorOK PROVE lastConsolidated <= Len(messages) /\ Passed \subseteq recorded
    BY DEF CursorInv, CursorPassesRecordedOnly
  <2>1. Extracted(lastConsolidated)
    BY DEF CursorOK
  <2> QED BY <2>1, PassedAre DEF Extracted
<1> QED BY <1>1, CursorIsKept, PTL

\* A message that lost an item to an undo is ahead of the cursor again, or has
\* another item (plugin.py:_compute_rollback_index), whatever the engine stored, reused
\* or failed to store for other windows; those that got no row of their own are in lost.
THEOREM RetiredIsReplaced == CursorSpec => []RetiredIsAheadOrReplaced
<1>1. CursorInv => RetiredIsAheadOrReplaced
  <2> SUFFICES ASSUME IdsInv, CursorOK,
                      NEW u \in Passed, u \notin lost, u \notin work.uids
               PROVE  \E j \in items : j.active /\ u \in j.about
    BY DEF CursorInv, RetiredIsAheadOrReplaced
  <2>1. Extracted(lastConsolidated) /\ Remembered(lastConsolidated)
    BY DEF CursorOK
  <2>2. PICK k \in 1 .. lastConsolidated : u = messages[k].uid
    BY <2>1, PassedAre
  <2>3. Covered(u, lastConsolidated)
    BY <2>1, <2>2 DEF Remembered
  <2> QED BY <2>3 DEF Covered
<1> QED BY <1>1, CursorIsKept, PTL
=============================================================================
