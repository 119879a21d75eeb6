----------------------------- MODULE FactLedger -----------------------------
(***************************************************************************)
(* What the memory files promise each fact, without the files, the thread  *)
(* and the order of their operations: a fact is queued, then recorded as   *)
(* consolidated, merged, and only then taken off the queue.  A fact is     *)
(* lost only after it was exposed to one of the races the code leaves      *)
(* open, and a crash exposes what one file held, not both.                 *)
(***************************************************************************)
CONSTANT Refs   \* the facts

VARIABLES
    recorded,   \* facts whose consolidation is on record
    queued,     \* facts that wait for the merge
    merged,     \* facts that long-term memory holds
    exposed,    \* facts that a race or a crash may cost
    passed      \* facts a conversation has moved past

ledger == <<recorded, queued, merged, exposed, passed>>

Init ==
    /\ recorded = {} /\ queued = {} /\ merged = {} /\ exposed = {} /\ passed = {}

\* A fact is written: it is queued, or a race exposes it, or both.
Write(r) ==
    /\ queued' \in {queued, queued \cup {r}}
    /\ exposed' \in {exposed, exposed \cup {r}}
    /\ r \in queued' \cup exposed'
    /\ UNCHANGED <<recorded, merged, passed>>

\* A race exposes a fact.
Expose(r) ==
    /\ exposed' = exposed \cup {r}
    /\ UNCHANGED <<recorded, queued, merged, passed>>

\* Only a fact that was written is recorded, and its conversation moves on with
\* the record and never before it.
Record(r) ==
    /\ r \in queued \cup merged \cup exposed
    /\ recorded' = recorded \cup {r}
    /\ passed' = passed \cup {r}
    /\ UNCHANGED <<queued, merged, exposed>>

\* Long-term memory gains what is queued and loses nothing.
Merge(S) ==
    /\ S \subseteq queued
    /\ merged' = merged \cup S
    /\ UNCHANGED <<recorded, queued, exposed, passed>>

\* What leaves the queue is merged, unless it was exposed.
Release(S) ==
    /\ S \subseteq queued \cap (merged \cup exposed)
    /\ queued' = queued \ S
    /\ UNCHANGED <<recorded, merged, exposed, passed>>

\* A crash costs the queue some facts or long-term memory some, not both, and a
\* conversation may be taken up where it was stored last.
Crash(S) ==
    /\ exposed' = exposed \cup S
    /\ \/ S \subseteq queued /\ queued' \subseteq queued /\ queued \ queued' \subseteq S
          /\ merged' = merged
       \/ S \subseteq merged /\ merged' \subseteq merged /\ merged \ merged' \subseteq S
          /\ queued' = queued
    /\ passed' \subseteq passed
    /\ UNCHANGED recorded

Next ==
    \/ \E r \in Refs : Write(r) \/ Expose(r) \/ Record(r)
    \/ \E S \in SUBSET Refs : Merge(S) \/ Release(S) \/ Crash(S)

Spec == Init /\ [][Next]_ledger

-----------------------------------------------------------------------------
(* What follows from it                                                     *)

\* A recorded fact is queued, merged or exposed, and a conversation moves only
\* past recorded facts.
Accounted == recorded \subseteq queued \cup merged \cup exposed /\ passed \subseteq recorded

\* Long-term memory only ever loses a fact that the same step or an earlier one exposed.
MergedStays == [][merged \ exposed' \subseteq merged']_ledger
=============================================================================
