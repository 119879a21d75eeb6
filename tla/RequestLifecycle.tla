-------------------------- MODULE RequestLifecycle --------------------------
(***************************************************************************)
(* What the passive turn loop promises each request, without its tasks,    *)
(* dictionaries and phases: a request is queued, run once, and ends in an  *)
(* answer, in a failure, or parked for a later message to pick up.  A      *)
(* request that was answered, failed or dropped is never run again.        *)
(***************************************************************************)
EXTENDS Naturals

CONSTANT Requests   \* the requests that may ever be submitted

VARIABLE status     \* where each request stands

Statuses == {"unborn", "queued", "running", "parked",
             "answered", "failed", "dropped"}

\* The requests in status s.
In(s) == {r \in Requests : status[r] = s}

\* Move every request of S to status s.
Move(S, s) == status' = [r \in Requests |-> IF r \in S THEN s ELSE status[r]]

Init == status = [r \in Requests |-> "unborn"]

Submit(r) == /\ status[r] = "unborn"
             /\ Move({r}, "queued")

\* One request leaves the queue, and only when nothing is running.
Begin(r) == /\ status[r] = "queued"
            /\ In("running") = {}
            /\ Move({r}, "running")

\* Interrupted requests join the run of the message that continues them.
Resume(S) == /\ In("running") # {}
             /\ S \subseteq In("parked")
             /\ Move(S, "running")

\* One answer settles everything the run was carrying.
Answer == /\ In("running") # {}
          /\ Move(In("running"), "answered")

\* The run failed: what it was the first to carry is failed, what had been
\* parked before stays available.
Fail(S) == /\ S \subseteq In("running")
           /\ status' = [r \in Requests |->
                CASE r \in S -> "failed"
                  [] r \in In("running") \ S -> "parked"
                  [] OTHER -> status[r]]

\* The run was cancelled: S is given up, the rest was saved for later.
Stop(S) == /\ S \subseteq In("running")
           /\ status' = [r \in Requests |->
                CASE r \in S -> "dropped"
                  [] r \in In("running") \ S -> "parked"
                  [] OTHER -> status[r]]

\* Interrupted work is given up: too old, or overwritten by a later interrupt.
Drop(S) == /\ S \subseteq In("parked")
           /\ Move(S, "dropped")

Step == \/ \E r \in Requests : Submit(r) \/ Begin(r)
        \/ \E S \in SUBSET In("parked") : Resume(S) \/ Drop(S)
        \/ \E S \in SUBSET In("running") : Fail(S) \/ Stop(S)
        \/ Answer

\* A step that moves a request; the others are stutters.
Next == status' # status /\ Step

Spec == Init /\ [][Next]_status

-----------------------------------------------------------------------------
(* What follows from it                                                     *)

\* A request that was answered, failed or dropped stays so.
SettledIsFinal ==
    [][\A r \in Requests :
         status[r] \in {"answered", "failed", "dropped"} => status'[r] = status[r]]_status

\* A request is answered or fails only out of a run, and a queued one is taken up
\* only while nothing runs.
RunsDecide ==
    [][\A r \in Requests :
         /\ status'[r] \in {"answered", "failed"} /\ status[r] # status'[r]
              => status[r] = "running"
         /\ status[r] = "queued" /\ status'[r] # "queued"
              => status'[r] = "running" /\ In("running") = {}]_status
=============================================================================
