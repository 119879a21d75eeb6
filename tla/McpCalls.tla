------------------------------- MODULE McpCalls -------------------------------
(***************************************************************************)
(* Calls of the tools of one MCP server.  McpClient writes a request with a  *)
(* number of its own to the server's stdin and reads lines of its stdout     *)
(* until one has that number; notifications, lines that are no JSON and      *)
(* messages with another number are dropped.  What cannot be decoded or is   *)
(* JSON but no object fails the call that reads it, and a request of the     *)
(* server that has the number by chance is returned as the answer.  There    *)
(* is no reader task and no lock: a chat turn and a scheduled turn read the  *)
(* same stream, and a call that has given up leaves its answer in it.        *)
(*                                                                           *)
(* The StreamReader is external: one coroutine at a time may wait for data,  *)
(* a second one gets a RuntimeError; a line that has come is read by whoever *)
(* reads next.  The server answers in any order, late, or not at all.        *)
(***************************************************************************)
EXTENDS Naturals, Sequences

CONSTANTS
    McpCallers,     \* calls: each stands for its request number
    MaxChatter      \* bound: lines that are no answer

Nobody == "nobody"
ASSUME McpCallNames == MaxChatter \in Nat /\ Nobody \notin McpCallers

VARIABLES
    ask,         \* each call: [at, got]
    requests,    \* what the server has read and not answered
    stdout,      \* lines that have arrived and nobody has read
    waiter,      \* StreamReader._waiter
    closed,      \* end of file: the server exited or was disconnected
    chatter,     \* lines so far that are no answer
    delivered,   \* history: calls whose answer arrived while they were reading
    overlapped,  \* history: calls that were active together with another
    abandoned,   \* history: calls whose turn was cancelled
    misled       \* history: calls that read a line _recv is misled by

callVars == <<ask, requests, stdout, waiter, closed, chatter, delivered, overlapped,
              abandoned, misled>>
callHistory == <<delivered, overlapped, abandoned, misled>>

\* A line of stdout: an answer; what every call skips; what cannot be decoded or is
\* JSON but no object; a request of the server, which numbers its own.
Line == [kind : {"answer", "request"}, id : McpCallers]
            \cup [kind : {"chatter", "garbled"}, id : {Nobody}]
Answer(c) == [kind |-> "answer", id |-> c]

\* Reading it fails the call, or is taken for the answer.
Misleads(line, c) == line.kind = "garbled" \/ (line.kind = "request" /\ line.id = c)

CallsInit ==
    /\ ask = [c \in McpCallers |-> [at |-> "none", got |-> "nothing"]]
    /\ requests = {} /\ stdout = <<>> /\ waiter = Nobody
    /\ closed = FALSE /\ chatter = 0
    /\ delivered = {} /\ overlapped = {} /\ abandoned = {} /\ misled = {}

Reading == {c \in McpCallers : ask[c].at \in {"reading", "blocked"}}
Asked(c, at) == ask' = [ask EXCEPT ![c].at = at]

-----------------------------------------------------------------------------
\* call: _send writes the request; on a closed client it raises.
SendRequest(c) ==
    /\ ask[c].at = "none"
    /\ IF closed
       THEN Asked(c, "failed") /\ UNCHANGED <<requests, overlapped>>
       ELSE /\ Asked(c, "reading")
            /\ requests' = requests \cup {c}
            /\ overlapped' = IF Reading = {} THEN overlapped
                             ELSE overlapped \cup Reading \cup {c}
    /\ UNCHANGED <<stdout, waiter, closed, chatter, delivered, abandoned, misled>>

\* Variant: an answer with another number is an error.
RefuseOther(c) ==
    /\ ask[c].at = "reading" /\ stdout # <<>>
    /\ stdout' = Tail(stdout)
    /\ misled' = IF Misleads(Head(stdout), c) THEN misled \cup {c} ELSE misled
    /\ \/ /\ \/ Head(stdout).kind = "garbled"
             \/ Head(stdout).kind = "answer" /\ Head(stdout).id # c
          /\ Asked(c, "failed")
       \/ /\ Head(stdout).id = c
          /\ ask' = [ask EXCEPT ![c] = [at |-> "answered", got |-> Head(stdout).kind]]
       \/ /\ Head(stdout).kind \in {"chatter", "request"} /\ Head(stdout).id # c
          /\ UNCHANGED ask
    /\ UNCHANGED <<requests, waiter, closed, chatter, delivered, overlapped, abandoned>>

\* _recv takes the next line: it raises, returns it, or goes on reading.
ReadLine(c) ==
    /\ ask[c].at = "reading" /\ stdout # <<>>
    /\ stdout' = Tail(stdout)
    /\ misled' = IF Misleads(Head(stdout), c) THEN misled \cup {c} ELSE misled
    /\ \/ Head(stdout).kind = "garbled" /\ Asked(c, "failed")
       \/ /\ Head(stdout).id = c
          /\ ask' = [ask EXCEPT ![c] = [at |-> "answered", got |-> Head(stdout).kind]]
       \/ Head(stdout).kind # "garbled" /\ Head(stdout).id # c /\ UNCHANGED ask
    /\ UNCHANGED <<requests, waiter, closed, chatter, delivered, overlapped, abandoned>>

\* There is no line: end of file, another coroutine waits already, or wait.
AwaitLine(c) ==
    /\ ask[c].at = "reading" /\ stdout = <<>>
    /\ IF closed \/ waiter # Nobody
       THEN Asked(c, "failed") /\ UNCHANGED waiter
       ELSE Asked(c, "blocked") /\ waiter' = c
    /\ UNCHANGED <<requests, stdout, closed, chatter, callHistory>>

\* wait_for gives up on this line; the request stays with the server.
ReadTimesOut(c) ==
    /\ ask[c].at = "blocked"
    /\ Asked(c, "failed") /\ waiter' = Nobody
    /\ UNCHANGED <<requests, stdout, closed, chatter, callHistory>>

CutCall(c) ==
    /\ c \in Reading
    /\ Asked(c, "failed") /\ waiter' = IF waiter = c THEN Nobody ELSE waiter
    /\ abandoned' = abandoned \cup {c}
    /\ UNCHANGED <<requests, stdout, closed, chatter, delivered, overlapped, misled>>

-----------------------------------------------------------------------------
\* Data or end of file wakes the coroutine that waits.
WakeReader ==
    /\ waiter' = Nobody
    /\ ask' = [c \in McpCallers |->
                 IF c = waiter THEN [ask[c] EXCEPT !.at = "reading"] ELSE ask[c]]

AnswerArrives(c) ==
    /\ ~closed /\ c \in requests
    /\ requests' = requests \ {c}
    /\ stdout' = Append(stdout, Answer(c))
    /\ delivered' = IF c \in Reading THEN delivered \cup {c} ELSE delivered
    /\ WakeReader
    /\ UNCHANGED <<closed, chatter, overlapped, abandoned, misled>>

ChatterArrives ==
    /\ ~closed /\ chatter < MaxChatter
    /\ chatter' = chatter + 1
    /\ \E line \in Line : line.kind # "answer" /\ stdout' = Append(stdout, line)
    /\ WakeReader
    /\ UNCHANGED <<requests, closed, callHistory>>

\* The server exits, or disconnect has terminated it.
ServerCloses ==
    /\ ~closed /\ closed' = TRUE
    /\ requests' = {}
    /\ WakeReader
    /\ UNCHANGED <<stdout, chatter, callHistory>>

-----------------------------------------------------------------------------
CallsNext ==
    \/ \E c \in McpCallers :
        \/ SendRequest(c) \/ ReadLine(c) \/ AwaitLine(c) \/ ReadTimesOut(c)
        \/ CutCall(c) \/ AnswerArrives(c)
    \/ ChatterArrives \/ ServerCloses

CallsSpec == CallsInit /\ [][CallsNext]_callVars

-----------------------------------------------------------------------------
CallsTypeOK ==
    /\ ask \in [McpCallers -> [at : {"none", "reading", "blocked", "answered", "failed"},
                               got : {"nothing", "answer", "request"}]]
    /\ requests \subseteq McpCallers
    /\ stdout \in Seq(Line)
    /\ waiter \in McpCallers \cup {Nobody}
    /\ waiter # Nobody => ask[waiter].at = "blocked"
    /\ closed \in BOOLEAN /\ chatter \in 0 .. MaxChatter

\* A call that had the stream to itself gets its answer once that has arrived: the
\* answers earlier calls left in the stream when they timed out or were cancelled,
\* notifications, and requests with another number neither fail it nor are taken for
\* its answer (client.py:220-234).  No such promise to overlapping calls, of which one
\* may drop the other's answer or fail because the other waits; nor to a call that
\* reads a line that cannot be decoded (client.py:211), JSON that is no object, on
\* which line 221 or 223 raises, or a server's request with the call's own number,
\* which lines 221 and 223 let through: those are named in misled.
LoneCallGetsItsAnswer ==
    \A c \in delivered \ (overlapped \cup abandoned \cup misled) :
        ask[c].at = "reading" \/ ask[c] = [at |-> "answered", got |-> "answer"]
=============================================================================
