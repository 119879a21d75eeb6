------------------------------ MODULE Reasoner ------------------------------
(***************************************************************************)
(* The ReAct loop of one session: DefaultReasoner.run_turn and run in      *)
(* agent_runtime/core/passive_turn.py, with the tool executor and the      *)
(* loop guard plugin it calls.                                             *)
(*                                                                         *)
(* A turn tries at most MaxAttempts context plans.  An attempt renders its *)
(* prompt anew and alternates model calls with batches of tool calls until *)
(* the model answers, a plugin stops the loop, the guard finds a repeated  *)
(* batch or MaxIterations is reached.  Outside the module are the text of  *)
(* the messages, the schemas and the statistics; a batch is a sequence of  *)
(* tools, and the arguments of a call are part of the tool's name.         *)
(***************************************************************************)
EXTENDS Integers, Sequences

CONSTANTS
    Batches,        \* the batches of tool calls the model may ask for
    RepeatLimit,    \* repeat_limit of the loop guard
    MaxIterations,  \* max_iterations; 0, no limit, is outside the model
    MaxAttempts,    \* the number of plans _build_attempt_plans returns
    MaxTurns,       \* bound: turns of the session
    MaxOthers       \* bound: searches by the turns of other sessions

\* "search" is tool_search, "hidden" a deferred tool whose schema the model
\* does not see until it is unlocked, "push" one a background turn may not
\* use, "poll" one of the guard's _EXCLUDED_TOOLS.
Tools == {"search", "read", "push", "poll", "hidden"}
AlwaysOn == Tools \ {"hidden"}

ASSUME ReasonerConstants ==
    /\ Batches \subseteq Seq(Tools) /\ <<>> \notin Batches
    /\ RepeatLimit \in Nat /\ RepeatLimit >= 2
    /\ MaxIterations \in Nat \ {0} /\ MaxAttempts \in Nat \ {0}
    /\ MaxTurns \in Nat /\ MaxOthers \in Nat

VARIABLES
    react,      \* the running turn
    guardState, \* _LoopState of the session, kept between turns
    preloaded,  \* tools the session used or unlocked earlier
    excluded,   \* _excluded_names of the one tool_search all sessions share
    turns,      \* number of turns begun
    others      \* number of searches by other sessions
reactVars == <<react, guardState, preloaded, excluded, turns, others>>

NoNames == {"none"}
NoRow == [batch |-> <<>>, length |-> 0]
Disabled(r) == IF r.background THEN {"push"} ELSE {}

Idle == [pc |-> "idle", background |-> FALSE, attempt |-> 0, iteration |-> 0,
         visible |-> {}, batch |-> <<>>, at |-> 0, open |-> {},
         calls |-> <<>>, chain |-> <<>>, ran |-> <<>>, gained |-> {},
         asked |-> 0, outcome |-> "none"]

\* One execution of run(): the messages, the tool chain and the visible
\* tools start over, whatever an earlier attempt of the turn has done.
Attempt(n, background) ==
    [Idle EXCEPT !.pc = "step", !.background = background, !.attempt = n,
                 !.visible = (AlwaysOn \union preloaded)
                               \ (IF background THEN {"push"} ELSE {})]

ReactInit ==
    /\ react = Idle
    /\ guardState = NoRow
    /\ preloaded = {}
    /\ excluded = NoNames
    /\ turns = 0 /\ others = 0

-----------------------------------------------------------------------------
\* The loop guard, asked before every call that is not disabled.

Signature(b) == SelectSeq(b, LAMBDA t : t # "poll")
Active(b, i) == b[i] # "poll" /\ \A j \in 1 .. i - 1 : b[j] = "poll"
Longer(row, b) == IF Signature(b) = row.batch
                    THEN [row EXCEPT !.length = @ + 1]
                    ELSE [batch |-> Signature(b), length |-> 1]

Counted == IF Active(react.batch, react.at) THEN Longer(guardState, react.batch)
                                           ELSE guardState
Denies == /\ Active(react.batch, react.at)
          /\ Counted.length >= RepeatLimit

-----------------------------------------------------------------------------
\* Turns and model calls.

BeginReact ==
    /\ react.pc = "idle" /\ turns < MaxTurns
    /\ \E background \in BOOLEAN : react' = Attempt(1, background)
    /\ turns' = turns + 1
    /\ UNCHANGED <<guardState, preloaded, excluded, others>>

\* The head of the loop: the cap, a BeforeStep plugin, or a model call.
OutOfIterationsLate(r) == r.iteration > MaxIterations
OutOfIterations(r) == r.iteration >= MaxIterations
ReactStep ==
    /\ react.pc = "step"
    /\ react' = [react EXCEPT !.pc = IF OutOfIterations(react) THEN "summary"
                                                              ELSE "model"]
    /\ UNCHANGED <<guardState, preloaded, excluded, turns, others>>
StepStopped ==
    /\ react.pc = "step" /\ ~OutOfIterations(react)
    /\ react' = [react EXCEPT !.pc = "summary"]
    /\ UNCHANGED <<guardState, preloaded, excluded, turns, others>>

ModelCalls(b) ==
    /\ react.pc = "model"
    /\ react' = [react EXCEPT !.pc = "call", !.asked = @ + 1, !.batch = b,
                              !.at = 1, !.open = 1 .. Len(b), !.calls = <<>>]
    /\ UNCHANGED <<guardState, preloaded, excluded, turns, others>>

\* Thoughts without a text: one more call, without tools.
ModelOnlyThinks ==
    /\ react.pc = "model"
    /\ react' = [react EXCEPT !.pc = "retry", !.asked = @ + 1]
    /\ UNCHANGED <<guardState, preloaded, excluded, turns, others>>

\* run() returns: what the turn used or unlocked is preloaded next time.
\* The call that ends it is the model's answer or the summary; the summary
\* falls back on a fixed text, so it cannot fail.
ModelAnswers ==
    /\ react.pc \in {"model", "retry", "summary"}
    /\ react' = [react EXCEPT !.pc = "idle", !.asked = @ + 1,
                              !.outcome = "reply"]
    /\ preloaded' = preloaded \union react.gained
    /\ UNCHANGED <<guardState, excluded, turns, others>>

\* ContentSafetyError and ContextLengthError: the next plan, or a fixed text.
SamePlan(r) == Attempt(r.attempt, r.background)
NextPlan(r) == Attempt(r.attempt + 1, r.background)
ModelRefuses ==
    /\ react.pc \in {"model", "retry"}
    /\ react' = IF react.attempt < MaxAttempts
                  THEN NextPlan(react)
                  ELSE [react EXCEPT !.pc = "idle", !.outcome = "refused"]
    /\ UNCHANGED <<guardState, preloaded, excluded, turns, others>>

\* A timeout of the model's stream is answered with a fixed text; any other
\* error, and the cancellation of the turn at any await, leaves run_turn.
ModelFails ==
    /\ react.pc \in {"model", "retry"}
    /\ react' = [react EXCEPT !.pc = "idle", !.outcome = "failed"]
    /\ UNCHANGED <<guardState, preloaded, excluded, turns, others>>
CancelReact ==
    /\ react.pc # "idle"
    /\ react' = [react EXCEPT !.pc = "idle", !.outcome = "cancelled"]
    /\ UNCHANGED <<guardState, preloaded, excluded, turns, others>>

-----------------------------------------------------------------------------
\* The calls of a batch, one after the other.

Calling(pc) == react.pc = pc /\ react.at <= Len(react.batch)
Called == react.batch[react.at]
Answered(r) == [r EXCEPT !.pc = "call", !.at = @ + 1, !.open = @ \ {r.at}]

\* A disabled tool is refused before any hook runs.
CallDisabled ==
    /\ Calling("call") /\ Called \in Disabled(react)
    /\ react' = Answered(react)
    /\ UNCHANGED <<guardState, preloaded, excluded, turns, others>>

\* A tool the model cannot see goes through preflight, where the guard
\* counts it, and is answered with the hint to load it first.
CallHidden ==
    /\ Calling("call") /\ Called \notin react.visible \union Disabled(react)
    /\ ~Denies
    /\ react' = Answered(react)
    /\ guardState' = Counted
    /\ UNCHANGED <<preloaded, excluded, turns, others>>

\* What the model may see already is handed to tool_search in a field of
\* the tool, before the awaits of the observers and of the hooks.
SearchDispatched ==
    /\ Calling("call") /\ Called = "search" /\ Called \in react.visible
    /\ react' = [react EXCEPT !.pc = "search"]
    /\ excluded' = react.visible \union Disabled(react)
    /\ UNCHANGED <<guardState, preloaded, turns, others>>

\* tool_search takes the field and clears it; a hit it may return is unlocked.
SearchRuns ==
    /\ Calling("search") /\ ~Denies
    /\ guardState' = Counted
    /\ excluded' = NoNames
    /\ \E found \in SUBSET ({"hidden"} \ excluded) :
         react' = [Answered(react) EXCEPT
                     !.visible = @ \union found, !.gained = @ \union found,
                     !.calls = Append(@, "search"), !.ran = Append(@, "search")]
    /\ UNCHANGED <<preloaded, turns, others>>

\* Another hook may refuse the call, and the tool may fail: both are results,
\* and only a success makes the tool one the session used.
CallRuns ==
    /\ Calling("call") /\ Called \in react.visible \ ({"search"} \union Disabled(react))
    /\ ~Denies
    /\ guardState' = Counted
    /\ \/ \E used \in SUBSET {Called} :
            react' = [Answered(react) EXCEPT
                      !.gained = @ \union (used \ AlwaysOn),
                      !.calls = Append(@, Called), !.ran = Append(@, Called)]
       \/ react' = Answered(react)
    /\ UNCHANGED <<preloaded, excluded, turns, others>>

\* The guard denies: the rest of the batch is answered as skipped, the batch
\* is recorded, and the loop ends in a summary.
CutShortForgetting(r) ==
    [r EXCEPT !.pc = "summary", !.open = {}]
CutShortLeavingRest(r) ==
    [r EXCEPT !.pc = "summary", !.open = @ \ {r.at}, !.chain = @ \o r.calls]
CutShort(r) ==
    [r EXCEPT !.pc = "summary", !.open = {}, !.chain = @ \o r.calls]
CallDenied ==
    /\ \/ Calling("call") /\ Called \notin Disabled(react) \union {"search"}
       \/ Calling("search")
    /\ Denies
    /\ react' = CutShort(react)
    /\ guardState' = Counted
    /\ UNCHANGED <<preloaded, excluded, turns, others>>

\* The batch is recorded; an AfterStep plugin may stop the loop.
BatchOver ==
    /\ react.pc = "call" /\ react.at > Len(react.batch)
    /\ \/ react' = [react EXCEPT !.pc = "step", !.iteration = @ + 1,
                                 !.chain = @ \o react.calls]
       \/ react' = [react EXCEPT !.pc = "summary", !.chain = @ \o react.calls]
    /\ UNCHANGED <<guardState, preloaded, excluded, turns, others>>

\* The turn of another session uses the shared tool_search in between: its
\* own names are in the field, or the field is already cleared.
OtherSearch ==
    /\ others < MaxOthers /\ others' = others + 1
    /\ excluded' \in {NoNames, AlwaysOn, Tools}
    /\ UNCHANGED <<react, guardState, preloaded, turns>>

ReactProgress ==
    \/ ReactStep \/ StepStopped
    \/ (\E b \in Batches : ModelCalls(b)) \/ ModelOnlyThinks
    \/ ModelAnswers \/ ModelRefuses \/ ModelFails
    \/ CallDisabled \/ CallHidden \/ SearchDispatched \/ SearchRuns
    \/ CallRuns \/ CallDenied \/ BatchOver
ReactNext == BeginReact \/ ReactProgress \/ CancelReact \/ OtherSearch

ReactSpec == ReactInit /\ [][ReactNext]_reactVars
\* Every await of the loop has a time limit of its own (the provider's
\* timeout, the tools' timeouts), and nothing else holds the coroutine up.
ReactFairSpec == ReactSpec /\ WF_reactVars(ReactProgress)

-----------------------------------------------------------------------------
\* Properties.

\* The shape of the reasoner's state (run, passive_turn.py:1046-1725).  An
\* attempt calls the model at most MaxIterations times and once more for the
\* summary or the retry.
ReactTypeOK ==
    /\ react.pc \in {"idle", "step", "model", "retry", "call", "search", "summary"}
    /\ react.attempt \in 0 .. MaxAttempts /\ react.iteration \in 0 .. MaxIterations
    /\ react.visible \subseteq Tools \ Disabled(react)
    /\ react.open \subseteq 1 .. Len(react.batch)
    /\ preloaded \subseteq Tools \ AlwaysOn
    /\ guardState.length \in Nat
    /\ react.asked <= MaxIterations + 1

\* Whenever the model is called, every tool call of the messages it is sent
\* has its result, also after the guard cut a batch short
\* (passive_turn.py:1331, :1655): a provider rejects anything else.
TranscriptClosed ==
    react.pc \in {"model", "retry", "summary"} => react.open = {}

\* The tool chain a reply is stored with holds every call that ran in its
\* attempt, in order, however the loop ended (passive_turn.py:1593).
ReplyRecordsAttempt ==
    react.outcome = "reply" => react.chain = react.ran

\* A turn ends: the loop and the list of plans are both finite.
TurnsReply ==
    (react.pc # "idle") ~> (react.pc = "idle")

=============================================================================
