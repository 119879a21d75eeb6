---------------------------- MODULE ProactiveTick ----------------------------
(***************************************************************************)
(* The proactive loop: a tick fetches what the sources offer, lets a model  *)
(* classify it with tools and draft a message, checks the message against   *)
(* earlier ones, stores it in the session, sends it, and then runs its side *)
(* effects one by one: it marks the delivery and acknowledges items at      *)
(* their sources.  With nothing to talk about a tick may drift, and a drift *)
(* may send one message of its own.                                         *)
(*                                                                          *)
(* Any side effect, any acknowledgement and the sending can fail, a send    *)
(* can fail after the message has arrived, and the process can die between  *)
(* any two steps.  A step is the code between two awaits, split where a     *)
(* crash makes a difference on disk.                                        *)
(***************************************************************************)
EXTENDS Naturals, FiniteSets

CONSTANTS
    Alerts, Contents,   \* compound keys the sources can offer
    MaxSteps,           \* agent_tick_max_steps
    CompleteSteps,      \* steps granted to classify the rest
    ReflectSteps,       \* steps granted to come to an end
    DriftSteps,         \* drift_max_steps
    MaxTicks,           \* bound: ticks that pass the gate
    MaxCrashes          \* bound: crashes

ASSUME ProactiveConstants ==
    /\ Alerts \cap Contents = {}
    /\ {MaxSteps, CompleteSteps, ReflectSteps, DriftSteps} \subseteq Nat \ {0}
    /\ MaxTicks \in Nat /\ MaxCrashes \in Nat

VARIABLES
    tick,            \* AgentTickContext, and where the tick stands
    offered,         \* items the sources return
    resting,         \* items acknowledged for a day only
    deliveredKeys,   \* deliveries of the dedupe window: what they cited
    cooling,         \* a delivery is marked within the cooldown
    thread,          \* proactive messages of the session: what each cites
    sentCount,       \* history: messages delivered that cite the item
    windowCount,     \* history: messages delivered since the last cooldown ended
    slips,           \* history: items cited whose acknowledgement failed, was cut
                     \* off, not tried since a send that arrived had failed, or
                     \* replaced by one for a day in a tick that had not fetched them
    windowSlip,      \* history: a delivery of this window was not marked
    dismissed,       \* history: items acknowledged without having been sent
    rejected,        \* history: items of messages rejected as repeats
    tickCount, tickCrashes   \* counters of the bounds

sources == <<offered, resting>>
marks == <<deliveredKeys, cooling>>
tickHistory == <<sentCount, windowCount, slips, windowSlip, dismissed, rejected>>
tickBounds == <<tickCount, tickCrashes>>
tickVars == <<tick, sources, marks, thread, tickHistory, tickBounds>>

Feed == Alerts \cup Contents

\* AgentTickContext as a tick starts; draft holds what the draft cites.
Asleep ==
    [at |-> "asleep", alerts |-> {}, contents |-> {}, fallback |-> FALSE,
     interesting |-> {}, discarded |-> {}, draft |-> {}, cited |-> {},
     terminal |-> "none", steps |-> 0, left |-> 0, sent |-> FALSE,
     due |-> {}, short |-> {}]

TickInit ==
    /\ tick = Asleep
    /\ offered = Feed /\ resting = {}
    /\ deliveredKeys = {} /\ cooling = FALSE
    /\ thread = {}
    /\ sentCount = [i \in Feed |-> 0] /\ windowCount = 0
    /\ slips = {} /\ windowSlip = FALSE
    /\ dismissed = {} /\ rejected = {}
    /\ tickCount = 0 /\ tickCrashes = 0

Quiet == UNCHANGED <<sources, marks, thread, tickHistory, tickBounds>>

-----------------------------------------------------------------------------
(* Gate and fetch                                                           *)

\* _gate_check passes.  Presence, quota, a busy chat and chance may block it too,
\* which looks the same as no tick.
Gate(fallback) ==
    /\ tick.at = "asleep"
    /\ ~cooling
    /\ tickCount < MaxTicks
    /\ tickCount' = tickCount + 1
    /\ tick' = [Asleep EXCEPT !.at = "fetch", !.fallback = fallback]
    /\ UNCHANGED <<sources, marks, thread, tickHistory, tickCrashes>>

\* DataGateway.run: a source that fails, or the content limit, hides items.
FetchSome(a, c) ==
    /\ tick.at = "fetch"
    /\ a \cup c # {} \/ tick.fallback
    /\ tick' = [tick EXCEPT !.at = "loop", !.alerts = a, !.contents = c]
    /\ Quiet

\* Nothing to talk about: drift, if a skill and the interval allow it.
FetchNothing(drift) ==
    /\ tick.at = "fetch"
    /\ ~tick.fallback
    /\ tick' = [tick EXCEPT !.at = IF drift THEN "drift" ELSE "resolve",
                            !.terminal = IF drift THEN "none" ELSE "skip"]
    /\ Quiet

-----------------------------------------------------------------------------
(* Judge: tool steps of the model                                           *)

Judging == tick.at \in {"loop", "complete", "reflect"}

\* The context with one more step spent.
Stepped == [tick EXCEPT !.steps = @ + 1,
                        !.left = IF tick.at = "loop" THEN 0 ELSE @ - 1]

\* The reflection asks for an end when items are interesting and none was made.
ToReflection(t) ==
    IF t.terminal = "none" /\ t.interesting # {} /\ t.steps < MaxSteps
    THEN [t EXCEPT !.at = "reflect", !.left = ReflectSteps]
    ELSE [t EXCEPT !.at = "resolve"]

\* What follows a loop of _judge_evaluate: a skip that left items unclassified is
\* taken back once, and the rest is to be classified.
PhaseOver(t) ==
    IF t.at = "loop" /\ t.terminal = "skip"
       /\ t.contents \ (t.interesting \cup t.discarded) # {}
    THEN IF t.steps < MaxSteps
         THEN [t EXCEPT !.at = "complete", !.terminal = "none", !.left = CompleteSteps]
         ELSE ToReflection([t EXCEPT !.terminal = "none"])
    ELSE IF t.at = "reflect" THEN [t EXCEPT !.at = "resolve"] ELSE ToReflection(t)

\* The loop goes on while there are steps and no end.
LoopOn(t) ==
    IF t.terminal # "none" \/ t.steps >= MaxSteps \/ (t.at # "loop" /\ t.left = 0)
    THEN PhaseOver(t)
    ELSE t

\* Ids a classification accepts: without contents nothing is refused.
Markable == IF tick.contents = {} THEN Feed ELSE tick.contents

\* A reading tool, or a call the tool refuses with a message.
LookAround ==
    /\ Judging
    /\ tick' = LoopOn(Stepped)
    /\ Quiet

MarkInteresting(S) ==
    /\ Judging
    /\ tick' = LoopOn([Stepped EXCEPT !.interesting = @ \cup (S \ tick.discarded)])
    /\ Quiet

MarkNotInteresting(S) ==
    /\ Judging
    /\ tick' = LoopOn([Stepped EXCEPT !.discarded = @ \cup S, !.interesting = @ \ S])
    /\ Quiet

\* message_push: a draft and its evidence, once.
MessagePush(evidence) ==
    /\ Judging
    /\ tick.draft = {}
    /\ tick' = LoopOn([Stepped EXCEPT !.draft = {evidence}])
    /\ Quiet

\* finish_turn(decision=reply): what the draft cites is interesting after all.
FinishReply ==
    /\ Judging
    /\ \E evidence \in tick.draft :
         tick' = LoopOn([Stepped EXCEPT !.cited = evidence, !.terminal = "reply",
                                        !.interesting = @ \cup evidence,
                                        !.discarded = @ \ evidence, !.draft = {}])
    /\ Quiet

\* finish_turn(decision=skip) is an error after a draft.
FinishSkip ==
    /\ Judging
    /\ tick.draft = {}
    /\ tick' = LoopOn([Stepped EXCEPT !.terminal = "skip"])
    /\ Quiet

\* A call that ends in an error, or no call at all, ends the loop it was made in.
BadCall(called) ==
    /\ Judging
    /\ tick' = PhaseOver(IF called THEN Stepped ELSE tick)
    /\ Quiet

\* The provider raises: the tick is given up, with nothing acknowledged.
TickRaises ==
    /\ Judging \/ tick.at = "drift"
    /\ tick' = Asleep
    /\ Quiet

-----------------------------------------------------------------------------
(* Resolve and deliver                                                      *)

\* Variant: the failure effects acknowledge what the success effects would.
DiscardedAndCited(t) == [t EXCEPT !.at = "ack", !.due = t.discarded \cup t.cited]

\* ack_discarded: of a skip, and of a message that could not be sent.
AckDiscarded(t) == [t EXCEPT !.at = "ack", !.due = t.discarded]

\* ack_post_guard_fail: everything the rejected message was made from.
AckPostGuard(t) ==
    LET forADay == (t.cited \cup t.interesting) \ t.alerts
    IN  [t EXCEPT !.at = "ack", !.short = forADay,
                  !.due = forADay \cup t.alerts \cup t.discarded]

\* Variant: alerts are left to their sources.
AckContentsOnly(t) ==
    LET uncited == (t.interesting \ t.cited) \ t.alerts
    IN  [t EXCEPT !.at = "ack", !.short = uncited,
                  !.due = (t.cited \cap t.contents) \cup uncited \cup t.discarded]

\* ack_on_success: cited items for good, the other interesting ones for a day; an
\* alert that was not cited stays at its source.
AckOnSuccess(t) ==
    LET uncited == (t.interesting \ t.cited) \ t.alerts
    IN  [t EXCEPT !.at = "ack", !.short = uncited,
                  !.due = t.cited \cup uncited \cup t.discarded]

ResolveSkip ==
    /\ tick.at = "resolve" /\ tick.terminal # "reply"
    /\ tick' = AckDiscarded(tick)
    /\ Quiet

\* build_delivery_key and is_delivery_duplicate.
DeliveryRepeated == tick.cited # {} /\ tick.cited \in deliveredKeys

ResolveReply ==
    /\ tick.at = "resolve" /\ tick.terminal = "reply"
    /\ tick' = IF DeliveryRepeated THEN AckPostGuard(tick) ELSE [tick EXCEPT !.at = "dedupe"]
    /\ rejected' = IF DeliveryRepeated THEN rejected \cup tick.cited ELSE rejected
    /\ UNCHANGED <<sources, marks, thread, sentCount, windowCount, slips, windowSlip,
                   dismissed, tickBounds>>

\* MessageDeduper: the message says no more than a stored proactive one.
JudgedDuplicate ==
    /\ tick.at = "dedupe"
    /\ \E earlier \in thread : tick.cited \subseteq earlier /\ (tick.cited = {} => earlier = {})
    /\ tick' = AckPostGuard(tick)
    /\ rejected' = rejected \cup tick.cited
    /\ UNCHANGED <<sources, marks, thread, sentCount, windowCount, slips, windowSlip,
                   dismissed, tickBounds>>

\* It is new, or the check failed: handle_proactive_turn stores the message first.
PersistMessage ==
    /\ tick.at = "dedupe"
    /\ tick' = [tick EXCEPT !.at = "dispatch"]
    /\ thread' = thread \cup {tick.cited}
    /\ UNCHANGED <<sources, marks, tickHistory, tickBounds>>

\* The message has reached the chat.
Arrived(cited) ==
    /\ sentCount' = [i \in Feed |-> IF i \in cited THEN sentCount[i] + 1 ELSE sentCount[i]]
    /\ windowCount' = windowCount + 1

\* dispatch returns True.
DispatchOk ==
    /\ tick.at = "dispatch"
    /\ Arrived(tick.cited)
    /\ tick' = [tick EXCEPT !.at = "mark"]
    /\ UNCHANGED <<sources, marks, thread, slips, windowSlip, dismissed, rejected,
                   tickBounds>>

\* dispatch returns False or raises, and the message may have arrived all the same.
DispatchFails(arrived) ==
    /\ tick.at = "dispatch"
    /\ IF arrived THEN Arrived(tick.cited) ELSE UNCHANGED <<sentCount, windowCount>>
    /\ slips' = IF arrived THEN slips \cup tick.cited ELSE slips
    /\ windowSlip' = (windowSlip \/ arrived)
    /\ tick' = AckDiscarded(tick)
    /\ UNCHANGED <<sources, marks, thread, dismissed, rejected, tickBounds>>

\* The first success effect: mark_delivery, which may raise.
MarkDelivery(ok) ==
    /\ tick.at = "mark"
    /\ deliveredKeys' = IF ok THEN deliveredKeys \cup {tick.cited} ELSE deliveredKeys
    /\ cooling' = (cooling \/ ok)
    /\ windowSlip' = (windowSlip \/ ~ok)
    /\ tick' = AckOnSuccess(tick)
    /\ UNCHANGED <<sources, thread, sentCount, windowCount, slips, dismissed, rejected,
                   tickBounds>>

\* The acknowledgements that get through; a failed one is only logged.
Acknowledge(done) ==
    /\ tick.at = "ack"
    /\ offered' = offered \ done
    /\ resting' = resting \cup (done \cap tick.short)
    /\ dismissed' = dismissed \cup (done \ tick.cited)
    /\ slips' = slips \cup ((tick.due \cap tick.cited) \ done)
                      \cup {i \in (done \cap tick.short) \ offered : sentCount[i] > 0}
    /\ tick' = Asleep
    /\ UNCHANGED <<marks, thread, sentCount, windowCount, windowSlip, rejected, tickBounds>>

-----------------------------------------------------------------------------
(* Drift                                                                    *)

DriftOn(t) == IF t.steps >= DriftSteps THEN Asleep ELSE [t EXCEPT !.at = "drift"]

DriftTool ==
    /\ tick.at = "drift"
    /\ tick' = DriftOn([tick EXCEPT !.steps = @ + 1])
    /\ Quiet

\* finish_drift, an error, or no call.
EndDrift ==
    /\ tick.at = "drift"
    /\ tick' = Asleep
    /\ Quiet

\* Variant: a push is no step of the run.
DriftPushUncounted ==
    /\ tick.at = "drift"
    /\ ~tick.sent
    /\ tick' = [tick EXCEPT !.at = "driftDispatch"]
    /\ thread' = thread \cup {{}}
    /\ UNCHANGED <<sources, marks, tickHistory, tickBounds>>

\* message_push of a drift run: once.
DriftPush ==
    /\ tick.at = "drift"
    /\ ~tick.sent
    /\ tick' = [tick EXCEPT !.at = "driftDispatch", !.steps = @ + 1]
    /\ thread' = thread \cup {{}}
    /\ UNCHANGED <<sources, marks, tickHistory, tickBounds>>

DriftDispatchOk ==
    /\ tick.at = "driftDispatch"
    /\ Arrived({})
    /\ tick' = [tick EXCEPT !.at = "driftMark"]
    /\ UNCHANGED <<sources, marks, thread, slips, windowSlip, dismissed, rejected,
                   tickBounds>>

DriftDispatchFails(arrived) ==
    /\ tick.at = "driftDispatch"
    /\ IF arrived THEN Arrived({}) ELSE UNCHANGED <<sentCount, windowCount>>
    /\ windowSlip' = (windowSlip \/ arrived)
    /\ tick' = DriftOn(tick)
    /\ UNCHANGED <<sources, marks, thread, slips, dismissed, rejected, tickBounds>>

\* Variant: the run does not remember that it has sent.
DriftMarkForgetting(ok) ==
    /\ tick.at = "driftMark"
    /\ cooling' = (cooling \/ ok)
    /\ windowSlip' = (windowSlip \/ ~ok)
    /\ tick' = DriftOn(tick)
    /\ UNCHANGED <<sources, deliveredKeys, thread, sentCount, windowCount, slips,
                   dismissed, rejected, tickBounds>>

\* mark_delivery of the drift message, and drift_message_sent.
DriftMark(ok) ==
    /\ tick.at = "driftMark"
    /\ cooling' = (cooling \/ ok)
    /\ windowSlip' = (windowSlip \/ ~ok)
    /\ tick' = DriftOn([tick EXCEPT !.sent = TRUE])
    /\ UNCHANGED <<sources, deliveredKeys, thread, sentCount, windowCount, slips,
                   dismissed, rejected, tickBounds>>

-----------------------------------------------------------------------------
(* Time, sources, crashes                                                   *)

\* agent_tick_delivery_cooldown_hours have passed.
CooldownOver ==
    /\ cooling
    /\ cooling' = FALSE
    /\ windowCount' = 0 /\ windowSlip' = FALSE
    /\ UNCHANGED <<tick, sources, deliveredKeys, thread, sentCount, slips, dismissed,
                   rejected, tickBounds>>

\* delivery_dedupe_hours have passed, which are no fewer.
DedupeOver ==
    /\ ~cooling /\ deliveredKeys # {}
    /\ deliveredKeys' = {}
    /\ UNCHANGED <<tick, sources, cooling, thread, tickHistory, tickBounds>>

\* The source offers an item again a day later.
Reoffer(i) ==
    /\ i \in resting
    /\ resting' = resting \ {i}
    /\ offered' = offered \cup {i}
    /\ UNCHANGED <<tick, marks, thread, tickHistory, tickBounds>>

\* The process dies during a tick and starts again.
TickCrash ==
    /\ tick.at # "asleep"
    /\ tickCrashes < MaxCrashes
    /\ tickCrashes' = tickCrashes + 1
    /\ slips' = slips \cup (IF tick.at = "mark" THEN tick.cited
                            ELSE tick.due \cap tick.cited)
    /\ windowSlip' = (windowSlip \/ tick.at \in {"mark", "driftMark"})
    /\ tick' = Asleep
    /\ UNCHANGED <<sources, marks, thread, sentCount, windowCount, dismissed, rejected,
                   tickCount>>

-----------------------------------------------------------------------------
JudgeStep ==
    \/ LookAround \/ FinishReply \/ FinishSkip \/ TickRaises
    \/ \E S \in SUBSET Markable \ {{}} : MarkInteresting(S) \/ MarkNotInteresting(S)
    \/ \E evidence \in SUBSET (tick.alerts \cup tick.contents) : MessagePush(evidence)
    \/ \E called \in BOOLEAN : BadCall(called)

DeliverStep ==
    \/ ResolveSkip \/ ResolveReply \/ JudgedDuplicate \/ PersistMessage \/ DispatchOk
    \/ \E arrived \in BOOLEAN : DispatchFails(arrived)
    \/ \E ok \in BOOLEAN : MarkDelivery(ok)
    \/ \E done \in SUBSET tick.due : Acknowledge(done)

DriftStep ==
    \/ DriftTool \/ EndDrift \/ DriftPush \/ DriftDispatchOk
    \/ \E arrived \in BOOLEAN : DriftDispatchFails(arrived)
    \/ \E ok \in BOOLEAN : DriftMark(ok)

FetchStep ==
    \/ \E a \in SUBSET (offered \cap Alerts), c \in SUBSET (offered \cap Contents) :
         FetchSome(a, c)
    \/ \E drift \in BOOLEAN : FetchNothing(drift)

TickStep == FetchStep \/ JudgeStep \/ DeliverStep \/ DriftStep

TickNext ==
    \/ \E fallback \in BOOLEAN : Gate(fallback)
    \/ TickStep
    \/ CooldownOver \/ DedupeOver \/ TickCrash
    \/ \E i \in Feed : Reoffer(i)

TickSpec == TickInit /\ [][TickNext]_tickVars

\* Awaits of a tick return: model and tool calls have timeouts.
TickFairSpec == TickSpec /\ WF_tickVars(TickStep)

-----------------------------------------------------------------------------
TickTypeOK ==
    /\ tick \in [at : {"asleep", "fetch", "loop", "complete", "reflect", "resolve",
                       "dedupe", "dispatch", "mark", "ack", "drift", "driftDispatch",
                       "driftMark"},
                 alerts : SUBSET Alerts, contents : SUBSET Contents,
                 fallback : BOOLEAN, interesting : SUBSET Feed,
                 discarded : SUBSET Feed, draft : SUBSET SUBSET Feed,
                 cited : SUBSET Feed, terminal : {"none", "skip", "reply"},
                 steps : Nat, left : Nat, sent : BOOLEAN,
                 due : SUBSET Feed, short : SUBSET Feed]
    /\ {offered, resting, slips, dismissed, rejected} \subseteq SUBSET Feed
    /\ deliveredKeys \in SUBSET SUBSET Feed /\ thread \in SUBSET SUBSET Feed
    /\ cooling \in BOOLEAN /\ windowSlip \in BOOLEAN
    /\ sentCount \in [Feed -> Nat]
    /\ {windowCount, tickCount, tickCrashes} \subseteq Nat

\* What a delivered message cited is not sent in a second one, over ticks with
\* other evidence, over restarts and after the dedupe window, unless the
\* acknowledgement failed or was cut off, a failed send had arrived, or a tick
\* without contents acknowledged the item again, for a day (tools.py:326 refuses
\* an unknown id only when there are contents).
SentOnce == \A i \in Feed : sentCount[i] <= 1 \/ i \in slips

\* The cooldown holds across ordinary and drift messages: one delivery, unless
\* one was not marked.
OneDeliveryPerWindow == windowCount <= 1 \/ windowSlip

\* An item leaves its source because it was sent, or the model or a check put it
\* aside: not because sending it failed.
NothingDropped ==
    \A i \in Feed : i \notin offered => sentCount[i] > 0 \/ i \in dismissed \cup rejected

\* Every tick ends, whatever the model calls.
TickEnds == tick.at # "asleep" ~> tick.at = "asleep"

\* A message rejected as a repeat repeats what was delivered.
RejectedOnlyIfSent == \A i \in rejected : sentCount[i] > 0
=============================================================================
