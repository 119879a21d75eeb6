------------------------- MODULE ProactiveTickProofs -------------------------
(***************************************************************************)
(* Theorems about ProactiveTick, for any items, step limits, ticks and      *)
(* crashes: what is sent once, what leaves its source, and the cooldown.    *)
(***************************************************************************)
EXTENDS ProactiveTick, TLAPS

\* The fields of a tick, and the places a tick can be at.
Fields == {"at", "alerts", "contents", "fallback", "interesting", "discarded", "draft",
           "cited", "terminal", "steps", "left", "sent", "due", "short"}
TickPlaces == {"asleep", "fetch", "loop", "complete", "reflect", "resolve", "dedupe",
           "dispatch", "mark", "ack", "drift", "driftDispatch", "driftMark"}
\* The loops in which the model judges.
InJudge == {"loop", "complete", "reflect"}
\* The places of a tick that holds evidence and has not sent it.
Unsent == InJudge \cup {"resolve", "dedupe", "dispatch"}

\* What the tick knows by itself: a draft cites what was fetched, nothing is cited
\* before the reply, and what is cited is not discarded.
TickOK(t) ==
    /\ DOMAIN t = Fields
    /\ t.at \in TickPlaces /\ t.sent \in BOOLEAN
    /\ t.interesting \subseteq Feed /\ t.discarded \subseteq Feed
    /\ t.due \subseteq Feed
    /\ t.cited \subseteq t.alerts \cup t.contents
    /\ t.alerts \subseteq Feed /\ t.contents \subseteq Feed
    /\ \A d \in t.draft : d \subseteq t.alerts \cup t.contents
    /\ t.terminal # "reply" => t.cited = {}
    /\ t.discarded \cap t.cited = {}
    /\ t.at \in InJudge => t.terminal = "none"
    /\ t.at = "fetch" => /\ t.terminal = "none" /\ t.draft = {}
                         /\ t.alerts = {} /\ t.contents = {}

\* Nothing delivered cites the item, or one of the slips SentOnce excepts happened.
SentSettled(i) == sentCount[i] = 0 \/ i \in slips

\* What the tick holds against what was sent before.
Gone ==
    \A i \in Feed : SentSettled(i) \/
      /\ i \notin resting
      /\ \/ i \notin offered
         \/ tick.at = "mark" /\ i \in tick.cited
         \/ tick.at = "ack" /\ i \in tick.due \cap tick.cited
\* What a tick may still cite is at its source, and its earlier deliveries are settled.
EvidenceSettled ==
    tick.at \in Unsent => \A i \in tick.alerts \cup tick.contents : SentSettled(i) /\ i \in offered
\* What is about to be marked has been delivered.
CitedSent == tick.at = "mark" => \A i \in tick.cited : sentCount[i] > 0
\* What is about to be acknowledged and was cited, was delivered or rejected; for a
\* day, only if it was not cited by what was delivered.
DueSent ==
    tick.at = "ack" =>
      /\ \A i \in tick.due \cap tick.cited : sentCount[i] > 0 \/ i \in rejected
      /\ \A i \in tick.due \cap tick.short \cap tick.cited : SentSettled(i)

\* What was sent, what is offered and what is put aside agree.
TickLedger ==
    /\ sentCount \in [Feed -> Nat]
    /\ SentOnce /\ NothingDropped /\ offered \cap resting = {}
    /\ Gone /\ EvidenceSettled /\ CitedSent /\ DueSent

\* A tick that may still send was let in by the gate, and has sent nothing.
MaySend(t) == t.at \in Unsent \cup {"fetch", "mark", "driftDispatch", "driftMark"}
              \/ (t.at = "drift" /\ t.sent = FALSE)
\* The cooldown: one delivery, unless one was not marked.
Window ==
    /\ windowCount \in Nat
    /\ cooling \in BOOLEAN /\ windowSlip \in BOOLEAN
    /\ MaySend(tick) => cooling = FALSE
    /\ windowCount = 0 \/ windowSlip = TRUE \/
         /\ windowCount = 1
         /\ tick.at \in {"mark", "driftMark"} \/ (cooling = TRUE /\ ~MaySend(tick))

\* The inductive invariant of what is sent.
TickInv == TickOK(tick) /\ TickLedger /\ Window

\* What the sources offer, in both kinds.
LEMMA FeedIs == Alerts \subseteq Feed /\ Contents \subseteq Feed /\ Feed = Alerts \cup Contents
BY DEF Feed

\* A tick that has not begun knows nothing.
LEMMA AsleepIs ==
  /\ TickOK(Asleep) /\ Asleep.at = "asleep" /\ Asleep.sent = FALSE /\ Asleep.cited = {}
  /\ Asleep.alerts = {} /\ Asleep.contents = {} /\ DOMAIN Asleep = Fields
BY DEF Asleep, TickOK, Fields, TickPlaces, InJudge

\* t and u hold the same items.
SameItems(t, u) ==
    /\ DOMAIN u = DOMAIN t
    /\ u.alerts = t.alerts /\ u.contents = t.contents /\ u.interesting = t.interesting
    /\ u.discarded = t.discarded /\ u.draft = t.draft /\ u.cited = t.cited
    /\ u.due = t.due /\ u.short = t.short /\ u.sent = t.sent

\* The end of a loop: another loop with nothing decided, or the resolution.
LEMMA ReflectionKeeps ==
  ASSUME NEW t, DOMAIN t = Fields
  PROVE  LET u == ToReflection(t)
         IN  /\ SameItems(t, u) /\ u.terminal = t.terminal
             /\ u.at = "resolve" \/ (u.at = "reflect" /\ u.terminal = "none")
BY DEF ToReflection, SameItems, Fields

\* u is what the end of a loop makes of t: the same items, and at most a skip less.
Ended(t, u) ==
    /\ SameItems(t, u)
    /\ u.terminal = t.terminal \/ (t.terminal = "skip" /\ u.terminal = "none")
    /\ u.at = "resolve" \/ (u.at \in InJudge /\ u.terminal = "none")

\* The end of a loop takes back at most a skip, and changes no item.
LEMMA PhaseKeeps ==
  ASSUME NEW t, DOMAIN t = Fields
  PROVE  Ended(t, PhaseOver(t))
<1> DEFINE c == [t EXCEPT !.at = "complete", !.terminal = "none", !.left = CompleteSteps]
           n == [t EXCEPT !.terminal = "none"]
           r == [t EXCEPT !.at = "resolve"]
<1>1. SameItems(t, c) /\ c.at = "complete" /\ c.terminal = "none"
  BY DEF SameItems, Fields
<1>2. SameItems(t, n) /\ n.terminal = "none" /\ DOMAIN n = Fields
  BY DEF SameItems, Fields
<1>3. SameItems(t, r) /\ r.at = "resolve" /\ r.terminal = t.terminal
  BY DEF SameItems, Fields
<1>4. LET u == ToReflection(n) IN
        /\ SameItems(n, u) /\ u.terminal = n.terminal
        /\ u.at = "resolve" \/ (u.at = "reflect" /\ u.terminal = "none")
  <2> HIDE DEF n
  <2> QED BY <1>2, ReflectionKeeps
<1>5. LET u == ToReflection(t) IN
        /\ SameItems(t, u) /\ u.terminal = t.terminal
        /\ u.at = "resolve" \/ (u.at = "reflect" /\ u.terminal = "none")
  BY ReflectionKeeps
<1>6. CASE t.at = "loop" /\ t.terminal = "skip"
           /\ t.contents \ (t.interesting \cup t.discarded) # {}
  <2>1. PhaseOver(t) = IF t.steps < MaxSteps THEN c ELSE ToReflection(n)
    BY <1>6, Zenon DEF PhaseOver
  <2>2. Ended(t, c)
    BY <1>1, <1>6 DEF Ended, InJudge
  <2>3. Ended(t, ToReflection(n))
    <3> HIDE DEF n
    <3> QED BY <1>2, <1>4, <1>6 DEF Ended, SameItems, InJudge
  <2> QED BY <2>1, <2>2, <2>3
<1>7. CASE ~(t.at = "loop" /\ t.terminal = "skip"
             /\ t.contents \ (t.interesting \cup t.discarded) # {})
  <2>1. PhaseOver(t) = r \/ PhaseOver(t) = ToReflection(t)
    BY <1>7 DEF PhaseOver
  <2>2. Ended(t, r) /\ Ended(t, ToReflection(t))
    BY <1>3, <1>5 DEF Ended, InJudge
  <2> QED BY <2>1, <2>2
<1> QED BY <1>6, <1>7

\* So does going on with a loop, which may come to its end.
LEMMA LoopKeeps ==
  ASSUME NEW t, DOMAIN t = Fields, t.at \in InJudge
  PROVE  Ended(t, LoopOn(t))
<1>1. Ended(t, PhaseOver(t))
  BY PhaseKeeps
<1>2. CASE LoopOn(t) = PhaseOver(t)
  BY <1>1, <1>2
<1>3. CASE LoopOn(t) # PhaseOver(t)
  BY <1>3 DEF LoopOn, Ended, SameItems
<1> QED BY <1>2, <1>3

\* Steps that move the tick and nothing else, before anything is sent.
LEMMA QuietLedger ==
  ASSUME TickLedger, UNCHANGED <<sources, sentCount, slips, dismissed, rejected>>,
         tick.at \notin {"mark", "ack"}, tick'.at \notin {"mark", "ack"},
         tick'.at \in Unsent =>
           \/ tick'.alerts \cup tick'.contents \subseteq offered \cap Feed
           \/ /\ tick.at \in Unsent
              /\ tick'.alerts \cup tick'.contents = tick.alerts \cup tick.contents
  PROVE  TickLedger'
BY DEF TickLedger, Gone, EvidenceSettled, CitedSent, DueSent, SentSettled, sources, NothingDropped,
       SentOnce

\* A message given up: what it cites and acknowledges was rejected.
LEMMA AckLedger ==
  ASSUME TickLedger, tick.at \in {"resolve", "dedupe"}, tick'.at = "ack",
         UNCHANGED <<sources, sentCount, slips, dismissed>>, rejected \subseteq rejected',
         \A i \in tick'.due \cap tick'.cited : i \in rejected' /\ SentSettled(i)
  PROVE  TickLedger'
<1>1. \A i \in Feed : SentSettled(i)' <=> SentSettled(i)
  BY DEF SentSettled
<1>2. (SentOnce /\ NothingDropped)' /\ (offered \cap resting = {})'
  BY DEF TickLedger, SentOnce, NothingDropped, sources
<1>3. Gone'
  BY <1>1 DEF TickLedger, Gone, sources
<1>4. EvidenceSettled' /\ CitedSent'
  BY DEF EvidenceSettled, CitedSent, Unsent, InJudge
<1>5. DueSent'
  BY DEF DueSent, SentSettled
<1> QED BY <1>2, <1>3, <1>4, <1>5 DEF TickLedger

\* A step that delivers nothing and lets no tick send that could not keeps the cooldown.
LEMMA QuietWindow ==
  ASSUME Window, UNCHANGED <<cooling, windowCount, windowSlip>>,
         tick.at \notin {"mark", "driftMark"}, MaySend(tick') => MaySend(tick)
  PROVE  Window'
BY DEF Window

\* A tool step of the model: what LoopOn or PhaseOver makes of the tick t that the
\* tool has left.
LEMMA JudgeStepKeeps ==
  ASSUME TickInv, NEW t, TickOK(t), tick.at \in InJudge, tick' = t, 
         t.alerts = tick.alerts, t.contents = tick.contents, t.at \in InJudge \cup {"resolve"},
         Quiet
  PROVE  TickInv'
<1>1. TickLedger'
  <2>1. tick'.at \in Unsent /\ tick.at \in Unsent
    BY DEF Unsent, InJudge
  <2> QED BY <2>1, QuietLedger DEF TickInv, Quiet, tickHistory, InJudge, Unsent
<1>2. Window'
  <2>1. MaySend(tick)
    BY DEF MaySend, Unsent
  <2> QED BY <2>1, QuietWindow DEF TickInv, Quiet, marks, tickHistory, InJudge
<1> QED BY <1>1, <1>2 DEF TickInv

\* What a loop has left is a tick, if what the tool made of it was one.
LEMMA EndedOK ==
  ASSUME NEW t, NEW u, Ended(t, u), DOMAIN t = Fields,
         t.interesting \subseteq Feed, t.discarded \subseteq Feed, t.due \subseteq Feed,
         t.cited \subseteq t.alerts \cup t.contents,
         t.alerts \subseteq Feed, t.contents \subseteq Feed,
         \A d \in t.draft : d \subseteq t.alerts \cup t.contents,
         t.terminal # "reply" => t.cited = {}, t.discarded \cap t.cited = {}, t.sent \in BOOLEAN
  PROVE  TickOK(u) /\ u.alerts = t.alerts /\ u.contents = t.contents
         /\ u.at \in InJudge \cup {"resolve"}
BY DEF Ended, SameItems, TickOK, TickPlaces, InJudge

\* The tool steps of the model keep the invariant.
LEMMA JudgeInv == TickInv /\ JudgeStep => TickInv'
<1> SUFFICES ASSUME TickInv, JudgeStep PROVE TickInv'
  OBVIOUS
<1>0. TickOK(tick)
  BY DEF TickInv
<1> DEFINE Items(t) ==
       /\ DOMAIN t = Fields /\ t.at = tick.at /\ t.sent = tick.sent
       /\ t.interesting \subseteq Feed /\ t.discarded \subseteq Feed /\ t.due = tick.due
       /\ t.cited \subseteq t.alerts \cup t.contents
       /\ t.alerts = tick.alerts /\ t.contents = tick.contents
       /\ \A d \in t.draft : d \subseteq t.alerts \cup t.contents
       /\ t.terminal # "reply" => t.cited = {}
       /\ t.discarded \cap t.cited = {}
<1>1. ASSUME NEW t, Items(t), tick.at \in InJudge, Quiet,
             tick' = LoopOn(t) \/ tick' = PhaseOver(t)
      PROVE  TickInv'
  <2>1. Ended(t, tick')
    BY <1>1, LoopKeeps, PhaseKeeps
  <2>2. /\ TickOK(tick') /\ tick'.alerts = t.alerts /\ tick'.contents = t.contents
        /\ tick'.at \in InJudge \cup {"resolve"}
    <3>1. /\ t.alerts \subseteq Feed /\ t.contents \subseteq Feed /\ t.due \subseteq Feed
          /\ t.sent \in BOOLEAN
      BY <1>0, <1>1 DEF TickOK
    <3> QED BY <1>1, <2>1, <3>1, EndedOK
  <2> QED BY <1>1, <2>2, JudgeStepKeeps
<1>2. /\ Items(tick)
      /\ tick.at \in InJudge => tick.terminal = "none" /\ tick.cited = {}
  BY <1>0 DEF TickOK
<1>3. /\ Items(Stepped) /\ Stepped.terminal = tick.terminal /\ Stepped.cited = tick.cited
      /\ Stepped.interesting = tick.interesting /\ Stepped.discarded = tick.discarded
      /\ Stepped.draft = tick.draft
  BY <1>2 DEF Stepped, Fields
<1>4. Markable \subseteq Feed
  BY <1>0 DEF Markable, TickOK
<1>5. CASE LookAround
  BY <1>1, <1>3, <1>5 DEF LookAround, Judging, InJudge
<1>6. ASSUME NEW S \in SUBSET Markable, MarkInteresting(S) PROVE TickInv'
  <2> DEFINE t == [Stepped EXCEPT !.interesting = @ \cup (S \ tick.discarded)]
  <2>1. Items(t)
    BY <1>3, <1>4 DEF Fields
  <2> HIDE DEF t
  <2>2. tick' = LoopOn(t) /\ tick.at \in InJudge /\ Quiet
    BY <1>6 DEF MarkInteresting, Judging, InJudge, t
  <2> QED BY <1>1, <2>1, <2>2
<1>7. ASSUME NEW S \in SUBSET Markable, MarkNotInteresting(S) PROVE TickInv'
  <2> DEFINE t == [Stepped EXCEPT !.discarded = @ \cup S, !.interesting = @ \ S]
  <2>0. tick.at \in InJudge
    BY <1>7 DEF MarkNotInteresting, Judging, InJudge
  <2>1. Items(t)
    BY <1>2, <1>3, <1>4, <2>0 DEF Fields
  <2> HIDE DEF t
  <2>2. tick' = LoopOn(t) /\ Quiet
    BY <1>7 DEF MarkNotInteresting, t
  <2> QED BY <1>1, <2>0, <2>1, <2>2
<1>8. ASSUME NEW evidence \in SUBSET (tick.alerts \cup tick.contents), MessagePush(evidence)
      PROVE  TickInv'
  <2> DEFINE t == [Stepped EXCEPT !.draft = {evidence}]
  <2>1. Items(t)
    BY <1>3 DEF Fields
  <2> HIDE DEF t
  <2>2. tick' = LoopOn(t) /\ tick.at \in InJudge /\ Quiet
    BY <1>8 DEF MessagePush, Judging, InJudge, t
  <2> QED BY <1>1, <2>1, <2>2
<1>9. CASE FinishReply
  <2>1. PICK evidence \in tick.draft :
          tick' = LoopOn([Stepped EXCEPT !.cited = evidence, !.terminal = "reply",
                                         !.interesting = @ \cup evidence,
                                         !.discarded = @ \ evidence, !.draft = {}])
    BY <1>9 DEF FinishReply
  <2> DEFINE t == [Stepped EXCEPT !.cited = evidence, !.terminal = "reply",
                                  !.interesting = @ \cup evidence,
                                  !.discarded = @ \ evidence, !.draft = {}]
  <2>2. evidence \subseteq tick.alerts \cup tick.contents /\ evidence \subseteq Feed
    BY <1>0 DEF TickOK
  <2>3. Items(t)
    BY <1>3, <2>2 DEF Fields
  <2>4. tick' = LoopOn(t)
    BY <2>1
  <2> HIDE DEF t
  <2>5. tick.at \in InJudge /\ Quiet
    BY <1>9 DEF FinishReply, Judging, InJudge
  <2> QED BY <1>1, <2>3, <2>4, <2>5
<1>10. CASE FinishSkip
  <2> DEFINE t == [Stepped EXCEPT !.terminal = "skip"]
  <2>0. tick.at \in InJudge
    BY <1>10 DEF FinishSkip, Judging, InJudge
  <2>1. Items(t)
    BY <1>2, <1>3, <2>0 DEF Fields
  <2> HIDE DEF t
  <2>2. tick' = LoopOn(t) /\ Quiet
    BY <1>10 DEF FinishSkip, t
  <2> QED BY <1>1, <2>0, <2>1, <2>2
<1>11. ASSUME NEW called \in BOOLEAN, BadCall(called) PROVE TickInv'
  <2>1. tick' = PhaseOver(Stepped) \/ tick' = PhaseOver(tick)
    BY <1>11 DEF BadCall
  <2>2. tick.at \in InJudge /\ Quiet
    BY <1>11 DEF BadCall, Judging, InJudge
  <2> QED BY <1>1, <1>2, <1>3, <2>1, <2>2
<1>12. CASE TickRaises
  <2>1. tick' = Asleep /\ Quiet /\ tick.at \in InJudge \cup {"drift"}
    BY <1>12 DEF TickRaises, Judging, InJudge
  <2>2. TickLedger'
    BY <2>1, AsleepIs, QuietLedger DEF TickInv, Quiet, tickHistory, InJudge, Unsent
  <2>3. Window'
    BY <2>1, AsleepIs, QuietWindow DEF TickInv, Quiet, marks, tickHistory, InJudge, Unsent, MaySend
  <2> QED BY <2>1, <2>2, <2>3, AsleepIs DEF TickInv
<1> QED BY <1>5, <1>6, <1>7, <1>8, <1>9, <1>10, <1>11, <1>12 DEF JudgeStep

\* Fetching keeps the invariant: what is fetched is offered.
LEMMA FetchInv ==
  ASSUME TickInv, FetchStep \/ \E fallback \in BOOLEAN : Gate(fallback)
  PROVE  TickInv'
<1>0. TickOK(tick) /\ DOMAIN tick = Fields
  BY DEF TickInv, TickOK
<1>1. ASSUME NEW fallback \in BOOLEAN, Gate(fallback) PROVE TickInv'
  <2>1. /\ tick' = [Asleep EXCEPT !.at = "fetch", !.fallback = fallback]
        /\ UNCHANGED <<sources, marks, tickHistory>> /\ tick.at = "asleep" /\ ~cooling
    BY <1>1 DEF Gate
  <2>2. TickOK(tick') /\ tick'.at = "fetch"
    BY <2>1 DEF Asleep, TickOK, Fields, TickPlaces, InJudge
  <2>3. TickLedger'
    BY <2>1, <2>2, QuietLedger DEF TickInv, tickHistory, InJudge, Unsent
  <2>4. Window'
    BY <2>1, <2>2 DEF TickInv, Window, MaySend, marks, tickHistory, Unsent, InJudge
  <2> QED BY <2>2, <2>3, <2>4 DEF TickInv
<1>2. ASSUME NEW a \in SUBSET (offered \cap Alerts), NEW c \in SUBSET (offered \cap Contents),
             FetchSome(a, c)
      PROVE  TickInv'
  <2>1. /\ tick' = [tick EXCEPT !.at = "loop", !.alerts = a, !.contents = c]
        /\ Quiet /\ tick.at = "fetch"
    BY <1>2 DEF FetchSome
  <2>2. tick.cited = {} /\ tick.draft = {} /\ tick.terminal = "none"
    BY <1>0, <2>1 DEF TickOK
  <2>3. TickOK(tick') /\ tick'.at = "loop" /\ tick'.alerts \cup tick'.contents \subseteq offered \cap Feed
    BY <1>0, <2>1, <2>2, FeedIs DEF TickOK, Fields, TickPlaces, InJudge
  <2>4. TickLedger'
    BY <2>1, <2>3, QuietLedger DEF TickInv, Quiet, tickHistory
  <2>5. Window'
    BY <2>1, <2>3, QuietWindow DEF TickInv, Quiet, MaySend, marks, tickHistory
  <2> QED BY <2>3, <2>4, <2>5 DEF TickInv
<1>3. ASSUME NEW drift \in BOOLEAN, FetchNothing(drift) PROVE TickInv'
  <2>1. /\ tick' = [tick EXCEPT !.at = IF drift THEN "drift" ELSE "resolve",
                                !.terminal = IF drift THEN "none" ELSE "skip"]
        /\ Quiet /\ tick.at = "fetch"
    BY <1>3 DEF FetchNothing
  <2>2. /\ tick.cited = {} /\ tick.draft = {} /\ tick.terminal = "none"
        /\ tick.alerts = {} /\ tick.contents = {}
    BY <1>0, <2>1 DEF TickOK
  <2>3. /\ TickOK(tick') /\ tick'.at \in {"drift", "resolve"}
        /\ tick'.alerts = {} /\ tick'.contents = {}
    BY <1>0, <2>1, <2>2 DEF TickOK, Fields, TickPlaces, InJudge
  <2>4. TickLedger'
    BY <2>1, <2>3, QuietLedger DEF TickInv, Quiet, tickHistory
  <2>5. Window'
    BY <2>1, <2>3, QuietWindow DEF TickInv, Quiet, MaySend, marks, tickHistory
  <2> QED BY <2>3, <2>4, <2>5 DEF TickInv
<1> QED BY <1>1, <1>2, <1>3 DEF FetchStep


\* A tick that ends without a message has nothing of what it cites to acknowledge.
LEMMA AckDiscardedInv ==
  ASSUME TickInv, tick.at = "resolve" /\ tick.terminal # "reply", Quiet, tick' = AckDiscarded(tick)
  PROVE  TickInv'
<1>0. TickOK(tick) /\ TickLedger /\ Window
  BY DEF TickInv
<1>1. /\ TickOK(tick') /\ tick'.at = "ack" /\ tick'.cited = tick.cited
      /\ tick'.due \cap tick'.cited = {}
  BY <1>0 DEF AckDiscarded, TickOK, Fields, TickPlaces, InJudge
<1>2. TickLedger'
  BY <1>0, <1>1, AckLedger DEF Quiet, tickHistory
<1>3. Window'
  BY <1>0, <1>1 DEF Window, MaySend, Quiet, marks, tickHistory, Unsent, InJudge
<1> QED BY <1>1, <1>2, <1>3 DEF TickInv

\* Rejecting a message as a repeat keeps the invariant.
LEMMA PostGuardInv ==
  ASSUME TickInv, tick.at \in {"resolve", "dedupe"}, tick' = AckPostGuard(tick),
         rejected' = rejected \cup tick.cited,
         UNCHANGED <<sources, marks, sentCount, windowCount, slips, windowSlip, dismissed>>
  PROVE  TickInv'
<1>0. TickOK(tick) /\ TickLedger /\ Window
  BY DEF TickInv
<1>1. /\ TickOK(tick') /\ tick'.at = "ack" /\ tick'.cited = tick.cited
  BY <1>0 DEF AckPostGuard, TickOK, Fields, TickPlaces, InJudge
<1>2. \A i \in tick.cited : SentSettled(i)
  BY <1>0 DEF TickLedger, EvidenceSettled, TickOK, Unsent
<1>3. TickLedger'
  BY <1>0, <1>1, <1>2, AckLedger
<1>4. Window'
  BY <1>0, <1>1 DEF Window, MaySend, marks, Unsent, InJudge
<1> QED BY <1>1, <1>3, <1>4 DEF TickInv

\* A message has reached the chat: each item it cites once more.
LEMMA ArrivedCounts ==
  ASSUME sentCount \in [Feed -> Nat], NEW cited \in SUBSET Feed, Arrived(cited)
  PROVE  /\ sentCount' \in [Feed -> Nat] /\ windowCount' = windowCount + 1
         /\ \A i \in Feed : sentCount'[i] = IF i \in cited THEN sentCount[i] + 1 ELSE sentCount[i]
BY DEF Arrived

\* Resolving, storing, sending, marking and acknowledging keep the invariant.
LEMMA DeliverInv == TickInv /\ DeliverStep => TickInv'
<1> SUFFICES ASSUME TickInv, DeliverStep PROVE TickInv'
  OBVIOUS
<1>0. TickOK(tick) /\ DOMAIN tick = Fields /\ TickLedger /\ Window
  BY DEF TickInv, TickOK
<1>c. tick.cited \subseteq Feed
  BY <1>0 DEF TickOK
<1>1. CASE ResolveSkip
  BY <1>1, AckDiscardedInv DEF ResolveSkip
<1>2. CASE ResolveReply
  <2>1. CASE DeliveryRepeated
    BY <1>2, <2>1, PostGuardInv DEF ResolveReply, marks
  <2>2. CASE ~DeliveryRepeated
    <3>1. /\ tick' = [tick EXCEPT !.at = "dedupe"] /\ rejected' = rejected /\ tick.at = "resolve"
          /\ UNCHANGED <<sources, marks, sentCount, windowCount, slips, windowSlip, dismissed>>
      BY <1>2, <2>2 DEF ResolveReply
    <3>2. /\ TickOK(tick') /\ tick'.at = "dedupe"
          /\ tick'.alerts \cup tick'.contents = tick.alerts \cup tick.contents
      BY <1>0, <3>1 DEF TickOK, Fields, TickPlaces, InJudge
    <3>3. TickLedger'
      BY <1>0, <3>1, <3>2, QuietLedger DEF Unsent
    <3>4. Window'
      BY <1>0, <3>1, <3>2, QuietWindow DEF MaySend, marks, Unsent
    <3> QED BY <3>2, <3>3, <3>4 DEF TickInv
  <2> QED BY <2>1, <2>2
<1>3. CASE JudgedDuplicate
  BY <1>3, PostGuardInv DEF JudgedDuplicate
<1>4. CASE PersistMessage
  <2>1. /\ tick' = [tick EXCEPT !.at = "dispatch"] /\ tick.at = "dedupe"
        /\ UNCHANGED <<sources, marks, tickHistory>>
    BY <1>4 DEF PersistMessage
  <2>2. /\ TickOK(tick') /\ tick'.at = "dispatch"
        /\ tick'.alerts \cup tick'.contents = tick.alerts \cup tick.contents
    BY <1>0, <2>1 DEF TickOK, Fields, TickPlaces, InJudge
  <2>3. TickLedger'
    BY <1>0, <2>1, <2>2, QuietLedger DEF Unsent, tickHistory
  <2>4. Window'
    BY <1>0, <2>1, <2>2, QuietWindow DEF MaySend, marks, Unsent, tickHistory
  <2> QED BY <2>2, <2>3, <2>4 DEF TickInv
<1>5. CASE DispatchOk
  <2>1. /\ tick' = [tick EXCEPT !.at = "mark"] /\ tick.at = "dispatch" /\ Arrived(tick.cited)
        /\ UNCHANGED <<sources, marks, slips, windowSlip, dismissed, rejected>>
    BY <1>5 DEF DispatchOk
  <2>2. TickOK(tick') /\ tick'.at = "mark" /\ tick'.cited = tick.cited
    BY <1>0, <2>1 DEF TickOK, Fields, TickPlaces, InJudge
  <2>3. /\ sentCount' \in [Feed -> Nat] /\ windowCount' = windowCount + 1
        /\ \A i \in Feed : sentCount'[i] = IF i \in tick.cited THEN sentCount[i] + 1 ELSE sentCount[i]
    BY <1>0, <1>c, <2>1, ArrivedCounts DEF TickLedger
  <2>4. \A i \in tick.cited : SentSettled(i) /\ i \in offered
    BY <1>0, <2>1 DEF TickLedger, EvidenceSettled, TickOK, Unsent
  <2>5. TickLedger'
    <3>1. SentOnce'
      BY <1>0, <1>c, <2>1, <2>3, <2>4 DEF TickLedger, SentOnce, SentSettled
    <3>2. NothingDropped'
      BY <1>0, <2>1, <2>3 DEF TickLedger, NothingDropped, sources
    <3>3. Gone'
      <4>1. ASSUME NEW i \in Feed, i \in tick.cited PROVE i \notin resting
        BY <1>0, <2>4, <4>1 DEF TickLedger
      <4>2. ASSUME NEW i \in Feed, i \notin tick.cited PROVE SentSettled(i)' <=> SentSettled(i)
        BY <2>1, <2>3, <4>2 DEF SentSettled
      <4> QED BY <1>0, <2>1, <2>2, <4>1, <4>2 DEF TickLedger, Gone, sources
    <3>4. CitedSent'
      BY <1>0, <1>c, <2>2, <2>3 DEF TickLedger, CitedSent
    <3>5. EvidenceSettled' /\ DueSent'
      BY <2>2 DEF EvidenceSettled, DueSent, Unsent, InJudge
    <3> QED BY <1>0, <2>1, <2>3, <3>1, <3>2, <3>3, <3>4, <3>5 DEF TickLedger, sources
  <2>6. Window'
    BY <1>0, <2>1, <2>2, <2>3 DEF Window, MaySend, marks, Unsent, InJudge
  <2> QED BY <2>2, <2>5, <2>6 DEF TickInv
<1>6. ASSUME NEW arrived \in BOOLEAN, DispatchFails(arrived) PROVE TickInv'
  <2>1. /\ tick' = AckDiscarded(tick) /\ tick.at = "dispatch"
        /\ slips \subseteq slips'
        /\ UNCHANGED <<sources, marks, dismissed, rejected>>
    BY <1>6 DEF DispatchFails
  <2>2. /\ TickOK(tick') /\ tick'.at = "ack" /\ tick'.cited = tick.cited
        /\ tick'.due \cap tick'.cited = {}
    BY <1>0, <2>1 DEF AckDiscarded, TickOK, Fields, TickPlaces, InJudge
  <2>3. CASE arrived = TRUE
    <3>1. Arrived(tick.cited) /\ slips' = slips \cup tick.cited /\ windowSlip' = TRUE
      BY <1>6, <2>3 DEF DispatchFails
    <3>2. /\ sentCount' \in [Feed -> Nat] /\ windowCount' = windowCount + 1
          /\ \A i \in Feed : sentCount'[i] = IF i \in tick.cited THEN sentCount[i] + 1 ELSE sentCount[i]
      BY <1>0, <1>c, <3>1, ArrivedCounts DEF TickLedger
    <3>3. TickLedger'
      BY <1>0, <1>c, <2>1, <2>2, <3>1, <3>2
         DEF TickLedger, SentOnce, Gone, EvidenceSettled, CitedSent, DueSent, SentSettled,
             NothingDropped, sources, Unsent, InJudge
    <3>4. Window'
      BY <1>0, <2>1, <2>2, <3>1, <3>2 DEF Window, MaySend, marks, Unsent, InJudge
    <3> QED BY <2>2, <3>3, <3>4 DEF TickInv
  <2>4. CASE arrived = FALSE
    <3>1. UNCHANGED <<sentCount, windowCount, slips>> /\ (windowSlip' = windowSlip)
      BY <1>0, <1>6, <2>4 DEF DispatchFails, Window
    <3>3. TickLedger'
      BY <1>0, <2>1, <2>2, <3>1
         DEF TickLedger, SentOnce, Gone, EvidenceSettled, CitedSent, DueSent, SentSettled,
             NothingDropped, sources, Unsent, InJudge
    <3>4. Window'
      BY <1>0, <2>1, <2>2, <3>1 DEF Window, MaySend, marks, Unsent, InJudge
    <3> QED BY <2>2, <3>3, <3>4 DEF TickInv
  <2> QED BY <2>3, <2>4
<1>7. ASSUME NEW ok \in BOOLEAN, MarkDelivery(ok) PROVE TickInv'
  <2>1. /\ tick' = AckOnSuccess(tick) /\ tick.at = "mark"
        /\ UNCHANGED <<sources, sentCount, windowCount, slips, dismissed, rejected>>
    BY <1>7 DEF MarkDelivery
  <2>2. /\ TickOK(tick') /\ tick'.at = "ack" /\ tick'.cited = tick.cited
        /\ tick.cited \subseteq tick'.due /\ tick'.short \cap tick.cited = {}
    BY <1>0, <1>c, <2>1 DEF AckOnSuccess, TickOK, Fields, TickPlaces, InJudge
  <2>3. TickLedger'
    <3>1. (SentOnce /\ NothingDropped)' /\ (offered \cap resting = {})'
      BY <1>0, <2>1 DEF TickLedger, SentOnce, NothingDropped, sources
    <3>2. Gone'
      BY <1>0, <2>1, <2>2 DEF TickLedger, Gone, SentSettled, sources
    <3>3. DueSent'
      BY <1>0, <2>1, <2>2 DEF TickLedger, CitedSent, DueSent
    <3>4. EvidenceSettled' /\ CitedSent'
      BY <2>2 DEF EvidenceSettled, CitedSent, Unsent, InJudge
    <3> QED BY <1>0, <2>1, <3>1, <3>2, <3>3, <3>4 DEF TickLedger
  <2>4. /\ cooling' \in BOOLEAN /\ windowSlip' \in BOOLEAN
        /\ windowSlip = TRUE => windowSlip' = TRUE
        /\ cooling' = TRUE \/ windowSlip' = TRUE
    BY <1>0, <1>7 DEF MarkDelivery, Window
  <2>5. Window'
    BY <1>0, <2>1, <2>2, <2>4 DEF Window, MaySend, Unsent, InJudge
  <2> QED BY <2>2, <2>3, <2>5 DEF TickInv
<1>8. ASSUME NEW done \in SUBSET tick.due, Acknowledge(done) PROVE TickInv'
  <2>1. /\ tick' = Asleep /\ tick.at = "ack"
        /\ offered' = offered \ done /\ resting' = resting \cup (done \cap tick.short)
        /\ dismissed' = dismissed \cup (done \ tick.cited)
        /\ slips' = slips \cup ((tick.due \cap tick.cited) \ done)
                      \cup {i \in (done \cap tick.short) \ offered : sentCount[i] > 0}
        /\ UNCHANGED <<marks, sentCount, windowCount, windowSlip, rejected>>
    BY <1>8 DEF Acknowledge
  <2>2. Window'
    BY <1>0, <2>1, AsleepIs, QuietWindow DEF MaySend, marks, Unsent, InJudge
  <2>3. SentOnce'
    BY <1>0, <2>1 DEF TickLedger, SentOnce
  <2>4. ASSUME NEW i \in Feed PROVE SentSettled(i)' \/ (i \notin resting /\ i \notin offered)'
    <3>1. CASE SentSettled(i)
      BY <2>1, <3>1 DEF SentSettled
    <3>2. CASE ~SentSettled(i) /\ i \in tick.due \cap tick.cited
      BY <1>0, <2>1, <3>2 DEF TickLedger, DueSent, Gone, SentSettled
    <3>3. CASE ~SentSettled(i) /\ i \notin tick.due \cap tick.cited
      <4>1. i \notin resting /\ i \notin offered /\ sentCount[i] > 0
        BY <1>0, <2>1, <3>3 DEF TickLedger, Gone, SentSettled
      <4> QED BY <2>1, <4>1 DEF SentSettled
    <3> QED BY <3>1, <3>2, <3>3
  <2>5. NothingDropped' /\ (offered \cap resting = {})'
    BY <1>0, <2>1 DEF TickLedger, DueSent, NothingDropped
  <2>6. TickLedger'
    BY <1>0, <2>1, <2>3, <2>4, <2>5, AsleepIs
       DEF TickLedger, Gone, EvidenceSettled, CitedSent, DueSent, Unsent, InJudge
  <2> QED BY <2>1, <2>2, <2>6, AsleepIs DEF TickInv
<1> QED BY <1>1, <1>2, <1>3, <1>4, <1>5, <1>6, <1>7, <1>8 DEF DeliverStep

\* A drift run cites nothing, so what it sends leaves the ledger as it is.
LEMMA DriftLedger ==
  ASSUME TickInv, tick.at \in {"drift", "driftDispatch", "driftMark"},
         tick'.at \in {"asleep", "drift", "driftDispatch", "driftMark"},
         UNCHANGED <<sources, slips, dismissed, rejected>>, sentCount' = sentCount \/ Arrived({})
  PROVE  TickLedger'
<1>1. sentCount' = sentCount
  <2>1. CASE Arrived({})
    <3>1. sentCount' = [i \in Feed |-> sentCount[i]]
      BY <2>1 DEF Arrived
    <3> QED BY <3>1 DEF TickInv, TickLedger
  <2> QED BY <2>1
<1> QED BY <1>1, QuietLedger DEF TickInv, Unsent, InJudge

\* A drift run goes on or is over.
LEMMA DriftOnIs ==
  ASSUME NEW t, TickOK(t)
  PROVE  LET u == DriftOn(t)
         IN  TickOK(u) /\ u.at \in {"asleep", "drift"} /\ (u.at = "drift" => u.sent = t.sent)
<1>1. LET u == [t EXCEPT !.at = "drift"]
      IN  TickOK(u) /\ u.at = "drift" /\ u.sent = t.sent
  BY DEF TickOK, Fields, TickPlaces, InJudge
<1> QED BY <1>1, AsleepIs DEF DriftOn

\* The steps of a drift run keep the invariant.
LEMMA DriftInv == TickInv /\ DriftStep => TickInv'
<1> SUFFICES ASSUME TickInv, DriftStep PROVE TickInv'
  OBVIOUS
<1>0. TickOK(tick) /\ DOMAIN tick = Fields /\ TickLedger /\ Window
  BY DEF TickInv, TickOK
<1>1. CASE DriftTool \/ EndDrift
  <2>1. /\ tick.at = "drift" /\ Quiet
        /\ tick' = Asleep \/ tick' = DriftOn([tick EXCEPT !.steps = @ + 1])
    BY <1>1 DEF DriftTool, EndDrift
  <2>2. TickOK([tick EXCEPT !.steps = @ + 1]) /\ [tick EXCEPT !.steps = @ + 1].sent = tick.sent
    BY <1>0 DEF TickOK, Fields
  <2>3. TickOK(tick') /\ tick'.at \in {"asleep", "drift"} /\ (tick'.at = "drift" => tick'.sent = tick.sent)
    <3> DEFINE s == [tick EXCEPT !.steps = @ + 1]
    <3>1. LET u == DriftOn(s)
          IN  TickOK(u) /\ u.at \in {"asleep", "drift"} /\ (u.at = "drift" => u.sent = s.sent)
      <4> HIDE DEF s
      <4> QED BY <2>2, DriftOnIs DEF s
    <3> QED BY <2>1, <2>2, <3>1, AsleepIs
  <2>4. TickLedger'
    BY <2>1, <2>3, DriftLedger DEF Quiet, tickHistory
  <2>5. Window'
    BY <1>0, <2>1, <2>3, QuietWindow DEF Quiet, marks, tickHistory, MaySend, Unsent, InJudge
  <2> QED BY <2>3, <2>4, <2>5 DEF TickInv
<1>2. CASE DriftPush
  <2>1. /\ tick.at = "drift" /\ ~tick.sent
        /\ tick' = [tick EXCEPT !.at = "driftDispatch", !.steps = @ + 1]
        /\ UNCHANGED <<sources, marks, tickHistory>>
    BY <1>2 DEF DriftPush
  <2>2. TickOK(tick') /\ tick'.at = "driftDispatch"
    BY <1>0, <2>1 DEF TickOK, Fields, TickPlaces, InJudge
  <2>3. TickLedger'
    BY <2>1, <2>2, DriftLedger DEF tickHistory
  <2>4. tick.sent = FALSE => MaySend(tick)
    BY <2>1 DEF MaySend
  <2>5. tick.sent = FALSE
    BY <1>0, <2>1 DEF TickOK
  <2>6. Window'
    BY <1>0, <2>1, <2>2, <2>4, <2>5, QuietWindow DEF marks, tickHistory
  <2> QED BY <2>2, <2>3, <2>6 DEF TickInv
<1>3. CASE DriftDispatchOk
  <2>1. /\ tick.at = "driftDispatch" /\ Arrived({})
        /\ tick' = [tick EXCEPT !.at = "driftMark"]
        /\ UNCHANGED <<sources, marks, slips, windowSlip, dismissed, rejected>>
    BY <1>3 DEF DriftDispatchOk
  <2>2. TickOK(tick') /\ tick'.at = "driftMark"
    BY <1>0, <2>1 DEF TickOK, Fields, TickPlaces, InJudge
  <2>3. TickLedger'
    BY <2>1, <2>2, DriftLedger
  <2>4. windowCount' = windowCount + 1
    BY <2>1 DEF Arrived
  <2>5. Window'
    BY <1>0, <2>1, <2>2, <2>4 DEF Window, MaySend, marks, Unsent, InJudge
  <2> QED BY <2>2, <2>3, <2>5 DEF TickInv
<1>4. ASSUME NEW arrived \in BOOLEAN, DriftDispatchFails(arrived) PROVE TickInv'
  <2>1. /\ tick.at = "driftDispatch" /\ tick' = DriftOn(tick)
        /\ UNCHANGED <<sources, marks, slips, dismissed, rejected>>
    BY <1>4 DEF DriftDispatchFails
  <2>2. TickOK(tick') /\ tick'.at \in {"asleep", "drift"}
    BY <1>0, <2>1, DriftOnIs
  <2>3. \/ Arrived({}) /\ windowSlip' = TRUE
        \/ UNCHANGED <<sentCount, windowCount>> /\ windowSlip' = windowSlip
    BY <1>0, <1>4 DEF DriftDispatchFails, Window
  <2>4. TickLedger'
    BY <2>1, <2>2, <2>3, DriftLedger
  <2>5. windowCount' = windowCount \/ windowCount' = windowCount + 1
    BY <2>3 DEF Arrived
  <2>6. cooling = FALSE /\ (windowCount = 0 \/ windowSlip = TRUE)
    BY <1>0, <2>1 DEF Window, MaySend
  <2>7. windowCount' = 0 \/ windowSlip' = TRUE
    BY <2>3, <2>6
  <2>8. windowCount' \in Nat /\ windowSlip' \in BOOLEAN /\ cooling' = FALSE
    <3>1. windowCount' \in Nat
      BY <1>0, <2>5 DEF Window
    <3>2. windowSlip' \in BOOLEAN
      BY <1>0, <2>3 DEF Window
    <3>3. cooling' = FALSE
      BY <2>1, <2>6 DEF marks
    <3> QED BY <3>1, <3>2, <3>3
  <2>9. Window'
    BY <2>7, <2>8 DEF Window
  <2> QED BY <2>2, <2>4, <2>9 DEF TickInv
<1>5. ASSUME NEW ok \in BOOLEAN, DriftMark(ok) PROVE TickInv'
  <2> DEFINE s == [tick EXCEPT !.sent = TRUE]
  <2>1. /\ tick.at = "driftMark" /\ tick' = DriftOn(s)
        /\ UNCHANGED <<sources, sentCount, windowCount, slips, dismissed, rejected>>
    BY <1>5 DEF DriftMark
  <2>2. TickOK(s) /\ s.sent = TRUE
    BY <1>0 DEF TickOK, Fields
  <2>3. /\ TickOK(tick') /\ tick'.at \in {"asleep", "drift"}
        /\ tick'.at = "drift" => tick'.sent = TRUE
    <3> HIDE DEF s
    <3> QED BY <2>1, <2>2, DriftOnIs
  <2>4. TickLedger'
    BY <2>1, <2>3, DriftLedger
  <2>5. /\ cooling' \in BOOLEAN /\ windowSlip' \in BOOLEAN
        /\ windowSlip = TRUE => windowSlip' = TRUE
        /\ cooling' = TRUE \/ windowSlip' = TRUE
    BY <1>0, <1>5 DEF DriftMark, Window
  <2>6. ~MaySend(tick')
    BY <2>3 DEF MaySend, Unsent, InJudge
  <2>7. Window'
    BY <1>0, <2>1, <2>5, <2>6 DEF Window
  <2> QED BY <2>3, <2>4, <2>7 DEF TickInv
<1> QED BY <1>1, <1>2, <1>3, <1>4, <1>5 DEF DriftStep

\* The gate, time, the sources and a crash keep the invariant.
LEMMA AroundInv ==
  ASSUME TickInv, \/ CooldownOver \/ DedupeOver \/ TickCrash \/ UNCHANGED tickVars
                  \/ \E i \in Feed : Reoffer(i)
  PROVE  TickInv'
<1>0. TickOK(tick) /\ DOMAIN tick = Fields /\ TickLedger /\ Window
  BY DEF TickInv, TickOK
<1> USE DEF Gone, EvidenceSettled, CitedSent, DueSent, SentSettled, SentOnce, NothingDropped
<1>1. CASE CooldownOver
  <2>1. /\ UNCHANGED <<tick, sources, sentCount, slips, dismissed, rejected>>
        /\ cooling' = FALSE /\ windowCount' = 0 /\ windowSlip' = FALSE
    BY <1>1 DEF CooldownOver
  <2> QED BY <1>0, <2>1 DEF TickInv, TickLedger, Window, sources
<1>2. CASE DedupeOver \/ UNCHANGED tickVars
  <2>1. UNCHANGED <<tick, sources, cooling, windowCount, windowSlip, sentCount, slips, dismissed, rejected>>
    BY <1>2 DEF DedupeOver, tickVars, tickHistory, marks
  <2> QED BY <1>0, <2>1 DEF TickInv, TickLedger, Window, sources, MaySend
<1>3. ASSUME NEW i \in Feed, Reoffer(i) PROVE TickInv'
  <2>1. /\ UNCHANGED <<tick, cooling, windowCount, windowSlip, sentCount, slips, dismissed, rejected>>
        /\ i \in resting /\ resting' = resting \ {i} /\ offered' = offered \cup {i}
    BY <1>3 DEF Reoffer, tickHistory, marks
  <2>2. Window'
    BY <1>0, <2>1 DEF Window, MaySend
  <2>3. TickLedger'
    BY <1>0, <2>1 DEF TickLedger
  <2> QED BY <1>0, <2>1, <2>2, <2>3 DEF TickInv
<1>4. CASE TickCrash
  <2>1. /\ tick' = Asleep
        /\ UNCHANGED <<sources, marks, sentCount, windowCount, dismissed, rejected>>
        /\ slips' = slips \cup (IF tick.at = "mark" THEN tick.cited ELSE tick.due \cap tick.cited)
    BY <1>4 DEF TickCrash
  <2>2. /\ windowSlip' \in BOOLEAN
        /\ windowSlip = TRUE => windowSlip' = TRUE
        /\ tick.at \in {"mark", "driftMark"} => windowSlip' = TRUE
    BY <1>0, <1>4 DEF TickCrash, Window
  <2>3. Window'
    BY <1>0, <2>1, <2>2, AsleepIs DEF Window, MaySend, marks, Unsent, InJudge
  <2>4. TickLedger'
    BY <1>0, <2>1, AsleepIs DEF TickLedger, sources, Unsent, InJudge
  <2> QED BY <2>1, <2>3, <2>4, AsleepIs DEF TickInv
<1> QED BY <1>1, <1>2, <1>3, <1>4

\* The invariant holds always.
LEMMA TickInvariant == TickSpec => []TickInv
<1>1. TickInit => TickInv
  <2> SUFFICES ASSUME TickInit PROVE TickInv
    OBVIOUS
  <2>1. /\ tick = Asleep /\ offered = Feed /\ resting = {} /\ cooling = FALSE
        /\ sentCount = [i \in Feed |-> 0] /\ windowCount = 0 /\ windowSlip = FALSE
    BY DEF TickInit
  <2>2. \A i \in Feed : sentCount[i] = 0
    BY <2>1
  <2>3. TickLedger
    BY <2>1, <2>2, AsleepIs
       DEF TickLedger, Gone, EvidenceSettled, CitedSent, DueSent, SentSettled, SentOnce,
           NothingDropped, Unsent, InJudge
  <2>4. Window
    BY <2>1, AsleepIs DEF Window, MaySend, Unsent, InJudge
  <2> QED BY <2>1, <2>3, <2>4, AsleepIs DEF TickInv
<1>2. TickInv /\ [TickNext]_tickVars => TickInv'
  BY FetchInv, JudgeInv, DeliverInv, DriftInv, AroundInv DEF TickNext, TickStep
<1> QED BY <1>1, <1>2, PTL DEF TickSpec

\* What a delivered message cited is not cited in a second delivered one, over any
\* number of ticks, crashes, cooldowns and days, but for the acknowledgements
\* that failed or were replaced.
THEOREM CitedItemsSentOnce == TickSpec => []SentOnce
<1>1. TickInv => SentOnce
  BY DEF TickInv, TickLedger
<1> QED BY <1>1, TickInvariant, PTL

\* One delivery between two ends of the cooldown, ordinary or drift, unless one
\* was not marked.
THEOREM CooldownHolds == TickSpec => []OneDeliveryPerWindow
<1>1. TickInv => OneDeliveryPerWindow
  BY DEF TickInv, Window, OneDeliveryPerWindow
<1> QED BY <1>1, TickInvariant, PTL

\* An item leaves its source only if it was sent, dismissed or rejected.
THEOREM LeavesOnlyForAReason == TickSpec => []NothingDropped
<1>1. TickInv => NothingDropped
  BY DEF TickInv, TickLedger
<1> QED BY <1>1, TickInvariant, PTL

-----------------------------------------------------------------------------
(* Types                                                                    *)

\* The type of a tick.
TickRecord ==
    [at : TickPlaces, alerts : SUBSET Alerts, contents : SUBSET Contents,
     fallback : BOOLEAN, interesting : SUBSET Feed, discarded : SUBSET Feed,
     draft : SUBSET SUBSET Feed, cited : SUBSET Feed,
     terminal : {"none", "skip", "reply"}, steps : Nat, left : Nat, sent : BOOLEAN,
     due : SUBSET Feed, short : SUBSET Feed]

\* A loop with a grant of its own has some of it left, so spending a step leaves a
\* number: the part of the type that is not visible in it.
GrantLeft(t) == t.at \in {"complete", "reflect"} => t.left \in Nat \ {0}
TickShaped(t) == t \in TickRecord /\ GrantLeft(t)

\* A step that is spent while judging: the number of steps left may now be 0, which
\* LoopOn looks for.
LEMMA SteppedIsTyped ==
  ASSUME TickShaped(tick), Judging PROVE Stepped \in TickRecord /\ Stepped.at = tick.at
<1> DEFINE left == IF tick.at = "loop" THEN 0 ELSE tick.left - 1
<1>1. tick \in TickRecord /\ tick.steps + 1 \in Nat
  BY DEF TickShaped, TickRecord
<1>2. left \in Nat
  BY DEF TickShaped, GrantLeft, Judging
<1>3. Stepped = [tick EXCEPT !.steps = tick.steps + 1, !.left = left]
  BY DEF Stepped
<1> HIDE DEF left
<1> QED BY <1>1, <1>2, <1>3 DEF TickRecord

\* The end of a loop, with the grants of the next one.
LEMMA ReflectionIsTyped ==
  ASSUME NEW t \in TickRecord PROVE TickShaped(ToReflection(t))
<1>1. [t EXCEPT !.at = "reflect", !.left = ReflectSteps] \in TickRecord
  BY ProactiveConstants DEF TickRecord, TickPlaces
<1>2. [t EXCEPT !.at = "resolve"] \in TickRecord
  BY DEF TickRecord, TickPlaces
<1>3. [t EXCEPT !.at = "reflect", !.left = ReflectSteps].left = ReflectSteps
      /\ [t EXCEPT !.at = "resolve"].at = "resolve"
  BY DEF TickRecord
<1> QED BY <1>1, <1>2, <1>3, ProactiveConstants DEF ToReflection, TickShaped, GrantLeft

\* So does the end of any loop.
LEMMA PhaseIsTyped ==
  ASSUME NEW t \in TickRecord PROVE TickShaped(PhaseOver(t))
<1>1. TickShaped([t EXCEPT !.at = "complete", !.terminal = "none", !.left = CompleteSteps])
  BY ProactiveConstants DEF TickShaped, GrantLeft, TickRecord, TickPlaces
<1>2. [t EXCEPT !.terminal = "none"] \in TickRecord
  BY DEF TickRecord
<1>3. TickShaped([t EXCEPT !.at = "resolve"])
  BY DEF TickShaped, GrantLeft, TickRecord, TickPlaces
<1>4. TickShaped(ToReflection([t EXCEPT !.terminal = "none"])) /\ TickShaped(ToReflection(t))
  BY <1>2, ReflectionIsTyped
<1> QED BY <1>1, <1>3, <1>4, Zenon DEF PhaseOver

\* And so does going on with a loop: it is left when its grant is used up.
LEMMA LoopIsTyped ==
  ASSUME NEW t \in TickRecord, t.at \in InJudge PROVE TickShaped(LoopOn(t))
<1>1. CASE t.terminal # "none" \/ t.steps >= MaxSteps \/ (t.at # "loop" /\ t.left = 0)
  BY <1>1, PhaseIsTyped DEF LoopOn
<1>2. CASE ~(t.terminal # "none" \/ t.steps >= MaxSteps \/ (t.at # "loop" /\ t.left = 0))
  <2>1. LoopOn(t) = t
    BY <1>2 DEF LoopOn
  <2>2. t.left \in Nat
    BY DEF TickRecord
  <2> QED BY <1>2, <2>1, <2>2 DEF TickShaped, GrantLeft
<1> QED BY <1>1, <1>2

\* A tick that has not begun has a tick's type.
LEMMA AsleepIsTyped == TickShaped(Asleep)
BY DEF Asleep, TickShaped, GrantLeft, TickRecord, TickPlaces

\* What a judge step does to the tick.
LEMMA JudgeIsTyped ==
  ASSUME TickShaped(tick), JudgeStep PROVE TickShaped(tick')
<1>t. tick \in TickRecord
  BY DEF TickShaped
<1>f. tick.alerts \cup tick.contents \subseteq Feed /\ Markable \subseteq Feed
  BY <1>t DEF TickRecord, Feed, Markable
<1>s. Judging => Stepped \in TickRecord /\ Stepped.at \in InJudge
  BY SteppedIsTyped DEF Judging, InJudge
<1>1. CASE LookAround
  BY <1>1, <1>s, LoopIsTyped DEF LookAround
<1>2. ASSUME NEW S \in SUBSET Markable, MarkInteresting(S) PROVE TickShaped(tick')
  <2> DEFINE t == [Stepped EXCEPT !.interesting = @ \cup (S \ tick.discarded)]
  <2>1. Judging /\ tick' = LoopOn(t)
    BY <1>2 DEF MarkInteresting
  <2>2. t \in TickRecord /\ t.at \in InJudge
    BY <2>1, <1>s, <1>f DEF TickRecord
  <2> QED BY <2>1, <2>2, LoopIsTyped
<1>3. ASSUME NEW S \in SUBSET Markable, MarkNotInteresting(S) PROVE TickShaped(tick')
  <2> DEFINE t == [Stepped EXCEPT !.discarded = @ \cup S, !.interesting = @ \ S]
  <2>1. Judging /\ tick' = LoopOn(t)
    BY <1>3 DEF MarkNotInteresting
  <2>2. t \in TickRecord /\ t.at \in InJudge
    BY <2>1, <1>s, <1>f DEF TickRecord
  <2> QED BY <2>1, <2>2, LoopIsTyped
<1>4. ASSUME NEW evidence \in SUBSET (tick.alerts \cup tick.contents), MessagePush(evidence)
      PROVE  TickShaped(tick')
  <2> DEFINE t == [Stepped EXCEPT !.draft = {evidence}]
  <2>1. Judging /\ tick' = LoopOn(t)
    BY <1>4 DEF MessagePush
  <2>2. {evidence} \in SUBSET SUBSET Feed
    BY <1>f
  <2>3. t \in TickRecord /\ t.at \in InJudge
    BY <2>1, <2>2, <1>s DEF TickRecord
  <2> QED BY <2>1, <2>3, LoopIsTyped
<1>5. CASE FinishReply
  <2>1. Judging
    BY <1>5 DEF FinishReply
  <2>2. PICK evidence \in tick.draft :
          tick' = LoopOn([Stepped EXCEPT !.cited = evidence, !.terminal = "reply",
                                         !.interesting = @ \cup evidence,
                                         !.discarded = @ \ evidence, !.draft = {}])
    BY <1>5 DEF FinishReply
  <2> DEFINE t == [Stepped EXCEPT !.cited = evidence, !.terminal = "reply",
                                  !.interesting = @ \cup evidence,
                                  !.discarded = @ \ evidence, !.draft = {}]
  <2>3. evidence \in SUBSET Feed
    BY <1>t DEF TickRecord
  <2>4. t \in TickRecord /\ t.at \in InJudge
    BY <2>1, <2>3, <1>s DEF TickRecord
  <2> QED BY <2>2, <2>4, LoopIsTyped
<1>6. CASE FinishSkip
  <2> DEFINE t == [Stepped EXCEPT !.terminal = "skip"]
  <2>1. Judging /\ tick' = LoopOn(t)
    BY <1>6 DEF FinishSkip
  <2>2. t \in TickRecord /\ t.at \in InJudge
    BY <2>1, <1>s DEF TickRecord
  <2> QED BY <2>1, <2>2, LoopIsTyped
<1>7. CASE \E called \in BOOLEAN : BadCall(called)
  BY <1>7, <1>s, <1>t, PhaseIsTyped DEF BadCall
<1>8. CASE TickRaises
  BY <1>8, AsleepIsTyped DEF TickRaises
<1> QED BY <1>1, <1>2, <1>3, <1>4, <1>5, <1>6, <1>7, <1>8 DEF JudgeStep

\* A tick that moves to a place without a grant.
LEMMA MovedIsTyped ==
  ASSUME NEW t \in TickRecord, NEW at \in TickPlaces \ {"complete", "reflect"},
         NEW due \in SUBSET Feed, NEW short \in SUBSET Feed
  PROVE  /\ TickShaped([t EXCEPT !.at = at]) /\ TickShaped([t EXCEPT !.at = at, !.due = due])
         /\ TickShaped([t EXCEPT !.at = at, !.short = short, !.due = due])
BY DEF TickShaped, GrantLeft, TickRecord

\* The three ways to acknowledge.
LEMMA AckIsTyped ==
  ASSUME NEW t \in TickRecord
  PROVE  TickShaped(AckDiscarded(t)) /\ TickShaped(AckPostGuard(t)) /\ TickShaped(AckOnSuccess(t))
<1>1. /\ {t.alerts, t.contents, t.interesting, t.discarded, t.cited} \subseteq SUBSET Feed
      /\ "ack" \in TickPlaces \ {"complete", "reflect"}
  BY DEF TickRecord, Feed, TickPlaces
<1>2. TickShaped(AckDiscarded(t))
  BY <1>1, MovedIsTyped DEF AckDiscarded
<1>3. TickShaped(AckPostGuard(t))
  <2> DEFINE forADay == (t.cited \cup t.interesting) \ t.alerts
             due == forADay \cup t.alerts \cup t.discarded
  <2>1. forADay \in SUBSET Feed /\ due \in SUBSET Feed
    BY <1>1
  <2>2. AckPostGuard(t) = [t EXCEPT !.at = "ack", !.short = forADay, !.due = due]
    BY DEF AckPostGuard
  <2> HIDE DEF forADay, due
  <2>3. TickShaped([t EXCEPT !.at = "ack", !.short = forADay, !.due = due])
    BY <1>1, <2>1, MovedIsTyped
  <2> QED BY <2>2, <2>3
<1>4. TickShaped(AckOnSuccess(t))
  <2> DEFINE uncited == (t.interesting \ t.cited) \ t.alerts
             due == t.cited \cup uncited \cup t.discarded
  <2>1. uncited \in SUBSET Feed /\ due \in SUBSET Feed
    BY <1>1
  <2>2. AckOnSuccess(t) = [t EXCEPT !.at = "ack", !.short = uncited, !.due = due]
    BY DEF AckOnSuccess
  <2> HIDE DEF uncited, due
  <2>3. TickShaped([t EXCEPT !.at = "ack", !.short = uncited, !.due = due])
    BY <1>1, <2>1, MovedIsTyped
  <2> QED BY <2>2, <2>3
<1> QED BY <1>2, <1>3, <1>4

\* What fetching does to the tick.
LEMMA FetchIsTyped ==
  ASSUME TickShaped(tick), FetchStep PROVE TickShaped(tick')
<1>1. ASSUME NEW a \in SUBSET (offered \cap Alerts), NEW c \in SUBSET (offered \cap Contents),
             FetchSome(a, c)
      PROVE  TickShaped(tick')
  <2>1. a \in SUBSET Alerts /\ c \in SUBSET Contents
    OBVIOUS
  <2> QED BY <1>1, <2>1 DEF FetchSome, TickShaped, GrantLeft, TickRecord, TickPlaces
<1>2. ASSUME NEW drift \in BOOLEAN, FetchNothing(drift) PROVE TickShaped(tick')
  BY <1>2 DEF FetchNothing, TickShaped, GrantLeft, TickRecord, TickPlaces
<1> QED BY <1>1, <1>2 DEF FetchStep

\* What resolving and delivering does to the tick.
LEMMA DeliverIsTyped ==
  ASSUME TickShaped(tick), DeliverStep PROVE TickShaped(tick')
<1>t. tick \in TickRecord
  BY DEF TickShaped
<1>m. \A at \in {"dedupe", "dispatch", "mark"} : TickShaped([tick EXCEPT !.at = at])
  BY <1>t, MovedIsTyped DEF TickPlaces
<1>1. CASE ResolveSkip \/ ResolveReply \/ JudgedDuplicate
  BY <1>1, <1>t, <1>m, AckIsTyped DEF ResolveSkip, ResolveReply, JudgedDuplicate
<1>2. CASE PersistMessage \/ DispatchOk
  BY <1>2, <1>m DEF PersistMessage, DispatchOk
<1>3. ASSUME NEW b \in BOOLEAN, DispatchFails(b) \/ MarkDelivery(b) PROVE TickShaped(tick')
  BY <1>3, <1>t, AckIsTyped DEF DispatchFails, MarkDelivery
<1>4. CASE \E done \in SUBSET tick.due : Acknowledge(done)
  BY <1>4, AsleepIsTyped DEF Acknowledge
<1> QED BY <1>1, <1>2, <1>3, <1>4 DEF DeliverStep

\* What drifting does to the tick.
LEMMA DriftIsTyped ==
  ASSUME TickShaped(tick), DriftStep PROVE TickShaped(tick')
<1>t. tick \in TickRecord
  BY DEF TickShaped
<1>d. ASSUME NEW t \in TickRecord PROVE TickShaped(DriftOn(t))
  <2>1. TickShaped([t EXCEPT !.at = "drift"])
    BY MovedIsTyped DEF TickPlaces
  <2> QED BY <2>1, AsleepIsTyped DEF DriftOn
<1>1. CASE DriftTool
  <2> DEFINE t == [tick EXCEPT !.steps = @ + 1]
  <2>1. t \in TickRecord
    BY <1>t DEF TickRecord
  <2> QED BY <1>1, <2>1, <1>d DEF DriftTool
<1>2. CASE EndDrift
  BY <1>2, AsleepIsTyped DEF EndDrift
<1>3. CASE DriftPush
  <2> DEFINE t == [tick EXCEPT !.steps = @ + 1]
  <2>1. t \in TickRecord /\ "driftDispatch" \in TickPlaces \ {"complete", "reflect"}
    BY <1>t DEF TickRecord, TickPlaces
  <2>2. TickShaped([t EXCEPT !.at = "driftDispatch"])
    BY <2>1, MovedIsTyped
  <2>3. tick' = [t EXCEPT !.at = "driftDispatch"]
    BY <1>3, <1>t DEF DriftPush, TickRecord
  <2> QED BY <2>2, <2>3
<1>4. CASE DriftDispatchOk
  BY <1>4, <1>t, MovedIsTyped DEF DriftDispatchOk, TickPlaces
<1>5. CASE \E arrived \in BOOLEAN : DriftDispatchFails(arrived)
  BY <1>5, <1>t, <1>d DEF DriftDispatchFails
<1>6. ASSUME NEW ok \in BOOLEAN, DriftMark(ok) PROVE TickShaped(tick')
  <2> DEFINE t == [tick EXCEPT !.sent = TRUE]
  <2>1. t \in TickRecord
    BY <1>t DEF TickRecord
  <2> QED BY <1>6, <2>1, <1>d DEF DriftMark
<1> QED BY <1>1, <1>2, <1>3, <1>4, <1>5, <1>6 DEF DriftStep

\* The inductive invariant of the types.
TickTyped == TickTypeOK /\ GrantLeft(tick)

\* The types of what is counted and kept for a message that has arrived.
LEMMA ArrivedIsTyped ==
  ASSUME TickTypeOK, NEW cited \in SUBSET Feed,
         Arrived(cited) \/ UNCHANGED <<sentCount, windowCount>>
  PROVE  sentCount' \in [Feed -> Nat] /\ windowCount' \in Nat
BY DEF TickTypeOK, Arrived

\* A step keeps the types of everything around the tick.
LEMMA AroundIsTyped ==
  ASSUME TickTyped, [TickNext]_tickVars
  PROVE  /\ {offered, resting, slips, dismissed, rejected}' \subseteq SUBSET Feed
         /\ deliveredKeys' \in SUBSET SUBSET Feed /\ thread' \in SUBSET SUBSET Feed
         /\ cooling' \in BOOLEAN /\ windowSlip' \in BOOLEAN
         /\ sentCount' \in [Feed -> Nat]
         /\ {windowCount, tickCount, tickCrashes}' \subseteq Nat
<1> DEFINE Around == /\ {offered, resting, slips, dismissed, rejected} \subseteq SUBSET Feed
                     /\ deliveredKeys \in SUBSET SUBSET Feed /\ thread \in SUBSET SUBSET Feed
                     /\ cooling \in BOOLEAN /\ windowSlip \in BOOLEAN
                     /\ sentCount \in [Feed -> Nat]
                     /\ {windowCount, tickCount, tickCrashes} \subseteq Nat
<1>t. Around /\ {tick.cited, tick.due, tick.short} \subseteq SUBSET Feed
  BY DEF TickTyped, TickTypeOK
<1> USE DEF sources, marks, tickHistory, tickBounds
<1>q. ASSUME Quiet PROVE Around'
  BY <1>q, <1>t DEF Quiet
<1>1. CASE FetchStep \/ JudgeStep
  <2>1. Quiet
    BY <1>1, Zenon DEF FetchStep, FetchSome, FetchNothing, JudgeStep, LookAround,
          FinishReply, FinishSkip, TickRaises, MarkInteresting, MarkNotInteresting,
          MessagePush, BadCall
  <2> QED BY <2>1, <1>q
<1>2. CASE ResolveSkip \/ ResolveReply \/ JudgedDuplicate \/ PersistMessage
  BY <1>2, <1>t DEF Quiet, ResolveSkip, ResolveReply, JudgedDuplicate, PersistMessage
<1>3. CASE DispatchOk \/ DriftDispatchOk
  <2>1. sentCount' \in [Feed -> Nat] /\ windowCount' \in Nat
    BY <1>3, <1>t, ArrivedIsTyped DEF DispatchOk, DriftDispatchOk, TickTyped
  <2> QED BY <1>3, <2>1, <1>t DEF DispatchOk, DriftDispatchOk
<1>4. ASSUME NEW arrived \in BOOLEAN, DispatchFails(arrived) \/ DriftDispatchFails(arrived)
      PROVE  Around'
  <2>1. sentCount' \in [Feed -> Nat] /\ windowCount' \in Nat
    BY <1>4, <1>t, ArrivedIsTyped DEF DispatchFails, DriftDispatchFails, TickTyped
  <2> QED BY <1>4, <2>1, <1>t DEF DispatchFails, DriftDispatchFails
<1>5. ASSUME NEW ok \in BOOLEAN, MarkDelivery(ok) \/ DriftMark(ok) PROVE Around'
  BY <1>5, <1>t DEF MarkDelivery, DriftMark
<1>6. ASSUME NEW done \in SUBSET tick.due, Acknowledge(done) PROVE Around'
  <2>1. done \in SUBSET Feed
    BY <1>t
  <2> DEFINE again == {i \in (done \cap tick.short) \ offered : sentCount[i] > 0}
  <2>2. again \in SUBSET Feed
    BY <2>1
  <2>3. slips' = slips \cup ((tick.due \cap tick.cited) \ done) \cup again
    BY <1>6 DEF Acknowledge
  <2> HIDE DEF again
  <2> QED BY <1>6, <2>1, <2>2, <2>3, <1>t DEF Acknowledge
<1>7. CASE DriftTool \/ EndDrift \/ DriftPush
  BY <1>7, <1>t DEF Quiet, DriftTool, EndDrift, DriftPush
<1>8. ASSUME NEW fallback \in BOOLEAN, Gate(fallback) PROVE Around'
  BY <1>8, <1>t DEF Gate
<1>11. CASE CooldownOver
  <2>1. cooling' \in BOOLEAN /\ windowSlip' \in BOOLEAN
    BY <1>11, Zenon DEF CooldownOver
  <2>2. /\ windowCount' = 0
        /\ UNCHANGED <<offered, resting, slips, dismissed, rejected, deliveredKeys,
                       thread, sentCount, tickCount, tickCrashes>>
    BY <1>11 DEF CooldownOver
  <2> QED BY <2>1, <2>2, <1>t
<1>12. CASE DedupeOver
  BY <1>12, <1>t DEF DedupeOver
<1>13. ASSUME NEW i \in Feed, Reoffer(i) PROVE Around'
  <2>1. offered' \in SUBSET Feed /\ resting' \in SUBSET Feed
    BY <1>13, <1>t DEF Reoffer
  <2>2. UNCHANGED <<marks, thread, tickHistory, tickBounds>>
    BY <1>13 DEF Reoffer
  <2> QED BY <2>1, <2>2, <1>t
<1>9. CASE TickCrash
  BY <1>9, <1>t DEF TickCrash
<1>10. CASE UNCHANGED tickVars
  BY <1>10, <1>t DEF tickVars
<1> QED BY <1>1, <1>2, <1>3, <1>4, <1>5, <1>6, <1>7, <1>8, <1>9, <1>10, <1>11, <1>12, <1>13
     DEF TickNext, TickStep, DeliverStep, DriftStep

\* The types hold always, and with them what is left of a loop's grant.
LEMMA TickTypesKept == TickSpec => [](TickTypeOK /\ GrantLeft(tick))
<1>r. ASSUME TickTypeOK PROVE tick \in TickRecord
  BY <1>r DEF TickTypeOK, TickRecord, TickPlaces
<1>1. TickInit => TickTyped
  <2> SUFFICES ASSUME TickInit PROVE TickTyped
    OBVIOUS
  <2>1. tick \in TickRecord /\ GrantLeft(tick)
    BY AsleepIsTyped DEF TickInit, TickShaped
  <2>2. sentCount \in [Feed -> Nat]
    BY DEF TickInit
  <2>3. /\ {offered, resting, slips, dismissed, rejected} \subseteq SUBSET Feed
        /\ deliveredKeys \in SUBSET SUBSET Feed /\ thread \in SUBSET SUBSET Feed
        /\ {windowCount, tickCount, tickCrashes} \subseteq Nat
    BY DEF TickInit
  <2>4. cooling \in BOOLEAN /\ windowSlip \in BOOLEAN
    BY Zenon DEF TickInit
  <2> QED BY <2>1, <2>2, <2>3, <2>4 DEF TickTyped, TickTypeOK, TickRecord, TickPlaces
<1>2. TickTyped /\ [TickNext]_tickVars => TickTyped'
  <2> SUFFICES ASSUME TickTyped, [TickNext]_tickVars PROVE TickTyped'
    OBVIOUS
  <2>1. TickShaped(tick)
    BY <1>r DEF TickTyped, TickShaped
  <2>2. TickShaped(tick)'
    <3>1. CASE FetchStep \/ JudgeStep \/ DeliverStep \/ DriftStep
      BY <3>1, <2>1, FetchIsTyped, JudgeIsTyped, DeliverIsTyped, DriftIsTyped DEF TickShaped, GrantLeft
    <3>2. CASE \E fallback \in BOOLEAN : Gate(fallback)
      <4>1. PICK fallback \in BOOLEAN :
              tick' = [Asleep EXCEPT !.at = "fetch", !.fallback = fallback]
        BY <3>2 DEF Gate
      <4>2. Asleep \in TickRecord /\ "fetch" \in TickPlaces
        BY AsleepIsTyped DEF TickShaped, TickPlaces
      <4>3. tick' \in TickRecord /\ tick'.at = "fetch"
        BY <4>1, <4>2 DEF TickRecord
      <4> QED BY <4>3 DEF TickShaped, GrantLeft, TickRecord
    <3>3. CASE CooldownOver \/ DedupeOver \/ (\E i \in Feed : Reoffer(i)) \/ UNCHANGED tickVars
      BY <3>3, <2>1 DEF CooldownOver, DedupeOver, Reoffer, tickVars, TickShaped, GrantLeft
    <3>4. CASE TickCrash
      BY <3>4, AsleepIsTyped DEF TickCrash, TickShaped, GrantLeft
    <3> QED BY <3>1, <3>2, <3>3, <3>4 DEF TickNext, TickStep
  <2> QED BY <2>2, AroundIsTyped DEF TickTyped, TickTypeOK, TickShaped, TickRecord, TickPlaces
<1>3. TickTyped => TickTypeOK /\ GrantLeft(tick)
  BY DEF TickTyped
<1> QED BY <1>1, <1>2, <1>3, PTL DEF TickSpec

\* The types hold always: in particular no loop of a tick spends a step it was not
\* granted.
THEOREM TickTypeCorrect == TickSpec => []TickTypeOK
BY TickTypesKept, PTL

-----------------------------------------------------------------------------
(* How long a tick lasts                                                    *)

\* An upper bound of the steps a tick still takes.  A judging tick has its steps, the
\* loops it has not entered and the five places of the delivery; a drift has three
\* places for each of its steps.
PlacesLeft(at) == IF at \in {"loop", "dedupe"} THEN 4
                  ELSE IF at \in {"complete", "dispatch"} THEN 3
                  ELSE IF at \in {"reflect", "mark"} THEN 2
                  ELSE IF at = "ack" THEN 1 ELSE 0
Effort(t) ==
    IF t.at = "asleep" THEN 0
    ELSE IF t.at \in InJudge THEN 4 + PlacesLeft(t.at) + MaxSteps - t.steps
    ELSE IF t.at = "resolve" THEN 5
    ELSE IF t.at = "drift" THEN 1 + 3 * (DriftSteps - t.steps)
    ELSE IF t.at = "driftMark" THEN 2 + 3 * (DriftSteps - t.steps)
    ELSE IF t.at = "driftDispatch" THEN 3 + 3 * (DriftSteps - t.steps)
    ELSE IF t.at = "fetch" THEN 9 + MaxSteps + 3 * DriftSteps
    ELSE PlacesLeft(t.at)
TickBudget == 9 + MaxSteps + 3 * DriftSteps

\* The steps a tick has spent stay within what it was granted: while it judges or
\* drifts one is left, since every loop starts with one and ends with the last.
StepsOK(t) ==
    /\ t.at = "fetch" => t.steps = 0
    /\ t.at \in InJudge => t.steps < MaxSteps
    /\ t.at = "drift" => t.steps < DriftSteps
    /\ t.at \in {"driftDispatch", "driftMark"} => t.steps <= DriftSteps

\* The step limits are numbers.
LEMMA StepLimits == MaxSteps \in Nat \ {0} /\ DriftSteps \in Nat \ {0}
BY ProactiveConstants DEF ProactiveConstants

\* A judging tick that goes from t to u is resolved, or judges on in a later loop.
LaterLoop(t, u) ==
    /\ u.steps = t.steps
    /\ \/ u.at = "resolve"
       \/ /\ u.at \in InJudge /\ u.steps < MaxSteps
          /\ PlacesLeft(u.at) < PlacesLeft(t.at)

\* The end of a loop leads to the resolution or to a later loop, with a step left.
LEMMA PhaseGoesOn ==
  ASSUME NEW t \in TickRecord, t.at \in InJudge PROVE LaterLoop(t, PhaseOver(t))
<1> DEFINE c == [t EXCEPT !.at = "complete", !.terminal = "none", !.left = CompleteSteps]
           n == [t EXCEPT !.terminal = "none"]
           r == [t EXCEPT !.at = "resolve"]
<1>1. ASSUME NEW v \in TickRecord, v.steps = t.steps, v.at = t.at, t.at \in {"loop", "complete"}
      PROVE  LaterLoop(t, ToReflection(v))
  BY <1>1 DEF ToReflection, LaterLoop, PlacesLeft, TickRecord, InJudge
<1>2. n \in TickRecord /\ n.steps = t.steps /\ n.at = t.at
  BY DEF TickRecord
<1>3. LaterLoop(t, r)
  BY DEF LaterLoop, TickRecord
<1>4. CASE t.at = "loop" /\ t.terminal = "skip"
           /\ t.contents \ (t.interesting \cup t.discarded) # {}
  <2>1. PhaseOver(t) = IF t.steps < MaxSteps THEN c ELSE ToReflection(n)
    BY <1>4, Zenon DEF PhaseOver
  <2>2. t.steps < MaxSteps => LaterLoop(t, c)
    BY <1>4 DEF LaterLoop, PlacesLeft, TickRecord, InJudge
  <2>3. LaterLoop(t, ToReflection(n))
    <3> HIDE DEF n
    <3> QED BY <1>1, <1>2, <1>4
  <2> HIDE DEF c, n
  <2> QED BY <2>1, <2>2, <2>3
<1>5. CASE ~(t.at = "loop" /\ t.terminal = "skip"
             /\ t.contents \ (t.interesting \cup t.discarded) # {})
  <2>1. PhaseOver(t) = IF t.at = "reflect" THEN r ELSE ToReflection(t)
    BY <1>5, Zenon DEF PhaseOver
  <2>2. t.at # "reflect" => LaterLoop(t, ToReflection(t))
    BY <1>1 DEF InJudge
  <2> HIDE DEF r
  <2> QED BY <1>3, <2>1, <2>2
<1> QED BY <1>4, <1>5

\* A tool step spends a step; a call that was none may end a loop without one.
Judged(t) == /\ t \in TickRecord /\ t.at = tick.at
             /\ \/ /\ t.steps = tick.steps + 1
                   /\ tick' = LoopOn(t) \/ tick' = PhaseOver(t)
                \/ t.steps = tick.steps /\ tick' = PhaseOver(t)

\* Either way there is less to do.
LEMMA JudgedLess ==
  ASSUME tick \in TickRecord, StepsOK(tick), tick.at \in InJudge, NEW t, Judged(t)
  PROVE  StepsOK(tick') /\ Effort(tick') < Effort(tick)
<1>0. /\ tick.steps \in Nat /\ t.steps \in Nat /\ tick.steps < MaxSteps
      /\ MaxSteps \in Nat /\ t.at = tick.at /\ t \in TickRecord
  BY StepLimits DEF TickRecord, StepsOK, Judged
<1>1. Effort(tick) = 4 + PlacesLeft(tick.at) + MaxSteps - tick.steps /\ PlacesLeft(tick.at) \in 2 .. 4
  BY DEF Effort, InJudge, PlacesLeft
<1>2. CASE LaterLoop(t, tick')
  <2>1. t.steps \in {tick.steps, tick.steps + 1} /\ tick'.steps = t.steps
    BY <1>2 DEF Judged, LaterLoop
  <2>2. CASE tick'.at = "resolve"
    <3>1. Effort(tick') = 5 /\ StepsOK(tick')
      BY <2>2 DEF Effort, InJudge, StepsOK
    <3> QED BY <1>0, <1>1, <3>1
  <2>3. CASE /\ tick'.at \in InJudge /\ tick'.steps < MaxSteps
             /\ PlacesLeft(tick'.at) < PlacesLeft(t.at)
    <3>1. /\ Effort(tick') = 4 + PlacesLeft(tick'.at) + MaxSteps - tick'.steps
          /\ PlacesLeft(tick'.at) \in 2 .. 4 /\ StepsOK(tick')
      BY <2>3 DEF Effort, InJudge, PlacesLeft, StepsOK
    <3> QED BY <1>0, <1>1, <2>1, <2>3, <3>1
  <2> QED BY <1>2, <2>2, <2>3 DEF LaterLoop
<1>3. CASE tick' = PhaseOver(t)
  BY <1>0, <1>2, <1>3, PhaseGoesOn
<1>4. CASE tick' = LoopOn(t) /\ tick' # PhaseOver(t)
  <2>1. tick' = t /\ t.steps < MaxSteps /\ t.steps = tick.steps + 1
    BY <1>0, <1>4 DEF LoopOn, Judged
  <2>2. Effort(tick') = 4 + PlacesLeft(tick.at) + MaxSteps - t.steps /\ StepsOK(tick')
    BY <1>0, <2>1 DEF Effort, InJudge, StepsOK
  <2> QED BY <1>0, <1>1, <2>1, <2>2
<1> QED BY <1>3, <1>4 DEF Judged

\* Each tool of the model is such a step, unless the tick is given up.
LEMMA JudgeLess ==
  ASSUME tick \in TickRecord, StepsOK(tick), JudgeStep, TickShaped(tick)
  PROVE  StepsOK(tick') /\ Effort(tick') < Effort(tick)
<1>f. tick.alerts \cup tick.contents \subseteq Feed /\ Markable \subseteq Feed
  BY DEF TickRecord, Feed, Markable
<1>s. Judging => Stepped \in TickRecord /\ Stepped.at = tick.at /\ Stepped.steps = tick.steps + 1
  BY SteppedIsTyped DEF Stepped, TickRecord
<1>j. Judging <=> tick.at \in InJudge
  BY DEF Judging, InJudge
<1>1. CASE LookAround
  <2>1. Judging /\ Judged(Stepped)
    BY <1>1, <1>s DEF LookAround, Judged
  <2> QED BY <1>j, <2>1, JudgedLess
<1>2. ASSUME NEW S \in SUBSET Markable, MarkInteresting(S)
      PROVE  StepsOK(tick') /\ Effort(tick') < Effort(tick)
  <2> DEFINE t == [Stepped EXCEPT !.interesting = @ \cup (S \ tick.discarded)]
  <2>1. Judging /\ tick' = LoopOn(t)
    BY <1>2 DEF MarkInteresting
  <2>2. t \in TickRecord /\ t.at = tick.at /\ t.steps = tick.steps + 1
    BY <2>1, <1>s, <1>f DEF TickRecord
  <2> HIDE DEF t
  <2> QED BY <1>j, <2>1, <2>2, JudgedLess DEF Judged
<1>3. ASSUME NEW S \in SUBSET Markable, MarkNotInteresting(S)
      PROVE  StepsOK(tick') /\ Effort(tick') < Effort(tick)
  <2> DEFINE t == [Stepped EXCEPT !.discarded = @ \cup S, !.interesting = @ \ S]
  <2>1. Judging /\ tick' = LoopOn(t)
    BY <1>3 DEF MarkNotInteresting
  <2>2. t \in TickRecord /\ t.at = tick.at /\ t.steps = tick.steps + 1
    BY <2>1, <1>s, <1>f DEF TickRecord
  <2> HIDE DEF t
  <2> QED BY <1>j, <2>1, <2>2, JudgedLess DEF Judged
<1>4. ASSUME NEW evidence \in SUBSET (tick.alerts \cup tick.contents), MessagePush(evidence)
      PROVE  StepsOK(tick') /\ Effort(tick') < Effort(tick)
  <2> DEFINE t == [Stepped EXCEPT !.draft = {evidence}]
  <2>1. Judging /\ tick' = LoopOn(t)
    BY <1>4 DEF MessagePush
  <2>2. {evidence} \in SUBSET SUBSET Feed
    BY <1>f
  <2>3. t \in TickRecord /\ t.at = tick.at /\ t.steps = tick.steps + 1
    BY <2>1, <2>2, <1>s DEF TickRecord
  <2> HIDE DEF t
  <2> QED BY <1>j, <2>1, <2>3, JudgedLess DEF Judged
<1>5. CASE FinishReply
  <2>1. Judging
    BY <1>5 DEF FinishReply
  <2>2. PICK evidence \in tick.draft :
          tick' = LoopOn([Stepped EXCEPT !.cited = evidence, !.terminal = "reply",
                                         !.interesting = @ \cup evidence,
                                         !.discarded = @ \ evidence, !.draft = {}])
    BY <1>5 DEF FinishReply
  <2> DEFINE t == [Stepped EXCEPT !.cited = evidence, !.terminal = "reply",
                                  !.interesting = @ \cup evidence,
                                  !.discarded = @ \ evidence, !.draft = {}]
  <2>3. evidence \in SUBSET Feed
    BY DEF TickRecord
  <2>4. t \in TickRecord /\ t.at = tick.at /\ t.steps = tick.steps + 1
    BY <2>1, <2>3, <1>s DEF TickRecord
  <2>5. tick' = LoopOn(t)
    BY <2>2
  <2> HIDE DEF t
  <2> QED BY <1>j, <2>1, <2>4, <2>5, JudgedLess DEF Judged
<1>6. CASE FinishSkip
  <2> DEFINE t == [Stepped EXCEPT !.terminal = "skip"]
  <2>1. Judging /\ tick' = LoopOn(t)
    BY <1>6 DEF FinishSkip
  <2>2. t \in TickRecord /\ t.at = tick.at /\ t.steps = tick.steps + 1
    BY <2>1, <1>s DEF TickRecord
  <2> HIDE DEF t
  <2> QED BY <1>j, <2>1, <2>2, JudgedLess DEF Judged
<1>7. ASSUME NEW called \in BOOLEAN, BadCall(called)
      PROVE  StepsOK(tick') /\ Effort(tick') < Effort(tick)
  <2>1. Judging /\ (tick' = PhaseOver(Stepped) \/ tick' = PhaseOver(tick))
    BY <1>7 DEF BadCall
  <2>2. Judged(Stepped) \/ Judged(tick)
    BY <1>s, <2>1 DEF Judged
  <2> QED BY <1>j, <2>1, <2>2, JudgedLess
<1>8. CASE TickRaises
  <2>1. tick' = Asleep /\ tick.at \in InJudge \cup {"drift"}
    BY <1>8, <1>j DEF TickRaises
  <2>2. Effort(tick') = 0 /\ StepsOK(tick')
    BY <2>1, AsleepIs DEF Effort, StepsOK, InJudge
  <2>3. tick.steps \in Nat
    BY DEF TickRecord
  <2>4. Effort(tick) \in Nat /\ Effort(tick) > 0
    BY <2>1, <2>3, StepLimits DEF Effort, StepsOK, InJudge, PlacesLeft
  <2> QED BY <2>2, <2>4
<1> QED BY <1>1, <1>2, <1>3, <1>4, <1>5, <1>6, <1>7, <1>8 DEF JudgeStep

\* The other steps of a tick leave less to do as well.
LEMMA PlaceLess ==
  ASSUME tick \in TickRecord, StepsOK(tick), FetchStep \/ DeliverStep
  PROVE  StepsOK(tick') /\ Effort(tick') < Effort(tick)
<1>0. tick.steps \in Nat /\ MaxSteps \in Nat \ {0} /\ DriftSteps \in Nat \ {0}
  BY StepLimits DEF TickRecord
<1>1. ASSUME NEW a, NEW c, FetchSome(a, c)
      PROVE  StepsOK(tick') /\ Effort(tick') < Effort(tick)
  <2>1. tick.at = "fetch" /\ tick'.at = "loop" /\ tick'.steps = tick.steps /\ tick.steps = 0
    BY <1>1 DEF FetchSome, TickRecord, StepsOK
  <2> QED BY <1>0, <2>1 DEF Effort, StepsOK, InJudge, PlacesLeft
<1>2. ASSUME NEW drift \in BOOLEAN, FetchNothing(drift)
      PROVE  StepsOK(tick') /\ Effort(tick') < Effort(tick)
  <2>1. /\ tick.at = "fetch" /\ tick'.at \in {"drift", "resolve"} /\ tick'.steps = tick.steps
        /\ tick.steps = 0
    BY <1>2 DEF FetchNothing, TickRecord, StepsOK
  <2> QED BY <1>0, <2>1 DEF Effort, StepsOK, InJudge, PlacesLeft
<1>3. ASSUME tick.at \in {"resolve", "dedupe", "dispatch", "mark"},
             tick'.at \in {"dedupe", "dispatch", "mark", "ack"},
             /\ tick.at = "dedupe" => tick'.at # "dedupe"
             /\ tick.at = "dispatch" => tick'.at \in {"mark", "ack"}
             /\ tick.at = "mark" => tick'.at = "ack"
      PROVE  StepsOK(tick') /\ Effort(tick') < Effort(tick)
  BY <1>3 DEF Effort, StepsOK, InJudge, PlacesLeft
<1>a. /\ AckDiscarded(tick).at = "ack" /\ AckPostGuard(tick).at = "ack"
      /\ AckOnSuccess(tick).at = "ack"
  BY DEF AckDiscarded, AckPostGuard, AckOnSuccess, TickRecord
<1>4. CASE ResolveSkip
  BY <1>3, <1>4, <1>a DEF ResolveSkip
<1>5. CASE ResolveReply
  <2>1. tick.at = "resolve" /\ tick'.at \in {"ack", "dedupe"}
    BY <1>5, <1>a DEF ResolveReply, TickRecord
  <2> QED BY <1>3, <2>1
<1>6. CASE JudgedDuplicate
  BY <1>3, <1>6, <1>a DEF JudgedDuplicate
<1>7. CASE PersistMessage \/ DispatchOk
  <2>1. \/ tick.at = "dedupe" /\ tick'.at = "dispatch"
        \/ tick.at = "dispatch" /\ tick'.at = "mark"
    BY <1>7 DEF PersistMessage, DispatchOk, TickRecord
  <2> QED BY <1>3, <2>1
<1>8. CASE \E arrived \in BOOLEAN : DispatchFails(arrived)
  BY <1>3, <1>8, <1>a DEF DispatchFails
<1>9. CASE \E ok \in BOOLEAN : MarkDelivery(ok)
  BY <1>3, <1>9, <1>a DEF MarkDelivery
<1>10. CASE \E done \in SUBSET tick.due : Acknowledge(done)
  <2>1. tick.at = "ack" /\ tick'.at = "asleep"
    BY <1>10, AsleepIs DEF Acknowledge
  <2> QED BY <2>1 DEF Effort, StepsOK, InJudge, PlacesLeft
<1> QED BY <1>1, <1>2, <1>4, <1>5, <1>6, <1>7, <1>8, <1>9, <1>10 DEF FetchStep, DeliverStep

\* A drift step is spent by a tool or by the push, whose delivery takes two more places.
LEMMA DriftLess ==
  ASSUME tick \in TickRecord, StepsOK(tick), DriftStep
  PROVE  StepsOK(tick') /\ Effort(tick') < Effort(tick)
<1>0. tick.steps \in Nat /\ DriftSteps \in Nat \ {0}
  BY StepLimits DEF TickRecord
<1>1. ASSUME tick'.at = "asleep", tick.at \in {"drift", "driftDispatch", "driftMark"}
      PROVE  StepsOK(tick') /\ Effort(tick') < Effort(tick)
  BY <1>0, <1>1 DEF Effort, StepsOK, InJudge
<1>2. ASSUME NEW t \in TickRecord
      PROVE  LET u == DriftOn(t)
             IN  \/ u.at = "asleep"
                 \/ u.at = "drift" /\ u.steps = t.steps /\ t.steps < DriftSteps
  <2>1. t.steps \in Nat
    BY DEF TickRecord
  <2> QED BY <1>0, <2>1, AsleepIs DEF DriftOn, TickRecord
<1>3. CASE EndDrift
  BY <1>1, <1>3, AsleepIs DEF EndDrift
<1>4. CASE DriftTool
  <2> DEFINE t == [tick EXCEPT !.steps = @ + 1]
  <2>1. t \in TickRecord /\ t.steps = tick.steps + 1
    BY DEF TickRecord
  <2>2. tick.at = "drift" /\ tick' = DriftOn(t)
    BY <1>4 DEF DriftTool
  <2> HIDE DEF t
  <2>3. CASE tick'.at = "drift" /\ tick'.steps = tick.steps + 1 /\ tick'.steps < DriftSteps
    BY <1>0, <2>2, <2>3 DEF Effort, StepsOK, InJudge
  <2> QED BY <1>1, <1>2, <2>1, <2>2, <2>3
<1>5. CASE DriftPush
  <2>1. /\ tick.at = "drift" /\ tick'.at = "driftDispatch" /\ tick'.steps = tick.steps + 1
    BY <1>5 DEF DriftPush, TickRecord
  <2> QED BY <1>0, <2>1 DEF Effort, StepsOK, InJudge
<1>6. CASE DriftDispatchOk
  <2>1. tick.at = "driftDispatch" /\ tick'.at = "driftMark" /\ tick'.steps = tick.steps
    BY <1>6 DEF DriftDispatchOk, TickRecord
  <2> QED BY <1>0, <2>1 DEF Effort, StepsOK, InJudge
<1>7. CASE (\E arrived \in BOOLEAN : DriftDispatchFails(arrived)) \/ (\E ok \in BOOLEAN : DriftMark(ok))
  <2> DEFINE t == [tick EXCEPT !.sent = TRUE]
  <2>1. t \in TickRecord /\ t.steps = tick.steps
    BY DEF TickRecord
  <2>2. /\ tick.at \in {"driftDispatch", "driftMark"}
        /\ tick' = DriftOn(tick) \/ tick' = DriftOn(t)
    BY <1>7 DEF DriftDispatchFails, DriftMark
  <2> HIDE DEF t
  <2>3. CASE tick'.at = "drift" /\ tick'.steps = tick.steps /\ tick.steps < DriftSteps
    BY <1>0, <2>2, <2>3 DEF Effort, StepsOK, InJudge
  <2> QED BY <1>1, <1>2, <2>1, <2>2, <2>3
<1> QED BY <1>3, <1>4, <1>5, <1>6, <1>7 DEF DriftStep

\* The effort is a number within the budget.
LEMMA EffortIsBounded ==
  ASSUME tick \in TickRecord, StepsOK(tick) PROVE Effort(tick) \in 0 .. TickBudget
<1>1. tick.steps \in Nat /\ MaxSteps \in Nat /\ DriftSteps \in Nat /\ tick.at \in TickPlaces
  BY StepLimits DEF TickRecord
<1> QED BY <1>1 DEF Effort, TickBudget, StepsOK, TickPlaces, InJudge, PlacesLeft

\* A tick ends after at most TickBudget steps, whatever the model calls: every step of
\* it leaves less to do, and nothing that happens beside it gives it more.  Awaits that
\* return (TickFairSpec) are all that TickEnds needs besides (proactive_turn.py:790 the
\* loops of a tick, drift_turn.py:175 the loop of a drift).
THEOREM TickIsBounded ==
  TickSpec => /\ [](Effort(tick) \in 0 .. TickBudget)
              /\ [][tick.at # "asleep" => \/ Effort(tick') < Effort(tick)
                                          \/ tick' = tick /\ ~TickStep]_tickVars
<1>r. TickTypeOK /\ GrantLeft(tick) => TickShaped(tick)
  BY DEF TickTypeOK, TickShaped, TickRecord, TickPlaces
<1>1. TickInit => StepsOK(tick)
  BY AsleepIs DEF TickInit, StepsOK, InJudge
<1>2. ASSUME TickShaped(tick), StepsOK(tick), [TickNext]_tickVars
      PROVE  /\ StepsOK(tick')
             /\ tick.at # "asleep" => \/ Effort(tick') < Effort(tick)
                                      \/ tick' = tick /\ ~TickStep
  <2>0. tick \in TickRecord
    BY <1>2 DEF TickShaped
  <2>1. TickStep => StepsOK(tick') /\ Effort(tick') < Effort(tick)
    BY <1>2, <2>0, JudgeLess, PlaceLess, DriftLess DEF TickStep
  <2>2. CASE \E fallback \in BOOLEAN : Gate(fallback)
    <3>1. tick.at = "asleep" /\ tick'.at = "fetch" /\ tick'.steps = 0
      BY <2>2 DEF Gate, Asleep
    <3> QED BY <3>1 DEF StepsOK, InJudge
  <2>3. CASE TickCrash
    <3>1. tick' = Asleep /\ tick.at # "asleep"
      BY <2>3 DEF TickCrash
    <3>2. Effort(tick') = 0 /\ StepsOK(tick')
      BY <3>1, AsleepIs DEF Effort, StepsOK, InJudge
    <3>3. tick.steps \in Nat /\ MaxSteps \in Nat /\ DriftSteps \in Nat /\ tick.at \in TickPlaces
      BY <2>0, StepLimits DEF TickRecord
    <3>4. Effort(tick) \in Nat /\ Effort(tick) > 0
      BY <1>2, <3>1, <3>3 DEF Effort, StepsOK, TickPlaces, InJudge, PlacesLeft
    <3> QED BY <3>2, <3>4
  <2>4. CASE tick' = tick
    BY <1>2, <2>1, <2>4
  <2>5. CooldownOver \/ DedupeOver \/ (\E i \in Feed : Reoffer(i)) \/ UNCHANGED tickVars
          => tick' = tick
    BY DEF CooldownOver, DedupeOver, Reoffer, tickVars
  <2> QED BY <1>2, <2>1, <2>2, <2>3, <2>4, <2>5 DEF TickNext
<1>3. TickShaped(tick) /\ StepsOK(tick) => Effort(tick) \in 0 .. TickBudget
  BY EffortIsBounded DEF TickShaped
<1>4. TickSpec => []TickShaped(tick)
  BY <1>r, TickTypesKept, PTL
<1>5. TickShaped(tick) /\ StepsOK(tick) /\ [TickNext]_tickVars => StepsOK(tick)'
  BY <1>2 DEF StepsOK
<1>6. TickSpec => [](TickShaped(tick) /\ StepsOK(tick))
  BY <1>1, <1>4, <1>5, PTL DEF TickSpec
<1>7. TickShaped(tick) /\ StepsOK(tick) /\ [TickNext]_tickVars
      => [tick.at # "asleep" => \/ Effort(tick') < Effort(tick)
                                \/ tick' = tick /\ ~TickStep]_tickVars
  BY <1>2
<1> QED BY <1>3, <1>6, <1>7, PTL DEF TickSpec
=============================================================================
