---------------------------- MODULE Application ----------------------------
(***************************************************************************)
(* The application of a node: class application of app/application.cpp.     *)
(*                                                                          *)
(* It holds a list of requests per type, and an event per type wakes        *)
(* generateMess, which hands the first request of the list down to          *)
(* Transport+ and sets the event again.  A request is handed down `amount'  *)
(* times, the first time after firstDelay, then every period.  PAUSE and    *)
(* CONTINUE are requests like the others, and also stop and restart the     *)
(* generator itself.                                                        *)
(*                                                                          *)
(* A CONF request is left out, as run() never starts it; sizes are drawn    *)
(* like destinations.  Times are kept as the milliseconds left; time moves  *)
(* on to the next event.  Events due in one instant run in any order.       *)
(***************************************************************************)
EXTENDS FiniteSetsExt, Sums

CONSTANTS
    Plan,       \* the lists of requests an application may be given
    Contents,   \* destinations, payload type and size of a request
    MaxTime,    \* bound on the delays, also on a period that tails add up to
    MaxAmount   \* no plan asks for more requests of one type

SimType == {"HARD_RESET", "SOFT_RESET", "FLUSH", "SINGLE", "MULTICAST",
            "BROADCAST", "CONTINUE", "PAUSE"}

RandType == {"PERIOD", "PERIOD_TAIL", "DEST"}

\* sim_message.  `randType' says what is drawn at random, from `periods', `tails'
\* and `destinations', and `randNeedRecalc' what is drawn anew every time.
Request == [firstDelay : 0 .. MaxTime, period : 1 .. MaxTime, amount : 1 .. MaxAmount,
            contents : Contents,
            randType : SUBSET RandType, randNeedRecalc : SUBSET RandType,
            periods : SUBSET (1 .. MaxTime), tails : SUBSET (0 .. MaxTime),
            destinations : SUBSET Contents]

\* How many requests a list asks for.
Planned(list) == SumTo([i \in DOMAIN list |-> list[i].amount], Len(list))

ASSUME PlanAssumption ==
    /\ MaxTime \in Nat /\ MaxAmount \in Nat
    /\ Plan \subseteq [SimType -> Seq(Request)]
    /\ \A plan \in Plan, t \in SimType : Planned(plan[t]) <= MaxAmount
    /\ \A plan \in Plan, t \in SimType : \A i \in DOMAIN plan[t] :
           /\ "PERIOD" \in plan[t][i].randType => plan[t][i].periods # {}
           /\ "PERIOD_TAIL" \in plan[t][i].randType => plan[t][i].tails # {}
           /\ "DEST" \in plan[t][i].randType => plan[t][i].destinations # {}

NotPending == -1
Unfilled   == [period |-> 0, contents |-> "none"]    \* m_isFilled is false

NoRequest  == [type |-> "none", contents |-> "none"]

VARIABLES
    reqs,        \* m_reqs: per type, the requests still to do
    sentCounter, \* m_sentReqCounter: how often the first of them was handed down
    isTriggered, \* m_isTriggeredReq: the types whose event came during a pause
    isPaused,    \* m_isPaused
    randSimReq,  \* m_randSimReq: per type, the period and contents drawn
    event,       \* per type: the time until generateMess is woken, or NotPending
    handed       \* the last request handed to Transport+

vars == <<reqs, sentCounter, isTriggered, isPaused, randSimReq, event, handed>>

\* sc_event::notify(delay): an earlier notification that is pending stays.
Notify(pending, delay) ==
    IF pending = NotPending \/ delay < pending THEN delay ELSE pending

-----------------------------------------------------------------------------
\* run() sets the event of the first request of every type.
Init ==
    /\ reqs \in Plan
    /\ sentCounter = [t \in SimType |-> 0]
    /\ isTriggered = {}
    /\ isPaused = FALSE
    /\ randSimReq = [t \in SimType |-> Unfilled]
    /\ event = [t \in SimType |-> IF reqs[t] = <<>> THEN NotPending ELSE reqs[t][1].firstDelay]
    /\ handed = NoRequest

Drawn == [period : 0 .. MaxTime, contents : Contents]

\* What is drawn for one repetition of r on top of what is kept of the last.
draws(r, kept, isFilled) ==
    LET draw(k) == k \in r.randType /\ (k \in r.randNeedRecalc \/ ~isFilled)
        periods == IF draw("PERIOD") THEN r.periods ELSE {kept.period}
        tailed  == {p + d : p \in periods, d \in r.tails}
                       \cup {p - d : p \in periods, d \in r.tails}
    IN  [period   : IF draw("PERIOD_TAIL") THEN tailed \cap (0 .. MaxTime) ELSE periods,
         contents : IF draw("DEST") THEN r.destinations ELSE {kept.contents}]

\* A plausible slip: what is not drawn at random is not filled in either.
doRandSimMessUnfilled(r, kept) == draws(r, kept, kept # Unfilled)

\* doRandSimMess: what is drawn is kept per type, so that it is filled from the
\* first request of the type only; later requests add what they draw themselves,
\* and a tail is added to the period kept, tails of earlier draws included.
doRandSimMess(r, kept) ==
    IF kept = Unfilled
    THEN draws(r, [period |-> r.period, contents |-> r.contents], FALSE)
    ELSE draws(r, kept, TRUE)

\* A plausible slip: only repetitions set the event.
nextGenerateNone(list, period) == NotPending

\* A plausible slip: the event is set once more after the last repetition.
nextGenerateAgain(list, period) ==
    IF Len(list) > 1 THEN list[2].firstDelay ELSE period

\* When the first request of the list has been handed down as often as asked,
\* the next one is due after its first delay, if there is one.
nextGenerate(list, period) ==
    IF Len(list) > 1 THEN list[2].firstDelay ELSE NotPending

\* A plausible slip: the counter goes on counting for the next request.
counterKept(count) == count

counterReset(count) == 0

\* The event of type t comes during a pause: it is noted, and not set again.
generatePaused(t) ==
    /\ isTriggered' = isTriggered \cup {t}
    /\ event' = [event EXCEPT ![t] = NotPending]
    /\ UNCHANGED <<reqs, sentCounter, isPaused, randSimReq, handed>>

\* The requests noted during a pause are to be woken by CONTINUE if the node is
\* still paused when that is looked at.
resumed(t, stillPaused) == IF t = "CONTINUE" /\ stillPaused THEN isTriggered ELSE {}

generateSends(t, stillPaused) ==
    \E s \in doRandSimMess(reqs[t][1], randSimReq[t]) :
        LET last  == sentCounter[t] + 1 = reqs[t][1].amount
            delay == IF last THEN nextGenerate(reqs[t], s.period) ELSE s.period
            woken == [u \in SimType |-> IF u \in resumed(t, stillPaused)
                                        THEN Notify(event[u], 0) ELSE event[u]]
        IN  /\ isPaused' = (t = "PAUSE")
            /\ isTriggered' = (isTriggered \ resumed(t, stillPaused)) \ {t}
            /\ randSimReq' = [randSimReq EXCEPT ![t] = s]
            /\ handed' = [type |-> t, contents |-> s.contents]
            /\ reqs' = IF last THEN [reqs EXCEPT ![t] = Tail(@)] ELSE reqs
            /\ sentCounter' = [sentCounter EXCEPT ![t] =
                                  IF last THEN counterReset(@ + 1) ELSE @ + 1]
            /\ event' = [woken EXCEPT ![t] = delay]

\* generateMess(t), woken by its event.  CONTINUE ends the pause first, so nothing
\* is still paused when the noted requests are looked at, and none is woken.
generateMess(t) ==
    LET stillPaused == isPaused /\ t # "CONTINUE"
    IN  /\ event[t] = 0
        /\ IF stillPaused THEN generatePaused(t) ELSE generateSends(t, stillPaused)

Pending == {t \in SimType : event[t] # NotPending}

\* Nothing is due in this instant: time moves on to the next event.
Tick ==
    /\ Pending # {} /\ \A t \in Pending : event[t] > 0
    /\ LET step == Min({event[t] : t \in Pending})
       IN  event' = [t \in SimType |-> IF t \in Pending THEN event[t] - step ELSE NotPending]
    /\ UNCHANGED <<reqs, sentCounter, isTriggered, isPaused, randSimReq, handed>>

Next == Tick \/ \E t \in SimType : generateMess(t)

Spec == Init /\ [][Next]_vars

\* The simulator runs every method whose event is due, and moves time on.
FairSpec == Spec /\ WF_vars(Tick) /\ \A t \in SimType : WF_vars(generateMess(t))

-----------------------------------------------------------------------------
\* The lists hold requests; what was drawn and what is handed down are periods
\* and contents that requests have.
TypeOK ==
    /\ reqs \in [SimType -> Seq(Request)]
    /\ sentCounter \in [SimType -> 0 .. MaxAmount]
    /\ isTriggered \subseteq SimType
    /\ isPaused \in BOOLEAN
    /\ randSimReq \in [SimType -> {Unfilled} \cup Drawn]
    /\ event \in [SimType -> {NotPending} \cup 0 .. MaxTime]
    /\ handed \in [type : SimType, contents : Contents] \cup {NoRequest}

\* An event is only ever set for a type that has a request left which has not yet
\* been repeated as often as asked: generateMess takes m_reqs[type].begin()
\* unlooked, and its counter is compared for equality with the amount.
EventHasRequest == \A t \in Pending :
    /\ reqs[t] # <<>>
    /\ sentCounter[t] < reqs[t][1].amount

\* A type with requests left has its event set, or has met a pause.
NoneForgotten == \A t \in SimType :
    reqs[t] # <<>> => t \in Pending \/ t \in isTriggered

\* How many requests of type t are still to be handed down.
Left(t) == Planned(reqs[t]) - sentCounter[t]

Requests == INSTANCE RequestPlan WITH
    Type   <- SimType, Least <- 0, Most <- MaxAmount,
    left   <- [t \in SimType |-> Left(t)],
    paused <- isPaused,
    lost   <- {t \in isTriggered : event[t] = NotPending}

\* The requests of a plan are handed down as often as planned and in no pause,
\* whatever falls into one instant; a type that meets a pause is lost.
KeepsPlan == Requests!Spec
=============================================================================
