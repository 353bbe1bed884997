------------------------ MODULE Application_proofs ------------------------
(***************************************************************************)
(* For every plan, whatever falls into one instant: no event of the         *)
(* application comes for a list that is empty, and no request of a plan is  *)
(* forgotten, except by a pause.                                            *)
(***************************************************************************)
EXTENDS Application, SequenceTheorems, Sums_proofs

\* A repetition counts up to the amount of a request the list has, and a list
\* with requests has its event or its note.
IInv == TypeOK /\ EventHasRequest /\ NoneForgotten

LEMMA RequestHas ==
    ASSUME NEW r \in Request
    PROVE  /\ r.firstDelay \in 0 .. MaxTime /\ r.period \in 1 .. MaxTime
           /\ r.amount \in 1 .. MaxAmount /\ r.contents \in Contents
           /\ r.periods \subseteq 1 .. MaxTime /\ r.destinations \subseteq Contents
  BY DEF Request

\* Whatever is drawn is a period and contents.
LEMMA DrawsDrawn ==
    ASSUME NEW r \in Request, NEW kept \in Drawn, NEW isFilled \in BOOLEAN,
           NEW s \in draws(r, kept, isFilled)
    PROVE  s \in Drawn
  <1> DEFINE draw(k) == k \in r.randType /\ (k \in r.randNeedRecalc \/ ~isFilled)
             periods == IF draw("PERIOD") THEN r.periods ELSE {kept.period}
             tailed  == {p + d : p \in periods, d \in r.tails}
                            \cup {p - d : p \in periods, d \in r.tails}
             times   == IF draw("PERIOD_TAIL") THEN tailed \cap (0 .. MaxTime) ELSE periods
             sent    == IF draw("DEST") THEN r.destinations ELSE {kept.contents}
  <1>1. MaxTime \in Nat
      BY PlanAssumption
  <1>2. kept.period \in 0 .. MaxTime /\ kept.contents \in Contents
      BY DEF Drawn
  <1>3. periods \subseteq 0 .. MaxTime
      BY <1>1, <1>2, RequestHas
  <1>4. times \subseteq 0 .. MaxTime
    <2> HIDE DEF periods, tailed
    <2> QED
        BY <1>3
  <1>5. sent \subseteq Contents
      BY <1>2, RequestHas
  <1>6. s \in [period : times, contents : sent]
      BY DEF draws
  <1> HIDE DEF times, sent
  <1> QED
      BY <1>4, <1>5, <1>6 DEF Drawn

LEMMA SentDrawn ==
    ASSUME NEW r \in Request, NEW kept \in {Unfilled} \cup Drawn,
           NEW s \in doRandSimMess(r, kept)
    PROVE  s \in Drawn
  <1>1. CASE kept = Unfilled
    <2>1. [period |-> r.period, contents |-> r.contents] \in Drawn
        BY RequestHas, PlanAssumption DEF Drawn
    <2>2. s \in draws(r, [period |-> r.period, contents |-> r.contents], FALSE)
        BY <1>1 DEF doRandSimMess
    <2> QED
        BY <2>1, <2>2, DrawsDrawn
  <1>2. CASE kept # Unfilled
    <2>1. kept \in Drawn /\ s \in draws(r, kept, TRUE)
        BY <1>2 DEF doRandSimMess
    <2> QED
        BY <2>1, DrawsDrawn
  <1> QED
      BY <1>1, <1>2

\* The time to the next event is the shortest of the times left.
LEMMA ShortestExists ==
    ASSUME NEW S \in SUBSET Nat, S # {}
    PROVE  Min(S) \in S /\ \A x \in S : Min(S) <= x
  <1>1. PICK x \in S : \A y \in S : x <= y
      BY LeastNatural
  <1> QED
      BY <1>1 DEF Min

LEMMA InitInOrder == Init => IInv
  <1> SUFFICES ASSUME Init PROVE IInv
      OBVIOUS
  <1>1. MaxTime \in Nat /\ MaxAmount \in Nat
      BY PlanAssumption
  <1>2. reqs \in [SimType -> Seq(Request)]
      BY PlanAssumption DEF Init
  <1>3. ASSUME NEW t \in SimType, reqs[t] # <<>>
        PROVE  reqs[t][1] \in Request /\ reqs[t][1].firstDelay \in 0 .. MaxTime
               /\ reqs[t][1].amount \in 1 .. MaxAmount
    <2>1. reqs[t][1] \in Request
        BY <1>2, <1>3
    <2> QED
        BY <2>1, RequestHas
  <1>4. event \in [SimType -> {NotPending} \cup 0 .. MaxTime]
      BY <1>3 DEF Init
  <1>5. TypeOK
    <2>1. sentCounter \in [SimType -> 0 .. MaxAmount]
        BY <1>1 DEF Init
    <2>2. randSimReq \in [SimType -> {Unfilled} \cup Drawn]
        BY DEF Init
    <2>3. isTriggered \subseteq SimType /\ isPaused \in BOOLEAN /\ handed = NoRequest
        BY DEF Init
    <2> QED
        BY <1>2, <1>4, <2>1, <2>2, <2>3 DEF TypeOK
  <1>6. EventHasRequest
      BY <1>3 DEF Init, EventHasRequest, Pending
  <1>7. NoneForgotten
      BY <1>1, <1>3 DEF Init, NoneForgotten, Pending, NotPending
  <1> QED
      BY <1>5, <1>6, <1>7 DEF IInv

LEMMA PausedInOrder ==
    ASSUME IInv, NEW t \in SimType, generatePaused(t)
    PROVE  IInv'
  <1>1. TypeOK'
      BY DEF IInv, TypeOK, generatePaused
  <1>2. EventHasRequest'
      BY DEF IInv, TypeOK, EventHasRequest, generatePaused, Pending
  <1>3. NoneForgotten'
      BY DEF IInv, TypeOK, NoneForgotten, generatePaused, Pending
  <1> QED
      BY <1>1, <1>2, <1>3 DEF IInv

LEMMA TickInOrder ==
    ASSUME IInv, Tick
    PROVE  IInv'
  <1> DEFINE times == {event[t] : t \in Pending}
  <1>1. MaxTime \in Nat
      BY PlanAssumption
  <1>2. times \in SUBSET Nat /\ times # {}
    <2>1. \A t \in Pending : event[t] \in Nat
        BY <1>1 DEF IInv, TypeOK, Pending, NotPending
    <2>2. Pending # {}
        BY DEF Tick
    <2> QED
        BY <2>1, <2>2
  <1>3. Min(times) \in Nat /\ \A t \in Pending : Min(times) <= event[t]
      BY <1>2, ShortestExists
  <1>4. event' = [t \in SimType |-> IF t \in Pending THEN event[t] - Min(times) ELSE NotPending]
      BY DEF Tick
  <1> HIDE DEF times
  <1>5. \A t \in Pending : event'[t] \in 0 .. MaxTime
      BY <1>1, <1>3, <1>4 DEF IInv, TypeOK, Pending, NotPending
  <1>6. Pending' = Pending
      BY <1>4, <1>5 DEF Pending, NotPending
  <1>7. event' \in [SimType -> {NotPending} \cup 0 .. MaxTime]
      BY <1>4, <1>5
  <1>8. TypeOK'
      BY <1>7 DEF IInv, TypeOK, Tick
  <1>9. EventHasRequest' /\ NoneForgotten'
      BY <1>6 DEF IInv, EventHasRequest, NoneForgotten, Tick
  <1> QED
      BY <1>8, <1>9 DEF IInv

\* What the event of t does when s is drawn.
Sends(t, s) ==
    LET r    == reqs[t][1]
        last == sentCounter[t] + 1 = r.amount
    IN  /\ isPaused' = (t = "PAUSE")
        /\ isTriggered' = isTriggered \ {t}
        /\ randSimReq' = [randSimReq EXCEPT ![t] = s]
        /\ handed' = [type |-> t, contents |-> s.contents]
        /\ reqs' = IF last THEN [reqs EXCEPT ![t] = Tail(@)] ELSE reqs
        /\ sentCounter' = [sentCounter EXCEPT ![t] = IF last THEN 0 ELSE @ + 1]
        /\ event' = [event EXCEPT ![t] = IF last THEN nextGenerate(reqs[t], s.period)
                                         ELSE s.period]

\* CONTINUE wakes nobody else.
LEMMA SendsIs ==
    ASSUME IInv, NEW t \in SimType, NEW stillPaused \in BOOLEAN,
           t = "CONTINUE" => ~stillPaused,
           generateSends(t, stillPaused)
    PROVE  \E s \in doRandSimMess(reqs[t][1], randSimReq[t]) : Sends(t, s)
  <1> DEFINE r     == reqs[t][1]
             last  == sentCounter[t] + 1 = r.amount
  <1>1. resumed(t, stillPaused) = {}
      BY DEF resumed
  <1>2. [u \in SimType |-> IF u \in resumed(t, stillPaused)
                           THEN Notify(event[u], 0) ELSE event[u]] = event
      BY <1>1 DEF IInv, TypeOK
  <1>3. isTriggered \ resumed(t, stillPaused) = isTriggered
      BY <1>1
  <1> DEFINE woken == [u \in SimType |-> IF u \in resumed(t, stillPaused)
                                         THEN Notify(event[u], 0) ELSE event[u]]
             noted == isTriggered \ resumed(t, stillPaused)
             again == counterReset(sentCounter[t] + 1)
  <1>4. \E s \in doRandSimMess(r, randSimReq[t]) :
            /\ isPaused' = (t = "PAUSE")
            /\ isTriggered' = noted \ {t}
            /\ randSimReq' = [randSimReq EXCEPT ![t] = s]
            /\ handed' = [type |-> t, contents |-> s.contents]
            /\ reqs' = IF last THEN [reqs EXCEPT ![t] = Tail(@)] ELSE reqs
            /\ sentCounter' = [sentCounter EXCEPT ![t] = IF last THEN again ELSE @ + 1]
            /\ event' = [woken EXCEPT ![t] = IF last THEN nextGenerate(reqs[t], s.period)
                                             ELSE s.period]
      BY DEF generateSends
  <1>5. woken = event /\ noted = isTriggered /\ again = 0
      BY <1>2, <1>3 DEF counterReset
  <1> HIDE DEF woken, noted, again
  <1> QED
      BY <1>4, <1>5 DEF Sends

LEMMA SendsInOrder ==
    ASSUME IInv, NEW t \in SimType, event[t] = 0, NEW stillPaused \in BOOLEAN,
           t = "CONTINUE" => ~stillPaused,
           generateSends(t, stillPaused)
    PROVE  IInv'
  <1> DEFINE r     == reqs[t][1]
             last  == sentCounter[t] + 1 = r.amount
  <1>1. PICK s \in doRandSimMess(r, randSimReq[t]) :
            /\ isPaused' = (t = "PAUSE")
            /\ isTriggered' = isTriggered \ {t}
            /\ randSimReq' = [randSimReq EXCEPT ![t] = s]
            /\ handed' = [type |-> t, contents |-> s.contents]
            /\ reqs' = IF last THEN [reqs EXCEPT ![t] = Tail(@)] ELSE reqs
            /\ sentCounter' = [sentCounter EXCEPT ![t] = IF last THEN 0 ELSE @ + 1]
            /\ event' = [event EXCEPT ![t] = IF last THEN nextGenerate(reqs[t], s.period)
                                             ELSE s.period]
      BY SendsIs DEF Sends
  <1>2. MaxTime \in Nat /\ MaxAmount \in Nat
      BY PlanAssumption
  <1>3. reqs \in [SimType -> Seq(Request)] /\ reqs[t] \in Seq(Request) /\ reqs[t] # <<>>
        /\ sentCounter[t] < r.amount
      BY DEF IInv, TypeOK, EventHasRequest, Pending, NotPending
  <1>4. r \in Request /\ r.amount \in 1 .. MaxAmount
      BY <1>3, RequestHas
  <1>5. s \in Drawn /\ s.period \in 0 .. MaxTime /\ s.contents \in Contents
    <2>1. randSimReq[t] \in {Unfilled} \cup Drawn
        BY DEF IInv, TypeOK
    <2>2. s \in Drawn
        BY <1>1, <1>4, <2>1, SentDrawn
    <2> QED
        BY <2>2 DEF Drawn
  <1>6. /\ Tail(reqs[t]) \in Seq(Request)
        /\ Len(Tail(reqs[t])) = Len(reqs[t]) - 1
        /\ Len(reqs[t]) > 1 => Tail(reqs[t])[1] = reqs[t][2] /\ reqs[t][2] \in Request
      BY <1>3, HeadTailProperties
  <1>7. CASE last
    <2>1. reqs' = [reqs EXCEPT ![t] = Tail(reqs[t])] /\ sentCounter' = [sentCounter EXCEPT ![t] = 0]
          /\ event' = [event EXCEPT ![t] = nextGenerate(reqs[t], s.period)]
        BY <1>1, <1>7
    <2>2. IF Len(reqs[t]) > 1 THEN nextGenerate(reqs[t], s.period) \in 0 .. MaxTime
                              ELSE nextGenerate(reqs[t], s.period) = NotPending
        BY <1>6, RequestHas DEF nextGenerate
    <2>3. TypeOK'
        BY <1>1, <1>2, <1>5, <1>6, <2>1, <2>2 DEF IInv, TypeOK
    <2>4. ASSUME Len(reqs[t]) > 1
          PROVE  reqs'[t] # <<>> /\ reqs'[t][1].amount \in 1 .. MaxAmount
      <3>1. reqs'[t] = Tail(reqs[t])
          BY <1>3, <2>1
      <3>2. Len(reqs'[t]) > 0 /\ reqs'[t][1] = reqs[t][2]
          BY <1>3, <1>6, <2>4, <3>1
      <3>3. reqs'[t] # <<>>
          BY <3>2
      <3>4. reqs[t][2] \in Request
          BY <1>6, <2>4
      <3> QED
          BY <3>2, <3>3, <3>4, RequestHas
    <2>5. EventHasRequest'
      <3> SUFFICES ASSUME NEW u \in SimType, event'[u] # NotPending
                   PROVE  reqs'[u] # <<>> /\ sentCounter'[u] < reqs'[u][1].amount
          BY DEF EventHasRequest, Pending
      <3>1. CASE u = t
          BY <1>2, <2>1, <2>2, <2>4, <3>1 DEF IInv, TypeOK
      <3>2. CASE u # t
          BY <2>1, <3>2 DEF IInv, TypeOK, EventHasRequest, Pending
      <3> QED
          BY <3>1, <3>2
    <2>6. NoneForgotten'
      <3> SUFFICES ASSUME NEW u \in SimType, reqs'[u] # <<>>
                   PROVE  event'[u] # NotPending \/ u \in isTriggered'
          BY DEF NoneForgotten, Pending
      <3>1. CASE u = t
        <4>1. Len(reqs[t]) > 1
            BY <1>3, <1>6, <2>1, <3>1
        <4> QED
            BY <1>2, <2>1, <2>2, <3>1, <4>1 DEF IInv, TypeOK, NotPending
      <3>2. CASE u # t
          BY <1>1, <2>1, <3>2 DEF IInv, TypeOK, NoneForgotten, Pending
      <3> QED
          BY <3>1, <3>2
    <2> QED
        BY <2>3, <2>5, <2>6 DEF IInv
  <1>8. CASE ~last
    <2>1. reqs' = reqs /\ sentCounter' = [sentCounter EXCEPT ![t] = sentCounter[t] + 1]
          /\ event' = [event EXCEPT ![t] = s.period]
        BY <1>1, <1>8
    <2>2. sentCounter[t] \in Nat /\ sentCounter[t] + 1 < r.amount
        BY <1>3, <1>4, <1>8 DEF IInv, TypeOK
    <2>3. TypeOK'
        BY <1>1, <1>2, <1>4, <1>5, <2>1, <2>2 DEF IInv, TypeOK
    <2>4. EventHasRequest'
        BY <1>3, <2>1, <2>2 DEF IInv, TypeOK, EventHasRequest, Pending
    <2>5. NoneForgotten'
        BY <1>1, <1>2, <1>5, <2>1 DEF IInv, TypeOK, NoneForgotten, Pending, NotPending
    <2> QED
        BY <2>3, <2>4, <2>5 DEF IInv
  <1> QED
      BY <1>7, <1>8

LEMMA StepInOrder == IInv /\ [Next]_vars => IInv'
  <1> SUFFICES ASSUME IInv, [Next]_vars PROVE IInv'
      OBVIOUS
  <1>1. CASE Tick
      BY <1>1, TickInOrder
  <1>2. ASSUME NEW t \in SimType, generateMess(t)
        PROVE  IInv'
    <2> DEFINE stillPaused == isPaused /\ t # "CONTINUE"
    <2>1. CASE stillPaused
        BY <1>2, <2>1, PausedInOrder DEF generateMess
    <2>2. CASE ~stillPaused
      <3>1. event[t] = 0 /\ generateSends(t, stillPaused) /\ stillPaused \in BOOLEAN
            /\ (t = "CONTINUE" => ~stillPaused)
          BY <1>2, <2>2 DEF generateMess
      <3> HIDE DEF stillPaused
      <3> QED
          BY <3>1, SendsInOrder
    <2> QED
        BY <2>1, <2>2
  <1>3. CASE UNCHANGED vars
      BY <1>3 DEF IInv, TypeOK, EventHasRequest, NoneForgotten, Pending, vars
  <1> QED
      BY <1>1, <1>2, <1>3 DEF Next

-----------------------------------------------------------------------------
\* Periods, contents and counters stay what they are, however periods and tails
\* are drawn anew in doRandSimMess and whatever is planned.
THEOREM ApplicationTypeCorrect == Spec => []TypeOK
  <1>1. IInv => TypeOK
      BY DEF IInv
  <1> QED
      BY <1>1, InitInOrder, StepInOrder, PTL DEF Spec

\* generateMess takes the first request of a list that has one, and has not yet
\* handed it down as often as planned.
THEOREM EventAlwaysHasRequest == Spec => []EventHasRequest
  <1>1. IInv => EventHasRequest
      BY DEF IInv
  <1> QED
      BY <1>1, InitInOrder, StepInOrder, PTL DEF Spec

\* However generateMess returns, the event of a type with requests left is set,
\* or a pause has noted it.
THEOREM NoRequestForgotten == Spec => []NoneForgotten
  <1>1. IInv => NoneForgotten
      BY DEF IInv
  <1> QED
      BY <1>1, InitInOrder, StepInOrder, PTL DEF Spec

-----------------------------------------------------------------------------
(* Every step is one of RequestPlan. *)

\* A list asks for the requests of its first entry and for those of the rest.
LEMMA PlannedFirst ==
    ASSUME NEW list \in Seq(Request), list # <<>>
    PROVE  /\ Planned(list) \in Nat /\ Planned(Tail(list)) \in Nat
           /\ Planned(list) = list[1].amount + Planned(Tail(list))
  <1> DEFINE N == Len(list) - 1
             f == [i \in DOMAIN list |-> list[i].amount]
             g == [i \in DOMAIN Tail(list) |-> Tail(list)[i].amount]
  <1>1. /\ N \in Nat /\ N + 1 = Len(list) /\ DOMAIN list = 1 .. N + 1
        /\ Tail(list) \in Seq(Request) /\ Len(Tail(list)) = N /\ DOMAIN Tail(list) = 1 .. N
        /\ \A i \in 1 .. N : Tail(list)[i] = list[i + 1]
    <2>1. Len(list) \in Nat /\ Len(list) > 0 /\ DOMAIN list = 1 .. Len(list)
        OBVIOUS
    <2> QED
        BY <2>1, HeadTailProperties
  <1>2. MaxAmount \in Nat /\ \A i \in 1 .. N + 1 : list[i] \in Request
      BY <1>1, PlanAssumption
  <1>3. \A i \in 1 .. N + 1 : f[i] \in Nat
      BY <1>1, <1>2, RequestHas
  <1>4. \A i \in 1 .. N : g[i] = f[i + 1]
      BY <1>1
  <1>5. \A i \in 1 .. N : g[i] \in Nat
      BY <1>1, <1>3, <1>4
  <1>6. f[1] = list[1].amount
      BY <1>1
  <1>7. Planned(list) = SumTo(f, N + 1) /\ Planned(Tail(list)) = SumTo(g, N)
      BY <1>1 DEF Planned
  <1> HIDE DEF f, g, N
  <1>8. SumTo(f, N + 1) = f[1] + SumTo(g, N)
      BY <1>1, <1>3, <1>4, SumFirst
  <1>9. SumTo(f, N + 1) \in Nat /\ SumTo(g, N) \in Nat
    <2>1. N + 1 \in Nat /\ N + 1 \in 0 .. N + 1 /\ N \in 0 .. N
        BY <1>1
    <2>2. \A n \in 0 .. N + 1 : SumTo(f, n) \in Nat
        BY <1>3, <2>1, SumStep
    <2>3. \A n \in 0 .. N : SumTo(g, n) \in Nat
        BY <1>1, <1>5, SumStep
    <2> QED
        BY <2>1, <2>2, <2>3
  <1> QED
      BY <1>6, <1>7, <1>8, <1>9

LEMMA PlannedNone == Planned(<<>>) = 0
  <1> DEFINE f == [i \in DOMAIN <<>> |-> <<>>[i].amount]
  <1>1. Planned(<<>>) = SumTo(f, 0)
      BY DEF Planned
  <1>2. \A i \in 1 .. 0 : f[i] \in Nat
      OBVIOUS
  <1> HIDE DEF f
  <1>3. SumTo(f, 0) = 0
      BY <1>2, SumStep
  <1> QED
      BY <1>1, <1>3

LEMMA PlannedIsNat ==
    ASSUME NEW list \in Seq(Request)
    PROVE  Planned(list) \in Nat
  BY PlannedFirst, PlannedNone

Remaining == [t \in SimType |-> Left(t)]
Lost      == {t \in isTriggered : event[t] = NotPending}

LEMMA InitIsPlan == Init => Requests!Init
  <1> SUFFICES ASSUME Init PROVE Requests!Init
      OBVIOUS
  <1>1. \A t \in SimType : Planned(reqs[t]) \in Nat /\ Planned(reqs[t]) <= MaxAmount
      BY PlanAssumption, PlannedIsNat DEF Init
  <1>2. \A t \in SimType : Left(t) \in 0 .. MaxAmount
      BY <1>1, PlanAssumption DEF Init, Left
  <1>3. isPaused = FALSE /\ Lost = {}
      BY DEF Init, Lost
  <1> QED
      BY <1>2, <1>3 DEF Requests!Init, Lost

\* A type whose event comes has requests left, and none of its kind is lost.
LEMMA EventGoes ==
    ASSUME IInv, NEW t \in SimType, event[t] = 0
    PROVE  /\ Remaining[t] > 0 /\ t \notin Lost
           /\ reqs[t] \in Seq(Request) /\ reqs[t] # <<>> /\ reqs[t][1] \in Request
           /\ reqs[t][1].amount \in Nat /\ sentCounter[t] \in Nat
           /\ Planned(reqs[t]) \in Nat /\ Planned(Tail(reqs[t])) \in Nat
           /\ Planned(reqs[t]) = reqs[t][1].amount + Planned(Tail(reqs[t]))
  <1>1. /\ reqs[t] \in Seq(Request) /\ reqs[t] # <<>> /\ sentCounter[t] \in Nat
        /\ sentCounter[t] < reqs[t][1].amount
      BY PlanAssumption DEF IInv, TypeOK, EventHasRequest, Pending, NotPending
  <1>2. reqs[t][1] \in Request
      BY <1>1
  <1>3. reqs[t][1].amount \in Nat
      BY <1>2, RequestHas, PlanAssumption
  <1>4. /\ Planned(reqs[t]) \in Nat /\ Planned(Tail(reqs[t])) \in Nat
        /\ Planned(reqs[t]) = reqs[t][1].amount + Planned(Tail(reqs[t]))
      BY <1>1, PlannedFirst
  <1>5. Remaining[t] > 0
      BY <1>1, <1>3, <1>4 DEF Remaining, Left
  <1>6. t \notin Lost
      BY DEF Lost, NotPending
  <1> QED
      BY <1>1, <1>2, <1>3, <1>4, <1>5, <1>6

LEMMA PausedIsLost ==
    ASSUME IInv, NEW t \in SimType, event[t] = 0, isPaused, t # "CONTINUE", generatePaused(t)
    PROVE  Requests!Lose(t)
  <1>1. Remaining[t] > 0 /\ t \notin Lost
      BY EventGoes
  <1>2. Lost' = Lost \cup {t}
      BY DEF Lost, generatePaused, IInv, TypeOK
  <1>3. Remaining' = Remaining /\ isPaused' = isPaused
      BY DEF Remaining, Left, generatePaused
  <1> QED
      BY <1>1, <1>2, <1>3 DEF Requests!Lose, Requests!Goes, Lost, Remaining

LEMMA SentIsHanded ==
    ASSUME IInv, NEW t \in SimType, event[t] = 0, NEW stillPaused \in BOOLEAN,
           stillPaused <=> isPaused /\ t # "CONTINUE", ~stillPaused,
           generateSends(t, stillPaused)
    PROVE  Requests!Hand(t)
  <1> DEFINE r    == reqs[t][1]
             last == sentCounter[t] + 1 = r.amount
  <1>1. PICK s \in doRandSimMess(r, randSimReq[t]) :
            /\ isPaused' = (t = "PAUSE")
            /\ isTriggered' = isTriggered \ {t}
            /\ reqs' = IF last THEN [reqs EXCEPT ![t] = Tail(@)] ELSE reqs
            /\ sentCounter' = [sentCounter EXCEPT ![t] = IF last THEN 0 ELSE @ + 1]
            /\ event' = [event EXCEPT ![t] = IF last THEN nextGenerate(reqs[t], s.period)
                                             ELSE s.period]
      BY SendsIs DEF Sends
  <1>2. /\ Remaining[t] > 0 /\ t \notin Lost
        /\ r.amount \in Nat /\ sentCounter[t] \in Nat
        /\ Planned(reqs[t]) \in Nat /\ Planned(Tail(reqs[t])) \in Nat
        /\ Planned(reqs[t]) = r.amount + Planned(Tail(reqs[t]))
      BY EventGoes
  <1>3. reqs \in [SimType -> Seq(Request)] /\ sentCounter \in [SimType -> 0 .. MaxAmount]
        /\ isTriggered \subseteq SimType /\ isPaused \in BOOLEAN
        /\ DOMAIN event = SimType
      BY DEF IInv, TypeOK
  <1> HIDE DEF r
  <1>4. Planned(reqs'[t]) - sentCounter'[t] = Planned(reqs[t]) - sentCounter[t] - 1
    <2>1. CASE last
      <3>1. reqs'[t] = Tail(reqs[t]) /\ sentCounter'[t] = 0
          BY <1>1, <1>3, <2>1
      <3> QED
          BY <1>2, <2>1, <3>1
    <2>2. CASE ~last
      <3>1. reqs'[t] = reqs[t] /\ sentCounter'[t] = sentCounter[t] + 1
          BY <1>1, <1>3, <2>2
      <3> QED
          BY <1>2, <3>1
    <2> QED
        BY <2>1, <2>2
  <1>5. ASSUME NEW u \in SimType, u # t
        PROVE  reqs'[u] = reqs[u] /\ sentCounter'[u] = sentCounter[u] /\ event'[u] = event[u]
    <2>1. reqs'[u] = reqs[u]
        BY <1>1, <1>3, <1>5
    <2> QED
        BY <1>1, <1>3, <1>5, <2>1
  <1>6. Remaining' = [Remaining EXCEPT ![t] = @ - 1]
      BY <1>4, <1>5 DEF Remaining, Left
  <1>7. Lost' = Lost
      BY <1>1, <1>2, <1>5, <1>3 DEF Lost
  <1>8. isPaused' = (CASE t = "PAUSE" -> TRUE [] t = "CONTINUE" -> FALSE [] OTHER -> isPaused)
      BY <1>1, <1>3
  <1> QED
      BY <1>2, <1>6, <1>7, <1>8 DEF Requests!Hand, Requests!Goes, Lost, Remaining

\* Time that passes hands nothing down.
LEMMA TickIsStutter ==
    ASSUME IInv, Tick
    PROVE  Remaining' = Remaining /\ Lost' = Lost /\ isPaused' = isPaused
  <1> DEFINE times == {event[t] : t \in Pending}
  <1>1. MaxTime \in Nat
      BY PlanAssumption
  <1>2. times \in SUBSET Nat /\ times # {}
    <2>1. \A t \in Pending : event[t] \in Nat
        BY <1>1 DEF IInv, TypeOK, Pending, NotPending
    <2>2. Pending # {}
        BY DEF Tick
    <2> QED
        BY <2>1, <2>2
  <1>3. Min(times) \in Nat /\ \A t \in Pending : Min(times) <= event[t]
      BY <1>2, ShortestExists
  <1>4. event' = [t \in SimType |-> IF t \in Pending THEN event[t] - Min(times) ELSE NotPending]
      BY DEF Tick
  <1> HIDE DEF times
  <1>5. \A t \in SimType : event'[t] = NotPending <=> event[t] = NotPending
      BY <1>1, <1>3, <1>4 DEF IInv, TypeOK, Pending, NotPending
  <1>6. Lost' = Lost
      BY <1>5 DEF Lost, Tick, IInv, TypeOK
  <1>7. Remaining' = Remaining /\ isPaused' = isPaused
      BY DEF Remaining, Left, Tick
  <1> QED
      BY <1>6, <1>7

LEMMA StepIsPlan == IInv /\ [Next]_vars => [Requests!Next]_(Requests!vars)
  <1> SUFFICES ASSUME IInv, [Next]_vars PROVE [Requests!Next]_(Requests!vars)
      OBVIOUS
  <1>1. CASE Tick
      BY <1>1, TickIsStutter DEF Requests!vars, Remaining, Lost
  <1>2. ASSUME NEW t \in SimType, generateMess(t)
        PROVE  Requests!Next
    <2> DEFINE stillPaused == isPaused /\ t # "CONTINUE"
    <2>1. CASE stillPaused
        BY <1>2, <2>1, PausedIsLost DEF generateMess, Requests!Next
    <2>2. CASE ~stillPaused
      <3>1. event[t] = 0 /\ generateSends(t, stillPaused) /\ stillPaused \in BOOLEAN
            /\ (stillPaused <=> isPaused /\ t # "CONTINUE")
          BY <1>2, <2>2 DEF generateMess
      <3> HIDE DEF stillPaused
      <3>2. Requests!Hand(t)
          BY <2>2, <3>1, SentIsHanded
      <3> QED
          BY <3>2 DEF Requests!Next
    <2> QED
        BY <2>1, <2>2
  <1>3. CASE UNCHANGED vars
    <2>1. Remaining' = Remaining /\ Lost' = Lost /\ isPaused' = isPaused
        BY <1>3 DEF vars, Remaining, Left, Lost
    <2> QED
        BY <2>1 DEF Requests!vars, Remaining, Lost
  <1> QED
      BY <1>1, <1>2, <1>3 DEF Next

\* For every plan, requests are handed down in the order of the plan's counts: none more
\* often than planned, none but CONTINUE in a pause, and what falls due in a pause never.
THEOREM ImplementsPlan == Spec => Requests!Init /\ [][Requests!Next]_(Requests!vars)
  <1>1. Spec => []IInv
      BY InitInOrder, StepInOrder, PTL DEF Spec
  <1> QED
      BY <1>1, InitIsPlan, StepIsPlan, PTL DEF Spec
=============================================================================
