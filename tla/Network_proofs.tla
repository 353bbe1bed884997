--------------------------- MODULE Network_proofs ---------------------------
(***************************************************************************)
(* For any number of ports and any latencies the network loses no wake-up,  *)
(* serves every port in time, and is a queue per port.                      *)
(***************************************************************************)
EXTENDS Network, SequenceTheorems, TLAPS

-----------------------------------------------------------------------------
(* Delays, budgets and buffers. *)

\* A message takes at least a millisecond, and at most MaxLatency.
LEMMA DelayInRange ==
    ASSUME NEW from \in Port, NEW to \in Port, NEW delay \in Delays(from, to)
    PROVE  delay \in 1 .. MaxLatency
  <1> DEFINE base == Latency[from][to]
  <1>1. /\ base \in Nat \ {0} /\ Disperse[to] \in Nat /\ MaxLatency \in Nat
        /\ \A off \in RandomPart(to) : base + off <= MaxLatency
      BY LatencyAssumption
  <1>2. PICK r \in RandomPart(to) :
            delay = base + r \/ delay = (IF r >= base THEN 1 ELSE base - r)
      BY DEF Delays
  <1> HIDE DEF base
  <1>3. r \in Nat
      BY <1>1, <1>2 DEF RandomPart
  <1> QED
      BY <1>1, <1>2, <1>3

\* One place nearer to the front is one journey more.
LEMMA BudgetStep ==
    ASSUME NEW k \in Nat, k <= MaxBuff
    PROVE  /\ Budget(k) \in Nat
           /\ k < MaxBuff => Budget(k) = Budget(k + 1) + MaxLatency
  <1>1. MaxBuff \in Nat /\ MaxLatency \in Nat
      BY LatencyAssumption, MaxBuffAssumption
  <1>2. \A n \in Nat : n * MaxLatency \in Nat /\ (n + 1) * MaxLatency = n * MaxLatency + MaxLatency
      BY <1>1, SMT
  <1>3. MaxBuff - k \in Nat
      BY <1>1
  <1>4. Budget(k) \in Nat
      BY <1>2, <1>3 DEF Budget
  <1>5. ASSUME k < MaxBuff PROVE Budget(k) = Budget(k + 1) + MaxLatency
    <2>1. MaxBuff - (k + 1) \in Nat /\ MaxBuff - k = (MaxBuff - (k + 1)) + 1
        BY <1>1, <1>5
    <2> QED
        BY <1>2, <2>1 DEF Budget
  <1> QED
      BY <1>4, <1>5

\* A buffer in which time has passed.
LEMMA AgedBuffer ==
    ASSUME NEW buffer \in Seq(Packet)
    PROVE  /\ Aged(buffer) \in Seq(Packet) /\ Len(Aged(buffer)) = Len(buffer)
           /\ DOMAIN Aged(buffer) = DOMAIN buffer
           /\ \A k \in DOMAIN buffer :
                  /\ buffer[k] \in Packet
                  /\ Aged(buffer)[k] = [buffer[k] EXCEPT !.age = @ + 1]
  <1>1. /\ Len(buffer) \in Nat /\ DOMAIN buffer = 1 .. Len(buffer)
        /\ \A k \in DOMAIN buffer : buffer[k] \in Packet
      BY LenProperties, ElementOfSeq
  <1>2. \A k \in DOMAIN buffer : [buffer[k] EXCEPT !.age = @ + 1] \in Packet
      BY <1>1 DEF Packet
  <1>3. Aged(buffer) \in [1 .. Len(buffer) -> Packet]
      BY <1>1, <1>2 DEF Aged
  <1>4. Aged(buffer) \in Seq(Packet)
      BY <1>1, <1>3, SeqDef
  <1>5. DOMAIN Aged(buffer) = 1 .. Len(buffer) /\ DOMAIN Aged(buffer) = 1 .. Len(Aged(buffer))
      BY <1>3, <1>4, LenProperties
  <1>6. Len(Aged(buffer)) = Len(buffer)
      BY <1>1, <1>4, <1>5, LenProperties
  <1> QED
      BY <1>1, <1>4, <1>5, <1>6 DEF Aged

\* A buffer with one more message.
LEMMA PushedBuffer ==
    ASSUME NEW buffer \in Seq(Packet), NEW packet \in Packet
    PROVE  /\ push(buffer, packet) \in Seq(Packet)
           /\ Len(push(buffer, packet)) = Len(buffer) + 1
           /\ push(buffer, packet) # <<>>
           /\ DOMAIN push(buffer, packet) = 1 .. Len(buffer) + 1
           /\ \A k \in 1 .. Len(buffer) + 1 :
                  push(buffer, packet)[k] = IF k = Len(buffer) + 1 THEN packet ELSE buffer[k]
  <1> DEFINE longer == Append(buffer, packet)
  <1>1. longer \in Seq(Packet) /\ Len(longer) = Len(buffer) + 1 /\ Len(buffer) \in Nat
      OBVIOUS
  <1>2. \A k \in 1 .. Len(buffer) + 1 :
            longer[k] = IF k = Len(buffer) + 1 THEN packet ELSE buffer[k]
      OBVIOUS
  <1>3. DOMAIN longer = 1 .. Len(buffer) + 1 /\ longer # <<>>
      BY <1>1, LenProperties, EmptySeq
  <1> QED
      BY <1>1, <1>2, <1>3 DEF push

\* A buffer without its first message.
LEMMA ServedBuffer ==
    ASSUME NEW buffer \in Seq(Packet), buffer # <<>>
    PROVE  /\ Tail(buffer) \in Seq(Packet)
           /\ Len(Tail(buffer)) = Len(buffer) - 1
           /\ DOMAIN Tail(buffer) = 1 .. Len(buffer) - 1
           /\ \A k \in DOMAIN Tail(buffer) : Tail(buffer)[k] = buffer[k + 1]
           /\ Len(buffer) \in Nat \ {0}
  BY HeadTailProperties, LenProperties, EmptySeq

-----------------------------------------------------------------------------
(* The invariant. *)

\* What the invariant says of one port.
PortInOrder(buffer, wakeUp, event, checked, here) ==
    /\ buffer \in Seq(Packet) /\ Len(buffer) <= MaxBuff
    /\ wakeUp \in CAN_USE .. MaxLatency /\ event = wakeUp
    /\ wakeUp = CAN_USE /\ buffer # <<>> => checked
    /\ wakeUp # CAN_USE => buffer # <<>>
    /\ here => wakeUp # 0
    /\ \A k \in DOMAIN buffer :
           IF wakeUp = CAN_USE THEN buffer[k].age <= Budget(k)
                               ELSE buffer[k].age + wakeUp <= Budget(k) + MaxLatency

\* The variables are functions of the ports, and every port is in order.
Shaped ==
    /\ DOMAIN m_buffMess = Port /\ m_buffMess = [p \in Port |-> m_buffMess[p]]
    /\ DOMAIN m_wakeUpInfo = Port /\ m_wakeUpInfo = [p \in Port |-> m_wakeUpInfo[p]]
    /\ DOMAIN m_eventSend = Port /\ m_eventSend = [p \in Port |-> m_eventSend[p]]
    /\ m_eventCheckReceive \in BOOLEAN
    /\ arrived \in SUBSET Port

InOrder(p) == PortInOrder(m_buffMess[p], m_wakeUpInfo[p], m_eventSend[p],
                          m_eventCheckReceive, p \in arrived)

IInv == Shaped /\ \A p \in Port : InOrder(p)

LEMMA OrderIsEnough ==
    ASSUME IInv
    PROVE  TypeOK /\ NoLostWakeup /\ TravellerExists /\ OneArrival /\ Punctual
  <1>1. MaxLatency \in Nat
      BY LatencyAssumption
  <1>2. TypeOK
    <2>1. \A p \in Port : m_buffMess[p] \in Seq(Packet) /\ Len(m_buffMess[p]) <= MaxBuff
        BY DEF IInv, InOrder, PortInOrder
    <2>2. \A p \in Port : /\ m_wakeUpInfo[p] \in CAN_USE .. MaxLatency
                          /\ m_eventSend[p] \in NotPending .. MaxLatency
        BY DEF IInv, InOrder, PortInOrder, CAN_USE, NotPending
    <2> QED
        BY <2>1, <2>2 DEF TypeOK, IInv, Shaped
  <1>3. NoLostWakeup /\ TravellerExists /\ OneArrival
      BY <1>1 DEF NoLostWakeup, TravellerExists, OneArrival, IInv, InOrder, PortInOrder,
                  Idle, Due, CAN_USE
  <1>4. Punctual
      BY DEF Punctual, IInv, InOrder, PortInOrder
  <1> QED
      BY <1>2, <1>3, <1>4

LEMMA InitInOrder == Init => IInv
  <1> SUFFICES ASSUME Init PROVE IInv
      OBVIOUS
  <1>1. <<>> \in Seq(Packet) /\ Len(<<>>) = 0 /\ DOMAIN <<>> = {}
      OBVIOUS
  <1>2. ASSUME NEW p \in Port PROVE InOrder(p)
      BY <1>1, LatencyAssumption, MaxBuffAssumption
      DEF Init, InOrder, PortInOrder, CAN_USE, NotPending
  <1> QED
      BY <1>2 DEF Init, Shaped, IInv

LEMMA PushInOrder ==
    ASSUME IInv, NEW from \in Port, NEW to \in Port, NEW content \in Content,
           push_into_network(from, to, content)
    PROVE  IInv'
  <1> DEFINE packet == [src |-> from, content |-> content, age |-> 0]
  <1>1. Shaped /\ \A p \in Port : InOrder(p)
      BY DEF IInv
  <1>2. packet \in Packet
      BY DEF Packet
  <1>3. Shaped'
      BY <1>1 DEF Shaped, push_into_network
  <1>4. ASSUME NEW p \in Port, p # to PROVE InOrder(p)'
      BY <1>1, <1>4 DEF InOrder, PortInOrder, push_into_network, Shaped
  <1>5. InOrder(to)'
    <2> DEFINE buffer == m_buffMess[to]
               longer == push(buffer, packet)
    <2>1. PortInOrder(buffer, m_wakeUpInfo[to], m_eventSend[to], m_eventCheckReceive, to \in arrived)
        BY <1>1 DEF InOrder
    <2>2. m_buffMess'[to] = longer
        BY <1>1 DEF Shaped, push_into_network
    <2>3. buffer \in Seq(Packet) /\ Len(buffer) \in Nat /\ Len(buffer) < MaxBuff
          /\ MaxBuff \in Nat /\ MaxLatency \in Nat
        BY <2>1, LenProperties, MaxBuffAssumption, LatencyAssumption
        DEF PortInOrder, push_into_network
    <2>4. /\ longer \in Seq(Packet) /\ Len(longer) = Len(buffer) + 1
          /\ longer # <<>> /\ DOMAIN longer = 1 .. Len(buffer) + 1
          /\ \A k \in 1 .. Len(buffer) + 1 :
                 longer[k] = IF k = Len(buffer) + 1 THEN packet ELSE buffer[k]
        BY <1>2, <2>3, PushedBuffer
    <2>5. Budget(Len(buffer) + 1) \in Nat
        BY <2>3, BudgetStep
    <2>6. DOMAIN buffer = 1 .. Len(buffer) /\ packet.age = 0
        BY <2>3, LenProperties
    <2> HIDE DEF buffer, longer, packet
    <2>7. PortInOrder(longer, m_wakeUpInfo[to], m_eventSend[to], TRUE, to \in arrived)
        BY <2>1, <2>3, <2>4, <2>5, <2>6 DEF PortInOrder, CAN_USE
    <2> QED
        BY <2>2, <2>7 DEF InOrder, push_into_network
  <1> QED
      BY <1>3, <1>4, <1>5 DEF IInv

LEMMA CheckReceiveInOrder ==
    ASSUME IInv, checkReceive
    PROVE  IInv'
  <1>1. Shaped /\ \A p \in Port : InOrder(p)
      BY DEF IInv
  <1>2. PICK delay \in [Port -> 0 .. MaxLatency] :
            /\ \A p \in Port :
                   IF Idle(p) THEN delay[p] \in Delays(Head(m_buffMess[p]).src, p)
                              ELSE delay[p] = 1
            /\ m_wakeUpInfo' = [p \in Port |-> IF Idle(p) THEN delay[p] ELSE m_wakeUpInfo[p]]
            /\ m_eventSend' = [p \in Port |-> IF Idle(p) THEN Notify(m_eventSend[p], delay[p])
                                                         ELSE m_eventSend[p]]
      BY DEF checkReceive
  <1>3. Shaped'
      BY <1>1, <1>2 DEF Shaped, checkReceive
  <1>4. ASSUME NEW p \in Port, ~Idle(p) PROVE InOrder(p)'
      BY <1>1, <1>2, <1>4 DEF InOrder, PortInOrder, checkReceive, Idle
  <1>5. ASSUME NEW p \in Port, Idle(p) PROVE InOrder(p)'
    <2>1. /\ m_buffMess[p] \in Seq(Packet) /\ m_buffMess[p] # <<>>
          /\ \A k \in DOMAIN m_buffMess[p] : m_buffMess[p][k].age <= Budget(k)
          /\ Len(m_buffMess[p]) <= MaxBuff
          /\ m_wakeUpInfo[p] = CAN_USE /\ m_eventSend[p] = CAN_USE
        BY <1>1, <1>5 DEF InOrder, PortInOrder, Idle
    <2>2. Head(m_buffMess[p]).src \in Port
      <3>1. Head(m_buffMess[p]) \in Packet
          BY <2>1, HeadTailProperties
      <3> QED
          BY <3>1 DEF Packet
    <2>3. delay[p] \in 1 .. MaxLatency /\ MaxLatency \in Nat
        BY <1>2, <1>5, <2>2, DelayInRange, LatencyAssumption
    <2>4. m_wakeUpInfo'[p] = delay[p] /\ m_eventSend'[p] = delay[p]
        BY <1>2, <1>5, <2>1 DEF Notify, CAN_USE, NotPending
    <2>5. \A k \in DOMAIN m_buffMess[p] :
              m_buffMess[p][k].age \in Nat /\ Budget(k) \in Nat
      <3>1. Len(m_buffMess[p]) \in Nat /\ DOMAIN m_buffMess[p] = 1 .. Len(m_buffMess[p])
          BY <2>1, LenProperties
      <3>2. \A k \in DOMAIN m_buffMess[p] : m_buffMess[p][k].age \in Nat
        <4>1. \A k \in DOMAIN m_buffMess[p] : m_buffMess[p][k] \in Packet
            BY <2>1, <3>1, ElementOfSeq
        <4> QED
            BY <4>1 DEF Packet
      <3>3. \A k \in DOMAIN m_buffMess[p] : k \in Nat /\ k <= MaxBuff
          BY <2>1, <3>1, MaxBuffAssumption
      <3> QED
          BY <3>2, <3>3, BudgetStep
    <2>6. \A k \in DOMAIN m_buffMess[p] :
              m_buffMess[p][k].age + delay[p] <= Budget(k) + MaxLatency
        BY <2>1, <2>3, <2>5
    <2> QED
        BY <2>1, <2>3, <2>4, <2>6 DEF InOrder, PortInOrder, CAN_USE, checkReceive
  <1> QED
      BY <1>3, <1>4, <1>5 DEF IInv

LEMMA SendInOrder ==
    ASSUME IInv, send
    PROVE  IInv'
  <1>1. Shaped /\ \A p \in Port : InOrder(p)
      BY DEF IInv
  <1>2. MaxLatency \in Nat /\ MaxBuff \in Nat
      BY LatencyAssumption, MaxBuffAssumption
  <1>3. Shaped'
      BY <1>1 DEF Shaped, send, recheck
  <1>4. ASSUME NEW p \in Port, ~Due(p) PROVE InOrder(p)'
    <2>1. m_buffMess'[p] = m_buffMess[p] /\ m_wakeUpInfo'[p] = m_wakeUpInfo[p]
        BY <1>4 DEF send
    <2>2. m_eventSend[p] = m_wakeUpInfo[p] /\ m_wakeUpInfo[p] \in CAN_USE .. MaxLatency
        BY <1>1 DEF InOrder, PortInOrder
    <2>3. m_eventSend'[p] = m_eventSend[p]
        BY <1>2, <1>4, <2>2 DEF send, Due, Notify, CAN_USE, NotPending
    <2>4. (m_eventCheckReceive => m_eventCheckReceive') /\ (p \in arrived' <=> p \in arrived)
        BY <1>4 DEF send, recheck
    <2> QED
        BY <1>1, <2>1, <2>3, <2>4 DEF InOrder, PortInOrder
  <1>5. ASSUME NEW p \in Port, Due(p) PROVE InOrder(p)'
    <2> DEFINE buffer == m_buffMess[p]
    <2>1. PortInOrder(buffer, m_wakeUpInfo[p], m_eventSend[p], m_eventCheckReceive, p \in arrived)
        BY <1>1 DEF InOrder
    <2>2. m_wakeUpInfo[p] = 0 /\ m_eventSend[p] = 0
        BY <1>2, <1>5, <2>1 DEF PortInOrder, Due, CAN_USE
    <2>3. /\ buffer \in Seq(Packet) /\ buffer # <<>> /\ Len(buffer) <= MaxBuff
          /\ \A k \in DOMAIN buffer : buffer[k].age + 0 <= Budget(k) + MaxLatency
        BY <2>1, <2>2 DEF PortInOrder, CAN_USE
    <2>4. m_buffMess'[p] = Tail(buffer) /\ m_wakeUpInfo'[p] = CAN_USE /\ m_eventCheckReceive'
        BY <1>5 DEF send, recheck, Free
    <2>5. m_eventSend'[p] = CAN_USE
        BY <1>5, <2>2 DEF send, CAN_USE, NotPending
    <2> HIDE DEF buffer
    <2>6. /\ Tail(buffer) \in Seq(Packet) /\ Len(Tail(buffer)) = Len(buffer) - 1
          /\ DOMAIN Tail(buffer) = 1 .. Len(buffer) - 1
          /\ \A k \in DOMAIN Tail(buffer) : Tail(buffer)[k] = buffer[k + 1]
          /\ Len(buffer) \in Nat \ {0} /\ DOMAIN buffer = 1 .. Len(buffer)
        BY <2>3, ServedBuffer, LenProperties
    <2>7. ASSUME NEW k \in DOMAIN Tail(buffer) PROVE Tail(buffer)[k].age <= Budget(k)
      <3>1. k \in Nat /\ k < MaxBuff /\ k + 1 \in DOMAIN buffer
          BY <1>2, <2>3, <2>6
      <3>2. Budget(k) = Budget(k + 1) + MaxLatency
          BY <1>2, <3>1, BudgetStep
      <3>3. buffer[k + 1].age \in Nat
        <4>1. buffer[k + 1] \in Packet
            BY <2>3, <2>6, <3>1, ElementOfSeq
        <4> QED
            BY <4>1 DEF Packet
      <3> QED
          BY <2>3, <2>6, <3>1, <3>2, <3>3
    <2>8. Len(Tail(buffer)) <= MaxBuff
        BY <1>2, <2>3, <2>6
    <2> QED
        BY <1>2, <2>4, <2>5, <2>6, <2>7, <2>8 DEF InOrder, PortInOrder, CAN_USE
  <1> QED
      BY <1>3, <1>4, <1>5 DEF IInv

LEMMA TickInOrder ==
    ASSUME IInv, Tick
    PROVE  IInv'
  <1>1. Shaped /\ \A p \in Port : InOrder(p)
      BY DEF IInv
  <1>2. Shaped'
      BY <1>1 DEF Shaped, Tick
  <1>3. ASSUME NEW p \in Port PROVE InOrder(p)'
    <2> DEFINE buffer == m_buffMess[p]
               wakeUp == m_wakeUpInfo[p]
    <2>1. PortInOrder(buffer, wakeUp, m_eventSend[p], m_eventCheckReceive, p \in arrived)
        BY <1>1 DEF InOrder
    <2>2. /\ m_buffMess'[p] = Aged(buffer)
          /\ m_wakeUpInfo'[p] = Countdown(wakeUp) /\ m_eventSend'[p] = Countdown(wakeUp)
          /\ p \notin arrived' /\ wakeUp # 0 /\ ~m_eventCheckReceive
        BY <2>1 DEF Tick, PortInOrder
    <2>3. /\ buffer \in Seq(Packet) /\ Len(buffer) <= MaxBuff
          /\ wakeUp \in CAN_USE .. MaxLatency /\ MaxLatency \in Nat
        BY <2>1, LatencyAssumption DEF PortInOrder
    <2> HIDE DEF buffer, wakeUp
    <2>4. /\ Aged(buffer) \in Seq(Packet) /\ Len(Aged(buffer)) = Len(buffer)
          /\ DOMAIN Aged(buffer) = DOMAIN buffer
          /\ \A k \in DOMAIN buffer :
                 /\ buffer[k] \in Packet
                 /\ Aged(buffer)[k] = [buffer[k] EXCEPT !.age = @ + 1]
        BY <2>3, AgedBuffer
    <2>5. \A k \in DOMAIN buffer : /\ buffer[k].age \in Nat
                                  /\ Aged(buffer)[k].age = buffer[k].age + 1
        BY <2>4 DEF Packet
    <2>6. CASE wakeUp = CAN_USE
      <3>1. buffer = <<>> /\ DOMAIN buffer = {}
          BY <2>1, <2>2, <2>6 DEF PortInOrder
      <3>2. Aged(buffer) = <<>>
          BY <2>4, <3>1, EmptySeq
      <3>3. Countdown(wakeUp) = CAN_USE
          BY <2>6 DEF Countdown, CAN_USE
      <3> QED
          BY <2>2, <2>3, <2>4, <2>6, <3>1, <3>2, <3>3 DEF InOrder, PortInOrder
    <2>7. CASE wakeUp # CAN_USE
      <3>1. wakeUp \in 1 .. MaxLatency /\ Countdown(wakeUp) = wakeUp - 1
          BY <2>2, <2>3, <2>7 DEF Countdown, CAN_USE
      <3>2. Aged(buffer) # <<>>
        <4>1. buffer # <<>>
            BY <2>1, <2>7 DEF PortInOrder
        <4>2. Len(buffer) # 0
            BY <2>3, <4>1, EmptySeq
        <4> QED
            BY <2>4, <4>2, EmptySeq
      <3>3. \A k \in DOMAIN buffer : Budget(k) \in Nat
        <4>1. Len(buffer) \in Nat /\ DOMAIN buffer = 1 .. Len(buffer)
            BY <2>3, LenProperties
        <4>2. \A k \in DOMAIN buffer : k \in Nat /\ k <= MaxBuff
            BY <2>3, <4>1, MaxBuffAssumption
        <4> QED
            BY <4>2, BudgetStep
      <3>4. \A k \in DOMAIN buffer : buffer[k].age + wakeUp <= Budget(k) + MaxLatency
          BY <2>1, <2>7 DEF PortInOrder
      <3>5. \A k \in DOMAIN Aged(buffer) :
                Aged(buffer)[k].age + Countdown(wakeUp) <= Budget(k) + MaxLatency
          BY <2>3, <2>4, <2>5, <3>1, <3>3, <3>4
      <3>6. Countdown(wakeUp) \in CAN_USE .. MaxLatency /\ Countdown(wakeUp) # CAN_USE
          BY <2>3, <3>1 DEF CAN_USE
      <3> QED
          BY <2>2, <2>3, <2>4, <3>2, <3>5, <3>6 DEF InOrder, PortInOrder
    <2> QED
        BY <2>6, <2>7
  <1> QED
      BY <1>2, <1>3 DEF IInv

LEMMA NextInOrder == IInv /\ [Next]_vars => IInv'
  <1> SUFFICES ASSUME IInv, [Next]_vars PROVE IInv'
      OBVIOUS
  <1>1. CASE UNCHANGED vars
      BY <1>1 DEF vars, IInv, Shaped, InOrder
  <1> QED
      BY <1>1, PushInOrder, CheckReceiveInOrder, SendInOrder, TickInOrder DEF Next

LEMMA AlwaysInOrder == Spec => []IInv
  BY InitInOrder, NextInOrder, PTL DEF Spec

\* The buffers, times and events stay what they are declared to be; no buffer is
\* ever overfull, no delay longer than the longest.
THEOREM NetworkTypeCorrect == Spec => []TypeOK
  BY AlwaysInOrder, OrderIsEnough, PTL

\* However many ports share the two methods and the one checkReceive event, and
\* whatever the latencies, no message is left waiting without an event.
THEOREM WakeupNeverLost == Spec => []NoLostWakeup
  BY AlwaysInOrder, OrderIsEnough, PTL

\* send never takes the first message of an empty buffer.
THEOREM TravellerAlwaysExists == Spec => []TravellerExists
  BY AlwaysInOrder, OrderIsEnough, PTL

\* With latencies of at least a millisecond a node gets at most one message in
\* an instant, whatever the random part.
THEOREM OneArrivalAtATime == Spec => []OneArrival
  BY AlwaysInOrder, OrderIsEnough, PTL

\* A message waits at most for the journeys of those in front of it and its own.
THEOREM AlwaysPunctual == Spec => []Punctual
  BY AlwaysInOrder, OrderIsEnough, PTL

-----------------------------------------------------------------------------
(* The network is a queue per port. *)

\* What the nodes see of a buffer is a sequence of items as long as the buffer.
LEMMA VisibleBuffer ==
    ASSUME NEW buffer \in Seq(Packet)
    PROVE  /\ Visible(buffer) \in Seq(Item) /\ Len(Visible(buffer)) = Len(buffer)
           /\ Len(buffer) \in Nat
           /\ \A k \in 1 .. Len(buffer) :
                  /\ buffer[k] \in Packet
                  /\ Visible(buffer)[k] = [src     |-> buffer[k].src,
                                           content |-> buffer[k].content]
  <1>1. /\ Len(buffer) \in Nat /\ DOMAIN buffer = 1 .. Len(buffer)
        /\ \A k \in 1 .. Len(buffer) : buffer[k] \in Packet
      BY LenProperties, ElementOfSeq
  <1>2. \A k \in 1 .. Len(buffer) :
            [src |-> buffer[k].src, content |-> buffer[k].content] \in Item
      BY <1>1 DEF Packet, Item
  <1>3. Visible(buffer) \in [1 .. Len(buffer) -> Item]
      BY <1>1, <1>2 DEF Visible
  <1>4. Visible(buffer) \in Seq(Item)
      BY <1>1, <1>3, SeqDef
  <1>5. DOMAIN Visible(buffer) = 1 .. Len(buffer)
        /\ DOMAIN Visible(buffer) = 1 .. Len(Visible(buffer)) /\ Len(Visible(buffer)) \in Nat
      BY <1>3, <1>4, LenProperties
  <1>6. Len(Visible(buffer)) = Len(buffer)
      BY <1>1, <1>5
  <1> QED
      BY <1>1, <1>4, <1>6 DEF Visible

\* A message that enters a buffer enters the queue.
LEMMA VisiblePushed ==
    ASSUME NEW buffer \in Seq(Packet), NEW packet \in Packet
    PROVE  LET item == [src |-> packet.src, content |-> packet.content]
           IN  item \in Item /\ Visible(push(buffer, packet)) = Append(Visible(buffer), item)
  <1> DEFINE item   == [src |-> packet.src, content |-> packet.content]
             longer == push(buffer, packet)
             shown  == Visible(buffer)
  <1>1. item \in Item
      BY DEF Packet, Item
  <1>2. /\ longer \in Seq(Packet) /\ Len(longer) = Len(buffer) + 1
        /\ \A k \in 1 .. Len(buffer) + 1 :
               longer[k] = IF k = Len(buffer) + 1 THEN packet ELSE buffer[k]
      BY PushedBuffer
  <1>3. /\ shown \in Seq(Item) /\ Len(shown) = Len(buffer) /\ Len(buffer) \in Nat
        /\ \A k \in 1 .. Len(buffer) :
               shown[k] = [src |-> buffer[k].src, content |-> buffer[k].content]
      BY VisibleBuffer
  <1> HIDE DEF longer
  <1>4. /\ Visible(longer) \in Seq(Item) /\ Len(Visible(longer)) = Len(longer)
        /\ \A k \in 1 .. Len(longer) :
               Visible(longer)[k] = [src |-> longer[k].src, content |-> longer[k].content]
      BY <1>2, VisibleBuffer
  <1> HIDE DEF item, shown
  <1>5. /\ Append(shown, item) \in Seq(Item) /\ Len(Append(shown, item)) = Len(shown) + 1
        /\ \A k \in 1 .. Len(shown) : Append(shown, item)[k] = shown[k]
        /\ Append(shown, item)[Len(shown) + 1] = item
      BY <1>1, <1>3, AppendProperties
  <1>6. \A k \in 1 .. Len(Visible(longer)) : Visible(longer)[k] = Append(shown, item)[k]
      BY <1>2, <1>3, <1>4, <1>5 DEF item
  <1>7. Visible(longer) = Append(shown, item)
      BY <1>2, <1>3, <1>4, <1>5, <1>6, SeqEqual
  <1> QED
      BY <1>1, <1>7 DEF item, longer, shown

\* The message that leaves a buffer leaves the queue.
LEMMA VisibleServed ==
    ASSUME NEW buffer \in Seq(Packet), buffer # <<>>
    PROVE  Visible(buffer) # <<>> /\ Visible(Tail(buffer)) = Tail(Visible(buffer))
  <1> DEFINE rest  == Tail(buffer)
             shown == Visible(buffer)
  <1>1. /\ rest \in Seq(Packet) /\ Len(rest) = Len(buffer) - 1 /\ Len(buffer) \in Nat \ {0}
        /\ \A k \in 1 .. Len(buffer) - 1 : rest[k] = buffer[k + 1]
      BY ServedBuffer
  <1>2. /\ shown \in Seq(Item) /\ Len(shown) = Len(buffer)
        /\ \A k \in 1 .. Len(buffer) :
               shown[k] = [src |-> buffer[k].src, content |-> buffer[k].content]
      BY VisibleBuffer
  <1> HIDE DEF rest, shown
  <1>3. shown # <<>>
      BY <1>1, <1>2, EmptySeq
  <1>4. /\ Visible(rest) \in Seq(Item) /\ Len(Visible(rest)) = Len(rest)
        /\ \A k \in 1 .. Len(rest) :
               Visible(rest)[k] = [src |-> rest[k].src, content |-> rest[k].content]
      BY <1>1, VisibleBuffer
  <1>5. /\ Tail(shown) \in Seq(Item) /\ Len(Tail(shown)) = Len(shown) - 1
        /\ \A k \in 1 .. Len(Tail(shown)) : Tail(shown)[k] = shown[k + 1]
      BY <1>2, <1>3, HeadTailProperties
  <1>6. ASSUME NEW k \in 1 .. Len(Visible(rest)) PROVE Visible(rest)[k] = Tail(shown)[k]
    <2>1. /\ k \in 1 .. Len(buffer) - 1 /\ k \in 1 .. Len(rest)
          /\ k + 1 \in 1 .. Len(buffer) /\ k \in 1 .. Len(Tail(shown))
        BY <1>1, <1>2, <1>4, <1>5
    <2>2. rest[k] = buffer[k + 1]
        BY <1>1, <2>1
    <2>3. shown[k + 1] = [src |-> buffer[k + 1].src, content |-> buffer[k + 1].content]
        BY <1>2, <2>1
    <2>4. Visible(rest)[k] = [src |-> rest[k].src, content |-> rest[k].content]
        BY <1>4, <2>1
    <2>5. Tail(shown)[k] = shown[k + 1]
        BY <1>5, <2>1
    <2> QED
        BY <2>2, <2>3, <2>4, <2>5
  <1>7. Visible(rest) = Tail(shown)
      BY <1>1, <1>2, <1>4, <1>5, <1>6, SeqEqual
  <1> QED
      BY <1>3, <1>7 DEF rest, shown

\* Time is not seen.
LEMMA VisibleAged ==
    ASSUME NEW buffer \in Seq(Packet)
    PROVE  Visible(Aged(buffer)) = Visible(buffer)
  <1>1. /\ DOMAIN Aged(buffer) = DOMAIN buffer
        /\ \A k \in DOMAIN buffer : /\ buffer[k] \in Packet
                                    /\ Aged(buffer)[k] = [buffer[k] EXCEPT !.age = @ + 1]
      BY AgedBuffer
  <1>2. \A k \in DOMAIN buffer : /\ Aged(buffer)[k].src = buffer[k].src
                                 /\ Aged(buffer)[k].content = buffer[k].content
      BY <1>1 DEF Packet
  <1> QED
      BY <1>1, <1>2 DEF Visible

LEMMA InitIsQueues == Init => Abstract!Init
  <1>1. Visible(<<>>) = <<>>
    <2>1. Visible(<<>>) \in Seq(Item) /\ Len(Visible(<<>>)) = 0
        BY EmptySeq, VisibleBuffer
    <2> QED
        BY <2>1, EmptySeq
  <1> QED
      BY <1>1 DEF Init, Abstract!Init, queues

\* What each action is to the queues: push_into_network enters a message, send
\* lets those arrive whose time has come, the others are not seen.
LEMMA StepIsQueues == IInv /\ [Next]_vars => [Abstract!Next]_queues
  <1> SUFFICES ASSUME IInv, [Next]_vars PROVE [Abstract!Next]_queues
      OBVIOUS
  <1>1. /\ Shaped /\ \A p \in Port : InOrder(p)
        /\ \A p \in Port : m_buffMess[p] \in Seq(Packet)
      BY DEF IInv, InOrder, PortInOrder
  <1>2. ASSUME NEW from \in Port, NEW to \in Port, NEW content \in Content,
               push_into_network(from, to, content)
        PROVE  Abstract!Next
    <2> DEFINE packet == [src |-> from, content |-> content, age |-> 0]
               item   == [src |-> packet.src, content |-> packet.content]
    <2>1. packet \in Packet
        BY DEF Packet
    <2>2. m_buffMess' = [m_buffMess EXCEPT ![to] = push(@, packet)]
        BY <1>2 DEF push_into_network
    <2> HIDE DEF packet
    <2>3. /\ item \in Item
          /\ Visible(push(m_buffMess[to], packet)) = Append(Visible(m_buffMess[to]), item)
        BY <1>1, <2>1, VisiblePushed
    <2> HIDE DEF item
    <2>4. queues' = [queues EXCEPT ![to] = Append(@, item)]
        BY <1>1, <2>2, <2>3 DEF queues, Shaped
    <2> QED
        BY <2>3, <2>4 DEF Abstract!Next, Abstract!Enter
  <1>3. ASSUME send PROVE Abstract!Next
    <2> DEFINE ports == {p \in Port : Due(p)}
    <2>1. \A p \in ports : m_buffMess[p] # <<>>
        BY <1>1 DEF Due, InOrder, PortInOrder
    <2>2. ports # {}
      <3>1. PICK p \in Port : m_eventSend[p] = 0
          BY <1>3 DEF send
      <3>2. m_wakeUpInfo[p] = 0
          BY <1>1, <3>1 DEF InOrder, PortInOrder
      <3> QED
          BY <3>2 DEF Due, CAN_USE
    <2>3. \A p \in ports : /\ Visible(m_buffMess[p]) # <<>>
                           /\ Visible(Tail(m_buffMess[p])) = Tail(Visible(m_buffMess[p]))
        BY <1>1, <2>1, VisibleServed
    <2>4. m_buffMess' = [p \in Port |-> IF p \in ports THEN Tail(m_buffMess[p])
                                                       ELSE m_buffMess[p]]
        BY <1>3 DEF send
    <2> HIDE DEF ports
    <2>5. /\ \A p \in ports : queues[p] # <<>>
          /\ queues' = [p \in Port |-> IF p \in ports THEN Tail(queues[p]) ELSE queues[p]]
          /\ ports \in SUBSET Port
        BY <2>3, <2>4 DEF queues, ports
    <2> QED
        BY <2>2, <2>5 DEF Abstract!Next, Abstract!Arrive
  <1>4. ASSUME Tick PROVE UNCHANGED queues
    <2>1. m_buffMess' = [p \in Port |-> Aged(m_buffMess[p])]
        BY <1>4 DEF Tick
    <2>2. \A p \in Port : Visible(Aged(m_buffMess[p])) = Visible(m_buffMess[p])
        BY <1>1, VisibleAged
    <2> QED
        BY <2>1, <2>2 DEF queues
  <1>5. ASSUME checkReceive \/ UNCHANGED vars PROVE UNCHANGED queues
      BY <1>5 DEF checkReceive, vars, queues
  <1> QED
      BY <1>2, <1>3, <1>4, <1>5 DEF Next

\* Latencies drawn at random never let a message overtake, lose or double
\* another on its way to a port: every behaviour of the network is one of the
\* queues that the ring of nodes is modelled with.
THEOREM NetworkImplementsQueues == Spec => Abstract!Spec
  BY AlwaysInOrder, InitIsQueues, StepIsQueues, PTL DEF Spec, Abstract!Spec
=============================================================================
