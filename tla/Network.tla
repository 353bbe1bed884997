------------------------------ MODULE Network ------------------------------
(***************************************************************************)
(* The switch between the nodes: class network of net/network.cpp.          *)
(*                                                                          *)
(* Every port has a buffer of messages for its node.  The first of them     *)
(* travels for the latency between its two nodes, give or take a random     *)
(* part; the others wait until it has arrived.  Two SystemC methods do the  *)
(* work: checkReceive, woken by one event for all ports, sends off the      *)
(* first message of every idle port, and send, woken by the event of any    *)
(* port, hands over every message whose time has come.                      *)
(*                                                                          *)
(* Times are kept as the milliseconds left, or gone by.  A delta            *)
(* notification (notify(0)) is an event that is due before time passes.     *)
(***************************************************************************)
EXTENDS Integers, Sequences

CONSTANTS
    Port,         \* the ports, one per node
    Content,      \* what the messages say
    Latency,      \* m_latencyTable[from][to], in milliseconds
    Disperse,     \* m_randDesperseMillisec, the greatest random part asked for
    MaxLatency,   \* no message travels longer
    MaxBuff       \* bound on the messages waiting at a port

\* genRand(1, max) is rand() * max / RAND_MAX + 1, so that max + 1 is drawn as well.
RandomPart(to) == IF Disperse[to] = 0 THEN {0} ELSE 1 .. Disperse[to] + 1

ASSUME LatencyAssumption ==
    /\ MaxLatency \in Nat
    /\ Latency \in [Port -> [Port -> Nat \ {0}]]
    /\ Disperse \in [Port -> Nat]
    /\ \A from, to \in Port : \A off \in RandomPart(to) : Latency[from][to] + off <= MaxLatency
ASSUME MaxBuffAssumption == MaxBuff \in Nat

CAN_USE    == -1    \* of a port: no message of it is travelling
NotPending == -1    \* of an event: nobody has notified it

VARIABLES
    m_buffMess,            \* per port: the messages for its node, oldest first
    m_wakeUpInfo,          \* per port: the time its first message has left, or CAN_USE
    m_eventSend,           \* per port: the time until send is woken, or NotPending
    m_eventCheckReceive,   \* checkReceive is to run in this instant
    arrived                \* the ports that got a message in this instant

vars == <<m_buffMess, m_wakeUpInfo, m_eventSend, m_eventCheckReceive, arrived>>

\* age is the time since netwokrStartTime.
Packet == [src : Port, content : Content, age : Nat]

\* sc_event::notify(delay): an earlier notification that is pending stays.
Notify(pending, delay) ==
    IF pending = NotPending \/ delay < pending THEN delay ELSE pending

\* A plausible slip: a random part as large as the latency leaves no time at all.
DelaysUnclamped(from, to) ==
    LET base == Latency[from][to]
    IN  {base + r : r \in RandomPart(to)}
            \cup {IF r > base THEN 1 ELSE base - r : r \in RandomPart(to)}

\* The times a message may take: the latency plus or minus the random part, and
\* 1 ms when that would leave nothing.
Delays(from, to) ==
    LET base == Latency[from][to]
    IN  {base + r : r \in RandomPart(to)}
            \cup {IF r >= base THEN 1 ELSE base - r : r \in RandomPart(to)}

\* A plausible slip: only the first idle port is looked at.
IdleFirst(p) ==
    /\ m_buffMess[p] # <<>> /\ m_wakeUpInfo[p] = CAN_USE
    /\ p = CHOOSE q \in Port : m_buffMess[q] # <<>> /\ m_wakeUpInfo[q] = CAN_USE

\* A message waits at p and none is travelling.
Idle(p) == m_buffMess[p] # <<>> /\ m_wakeUpInfo[p] = CAN_USE

\* A plausible slip: a message travels on after it was handed over.
FreeStays(p) == m_wakeUpInfo[p]

\* What send leaves in m_wakeUpInfo of a port it served.
Free(p) == CAN_USE

Due(p) == m_wakeUpInfo[p] # CAN_USE /\ m_wakeUpInfo[p] <= 0

-----------------------------------------------------------------------------
Init ==
    /\ m_buffMess = [p \in Port |-> <<>>]
    /\ m_wakeUpInfo = [p \in Port |-> CAN_USE]
    /\ m_eventSend = [p \in Port |-> NotPending]
    /\ m_eventCheckReceive = FALSE
    /\ arrived = {}

\* A plausible slip: the newest message goes first.
pushFront(buffer, packet) == <<packet>> \o buffer

push(buffer, packet) == Append(buffer, packet)

\* The node at port `from' hands over a message for the one at port `to'; to itself
\* it sends none (sendMessage of low_latency_chord).
push_into_network(from, to, content) ==
    /\ from # to /\ Len(m_buffMess[to]) < MaxBuff
    /\ m_buffMess' = [m_buffMess EXCEPT ![to] =
                         push(@, [src |-> from, content |-> content, age |-> 0])]
    /\ m_eventCheckReceive' = TRUE
    /\ UNCHANGED <<m_wakeUpInfo, m_eventSend, arrived>>

\* The first message of every idle port goes off, each with a delay of its own.
checkReceive ==
    /\ m_eventCheckReceive
    /\ m_eventCheckReceive' = FALSE
    /\ \E delay \in [Port -> 0 .. MaxLatency] :
        /\ \A p \in Port :
               IF Idle(p) THEN delay[p] \in Delays(Head(m_buffMess[p]).src, p)
                          ELSE delay[p] = 1
        /\ m_wakeUpInfo' = [p \in Port |-> IF Idle(p) THEN delay[p] ELSE m_wakeUpInfo[p]]
        /\ m_eventSend' = [p \in Port |-> IF Idle(p) THEN Notify(m_eventSend[p], delay[p])
                                                     ELSE m_eventSend[p]]
    /\ UNCHANGED <<m_buffMess, arrived>>

\* A plausible slip: the port is free again but nobody looks at what waits there.
recheckNever == m_eventCheckReceive

recheck == m_eventCheckReceive \/ \E p \in Port : Due(p)

\* Woken by any port, send serves every port that is due and sets the event of
\* every other port whose message is travelling once more.
send ==
    /\ \E p \in Port : m_eventSend[p] = 0
    /\ m_buffMess' = [p \in Port |-> IF Due(p) THEN Tail(m_buffMess[p]) ELSE m_buffMess[p]]
    /\ m_wakeUpInfo' = [p \in Port |-> IF Due(p) THEN Free(p) ELSE m_wakeUpInfo[p]]
    /\ m_eventSend' =
           [p \in Port |->
               LET left == IF m_eventSend[p] = 0 THEN NotPending ELSE m_eventSend[p]
               IN  IF m_wakeUpInfo[p] # CAN_USE /\ ~Due(p)
                   THEN Notify(left, m_wakeUpInfo[p]) ELSE left]
    /\ m_eventCheckReceive' = recheck
    /\ arrived' = arrived \cup {p \in Port : Due(p)}

\* A plausible slip: an idle port is counted down too.
CountdownPast(left) == left - 1

Countdown(left) == IF left > 0 THEN left - 1 ELSE left

Aged(buffer) == [k \in DOMAIN buffer |-> [buffer[k] EXCEPT !.age = @ + 1]]

\* A millisecond passes when no event is due.
Tick ==
    /\ ~m_eventCheckReceive
    /\ \A p \in Port : m_eventSend[p] # 0
    /\ m_wakeUpInfo' = [p \in Port |-> Countdown(m_wakeUpInfo[p])]
    /\ m_eventSend' = [p \in Port |-> Countdown(m_eventSend[p])]
    /\ m_buffMess' = [p \in Port |-> Aged(m_buffMess[p])]
    /\ arrived' = {}
    /\ UNCHANGED m_eventCheckReceive

Next ==
    \/ \E from, to \in Port, content \in Content : push_into_network(from, to, content)
    \/ checkReceive
    \/ send
    \/ Tick

Spec == Init /\ [][Next]_vars

\* The simulator runs what is due, and then lets time pass.
Fairness == WF_vars(checkReceive) /\ WF_vars(send) /\ WF_vars(Tick)

FairSpec == Spec /\ Fairness

-----------------------------------------------------------------------------
TypeOK ==
    /\ m_buffMess \in [Port -> Seq(Packet)]
    /\ \A p \in Port : Len(m_buffMess[p]) <= MaxBuff
    /\ m_wakeUpInfo \in [Port -> CAN_USE .. MaxLatency]
    /\ m_eventSend \in [Port -> NotPending .. MaxLatency]
    /\ m_eventCheckReceive \in BOOLEAN
    /\ arrived \in SUBSET Port

\* No wake-up is lost: a message waiting at an idle port has checkReceive due, one
\* that travels has the event of its port set to the very moment it arrives, also
\* when other ports wake send in between, and an idle port has no event left.
NoLostWakeup == \A p \in Port :
    /\ m_eventSend[p] = m_wakeUpInfo[p]
    /\ Idle(p) => m_eventCheckReceive

\* send takes the first message of a due port without looking whether there is
\* one (network.cpp:270): a port never has a travelling message and no message.
TravellerExists == \A p \in Port : m_wakeUpInfo[p] # CAN_USE => m_buffMess[p] # <<>>

\* No node gets two messages in one instant, however short the random latencies:
\* what one message makes a node send has left it before the next arrives.
OneArrival == \A p \in Port : p \in arrived => ~Due(p)

\* How long the message in place k may have waited.
Budget(k) == (MaxBuff - k) * MaxLatency

\* A message is not held up for longer than those in front of it and itself
\* travel: a port that is free is served in the same instant.
Punctual == \A p \in Port : \A k \in DOMAIN m_buffMess[p] :
    IF m_wakeUpInfo[p] = CAN_USE
    THEN m_buffMess[p][k].age <= Budget(k)
    ELSE m_buffMess[p][k].age + m_wakeUpInfo[p] <= Budget(k) + MaxLatency

\* A buffer as the nodes see it, and all of them.
Item == [src : Port, content : Content]

Visible(buffer) == [k \in DOMAIN buffer |-> [src     |-> buffer[k].src,
                                             content |-> buffer[k].content]]

queues == [p \in Port |-> Visible(m_buffMess[p])]

Abstract == INSTANCE PortQueues WITH queue <- queues

\* The network implements the queues of ChordRing: latencies drawn at random do
\* not let messages overtake each other on the way to a port, none is lost or
\* doubled, and every one arrives.
QueuesPorts == Abstract!FairSpec
=============================================================================
