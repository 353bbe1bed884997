----------------------------- MODULE ChordRing -----------------------------
(***************************************************************************)
(* A network of nodes: every node is the state machine of LowLatencyChord,  *)
(* and the transport (Transport_plus, network) is a queue per destination.  *)
(* network.cpp carries one message per port at a time and keeps the others  *)
(* in order, so nothing is lost, duplicated or overtaken on the way to a    *)
(* node; a node that is OFF takes what arrives and drops it.                *)
(*                                                                          *)
(* main.cpp starts the nodes one period after another, in the order of      *)
(* BootOrder, and gives every node but the first one the first as its seed. *)
(***************************************************************************)
EXTENDS LowLatencyChord, SequencesExt

CONSTANTS
    BootOrder,    \* the nodes in the order main.cpp starts them
    MaxID,        \* bound on the requests of one node outstanding at a time
    Commands,     \* per node, the commands the application may give it
    MaxCommands,  \* bound on how many commands are given
    Quiet         \* an UPDATE timer expires only when nothing is in flight

ASSUME BootAssumption ==
    /\ BootOrder \in Seq(Node)
    /\ \A n \in Node : \E i \in DOMAIN BootOrder : BootOrder[i] = n
    /\ MaxID \in Nat /\ MaxCommands \in Nat
    /\ MessageID = Node \X (1 .. MaxID)
    /\ Commands \in [Node -> SUBSET {"HARD_RESET", "PAUSE"}]

VARIABLES
    node,       \* the state of every node between two activations of core()
    net,        \* the messages on their way to each node, oldest first
    given       \* the number of commands given so far

vars == <<node, net, given>>

\* The node started first has no seed and is the seed of all others; the theorem
\* on undisturbed networks needs it, nothing else does.
StartedAsMain ==
    \A n \in Node : ConfSeed[n] = IF n = BootOrder[1] THEN <<>> ELSE <<BootOrder[1]>>

InFlight == UNION {Range(net[d]) : d \in Node}

\* nextUniqueMessageID of node n: not in use anywhere.
UsedID == {m.messageID : m \in InFlight}
              \cup UNION {{t.messageID : t \in node[d].timers} : d \in Node}
FreshID(n) == {<<n, k>> : k \in 1 .. MaxID} \ UsedID
Least(ids)  == CHOOSE id \in ids : \A other \in ids : id[2] <= other[2]
NextID(n)   == Least(FreshID(n))

\* The buffers of the messages to send in the order of their priority (preinit).
TxPriority == <<"JOIN", "NOTIFY", "ACK", "SUCCESSOR", "FIND_SUCCESSOR",
                "PREDECESSOR", "FIND_PREDECESSOR">>

Settled(s) == [s EXCEPT !.tx = <<>>]

\* What stands in tx at the places I, in the order of tx.
Chosen(tx, I) == FlattenSeq([k \in DOMAIN tx |-> IF k \in I THEN <<tx[k]>> ELSE <<>>])

SentTo(tx, d) == Chosen(tx, {k \in DOMAIN tx : tx[k].dest = d})

\* Node n has gone to one of the states; the queues had become q before what it sent.
Moves(n, states, q) == \E s \in states :
    /\ node' = [node EXCEPT ![n] = Settled(s)]
    /\ net' = [d \in Node |-> q[d] \o SentTo(s.tx, d)]

Running(n) == ~node[n].outOfRange /\ FreshID(n) # {}

-----------------------------------------------------------------------------
Init == /\ node = [n \in Node |-> Off(n)]
        /\ net = [n \in Node |-> <<>>]
        /\ given = 0

\* The nodes started before n run when n starts.
Boot(n) ==
    /\ Running(n) /\ node[n].state = "OFF"
    /\ \E i \in DOMAIN BootOrder :
           /\ BootOrder[i] = n
           /\ \A j \in 1 .. i - 1 : node[BootOrder[j]].state # "OFF"
    /\ Moves(n, {hardReset(node[n], NextID(n))}, net)
    /\ UNCHANGED given

Deliver(n) ==
    /\ Running(n) /\ net[n] # <<>>
    /\ Moves(n, received(node[n], Head(net[n]), NextID(n)), [net EXCEPT ![n] = Tail(@)])
    /\ UNCHANGED given

\* wait_rx_ack_sec equals the timeouts of the answers (config.txt), so the ACK
\* timer of an exchange whose answer has just timed out is due as well, and the
\* timer buffer holds it before the next UPDATE timer.
AckDue(n) ==
    \E t \in node[n].timers :
        /\ t.type = "RX_ACK" /\ t.retransmitCounter = 0
        /\ t.retryMess \in {"FIND_SUCCESSOR", "FIND_PREDECESSOR"}
        /\ TimersOf(node[n], {"RX_SUCCESSOR", "RX_PREDECESSOR"}, t.retryMess, t.messageID) = {}

UpdateDue(n) == node[n].updateTimers > 0 /\ ~AckDue(n) /\ (Quiet => InFlight = {})

updateHandled(n) ==
    IF node[n].state = "IDLE" THEN updateExpired(node[n], NextID(n))
                              ELSE [node[n] EXCEPT !.updateTimers = @ - 1]

UpdateTimerExpires(n) ==
    /\ Running(n) /\ UpdateDue(n)
    /\ Moves(n, {updateHandled(n)}, net)
    /\ UNCHANGED given

\* The timeouts (5 and 15 s) are long against the delivery of a message: a timer
\* expires when nothing of its exchange is on its way any more.
TimersDue(n) == {t \in node[n].timers : \A m \in InFlight : m.messageID # t.messageID}

timerHandled(n, t) ==
    IF node[n].state = "IDLE" THEN timerExpired(node[n], t, NextID(n))
                              ELSE timerDropped(node[n], t)

TimerExpires(n) ==
    /\ Running(n)
    /\ Moves(n, {timerHandled(n, t) : t \in TimersDue(n)}, net)
    /\ UNCHANGED given

\* What two handlers queued leaves by the priority of its type.
ByPriority(tx) ==
    FlattenSeq([p \in DOMAIN TxPriority |->
                   Chosen(tx, {k \in DOMAIN tx : tx[k].type = TxPriority[p]})])

\* A message arrives in the instant in which a timer has been handled: it is
\* handled before what the timer has queued leaves the node.
Coincide(n) ==
    /\ Running(n) /\ net[n] # <<>>
    /\ \E s \in (IF UpdateDue(n) THEN {updateHandled(n)} ELSE {})
               \cup {timerHandled(n, t) : t \in TimersDue(n)} :
        /\ ~s.outOfRange
        /\ LET fresh == FreshID(n) \ {t.messageID : t \in s.timers}
           IN  /\ fresh # {}
               /\ Moves(n, {[r EXCEPT !.tx = ByPriority(@)] :
                                r \in received(s, Head(net[n]), Least(fresh))},
                        [net EXCEPT ![n] = Tail(@)])
    /\ UNCHANGED given

Give(n, command) ==
    /\ Running(n) /\ command \in Commands[n]
    /\ given < MaxCommands
    /\ given' = given + 1

HardReset(n) ==
    /\ Give(n, "HARD_RESET") /\ node[n].state # "OFF"
    /\ Moves(n, {hardReset(node[n], NextID(n))}, net)

\* The states a HARD_RESET may find node n in when a message arrives in the same
\* instant.  Commands are served first, and flush drops the message unread; but in an
\* instant in which core() is woken for a timer, it may have handled the message
\* already: then flush drops the answers before they have left, and the timer.
FoundByReset(n) ==
    {node[n]} \cup (IF node[n].updateTimers > 0 \/ TimersDue(n) # {}
                    THEN received(node[n], Head(net[n]), NextID(n)) ELSE {})

ResetDropsArrival(n) ==
    /\ Give(n, "HARD_RESET") /\ node[n].state # "OFF"
    /\ net[n] # <<>>
    /\ Moves(n, {hardReset(s, NextID(n)) : s \in FoundByReset(n)}, [net EXCEPT ![n] = Tail(@)])

Pause(n) ==
    /\ Give(n, "PAUSE") /\ node[n].state = "IDLE"
    /\ Moves(n, {[node[n] EXCEPT !.state = "PAUSED"]}, net)

Next == \E n \in Node :
            \/ Boot(n) \/ Deliver(n) \/ UpdateTimerExpires(n) \/ TimerExpires(n)
            \/ Coincide(n) \/ HardReset(n) \/ ResetDropsArrival(n) \/ Pause(n)

Spec == Init /\ [][Next]_vars

\* The simulator runs every event that is due: nodes are started, messages
\* arrive, and timers expire.
Fairness == \A n \in Node :
    WF_vars(Boot(n)) /\ WF_vars(Deliver(n)) /\ SF_vars(UpdateTimerExpires(n))
        /\ WF_vars(TimerExpires(n))

FairSpec == Spec /\ Fairness

-----------------------------------------------------------------------------
(* Safety. *)

\* Every node is in a node's state, has nothing left to send between two
\* activations, and every queue holds messages for its own node.
TypeOK ==
    /\ node \in [Node -> NodeState]
    /\ net \in [Node -> Seq(Message)]
    /\ given \in 0 .. MaxCommands
    /\ \A n \in Node : node[n].tx = <<>> /\ node[n].id = n
    /\ \A d \in Node : \A m \in Range(net[d]) : m.dest = d

\* The exchanges of the periodic update a node has open, by their last timer.
Exchanges(n) == {t \in node[n].timers :
                    \/ t.type \in {"RX_SUCCESSOR", "RX_PREDECESSOR"}
                    \/ t.type = "RX_ACK" /\ t.retryMess = "NOTIFY"}

\* m_isNowUpdate is a lock: while it is up exactly one exchange of stabilize,
\* notify and fix_finger is open at the node, and while it is down none, however
\* the requests, answers and joins of the other nodes interleave.
OneExchange == \A n \in Node :
    Cardinality(Exchanges(n)) = (IF node[n].isNowUpdate THEN 1 ELSE 0)

\* The answer to a FIND_SUCCESSOR does not say which finger it is for; it is
\* stored under m_cwFingerIndex as that is when it arrives.  The index still is
\* the finger asked for, whatever the node has handled in between.
AnswerFitsFinger == \A n \in Node : \A t \in node[n].timers :
    t.type = "RX_SUCCESSOR" => t.searched = FingerStart(n, node[n].cwFingerIndex)

\* In a network nobody disturbs, no timer for the ACK of a request comes due, nor one
\* for the answer to a stabilize: the request or the answer is still on its way,
\* whatever joins and lookups fall in between, and however often a lookup that goes
\* round passes the same node.  A request passed on too often is dropped without an
\* ACK; the answer to a lookup or a JOIN may fail to come for that reason.
RequestsAnswered ==
    given = 0 => \A n \in Node : \A t \in node[n].timers :
        t.type = "RX_PREDECESSOR" \/ (t.type = "RX_ACK" /\ isAddrValid(t))
            => \E m \in InFlight : m.messageID = t.messageID

\* m_cwFingers is never written beyond its end.
FingerIndexInRange == \A n \in Node : ~node[n].outOfRange

\* The answers to its JOIN on their way to n.
JoinAnswers(n) ==
    {m \in Range(net[n]) :
        m.type = "SUCCESSOR" /\ TimersOf(node[n], {"RX_SUCCESSOR_ON_JOIN"}, "JOIN",
                                         m.messageID) # {}}

\* How far a pointer to m is from n; a node that knows only itself is farthest.
Gap(n, m) == IF m = n THEN IdCount ELSE Dist(n, m)

\* n takes the answer to its fix_finger from its queue.
LookupAnswered(n) ==
    /\ Len(net'[n]) < Len(net[n]) /\ Head(net[n]).type = "SUCCESSOR"
    /\ TimersOf(node[n], {"RX_SUCCESSOR"}, "FIND_SUCCESSOR", Head(net[n]).messageID) # {}

\* Until the first command nothing but the answer to a lookup moves a successor away:
\* not a join, nor an adoption, a stabilize, or a timeout.
OnlyLookupsMoveAway ==
    [][\A n \in Node : \/ given' > 0 \/ LookupAnswered(n)
                       \/ Gap(n, node'[n].successor) <= Gap(n, node[n].successor)]_vars

\* A predecessor is only ever replaced by a closer one, though a NOTIFY and two kinds
\* of join may each replace it.
PredecessorOnlyCloser ==
    [][\A n \in Node : Gap(node'[n].predecessor, n) <= Gap(node[n].predecessor, n)]_vars

\* A node that takes the answer to its JOIN from its queue has the UPDATE timer
\* running afterwards.
JoinAnswerArmsUpdate ==
    [][\A n \in Node : \A m \in JoinAnswers(n) :
           Len(net'[n]) < Len(net[n]) /\ m = Head(net[n]) => node'[n].updateTimers > 0]_vars

-----------------------------------------------------------------------------
(* Liveness. *)

\* A node the application has paused, or of which nothing is claimed any more.
Stopped(n) == node[n].state = "PAUSED" \/ node[n].outOfRange

\* What the periodic update of n is doing.
Phase(n) ==
    IF Stopped(n) THEN "stopped"
    ELSE IF ~node[n].isNowUpdate THEN "none"
    ELSE IF \E t \in node[n].timers : t.type = "RX_PREDECESSOR" THEN "stabilize"
    ELSE IF \E t \in node[n].timers : t.type = "RX_SUCCESSOR" THEN "fix"
    ELSE "notify"

Update == INSTANCE UpdateCycle WITH
    phase <- [n \in Node |-> Phase(n)], disturbed <- given > 0

\* The updates implement UpdateCycle: stabilize, notify and fix of one node
\* never overlap, each comes to an end, also when the node asked has stopped or
\* has been reset before it answered, and while all nodes run neither starves the
\* other, also after a reset.
UpdatesCycle == Update!Spec

\* The ring the pointers should form: the first node at or after an identifier,
\* and the last one before a node.
Owner(id, members) ==
    CHOOSE n \in members : \A m \in members : Dist(id, n) <= Dist(id, m)

Preceding(n, members) ==
    IF members = {n} THEN n
    ELSE CHOOSE p \in members \ {n} : \A m \in members \ {n} : Dist(p, n) <= Dist(m, n)

Ideal(n, members) ==
    /\ node[n].successor = Owner(Plus(n, 1), members)
    /\ node[n].predecessor = Preceding(n, members)
    /\ \A i \in FingerIndex :
           node[n].cwFingers[i] = Owner(FingerStart(n, i), members)

\* Once all nodes have been started, and whatever resets the application asks
\* for, successors, predecessors and fingers become those of the ring of all
\* nodes, and stay so, unless a node is stopped.
Converges == <>[](\A n \in Node : Ideal(n, Node)) \/ <>(\E n \in Node : Stopped(n))

\* A node that locks the update and goes on running unlocks it, also when the
\* node it asked has stopped answering.
LockReleased == \A n \in Node :
    (node[n].isNowUpdate /\ ~Stopped(n)) ~> (~node[n].isNowUpdate \/ Stopped(n))
=============================================================================
