----------------------------- MODULE ChordNode -----------------------------
(***************************************************************************)
(* One node against any environment: the peers may send it any well-formed  *)
(* message at any time, any of its timers may expire at any time, and the   *)
(* application may give it any of the Commands.  The properties of this     *)
(* module therefore hold of a node whatever the rest of the network does.   *)
(*                                                                          *)
(* What is assumed of the peers: a request they originate or pass on does   *)
(* not carry an identifier this node gave to a request of its own.          *)
(***************************************************************************)
EXTENDS LowLatencyChord, FiniteSets

CONSTANTS
    Self,        \* the node
    OwnID,       \* the message identifiers it gives out, the others belong
                 \* to its peers
    Commands,    \* what the application may ask of it
    Hops,        \* the hop counts a FIND_SUCCESSOR may arrive with
    MaxTimers,         \* bound on the timers outstanding
    MaxUpdateTimers,   \* bound: SOFT_RESET leaves its UPDATE timer behind and
                       \* the new JOIN adds one more
    MaxIndex           \* bound on m_cwFingerIndex, which a JOIN increments

Command == {"HARD_RESET", "SOFT_RESET", "FLUSH", "PAUSE", "CONTINUE"}

ASSUME SelfAssumption ==
    /\ Self \in Node
    /\ OwnID \subseteq MessageID
    /\ Commands \subseteq Command
    /\ Hops \subseteq Nat
    /\ \A i \in DOMAIN ConfSeed[Self] : ConfSeed[Self][i] # Self

VARIABLE node     \* the state of Self between two activations of core()

vars == <<node>>

Peer      == Node \ {Self}
ForeignID == MessageID \ OwnID

\* nextUniqueMessageID: an identifier no outstanding request of the node has.
FreshID == {mid \in OwnID : \A t \in node.timers : t.messageID # mid}

\* The next state is s, everything queued having been sent, within the bounds.
Becomes(s) ==
    /\ Cardinality(s.timers) <= MaxTimers
    /\ s.updateTimers <= MaxUpdateTimers
    /\ s.cwFingerIndex <= MaxIndex
    /\ node' = [s EXCEPT !.tx = <<>>]

Running == ~node.outOfRange

-----------------------------------------------------------------------------
Init == node = Off(Self)

\* Only the answer to a stabilize gives rise to a request, with identifier mid.
Receive(m, mid) == Running /\ \E s \in received(node, m, mid) : Becomes(s)

MessageFrom(type, src, initiator, mid, searched, service, hops, join) ==
    [type |-> type, src |-> src, dest |-> Self, initiator |-> initiator,
     messageID |-> mid, searched |-> searched, service |-> service,
     retransmitCounter |-> hops, isJoin |-> join]

ReceiveJoin ==
    \E src \in Peer, mid \in ForeignID :
        Receive(MessageFrom("JOIN", src, src, mid, Plus(src, 1), src, 0, TRUE), mid)

ReceiveFindSuccessor ==
    \E src \in Peer, initiator \in Peer, mid \in ForeignID, searched \in IdSpace,
       hops \in Hops, join \in BOOLEAN :
        Receive(MessageFrom("FIND_SUCCESSOR", src, initiator, mid, searched, src,
                            hops, join), mid)

ReceiveFindPredecessor ==
    \E src \in Peer, mid \in ForeignID :
        Receive(MessageFrom("FIND_PREDECESSOR", src, src, mid, Minus(Self, 1), src, 0, FALSE), mid)

ReceiveNotify ==
    \E src \in Peer, mid \in ForeignID :
        Receive(MessageFrom("NOTIFY", src, src, mid, src, src, 0, FALSE), mid)

ReceiveSuccessor ==
    \E src \in Peer, mid \in MessageID, searched \in Node, service \in Node :
        Receive(MessageFrom("SUCCESSOR", src, src, mid, searched, service, 0, FALSE), mid)

ReceivePredecessor ==
    \E src \in Peer, mid \in MessageID, searched \in Node, notifyID \in FreshID :
        Receive(MessageFrom("PREDECESSOR", src, src, mid, searched, src, 0, FALSE), notifyID)

ReceiveAck ==
    \E src \in Peer, mid \in MessageID :
        Receive(MessageFrom("ACK", src, src, mid, src, src, 0, FALSE), mid)

\* The UPDATE timer is pushed again by the handler, and lost in STATE_OFF.
UpdateTimerExpires ==
    /\ Running /\ node.updateTimers > 0
    /\ \/ /\ node.state = "IDLE"
          /\ \E mid \in FreshID : Becomes(updateExpired(node, mid))
       \/ /\ node.state # "IDLE"
          /\ Becomes([node EXCEPT !.updateTimers = @ - 1])

TimerExpires ==
    /\ Running
    /\ \E t \in node.timers :
        \/ /\ node.state = "IDLE"
           /\ \E mid \in FreshID : Becomes(timerExpired(node, t, mid))
        \/ /\ node.state # "IDLE"
           /\ Becomes(timerDropped(node, t))

\* STATE_OFF obeys HARD_RESET and CONTINUE only.
HardReset ==
    /\ Running /\ "HARD_RESET" \in Commands
    /\ \E mid \in OwnID : Becomes(hardReset(node, mid))

SoftReset ==
    /\ Running /\ "SOFT_RESET" \in Commands /\ node.state = "IDLE"
    /\ \E mid \in FreshID : Becomes(goStateInit(node, mid))

Flush ==
    /\ Running /\ "FLUSH" \in Commands /\ node.state = "IDLE"
    /\ Becomes(flush(node))

Pause ==
    /\ Running /\ "PAUSE" \in Commands /\ node.state = "IDLE"
    /\ Becomes([node EXCEPT !.state = "PAUSED"])

Continue ==
    /\ Running /\ "CONTINUE" \in Commands /\ node.state = "PAUSED"
    /\ Becomes([node EXCEPT !.state = "IDLE"])

Next == \/ ReceiveJoin \/ ReceiveFindSuccessor \/ ReceiveFindPredecessor
        \/ ReceiveNotify \/ ReceiveSuccessor \/ ReceivePredecessor \/ ReceiveAck
        \/ UpdateTimerExpires \/ TimerExpires
        \/ HardReset \/ SoftReset \/ Flush \/ Pause \/ Continue

Spec == Init /\ [][Next]_vars

-----------------------------------------------------------------------------
\* The state is a node's state, with nothing left to send between activations; the
\* seed m_currSeed names is there, though m_currSeed counts the configured seeds and
\* m_seedAddrs may hold a learnt one.
TypeOK ==
    /\ node \in NodeState /\ node.tx = <<>>
    /\ node.updateTimers > 0 \/ node.seedAddrs # <<>> => node.currSeed < Len(node.seedAddrs)

\* A handler that locks the update always leaves something that unlocks it: as
\* long as isNowUpdate is up, an answer is awaited, or the ACK of a NOTIFY, by a
\* timer whose expiry releases the lock.  Otherwise the node would never again
\* stabilize or fix a finger.  (PAUSE discards timers and keeps the lock.)
LockHasTimer ==
    node.isNowUpdate /\ "PAUSE" \notin Commands =>
        \E t \in node.timers :
            \/ t.type \in {"RX_SUCCESSOR", "RX_PREDECESSOR"}
            \/ t.type = "RX_ACK" /\ t.retryMess = "NOTIFY"

\* A node that has a configured seed and runs is never left without a future:
\* it is waiting for the answer to a JOIN or its update timer is running, in
\* every order of answers, timeouts and resets.  (FLUSH and PAUSE take timers
\* away.)
JoiningOrUpdating ==
    /\ node.state = "IDLE" /\ ConfSeed[Self] # <<>>
    /\ Commands \cap {"FLUSH", "PAUSE"} = {}
    => \/ node.updateTimers > 0
       \/ \E t \in node.timers : t.type = "RX_SUCCESSOR_ON_JOIN"

\* The periodic update runs at the configured rate: there is one UPDATE timer at
\* most, though a JOIN, its repetitions and resets may each start one.
OneUpdateTimer == node.updateTimers <= 1

\* m_successor and m_cwFingers[0] hold the same fact twice and are written by
\* different handlers; they agree, but for a finger 0 that a lookup has found to
\* be the node itself, which does not overwrite the successor.
SuccessorIsFinger0 == node.cwFingers[0] \in {node.successor, Self}
=============================================================================
