-------------------------- MODULE ChordNode_proofs --------------------------
(***************************************************************************)
(* A node keeps its state in order, and never leaves its update locked with *)
(* nothing to release it, whatever its peers send, whichever timers expire  *)
(* and in whatever order: for every network, every number of fingers, every *)
(* seed list and every bound of ChordNode.                                  *)
(***************************************************************************)
EXTENDS ChordNode, LowLatencyChord_proofs

\* Between two activations nothing is left to send, and the node is in order.
Ready == Sound(node, OwnID) /\ node.id = Self /\ node.tx = <<>>

\* What makes LockHasTimer inductive: a node that does not look at its timers
\* has no lock to release.
LockKept ==
    "PAUSE" \notin Commands =>
        /\ Watched(node)
        /\ node.state # "PAUSED"
        /\ node.state = "OFF" => ~node.isNowUpdate

IInv == Ready /\ LockKept

\* s may become the node's state: it is in order, and the lock is no worse.
Proper(s) ==
    /\ Sound(s, OwnID) /\ s.id = Self
    /\ "PAUSE" \notin Commands =>
        /\ Watched(s)
        /\ s.state # "PAUSED"
        /\ s.state = "OFF" => ~s.isNowUpdate

\* A state that may become the node's re-establishes the invariant.
LEMMA BecomesProper ==
    ASSUME NEW s, Proper(s), Becomes(s)
    PROVE  IInv'
  <1> DEFINE sent == [s EXCEPT !.tx = <<>>]
  <1>1. node' = sent
      BY DEF Becomes
  <1>2. sent \in NodeState /\ sent.tx = <<>>
    <2>1. <<>> \in Seq(Message)
        OBVIOUS
    <2> QED
        BY <2>1 DEF Proper, Sound, NodeState
  <1>3. SamePlan(sent, s) /\ sent.cwFingers[0] \in {sent.successor, sent.id}
      BY DEF Proper, Sound, NodeState, SamePlan
  <1>4. Follows(sent, s, OwnID)
      BY <1>2, <1>3, SamePlanFollows DEF Proper
  <1> HIDE DEF sent
  <1> QED
      BY <1>1, <1>2, <1>3, <1>4
      DEF IInv, Ready, LockKept, Proper, Follows, Watched, SamePlan

\* A running node may become whatever settles from its state.
LEMMA SettledIsProper ==
    ASSUME IInv, node.state = "IDLE", NEW s, Settles(s, node, OwnID)
    PROVE  Proper(s)
BY DEF IInv, Ready, LockKept, Proper, Settles, Keeps

\* Any node may become whatever follows from its state.
LEMMA FollowerIsProper ==
    ASSUME IInv, NEW s, Follows(s, node, OwnID)
    PROVE  Proper(s)
  <1>1. Settles(s, node, OwnID)
      BY FollowsSettles
  <1> QED
      BY <1>1 DEF IInv, Ready, LockKept, Proper, Settles, Keeps, Follows

\* A message of a peer as the actions of ChordNode make it: a request carries an
\* identifier this node did not give out, an answer carries a node.
PeerMessage(m) ==
    /\ m \in Message
    /\ m.type \in {"JOIN", "FIND_SUCCESSOR"} => m.messageID \notin OwnID
    /\ m.type \in {"NOTIFY", "SUCCESSOR", "PREDECESSOR"} => m.searched \in Node

Reception ==
    \/ ReceiveJoin \/ ReceiveFindSuccessor \/ ReceiveFindPredecessor
    \/ ReceiveNotify \/ ReceiveSuccessor \/ ReceivePredecessor \/ ReceiveAck

\* Whatever is received is such a message: one case per message type.
LEMMA ReceptionIsOfPeer ==
    ASSUME Reception
    PROVE  \E m \in Message, mid \in MessageID : PeerMessage(m) /\ Receive(m, mid)
  <1>1. /\ Peer \subseteq Node /\ ForeignID \subseteq MessageID /\ FreshID \subseteq MessageID
        /\ \A mid \in ForeignID : mid \notin OwnID
        /\ Node \subseteq IdSpace /\ 0 \in Nat /\ Hops \subseteq Nat
      BY SelfAssumption, NodeAssumption DEF Peer, ForeignID, FreshID
  <1>2. 1 \in IdSpace
      BY MaxAssumption DEF IdSpace
  <1>3. CASE ReceiveJoin
    <2>1. PICK src \in Peer, mid \in ForeignID :
              Receive(MessageFrom("JOIN", src, src, mid, Plus(src, 1), src, 0, TRUE), mid)
        BY <1>3 DEF ReceiveJoin
    <2>2. src \in Node /\ mid \in MessageID /\ mid \notin OwnID /\ Plus(src, 1) \in IdSpace
        BY <1>1, <1>2, PlusMinusType
    <2> DEFINE m == MessageFrom("JOIN", src, src, mid, Plus(src, 1), src, 0, TRUE)
    <2>3. m \in Message /\ m.type = "JOIN" /\ m.messageID = mid
        BY <2>2, SelfAssumption DEF MessageFrom, Message, MessageType
    <2> HIDE DEF m
    <2> QED
        BY <2>1, <2>2, <2>3 DEF m, PeerMessage
  <1>4. CASE ReceiveFindSuccessor
    <2>1. PICK src \in Peer, initiator \in Peer, mid \in ForeignID, searched \in IdSpace,
               hops \in Hops, join \in BOOLEAN :
              Receive(MessageFrom("FIND_SUCCESSOR", src, initiator, mid, searched, src,
                                  hops, join), mid)
        BY <1>4 DEF ReceiveFindSuccessor
    <2>2. /\ src \in Node /\ initiator \in Node /\ mid \in MessageID /\ mid \notin OwnID
          /\ hops \in Nat
        BY <1>1
    <2> DEFINE m == MessageFrom("FIND_SUCCESSOR", src, initiator, mid, searched, src, hops, join)
    <2>3. m \in Message /\ m.type = "FIND_SUCCESSOR" /\ m.messageID = mid
        BY <2>2, SelfAssumption DEF MessageFrom, Message, MessageType
    <2> HIDE DEF m
    <2> QED
        BY <2>1, <2>2, <2>3 DEF m, PeerMessage
  <1>5. CASE ReceiveFindPredecessor
    <2>1. PICK src \in Peer, mid \in ForeignID :
              Receive(MessageFrom("FIND_PREDECESSOR", src, src, mid, Minus(Self, 1),
                                  src, 0, FALSE), mid)
        BY <1>5 DEF ReceiveFindPredecessor
    <2>2. /\ src \in Node /\ mid \in MessageID
          /\ Minus(Self, 1) \in IdSpace
        BY <1>1, <1>2, SelfAssumption, PlusMinusType
    <2> DEFINE m == MessageFrom("FIND_PREDECESSOR", src, src, mid, Minus(Self, 1), src, 0, FALSE)
    <2>3. m \in Message /\ m.type = "FIND_PREDECESSOR" /\ m.messageID = mid
        BY <2>2, SelfAssumption DEF MessageFrom, Message, MessageType
    <2> HIDE DEF m
    <2> QED
        BY <2>1, <2>2, <2>3 DEF m, PeerMessage
  <1>6. CASE ReceiveNotify
    <2>1. PICK src \in Peer, mid \in ForeignID :
              Receive(MessageFrom("NOTIFY", src, src, mid, src, src, 0, FALSE), mid)
        BY <1>6 DEF ReceiveNotify
    <2>2. src \in Node /\ src \in IdSpace /\ mid \in MessageID
        BY <1>1
    <2> DEFINE m == MessageFrom("NOTIFY", src, src, mid, src, src, 0, FALSE)
    <2>3. m \in Message /\ m.type = "NOTIFY" /\ m.searched \in Node
        BY <2>2, SelfAssumption DEF MessageFrom, Message, MessageType
    <2> HIDE DEF m
    <2> QED
        BY <2>1, <2>2, <2>3 DEF m, PeerMessage
  <1>7. CASE ReceiveSuccessor
    <2>1. PICK src \in Peer, mid \in MessageID, searched \in Node, service \in Node :
              Receive(MessageFrom("SUCCESSOR", src, src, mid, searched, service, 0, FALSE), mid)
        BY <1>7 DEF ReceiveSuccessor
    <2>2. src \in Node /\ searched \in IdSpace
        BY <1>1
    <2> DEFINE m == MessageFrom("SUCCESSOR", src, src, mid, searched, service, 0, FALSE)
    <2>3. m \in Message /\ m.type = "SUCCESSOR" /\ m.searched \in Node
        BY <2>2, SelfAssumption DEF MessageFrom, Message, MessageType
    <2> HIDE DEF m
    <2> QED
        BY <2>1, <2>2, <2>3 DEF m, PeerMessage
  <1>8. CASE ReceivePredecessor
    <2>1. PICK src \in Peer, mid \in MessageID, searched \in Node, notifyID \in FreshID :
              Receive(MessageFrom("PREDECESSOR", src, src, mid, searched, src, 0, FALSE),
                      notifyID)
        BY <1>8 DEF ReceivePredecessor
    <2>2. src \in Node /\ searched \in IdSpace /\ notifyID \in MessageID
        BY <1>1
    <2> DEFINE m == MessageFrom("PREDECESSOR", src, src, mid, searched, src, 0, FALSE)
    <2>3. m \in Message /\ m.type = "PREDECESSOR" /\ m.searched \in Node
        BY <2>2, SelfAssumption DEF MessageFrom, Message, MessageType
    <2> HIDE DEF m
    <2> QED
        BY <2>1, <2>2, <2>3 DEF m, PeerMessage
  <1>9. CASE ReceiveAck
    <2>1. PICK src \in Peer, mid \in MessageID :
              Receive(MessageFrom("ACK", src, src, mid, src, src, 0, FALSE), mid)
        BY <1>9 DEF ReceiveAck
    <2>2. src \in Node /\ src \in IdSpace
        BY <1>1
    <2> DEFINE m == MessageFrom("ACK", src, src, mid, src, src, 0, FALSE)
    <2>3. m \in Message /\ m.type = "ACK"
        BY <2>2, SelfAssumption DEF MessageFrom, Message, MessageType
    <2> HIDE DEF m
    <2> QED
        BY <2>1, <2>2, <2>3 DEF m, PeerMessage
  <1> QED
      BY <1>3, <1>4, <1>5, <1>6, <1>7, <1>8, <1>9 DEF Reception

\* Every message keeps it, whoever sent it.
LEMMA ReceiveKeepsIInv ==
    ASSUME IInv, NEW m \in Message, NEW mid \in MessageID,
           PeerMessage(m), Receive(m, mid)
    PROVE  IInv'
  <1>1. PICK s \in received(node, m, mid) : Becomes(s)
      BY DEF Receive
  <1>2. Sound(node, OwnID) /\ OwnID \in SUBSET MessageID
      BY SelfAssumption DEF IInv, Ready
  <1>3. Proper(s)
    <2>1. CASE node.state = "IDLE"
      <3>1. Settles(s, node, OwnID)
          BY <1>2, ReceivedSettles DEF PeerMessage
      <3> QED
          BY <2>1, <3>1, SettledIsProper
    <2>2. CASE node.state # "IDLE"
      <3>1. s = node
          BY <2>2 DEF received
      <3> QED
          BY <1>2, <3>1, FollowsItself, FollowerIsProper
    <2> QED
        BY <2>1, <2>2
  <1> QED
      BY <1>1, <1>3, BecomesProper

\* A constructed node is in order.
LEMMA InitIInv == Init => IInv
  <1> SUFFICES ASSUME Init PROVE IInv
      OBVIOUS
  <1>1. Self \in Node /\ ConfSeed[Self] \in Seq(Node)
      BY SelfAssumption, SeedAssumption
  <1>2. Off(Self) \in NodeState
    <2>1. /\ [i \in FingerIndex |-> Self] \in [FingerIndex -> Node]
          /\ {} \in SUBSET FingerIndex /\ {} \in SUBSET Timer /\ <<>> \in Seq(Message)
        BY <1>1
    <2> QED
        BY <1>1, <2>1 DEF Off, NodeState
  <1>3. /\ node.id = Self /\ node.seedAddrs = ConfSeed[Self] /\ node.currSeed = 0
        /\ node.updateTimers = 0 /\ node.timers = {} /\ node.tx = <<>>
        /\ node.isNowUpdate = FALSE /\ node.state = "OFF"
        /\ node.cwFingers[0] = node.id
      BY FingerZero DEF Init, Off
  <1>4. SeedsInOrder(node)
    <2>1. ConfSeed[Self] # <<>> => 0 < Len(ConfSeed[Self])
        BY <1>1
    <2> QED
        BY <1>3, <2>1 DEF SeedsInOrder
  <1> QED
      BY <1>2, <1>3, <1>4 DEF Init, IInv, Ready, LockKept, Sound, TimersInOrder, Watched

\* Every message, timer and command leaves it in order: one case per action.
LEMMA NextIInv == IInv /\ [Next]_vars => IInv'
  <1> SUFFICES ASSUME IInv, [Next]_vars PROVE IInv'
      OBVIOUS
  <1>1. Sound(node, OwnID) /\ OwnID \in SUBSET MessageID /\ FreshID \subseteq OwnID
      BY SelfAssumption DEF IInv, Ready, FreshID
  <1>2. CASE Reception
      BY <1>2, ReceptionIsOfPeer, ReceiveKeepsIInv
  <1>3. CASE UpdateTimerExpires
    <2>1. CASE node.state = "IDLE"
      <3>1. PICK mid \in FreshID : Becomes(updateExpired(node, mid))
          BY <1>3, <2>1 DEF UpdateTimerExpires
      <3>2. Settles(updateExpired(node, mid), node, OwnID)
          BY <1>1, <1>3, UpdateExpiredSettles DEF UpdateTimerExpires
      <3> QED
          BY <2>1, <3>1, <3>2, SettledIsProper, BecomesProper
    <2>2. CASE node.state # "IDLE"
      <3> DEFINE s == [node EXCEPT !.updateTimers = @ - 1]
      <3>1. Becomes(s)
          BY <1>3, <2>2 DEF UpdateTimerExpires
      <3>2. Follows(s, node, OwnID)
        <4>1. node.updateTimers - 1 \in Nat
            BY <1>1, <1>3 DEF UpdateTimerExpires, Sound, NodeState
        <4>2. s \in NodeState
            BY <1>1, <4>1 DEF Sound, NodeState
        <4>3. SeedsInOrder(s) /\ TimersInOrder(s, OwnID)
            BY <1>1, <1>3 DEF UpdateTimerExpires, Sound, NodeState, SeedsInOrder, TimersInOrder
        <4> QED
            BY <1>1, <4>2, <4>3 DEF Sound, NodeState, Follows
      <3> QED
          BY <3>1, <3>2, FollowerIsProper, BecomesProper
    <2> QED
        BY <2>1, <2>2
  <1>4. CASE TimerExpires
    <2>1. CASE node.state = "IDLE"
      <3>1. PICK t \in node.timers, mid \in FreshID : Becomes(timerExpired(node, t, mid))
          BY <1>4, <2>1 DEF TimerExpires
      <3>2. Settles(timerExpired(node, t, mid), node, OwnID)
          BY <1>1, TimerExpiredSettles
      <3> QED
          BY <2>1, <3>1, <3>2, SettledIsProper, BecomesProper
    <2>2. CASE node.state # "IDLE"
      <3>1. PICK t \in node.timers : Becomes(timerDropped(node, t))
          BY <1>4, <2>2 DEF TimerExpires
      <3>2. /\ Keeps(timerDropped(node, t), node, OwnID)
            /\ timerDropped(node, t).isNowUpdate = node.isNowUpdate
            /\ timerDropped(node, t).state = node.state
          BY <1>1, TimerDroppedFollows DEF timerDropped, Sound, NodeState
      <3>3. "PAUSE" \notin Commands => ~node.isNowUpdate
        <4>1. node.state \in {"OFF", "PAUSED"}
            BY <1>1, <2>2 DEF Sound, NodeState
        <4> QED
            BY <4>1 DEF IInv, LockKept
      <3>4. Proper(timerDropped(node, t))
          BY <3>2, <3>3 DEF Proper, Keeps, Watched, IInv, Ready, LockKept
      <3> QED
          BY <3>1, <3>4, BecomesProper
    <2> QED
        BY <2>1, <2>2
  <1>5. CASE HardReset
    <2>1. PICK mid \in OwnID : Becomes(hardReset(node, mid))
        BY <1>5 DEF HardReset
    <2> QED
        BY <1>1, <2>1, HardResetFollows, FollowerIsProper, BecomesProper
  <1>6. CASE SoftReset
    <2>1. PICK mid \in FreshID : Becomes(goStateInit(node, mid))
        BY <1>6 DEF SoftReset
    <2> QED
        BY <1>1, <2>1, GoStateInitFollows, FollowerIsProper, BecomesProper
  <1>7. CASE Flush
      BY <1>1, <1>7, FlushFollows, FollowerIsProper, BecomesProper DEF Flush
  <1>8. CASE Pause
    <2> DEFINE s == [node EXCEPT !.state = "PAUSED"]
    <2>1. Becomes(s) /\ "PAUSE" \in Commands
        BY <1>8 DEF Pause
    <2>2. s \in NodeState
        BY <1>1 DEF Sound, NodeState
    <2>3. Sound(s, OwnID) /\ s.id = Self
        BY <1>1, <2>2 DEF Sound, NodeState, SeedsInOrder, TimersInOrder, IInv, Ready
    <2>4. Proper(s)
        BY <2>1, <2>3 DEF Proper
    <2> HIDE DEF s
    <2> QED
        BY <2>1, <2>4, BecomesProper
  <1>9. CASE Continue
    <2> DEFINE s == [node EXCEPT !.state = "IDLE"]
    <2>1. Becomes(s)
        BY <1>9 DEF Continue
    <2>2. s \in NodeState
        BY <1>1 DEF Sound, NodeState
    <2>3. Follows(s, node, OwnID)
        BY <1>1, <2>2 DEF Sound, NodeState, SeedsInOrder, TimersInOrder, Follows
    <2> HIDE DEF s
    <2> QED
        BY <2>1, <2>3, FollowerIsProper, BecomesProper
  <1>10. CASE UNCHANGED vars
    <2>1. node' = node
        BY <1>10 DEF vars
    <2> QED
        BY <2>1 DEF IInv, Ready, LockKept, Watched
  <1> QED
      BY <1>2, <1>3, <1>4, <1>5, <1>6, <1>7, <1>8, <1>9, <1>10 DEF Next, Reception

\* The inductive invariant holds of every reachable state.
LEMMA Invariance == Spec => []IInv
BY InitIInv, NextIInv, PTL DEF Spec

\* The state of a node stays a node's state, with an empty outbox between
\* activations: no handler stores a value that is not a node, no seed and no
\* finger is read beyond the end of its list, and no message is malformed,
\* whatever the peers send.
THEOREM NodeTypeCorrect == Spec => []TypeOK
  <1>1. IInv => TypeOK
      BY DEF IInv, Ready, Sound, SeedsInOrder, NodeState, TypeOK
  <1> QED
      BY <1>1, Invariance, PTL

\* The successor is kept twice, as m_successor and as finger 0, and six methods
\* write one or both; they never disagree about another node, whatever order
\* joins, stabilizations, lookups, timeouts and resets come in.
THEOREM SuccessorAlwaysFinger0 == Spec => []SuccessorIsFinger0
  <1>1. IInv => SuccessorIsFinger0
      BY DEF IInv, Ready, Sound, SuccessorIsFinger0
  <1> QED
      BY <1>1, Invariance, PTL

\* As long as no PAUSE discards its timers, a node whose update is locked waits
\* for an answer with a timer whose expiry unlocks it: no order of answers,
\* joins, timeouts, resets and flushes leaves the lock up for good.
THEOREM LockAlwaysHasTimer == Spec => []LockHasTimer
  <1>1. IInv => LockHasTimer
      BY DEF IInv, LockKept, Watched, Awaits, LockHasTimer
  <1> QED
      BY <1>1, Invariance, PTL
-----------------------------------------------------------------------------
(* The UPDATE timer of a node: a node that runs is never left without it, or   *)
(* without a JOIN that will start it, and never gets a second one.  Each       *)
(* handler is shown to keep both plans; the actions of ChordNode follow.       *)

Joins(s) == \E t \in s.timers : t.type = "RX_SUCCESSOR_ON_JOIN"

\* A running node with a configured seed updates, or joins and will update.
HasFuture(s) ==
    s.state = "IDLE" /\ ConfSeed[s.id] # <<>> => s.updateTimers > 0 \/ Joins(s)

\* There is one UPDATE timer at most.  What makes that inductive: only a node
\* without a successor lets the answer to a JOIN start one.
HasOneUpdate(s) ==
    /\ s.updateTimers <= 1
    /\ s.updateTimers > 0 /\ ConfSeed[s.id] # <<>> => s.isSuccessorSet

\* r has the UPDATE timers and the JOIN of s, and a successor if s has.
Quiet(r, s) ==
    /\ r.id = s.id /\ r.state = s.state /\ r.updateTimers = s.updateTimers
    /\ s.isSuccessorSet => r.isSuccessorSet
    /\ \A t \in s.timers : t.type = "RX_SUCCESSOR_ON_JOIN" => t \in r.timers

\* r is as good a state as s for both plans.
KeepsPlans(r, s) ==
    /\ HasFuture(s) => HasFuture(r)
    /\ HasOneUpdate(s) => HasOneUpdate(r)

\* A quiet handler keeps both plans.
LEMMA QuietKeepsPlans ==
    ASSUME NEW r, NEW s, Quiet(r, s)
    PROVE  KeepsPlans(r, s)
BY DEF Quiet, KeepsPlans, HasFuture, HasOneUpdate, Joins

LEMMA QuietIsTransitive ==
    ASSUME NEW q, NEW r, NEW s, Quiet(q, r), Quiet(r, s)
    PROVE  Quiet(q, s)
BY DEF Quiet

\* The handlers that touch neither the UPDATE timers nor a JOIN of the node.
LEMMA QuietMethods ==
    ASSUME NEW s \in NodeState, NEW m, NEW addr, NEW mid
    PROVE  /\ Quiet(sendMessage(s, m), s)
           /\ Quiet(setPredecessor(s, addr), s)
           /\ Quiet(setNextFingerToUpdate(s), s)
           /\ Quiet(setSuccessorStabilize(s, addr, mid), s)
           /\ Quiet(setFingerRemoveTimers(s, addr, mid), s)
           /\ Quiet(unlocked(s), s)
           /\ Quiet(issueNotify(s, mid), s)
           /\ Quiet(issueFindPredecessor(s, mid), s)
           /\ Quiet(issueFindSuccessor(s, mid), s)
           /\ Quiet(forwardFindSuccessor(s, m, addr), s)
           /\ Quiet(rxFindPredecessor(s, m), s)
           /\ Quiet(rxNotify(s, m), s)
  <1>1. Quiet(sendMessage(s, m), s)
      BY DEF Quiet, NodeState, sendMessage
  <1>2. Quiet(setPredecessor(s, addr), s)
      BY DEF Quiet, NodeState, setPredecessor
  <1>3. Quiet(setNextFingerToUpdate(s), s)
      BY DEF Quiet, NodeState, setNextFingerToUpdate
  <1>4. Quiet(setSuccessorStabilize(s, addr, mid), s)
      BY DEF Quiet, NodeState, setSuccessorStabilize, removeTimers, TimersOf
  <1>5. Quiet(setFingerRemoveTimers(s, addr, mid), s)
      BY DEF Quiet, NodeState, setFingerRemoveTimers, removeTimers, TimersOf
  <1>6. Quiet(unlocked(s), s)
      BY DEF Quiet, NodeState, unlocked
  <1>7. Quiet(issueNotify(s, mid), s)
      BY DEF Quiet, NodeState, issueNotify, pushTimers, sendMessage
  <1>8. Quiet(issueFindPredecessor(s, mid), s)
      BY DEF Quiet, NodeState, issueFindPredecessor, pushTimers, sendMessage
  <1>9. Quiet(issueFindSuccessor(s, mid), s)
      BY DEF Quiet, NodeState, issueFindSuccessor, pushTimers, sendMessage
  <1>10. Quiet(forwardFindSuccessor(s, m, addr), s)
      BY DEF Quiet, NodeState, forwardFindSuccessor, pushTimers, sendMessage
  <1>11. Quiet(rxFindPredecessor(s, m), s)
      BY DEF Quiet, NodeState, rxFindPredecessor, sendMessage
  <1>12. Quiet(rxNotify(s, m), s)
      BY DEF Quiet, NodeState, rxNotify, setPredecessor, sendMessage
  <1> QED
      BY <1>1, <1>2, <1>3, <1>4, <1>5, <1>6, <1>7, <1>8, <1>9, <1>10, <1>11, <1>12

\* A node in a state of order is a node's state.
LEMMA SoundIsNodeState ==
    ASSUME NEW I, NEW s, Sound(s, I)
    PROVE  s \in NodeState
BY DEF Sound

-----------------------------------------------------------------------------
(* Resets. *)

\* A JOIN is waited for until its answer.
LEMMA IssueJoinJoins ==
    ASSUME NEW s \in NodeState, NEW n, NEW mid
    PROVE  LET r == issueJoin(s, n, mid)
           IN  Joins(r) /\ Quiet(r, s)
  <1> DEFINE r == issueJoin(s, n, mid)
  <1>1. Quiet(r, s)
      BY DEF NodeState, issueJoin, pushTimers, sendMessage, Quiet
  <1>2. PICK join : TimerFor("RX_SUCCESSOR_ON_JOIN", join, n) \in r.timers
      BY DEF NodeState, issueJoin, pushTimers, sendMessage
  <1> HIDE DEF r
  <1> QED
      BY <1>1, <1>2 DEF Joins, TimerFor, r

\* After softReset a JOIN is out, if there is a seed to send it to; the UPDATE
\* timers are those of before.
LEMMA GoStateInitPlans ==
    ASSUME NEW s \in NodeState, softReset(s) \in NodeState, NEW mid
    PROVE  LET r == goStateInit(s, mid)
           IN  HasFuture(r) /\ r.id = s.id /\ r.updateTimers = s.updateTimers
  <1>1. softReset(s).id = s.id /\ softReset(s).updateTimers = s.updateTimers
      BY DEF NodeState, softReset
  <1>2. /\ Joins(issueJoin(softReset(s), 0, mid))
        /\ Quiet(issueJoin(softReset(s), 0, mid), softReset(s))
      BY IssueJoinJoins
  <1> QED
      BY <1>1, <1>2 DEF goStateInit, HasFuture, Quiet

\* A hard reset keeps both plans, whatever the node did before.
LEMMA HardResetPlans ==
    ASSUME NEW I \in SUBSET MessageID, NEW s, Sound(s, I), NEW mid \in I
    PROVE  HasFuture(hardReset(s, mid)) /\ HasOneUpdate(hardReset(s, mid))
  <1> DEFINE clean == flush(s)
  <1>1. Sound(clean, I)
      BY FlushFollows DEF Follows
  <1>2. clean.updateTimers = 0
      BY DEF flush, Sound, NodeState
  <1> HIDE DEF clean
  <1>3. clean \in NodeState /\ softReset(clean) \in NodeState
      BY <1>1, SoftResetFollows, SoundIsNodeState DEF Follows
  <1>4. /\ HasFuture(goStateInit(clean, mid))
        /\ goStateInit(clean, mid).updateTimers = 0
      BY <1>2, <1>3, GoStateInitPlans
  <1> QED
      BY <1>4 DEF hardReset, clean, HasOneUpdate

\* A finger copied from another leaves the timers alone, unless it resets.
LEMMA SetCopyPreviousAliveFingerPlans ==
    ASSUME NEW I \in SUBSET MessageID, NEW s, Sound(s, I), NEW mid \in I
    PROVE  KeepsPlans(setCopyPreviousAliveFinger(s, mid), s)
  <1>1. KeepsPlans(hardReset(s, mid), s)
      BY HardResetPlans DEF KeepsPlans
  <1> DEFINE r == setCopyPreviousAliveFinger(s, mid)
  <1>2. r = hardReset(s, mid) \/ Quiet(r, s)
      BY DEF Sound, NodeState, setCopyPreviousAliveFinger, Quiet
  <1> HIDE DEF r
  <1> QED
      BY <1>1, <1>2, QuietKeepsPlans DEF r

-----------------------------------------------------------------------------
(* The handlers that start an UPDATE timer or end a JOIN. *)

\* Only a node that has no seed, and so no UPDATE timer, learns one.
LEMMA LearnSeedPlans ==
    ASSUME NEW I, NEW s, Sound(s, I), NEW m
    PROVE  KeepsPlans(learnSeed(s, m), s)
  <1>1. CASE s.seedAddrs # <<>> \/ m.type # "JOIN"
      BY <1>1 DEF learnSeed, KeepsPlans
  <1>2. CASE s.seedAddrs = <<>> /\ m.type = "JOIN"
    <2>1. ConfSeed[s.id] = <<>> /\ s.updateTimers = 0
        BY <1>2 DEF Sound, NodeState, SeedsInOrder
    <2>2. learnSeed(s, m).id = s.id /\ learnSeed(s, m).updateTimers = 1
        BY <1>2, <2>1 DEF Sound, NodeState, learnSeed, pushUpdateTimer
    <2> QED
        BY <2>1, <2>2 DEF KeepsPlans, HasFuture, HasOneUpdate
  <1> QED
      BY <1>1, <1>2

\* Answering a request leaves the node's own JOIN alone, newcomer taken in or
\* not: its identifier is not the newcomer's.
LEMMA ReplyQuiet ==
    ASSUME NEW I, NEW s, Sound(s, I), NEW m, m.messageID \notin I, NEW addr
    PROVE  Quiet(replyFindSuccessor(s, m, addr), s)
  <1>1. \A t \in s.timers : t.type = "RX_SUCCESSOR_ON_JOIN" => t.messageID # m.messageID
      BY DEF Sound, TimersInOrder
  <1> QED
      BY <1>1
      DEF Sound, NodeState, replyFindSuccessor, sendMessage, adoptJoiner, setPredecessor,
          setSuccessorRemoveTimers, removeTimers, TimersOf, Quiet

\* A request of a peer keeps both plans.
LEMMA RxFindSuccessorPlans ==
    ASSUME NEW I, NEW s, Sound(s, I), NEW m \in Message, m.messageID \notin I
    PROVE  KeepsPlans(rxFindSuccessor(s, m), s)
  <1> DEFINE learnt == learnSeed(s, m)
             acked  == sendMessage(learnt, createAckMessage(learnt, m))
  <1>1. Sound(learnt, I) /\ KeepsPlans(learnt, s)
      BY LearnSeedFollows, LearnSeedPlans DEF Follows
  <1>2. PICK addr : rxFindSuccessor(s, m) \in {replyFindSuccessor(acked, m, addr),
                                               forwardFindSuccessor(acked, m, addr)}
      BY DEF rxFindSuccessor
  <1> HIDE DEF learnt
  <1>3. Sound(acked, I) /\ Quiet(acked, learnt)
      BY <1>1, AckFollows, QuietMethods, SoundIsNodeState DEF Follows
  <1> HIDE DEF acked
  <1>4. /\ Quiet(replyFindSuccessor(acked, m, addr), acked)
        /\ Quiet(forwardFindSuccessor(acked, m, addr), acked)
      BY <1>3, ReplyQuiet, QuietMethods, SoundIsNodeState
  <1> QED
      BY <1>1, <1>2, <1>3, <1>4, QuietKeepsPlans, QuietIsTransitive DEF KeepsPlans

\* The first answer to a JOIN starts the UPDATE timer of a node that has none;
\* later ones are dropped.
LEMMA RxSuccessorPlans ==
    ASSUME NEW I, NEW s, Sound(s, I), NEW m
    PROVE  KeepsPlans(rxSuccessor(s, m), s)
  <1> DEFINE r == joinAnswered(s, m)
             waits == TimersOf(s, {"RX_SUCCESSOR_ON_JOIN"}, "JOIN", m.messageID)
  <1>1. ASSUME waits # {}, ~s.isSuccessorSet PROVE KeepsPlans(r, s)
    <2>1. ConfSeed[s.id] # <<>>
        BY <1>1 DEF Sound, TimersInOrder, TimersOf
    <2>2. s.updateTimers \in Nat
        BY DEF Sound, NodeState
    <2>3. r.id = s.id /\ r.updateTimers = s.updateTimers + 1 /\ r.isSuccessorSet
        BY DEF Sound, NodeState, joinAnswered, setPredecessor, setSuccessorRemoveTimers,
               removeTimers, setNextFingerToUpdate, pushUpdateTimer
    <2> HIDE DEF r
    <2> QED
        BY <1>1, <2>1, <2>2, <2>3 DEF KeepsPlans, HasFuture, HasOneUpdate
  <1>2. Quiet(fingerAnswered(s, m), s)
      BY DEF Sound, NodeState, fingerAnswered, setFingerRemoveTimers, removeTimers,
             TimersOf, Quiet
  <1> QED
      BY <1>1, <1>2, QuietKeepsPlans DEF rxSuccessor, KeepsPlans

\* The answer to a stabilize, which a NOTIFY follows.
LEMMA RxPredecessorQuiet ==
    ASSUME NEW I, NEW s, Sound(s, I), NEW m \in Message, m.searched \in Node, NEW mid
    PROVE  Quiet(rxPredecessor(s, m, mid), s)
  <1> DEFINE set  == setSuccessorStabilize(s, m.searched, m.messageID)
             next == setNextFingerToUpdate(set)
  <1>1. Sound(set, I) /\ Quiet(set, s)
      BY SetSuccessorStabilizeKeeps, QuietMethods, SoundIsNodeState DEF Keeps
  <1>2. rxPredecessor(s, m, mid) \in {s, issueNotify(next, mid)}
      BY DEF rxPredecessor
  <1> HIDE DEF set
  <1>3. Sound(next, I) /\ Quiet(next, set)
      BY <1>1, SetNextFingerToUpdateFollows, QuietMethods, SoundIsNodeState DEF Follows
  <1> HIDE DEF next
  <1>4. Quiet(issueNotify(next, mid), next) /\ Quiet(s, s)
      BY <1>3, QuietMethods, SoundIsNodeState DEF Quiet
  <1> QED
      BY <1>1, <1>2, <1>3, <1>4, QuietIsTransitive

\* An ACK.
LEMMA RxAckQuiet ==
    ASSUME NEW I, NEW s, Sound(s, I), NEW t, t.type = "RX_ACK"
    PROVE  Quiet(rxAck(s, t), s)
BY DEF Sound, NodeState, rxAck, Quiet

\* Every received message keeps both plans.
LEMMA ReceivedPlans ==
    ASSUME NEW I \in SUBSET MessageID, NEW s, Sound(s, I), NEW m \in Message, NEW mid,
           m.type \in {"JOIN", "FIND_SUCCESSOR"} => m.messageID \notin I,
           m.type = "PREDECESSOR" => m.searched \in Node,
           NEW r \in received(s, m, mid)
    PROVE  KeepsPlans(r, s)
  <1>1. m.type \in {"JOIN", "FIND_SUCCESSOR"} => KeepsPlans(rxFindSuccessor(s, m), s)
      BY RxFindSuccessorPlans
  <1>2. KeepsPlans(rxFindPredecessor(s, m), s) /\ KeepsPlans(rxNotify(s, m), s)
      BY QuietMethods, QuietKeepsPlans, SoundIsNodeState
  <1>3. KeepsPlans(rxSuccessor(s, m), s)
      BY RxSuccessorPlans
  <1>4. m.type = "PREDECESSOR" => KeepsPlans(rxPredecessor(s, m, mid), s)
      BY RxPredecessorQuiet, QuietKeepsPlans
  <1>5. \A t \in ackTimers(s, m) : KeepsPlans(rxAck(s, t), s)
      BY RxAckQuiet, QuietKeepsPlans DEF ackTimers
  <1>6. KeepsPlans(s, s)
      BY DEF KeepsPlans
  <1> QED
      BY <1>1, <1>2, <1>3, <1>4, <1>5, <1>6 DEF received

-----------------------------------------------------------------------------
(* Expired timers. *)

\* The UPDATE timer itself was pushed again.
LEMMA UpdateExpiredQuiet ==
    ASSUME NEW I, NEW s, Sound(s, I), NEW mid
    PROVE  Quiet(updateExpired(s, mid), s)
BY DEF Sound, NodeState, updateExpired, setNextFingerToUpdate, issueFindPredecessor,
       issueFindSuccessor, pushTimers, sendMessage, Quiet

\* A JOIN that timed out is out again.
LEMMA JoinExpiredPlans ==
    ASSUME NEW I, NEW s, Sound(s, I), NEW t, NEW mid
    PROVE  LET r == joinExpired(s, t, mid)
           IN  /\ Joins(r) /\ r.id = s.id /\ r.updateTimers = s.updateTimers
               /\ s.isSuccessorSet => r.isSuccessorSet
  <1> DEFINE rest == removeTimers(s, {"RX_ACK", "RX_SUCCESSOR_ON_JOIN"}, "JOIN", t.messageID)
  <1>1. /\ rest.id = s.id /\ rest.updateTimers = s.updateTimers
        /\ s.isSuccessorSet => rest.isSuccessorSet
      BY DEF Sound, NodeState, removeTimers
  <1>2. rest \in NodeState
      BY RemoveTimersSound, SoundIsNodeState
  <1> HIDE DEF rest
  <1> QED
      BY <1>1, <1>2, IssueJoinJoins DEF joinExpired, rest, Quiet

\* A timer that expired, whichever it was.
LEMMA TimerExpiredPlans ==
    ASSUME NEW I \in SUBSET MessageID, NEW s, Sound(s, I), NEW t \in s.timers, NEW mid \in I
    PROVE  KeepsPlans(timerExpired(s, t, mid), s)
  <1> DEFINE rest == timerDropped(s, t)
             own  == removeTimers(rest, {"RX_SUCCESSOR"}, "FIND_SUCCESSOR", t.messageID)
             pred == removeTimers(rest, {"RX_PREDECESSOR"}, "FIND_PREDECESSOR", t.messageID)
             free == [unlocked(rest) EXCEPT !.isNowStabilize = FALSE]
  <1>1. t \in Timer
      BY DEF Sound, NodeState
  <1>2. /\ Sound(rest, I) /\ rest.id = s.id /\ rest.updateTimers = s.updateTimers
        /\ rest.isSuccessorSet = s.isSuccessorSet
      BY TimerDroppedFollows DEF Keeps, timerDropped, Sound, NodeState
  <1>3. t.type # "RX_SUCCESSOR_ON_JOIN" => Quiet(rest, s)
      BY DEF Quiet, timerDropped, Sound, NodeState
  <1>4. timerExpired(s, t, mid) =
            IF t.type = "RX_ACK" THEN ackExpired(rest, t, mid)
            ELSE IF t.type = "RX_SUCCESSOR_ON_JOIN" THEN joinExpired(rest, t, mid)
            ELSE IF t.type = "RX_SUCCESSOR" THEN free
            ELSE setCopyPreviousAliveFinger(unlocked(rest), mid)
      BY DEF timerExpired, timerDropped
  <1> HIDE DEF rest
  <1>5. KeepsPlans(joinExpired(rest, t, mid), s)
    <2>1. /\ Joins(joinExpired(rest, t, mid)) /\ joinExpired(rest, t, mid).id = s.id
          /\ joinExpired(rest, t, mid).updateTimers = s.updateTimers
          /\ s.isSuccessorSet => joinExpired(rest, t, mid).isSuccessorSet
        BY <1>2, JoinExpiredPlans
    <2> QED
        BY <2>1 DEF KeepsPlans, HasFuture, HasOneUpdate
  <1>6. /\ Quiet(unlocked(rest), rest) /\ Quiet(free, rest)
        /\ Quiet(unlocked(own), rest) /\ Quiet(unlocked(pred), rest)
        /\ Quiet(forwardNoAck(rest, t), rest)
      BY <1>2 DEF Quiet, Sound, NodeState, unlocked, forwardNoAck, removeTimers, TimersOf
  <1>7. Sound(unlocked(rest), I) /\ Sound(unlocked(own), I)
      BY <1>2, RemoveTimersSound, UnlockedFollows DEF Follows
  <1> DEFINE copied1 == setCopyPreviousAliveFinger(unlocked(rest), mid)
             copied2 == setCopyPreviousAliveFinger(unlocked(own), mid)
  <1>8. KeepsPlans(copied1, unlocked(rest)) /\ KeepsPlans(copied2, unlocked(own))
      BY <1>7, SetCopyPreviousAliveFingerPlans
  <1>9. findSuccessorNoAck(rest, t, mid) = copied2
      BY DEF findSuccessorNoAck
  <1> HIDE DEF own, pred, free, copied1, copied2
  <1>10. ASSUME t.type # "RX_SUCCESSOR_ON_JOIN"
         PROVE  /\ KeepsPlans(copied1, s) /\ KeepsPlans(copied2, s) /\ KeepsPlans(free, s)
                /\ KeepsPlans(forwardNoAck(rest, t), s) /\ KeepsPlans(unlocked(rest), s)
                /\ KeepsPlans(unlocked(pred), s)
    <2>1. /\ Quiet(unlocked(rest), s) /\ Quiet(free, s) /\ Quiet(unlocked(own), s)
          /\ Quiet(unlocked(pred), s) /\ Quiet(forwardNoAck(rest, t), s)
        BY <1>3, <1>6, <1>10, QuietIsTransitive
    <2>2. KeepsPlans(unlocked(rest), s) /\ KeepsPlans(unlocked(own), s)
        BY <2>1, QuietKeepsPlans
    <2>3. KeepsPlans(copied1, s) /\ KeepsPlans(copied2, s)
        BY <1>8, <2>2 DEF KeepsPlans
    <2> QED
        BY <2>1, <2>3, QuietKeepsPlans
  <1>11. t.type = "RX_ACK" => KeepsPlans(ackExpired(rest, t, mid), s)
      BY <1>5, <1>9, <1>10 DEF ackExpired, pred
  <1> QED
      BY <1>4, <1>5, <1>10, <1>11 DEF copied1

-----------------------------------------------------------------------------
(* The node between two activations. *)

\* The plans the commands leave standing: FLUSH and PAUSE take timers away, and
\* SOFT_RESET starts over with the UPDATE timer still running.
Plans ==
    /\ Commands \cap {"FLUSH", "PAUSE"} = {} => HasFuture(node)
    /\ "SOFT_RESET" \notin Commands => HasOneUpdate(node)

\* Sending what is queued changes neither.
LEMMA BecomesPlans ==
    ASSUME IInv', NEW s, Becomes(s)
    PROVE  KeepsPlans(node', s)
  <1>1. node' = [s EXCEPT !.tx = <<>>] /\ node' \in NodeState
      BY DEF Becomes, IInv, Ready, Sound
  <1>2. /\ node'.id = s.id /\ node'.state = s.state /\ node'.timers = s.timers
        /\ node'.updateTimers = s.updateTimers /\ node'.isSuccessorSet = s.isSuccessorSet
      BY <1>1 DEF NodeState
  <1> QED
      BY <1>2 DEF KeepsPlans, HasFuture, HasOneUpdate, Joins

\* The node may become a state that keeps its plans.
LEMMA KeptPlans ==
    ASSUME IInv', Plans, NEW s, Becomes(s), KeepsPlans(s, node)
    PROVE  Plans'
BY BecomesPlans DEF Plans, KeepsPlans

\* Every message keeps them, whoever sent it.
LEMMA ReceiveKeepsPlans ==
    ASSUME IInv, IInv', Plans, NEW m \in Message, NEW mid,
           PeerMessage(m), Receive(m, mid)
    PROVE  Plans'
  <1>1. PICK s \in received(node, m, mid) : Becomes(s)
      BY DEF Receive
  <1>2. Sound(node, OwnID) /\ OwnID \in SUBSET MessageID
      BY SelfAssumption DEF IInv, Ready
  <1>3. KeepsPlans(s, node)
      BY <1>2, ReceivedPlans DEF PeerMessage
  <1> QED
      BY <1>1, <1>3, KeptPlans

\* Every message, timer and command keeps them: one case per action.
LEMMA NextPlans == IInv /\ IInv' /\ Plans /\ [Next]_vars => Plans'
  <1> SUFFICES ASSUME IInv, IInv', Plans, [Next]_vars PROVE Plans'
      OBVIOUS
  <1>1. /\ Sound(node, OwnID) /\ OwnID \in SUBSET MessageID /\ FreshID \subseteq OwnID
        /\ node \in NodeState
      BY SelfAssumption DEF IInv, Ready, FreshID, Sound
  <1>2. CASE Reception
      BY <1>2, ReceptionIsOfPeer, ReceiveKeepsPlans
  <1>3. CASE UpdateTimerExpires
    <2>1. CASE node.state = "IDLE"
      <3>1. PICK mid \in FreshID : Becomes(updateExpired(node, mid))
          BY <1>3, <2>1 DEF UpdateTimerExpires
      <3> QED
          BY <1>1, <3>1, UpdateExpiredQuiet, QuietKeepsPlans, KeptPlans
    <2>2. CASE node.state # "IDLE"
      <3> DEFINE s == [node EXCEPT !.updateTimers = @ - 1]
      <3>1. Becomes(s)
          BY <1>3, <2>2 DEF UpdateTimerExpires
      <3>2. /\ s.id = node.id /\ s.state # "IDLE" /\ s.updateTimers = node.updateTimers - 1
            /\ s.isSuccessorSet = node.isSuccessorSet /\ node.updateTimers \in Nat
          BY <1>1, <2>2 DEF NodeState
      <3>3. KeepsPlans(s, node)
          BY <3>2 DEF KeepsPlans, HasFuture, HasOneUpdate
      <3> HIDE DEF s
      <3> QED
          BY <3>1, <3>3, KeptPlans
    <2> QED
        BY <2>1, <2>2
  <1>4. CASE TimerExpires
    <2>1. CASE node.state = "IDLE"
      <3>1. PICK t \in node.timers, mid \in FreshID : Becomes(timerExpired(node, t, mid))
          BY <1>4, <2>1 DEF TimerExpires
      <3>2. KeepsPlans(timerExpired(node, t, mid), node)
          BY <1>1, TimerExpiredPlans
      <3> QED
          BY <3>1, <3>2, KeptPlans
    <2>2. CASE node.state # "IDLE"
      <3>1. PICK t \in node.timers : Becomes(timerDropped(node, t))
          BY <1>4, <2>2 DEF TimerExpires
      <3>2. KeepsPlans(timerDropped(node, t), node)
          BY <1>1, <2>2 DEF timerDropped, NodeState, KeepsPlans, HasFuture, HasOneUpdate
      <3> QED
          BY <3>1, <3>2, KeptPlans
    <2> QED
        BY <2>1, <2>2
  <1>5. CASE HardReset
    <2>1. PICK mid \in OwnID : Becomes(hardReset(node, mid))
        BY <1>5 DEF HardReset
    <2>2. KeepsPlans(hardReset(node, mid), node)
        BY <1>1, HardResetPlans DEF KeepsPlans
    <2> QED
        BY <2>1, <2>2, KeptPlans
  <1>6. CASE SoftReset
    <2>1. PICK mid \in FreshID : Becomes(goStateInit(node, mid))
        BY <1>6 DEF SoftReset
    <2>2. softReset(node) \in NodeState
        BY <1>1, SoftResetFollows, SoundIsNodeState DEF Follows
    <2>3. HasFuture(goStateInit(node, mid)) /\ "SOFT_RESET" \in Commands
        BY <1>1, <1>6, <2>2, GoStateInitPlans DEF SoftReset
    <2> QED
        BY <2>1, <2>3, BecomesPlans DEF Plans, KeepsPlans
  <1>7. CASE Flush
    <2>1. Becomes(flush(node)) /\ "FLUSH" \in Commands
        BY <1>7 DEF Flush
    <2>2. HasOneUpdate(flush(node))
        BY <1>1 DEF flush, NodeState, HasOneUpdate
    <2> QED
        BY <2>1, <2>2, BecomesPlans DEF Plans, KeepsPlans
  <1>8. CASE Pause
    <2> DEFINE s == [node EXCEPT !.state = "PAUSED"]
    <2>1. Becomes(s) /\ "PAUSE" \in Commands
        BY <1>8 DEF Pause
    <2>2. HasOneUpdate(node) => HasOneUpdate(s)
        BY <1>1 DEF NodeState, HasOneUpdate
    <2> HIDE DEF s
    <2> QED
        BY <2>1, <2>2, BecomesPlans DEF Plans, KeepsPlans
  <1>9. CASE Continue
    <2> DEFINE s == [node EXCEPT !.state = "IDLE"]
    <2>1. Becomes(s) /\ node.state = "PAUSED"
        BY <1>9 DEF Continue
    <2>2. "PAUSE" \in Commands
        BY <2>1 DEF IInv, LockKept
    <2>3. HasOneUpdate(node) => HasOneUpdate(s)
        BY <1>1 DEF NodeState, HasOneUpdate
    <2> HIDE DEF s
    <2> QED
        BY <2>1, <2>2, <2>3, BecomesPlans DEF Plans, KeepsPlans
  <1>10. CASE UNCHANGED vars
      BY <1>10 DEF vars, Plans, HasFuture, HasOneUpdate, Joins
  <1> QED
      BY <1>2, <1>3, <1>4, <1>5, <1>6, <1>7, <1>8, <1>9, <1>10 DEF Next, Reception

\* Both plans hold of every reachable state.
LEMMA PlansInvariance == Spec => [](IInv /\ Plans)
  <1>1. Init => Plans
      BY DEF Init, Off, Plans, HasFuture, HasOneUpdate
  <1> QED
      BY <1>1, InitIInv, NextIInv, NextPlans, PTL DEF Spec

\* A node that runs and has a configured seed is never left without a future: in
\* every order of joins, answers, timeouts and resets its UPDATE timer runs or a
\* JOIN is out whose expiry repeats it.
THEOREM AlwaysJoiningOrUpdating == Spec => []JoiningOrUpdating
  <1>1. IInv /\ Plans => JoiningOrUpdating
      BY DEF IInv, Ready, Plans, HasFuture, Joins, JoiningOrUpdating
  <1> QED
      BY <1>1, PlansInvariance, PTL

\* Without SOFT_RESET, which leaves the UPDATE timer of the node running and
\* joins again, no node ever has two UPDATE timers: a second JOIN answered, a
\* first JOIN received or a reset never doubles the rate of its updates.
THEOREM AlwaysOneUpdateTimer ==
    ASSUME "SOFT_RESET" \notin Commands
    PROVE  Spec => []OneUpdateTimer
  <1>1. IInv /\ Plans => OneUpdateTimer
      BY DEF Plans, HasOneUpdate, OneUpdateTimer
  <1> QED
      BY <1>1, PlansInvariance, PTL
=============================================================================
