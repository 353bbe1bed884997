----------------------- MODULE LowLatencyChord_proofs -----------------------
(***************************************************************************)
(* What the methods of LowLatencyChord return and preserve, for every       *)
(* network, every number of fingers and every seed list.                    *)
(***************************************************************************)
EXTENDS LowLatencyChord, Sums_proofs

-----------------------------------------------------------------------------
(* The arithmetic of the identifier circle, for a circle of any size. *)

\* On the circle the inclusive test compares distances walked from `from'.
LEMMA RangeIsArc ==
    ASSUME NEW id \in IdSpace, NEW a \in IdSpace, NEW b \in IdSpace
    PROVE  isInRangeOverZero(id, a, b) <=> OnArc(id, a, b)
  BY MaxAssumption DEF isInRangeOverZero, OnArc, Dist, IdSpace, IdCount

\* The exclusive test is the arc without its ends, and the whole circle but the
\* one identifier when the ends coincide.
LEMMA OpenRangeIsInside ==
    ASSUME NEW id \in IdSpace, NEW a \in IdSpace, NEW b \in IdSpace
    PROVE  isInRangeOverZeroNotInc(id, a, b) <=> InsideArc(id, a, b)
  BY MaxAssumption DEF isInRangeOverZeroNotInc, InsideArc, Dist, IdSpace, IdCount

\* Truncated addition and subtraction stay on the circle.
LEMMA PlusMinusType ==
    ASSUME NEW id \in IdSpace, NEW offset \in IdSpace
    PROVE  Plus(id, offset) \in IdSpace /\ Minus(id, offset) \in IdSpace
  BY MaxAssumption DEF Plus, Minus, IdSpace, IdCount

-----------------------------------------------------------------------------
(* The highest and the lowest of some fingers. *)

\* highest and lowest of some fingers are among them.
LEMMA HighestLowest ==
    ASSUME NEW I \in SUBSET FingerIndex, I # {}
    PROVE  highest(I) \in I /\ lowest(I) \in I
  <1>1. \E i \in I : \A j \in I : i <= j
      BY LeastNatural DEF FingerIndex
  <1>2. \E i \in I : \A j \in I : j <= i
    <2> DEFINE J == {FingersSize - i : i \in I}
    <2>1. ASSUME NEW i \in I PROVE i \in Int /\ FingersSize - i \in Nat
        BY FingersAssumption DEF FingerIndex
    <2>2. J \in SUBSET Nat
        BY <2>1
    <2>3. J # {}
        OBVIOUS
    <2>4. PICK k \in J : \A l \in J : k <= l
      <3> HIDE DEF J
      <3> QED
          BY <2>2, <2>3, LeastNatural
    <2>5. PICK i \in I : k = FingersSize - i
        BY <2>4
    <2>6. ASSUME NEW j \in I PROVE j <= i
      <3>1. FingersSize - j \in J
          OBVIOUS
      <3>2. FingersSize - i <= FingersSize - j
          BY <2>4, <2>5, <3>1
      <3> QED
          BY <2>1, <3>2, FingersAssumption
    <2> QED
        BY <2>6
  <1> QED
      BY <1>1, <1>2 DEF highest, lowest

\* There is a finger 0.
LEMMA FingerZero == 0 \in FingerIndex
BY FingersAssumption DEF FingerIndex

-----------------------------------------------------------------------------
(* A node in order, where I are the identifiers it gives its own requests:     *)
(* its state is a node's state, m_currSeed points into m_seedAddrs, an UPDATE  *)
(* timer runs only when there is a seed to ask, a JOIN is out only when a seed *)
(* is configured, every SUCCESSOR it waits for answers a request of its own,   *)
(* and finger 0 is the successor or the node itself.                           *)

SeedsInOrder(s) ==
    /\ s.seedAddrs # <<>> => s.currSeed < Len(s.seedAddrs)
    /\ IF ConfSeed[s.id] = <<>> THEN s.currSeed = 0 ELSE s.seedAddrs = ConfSeed[s.id]
    /\ s.updateTimers > 0 => s.seedAddrs # <<>>

TimersInOrder(s, I) ==
    \A t \in s.timers :
        /\ t.type = "RX_SUCCESSOR_ON_JOIN" \/ t.retryMess = "JOIN" => ConfSeed[s.id] # <<>>
        /\ t.type \in {"RX_SUCCESSOR", "RX_SUCCESSOR_ON_JOIN"} => t.messageID \in I

Sound(s, I) ==
    /\ s \in NodeState /\ SeedsInOrder(s) /\ TimersInOrder(s, I)
    /\ s.cwFingers[0] \in {s.successor, s.id}

\* The timers whose expiry, or whose answer, releases the lock of the update.
Awaits(t) == \/ t.type \in {"RX_SUCCESSOR", "RX_PREDECESSOR"}
             \/ t.type = "RX_ACK" /\ t.retryMess = "NOTIFY"

\* r is in order, of the same node as s, and its lock is up only if that of s
\* was and every timer that releases it is still there.
Follows(r, s, I) ==
    /\ Sound(r, I)
    /\ r.id = s.id
    /\ r.state \in {s.state, "IDLE"}
    /\ r.isNowUpdate => /\ s.isNowUpdate
                        /\ \A t \in s.timers : Awaits(t) => t \in r.timers

\* The same without the lock.
Keeps(r, s, I) == Sound(r, I) /\ r.id = s.id /\ r.state \in {s.state, "IDLE"}

\* The lock of the update is up only if something will release it.
Watched(s) == s.isNowUpdate => \E t \in s.timers : Awaits(t)

\* r is a proper next state of s.
Settles(r, s, I) == Keeps(r, s, I) /\ (Watched(s) => Watched(r))

\* One handler calls another: what follows a follower follows.
LEMMA FollowsIsTransitive ==
    ASSUME NEW I, NEW q, NEW r, NEW s, Follows(q, r, I), Follows(r, s, I)
    PROVE  Follows(q, s, I)
BY DEF Follows

\* A handler may leave the node as it is.
LEMMA FollowsItself ==
    ASSUME NEW I, NEW s, Sound(s, I)
    PROVE  Follows(s, s, I)
BY DEF Follows

\* A state that follows is a proper next state.
LEMMA FollowsSettles ==
    ASSUME NEW I, NEW r, NEW s, Follows(r, s, I)
    PROVE  Settles(r, s, I)
BY DEF Follows, Settles, Keeps, Watched

-----------------------------------------------------------------------------
(* Timers and transmission. *)

\* removeTimers leaves the node in order and drops the timers it is asked to.
LEMMA RemoveTimersSound ==
    ASSUME NEW I, NEW s, Sound(s, I), NEW types, NEW retry, NEW mid
    PROVE  LET r == removeTimers(s, types, retry, mid)
           IN  /\ Sound(r, I)
               /\ r.id = s.id /\ r.state = s.state /\ r.isNowUpdate = s.isNowUpdate
               /\ r.timers = s.timers \ TimersOf(s, types, retry, mid)
BY DEF Sound, SeedsInOrder, TimersInOrder, NodeState, removeTimers, TimersOf

\* The create...Message methods return well-formed messages.
LEMMA CreateMessageSound ==
    ASSUME NEW I, NEW s, Sound(s, I), NEW type \in MessageType, NEW dest \in Node,
           NEW mid \in MessageID, NEW searched \in IdSpace
    PROVE  createMessage(s, type, dest, mid, searched) \in Message
BY DEF Sound, NodeState, createMessage, Message

\* sendMessage touches the outbox only.
LEMMA SendMessageFollows ==
    ASSUME NEW I, NEW s, Sound(s, I), NEW m \in Message
    PROVE  LET r == sendMessage(s, m)
           IN  Follows(r, s, I) /\ r.isNowUpdate = s.isNowUpdate
  <1>1. Append(s.tx, m) \in Seq(Message)
      BY DEF Sound, NodeState
  <1> QED
      BY <1>1 DEF Sound, SeedsInOrder, TimersInOrder, NodeState, sendMessage, Follows

\* pushNewTimer adds the timers and takes none away.
LEMMA PushTimersFollows ==
    ASSUME NEW I, NEW s, Sound(s, I), NEW types \in SUBSET TimerType, NEW m \in Message,
           NEW n \in 0 .. CtxJoin,
           m.type \in {"JOIN", "FIND_SUCCESSOR", "FIND_PREDECESSOR", "NOTIFY"},
           "RX_SUCCESSOR_ON_JOIN" \in types \/ m.type = "JOIN" => ConfSeed[s.id] # <<>>,
           "RX_SUCCESSOR" \in types \/ "RX_SUCCESSOR_ON_JOIN" \in types => m.messageID \in I
    PROVE  LET r == pushTimers(s, types, m, n)
           IN  /\ Follows(r, s, I)
               /\ \A type \in types : TimerFor(type, m, n) \in r.timers
  <1> DEFINE r == pushTimers(s, types, m, n)
  <1>1. \A type \in types : TimerFor(type, m, n) \in Timer
      BY DEF TimerFor, Timer, Message
  <1>2. r \in NodeState
    <2>1. s.timers \cup {TimerFor(type, m, n) : type \in types} \in SUBSET Timer
        BY <1>1 DEF Sound, NodeState
    <2> QED
        BY <2>1 DEF Sound, NodeState, pushTimers
  <1>3. SeedsInOrder(r)
      BY DEF Sound, SeedsInOrder, NodeState, pushTimers
  <1>4. TimersInOrder(r, I)
      BY DEF Sound, TimersInOrder, NodeState, pushTimers, TimerFor
  <1> QED
      BY <1>2, <1>3, <1>4 DEF Sound, NodeState, pushTimers, Follows

\* An UPDATE timer may be started once there is a seed to ask.
LEMMA PushUpdateTimerFollows ==
    ASSUME NEW I, NEW s, Sound(s, I), s.seedAddrs # <<>>
    PROVE  Follows(pushUpdateTimer(s), s, I)
  <1> DEFINE r == pushUpdateTimer(s)
  <1>1. r \in NodeState
    <2>1. s.updateTimers + 1 \in Nat
        BY DEF Sound, NodeState
    <2> QED
        BY <2>1 DEF Sound, NodeState, pushUpdateTimer
  <1>2. SeedsInOrder(r) /\ TimersInOrder(r, I)
      BY DEF Sound, SeedsInOrder, TimersInOrder, NodeState, pushUpdateTimer
  <1> QED
      BY <1>1, <1>2 DEF Sound, NodeState, pushUpdateTimer, Follows

-----------------------------------------------------------------------------
(* Start, reset and JOIN. *)

\* flush drops every timer, and with them the lock.
LEMMA FlushFollows ==
    ASSUME NEW I, NEW s, Sound(s, I)
    PROVE  Follows(flush(s), s, I)
  <1> DEFINE r == flush(s)
  <1>1. r \in NodeState
    <2>1. <<>> \in Seq(Message) /\ {} \in SUBSET Timer
        OBVIOUS
    <2> QED
        BY <2>1 DEF Sound, NodeState, flush
  <1>2. SeedsInOrder(r) /\ TimersInOrder(r, I)
      BY DEF Sound, SeedsInOrder, TimersInOrder, NodeState, flush
  <1> QED
      BY <1>1, <1>2 DEF Sound, NodeState, flush, Follows

\* A reset keeps the timers and the lock.
LEMMA SoftResetFollows ==
    ASSUME NEW I, NEW s, Sound(s, I)
    PROVE  Follows(softReset(s), s, I)
  <1>1. s.seedAddrs # <<>> => 0 < Len(s.seedAddrs)
      BY DEF Sound, NodeState
  <1> QED
      BY <1>1, FingerZero
      DEF Sound, SeedsInOrder, TimersInOrder, NodeState, softReset, Follows

\* A JOIN goes to a configured seed, m_currSeed staying within them.
LEMMA IssueJoinFollows ==
    ASSUME NEW I \in SUBSET MessageID, NEW s, Sound(s, I), ConfSeed[s.id] # <<>>,
           NEW n \in 0 .. CtxJoin, NEW mid \in I
    PROVE  Follows(issueJoin(s, n, mid), s, I)
  <1> DEFINE seeds == ConfSeed[s.id]
             next  == (s.currSeed + 1) % Len(seeds)
             made  == createMessage(s, "JOIN", seeds[next + 1], mid, Plus(s.id, 1))
             join  == [made EXCEPT !.isJoin = TRUE]
             moved == [s EXCEPT !.currSeed = next]
             sent  == sendMessage(moved, join)
  <1>1. seeds \in Seq(Node) /\ Len(seeds) \in Nat \ {0}
      BY SeedAssumption DEF Sound, NodeState
  <1>2. next \in 0 .. Len(seeds) - 1
      BY <1>1 DEF Sound, NodeState
  <1>3. Follows(moved, s, I)
    <2> HIDE DEF next
    <2>1. moved \in NodeState
      <3>1. next \in Nat
          BY <1>1, <1>2
      <3> QED
          BY <3>1 DEF Sound, NodeState
    <2>2. SeedsInOrder(moved)
      <3>1. moved.currSeed = next /\ moved.seedAddrs = seeds
          BY DEF Sound, SeedsInOrder, NodeState
      <3>2. moved.id = s.id /\ moved.updateTimers = s.updateTimers
          BY DEF Sound, NodeState
      <3> QED
          BY <1>1, <1>2, <3>1, <3>2 DEF Sound, SeedsInOrder
    <2>3. TimersInOrder(moved, I)
        BY DEF Sound, TimersInOrder, NodeState
    <2> QED
        BY <2>1, <2>2, <2>3 DEF Sound, NodeState, Follows
  <1>4. join \in Message
    <2>1. seeds[next + 1] \in Node
        BY <1>1, <1>2
    <2>2. Plus(s.id, 1) \in IdSpace
      <3>1. s.id \in IdSpace
          BY NodeAssumption DEF Sound, NodeState
      <3>2. 1 \in IdSpace
          BY MaxAssumption DEF IdSpace
      <3> QED
          BY <3>1, <3>2, PlusMinusType
    <2>3. made \in Message
        BY <2>1, <2>2, CreateMessageSound DEF MessageType
    <2> QED
        BY <2>3 DEF Message
  <1>5. Follows(sent, moved, I)
    <2> HIDE DEF moved, join
    <2> QED
      BY <1>3, <1>4, SendMessageFollows DEF Follows
  <1>6. join.type = "JOIN" /\ join.messageID = mid
      BY DEF createMessage
  <1>7. Follows(pushTimers(sent, {"RX_SUCCESSOR_ON_JOIN", "RX_ACK"}, join, n), sent, I)
    <2>1. Sound(sent, I) /\ ConfSeed[sent.id] # <<>>
        BY <1>3, <1>5 DEF Follows
    <2> QED
        BY <1>4, <1>6, <2>1, PushTimersFollows DEF TimerType
  <1> QED
      BY <1>3, <1>5, <1>7, FollowsIsTransitive DEF issueJoin

\* The initialisation after a reset leaves the node in order.
LEMMA GoStateInitFollows ==
    ASSUME NEW I \in SUBSET MessageID, NEW s, Sound(s, I), NEW mid \in I
    PROVE  Follows(goStateInit(s, mid), s, I)
  <1>1. Follows(softReset(s), s, I)
      BY SoftResetFollows
  <1>2. CASE ConfSeed[s.id] = <<>>
      BY <1>1, <1>2 DEF goStateInit
  <1>3. CASE ConfSeed[s.id] # <<>>
    <2>1. Follows(issueJoin(softReset(s), 0, mid), softReset(s), I)
      <3>1. Sound(softReset(s), I) /\ ConfSeed[softReset(s).id] # <<>>
          BY <1>1, <1>3 DEF Follows
      <3>2. 0 \in 0 .. CtxJoin
          BY SeedAssumption
      <3> QED
          BY <3>1, <3>2, IssueJoinFollows
    <2> QED
        BY <1>1, <1>3, <2>1, FollowsIsTransitive DEF goStateInit
  <1> QED
      BY <1>2, <1>3

\* So does a HARD_RESET, from any state.
LEMMA HardResetFollows ==
    ASSUME NEW I \in SUBSET MessageID, NEW s, Sound(s, I), NEW mid \in I
    PROVE  Follows(hardReset(s, mid), s, I)
  <1>1. Follows(flush(s), s, I)
      BY FlushFollows
  <1>2. Follows(hardReset(s, mid), flush(s), I)
      BY <1>1, GoStateInitFollows DEF Follows, hardReset
  <1> QED
      BY <1>1, <1>2, FollowsIsTransitive

-----------------------------------------------------------------------------
(* The pointers of a node. *)

\* A node with other pointers, flags and finger index, and the same timers.
SamePlan(r, s) ==
    /\ r.id = s.id /\ r.state = s.state /\ r.isNowUpdate = s.isNowUpdate
    /\ r.timers = s.timers /\ r.updateTimers = s.updateTimers
    /\ r.seedAddrs = s.seedAddrs /\ r.currSeed = s.currSeed

\* Whatever a handler writes to the pointers, the node stays in order.
LEMMA SamePlanFollows ==
    ASSUME NEW I, NEW s, Sound(s, I), NEW r \in NodeState, SamePlan(r, s),
           r.cwFingers[0] \in {r.successor, r.id}
    PROVE  Follows(r, s, I)
BY DEF SamePlan, Sound, SeedsInOrder, TimersInOrder, Follows

\* setPredecessor moves one pointer.
LEMMA SetPredecessorFollows ==
    ASSUME NEW I, NEW s, Sound(s, I), NEW addr \in Node
    PROVE  Follows(setPredecessor(s, addr), s, I)
  <1> DEFINE r == [s EXCEPT !.predecessor = addr]
  <1>1. r \in NodeState /\ SamePlan(r, s) /\ r.cwFingers[0] \in {r.successor, r.id}
      BY DEF Sound, NodeState, SamePlan
  <1>2. Follows(r, s, I)
      BY <1>1, SamePlanFollows
  <1> QED
      BY <1>2, FollowsItself DEF setPredecessor

\* setSuccessorRemoveTimers drops no timer that holds the lock: those of the
\* JOIN do not, and a FIND_SUCCESSOR of its own has another identifier than the
\* newcomer's request.
LEMMA SetSuccessorFollows ==
    ASSUME NEW I, NEW s, Sound(s, I), NEW addr \in Node, NEW mid,
           ~s.isSuccessorSet \/ mid \notin I
    PROVE  Follows(setSuccessorRemoveTimers(s, addr, mid), s, I)
  <1> DEFINE set == [s EXCEPT !.successor = addr, !.cwFingers[0] = addr,
                              !.isUpdated = @ \cup {0}, !.cwFingerIndex = @ + 1,
                              !.isSuccessorSet = TRUE]
             onJoin == removeTimers(set, {"RX_ACK", "RX_SUCCESSOR_ON_JOIN"}, "JOIN", mid)
             onFind == removeTimers(set, {"RX_ACK", "RX_SUCCESSOR"}, "FIND_SUCCESSOR", mid)
  <1>1. set \in NodeState /\ SamePlan(set, s) /\ set.cwFingers[0] = set.successor
    <2>1. /\ [s.cwFingers EXCEPT ![0] = addr] \in [FingerIndex -> Node]
          /\ [s.cwFingers EXCEPT ![0] = addr][0] = addr
          /\ s.isUpdated \cup {0} \in SUBSET FingerIndex
          /\ s.cwFingerIndex + 1 \in Nat
        BY FingerZero DEF Sound, NodeState
    <2> QED
        BY <2>1 DEF Sound, NodeState, SamePlan
  <1>2. Follows(set, s, I)
      BY <1>1, SamePlanFollows
  <1> HIDE DEF set
  <1>3. Follows(onJoin, set, I)
    <2>1. /\ Sound(onJoin, I) /\ onJoin.id = set.id /\ onJoin.state = set.state
          /\ onJoin.isNowUpdate = set.isNowUpdate
          /\ onJoin.timers = set.timers \ TimersOf(set, {"RX_ACK", "RX_SUCCESSOR_ON_JOIN"}, "JOIN", mid)
        BY <1>2, RemoveTimersSound DEF Follows
    <2> QED
        BY <2>1 DEF Follows, Awaits, TimersOf
  <1>4. ASSUME mid \notin I PROVE Follows(onFind, set, I)
    <2>1. /\ Sound(onFind, I) /\ onFind.id = set.id /\ onFind.state = set.state
          /\ onFind.isNowUpdate = set.isNowUpdate
          /\ onFind.timers = set.timers \ TimersOf(set, {"RX_ACK", "RX_SUCCESSOR"}, "FIND_SUCCESSOR", mid)
        BY <1>2, RemoveTimersSound DEF Follows
    <2>2. \A t \in set.timers : t.type = "RX_SUCCESSOR" => t.messageID # mid
        BY <1>2, <1>4 DEF Follows, Sound, TimersInOrder
    <2> QED
        BY <2>1, <2>2 DEF Follows, Awaits, TimersOf
  <1>5. setSuccessorRemoveTimers(s, addr, mid) = IF s.isSuccessorSet THEN onFind ELSE onJoin
      BY DEF setSuccessorRemoveTimers, set
  <1> QED
      BY <1>2, <1>3, <1>4, <1>5, FollowsIsTransitive

\* setSuccessorStabilize leaves the node in order; it drops the timer of the lock.
LEMMA SetSuccessorStabilizeKeeps ==
    ASSUME NEW I, NEW s, Sound(s, I), NEW addr \in Node, NEW mid
    PROVE  Keeps(setSuccessorStabilize(s, addr, mid), s, I)
  <1> DEFINE moved == [s EXCEPT !.successor = addr, !.cwFingers[0] = addr,
                                !.isUpdated = @ \cup {0}, !.isSuccessorSet = TRUE]
             kept  == [s EXCEPT !.isSuccessorSet = TRUE]
  <1>1. moved \in NodeState /\ SamePlan(moved, s) /\ moved.cwFingers[0] = moved.successor
    <2>1. /\ [s.cwFingers EXCEPT ![0] = addr] \in [FingerIndex -> Node]
          /\ [s.cwFingers EXCEPT ![0] = addr][0] = addr
          /\ s.isUpdated \cup {0} \in SUBSET FingerIndex
        BY FingerZero DEF Sound, NodeState
    <2> QED
        BY <2>1 DEF Sound, NodeState, SamePlan
  <1>2. kept \in NodeState /\ SamePlan(kept, s) /\ kept.cwFingers[0] \in {kept.successor, kept.id}
      BY DEF Sound, NodeState, SamePlan
  <1>3. Follows(moved, s, I) /\ Follows(kept, s, I)
      BY <1>1, <1>2, SamePlanFollows
  <1> HIDE DEF moved, kept
  <1>4. \A set \in {moved, kept} :
            Keeps(removeTimers(set, {"RX_ACK", "RX_PREDECESSOR"}, "FIND_PREDECESSOR", mid), s, I)
      BY <1>3, RemoveTimersSound DEF Follows, Keeps
  <1> QED
      BY <1>4 DEF setSuccessorStabilize, moved, kept

\* So does setFingerRemoveTimers.
LEMMA SetFingerKeeps ==
    ASSUME NEW I, NEW s, Sound(s, I), NEW addr \in Node, NEW mid
    PROVE  LET r == setFingerRemoveTimers(s, addr, mid)
           IN  Keeps(r, s, I) /\ r.isNowUpdate = s.isNowUpdate
  <1> DEFINE i   == s.cwFingerIndex
             set == [s EXCEPT !.cwFingers[i] = addr, !.isUpdated = @ \cup {i},
                              !.successor = IF i = 0 /\ addr # s.id THEN addr ELSE @]
             r   == removeTimers(set, {"RX_ACK", "RX_SUCCESSOR"}, "FIND_SUCCESSOR", mid)
  <1>1. CASE i \notin FingerIndex
      BY <1>1 DEF setFingerRemoveTimers, Keeps
  <1>2. CASE i \in FingerIndex
    <2>1. set \in NodeState /\ SamePlan(set, s) /\ set.cwFingers[0] \in {set.successor, set.id}
      <3>1. /\ [s.cwFingers EXCEPT ![i] = addr] \in [FingerIndex -> Node]
            /\ s.isUpdated \cup {i} \in SUBSET FingerIndex
            /\ (IF i = 0 /\ addr # s.id THEN addr ELSE s.successor) \in Node
            /\ [s.cwFingers EXCEPT ![i] = addr][0]
                    \in {IF i = 0 /\ addr # s.id THEN addr ELSE s.successor, s.id}
          BY <1>2, FingerZero DEF Sound, NodeState
      <3> QED
          BY <3>1 DEF Sound, NodeState, SamePlan
    <2>2. Follows(set, s, I) /\ set.isNowUpdate = s.isNowUpdate
        BY <2>1, SamePlanFollows DEF SamePlan
    <2>3. setFingerRemoveTimers(s, addr, mid) = r
        BY <1>2 DEF setFingerRemoveTimers
    <2> HIDE DEF set
    <2> QED
        BY <2>2, <2>3, RemoveTimersSound DEF Follows, Keeps
  <1> QED
      BY <1>1, <1>2

\* setCopyPreviousAliveFinger copies a node, or resets.
LEMMA SetCopyPreviousAliveFingerFollows ==
    ASSUME NEW I \in SUBSET MessageID, NEW s, Sound(s, I), NEW mid \in I
    PROVE  Follows(setCopyPreviousAliveFinger(s, mid), s, I)
  <1> DEFINE i     == s.cwFingerIndex
             alive == IF aliveFingers(s) # {} THEN s.cwFingers[highest(aliveFingers(s))]
                                              ELSE s.predecessor
             beyond == [s EXCEPT !.outOfRange = TRUE]
             copied == [s EXCEPT !.cwFingers[i] = alive, !.isUpdated = @ \cup {i},
                                 !.successor = IF i = 0 THEN alive ELSE @,
                                 !.cwFingerIndex = i + 1]
  <1>1. alive \in Node
    <2>1. aliveFingers(s) \subseteq FingerIndex
        BY DEF Sound, NodeState, aliveFingers
    <2>2. aliveFingers(s) # {} => highest(aliveFingers(s)) \in FingerIndex
        BY <2>1, HighestLowest
    <2> QED
        BY <2>2 DEF Sound, NodeState
  <1>2. Follows(hardReset(s, mid), s, I)
      BY HardResetFollows
  <1>3. Follows(beyond, s, I)
    <2>1. /\ beyond \in NodeState /\ SamePlan(beyond, s)
          /\ beyond.cwFingers[0] \in {beyond.successor, beyond.id}
        BY DEF Sound, NodeState, SamePlan
    <2> QED
        BY <2>1, SamePlanFollows
  <1>4. ASSUME i \in FingerIndex PROVE Follows(copied, s, I)
    <2> HIDE DEF alive
    <2>1. /\ copied \in NodeState /\ SamePlan(copied, s)
          /\ copied.cwFingers[0] \in {copied.successor, copied.id}
      <3>1. /\ [s.cwFingers EXCEPT ![i] = alive] \in [FingerIndex -> Node]
            /\ s.isUpdated \cup {i} \in SUBSET FingerIndex
            /\ (IF i = 0 THEN alive ELSE s.successor) \in Node
            /\ i + 1 \in Nat
            /\ [s.cwFingers EXCEPT ![i] = alive][0]
                    \in {IF i = 0 THEN alive ELSE s.successor, s.id}
          BY <1>1, <1>4, FingerZero DEF Sound, NodeState
      <3> QED
          BY <3>1 DEF Sound, NodeState, SamePlan
    <2> QED
        BY <2>1, SamePlanFollows
  <1> QED
      BY <1>2, <1>3, <1>4 DEF setCopyPreviousAliveFinger

\* setNextFingerToUpdate moves the index and the flags only.
LEMMA SetNextFingerToUpdateFollows ==
    ASSUME NEW I, NEW s, Sound(s, I)
    PROVE  LET r == setNextFingerToUpdate(s)
           IN  Follows(r, s, I) /\ SamePlan(r, s)
  <1> DEFINE next == [s EXCEPT !.cwFingerIndex = lowest(staleFingers(s))]
             over == [s EXCEPT !.cwFingerIndex = 0, !.isUpdated = {}, !.isNowStabilize = TRUE]
  <1>1. over \in NodeState /\ SamePlan(over, s) /\ over.cwFingers[0] \in {over.successor, over.id}
      BY DEF Sound, NodeState, SamePlan
  <1>2. ASSUME staleFingers(s) # {}
        PROVE  /\ next \in NodeState /\ SamePlan(next, s)
               /\ next.cwFingers[0] \in {next.successor, next.id}
    <2>1. lowest(staleFingers(s)) \in FingerIndex
        BY <1>2, HighestLowest DEF staleFingers
    <2>2. lowest(staleFingers(s)) \in Nat
        BY <2>1 DEF FingerIndex
    <2> QED
        BY <2>2 DEF Sound, NodeState, SamePlan
  <1>3. setNextFingerToUpdate(s) = IF staleFingers(s) # {} THEN next ELSE over
      BY DEF setNextFingerToUpdate
  <1> HIDE DEF next, over
  <1> QED
      BY <1>1, <1>2, <1>3, SamePlanFollows

-----------------------------------------------------------------------------
(* The handlers of requests. *)

\* The first JOIN gives a node without seeds one, within the range of m_currSeed.
LEMMA LearnSeedFollows ==
    ASSUME NEW I, NEW s, Sound(s, I), NEW m \in Message
    PROVE  Follows(learnSeed(s, m), s, I)
  <1> DEFINE learnt == [s EXCEPT !.seedAddrs = <<m.src>>]
  <1>1. ASSUME s.seedAddrs = <<>> PROVE Follows(learnt, s, I) /\ learnt.seedAddrs # <<>>
    <2>1. <<m.src>> \in Seq(Node) /\ Len(<<m.src>>) = 1 /\ <<m.src>> # <<>>
        BY DEF Message
    <2>2. learnt \in NodeState
        BY <2>1 DEF Sound, NodeState
    <2>3. s.currSeed = 0 /\ ConfSeed[s.id] = <<>>
        BY <1>1 DEF Sound, SeedsInOrder
    <2>4. /\ learnt.seedAddrs = <<m.src>> /\ learnt.id = s.id /\ learnt.state = s.state
          /\ learnt.currSeed = s.currSeed /\ learnt.timers = s.timers
          /\ learnt.isNowUpdate = s.isNowUpdate
          /\ learnt.cwFingers = s.cwFingers /\ learnt.successor = s.successor
        BY DEF Sound, NodeState
    <2> HIDE DEF learnt
    <2>5. SeedsInOrder(learnt) /\ TimersInOrder(learnt, I)
        BY <2>1, <2>3, <2>4 DEF Sound, SeedsInOrder, TimersInOrder
    <2> QED
        BY <2>1, <2>2, <2>4, <2>5 DEF Sound, Follows
  <1>2. ASSUME s.seedAddrs = <<>> PROVE Follows(pushUpdateTimer(learnt), s, I)
    <2>1. Follows(pushUpdateTimer(learnt), learnt, I)
        BY <1>1, <1>2, PushUpdateTimerFollows DEF Follows
    <2> QED
        BY <1>1, <1>2, <2>1, FollowsIsTransitive
  <1> QED
      BY <1>2, FollowsItself DEF learnSeed

\* A lookup ends with a node, to forward to or to answer with.
LEMMA FindSuccessorFindsNode ==
    ASSUME NEW s \in NodeState, NEW key, NEW sender, NEW initiator, NEW isJoin
    PROVE  findSuccessor(s, key, sender, initiator, isJoin).found \in Node
  <1> DEFINE others    == {i \in FingerIndex : s.cwFingers[i] \notin {sender, initiator, s.id}}
             preceding == {i \in others : isInRangeOverZero(s.cwFingers[i], s.id, key)}
  <1>1. preceding # {} => s.cwFingers[highest(preceding)] \in Node
    <2>1. preceding \subseteq FingerIndex
        OBVIOUS
    <2> HIDE DEF preceding
    <2>2. preceding # {} => highest(preceding) \in FingerIndex
        BY <2>1, HighestLowest
    <2> QED
        BY <2>2 DEF NodeState
  <1>2. others # {} => s.cwFingers[lowest(others)] \in Node
    <2>1. others \subseteq FingerIndex
        OBVIOUS
    <2> HIDE DEF others
    <2>2. others # {} => lowest(others) \in FingerIndex
        BY <2>1, HighestLowest
    <2> QED
        BY <2>2 DEF NodeState
  <1>3. s.id \in Node /\ s.predecessor \in Node /\ s.successor \in Node
      BY DEF NodeState
  <1> QED
      BY <1>1, <1>2, <1>3 DEF findSuccessor

\* Passing a request on adds an ACK timer, or drops the message and the lock.
LEMMA ForwardFollows ==
    ASSUME NEW I, NEW s, Sound(s, I), NEW m \in Message, NEW addr \in Node
    PROVE  Follows(forwardFindSuccessor(s, m, addr), s, I)
  <1> DEFINE fwd == [m EXCEPT !.type = "FIND_SUCCESSOR", !.src = s.id, !.dest = addr,
                              !.service = s.id, !.retransmitCounter = @ + 1]
             dropped == [s EXCEPT !.isNowUpdate = FALSE]
             sent    == sendMessage(s, fwd)
  <1>1. fwd \in Message /\ fwd.type = "FIND_SUCCESSOR"
    <2>1. s.id \in Node /\ m.retransmitCounter + 1 \in Nat
        BY DEF Sound, NodeState, Message
    <2> QED
        BY <2>1 DEF Message, MessageType
  <1>2. Follows(dropped, s, I)
    <2>1. dropped \in NodeState
        BY DEF Sound, NodeState
    <2> QED
        BY <2>1 DEF Sound, NodeState, SeedsInOrder, TimersInOrder, Follows
  <1> HIDE DEF fwd, dropped
  <1>3. Follows(sent, s, I)
      BY <1>1, SendMessageFollows
  <1>4. Follows(pushTimers(sent, {"RX_ACK"}, fwd, 0), sent, I)
    <2>1. 0 \in 0 .. CtxJoin
        BY SeedAssumption
    <2>2. Sound(sent, I)
        BY <1>3 DEF Follows
    <2> HIDE DEF sent
    <2>3. {"RX_ACK"} \in SUBSET TimerType
        BY DEF TimerType
    <2> QED
        BY <1>1, <2>1, <2>2, <2>3, PushTimersFollows
  <1> QED
      BY <1>2, <1>3, <1>4, FollowsIsTransitive DEF forwardFindSuccessor, fwd, dropped

\* Taking in a newcomer drops no timer of a request of its own.
LEMMA AdoptJoinerFollows ==
    ASSUME NEW I, NEW s, Sound(s, I), NEW m \in Message, m.messageID \notin I
    PROVE  Follows(adoptJoiner(s, m), s, I)
  <1> DEFINE cleared == [s EXCEPT !.isNowStabilize = FALSE]
             adopted == setPredecessor(cleared, m.initiator)
  <1>1. m.initiator \in Node
      BY DEF Message
  <1>2. Follows(cleared, s, I)
    <2>1. /\ cleared \in NodeState /\ SamePlan(cleared, s)
          /\ cleared.cwFingers[0] \in {cleared.successor, cleared.id}
        BY DEF Sound, NodeState, SamePlan
    <2> QED
        BY <2>1, SamePlanFollows
  <1> HIDE DEF cleared
  <1>3. Follows(adopted, cleared, I)
      BY <1>1, <1>2, SetPredecessorFollows DEF Follows
  <1>4. Follows(setSuccessorRemoveTimers(adopted, m.initiator, m.messageID), adopted, I)
      BY <1>1, <1>3, SetSuccessorFollows DEF Follows
  <1> QED
      BY <1>2, <1>3, <1>4, FollowsIsTransitive DEF adoptJoiner, cleared

\* An ACK changes nothing of the node.
LEMMA AckFollows ==
    ASSUME NEW I, NEW s, Sound(s, I), NEW m \in Message
    PROVE  Follows(sendMessage(s, createAckMessage(s, m)), s, I)
  <1>1. s.id \in Node /\ s.id \in IdSpace /\ m.src \in Node /\ m.messageID \in MessageID
      BY NodeAssumption DEF Sound, NodeState, Message
  <1>2. createAckMessage(s, m) \in Message
      BY <1>1, CreateMessageSound DEF createAckMessage, MessageType
  <1> QED
      BY <1>2, SendMessageFollows

\* Answering a request leaves the node in order, newcomer taken in or not.
LEMMA ReplyFollows ==
    ASSUME NEW I, NEW s, Sound(s, I), NEW m \in Message, NEW addr \in Node,
           m.messageID \notin I
    PROVE  Follows(replyFindSuccessor(s, m, addr), s, I)
  <1> DEFINE reply   == createSuccessorMessage(s, m, addr)
             replied == sendMessage(s, reply)
  <1>1. reply \in Message
    <2>1. addr \in IdSpace /\ m.initiator \in Node /\ m.messageID \in MessageID
        BY NodeAssumption DEF Message
    <2>2. createMessage(s, "SUCCESSOR", m.initiator, m.messageID, addr) \in Message
        BY <2>1, CreateMessageSound DEF MessageType
    <2> QED
        BY <2>2 DEF createSuccessorMessage, Message, Sound, NodeState
  <1>2. Follows(replied, s, I)
      BY <1>1, SendMessageFollows
  <1>3. Follows(adoptJoiner(replied, m), replied, I)
      BY <1>2, AdoptJoinerFollows DEF Follows
  <1> QED
      BY <1>2, <1>3, FollowsIsTransitive DEF replyFindSuccessor

\* The handler of JOIN and FIND_SUCCESSOR.
LEMMA RxFindSuccessorFollows ==
    ASSUME NEW I, NEW s, Sound(s, I), NEW m \in Message, m.messageID \notin I
    PROVE  Follows(rxFindSuccessor(s, m), s, I)
  <1> DEFINE learnt == learnSeed(s, m)
             acked  == sendMessage(learnt, createAckMessage(learnt, m))
             lookup == findSuccessor(acked, m.searched, m.src, m.initiator, m.isJoin)
  <1>1. Follows(learnt, s, I)
      BY LearnSeedFollows
  <1>2. Follows(acked, learnt, I)
      BY <1>1, AckFollows DEF Follows
  <1> HIDE DEF acked
  <1>3. lookup.found \in Node
      BY <1>2, FindSuccessorFindsNode DEF Follows, Sound
  <1>4. Follows(replyFindSuccessor(acked, m, lookup.found), acked, I)
      BY <1>2, <1>3, ReplyFollows DEF Follows
  <1>5. Follows(forwardFindSuccessor(acked, m, lookup.found), acked, I)
      BY <1>2, <1>3, ForwardFollows DEF Follows
  <1>6. Follows(acked, s, I)
      BY <1>1, <1>2, FollowsIsTransitive
  <1> QED
      BY <1>4, <1>5, <1>6, FollowsIsTransitive DEF rxFindSuccessor, acked

\* The handler of FIND_PREDECESSOR.
LEMMA RxFindPredecessorFollows ==
    ASSUME NEW I, NEW s, Sound(s, I), NEW m \in Message
    PROVE  Follows(rxFindPredecessor(s, m), s, I)
  <1> DEFINE acked == sendMessage(s, createAckMessage(s, m))
             reply == createMessage(s, "PREDECESSOR", m.initiator, m.messageID, s.predecessor)
  <1>1. Follows(acked, s, I)
      BY AckFollows
  <1>2. reply \in Message
    <2>1. /\ s.predecessor \in IdSpace /\ m.initiator \in Node
          /\ m.messageID \in MessageID
        BY NodeAssumption DEF Sound, NodeState, Message
    <2> QED
        BY <2>1, CreateMessageSound DEF MessageType
  <1> HIDE DEF acked, reply
  <1>3. Follows(sendMessage(acked, reply), acked, I)
      BY <1>1, <1>2, SendMessageFollows DEF Follows
  <1> QED
      BY <1>1, <1>3, FollowsIsTransitive DEF rxFindPredecessor, acked, reply

\* The handler of NOTIFY.
LEMMA RxNotifyFollows ==
    ASSUME NEW I, NEW s, Sound(s, I), NEW m \in Message, m.searched \in Node
    PROVE  Follows(rxNotify(s, m), s, I)
  <1> DEFINE acked == sendMessage(s, createAckMessage(s, m))
  <1>1. Follows(acked, s, I)
      BY AckFollows
  <1> HIDE DEF acked
  <1>2. Follows(setPredecessor(acked, m.searched), acked, I)
      BY <1>1, SetPredecessorFollows DEF Follows
  <1> QED
      BY <1>1, <1>2, FollowsIsTransitive DEF rxNotify, acked

-----------------------------------------------------------------------------
(* Answers. *)

\* The answer to a JOIN starts the UPDATE timer of a node that has a seed.
LEMMA JoinAnsweredFollows ==
    ASSUME NEW I, NEW s, Sound(s, I), NEW m \in Message, m.searched \in Node,
           ~s.isSuccessorSet, ConfSeed[s.id] # <<>>
    PROVE  Follows(joinAnswered(s, m), s, I)
  <1> DEFINE known  == setPredecessor(s, m.service)
             placed == setSuccessorRemoveTimers(known, m.searched, m.messageID)
             next   == setNextFingerToUpdate(placed)
  <1>1. m.service \in Node
      BY DEF Message
  <1>2. Follows(known, s, I)
      BY <1>1, SetPredecessorFollows
  <1>3. ~known.isSuccessorSet
      BY DEF setPredecessor, Sound, NodeState
  <1> HIDE DEF known
  <1>4. Follows(placed, known, I)
      BY <1>2, <1>3, SetSuccessorFollows DEF Follows
  <1> HIDE DEF placed
  <1>5. Follows(next, placed, I)
      BY <1>4, SetNextFingerToUpdateFollows DEF Follows
  <1> HIDE DEF next
  <1>6. Follows(next, s, I)
      BY <1>2, <1>4, <1>5, FollowsIsTransitive
  <1>7. Sound(next, I) /\ next.seedAddrs # <<>>
      BY <1>6 DEF Follows, Sound, SeedsInOrder
  <1>8. Follows(pushUpdateTimer(next), next, I)
      BY <1>7, PushUpdateTimerFollows
  <1> QED
      BY <1>6, <1>8, FollowsIsTransitive DEF joinAnswered, known, placed, next

\* Giving up the lock is always proper.
LEMMA UnlockedFollows ==
    ASSUME NEW I, NEW s, Sound(s, I)
    PROVE  Follows(unlocked(s), s, I) /\ ~unlocked(s).isNowUpdate
  <1>1. unlocked(s) \in NodeState
      BY DEF Sound, NodeState, unlocked
  <1> QED
      BY <1>1 DEF Sound, NodeState, SeedsInOrder, TimersInOrder, Follows, unlocked

\* The answer to a FIND_SUCCESSOR releases the lock before its timer goes.
LEMMA FingerAnsweredFollows ==
    ASSUME NEW I, NEW s, Sound(s, I), NEW m \in Message, m.searched \in Node
    PROVE  Follows(fingerAnswered(s, m), s, I)
  <1> DEFINE r == setFingerRemoveTimers(unlocked(s), m.searched, m.messageID)
  <1>1. fingerAnswered(s, m) = r
      BY DEF fingerAnswered, unlocked
  <1>2. Sound(unlocked(s), I) /\ ~unlocked(s).isNowUpdate
      BY UnlockedFollows DEF Follows
  <1>3. Keeps(r, unlocked(s), I) /\ ~r.isNowUpdate
      BY <1>2, SetFingerKeeps
  <1> QED
      BY <1>1, <1>3, UnlockedFollows DEF Keeps, Follows

\* The handler of SUCCESSOR.
LEMMA RxSuccessorFollows ==
    ASSUME NEW I, NEW s, Sound(s, I), NEW m \in Message, m.searched \in Node
    PROVE  Follows(rxSuccessor(s, m), s, I)
  <1>1. ASSUME TimersOf(s, {"RX_SUCCESSOR_ON_JOIN"}, "JOIN", m.messageID) # {}
        PROVE  ConfSeed[s.id] # <<>>
      BY <1>1 DEF TimersOf, Sound, TimersInOrder
  <1>2. Follows(s, s, I) /\ Follows(fingerAnswered(s, m), s, I)
      BY FollowsItself, FingerAnsweredFollows
  <1>3. ASSUME TimersOf(s, {"RX_SUCCESSOR_ON_JOIN"}, "JOIN", m.messageID) # {},
               ~s.isSuccessorSet
        PROVE  Follows(joinAnswered(s, m), s, I)
      BY <1>1, <1>3, JoinAnsweredFollows
  <1> QED
      BY <1>2, <1>3 DEF rxSuccessor

\* An ACK drops one timer, and the lock if that timer held it.
LEMMA RxAckFollows ==
    ASSUME NEW I, NEW s, Sound(s, I), NEW t \in s.timers, t.type = "RX_ACK"
    PROVE  Follows(rxAck(s, t), s, I)
  <1> DEFINE r == rxAck(s, t)
  <1>1. s.timers \ {t} \in SUBSET Timer
      BY DEF Sound, NodeState
  <1>2. r \in NodeState
      BY <1>1 DEF Sound, NodeState, rxAck
  <1>3. SeedsInOrder(r) /\ TimersInOrder(r, I)
      BY DEF Sound, NodeState, SeedsInOrder, TimersInOrder, rxAck
  <1> QED
      BY <1>2, <1>3 DEF Sound, NodeState, Follows, Awaits, rxAck

-----------------------------------------------------------------------------
(* Requests of the periodic update. *)

\* A NOTIFY is sent with a timer that releases the lock.
LEMMA IssueNotifySettles ==
    ASSUME NEW I, NEW s, Sound(s, I), NEW mid \in MessageID
    PROVE  Keeps(issueNotify(s, mid), s, I) /\ Watched(issueNotify(s, mid))
  <1> DEFINE notify == createMessage(s, "NOTIFY", s.successor, mid, s.id)
             sent   == sendMessage(s, notify)
             r      == pushTimers(sent, {"RX_ACK"}, notify, 0)
  <1>1. notify \in Message
    <2>1. s.successor \in Node /\ s.id \in IdSpace
        BY NodeAssumption DEF Sound, NodeState
    <2> QED
        BY <2>1, CreateMessageSound DEF MessageType
  <1>2. notify.type = "NOTIFY"
      BY DEF createMessage
  <1> HIDE DEF notify
  <1>3. Follows(sent, s, I)
      BY <1>1, SendMessageFollows
  <1> HIDE DEF sent
  <1>4. Follows(r, sent, I) /\ TimerFor("RX_ACK", notify, 0) \in r.timers
    <2>1. 0 \in 0 .. CtxJoin /\ {"RX_ACK"} \in SUBSET TimerType
        BY SeedAssumption DEF TimerType
    <2> QED
        BY <1>1, <1>2, <1>3, <2>1, PushTimersFollows DEF Follows
  <1>5. Awaits(TimerFor("RX_ACK", notify, 0))
      BY <1>2 DEF Awaits, TimerFor
  <1> QED
      BY <1>3, <1>4, <1>5, FollowsIsTransitive
      DEF Keeps, Follows, Watched, issueNotify, notify, sent

\* The handler of PREDECESSOR passes the lock from the timer of the request to
\* that of the NOTIFY.
LEMMA RxPredecessorSettles ==
    ASSUME NEW I, NEW s, Sound(s, I), NEW m \in Message, m.searched \in Node,
           NEW mid \in MessageID
    PROVE  Settles(rxPredecessor(s, m, mid), s, I)
  <1> DEFINE stable == setSuccessorStabilize(s, m.searched, m.messageID)
             next   == setNextFingerToUpdate(stable)
             r      == issueNotify(next, mid)
  <1>1. Keeps(stable, s, I)
      BY SetSuccessorStabilizeKeeps
  <1> HIDE DEF stable
  <1>2. Keeps(next, stable, I)
      BY <1>1, SetNextFingerToUpdateFollows DEF Keeps, Follows
  <1> HIDE DEF next
  <1>3. Keeps(r, next, I) /\ Watched(r)
      BY <1>2, IssueNotifySettles DEF Keeps
  <1> HIDE DEF r
  <1>4. Settles(r, s, I)
      BY <1>1, <1>2, <1>3 DEF Keeps, Settles
  <1>5. Settles(s, s, I)
      BY DEF Settles, Keeps
  <1> QED
      BY <1>4, <1>5 DEF rxPredecessor, stable, next, r

\* A stabilize is begun with a timer that releases the lock.
LEMMA IssueFindPredecessorSettles ==
    ASSUME NEW I \in SUBSET MessageID, NEW s, Sound(s, I), NEW mid \in I
    PROVE  Keeps(issueFindPredecessor(s, mid), s, I) /\ Watched(issueFindPredecessor(s, mid))
  <1> DEFINE types == {"RX_PREDECESSOR", "RX_ACK"}
             find  == createMessage(s, "FIND_PREDECESSOR", s.successor, mid,
                                    Minus(s.successor, 1))
             sent  == sendMessage(s, find)
             r     == pushTimers(sent, types, find, 0)
  <1>1. find \in Message
    <2>1. s.successor \in Node /\ s.successor \in IdSpace
        BY NodeAssumption DEF Sound, NodeState
    <2>2. 1 \in IdSpace
        BY MaxAssumption DEF IdSpace
    <2>3. Minus(s.successor, 1) \in IdSpace
        BY <2>1, <2>2, PlusMinusType
    <2> QED
        BY <2>1, <2>3, CreateMessageSound DEF MessageType
  <1>2. find.type = "FIND_PREDECESSOR"
      BY DEF createMessage
  <1> HIDE DEF find
  <1>3. Follows(sent, s, I)
      BY <1>1, SendMessageFollows
  <1> HIDE DEF sent
  <1>4. Follows(r, sent, I) /\ TimerFor("RX_PREDECESSOR", find, 0) \in r.timers
    <2>1. 0 \in 0 .. CtxJoin /\ types \in SUBSET TimerType
        BY SeedAssumption DEF TimerType
    <2> QED
        BY <1>1, <1>2, <1>3, <2>1, PushTimersFollows DEF Follows
  <1>5. Awaits(TimerFor("RX_PREDECESSOR", find, 0))
      BY DEF Awaits, TimerFor
  <1> QED
      BY <1>3, <1>4, <1>5, FollowsIsTransitive
      DEF Keeps, Follows, Watched, issueFindPredecessor, find, sent

\* Whoever is asked for a finger is a node: m_seedAddrs is read within its range.
LEMMA FingerPastIsNode ==
    ASSUME NEW I, NEW s, Sound(s, I), s.seedAddrs # <<>>
    PROVE  fingerPast(s) \in Node
  <1> DEFINE lower == {j \in FingerIndex : j < s.cwFingerIndex /\ s.cwFingers[j] # s.id}
  <1>1. s.cwFingers[0] \in Node
      BY FingerZero DEF Sound, NodeState
  <1>2. lower # {} => s.cwFingers[highest(lower)] \in Node
    <2>1. lower \subseteq FingerIndex
        OBVIOUS
    <2> HIDE DEF lower
    <2>2. lower # {} => highest(lower) \in FingerIndex
        BY <2>1, HighestLowest
    <2> QED
        BY <2>2 DEF Sound, NodeState
  <1>3. s.seedAddrs[s.currSeed + 1] \in Node
    <2>1. /\ s.seedAddrs \in Seq(Node) /\ s.currSeed \in Nat
          /\ s.currSeed < Len(s.seedAddrs)
        BY DEF Sound, NodeState, SeedsInOrder
    <2> QED
        BY <2>1
  <1> QED
      BY <1>1, <1>2, <1>3 DEF fingerPast

\* A fix of a finger is begun with a timer that releases the lock, or not at all.
LEMMA IssueFindSuccessorSettles ==
    ASSUME NEW I \in SUBSET MessageID, NEW s, Sound(s, I), NEW mid \in I,
           s.seedAddrs # <<>>, s.cwFingerIndex \in FingerIndex
    PROVE  Keeps(issueFindSuccessor(s, mid), s, I) /\ Watched(issueFindSuccessor(s, mid))
  <1> DEFINE types == {"RX_SUCCESSOR", "RX_ACK"}
             find  == createMessage(s, "FIND_SUCCESSOR", fingerPast(s), mid,
                                    FingerStart(s.id, s.cwFingerIndex))
             sent  == sendMessage(s, find)
             r     == pushTimers(sent, types, find, 0)
  <1>1. find \in Message
    <2>1. s.id \in IdSpace
        BY NodeAssumption DEF Sound, NodeState
    <2>2. FingerMask[s.cwFingerIndex] \in IdSpace
        BY FingersAssumption
    <2>3. FingerStart(s.id, s.cwFingerIndex) \in IdSpace
        BY <2>1, <2>2, PlusMinusType DEF FingerStart
    <2> QED
        BY <2>3, FingerPastIsNode, CreateMessageSound DEF MessageType
  <1>2. find.type = "FIND_SUCCESSOR" /\ find.messageID = mid
      BY DEF createMessage
  <1> HIDE DEF find
  <1>3. Follows(sent, s, I)
      BY <1>1, SendMessageFollows
  <1> HIDE DEF sent
  <1>4. Follows(r, sent, I) /\ TimerFor("RX_SUCCESSOR", find, 0) \in r.timers
    <2>1. 0 \in 0 .. CtxJoin /\ types \in SUBSET TimerType
        BY SeedAssumption DEF TimerType
    <2>2. Sound(sent, I)
        BY <1>3 DEF Follows
    <2>3. "RX_SUCCESSOR" \in types /\ "RX_SUCCESSOR_ON_JOIN" \notin types
        OBVIOUS
    <2> HIDE DEF types
    <2> QED
        BY <1>1, <1>2, <2>1, <2>2, <2>3, PushTimersFollows
  <1>5. Awaits(TimerFor("RX_SUCCESSOR", find, 0))
      BY DEF Awaits, TimerFor
  <1>6. Keeps(r, s, I) /\ Watched(r)
      BY <1>3, <1>4, <1>5, FollowsIsTransitive DEF Keeps, Follows, Watched
  <1>7. Keeps(unlocked(s), s, I) /\ Watched(unlocked(s))
      BY UnlockedFollows DEF Keeps, Follows, Watched
  <1>8. issueFindSuccessor(s, mid) = IF find.dest = s.id THEN unlocked(s) ELSE r
      BY DEF issueFindSuccessor, find, sent, unlocked
  <1> QED
      BY <1>6, <1>7, <1>8

\* An expired UPDATE timer takes the lock only together with such a timer.
LEMMA UpdateExpiredSettles ==
    ASSUME NEW I \in SUBSET MessageID, NEW s, Sound(s, I), NEW mid \in I,
           s.updateTimers > 0
    PROVE  Settles(updateExpired(s, mid), s, I)
  <1> DEFINE locked == [s EXCEPT !.isNowUpdate = TRUE]
             first  == [locked EXCEPT !.isNowStabilize = TRUE]
             next   == setNextFingerToUpdate(locked)
  <1>1. Sound(locked, I) /\ locked.id = s.id /\ locked.state = s.state
        /\ locked.seedAddrs = s.seedAddrs /\ locked.isUpdated = s.isUpdated
    <2>1. locked \in NodeState
        BY DEF Sound, NodeState
    <2> QED
        BY <2>1 DEF Sound, NodeState, SeedsInOrder, TimersInOrder
  <1>2. s.seedAddrs # <<>>
      BY DEF Sound, SeedsInOrder
  <1> HIDE DEF locked
  <1>3. Sound(first, I) /\ first.id = s.id /\ first.state = s.state
    <2>1. /\ first \in NodeState /\ SamePlan(first, locked)
          /\ first.cwFingers[0] \in {first.successor, first.id}
        BY <1>1 DEF Sound, NodeState, SamePlan
    <2> QED
        BY <1>1, <2>1, SamePlanFollows DEF Follows, SamePlan
  <1>4. Sound(next, I) /\ next.id = s.id /\ next.state = s.state /\ next.seedAddrs # <<>>
      BY <1>1, <1>2, SetNextFingerToUpdateFollows DEF Follows, SamePlan
  <1>5. ASSUME staleFingers(s) # {} PROVE next.cwFingerIndex \in FingerIndex
    <2>1. staleFingers(locked) = staleFingers(s)
        BY <1>1 DEF staleFingers
    <2>2. lowest(staleFingers(locked)) \in FingerIndex
        BY <1>5, <2>1, HighestLowest DEF staleFingers
    <2>3. next = [locked EXCEPT !.cwFingerIndex = lowest(staleFingers(locked))]
        BY <1>5, <2>1 DEF setNextFingerToUpdate
    <2> QED
        BY <1>1, <2>2, <2>3 DEF Sound, NodeState
  <1> HIDE DEF first, next
  <1>6. Settles(issueFindPredecessor(first, mid), s, I)
      BY <1>3, IssueFindPredecessorSettles DEF Keeps, Settles
  <1>7. Settles(issueFindPredecessor(next, mid), s, I)
      BY <1>4, IssueFindPredecessorSettles DEF Keeps, Settles
  <1>8. ASSUME staleFingers(s) # {} PROVE Settles(issueFindSuccessor(next, mid), s, I)
      BY <1>4, <1>5, <1>8, IssueFindSuccessorSettles DEF Keeps, Settles
  <1>9. Settles(s, s, I)
      BY FollowsItself, FollowsSettles
  <1> QED
      BY <1>6, <1>7, <1>8, <1>9 DEF updateExpired, locked, first, next

-----------------------------------------------------------------------------
(* Expired timers and received messages. *)

\* A timer that does not hold the lock may be taken away at any time.
LEMMA TimerDroppedFollows ==
    ASSUME NEW I, NEW s, Sound(s, I), NEW t
    PROVE  /\ Keeps(timerDropped(s, t), s, I)
           /\ timerDropped(s, t).isNowUpdate = s.isNowUpdate
           /\ ~Awaits(t) => Follows(timerDropped(s, t), s, I)
  <1> DEFINE r == timerDropped(s, t)
  <1>1. s.timers \ {t} \in SUBSET Timer
      BY DEF Sound, NodeState
  <1>2. r \in NodeState
      BY <1>1 DEF Sound, NodeState, timerDropped
  <1>3. SeedsInOrder(r) /\ TimersInOrder(r, I)
      BY DEF Sound, NodeState, SeedsInOrder, TimersInOrder, timerDropped
  <1> QED
      BY <1>2, <1>3 DEF Sound, NodeState, Keeps, Follows, timerDropped

\* A JOIN that timed out is issued again.
LEMMA JoinExpiredFollows ==
    ASSUME NEW I \in SUBSET MessageID, NEW s, Sound(s, I), NEW t \in Timer, NEW mid \in I,
           ConfSeed[s.id] # <<>>
    PROVE  Follows(joinExpired(s, t, mid), s, I)
  <1> DEFINE rest == removeTimers(s, {"RX_ACK", "RX_SUCCESSOR_ON_JOIN"}, "JOIN", t.messageID)
             n    == IF t.requestCounter < CtxJoin THEN t.requestCounter + 1 ELSE 0
  <1>1. Follows(rest, s, I)
    <2>1. /\ Sound(rest, I) /\ rest.id = s.id /\ rest.state = s.state
          /\ rest.isNowUpdate = s.isNowUpdate
          /\ rest.timers = s.timers
                \ TimersOf(s, {"RX_ACK", "RX_SUCCESSOR_ON_JOIN"}, "JOIN", t.messageID)
        BY RemoveTimersSound
    <2> QED
        BY <2>1 DEF Follows, Awaits, TimersOf
  <1>2. n \in 0 .. CtxJoin
    <2>1. t.requestCounter \in 0 .. CtxJoin
        BY DEF Timer
    <2> QED
        BY <2>1, SeedAssumption
  <1> HIDE DEF rest, n
  <1>3. Follows(issueJoin(rest, n, mid), rest, I)
    <2>1. Sound(rest, I) /\ ConfSeed[rest.id] # <<>>
        BY <1>1 DEF Follows
    <2> QED
        BY <1>2, <2>1, IssueJoinFollows
  <1> QED
      BY <1>1, <1>3, FollowsIsTransitive DEF joinExpired, rest, n

\* Every expired timer that held the lock releases it.
LEMMA TimerExpiredSettles ==
    ASSUME NEW I \in SUBSET MessageID, NEW s, Sound(s, I), NEW t \in s.timers, NEW mid \in I
    PROVE  Settles(timerExpired(s, t, mid), s, I)
  <1> DEFINE rest == timerDropped(s, t)
             own  == removeTimers(rest, {"RX_SUCCESSOR"}, "FIND_SUCCESSOR", t.messageID)
             pred == removeTimers(rest, {"RX_PREDECESSOR"}, "FIND_PREDECESSOR", t.messageID)
             again == [unlocked(own) EXCEPT !.timers = @ \cup {t}]
             free == [unlocked(rest) EXCEPT !.isNowStabilize = FALSE]
  <1>1. t \in Timer
      BY DEF Sound, NodeState
  <1>2. /\ Sound(rest, I) /\ rest.id = s.id /\ rest.state \in {s.state, "IDLE"}
        /\ ~Awaits(t) => Follows(rest, s, I)
      BY TimerDroppedFollows DEF Keeps
  <1>3. timerExpired(s, t, mid) =
            IF t.type = "RX_ACK" THEN ackExpired(rest, t, mid)
            ELSE IF t.type = "RX_SUCCESSOR_ON_JOIN" THEN joinExpired(rest, t, mid)
            ELSE IF t.type = "RX_SUCCESSOR" THEN free
            ELSE setCopyPreviousAliveFinger(unlocked(rest), mid)
      BY DEF timerExpired, timerDropped
  <1> HIDE DEF rest
  \* Whatever follows an unlocked state is settled: there is no lock to watch.
  <1>4. ASSUME NEW q, Sound(q, I), q.id = s.id, q.state \in {s.state, "IDLE"},
               NEW r, Follows(r, unlocked(q), I)
        PROVE  Settles(r, s, I)
    <2>1. Follows(unlocked(q), q, I) /\ ~unlocked(q).isNowUpdate
        BY <1>4, UnlockedFollows
    <2> QED
        BY <1>4, <2>1 DEF Follows, Settles, Keeps, Watched
  <1>5. ASSUME t.type = "RX_SUCCESSOR_ON_JOIN" \/ t.retryMess = "JOIN",
               t.type \in {"RX_ACK", "RX_SUCCESSOR_ON_JOIN"}
        PROVE  Settles(joinExpired(rest, t, mid), s, I)
    <2>1. ConfSeed[s.id] # <<>>
        BY <1>5 DEF Sound, TimersInOrder
    <2>2. ~Awaits(t)
        BY <1>5 DEF Awaits
    <2>3. Follows(joinExpired(rest, t, mid), rest, I)
        BY <1>1, <1>2, <2>1, JoinExpiredFollows
    <2> QED
        BY <1>2, <2>2, <2>3, FollowsIsTransitive, FollowsSettles
  <1>6. /\ Sound(own, I) /\ own.id = s.id /\ own.state \in {s.state, "IDLE"}
        /\ Sound(pred, I) /\ pred.id = s.id /\ pred.state \in {s.state, "IDLE"}
      BY <1>2, RemoveTimersSound
  <1>7. Settles(findSuccessorNoAck(rest, t, mid), s, I)
    <2>1. Follows(setCopyPreviousAliveFinger(unlocked(own), mid), unlocked(own), I)
        BY <1>6, UnlockedFollows, SetCopyPreviousAliveFingerFollows DEF Follows
    <2> HIDE DEF own
    <2>2. Settles(setCopyPreviousAliveFinger(unlocked(own), mid), s, I)
        BY <1>4, <1>6, <2>1
    <2> QED
        BY <2>2 DEF findSuccessorNoAck, own
  <1>8. Settles(forwardNoAck(rest, t), s, I)
    <2> HIDE DEF own
    <2>1. /\ Sound(unlocked(own), I) /\ unlocked(own).id = s.id
          /\ unlocked(own).state \in {s.state, "IDLE"} /\ ~unlocked(own).isNowUpdate
        BY <1>6, UnlockedFollows DEF Follows
    <2>2. /\ t.type = "RX_SUCCESSOR_ON_JOIN" \/ t.retryMess = "JOIN" => ConfSeed[s.id] # <<>>
          /\ t.type \in {"RX_SUCCESSOR", "RX_SUCCESSOR_ON_JOIN"} => t.messageID \in I
        BY DEF Sound, TimersInOrder
    <2> DEFINE free1 == unlocked(own)
    <2>3. forwardNoAck(rest, t) = [free1 EXCEPT !.timers = @ \cup {t}]
        BY DEF forwardNoAck, own
    <2> HIDE DEF free1
    <2>4. [free1 EXCEPT !.timers = @ \cup {t}] \in NodeState
      <3>1. free1.timers \cup {t} \in SUBSET Timer
          BY <1>1, <2>1 DEF Sound, NodeState, free1
      <3> QED
          BY <2>1, <3>1 DEF Sound, NodeState, free1
    <2>5. Sound([free1 EXCEPT !.timers = @ \cup {t}], I)
        BY <2>1, <2>2, <2>4 DEF Sound, NodeState, SeedsInOrder, TimersInOrder, free1
    <2> QED
        BY <2>1, <2>3, <2>5 DEF Settles, Keeps, Watched, Sound, NodeState, free1
  <1>9. Settles(unlocked(pred), s, I) /\ Settles(unlocked(rest), s, I)
    <2> HIDE DEF pred
    <2>1. ASSUME NEW q \in {pred, rest} PROVE Follows(unlocked(q), unlocked(q), I)
        BY <1>2, <1>6, UnlockedFollows, FollowsItself DEF Follows
    <2> QED
        BY <1>2, <1>4, <1>6, <2>1
  <1>10. Settles(free, s, I)
    <2>1. Sound(unlocked(rest), I)
        BY <1>2, UnlockedFollows DEF Follows
    <2>2. Follows(free, unlocked(rest), I)
      <3>1. /\ free \in NodeState /\ SamePlan(free, unlocked(rest))
            /\ free.cwFingers[0] \in {free.successor, free.id}
          BY <2>1 DEF Sound, NodeState, SamePlan
      <3> QED
          BY <2>1, <3>1, SamePlanFollows
    <2> QED
        BY <1>2, <1>4, <2>2
  <1>11. Settles(setCopyPreviousAliveFinger(unlocked(rest), mid), s, I)
    <2>1. Follows(setCopyPreviousAliveFinger(unlocked(rest), mid), unlocked(rest), I)
        BY <1>2, UnlockedFollows, SetCopyPreviousAliveFingerFollows DEF Follows
    <2> QED
        BY <1>2, <1>4, <2>1
  <1>12. ASSUME t.type = "RX_ACK" PROVE Settles(ackExpired(rest, t, mid), s, I)
      BY <1>5, <1>7, <1>8, <1>9, <1>12 DEF ackExpired
  <1> HIDE DEF free
  <1> QED
      BY <1>3, <1>5, <1>10, <1>11, <1>12

\* Every handler of a received message leaves the node in order and the lock
\* watched, if requests of peers carry identifiers of their own.
LEMMA ReceivedSettles ==
    ASSUME NEW I \in SUBSET MessageID, NEW s, Sound(s, I), NEW m \in Message,
           NEW mid \in MessageID,
           m.type \in {"JOIN", "FIND_SUCCESSOR"} => m.messageID \notin I,
           m.type \in {"NOTIFY", "SUCCESSOR", "PREDECESSOR"} => m.searched \in Node,
           NEW r \in received(s, m, mid)
    PROVE  Settles(r, s, I)
  <1>1. Follows(s, s, I)
      BY FollowsItself
  <1>2. m.type \in {"JOIN", "FIND_SUCCESSOR"} => Follows(rxFindSuccessor(s, m), s, I)
      BY RxFindSuccessorFollows
  <1>3. Follows(rxFindPredecessor(s, m), s, I)
      BY RxFindPredecessorFollows
  <1>4. m.type = "NOTIFY" => Follows(rxNotify(s, m), s, I)
      BY RxNotifyFollows
  <1>5. m.type = "SUCCESSOR" => Follows(rxSuccessor(s, m), s, I)
      BY RxSuccessorFollows
  <1>6. m.type = "PREDECESSOR" => Settles(rxPredecessor(s, m, mid), s, I)
      BY RxPredecessorSettles
  <1>7. \A t \in ackTimers(s, m) : Follows(rxAck(s, t), s, I)
      BY RxAckFollows DEF ackTimers
  <1> QED
      BY <1>1, <1>2, <1>3, <1>4, <1>5, <1>6, <1>7, FollowsSettles DEF received

-----------------------------------------------------------------------------
(* Where a request goes. *)

IsRequest(m) == m.type \in {"JOIN", "FIND_SUCCESSOR"}

\* The node after the joining one is not reached on the way to the joining one.
LEMMA PastTheJoiner ==
    ASSUME NEW n \in IdSpace, NEW id \in IdSpace, n # id, Plus(n, 1) # id
    PROVE  ~isInRangeOverZero(Plus(n, 1), id, n) /\ Plus(n, 1) # n
BY MaxAssumption DEF isInRangeOverZero, Plus, IdSpace, IdCount

\* findSuccessor passes a request on neither to the node itself nor to the one
\* that began it, and lets nobody answer a JOIN but the node it names.
LEMMA FoundSuits ==
    ASSUME NEW s \in NodeState, NEW key \in IdSpace, NEW sender, NEW initiator \in Node,
           NEW isJoin \in BOOLEAN, initiator # s.id, isJoin => key = Plus(initiator, 1)
    PROVE  LET lookup == findSuccessor(s, key, sender, initiator, isJoin)
           IN  /\ lookup.found \in Node
               /\ lookup.action = "FORWARD" => lookup.found \notin {s.id, initiator}
               /\ lookup.action = "REPLY" /\ isJoin => lookup.found = s.id
  <1> DEFINE others    == {i \in FingerIndex : s.cwFingers[i] \notin {sender, initiator, s.id}}
             preceding == {i \in others : isInRangeOverZero(s.cwFingers[i], s.id, key)}
             lookup    == findSuccessor(s, key, sender, initiator, isJoin)
  <1>1. preceding # {} => s.cwFingers[highest(preceding)] \notin {s.id, initiator}
    <2>1. preceding \subseteq FingerIndex /\ preceding \subseteq others
        OBVIOUS
    <2>2. \A i \in others : s.cwFingers[i] \notin {s.id, initiator}
        OBVIOUS
    <2> HIDE DEF preceding, others
    <2> QED
        BY <2>1, <2>2, HighestLowest
  <1>2. others # {} => s.cwFingers[lowest(others)] \notin {s.id, initiator}
    <2>1. others \subseteq FingerIndex
        OBVIOUS
    <2>2. \A i \in others : s.cwFingers[i] \notin {s.id, initiator}
        OBVIOUS
    <2> HIDE DEF others
    <2> QED
        BY <2>1, <2>2, HighestLowest
  <1>3. lookup.found \in Node
      BY FindSuccessorFindsNode
  <1>4. /\ s.id \in IdSpace /\ initiator \in IdSpace
        /\ isJoin /\ key # s.id => ~isInRangeOverZero(key, s.id, initiator) /\ key # initiator
      BY NodeAssumption, PastTheJoiner DEF NodeState
  <1> QED
      BY <1>1, <1>2, <1>3, <1>4 DEF findSuccessor

-----------------------------------------------------------------------------
(* The exchanges of the periodic update: one while the lock is up, none while  *)
(* it is down.                                                                 *)

\* The ACK timer of a node's own FIND_SUCCESSOR or FIND_PREDECESSOR.
OwnAck(t) == /\ t.type = "RX_ACK" /\ t.retransmitCounter = 0
             /\ t.retryMess \in {"FIND_SUCCESSOR", "FIND_PREDECESSOR"}

\* An answer to t's request is still waited for.
Companion(u, t) == /\ u.type \in {"RX_SUCCESSOR", "RX_PREDECESSOR"}
                   /\ u.retryMess = t.retryMess /\ u.messageID = t.messageID

\* While the lock is up one timer will release it, and the ACK timers are those
\* of that exchange; while it is down there is no such timer.
LockInOrder(s) ==
    /\ s.isNowUpdate =>
           /\ \E t \in s.timers : Awaits(t) /\ \A u \in s.timers : Awaits(u) => u = t
           /\ \A t \in s.timers : OwnAck(t) => \E u \in s.timers : Companion(u, t)
    /\ ~s.isNowUpdate => \A t \in s.timers : ~Awaits(t)

\* The timer of an answer is that of its request.
Answering(t) ==
    /\ t.type = "RX_SUCCESSOR" => t.retryMess = "FIND_SUCCESSOR"
    /\ t.type = "RX_PREDECESSOR" => t.retryMess = "FIND_PREDECESSOR"
    /\ t.retryMess = "FIND_PREDECESSOR" => t.retransmitCounter = 0

\* The finger asked for is the one under the index, and a node that asks for a
\* finger, or has found finger 0, knows another node.
FingerFits(s) ==
    /\ \A t \in s.timers : t.type = "RX_SUCCESSOR" =>
           /\ s.cwFingerIndex \in FingerIndex /\ s.successor # s.id
           /\ t.searched = FingerStart(s.id, s.cwFingerIndex)
    /\ 0 \in s.isUpdated => s.successor # s.id

\* A node that has not joined yet updates nothing.
NotYetJoined(s) == ConfSeed[s.id] # <<>> /\ ~s.isSuccessorSet

Tidy(s) == /\ LockInOrder(s)
           /\ \A t \in s.timers : Answering(t)
           /\ FingerFits(s)
           /\ NotYetJoined(s) => s.updateTimers = 0 /\ ~s.isNowUpdate
           /\ s.state = "OFF" => s.timers = {} /\ s.updateTimers = 0

\* A timer that belongs to no exchange of the node's own.
Foreign(t) ==
    \/ t.type \in {"RX_ACK", "RX_SUCCESSOR_ON_JOIN"} /\ t.retryMess = "JOIN"
    \/ t.type = "RX_ACK" /\ t.retryMess = "FIND_SUCCESSOR" /\ t.retransmitCounter # 0

\* r goes on with whatever exchange s has open, or has none open.
GoesOn(r, s) ==
    /\ r.id = s.id /\ r.state # "OFF" /\ r.isNowUpdate = s.isNowUpdate
    /\ \A t : Awaits(t) => (t \in r.timers <=> t \in s.timers)
    /\ \A t \in r.timers : t \in s.timers \/ Foreign(t)
    /\ s.successor # s.id => r.successor # s.id /\ r.cwFingerIndex = s.cwFingerIndex
    /\ 0 \in r.isUpdated => 0 \in s.isUpdated \/ r.successor # s.id
    /\ NotYetJoined(r) => NotYetJoined(s) /\ r.updateTimers = s.updateTimers

\* Such a state is as tidy as the one before.
LEMMA GoesOnTidy ==
    ASSUME NEW s, NEW r, Tidy(s), GoesOn(r, s)
    PROVE  Tidy(r)
  <1>1. LockInOrder(r)
    <2>1. ASSUME r.isNowUpdate
          PROVE  /\ \E t \in r.timers : Awaits(t) /\ \A u \in r.timers : Awaits(u) => u = t
                 /\ \A t \in r.timers : OwnAck(t) => \E u \in r.timers : Companion(u, t)
      <3>1. \E t \in r.timers : Awaits(t) /\ \A u \in r.timers : Awaits(u) => u = t
          BY <2>1 DEF Tidy, LockInOrder, GoesOn
      <3>2. ASSUME NEW t \in r.timers, OwnAck(t) PROVE \E u \in r.timers : Companion(u, t)
        <4>1. t \in s.timers
            BY <3>2 DEF GoesOn, Foreign, OwnAck
        <4>2. PICK u \in s.timers : Companion(u, t)
            BY <2>1, <3>2, <4>1 DEF Tidy, LockInOrder, GoesOn
        <4>3. Awaits(u)
            BY <4>2 DEF Companion, Awaits
        <4> QED
            BY <4>2, <4>3 DEF GoesOn
      <3> QED BY <3>1, <3>2
    <2>2. ASSUME ~r.isNowUpdate PROVE \A t \in r.timers : ~Awaits(t)
        BY <2>2 DEF Tidy, LockInOrder, GoesOn
    <2> QED
        BY <2>1, <2>2 DEF LockInOrder
  <1>2. \A t \in r.timers : Answering(t)
      BY DEF Tidy, GoesOn, Foreign, Answering
  <1>3. FingerFits(r)
    <2>1. \A t \in r.timers : t.type = "RX_SUCCESSOR" => t \in s.timers
        BY DEF GoesOn, Awaits
    <2> QED
        BY <2>1 DEF Tidy, FingerFits, GoesOn
  <1>4. NotYetJoined(r) => r.updateTimers = 0 /\ ~r.isNowUpdate
      BY DEF Tidy, GoesOn
  <1> QED
      BY <1>1, <1>2, <1>3, <1>4 DEF Tidy, GoesOn

\* One handler calls another.
LEMMA GoesOnIsTransitive ==
    ASSUME NEW q, NEW r, NEW s, GoesOn(q, r), GoesOn(r, s)
    PROVE  GoesOn(q, s)
BY DEF GoesOn, NotYetJoined

\* A handler may leave the node as it is.
LEMMA GoesOnItself ==
    ASSUME NEW s, s.state # "OFF"
    PROVE  GoesOn(s, s)
BY DEF GoesOn

\* r has no exchange open: s had the lock up for one exchange at most, and r has
\* given up the lock and the timer of that exchange.
Closes(r, s) ==
    /\ r.id = s.id /\ r.state # "OFF" /\ ~r.isNowUpdate
    /\ \A t \in r.timers : ~Awaits(t) /\ (t \in s.timers \/ Foreign(t))
    /\ 0 \in r.isUpdated => (0 \in s.isUpdated /\ r.successor = s.successor) \/ r.successor # s.id
    /\ NotYetJoined(r) => NotYetJoined(s) /\ r.updateTimers = s.updateTimers

\* A node that has closed its exchange is tidy.
LEMMA ClosesTidy ==
    ASSUME NEW s, NEW r, Tidy(s), Closes(r, s)
    PROVE  Tidy(r)
  <1>1. LockInOrder(r)
      BY DEF LockInOrder, Closes
  <1>2. \A t \in r.timers : Answering(t)
      BY DEF Tidy, Closes, Foreign, Answering
  <1>3. FingerFits(r)
      BY DEF Tidy, FingerFits, Closes, Awaits
  <1> QED
      BY <1>1, <1>2, <1>3 DEF Tidy, Closes

\* A reset node is tidy, whatever it was before.
LEMMA HardResetTidy ==
    ASSUME NEW s \in NodeState, NEW mid
    PROVE  Tidy(hardReset(s, mid))
  <1> DEFINE r == hardReset(s, mid)
  <1>1. \A t \in r.timers : t.type \in {"RX_ACK", "RX_SUCCESSOR_ON_JOIN"} /\ t.retryMess = "JOIN"
      BY DEF NodeState, hardReset, flush, goStateInit, softReset, issueJoin, pushTimers,
         sendMessage, createMessage, TimerFor
  <1>2. /\ r.isNowUpdate = FALSE /\ r.isUpdated = {} /\ r.updateTimers = 0 /\ r.state = "IDLE"
      BY DEF NodeState, hardReset, flush, goStateInit, softReset, issueJoin, pushTimers, sendMessage
  <1> HIDE DEF r
  <1>3. Tidy(r)
      BY <1>1, <1>2 DEF Tidy, LockInOrder, Answering, FingerFits, Awaits
  <1> QED
      BY <1>3 DEF r

-----------------------------------------------------------------------------
(* What the handlers make of an exchange. *)

\* A request of a peer leaves the exchange of the node alone: the index of the
\* finger being fixed moves only in a node that asks nobody.
LEMMA RxFindSuccessorGoesOn ==
    ASSUME NEW I, NEW s, Sound(s, I), s.state # "OFF", NEW m \in Message,
           IsRequest(m), m.initiator # s.id, m.messageID \notin I,
           m.isJoin => m.searched = Plus(m.initiator, 1)
    PROVE  GoesOn(rxFindSuccessor(s, m), s)
  <1> DEFINE learnt == learnSeed(s, m)
             acked  == sendMessage(learnt, createAckMessage(learnt, m))
             lookup == findSuccessor(acked, m.searched, m.src, m.initiator, m.isJoin)
  <1>1. Sound(learnt, I) /\ learnt.id = s.id
      BY LearnSeedFollows DEF Follows
  <1>2. GoesOn(learnt, s) /\ learnt.state = s.state
      BY DEF GoesOn, NotYetJoined, learnSeed, pushUpdateTimer, Sound, SeedsInOrder, NodeState
  <1> HIDE DEF learnt
  <1>3. Sound(acked, I) /\ acked.id = s.id
      BY <1>1, AckFollows DEF Follows
  <1>4. GoesOn(acked, learnt) /\ acked.state = s.state
      BY <1>1, <1>2 DEF GoesOn, NotYetJoined, sendMessage, Sound, NodeState
  <1> HIDE DEF acked
  <1>5. lookup.action = "FORWARD" => lookup.found \notin {s.id, m.initiator}
    <2>1. m.searched \in IdSpace /\ m.initiator \in Node /\ m.isJoin \in BOOLEAN
        BY DEF Message
    <2> QED
        BY <1>3, <2>1, FoundSuits DEF Sound
  <1>6. lookup.action \in {"REPLY", "FORWARD"}
      BY DEF findSuccessor
  <1> HIDE DEF lookup
  <1>7. CASE lookup.action = "FORWARD"
    <2>1. m.retransmitCounter + 1 # 0
        BY DEF Message
    <2>2. GoesOn(forwardFindSuccessor(acked, m, lookup.found), acked)
      <3> DEFINE fwd == [m EXCEPT !.type = "FIND_SUCCESSOR", !.src = acked.id,
                                  !.dest = lookup.found, !.service = acked.id,
                                  !.retransmitCounter = @ + 1]
                 sent == sendMessage(acked, fwd)
                 r    == forwardFindSuccessor(acked, m, lookup.found)
      <3>1. fwd.type = "FIND_SUCCESSOR" /\ fwd.retransmitCounter # 0
          BY <2>1 DEF Message
      <3>2. r = pushTimers(sent, {"RX_ACK"}, fwd, 0)
          BY <1>3, <1>5, <1>7 DEF forwardFindSuccessor
      <3> HIDE DEF fwd
      <3>3. r = [sent EXCEPT !.timers = @ \cup {TimerFor("RX_ACK", fwd, 0)}]
        <4>1. {TimerFor(type, fwd, 0) : type \in {"RX_ACK"}} = {TimerFor("RX_ACK", fwd, 0)}
            OBVIOUS
        <4> QED
            BY <3>2, <4>1 DEF pushTimers
      <3>4. Foreign(TimerFor("RX_ACK", fwd, 0)) /\ ~Awaits(TimerFor("RX_ACK", fwd, 0))
          BY <3>1 DEF Foreign, TimerFor, Awaits
      <3> DEFINE t == TimerFor("RX_ACK", fwd, 0)
      <3> HIDE DEF t
      <3>5. /\ r.timers = acked.timers \cup {t} /\ r.id = acked.id /\ r.state = acked.state
            /\ r.isNowUpdate = acked.isNowUpdate /\ r.successor = acked.successor
            /\ r.cwFingerIndex = acked.cwFingerIndex /\ r.isUpdated = acked.isUpdated
            /\ r.isSuccessorSet = acked.isSuccessorSet /\ r.updateTimers = acked.updateTimers
          BY <1>3, <3>3 DEF t, sendMessage, Sound, NodeState
      <3> HIDE DEF r
      <3>6. GoesOn(r, acked)
          BY <1>3, <1>4, <3>4, <3>5 DEF t, GoesOn, NotYetJoined
      <3> QED
          BY <3>6 DEF r
    <2>3. rxFindSuccessor(s, m) = forwardFindSuccessor(acked, m, lookup.found)
        BY <1>7 DEF rxFindSuccessor, lookup, acked, learnt
    <2> QED
        BY <1>2, <1>4, <2>2, <2>3, GoesOnIsTransitive
  <1>8. CASE lookup.action = "REPLY"
    <2> DEFINE replied == sendMessage(acked, createSuccessorMessage(acked, m, lookup.found))
               cleared == [replied EXCEPT !.isNowStabilize = FALSE]
               adopted == setPredecessor(cleared, m.initiator)
               placed  == setSuccessorRemoveTimers(adopted, m.initiator, m.messageID)
    <2>1. replied = [acked EXCEPT !.tx = replied.tx]
        BY <1>3 DEF sendMessage, Sound, NodeState
    <2>2. /\ GoesOn(replied, acked) /\ GoesOn(adopted, acked)
          /\ adopted.successor = acked.successor /\ replied.successor = acked.successor
          /\ adopted.timers = acked.timers /\ adopted.id = acked.id
          /\ adopted.isSuccessorSet = acked.isSuccessorSet
      <3>1. acked \in NodeState
          BY <1>3 DEF Sound
      <3> DEFINE tx == replied.tx
      <3>2. replied = [acked EXCEPT !.tx = tx]
          BY <2>1
      <3> HIDE DEF replied, tx
      <3> QED
          BY <1>3, <1>4, <3>1, <3>2 DEF GoesOn, NotYetJoined, setPredecessor, NodeState
    <2>3. ASSUME acked.successor = acked.id PROVE GoesOn(placed, acked)
      <3>1. \A t \in acked.timers : t.type = "RX_SUCCESSOR" => t.messageID # m.messageID
          BY <1>3 DEF Sound, TimersInOrder
      <3>2. adopted \in NodeState
        <4>1. Append(acked.tx, createSuccessorMessage(acked, m, lookup.found)) \in Seq(Message)
          <5>1. createSuccessorMessage(acked, m, lookup.found) \in Message
            <6>1. lookup.found \in Node
                BY <1>3, FindSuccessorFindsNode DEF lookup, Sound
            <6>2. /\ lookup.found \in IdSpace /\ m.initiator \in Node /\ m.messageID \in MessageID
                  /\ acked.predecessor \in Node /\ acked.id \in Node
                BY <1>3, <6>1, NodeAssumption DEF Message, Sound, NodeState
            <6> QED
                BY <6>2 DEF createSuccessorMessage, createMessage, Message, MessageType
          <5> QED
              BY <1>3, <5>1 DEF Sound, NodeState
        <4>2. m.initiator \in Node
            BY DEF Message
        <4> QED
            BY <1>3, <4>1, <4>2 DEF sendMessage, setPredecessor, Sound, NodeState
      <3> HIDE DEF adopted
      <3>3. /\ placed.id = acked.id /\ placed.state = adopted.state
            /\ placed.isNowUpdate = adopted.isNowUpdate
            /\ placed.successor = m.initiator /\ placed.isSuccessorSet
          BY <2>2, <3>2 DEF setSuccessorRemoveTimers, removeTimers, NodeState
      <3>4. placed.timers \subseteq acked.timers
          BY <2>2, <3>2 DEF setSuccessorRemoveTimers, removeTimers, NodeState
      <3>5. \A t \in acked.timers : Awaits(t) => t \in placed.timers
          BY <2>2, <3>1, <3>2 DEF setSuccessorRemoveTimers, removeTimers, NodeState, TimersOf, Awaits
      <3> HIDE DEF placed
      <3> QED
          BY <1>3, <2>2, <2>3, <3>3, <3>4, <3>5 DEF GoesOn, NotYetJoined
    <2>4. \/ rxFindSuccessor(s, m) = replied
          \/ rxFindSuccessor(s, m) = adopted
          \/ rxFindSuccessor(s, m) = placed /\ acked.successor = acked.id
      <3>1. rxFindSuccessor(s, m) = adoptJoiner(replied, m) \/ rxFindSuccessor(s, m) = replied
          BY <1>8 DEF rxFindSuccessor, replyFindSuccessor, lookup, acked, learnt
      <3>2. replied.id = acked.id
          BY <1>3 DEF sendMessage, Sound, NodeState
      <3>3. adoptJoiner(replied, m) = IF replied.successor = replied.id THEN placed ELSE adopted
          BY DEF adoptJoiner
      <3> HIDE DEF placed, adopted, replied
      <3> QED
          BY <2>2, <3>1, <3>2, <3>3
    <2> HIDE DEF placed, adopted, replied
    <2> QED
        BY <1>2, <1>4, <2>2, <2>3, <2>4, GoesOnIsTransitive
  <1> QED
      BY <1>6, <1>7, <1>8

\* FIND_PREDECESSOR and NOTIFY concern neither timers nor fingers.
LEMMA RxNotifyGoesOn ==
    ASSUME NEW I, NEW s, Sound(s, I), s.state # "OFF", NEW m \in Message
    PROVE  GoesOn(rxFindPredecessor(s, m), s) /\ GoesOn(rxNotify(s, m), s)
  <1> DEFINE acked == sendMessage(s, createAckMessage(s, m))
  <1>1. acked \in NodeState /\ acked.id = s.id
      BY AckFollows DEF Follows, Sound
  <1>2. GoesOn(acked, s)
      BY DEF GoesOn, NotYetJoined, sendMessage, Sound, NodeState
  <1> HIDE DEF acked
  <1>3. \A msg : GoesOn(sendMessage(acked, msg), acked)
      BY <1>1, <1>2 DEF GoesOn, NotYetJoined, sendMessage, NodeState
  <1>4. \A addr : GoesOn(setPredecessor(acked, addr), acked)
      BY <1>1, <1>2 DEF GoesOn, NotYetJoined, setPredecessor, NodeState
  <1> QED
      BY <1>2, <1>3, <1>4, GoesOnIsTransitive DEF rxFindPredecessor, rxNotify, acked

\* The answer to a JOIN finds no exchange open, and names another node.
LEMMA JoinAnsweredCloses ==
    ASSUME NEW I, NEW s, Sound(s, I), Tidy(s), s.state # "OFF", NEW m \in Message,
           m.searched \in Node, m.searched # s.id, ~s.isSuccessorSet, ConfSeed[s.id] # <<>>
    PROVE  Closes(joinAnswered(s, m), s)
  <1> DEFINE known  == setPredecessor(s, m.service)
             placed == setSuccessorRemoveTimers(known, m.searched, m.messageID)
             r      == joinAnswered(s, m)
  <1>1. ~s.isNowUpdate /\ \A t \in s.timers : ~Awaits(t)
      BY DEF Tidy, NotYetJoined, LockInOrder
  <1>2. Sound(placed, I)
    <2>1. m.service \in Node
        BY DEF Message
    <2>2. Sound(known, I)
        BY <2>1, SetPredecessorFollows DEF Follows
    <2>3. ~known.isSuccessorSet
        BY DEF setPredecessor, Sound, NodeState
    <2> HIDE DEF known
    <2> QED
        BY <2>2, <2>3, SetSuccessorFollows DEF Follows
  <1>3. /\ placed.timers \subseteq s.timers /\ placed.id = s.id /\ placed.state = s.state
        /\ placed.isNowUpdate = s.isNowUpdate /\ placed.successor = m.searched
        /\ placed.isSuccessorSet
      BY DEF setPredecessor, setSuccessorRemoveTimers, removeTimers, Sound, NodeState
  <1>4. r = pushUpdateTimer(setNextFingerToUpdate(placed))
      BY DEF joinAnswered
  <1> HIDE DEF placed, r
  <1>5. /\ r.timers \subseteq s.timers /\ r.id = s.id /\ r.state = s.state
        /\ r.isNowUpdate = s.isNowUpdate /\ r.successor = m.searched /\ r.isSuccessorSet
      BY <1>2, <1>3, <1>4 DEF setNextFingerToUpdate, pushUpdateTimer, Sound, NodeState
  <1>6. Closes(r, s)
      BY <1>1, <1>5 DEF Closes, NotYetJoined
  <1> QED
      BY <1>6 DEF r

\* The answer to a FIND_SUCCESSOR closes the exchange, for the index is in range.
LEMMA FingerAnsweredCloses ==
    ASSUME NEW I, NEW s, Sound(s, I), Tidy(s), s.state # "OFF", NEW m \in Message,
           TimersOf(s, {"RX_SUCCESSOR"}, "FIND_SUCCESSOR", m.messageID) # {}
    PROVE  Closes(fingerAnswered(s, m), s)
  <1> DEFINE r == fingerAnswered(s, m)
             gone == TimersOf(s, {"RX_ACK", "RX_SUCCESSOR"}, "FIND_SUCCESSOR", m.messageID)
  <1>1. PICK t \in s.timers : t.type = "RX_SUCCESSOR" /\ t.retryMess = "FIND_SUCCESSOR"
                                /\ t.messageID = m.messageID
      BY DEF TimersOf
  <1>2. Awaits(t)
      BY <1>1 DEF Awaits
  <1>3. s.isNowUpdate /\ \A u \in s.timers : Awaits(u) => u = t
      BY <1>2 DEF Tidy, LockInOrder
  <1>4. s.cwFingerIndex \in FingerIndex /\ s.successor # s.id
      BY <1>1 DEF Tidy, FingerFits
  <1>5. ~NotYetJoined(s)
      BY <1>3 DEF Tidy
  <1>6. /\ r.timers = s.timers \ gone /\ r.id = s.id /\ r.state = s.state
        /\ r.isNowUpdate = FALSE /\ (r.successor = s.successor \/ r.successor # s.id)
        /\ r.isSuccessorSet = s.isSuccessorSet
      BY <1>4 DEF fingerAnswered, setFingerRemoveTimers, removeTimers, TimersOf, Sound, NodeState
  <1>7. t \in gone
      BY <1>1 DEF TimersOf
  <1> HIDE DEF r, gone
  <1>8. Closes(r, s)
      BY <1>3, <1>4, <1>5, <1>6, <1>7 DEF Closes, NotYetJoined
  <1> QED
      BY <1>8 DEF r

\* The answer to a FIND_PREDECESSOR hands the lock over to the NOTIFY.
LEMMA RxPredecessorTidy ==
    ASSUME NEW I, NEW s, Sound(s, I), Tidy(s), s.state # "OFF", NEW m \in Message,
           m.searched \in Node, NEW mid \in MessageID
    PROVE  Tidy(rxPredecessor(s, m, mid))
  <1> DEFINE stable == setSuccessorStabilize(s, m.searched, m.messageID)
             next   == setNextFingerToUpdate(stable)
             r      == issueNotify(next, mid)
             gone   == TimersOf(s, {"RX_ACK", "RX_PREDECESSOR"}, "FIND_PREDECESSOR", m.messageID)
  <1>1. CASE TimersOf(s, {"RX_PREDECESSOR"}, "FIND_PREDECESSOR", m.messageID) = {}
      BY <1>1 DEF rxPredecessor
  <1>2. CASE TimersOf(s, {"RX_PREDECESSOR"}, "FIND_PREDECESSOR", m.messageID) # {}
    <2>1. PICK t \in s.timers : t.type = "RX_PREDECESSOR" /\ t.retryMess = "FIND_PREDECESSOR"
                                  /\ t.messageID = m.messageID
        BY <1>2 DEF TimersOf
    <2>2. Awaits(t) /\ t \in gone
        BY <2>1 DEF Awaits, TimersOf
    <2>3. s.isNowUpdate /\ \A u \in s.timers : Awaits(u) => u = t
        BY <2>2 DEF Tidy, LockInOrder
    <2>4. ASSUME NEW a \in s.timers, OwnAck(a) PROVE a \in gone
      <3>1. PICK u \in s.timers : Companion(u, a)
          BY <2>3, <2>4 DEF Tidy, LockInOrder
      <3>2. u = t
          BY <2>3, <3>1 DEF Companion, Awaits
      <3> QED
          BY <2>1, <2>4, <3>1, <3>2 DEF Companion, OwnAck, TimersOf
    <2>5. Sound(stable, I)
        BY SetSuccessorStabilizeKeeps DEF Keeps
    <2>6. /\ stable.timers = s.timers \ gone /\ stable.id = s.id /\ stable.state = s.state
          /\ stable.isNowUpdate = s.isNowUpdate /\ stable.isSuccessorSet
        BY DEF setSuccessorStabilize, removeTimers, TimersOf, Sound, NodeState
    <2>7. 0 \in stable.isUpdated => stable.successor # s.id
      <3>1. \/ stable.successor = s.successor /\ stable.isUpdated = s.isUpdated
            \/ /\ stable.successor = m.searched
               /\ isInRangeOverZeroNotInc(m.searched, s.id, s.successor)
          BY DEF setSuccessorStabilize, removeTimers, Sound, NodeState
      <3>2. ~isInRangeOverZeroNotInc(s.id, s.id, s.successor)
        <4>1. s.id \in IdSpace /\ s.successor \in IdSpace
            BY NodeAssumption DEF Sound, NodeState
        <4> QED
            BY <4>1, OpenRangeIsInside DEF InsideArc
      <3> QED
          BY <3>1, <3>2 DEF Tidy, FingerFits
    <2> HIDE DEF stable, gone
    <2>8. Sound(next, I)
        BY <2>5, SetNextFingerToUpdateFollows DEF Follows
    <2>9. /\ next.timers = s.timers \ gone /\ next.id = s.id /\ next.state = s.state
          /\ next.isNowUpdate /\ next.isSuccessorSet
          /\ 0 \in next.isUpdated => next.successor # s.id
        BY <2>3, <2>5, <2>6, <2>7 DEF setNextFingerToUpdate, Sound, NodeState
    <2> HIDE DEF next
    <2> DEFINE T == TimerFor("RX_ACK", createMessage(next, "NOTIFY", next.successor, mid, next.id), 0)
    <2>10. /\ r.timers = next.timers \cup {T} /\ r.id = next.id /\ r.state = next.state
           /\ r.isNowUpdate = next.isNowUpdate /\ r.isSuccessorSet = next.isSuccessorSet
           /\ r.isUpdated = next.isUpdated /\ r.successor = next.successor
        BY <2>8 DEF issueNotify, pushTimers, sendMessage, Sound, NodeState
    <2>11. T.type = "RX_ACK" /\ T.retryMess = "NOTIFY"
        BY DEF TimerFor, createMessage
    <2>12. rxPredecessor(s, m, mid) = r
        BY <1>2 DEF rxPredecessor, next, stable
    <2> HIDE DEF r, T
    <2>13. Awaits(T) /\ ~OwnAck(T) /\ Answering(T) /\ T.type # "RX_SUCCESSOR"
        BY <2>11 DEF Awaits, OwnAck, Answering
    <2>14. LockInOrder(r)
        BY <2>2, <2>3, <2>4, <2>9, <2>10, <2>13 DEF LockInOrder
    <2>15. FingerFits(r)
      <3>1. \A u \in r.timers : u.type # "RX_SUCCESSOR"
          BY <2>2, <2>3, <2>9, <2>10, <2>13 DEF Awaits
      <3> QED
          BY <2>9, <2>10, <3>1 DEF FingerFits
    <2> QED
        BY <2>9, <2>10, <2>12, <2>13, <2>14, <2>15 DEF Tidy, NotYetJoined
  <1> QED
      BY <1>1, <1>2

\* An ACK closes the exchange if it is that of the NOTIFY, and no other.
LEMMA RxAckTidy ==
    ASSUME NEW s \in NodeState, Tidy(s), s.state # "OFF", NEW t \in s.timers, t.type = "RX_ACK"
    PROVE  Tidy(rxAck(s, t))
  <1> DEFINE r == rxAck(s, t)
  <1>1. /\ r.timers = s.timers \ {t} /\ r.id = s.id /\ r.state = s.state
        /\ r.successor = s.successor /\ r.cwFingerIndex = s.cwFingerIndex
        /\ r.isUpdated = s.isUpdated /\ r.isSuccessorSet = s.isSuccessorSet
        /\ r.updateTimers = s.updateTimers
        /\ r.isNowUpdate = IF t.retryMess = "NOTIFY" THEN FALSE ELSE s.isNowUpdate
      BY DEF rxAck, NodeState
  <1> HIDE DEF r
  <1>2. CASE t.retryMess = "NOTIFY"
    <2>1. Awaits(t)
        BY <1>2 DEF Awaits
    <2>2. \A u \in s.timers : Awaits(u) => u = t
        BY <2>1 DEF Tidy, LockInOrder
    <2>3. Closes(r, s)
        BY <1>1, <1>2, <2>2 DEF Closes, NotYetJoined
    <2>4. Tidy(r)
        BY <2>3, ClosesTidy
    <2> QED
        BY <2>4 DEF r
  <1>3. CASE t.retryMess # "NOTIFY"
    <2>1. ~Awaits(t)
        BY <1>3 DEF Awaits
    <2>2. GoesOn(r, s)
        BY <1>1, <1>3, <2>1 DEF GoesOn, NotYetJoined
    <2>3. Tidy(r)
        BY <2>2, GoesOnTidy
    <2> QED
        BY <2>3 DEF r
  <1> QED
      BY <1>2, <1>3

\* A JOIN issued again goes on with the exchange, or with none.
LEMMA JoinExpiredGoesOn ==
    ASSUME NEW s \in NodeState, s.state # "OFF", NEW t, NEW mid
    PROVE  GoesOn(joinExpired(s, t, mid), s)
  <1> DEFINE past == removeTimers(s, {"RX_ACK", "RX_SUCCESSOR_ON_JOIN"}, "JOIN", t.messageID)
             gone == TimersOf(s, {"RX_ACK", "RX_SUCCESSOR_ON_JOIN"}, "JOIN", t.messageID)
  <1>1. /\ past = [s EXCEPT !.timers = s.timers \ gone]
        /\ \A u \in gone : ~Awaits(u)
      BY DEF removeTimers, TimersOf, Awaits, NodeState
  <1> HIDE DEF past, gone
  <1>2. ASSUME NEW n PROVE GoesOn(issueJoin(past, n, mid), s)
    <2> DEFINE r == issueJoin(past, n, mid)
    <2>1. /\ r.id = s.id /\ r.state = s.state
          /\ r.isNowUpdate = s.isNowUpdate /\ r.isSuccessorSet = s.isSuccessorSet
          /\ r.isUpdated = s.isUpdated /\ r.successor = s.successor
          /\ r.cwFingerIndex = s.cwFingerIndex /\ r.updateTimers = s.updateTimers
        BY <1>1 DEF issueJoin, pushTimers, sendMessage, NodeState
    <2>2. \A u \in r.timers : u \in past.timers \/ Foreign(u)
        BY <1>1 DEF issueJoin, pushTimers, sendMessage, NodeState, createMessage, TimerFor, Foreign
    <2>3. past.timers \subseteq r.timers /\ past.timers = s.timers \ gone
        BY <1>1 DEF issueJoin, pushTimers, sendMessage, NodeState
    <2> HIDE DEF r
    <2>4. \A u : Foreign(u) => ~Awaits(u)
        BY DEF Foreign, Awaits
    <2>5. GoesOn(r, s)
        BY <1>1, <2>1, <2>2, <2>3, <2>4 DEF GoesOn, NotYetJoined
    <2> QED
        BY <2>5 DEF r
  <1> QED
      BY <1>2 DEF joinExpired, past

\* Copying a finger from one that is alive keeps a node tidy that has no
\* exchange open, and so does the reset instead of it.
LEMMA CopyTidy ==
    ASSUME NEW s \in NodeState, Tidy(s), s.state # "OFF", ~s.isNowUpdate, NEW mid
    PROVE  Tidy(setCopyPreviousAliveFinger(s, mid))
  <1> DEFINE i     == s.cwFingerIndex
             found == aliveFingers(s) # {}
             alive == IF found THEN s.cwFingers[highest(aliveFingers(s))] ELSE s.predecessor
             r     == [s EXCEPT !.cwFingers[i] = alive, !.isUpdated = @ \cup {i},
                                !.successor = IF i = 0 THEN alive ELSE @, !.cwFingerIndex = i + 1]
  <1>1. Tidy(hardReset(s, mid))
      BY HardResetTidy
  <1>2. ASSUME found \/ s.predecessor # s.id, i \in FingerIndex PROVE Tidy(r)
    <2>1. found => s.cwFingers[highest(aliveFingers(s))] # s.id
      <3>1. aliveFingers(s) \subseteq FingerIndex /\ \A j \in aliveFingers(s) : s.cwFingers[j] # s.id
          BY DEF aliveFingers, NodeState
      <3> QED
          BY <3>1, HighestLowest
    <2>2. alive # s.id
        BY <1>2, <2>1
    <2> HIDE DEF alive
    <2>3. /\ r.timers = s.timers /\ r.id = s.id /\ r.state = s.state
          /\ r.isNowUpdate = s.isNowUpdate /\ r.isSuccessorSet = s.isSuccessorSet
          /\ r.updateTimers = s.updateTimers /\ r.isUpdated = s.isUpdated \cup {i}
          /\ r.successor = IF i = 0 THEN alive ELSE s.successor
        BY DEF NodeState
    <2> HIDE DEF r
    <2>4. Closes(r, s)
        BY <2>2, <2>3 DEF Closes, Tidy, LockInOrder, NotYetJoined, FingerFits
    <2> QED
        BY <2>4, ClosesTidy
  <1>3. Tidy([s EXCEPT !.outOfRange = TRUE])
    <2> DEFINE u == [s EXCEPT !.outOfRange = TRUE]
    <2>1. /\ u.timers = s.timers /\ u.id = s.id /\ u.state = s.state
          /\ u.isNowUpdate = s.isNowUpdate /\ u.isSuccessorSet = s.isSuccessorSet
          /\ u.updateTimers = s.updateTimers /\ u.isUpdated = s.isUpdated
          /\ u.successor = s.successor
        BY DEF NodeState
    <2> HIDE DEF u
    <2>2. Closes(u, s)
        BY <2>1 DEF Closes, Tidy, LockInOrder, NotYetJoined
    <2>3. Tidy(u)
        BY <2>2, ClosesTidy
    <2> QED
        BY <2>3 DEF u
  <1> QED
      BY <1>1, <1>2, <1>3 DEF setCopyPreviousAliveFinger

-----------------------------------------------------------------------------
(* The timers of a tidy node. *)

\* A node paused drops its timers one by one and keeps the rest.
NodeTidy(s) == IF s.state = "PAUSED" THEN FingerFits(s) ELSE Tidy(s)

\* An ACK timer of the node's own stands for the one timer that holds the lock.
LEMMA OwnAckHoldsLock ==
    ASSUME NEW s, Tidy(s), NEW t \in s.timers, OwnAck(t), NEW u \in s.timers, Awaits(u)
    PROVE  Companion(u, t)
  <1>1. s.isNowUpdate
      BY DEF Tidy, LockInOrder
  <1>2. PICK v \in s.timers : Companion(v, t)
      BY <1>1 DEF Tidy, LockInOrder
  <1>3. Awaits(v)
      BY <1>2 DEF Companion, Awaits
  <1> QED
      BY <1>1, <1>2, <1>3 DEF Tidy, LockInOrder

\* Giving up the lock with the last timer that holds it closes the exchange.
LEMMA UnlockedCloses ==
    ASSUME NEW s \in NodeState, s.state # "OFF", NEW T \in SUBSET s.timers,
           \A u \in T : ~Awaits(u)
    PROVE  LET r == unlocked([s EXCEPT !.timers = T])
           IN  /\ Closes(r, s) /\ r \in NodeState /\ ~r.isNowUpdate
               /\ Closes([r EXCEPT !.isNowStabilize = FALSE], s)
  <1> DEFINE r == unlocked([s EXCEPT !.timers = T])
             u == [r EXCEPT !.isNowStabilize = FALSE]
  <1>1. /\ r.timers = T /\ r.id = s.id /\ r.state = s.state /\ ~r.isNowUpdate
        /\ r.isSuccessorSet = s.isSuccessorSet /\ r.updateTimers = s.updateTimers
        /\ r.isUpdated = s.isUpdated /\ r.successor = s.successor /\ r \in NodeState
      BY DEF unlocked, NodeState
  <1> HIDE DEF r
  <1>2. /\ u.timers = T /\ u.id = s.id /\ u.state = s.state /\ ~u.isNowUpdate
        /\ u.isSuccessorSet = s.isSuccessorSet /\ u.updateTimers = s.updateTimers
        /\ u.isUpdated = s.isUpdated /\ u.successor = s.successor
      BY <1>1 DEF NodeState
  <1> HIDE DEF u
  <1>3. Closes(r, s) /\ Closes(u, s)
      BY <1>1, <1>2 DEF Closes, NotYetJoined
  <1> QED
      BY <1>1, <1>3 DEF r, u

\* A timer that expires leaves the node tidy, unless it waits for the ACK of a
\* request passed on: the lock it releases is that of another exchange.
LEMMA TimerExpiredTidy ==
    ASSUME NEW s \in NodeState, Tidy(s), s.state # "OFF", NEW t \in s.timers, NEW mid,
           ~(t.type = "RX_ACK" /\ t.retryMess = "FIND_SUCCESSOR" /\ t.retransmitCounter > 0)
    PROVE  Tidy(timerExpired(s, t, mid))
  <1> DEFINE rest == [s EXCEPT !.timers = @ \ {t}]
             T(types, retry) == (s.timers \ {t})
                                    \ TimersOf(rest, types, retry, t.messageID)
             V(types, retry) == unlocked([s EXCEPT !.timers = T(types, retry)])
  <1>1. /\ t \in Timer /\ Answering(t) /\ rest \in NodeState /\ rest.state # "OFF"
        /\ rest.timers = s.timers \ {t}
      BY DEF NodeState, Tidy
  <1>2. \A types, retry : unlocked(removeTimers(rest, types, retry, t.messageID)) = V(types, retry)
      BY DEF removeTimers, unlocked, NodeState
  <1>3. ASSUME NEW v, Closes(v, s), v \in NodeState, ~v.isNowUpdate
        PROVE  Tidy(v) /\ Tidy(setCopyPreviousAliveFinger(v, mid))
    <2>1. Tidy(v) /\ v.state # "OFF"
        BY <1>3, ClosesTidy DEF Closes
    <2> QED
        BY <1>3, <2>1, CopyTidy
  <1>4. ASSUME ~Awaits(t), timerExpired(s, t, mid) = joinExpired(rest, t, mid)
        PROVE  Tidy(timerExpired(s, t, mid))
    <2>1. /\ rest.id = s.id /\ rest.isNowUpdate = s.isNowUpdate /\ rest.updateTimers = s.updateTimers
          /\ rest.isSuccessorSet = s.isSuccessorSet /\ rest.cwFingerIndex = s.cwFingerIndex
          /\ rest.isUpdated = s.isUpdated /\ rest.successor = s.successor
        BY DEF NodeState
    <2> HIDE DEF rest
    <2>2. GoesOn(rest, s)
        BY <1>1, <1>4, <2>1 DEF GoesOn, NotYetJoined
    <2>3. GoesOn(joinExpired(rest, t, mid), rest)
        BY <1>1, JoinExpiredGoesOn
    <2>4. GoesOn(joinExpired(rest, t, mid), s)
        BY <2>2, <2>3, GoesOnIsTransitive
    <2> QED
        BY <1>4, <2>4, GoesOnTidy
  <1>5. ASSUME OwnAck(t), NEW types, NEW retry, retry = t.retryMess,
               types = IF retry = "FIND_SUCCESSOR" THEN {"RX_SUCCESSOR"} ELSE {"RX_PREDECESSOR"}
        PROVE  Closes(V(types, retry), s) /\ V(types, retry) \in NodeState
               /\ ~V(types, retry).isNowUpdate
    <2>1. ASSUME NEW u \in s.timers, Awaits(u), u # t PROVE u \in TimersOf(rest, types, retry, t.messageID)
      <3>1. Companion(u, t) /\ Answering(u)
          BY <1>5, <2>1, OwnAckHoldsLock DEF Tidy
      <3> QED
          BY <1>1, <1>5, <2>1, <3>1 DEF Companion, Answering, OwnAck, TimersOf
    <2>2. T(types, retry) \in SUBSET s.timers /\ \A u \in T(types, retry) : ~Awaits(u)
        BY <2>1
    <2> HIDE DEF rest, T
    <2> QED
        BY <2>2, UnlockedCloses
  <1>6. CASE t.type = "RX_ACK" /\ t.retryMess = "FIND_SUCCESSOR"
    <2>1. OwnAck(t) /\ t.retransmitCounter = 0
        BY <1>1, <1>6 DEF OwnAck, Timer
    <2>2. timerExpired(s, t, mid) = setCopyPreviousAliveFinger(
                                        V({"RX_SUCCESSOR"}, "FIND_SUCCESSOR"), mid)
        BY <1>2, <1>6, <2>1 DEF timerExpired, ackExpired, findSuccessorNoAck
    <2> HIDE DEF V
    <2> QED
        BY <1>3, <1>5, <1>6, <2>1, <2>2
  <1>7. CASE t.type = "RX_ACK" /\ t.retryMess = "FIND_PREDECESSOR"
    <2>1. OwnAck(t)
        BY <1>1, <1>7 DEF OwnAck, Answering
    <2>2. timerExpired(s, t, mid) = V({"RX_PREDECESSOR"}, "FIND_PREDECESSOR")
        BY <1>2, <1>7 DEF timerExpired, ackExpired
    <2> HIDE DEF V
    <2> QED
        BY <1>3, <1>5, <1>7, <2>1, <2>2
  <1>8. CASE Awaits(t)
    <2>1. \A u \in s.timers \ {t} : ~Awaits(u)
        BY <1>8 DEF Tidy, LockInOrder
    <2> DEFINE v == unlocked([s EXCEPT !.timers = s.timers \ {t}])
    <2>2. /\ Closes(v, s) /\ v \in NodeState /\ ~v.isNowUpdate
          /\ Closes([v EXCEPT !.isNowStabilize = FALSE], s)
        BY <2>1, UnlockedCloses
    <2>3. \/ timerExpired(s, t, mid) = v
          \/ timerExpired(s, t, mid) = [v EXCEPT !.isNowStabilize = FALSE]
          \/ timerExpired(s, t, mid) = setCopyPreviousAliveFinger(v, mid)
        BY <1>8 DEF timerExpired, ackExpired, Awaits
    <2> HIDE DEF v
    <2>4. Tidy([v EXCEPT !.isNowStabilize = FALSE])
        BY <2>2, ClosesTidy
    <2> QED
        BY <1>3, <2>2, <2>3, <2>4
  <1>9. CASE t.type = "RX_ACK"
    <2>1. \/ t.retryMess = "JOIN" \/ t.retryMess = "FIND_SUCCESSOR"
          \/ t.retryMess = "FIND_PREDECESSOR" \/ t.retryMess = "NOTIFY"
        BY <1>1 DEF Timer
    <2>2. t.retryMess = "NOTIFY" => Awaits(t)
        BY <1>9 DEF Awaits
    <2>3. t.retryMess = "JOIN" => ~Awaits(t) /\ timerExpired(s, t, mid) = joinExpired(rest, t, mid)
        BY <1>9 DEF Awaits, timerExpired, ackExpired
    <2> HIDE DEF rest
    <2> QED
        BY <1>4, <1>6, <1>7, <1>8, <1>9, <2>1, <2>2, <2>3
  <1>10. CASE t.type = "RX_SUCCESSOR_ON_JOIN"
    <2>1. ~Awaits(t) /\ timerExpired(s, t, mid) = joinExpired(rest, t, mid)
        BY <1>10 DEF Awaits, timerExpired
    <2> QED
        BY <1>4, <2>1
  <1>11. t.type = "RX_ACK" \/ t.type = "RX_SUCCESSOR_ON_JOIN" \/ Awaits(t)
      BY <1>1 DEF Timer, TimerType, Awaits
  <1> QED
      BY <1>8, <1>9, <1>10, <1>11

\* An UPDATE timer opens one exchange, and only when there is none.
LEMMA UpdateExpiredTidy ==
    ASSUME NEW I, NEW s, Sound(s, I), Tidy(s), s.state # "OFF", s.updateTimers > 0, NEW mid,
           ~s.isNowUpdate => \A t \in s.timers : ~OwnAck(t)
    PROVE  Tidy(updateExpired(s, mid))
  <1> DEFINE locked == [s EXCEPT !.isNowUpdate = TRUE]
             first  == [locked EXCEPT !.isNowStabilize = TRUE]
             next   == setNextFingerToUpdate(locked)
  <1>1. CASE s.isNowUpdate
      BY <1>1 DEF updateExpired
  <1>2. CASE ~s.isNowUpdate
    <2>1. \A t \in s.timers : ~Awaits(t) /\ ~OwnAck(t) /\ Answering(t)
        BY <1>2 DEF Tidy, LockInOrder
    <2>2. ~NotYetJoined(s) /\ s \in NodeState
        BY DEF Tidy, Sound, NodeState
    <2> DEFINE Locks(v) == /\ v \in NodeState /\ v.id = s.id /\ v.state = s.state /\ v.isNowUpdate
                           /\ v.timers = s.timers /\ v.isSuccessorSet = s.isSuccessorSet
                           /\ v.successor = s.successor /\ v.cwFingers = s.cwFingers
                           /\ v.isUpdated \subseteq s.isUpdated
    <2>3. Locks(locked) /\ locked.isUpdated = s.isUpdated
        BY <2>2 DEF NodeState
    <2> HIDE DEF locked
    <2>4. Locks(first)
        BY <2>3 DEF NodeState
    <2>5. Locks(next) /\ (staleFingers(s) # {} => next.cwFingerIndex = lowest(staleFingers(s)))
      <3>1. staleFingers(locked) = staleFingers(s) /\ staleFingers(s) \in SUBSET FingerIndex
          BY <2>3 DEF staleFingers
      <3>2. staleFingers(s) # {} => lowest(staleFingers(s)) \in Nat
          BY <3>1, HighestLowest DEF FingerIndex
      <3> QED
          BY <2>3, <3>1, <3>2 DEF setNextFingerToUpdate, NodeState
    <2> HIDE DEF first, next
    <2>6. ASSUME NEW v, Locks(v) PROVE Tidy(issueFindPredecessor(v, mid))
      <3> DEFINE find == createMessage(v, "FIND_PREDECESSOR", v.successor, mid, Minus(v.successor, 1))
                 P == TimerFor("RX_PREDECESSOR", find, 0)
                 A == TimerFor("RX_ACK", find, 0)
                 r == issueFindPredecessor(v, mid)
      <3>1. /\ r.timers = s.timers \cup {P, A} /\ r.id = s.id /\ r.state = s.state
            /\ r.isNowUpdate /\ r.isSuccessorSet = s.isSuccessorSet
            /\ r.isUpdated \subseteq s.isUpdated /\ r.successor = s.successor
          BY <2>6 DEF issueFindPredecessor, pushTimers, sendMessage, NodeState
      <3>2. /\ Awaits(P) /\ ~OwnAck(P) /\ Answering(P) /\ P.type # "RX_SUCCESSOR"
            /\ ~Awaits(A) /\ Answering(A) /\ A.type # "RX_SUCCESSOR" /\ Companion(P, A)
          BY DEF TimerFor, createMessage, Awaits, OwnAck, Answering, Companion
      <3> HIDE DEF r, P, A
      <3>3. LockInOrder(r)
          BY <2>1, <3>1, <3>2 DEF LockInOrder
      <3>4. FingerFits(r)
        <4>1. \A t \in r.timers : t.type # "RX_SUCCESSOR"
            BY <2>1, <3>1, <3>2 DEF Awaits
        <4> QED
            BY <3>1, <4>1 DEF Tidy, FingerFits
      <3>5. Tidy(r)
          BY <2>1, <2>2, <3>1, <3>2, <3>3, <3>4 DEF Tidy, NotYetJoined
      <3> QED
          BY <3>5 DEF r
    <2>7. ASSUME staleFingers(s) # {} PROVE Tidy(issueFindSuccessor(next, mid))
      <3> DEFINE i    == next.cwFingerIndex
                 find == createMessage(next, "FIND_SUCCESSOR", fingerPast(next), mid,
                                       FingerStart(next.id, i))
                 S == TimerFor("RX_SUCCESSOR", find, 0)
                 A == TimerFor("RX_ACK", find, 0)
                 r == pushTimers(sendMessage(next, find), {"RX_SUCCESSOR", "RX_ACK"}, find, 0)
                 u == [next EXCEPT !.isNowUpdate = FALSE]
      <3>1. i \in FingerIndex /\ i = lowest(staleFingers(s)) /\ 0 \in FingerIndex
        <4>1. staleFingers(s) \in SUBSET FingerIndex
            BY DEF staleFingers
        <4> QED
            BY <2>5, <2>7, <4>1, HighestLowest, FingerZero
      <3>2. fingerPast(next) # s.id => s.successor # s.id
        <4>1. CASE i = 0
          <5>1. fingerPast(next) = s.cwFingers[0]
              BY <2>5, <4>1 DEF fingerPast
          <5> QED
              BY <5>1 DEF Sound
        <4>2. CASE i # 0
          <5>1. 0 \notin staleFingers(s)
            <6> SUFFICES ASSUME 0 \in staleFingers(s) PROVE FALSE
                OBVIOUS
            <6> DEFINE Q == staleFingers(s)
            <6>1. 0 \in Q /\ \A j \in Q : 0 <= j
                BY DEF staleFingers, FingerIndex
            <6> HIDE DEF Q
            <6>2. \A j \in Q : lowest(Q) <= j
                BY <6>1 DEF lowest
            <6> QED
                BY <3>1, <4>2, <6>1, <6>2 DEF Q, FingerIndex
          <5> QED
              BY <3>1, <5>1 DEF staleFingers, Tidy, FingerFits
        <4> QED
            BY <4>1, <4>2
      <3>3. issueFindSuccessor(next, mid) = IF fingerPast(next) = s.id THEN u ELSE r
          BY <2>5 DEF issueFindSuccessor, createMessage
      <3>4. Tidy(u)
        <4>1. /\ u.timers = s.timers /\ u.id = s.id /\ u.state = s.state /\ ~u.isNowUpdate
              /\ u.isSuccessorSet = s.isSuccessorSet /\ u.isUpdated \subseteq s.isUpdated
              /\ u.successor = s.successor
            BY <2>5 DEF NodeState
        <4> HIDE DEF u
        <4>2. Closes(u, s)
            BY <2>1, <2>2, <4>1 DEF Closes, NotYetJoined
        <4> QED
            BY <4>2, ClosesTidy
      <3>5. ASSUME fingerPast(next) # s.id PROVE Tidy(r)
        <4>1. /\ r.timers = s.timers \cup {S, A} /\ r.id = s.id /\ r.state = s.state
              /\ r.isNowUpdate /\ r.isSuccessorSet = s.isSuccessorSet /\ r.cwFingerIndex = i
              /\ r.isUpdated \subseteq s.isUpdated /\ r.successor = s.successor
            BY <2>5 DEF pushTimers, sendMessage, NodeState
        <4>2. /\ Awaits(S) /\ ~OwnAck(S) /\ Answering(S) /\ S.searched = FingerStart(next.id, i)
              /\ ~Awaits(A) /\ Answering(A) /\ A.type # "RX_SUCCESSOR" /\ Companion(S, A)
            BY DEF TimerFor, createMessage, Awaits, OwnAck, Answering, Companion
        <4> HIDE DEF r, S, A, i
        <4>3. LockInOrder(r)
            BY <2>1, <4>1, <4>2 DEF LockInOrder
        <4>4. FingerFits(r)
          <5>1. \A t \in r.timers : t.type = "RX_SUCCESSOR" => t = S
              BY <2>1, <4>1, <4>2 DEF Awaits
          <5> QED
              BY <2>5, <3>1, <3>2, <3>5, <4>1, <4>2, <5>1 DEF Tidy, FingerFits
        <4> QED
            BY <2>1, <2>2, <4>1, <4>2, <4>3, <4>4 DEF Tidy, NotYetJoined
      <3> HIDE DEF u, r
      <3> QED
          BY <3>3, <3>4, <3>5
    <2> HIDE DEF Locks
    <2> QED
        BY <1>2, <2>4, <2>5, <2>6, <2>7 DEF updateExpired, locked, first, next
  <1> QED
      BY <1>1, <1>2

-----------------------------------------------------------------------------
(* No handler of a message writes outside m_cwFingers. *)

\* r has been written outside m_cwFingers exactly if s has.
InRangeAs(r, s) == /\ DOMAIN r = DOMAIN s /\ "outOfRange" \in DOMAIN s
                   /\ r.outOfRange = s.outOfRange

\* Steps that stay within m_cwFingers compose.
LEMMA InRangeIsTransitive ==
    ASSUME NEW q, NEW r, NEW s, InRangeAs(q, r), InRangeAs(r, s)
    PROVE  InRangeAs(q, s)
BY DEF InRangeAs

\* The methods that write no finger.
LEMMA MethodsInRange ==
    ASSUME NEW s, "outOfRange" \in DOMAIN s
    PROVE  /\ InRangeAs(s, s) /\ InRangeAs(unlocked(s), s)
           /\ \A m : InRangeAs(sendMessage(s, m), s) /\ InRangeAs(learnSeed(s, m), s)
           /\ \A types, m, k : InRangeAs(pushTimers(s, types, m, k), s)
           /\ \A types, retry, mid : InRangeAs(removeTimers(s, types, retry, mid), s)
           /\ \A addr : InRangeAs(setPredecessor(s, addr), s)
           /\ InRangeAs(setNextFingerToUpdate(s), s) /\ InRangeAs(pushUpdateTimer(s), s)
  <1>1. InRangeAs(s, s) /\ InRangeAs(unlocked(s), s)
      BY DEF InRangeAs, unlocked
  <1>2. ASSUME NEW m PROVE InRangeAs(sendMessage(s, m), s) /\ InRangeAs(learnSeed(s, m), s)
      BY DEF InRangeAs, sendMessage, learnSeed, pushUpdateTimer
  <1>3. ASSUME NEW types, NEW m, NEW k PROVE InRangeAs(pushTimers(s, types, m, k), s)
      BY DEF InRangeAs, pushTimers
  <1>4. ASSUME NEW types, NEW retry, NEW mid PROVE InRangeAs(removeTimers(s, types, retry, mid), s)
      BY DEF InRangeAs, removeTimers
  <1>5. ASSUME NEW addr PROVE InRangeAs(setPredecessor(s, addr), s)
      BY DEF InRangeAs, setPredecessor
  <1>6. InRangeAs(setNextFingerToUpdate(s), s) /\ InRangeAs(pushUpdateTimer(s), s)
      BY DEF InRangeAs, setNextFingerToUpdate, pushUpdateTimer
  <1> QED
      BY <1>1, <1>2, <1>3, <1>4, <1>5, <1>6

\* The setters check the index before they write.
LEMMA PointersInRange ==
    ASSUME NEW s, "outOfRange" \in DOMAIN s, NEW addr, NEW mid
    PROVE  /\ InRangeAs(setSuccessorRemoveTimers(s, addr, mid), s)
           /\ InRangeAs(setSuccessorStabilize(s, addr, mid), s)
           /\ InRangeAs(setFingerRemoveTimers(s, addr, mid), s)
  <1>1. InRangeAs(setSuccessorRemoveTimers(s, addr, mid), s)
      BY DEF InRangeAs, setSuccessorRemoveTimers, removeTimers
  <1>2. InRangeAs(setSuccessorStabilize(s, addr, mid), s)
      BY DEF InRangeAs, setSuccessorStabilize, removeTimers
  <1>3. InRangeAs(setFingerRemoveTimers(s, addr, mid), s)
      BY DEF InRangeAs, setFingerRemoveTimers, removeTimers
  <1> QED
      BY <1>1, <1>2, <1>3

\* The only write that leaves m_cwFingers is that of setCopyPreviousAliveFinger.
LEMMA RequestsInRange ==
    ASSUME NEW s, "outOfRange" \in DOMAIN s, NEW m
    PROVE  /\ InRangeAs(rxFindSuccessor(s, m), s) /\ InRangeAs(rxFindPredecessor(s, m), s)
           /\ InRangeAs(rxNotify(s, m), s)
  <1>1. InRangeAs(rxFindPredecessor(s, m), s) /\ InRangeAs(rxNotify(s, m), s)
    <2> DEFINE acked == sendMessage(s, createAckMessage(s, m))
    <2>1. InRangeAs(acked, s) /\ "outOfRange" \in DOMAIN acked
        BY MethodsInRange DEF InRangeAs
    <2>2. rxNotify(s, m) = setPredecessor(acked, m.searched)
        BY DEF rxNotify
    <2>3. \E a : rxFindPredecessor(s, m) = sendMessage(acked, a)
        BY DEF rxFindPredecessor
    <2> HIDE DEF acked
    <2>4. /\ InRangeAs(setPredecessor(acked, m.searched), acked)
          /\ \A a : InRangeAs(sendMessage(acked, a), acked)
        BY <2>1, MethodsInRange
    <2> QED
        BY <2>1, <2>2, <2>3, <2>4, InRangeIsTransitive
  <1>2. InRangeAs(rxFindSuccessor(s, m), s)
    <2> DEFINE learnt == learnSeed(s, m)
               acked  == sendMessage(learnt, createAckMessage(learnt, m))
               lookup == findSuccessor(acked, m.searched, m.src, m.initiator, m.isJoin)
    <2>1. InRangeAs(learnt, s) /\ "outOfRange" \in DOMAIN learnt
        BY MethodsInRange DEF InRangeAs
    <2> HIDE DEF learnt
    <2>2. InRangeAs(acked, learnt) /\ InRangeAs(acked, s) /\ "outOfRange" \in DOMAIN acked
        BY <2>1, MethodsInRange DEF InRangeAs
    <2>3. \/ rxFindSuccessor(s, m) = replyFindSuccessor(acked, m, lookup.found)
          \/ rxFindSuccessor(s, m) = forwardFindSuccessor(acked, m, lookup.found)
        BY DEF rxFindSuccessor, acked, lookup, learnt
    <2> HIDE DEF acked, lookup
    <2>4. ASSUME NEW addr PROVE InRangeAs(forwardFindSuccessor(acked, m, addr), acked)
      <3> DEFINE fwd == [m EXCEPT !.type = "FIND_SUCCESSOR", !.src = acked.id, !.dest = addr,
                                  !.service = acked.id, !.retransmitCounter = @ + 1]
                 sent == sendMessage(acked, fwd)
      <3>1. \/ forwardFindSuccessor(acked, m, addr) = unlocked(acked)
            \/ forwardFindSuccessor(acked, m, addr) = pushTimers(sent, {"RX_ACK"}, fwd, 0)
          BY DEF forwardFindSuccessor, unlocked
      <3> HIDE DEF fwd
      <3>2. InRangeAs(sent, acked) /\ "outOfRange" \in DOMAIN sent
          BY <2>2, MethodsInRange DEF InRangeAs
      <3> HIDE DEF sent
      <3>3. InRangeAs(pushTimers(sent, {"RX_ACK"}, fwd, 0), sent)
          BY <3>2, MethodsInRange
      <3>4. InRangeAs(unlocked(acked), acked)
          BY <2>2, MethodsInRange
      <3> QED
          BY <3>1, <3>2, <3>3, <3>4, InRangeIsTransitive
    <2>5. ASSUME NEW addr PROVE InRangeAs(replyFindSuccessor(acked, m, addr), acked)
      <3> DEFINE sent == sendMessage(acked, createSuccessorMessage(acked, m, addr))
                 free == [sent EXCEPT !.isNowStabilize = FALSE]
                 adopted == setPredecessor(free, m.initiator)
      <3>1. InRangeAs(sent, acked) /\ "outOfRange" \in DOMAIN sent
          BY <2>2, MethodsInRange DEF InRangeAs
      <3>2. \/ replyFindSuccessor(acked, m, addr) = sent
            \/ replyFindSuccessor(acked, m, addr) = adopted
            \/ replyFindSuccessor(acked, m, addr) =
                   setSuccessorRemoveTimers(adopted, m.initiator, m.messageID)
          BY DEF replyFindSuccessor, adoptJoiner
      <3> HIDE DEF sent
      <3>3. InRangeAs(free, sent) /\ "outOfRange" \in DOMAIN free
          BY <3>1 DEF InRangeAs
      <3> HIDE DEF free
      <3>4. InRangeAs(adopted, free) /\ "outOfRange" \in DOMAIN adopted
          BY <3>3, MethodsInRange DEF InRangeAs
      <3> HIDE DEF adopted
      <3>5. InRangeAs(setSuccessorRemoveTimers(adopted, m.initiator, m.messageID), adopted)
          BY <3>4, PointersInRange
      <3> QED
          BY <3>1, <3>2, <3>3, <3>4, <3>5, InRangeIsTransitive
    <2> QED
        BY <2>2, <2>3, <2>4, <2>5, InRangeIsTransitive
  <1> QED
      BY <1>1, <1>2

\* A NOTIFY that is sent writes no finger.
LEMMA IssueNotifyInRange ==
    ASSUME NEW s, "outOfRange" \in DOMAIN s, NEW mid
    PROVE  InRangeAs(issueNotify(s, mid), s)
  <1> DEFINE notify == createMessage(s, "NOTIFY", s.successor, mid, s.id)
             sent   == sendMessage(s, notify)
  <1>1. issueNotify(s, mid) = pushTimers(sent, {"RX_ACK"}, notify, 0)
      BY DEF issueNotify
  <1>2. InRangeAs(sent, s) /\ "outOfRange" \in DOMAIN sent
      BY MethodsInRange DEF InRangeAs
  <1> HIDE DEF notify, sent
  <1>3. InRangeAs(pushTimers(sent, {"RX_ACK"}, notify, 0), sent)
      BY <1>2, MethodsInRange
  <1> QED
      BY <1>1, <1>2, <1>3, InRangeIsTransitive

\* No message makes a node write outside m_cwFingers.
LEMMA ReceivedInRange ==
    ASSUME NEW s \in NodeState, NEW m, NEW mid, NEW r \in received(s, m, mid)
    PROVE  r.outOfRange = s.outOfRange
  <1>1. "outOfRange" \in DOMAIN s
      BY DEF NodeState
  <1>2. InRangeAs(s, s)
      BY <1>1, MethodsInRange
  <1>3. InRangeAs(rxSuccessor(s, m), s)
    <2> DEFINE known  == setPredecessor(s, m.service)
               placed == setSuccessorRemoveTimers(known, m.searched, m.messageID)
               next   == setNextFingerToUpdate(placed)
               joined == pushUpdateTimer(next)
               free   == [s EXCEPT !.isNowUpdate = FALSE]
               fixed  == setFingerRemoveTimers(free, m.searched, m.messageID)
    <2>1. rxSuccessor(s, m) \in {s, joined, fixed}
        BY DEF rxSuccessor, joinAnswered, fingerAnswered
    <2>2. InRangeAs(known, s) /\ "outOfRange" \in DOMAIN known
        BY <1>1, MethodsInRange DEF InRangeAs
    <2>3. InRangeAs(free, s) /\ "outOfRange" \in DOMAIN free
        BY <1>1 DEF InRangeAs
    <2> HIDE DEF known, free
    <2>4. InRangeAs(fixed, free) /\ InRangeAs(placed, known) /\ "outOfRange" \in DOMAIN placed
        BY <2>2, <2>3, PointersInRange DEF InRangeAs
    <2> HIDE DEF placed, fixed
    <2>5. InRangeAs(next, placed) /\ "outOfRange" \in DOMAIN next
        BY <2>4, MethodsInRange DEF InRangeAs
    <2> HIDE DEF next
    <2>6. InRangeAs(joined, next)
        BY <2>5, MethodsInRange
    <2> HIDE DEF joined
    <2> QED
        BY <1>2, <2>1, <2>2, <2>3, <2>4, <2>5, <2>6 DEF InRangeAs
  <1>4. InRangeAs(rxPredecessor(s, m, mid), s)
    <2> DEFINE stable == setSuccessorStabilize(s, m.searched, m.messageID)
               next   == setNextFingerToUpdate(stable)
    <2>1. rxPredecessor(s, m, mid) \in {s, issueNotify(next, mid)}
        BY DEF rxPredecessor
    <2>2. InRangeAs(stable, s) /\ "outOfRange" \in DOMAIN stable
        BY <1>1, PointersInRange DEF InRangeAs
    <2> HIDE DEF stable
    <2>3. InRangeAs(next, stable) /\ "outOfRange" \in DOMAIN next
        BY <2>2, MethodsInRange DEF InRangeAs
    <2> HIDE DEF next
    <2>4. InRangeAs(issueNotify(next, mid), next)
        BY <2>3, IssueNotifyInRange
    <2> QED
        BY <1>2, <2>1, <2>2, <2>3, <2>4 DEF InRangeAs
  <1>5. \A t : InRangeAs(rxAck(s, t), s)
      BY <1>1 DEF InRangeAs, rxAck
  <1>6. \/ r \in {s, rxFindSuccessor(s, m), rxFindPredecessor(s, m), rxNotify(s, m),
                  rxSuccessor(s, m), rxPredecessor(s, m, mid)}
        \/ \E t : r = rxAck(s, t)
      BY DEF received
  <1> QED
      BY <1>1, <1>2, <1>3, <1>4, <1>5, <1>6, RequestsInRange DEF InRangeAs

-----------------------------------------------------------------------------
(* The successor of a node, where nobody sets it. *)

\* A node that knows another one, or waits for the answer to a lookup, has set its
\* successor.
Leads(s) == (s.successor # s.id \/ \E t \in s.timers : t.type = "RX_SUCCESSOR")
                => s.isSuccessorSet

\* The parts of a node state the successor is told by.
Pointed(s) == /\ {"id", "successor", "isSuccessorSet", "timers"} \subseteq DOMAIN s
              /\ s.id \in Node /\ s.successor \in Node

\* r is s but for what has nothing to do with the successor.
Stays(r, s) ==
    /\ Pointed(s) /\ Pointed(r)
    /\ r.id = s.id /\ r.successor = s.successor /\ r.isSuccessorSet = s.isSuccessorSet
    /\ \A t \in r.timers : t.type = "RX_SUCCESSOR" => t \in s.timers

\* What stays is the state of a node.
LEMMA StaysPointed ==
    ASSUME NEW a, NEW b, Stays(a, b)
    PROVE  Pointed(a)
BY DEF Stays

\* Handlers call one another.
LEMMA StaysIsTransitive ==
    ASSUME NEW a, NEW b, NEW c, Stays(a, b), Stays(b, c)
    PROVE  Stays(a, c)
BY DEF Stays

\* The methods that have nothing to do with the successor.
LEMMA MethodsStay ==
    ASSUME NEW s, Pointed(s)
    PROVE  /\ Stays(s, s) /\ Stays(unlocked(s), s)
           /\ \A m : Stays(sendMessage(s, m), s) /\ Stays(learnSeed(s, m), s)
           /\ \A types, m, k : "RX_SUCCESSOR" \notin types => Stays(pushTimers(s, types, m, k), s)
           /\ \A types, retry, mid : Stays(removeTimers(s, types, retry, mid), s)
           /\ \A addr : Stays(setPredecessor(s, addr), s)
           /\ Stays(setNextFingerToUpdate(s), s) /\ Stays(pushUpdateTimer(s), s)
           /\ \A b : Stays([s EXCEPT !.isNowStabilize = b], s) /\ Stays([s EXCEPT !.currSeed = b], s)
           /\ \A t : Stays([s EXCEPT !.timers = @ \ {t}], s)
           /\ \A t : t.type # "RX_SUCCESSOR" => Stays([s EXCEPT !.timers = @ \cup {t}], s)
  <1>1. Stays(s, s) /\ Stays(unlocked(s), s)
      BY DEF Stays, unlocked, Pointed
  <1>2. ASSUME NEW m PROVE Stays(sendMessage(s, m), s) /\ Stays(learnSeed(s, m), s)
      BY DEF Stays, sendMessage, learnSeed, pushUpdateTimer, Pointed
  <1>3. ASSUME NEW types, NEW m, NEW k, "RX_SUCCESSOR" \notin types
        PROVE  Stays(pushTimers(s, types, m, k), s)
    <2>1. \A type \in types : TimerFor(type, m, k).type # "RX_SUCCESSOR"
        BY <1>3 DEF TimerFor
    <2> QED
        BY <2>1 DEF Stays, pushTimers, Pointed
  <1>4. ASSUME NEW types, NEW retry, NEW mid PROVE Stays(removeTimers(s, types, retry, mid), s)
      BY DEF Stays, removeTimers, Pointed
  <1>5. ASSUME NEW addr PROVE Stays(setPredecessor(s, addr), s)
      BY DEF Stays, setPredecessor, Pointed
  <1>6. Stays(setNextFingerToUpdate(s), s) /\ Stays(pushUpdateTimer(s), s)
      BY DEF Stays, setNextFingerToUpdate, pushUpdateTimer, Pointed
  <1>7. /\ \A b : Stays([s EXCEPT !.isNowStabilize = b], s) /\ Stays([s EXCEPT !.currSeed = b], s)
        /\ \A t : Stays([s EXCEPT !.timers = @ \ {t}], s)
        /\ \A t : t.type # "RX_SUCCESSOR" => Stays([s EXCEPT !.timers = @ \cup {t}], s)
      BY DEF Stays, Pointed
  <1> QED
      BY <1>1, <1>2, <1>3, <1>4, <1>5, <1>6, <1>7

\* r comes from s by a timer: the successor stays, and only a lookup begun with the
\* identifier mid is new.
KeepsSuccessor(r, s, mid) ==
    /\ r.id = s.id /\ r.successor = s.successor /\ r.isSuccessorSet = s.isSuccessorSet
    /\ \A t \in r.timers : t.type = "RX_SUCCESSOR" => t \in s.timers \/ t.messageID = mid

\* Asking for the successor to join the ring.
LEMMA IssueJoinStays ==
    ASSUME NEW s, Pointed(s), NEW k, NEW mid
    PROVE  Stays(issueJoin(s, k, mid), s)
  <1> DEFINE seeds == ConfSeed[s.id]
             next  == (s.currSeed + 1) % Len(seeds)
             join  == [createMessage(s, "JOIN", seeds[next + 1], mid, Plus(s.id, 1))
                           EXCEPT !.isJoin = TRUE]
             moved == [s EXCEPT !.currSeed = next]
             sent  == sendMessage(moved, join)
             r     == pushTimers(sent, {"RX_SUCCESSOR_ON_JOIN", "RX_ACK"}, join, k)
  <1>1. issueJoin(s, k, mid) = r
      BY DEF issueJoin
  <1> HIDE DEF join, next
  <1>2. Stays(moved, s) /\ Pointed(moved)
      BY MethodsStay, StaysPointed
  <1> HIDE DEF moved
  <1>3. Stays(sent, moved) /\ Pointed(sent)
      BY <1>2, MethodsStay, StaysPointed
  <1> HIDE DEF sent
  <1>4. Stays(r, sent)
      BY <1>3, MethodsStay
  <1> HIDE DEF r
  <1> QED
      BY <1>1, <1>2, <1>3, <1>4, StaysIsTransitive

\* An expired UPDATE timer.
LEMMA UpdateExpiredKeepsSuccessor ==
    ASSUME NEW s \in NodeState, NEW mid
    PROVE  KeepsSuccessor(updateExpired(s, mid), s, mid)
  <1> DEFINE locked == [s EXCEPT !.isNowUpdate = TRUE]
             first  == [locked EXCEPT !.isNowStabilize = TRUE]
             next   == setNextFingerToUpdate(locked)
  <1>1. Pointed(s)
      BY DEF Pointed, NodeState
  <1>2. Stays(locked, s)
      BY <1>1 DEF Stays, Pointed
  <1>3. Pointed(locked)
      BY <1>2, StaysPointed
  <1> HIDE DEF locked
  <1>4. Stays(first, locked) /\ Stays(next, locked)
      BY <1>3, MethodsStay DEF Stays, Pointed
  <1>5. Stays(first, s) /\ Stays(next, s)
      BY <1>2, <1>4, StaysIsTransitive
  <1>6. ASSUME NEW u, Stays(u, s), NEW types, NEW find, find.messageID = mid
        PROVE  KeepsSuccessor(pushTimers(sendMessage(u, find), types, find, 0), s, mid)
    <2> DEFINE sent == sendMessage(u, find)
               new  == {TimerFor(type, find, 0) : type \in types}
    <2>1. Stays(sent, u)
        BY <1>6, StaysPointed, MethodsStay
    <2>2. \A t \in new : t.messageID = mid
        BY <1>6 DEF TimerFor
    <2>3. pushTimers(sent, types, find, 0) = [sent EXCEPT !.timers = @ \cup new]
        BY DEF pushTimers
    <2> HIDE DEF sent, new
    <2>4. Stays(sent, s)
        BY <1>6, <2>1, StaysIsTransitive
    <2>5. KeepsSuccessor([sent EXCEPT !.timers = @ \cup new], s, mid)
        BY <2>2, <2>4 DEF Stays, Pointed, KeepsSuccessor
    <2> QED
        BY <2>3, <2>5 DEF sent
  <1>7. ASSUME NEW u, Stays(u, s)
        PROVE  KeepsSuccessor(issueFindPredecessor(u, mid), s, mid) /\ KeepsSuccessor(issueFindSuccessor(u, mid), s, mid)
    <2> DEFINE pred == createMessage(u, "FIND_PREDECESSOR", u.successor, mid, Minus(u.successor, 1))
               succ == createMessage(u, "FIND_SUCCESSOR", fingerPast(u), mid,
                                     FingerStart(u.id, u.cwFingerIndex))
               dropped == [u EXCEPT !.isNowUpdate = FALSE]
               asked   == pushTimers(sendMessage(u, succ), {"RX_SUCCESSOR", "RX_ACK"}, succ, 0)
    <2>1. pred.messageID = mid /\ succ.messageID = mid
        BY DEF createMessage
    <2>2. /\ issueFindPredecessor(u, mid) =
                 pushTimers(sendMessage(u, pred), {"RX_PREDECESSOR", "RX_ACK"}, pred, 0)
          /\ issueFindSuccessor(u, mid) \in {dropped, asked}
        BY DEF issueFindPredecessor, issueFindSuccessor
    <2>3. KeepsSuccessor(dropped, s, mid)
        BY <1>7 DEF Stays, Pointed, KeepsSuccessor
    <2> HIDE DEF pred, succ, dropped
    <2> QED
        BY <1>6, <1>7, <2>1, <2>2, <2>3
  <1>8. KeepsSuccessor(s, s, mid)
      BY DEF KeepsSuccessor
  <1>9. updateExpired(s, mid) \in {s, issueFindPredecessor(first, mid),
                                   issueFindPredecessor(next, mid), issueFindSuccessor(next, mid)}
      BY DEF updateExpired, locked, first, next
  <1> HIDE DEF first, next
  <1> QED
      BY <1>5, <1>7, <1>8, <1>9

\* The start of a node.
LEMMA HardResetStays ==
    ASSUME NEW n \in Node, NEW mid
    PROVE  LET r == hardReset(Off(n), mid)
           IN  r.successor = n /\ Leads(r)
  <1> DEFINE s     == Off(n)
             f     == flush(s)
             reset == softReset(f)
  <1>1. Stays(s, s) /\ s.successor = n /\ s.id = n /\ s.timers = {} /\ s.isSuccessorSet = FALSE
        /\ {"state", "predecessor", "cwFingers", "isUpdated", "cwFingerIndex", "currSeed"} \subseteq DOMAIN s
      BY DEF Off, Stays, Pointed
  <1> HIDE DEF s
  <1>2. f.successor = n /\ f.id = n /\ f.timers = {} /\ DOMAIN f = DOMAIN s
      BY <1>1 DEF flush, Stays, Pointed
  <1> HIDE DEF f
  <1>3. Pointed(reset) /\ reset.successor = n /\ reset.id = n /\ reset.timers = {}
      BY <1>1, <1>2 DEF softReset, Stays, Pointed
  <1>4. hardReset(s, mid) \in {reset, issueJoin(reset, 0, mid)}
      BY DEF hardReset, goStateInit, f
  <1> HIDE DEF reset
  <1>5. Stays(reset, reset) /\ Stays(issueJoin(reset, 0, mid), reset)
      BY <1>3, IssueJoinStays, MethodsStay
  <1>6. \A r : Stays(r, reset) => r.successor = n /\ Leads(r)
      BY <1>3 DEF Stays, Leads
  <1> QED
      BY <1>4, <1>5, <1>6 DEF s
=============================================================================
