-------------------------- MODULE LowLatencyChord --------------------------
(***************************************************************************)
(* The Chord layer of one node: class low_latency_chord of                  *)
(* src/Sample4/src/trp/low_latency_chord.cpp.                               *)
(*                                                                          *)
(* The class is a run-to-completion state machine: core() takes one message *)
(* or expired timer, runs one handler and re-notifies itself in the same    *)
(* simulated instant, so everything the handler queued for transmission has *)
(* left the node before time passes.  Each operator below is a method; it   *)
(* maps the state s of a node to the state after the method, and s.tx       *)
(* collects the messages handed to the network on the way.                  *)
(*                                                                          *)
(* The configuration is the default one (llchord_classes_defs.h): messages  *)
(* need an ACK, CtxRetry = CtxFindSucc = fillFingersMinQty = 0, counter-    *)
(* clockwise fingers are off but for ccwFinger 0, which copies the          *)
(* predecessor, and all latencies are equal.                                *)
(***************************************************************************)
EXTENDS RingIds, Sequences

CONSTANTS
    Node,          \* the identifiers of the nodes of the network
    MessageID,     \* message identifiers
    FingersSize,   \* fingersSize: how many clockwise fingers a node keeps
    FingerMask,    \* m_fingerMask: finger i starts at id + FingerMask[i]
    ConfSeed,      \* confParams.seed of each node, a sequence of nodes
    CtxJoin        \* how often a JOIN is repeated before its count restarts

FingerIndex == 0 .. FingersSize - 1

ASSUME NodeAssumption == Node \subseteq IdSpace
ASSUME FingersAssumption ==
    /\ FingersSize \in Nat \ {0}
    /\ FingerMask \in [FingerIndex -> IdSpace \ {0}]
ASSUME SeedAssumption ==
    /\ ConfSeed \in [Node -> Seq(Node)]
    /\ CtxJoin \in Nat

-----------------------------------------------------------------------------
(* Messages, timers and the state of a node. *)

MessageType == {"JOIN", "FIND_SUCCESSOR", "FIND_PREDECESSOR", "NOTIFY",
                "SUCCESSOR", "PREDECESSOR", "ACK"}

\* chord_byte_message_fields.  `searched' is searchedNodeIDwithSocket: the
\* identifier a request looks for, the node an answer or a NOTIFY carries.
\* `service' is serviceAddr, the replier's predecessor in a SUCCESSOR.
Message == [type : MessageType, src : Node, dest : Node, initiator : Node,
            messageID : MessageID, searched : IdSpace, service : Node,
            retransmitCounter : Nat, isJoin : BOOLEAN]

TimerType == {"RX_ACK", "RX_SUCCESSOR_ON_JOIN", "RX_SUCCESSOR", "RX_PREDECESSOR"}

\* chord_timer_message, with the parts of retryMess the handlers read.  The
\* UPDATE timers carry nothing and are only counted (`updateTimers').
Timer == [type : TimerType,
          retryMess : {"JOIN", "FIND_SUCCESSOR", "FIND_PREDECESSOR", "NOTIFY"},
          messageID : MessageID, searched : IdSpace,
          retransmitCounter : Nat, requestCounter : 0 .. CtxJoin]

\* STATE_OFF before the first HARD_RESET is "OFF", after a PAUSE "PAUSED"; every
\* handler that runs returns to STATE_IDLE before the next message is taken.
NodeState == [
    id             : Node,
    state          : {"OFF", "IDLE", "PAUSED"},
    predecessor    : Node,
    successor      : Node,
    cwFingers      : [FingerIndex -> Node],
    isUpdated      : SUBSET FingerIndex,   \* the fingers whose flag is up
    cwFingerIndex  : Nat,                  \* the finger being fixed
    isSuccessorSet : BOOLEAN,
    isNowUpdate    : BOOLEAN,              \* an update exchange is running
    isNowStabilize : BOOLEAN,              \* next: fingers, not stabilize
    seedAddrs      : Seq(Node),
    currSeed       : Nat,
    timers         : SUBSET Timer,
    updateTimers   : Nat,
    tx             : Seq(Message),
    outOfRange     : BOOLEAN]   \* m_cwFingers was written beyond its end

\* A constructed node before HARD_RESET: nothing is read from it until then.
Off(id) == [id |-> id, state |-> "OFF", predecessor |-> id, successor |-> id,
            cwFingers |-> [i \in FingerIndex |-> id], isUpdated |-> {},
            cwFingerIndex |-> 0, isSuccessorSet |-> FALSE,
            isNowUpdate |-> FALSE, isNowStabilize |-> FALSE,
            seedAddrs |-> ConfSeed[id], currSeed |-> 0, timers |-> {},
            updateTimers |-> 0, tx |-> <<>>, outOfRange |-> FALSE]

\* Where finger i of node id starts.
FingerStart(id, i) == Plus(id, FingerMask[i])

-----------------------------------------------------------------------------
(* Timers and transmission. *)

TimersOf(s, types, retry, mid) ==
    {t \in s.timers : t.type \in types /\ t.retryMess = retry /\ t.messageID = mid}

removeTimers(s, types, retry, mid) ==
    [s EXCEPT !.timers = @ \ TimersOf(s, types, retry, mid)]

TimerFor(type, m, requestCounter) ==
    [type |-> type, retryMess |-> m.type, messageID |-> m.messageID,
     searched |-> m.searched, retransmitCounter |-> m.retransmitCounter,
     requestCounter |-> requestCounter]

pushTimers(s, types, m, requestCounter) ==
    [s EXCEPT !.timers = @ \cup {TimerFor(type, m, requestCounter) : type \in types}]

pushUpdateTimer(s) == [s EXCEPT !.updateTimers = @ + 1]

\* sendMessage refuses a message to the node itself; its timers stay.
sendMessage(s, m) ==
    IF m.dest = s.id THEN s ELSE [s EXCEPT !.tx = Append(@, m)]

\* The create...Message methods; serviceAddr is filled in for SUCCESSOR only.
createMessage(s, type, dest, mid, searched) ==
    [type |-> type, src |-> s.id, dest |-> dest, initiator |-> s.id,
     messageID |-> mid, searched |-> searched, service |-> s.id,
     retransmitCounter |-> 0, isJoin |-> FALSE]

\* A plausible slip: a request that was passed on is acknowledged to the node that
\* began it.
createAckToInitiator(s, m) == createMessage(s, "ACK", m.initiator, m.messageID, s.id)

createAckMessage(s, m) == createMessage(s, "ACK", m.src, m.messageID, s.id)

createSuccessorMessage(s, m, found) ==
    [createMessage(s, "SUCCESSOR", m.initiator, m.messageID, found)
        EXCEPT !.service = s.predecessor]

-----------------------------------------------------------------------------
(* Start, reset and JOIN. *)

\* A plausible slip: the UPDATE timer survives.
flushKeepsUpdateTimer(s) ==
    [s EXCEPT !.timers = {}, !.tx = <<>>, !.isNowUpdate = FALSE, !.isNowStabilize = FALSE]

flush(s) == [s EXCEPT !.timers = {}, !.updateTimers = 0, !.tx = <<>>,
                      !.isNowUpdate = FALSE, !.isNowStabilize = FALSE]

\* softReset followed by the initialisation of goStateInit: every finger and
\* both neighbours become the node itself, not updated.
softReset(s) ==
    [s EXCEPT !.state = "IDLE", !.predecessor = s.id, !.successor = s.id,
              !.cwFingers = [i \in FingerIndex |-> s.id], !.isUpdated = {},
              !.cwFingerIndex = 0, !.isSuccessorSet = FALSE, !.currSeed = 0]

\* A plausible slip: the seeds are counted on, and wrapped only where one is asked.
issueJoinUnwrapped(s, requestCounter, mid) ==
    LET seeds == ConfSeed[s.id]
        join  == [createMessage(s, "JOIN", seeds[((s.currSeed + 1) % Len(seeds)) + 1],
                                mid, Plus(s.id, 1)) EXCEPT !.isJoin = TRUE]
    IN  pushTimers(sendMessage([s EXCEPT !.currSeed = @ + 1], join),
                   {"RX_SUCCESSOR_ON_JOIN", "RX_ACK"}, join, requestCounter)

\* issueMessagePushTimers(CHORD_TX_JOIN): the next seed, counted from 1 modulo
\* their number, is asked for the successor of the node's own identifier + 1.
issueJoin(s, requestCounter, mid) ==
    LET seeds == ConfSeed[s.id]
        next  == (s.currSeed + 1) % Len(seeds)
        join  == [createMessage(s, "JOIN", seeds[next + 1], mid, Plus(s.id, 1))
                    EXCEPT !.isJoin = TRUE]
        sent  == sendMessage([s EXCEPT !.currSeed = next], join)
    IN  pushTimers(sent, {"RX_SUCCESSOR_ON_JOIN", "RX_ACK"}, join, requestCounter)

goStateInit(s, mid) ==
    LET reset == softReset(s)
    IN  IF ConfSeed[s.id] = <<>> THEN reset ELSE issueJoin(reset, 0, mid)

hardReset(s, mid) == goStateInit(flush(s), mid)

-----------------------------------------------------------------------------
(* The pointers of a node: predecessor, successor, clockwise fingers. *)

\* A plausible slip of setPredecessor: the newest notifier always wins.
setPredecessorUnchecked(s, addr) == [s EXCEPT !.predecessor = addr]

setPredecessor(s, addr) ==
    IF \/ s.predecessor = s.id
       \/ isInRangeOverZeroNotInc(addr, s.predecessor, s.id)
    THEN [s EXCEPT !.predecessor = addr]
    ELSE s

\* The timers dropped are those of the first JOIN, or of a FIND_SUCCESSOR when
\* the node already had a successor.
setSuccessorRemoveTimers(s, addr, mid) ==
    LET set == [s EXCEPT !.successor = addr, !.cwFingers[0] = addr,
                         !.isUpdated = @ \cup {0}, !.cwFingerIndex = @ + 1,
                         !.isSuccessorSet = TRUE]
    IN  IF s.isSuccessorSet
        THEN removeTimers(set, {"RX_ACK", "RX_SUCCESSOR"}, "FIND_SUCCESSOR", mid)
        ELSE removeTimers(set, {"RX_ACK", "RX_SUCCESSOR_ON_JOIN"}, "JOIN", mid)

\* A plausible slip of setSuccessorStabilize: the closed range test, or none,
\* lets the answer move the successor away from the node.
setSuccessorStabilizeUnchecked(s, addr, mid) ==
    removeTimers([s EXCEPT !.successor = addr, !.cwFingers[0] = addr,
                           !.isUpdated = @ \cup {0}, !.isSuccessorSet = TRUE],
                 {"RX_ACK", "RX_PREDECESSOR"}, "FIND_PREDECESSOR", mid)

\* A plausible slip: the finger that doubles as successor is forgotten.
setSuccessorStabilizeNotFinger(s, addr, mid) ==
    removeTimers(IF isInRangeOverZeroNotInc(addr, s.id, s.successor)
                 THEN [s EXCEPT !.successor = addr, !.isUpdated = @ \cup {0},
                                !.isSuccessorSet = TRUE]
                 ELSE [s EXCEPT !.isSuccessorSet = TRUE],
                 {"RX_ACK", "RX_PREDECESSOR"}, "FIND_PREDECESSOR", mid)

\* The successor's predecessor becomes the successor if it lies in between.
setSuccessorStabilize(s, addr, mid) ==
    LET closer == isInRangeOverZeroNotInc(addr, s.id, s.successor)
        set == IF closer
               THEN [s EXCEPT !.successor = addr, !.cwFingers[0] = addr,
                              !.isUpdated = @ \cup {0}, !.isSuccessorSet = TRUE]
               ELSE [s EXCEPT !.isSuccessorSet = TRUE]
    IN  removeTimers(set, {"RX_ACK", "RX_PREDECESSOR"}, "FIND_PREDECESSOR", mid)

\* The answer to a FIND_SUCCESSOR is the finger under m_cwFingerIndex; with the
\* index out of range nothing is stored and the timers stay.
setFingerRemoveTimers(s, addr, mid) ==
    LET i == s.cwFingerIndex
        set == [s EXCEPT !.cwFingers[i] = addr, !.isUpdated = @ \cup {i},
                         !.successor = IF i = 0 /\ addr # s.id THEN addr ELSE @]
    IN  IF i \notin FingerIndex
        THEN s
        ELSE removeTimers(set, {"RX_ACK", "RX_SUCCESSOR"}, "FIND_SUCCESSOR", mid)

\* findPrevAliveFinger, the fingers an alive node may be copied from: updated ones
\* below the current index that are not the node itself; none from one past the end on.
aliveFingers(s) == {i \in s.isUpdated : /\ i < s.cwFingerIndex /\ s.cwFingerIndex <= FingersSize
                                        /\ s.cwFingers[i] # s.id}

highest(I) == CHOOSE i \in I : \A j \in I : j <= i
lowest(I)  == CHOOSE i \in I : \A j \in I : i <= j

\* setCopyPreviousAliveFinger: the current finger is replaced by the nearest
\* alive one before it, or else by the predecessor (ccwFinger 0); a node that
\* knows nobody resets itself.  m_cwFingers[m_cwFingerIndex] is written without
\* a range check: beyond the end the behaviour is undefined, and the model
\* records it in outOfRange and claims nothing of the node from then on.
setCopyPreviousAliveFinger(s, mid) ==
    LET i     == s.cwFingerIndex
        alive == IF aliveFingers(s) # {} THEN s.cwFingers[highest(aliveFingers(s))]
                                         ELSE s.predecessor
    IN  IF aliveFingers(s) = {} /\ s.predecessor = s.id
        THEN hardReset(s, mid)
        ELSE IF i \notin FingerIndex
        THEN [s EXCEPT !.outOfRange = TRUE]
        ELSE [s EXCEPT !.cwFingers[i] = alive, !.isUpdated = @ \cup {i},
                       !.successor = IF i = 0 THEN alive ELSE @,
                       !.cwFingerIndex = i + 1]

staleFingers(s) == FingerIndex \ s.isUpdated

\* A plausible slip: after a full round the fingers stay marked up to date.
setNextFingerToUpdateOnce(s) ==
    IF staleFingers(s) # {}
    THEN [s EXCEPT !.cwFingerIndex = lowest(staleFingers(s))]
    ELSE [s EXCEPT !.cwFingerIndex = 0, !.isNowStabilize = TRUE]

\* setNextFingerToUpdate without an expired UPDATE timer: point at the first
\* finger out of date; when there is none start over, all of them out of date.
setNextFingerToUpdate(s) ==
    IF staleFingers(s) # {}
    THEN [s EXCEPT !.cwFingerIndex = lowest(staleFingers(s))]
    ELSE [s EXCEPT !.cwFingerIndex = 0, !.isUpdated = {}, !.isNowStabilize = TRUE]

-----------------------------------------------------------------------------
(* Lookup: what a node does with a JOIN or a FIND_SUCCESSOR. *)

\* A message passed on more often than 1.5 times the number of fingers is
\* dropped without an answer (2 * hops against 3 * fingers in integers).
isAddrValid(m) == 2 * m.retransmitCounter <= 3 * FingersSize

\* Plausible slips: a node answers for its predecessor's own identifier, or
\* passes a request on to the last of its fingers, beyond the identifier or not.
findSuccessorNoPredecessor(s, key, sender, initiator, isJoin) ==
    LET others == {i \in FingerIndex : s.cwFingers[i] \notin {sender, initiator, s.id}}
        preceding == {i \in others : isInRangeOverZero(s.cwFingers[i], s.id, key)}
    IN  IF key = s.id \/ isInRangeOverZero(key, s.predecessor, s.id) \/ others = {}
        THEN [action |-> "REPLY", found |-> s.id]
        ELSE IF isInRangeOverZero(key, s.id, s.successor)
        THEN [action |-> IF isJoin THEN "FORWARD" ELSE "REPLY", found |-> s.successor]
        ELSE [action |-> "FORWARD", found |-> s.cwFingers[highest(
                                      IF preceding # {} THEN preceding ELSE others)]]

findSuccessorLastFinger(s, key, sender, initiator, isJoin) ==
    LET others == {i \in FingerIndex : s.cwFingers[i] \notin {sender, initiator, s.id}}
        owner  == IF key = s.predecessor THEN s.predecessor
                  ELSE IF isInRangeOverZero(key, s.predecessor, s.id) THEN s.id
                  ELSE s.successor
    IN  IF isInRangeOverZero(key, s.predecessor, s.successor) \/ others = {}
        THEN [action |-> IF isJoin /\ owner # s.id THEN "FORWARD" ELSE "REPLY",
              found  |-> owner]
        ELSE [action |-> "FORWARD", found |-> s.cwFingers[highest(others)]]

\* findSuccessor: the owner is found when the identifier is the node, its
\* predecessor, or next to it on either side.  Otherwise the request goes to
\* the finger of highest index between the node and the identifier, else to
\* any finger, else back to the predecessor, never to where it came from; when
\* nobody is left the node answers with itself.  A JOIN is answered only by a node
\* that is the answer, any other passes it on to the one it found.
findSuccessor(s, key, sender, initiator, isJoin) ==
    LET others    == {i \in FingerIndex : s.cwFingers[i] \notin {sender, initiator, s.id}}
        preceding == {i \in others : isInRangeOverZero(s.cwFingers[i], s.id, key)}
        answer(addr)  == [action |-> IF isJoin /\ addr # s.id THEN "FORWARD" ELSE "REPLY",
                          found  |-> addr]
        forward(addr) == [action |-> "FORWARD", found |-> addr]
    IN  IF key = s.id THEN answer(s.id)
        ELSE IF key = s.predecessor THEN answer(s.predecessor)
        ELSE IF isInRangeOverZero(key, s.predecessor, s.id) THEN answer(s.id)
        ELSE IF isInRangeOverZero(key, s.id, s.successor) THEN answer(s.successor)
        ELSE IF preceding # {} THEN forward(s.cwFingers[highest(preceding)])
        ELSE IF others # {} THEN forward(s.cwFingers[lowest(others)])
        ELSE IF s.predecessor \notin {sender, initiator, s.id} THEN forward(s.predecessor)
        ELSE answer(s.id)

\* The first JOIN a node without seeds sees gives it one, and its UPDATE timer.
learnSeed(s, m) ==
    IF s.seedAddrs = <<>> /\ m.type = "JOIN"
    THEN pushUpdateTimer([s EXCEPT !.seedAddrs = <<m.src>>])
    ELSE s

\* issueMessagePushTimers(CHORD_TX_FIND_SUCCESSOR, DO_FORWARD): the message
\* identifier, initiator and key stay, the hop count grows; only the ACK is
\* waited for.  A destination that is the node itself cancels the message, and
\* with it the lock of a running update.
forwardFindSuccessor(s, m, addr) ==
    LET fwd == [m EXCEPT !.type = "FIND_SUCCESSOR", !.src = s.id, !.dest = addr,
                         !.service = s.id, !.retransmitCounter = @ + 1]
    IN  IF addr = s.id
        THEN [s EXCEPT !.isNowUpdate = FALSE]
        ELSE pushTimers(sendMessage(s, fwd), {"RX_ACK"}, fwd, 0)

\* A plausible slip: the newcomer becomes the successor in every case.
adoptJoinerAlways(s, m) ==
    setSuccessorRemoveTimers(setPredecessor([s EXCEPT !.isNowStabilize = FALSE], m.initiator),
                             m.initiator, m.messageID)

\* The node that answers a JOIN takes the newcomer as predecessor, and as
\* successor if it has been alone.
adoptJoiner(s, m) ==
    LET adopted == setPredecessor([s EXCEPT !.isNowStabilize = FALSE], m.initiator)
    IN  IF s.successor = s.id
        THEN setSuccessorRemoveTimers(adopted, m.initiator, m.messageID)
        ELSE adopted

replyFindSuccessor(s, m, addr) ==
    LET replied == sendMessage(s, createSuccessorMessage(s, m, addr))
    IN  IF m.isJoin THEN adoptJoiner(replied, m) ELSE replied

\* goStateService on RX_JOIN and RX_FIND_SUCCESSOR.
rxFindSuccessor(s, m) ==
    LET learnt == learnSeed(s, m)
        acked  == sendMessage(learnt, createAckMessage(learnt, m))
        lookup == findSuccessor(acked, m.searched, m.src, m.initiator, m.isJoin)
    IN  IF lookup.action = "REPLY" THEN replyFindSuccessor(acked, m, lookup.found)
                                   ELSE forwardFindSuccessor(acked, m, lookup.found)

\* goStateService on RX_FIND_PREDECESSOR.
rxFindPredecessor(s, m) ==
    sendMessage(sendMessage(s, createAckMessage(s, m)),
                createMessage(s, "PREDECESSOR", m.initiator, m.messageID, s.predecessor))

\* goStateUpdate on RX_NOTIFY.
rxNotify(s, m) ==
    setPredecessor(sendMessage(s, createAckMessage(s, m)), m.searched)

-----------------------------------------------------------------------------
(* Answers.  findStateOnRxReplyMess routes an answer to the state its request
   was issued in; the timer of the request, which isMessageIDvalid demands,
   tells the same: TxMemory adds the memory list and shows it. *)

\* A plausible slip: the UPDATE timer is not started.
joinAnsweredNoUpdate(s, m) ==
    setNextFingerToUpdate(setSuccessorRemoveTimers(setPredecessor(s, m.service),
                                                   m.searched, m.messageID))

\* goStateJoin on RX_SUCCESSOR: a node that already has a successor is waiting
\* for another timer and drops the answer.
joinAnswered(s, m) ==
    LET placed == setSuccessorRemoveTimers(setPredecessor(s, m.service),
                                           m.searched, m.messageID)
    IN  pushUpdateTimer(setNextFingerToUpdate(placed))

\* A plausible slip: the lock of the update is not released by its answer.
fingerAnsweredKeepsLock(s, m) == setFingerRemoveTimers(s, m.searched, m.messageID)

\* goStateUpdate on RX_SUCCESSOR.
fingerAnswered(s, m) ==
    setFingerRemoveTimers([s EXCEPT !.isNowUpdate = FALSE], m.searched, m.messageID)

rxSuccessor(s, m) ==
    IF TimersOf(s, {"RX_SUCCESSOR_ON_JOIN"}, "JOIN", m.messageID) # {}
    THEN IF s.isSuccessorSet THEN s ELSE joinAnswered(s, m)
    ELSE IF TimersOf(s, {"RX_SUCCESSOR"}, "FIND_SUCCESSOR", m.messageID) # {}
    THEN fingerAnswered(s, m)
    ELSE s

\* issueMessagePushTimers(CHORD_TX_NOTIFY): the node tells its successor.
issueNotify(s, mid) ==
    LET notify == createMessage(s, "NOTIFY", s.successor, mid, s.id)
    IN  pushTimers(sendMessage(s, notify), {"RX_ACK"}, notify, 0)

\* goStateUpdate on RX_PREDECESSOR; the lock is held until the NOTIFY's ACK.
rxPredecessor(s, m, mid) ==
    IF TimersOf(s, {"RX_PREDECESSOR"}, "FIND_PREDECESSOR", m.messageID) = {}
    THEN s
    ELSE issueNotify(setNextFingerToUpdate(
             setSuccessorStabilize(s, m.searched, m.messageID)), mid)

\* RX_ACK in the state of its request: the timer t it answers is dropped, and
\* the lock released if it was that of a NOTIFY.
ackTimers(s, m) == {t \in s.timers : t.type = "RX_ACK" /\ t.messageID = m.messageID}

rxAck(s, t) ==
    [s EXCEPT !.timers = @ \ {t},
              !.isNowUpdate = IF t.retryMess = "NOTIFY" THEN FALSE ELSE @]

-----------------------------------------------------------------------------
(* The periodic update: stabilize the successor, fix one finger. *)

\* issueMessagePushTimers(CHORD_TX_FIND_PREDECESSOR).
issueFindPredecessor(s, mid) ==
    LET find == createMessage(s, "FIND_PREDECESSOR", s.successor, mid, Minus(s.successor, 1))
    IN  pushTimers(sendMessage(s, find), {"RX_PREDECESSOR", "RX_ACK"}, find, 0)

\* Whom to ask for finger i: finger 0 about itself, else the nearest lower
\* finger that is another node, else the seed.
fingerPast(s) ==
    LET i     == s.cwFingerIndex
        lower == {j \in FingerIndex : j < i /\ s.cwFingers[j] # s.id}
    IN  IF i = 0 THEN s.cwFingers[0]
        ELSE IF lower # {} THEN s.cwFingers[highest(lower)]
        ELSE s.seedAddrs[s.currSeed + 1]

\* issueMessagePushTimers(CHORD_TX_FIND_SUCCESSOR, DO_REQUEST); a request to the
\* node itself is cancelled and the lock released.
issueFindSuccessor(s, mid) ==
    LET find == createMessage(s, "FIND_SUCCESSOR", fingerPast(s), mid,
                              FingerStart(s.id, s.cwFingerIndex))
    IN  IF find.dest = s.id
        THEN [s EXCEPT !.isNowUpdate = FALSE]
        ELSE pushTimers(sendMessage(s, find), {"RX_SUCCESSOR", "RX_ACK"}, find, 0)

\* A plausible slip: a new exchange starts while another is still running.
updateExpiredIgnoresLock(s, mid) ==
    LET locked == [s EXCEPT !.isNowUpdate = TRUE]
    IN  IF ~s.isNowStabilize
        THEN issueFindPredecessor([locked EXCEPT !.isNowStabilize = TRUE], mid)
        ELSE IF staleFingers(s) = {}
        THEN issueFindPredecessor(setNextFingerToUpdate(locked), mid)
        ELSE issueFindSuccessor(setNextFingerToUpdate(locked), mid)

\* An UPDATE timer expired and was pushed again: unless an exchange is running,
\* one of the two is started.
updateExpired(s, mid) ==
    LET locked == [s EXCEPT !.isNowUpdate = TRUE]
    IN  IF s.isNowUpdate
        THEN s
        ELSE IF ~s.isNowStabilize
        THEN issueFindPredecessor([locked EXCEPT !.isNowStabilize = TRUE], mid)
        ELSE IF staleFingers(s) = {}
        THEN issueFindPredecessor(setNextFingerToUpdate(locked), mid)
        ELSE issueFindSuccessor(setNextFingerToUpdate(locked), mid)

-----------------------------------------------------------------------------
(* Expired timers: t has been taken from the timer buffer. *)

\* A plausible slip: the last repetition is not followed by a first one.
joinExpiredGivesUp(s, t, mid) ==
    LET rest == removeTimers(s, {"RX_ACK", "RX_SUCCESSOR_ON_JOIN"}, "JOIN", t.messageID)
    IN  IF t.requestCounter < CtxJoin THEN issueJoin(rest, t.requestCounter + 1, mid)
                                      ELSE rest

\* A JOIN without an ACK or without an answer in time is issued again, to the
\* next seed; its other timer is dropped.
joinExpired(s, t, mid) ==
    issueJoin(removeTimers(s, {"RX_ACK", "RX_SUCCESSOR_ON_JOIN"}, "JOIN", t.messageID),
              IF t.requestCounter < CtxJoin THEN t.requestCounter + 1 ELSE 0, mid)

\* A plausible slip: a timeout leaves the update locked.
staysLocked(s) == s

unlocked(s) == [s EXCEPT !.isNowUpdate = FALSE]

\* No ACK for the node's own FIND_SUCCESSOR: the finger asked is taken for dead
\* and the finger being fixed is copied from one still alive.
findSuccessorNoAck(s, t, mid) ==
    setCopyPreviousAliveFinger(
        unlocked(removeTimers(s, {"RX_SUCCESSOR"}, "FIND_SUCCESSOR", t.messageID)), mid)

\* No ACK for a FIND_SUCCESSOR that was passed on (STATE_SERVICE): the timer is
\* pushed again, and goStateUpdate, entered with it, releases the lock.
forwardNoAck(s, t) ==
    [unlocked(removeTimers(s, {"RX_SUCCESSOR"}, "FIND_SUCCESSOR", t.messageID))
        EXCEPT !.timers = @ \cup {t}]

ackExpired(s, t, mid) ==
    IF t.retryMess = "JOIN" THEN joinExpired(s, t, mid)
    ELSE IF t.retryMess = "FIND_SUCCESSOR"
    THEN IF t.retransmitCounter = 0 THEN findSuccessorNoAck(s, t, mid)
                                    ELSE forwardNoAck(s, t)
    ELSE IF t.retryMess = "FIND_PREDECESSOR"
    THEN unlocked(removeTimers(s, {"RX_PREDECESSOR"}, "FIND_PREDECESSOR", t.messageID))
    ELSE unlocked(s)

timerExpired(s, t, mid) ==
    LET rest == [s EXCEPT !.timers = @ \ {t}]
    IN  IF t.type = "RX_ACK" THEN ackExpired(rest, t, mid)
        ELSE IF t.type = "RX_SUCCESSOR_ON_JOIN" THEN joinExpired(rest, t, mid)
        ELSE IF t.type = "RX_SUCCESSOR" THEN [unlocked(rest) EXCEPT !.isNowStabilize = FALSE]
        ELSE setCopyPreviousAliveFinger(unlocked(rest), mid)

\* In STATE_OFF an expired timer is taken from the buffer and dropped.
timerDropped(s, t) == [s EXCEPT !.timers = @ \ {t}]

-----------------------------------------------------------------------------
(* Received messages. *)

\* Only an IDLE node looks at a message; STATE_OFF takes and drops it.
\* The possible states after message m, with mid for a message it gives rise
\* to; of several ACK timers with m's identifier the oldest is dropped, which is
\* any of them here.
received(s, m, mid) ==
    IF s.state # "IDLE" \/ ~isAddrValid(m) THEN {s}
    ELSE IF m.type \in {"JOIN", "FIND_SUCCESSOR"} THEN {rxFindSuccessor(s, m)}
    ELSE IF m.type = "FIND_PREDECESSOR" THEN {rxFindPredecessor(s, m)}
    ELSE IF m.type = "NOTIFY" THEN {rxNotify(s, m)}
    ELSE IF m.type = "SUCCESSOR" THEN {rxSuccessor(s, m)}
    ELSE IF m.type = "PREDECESSOR" THEN {rxPredecessor(s, m, mid)}
    ELSE IF ackTimers(s, m) = {} THEN {s}
    ELSE {rxAck(s, t) : t \in ackTimers(s, m)}
=============================================================================
