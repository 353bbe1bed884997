-------------------------- MODULE ChordRing_proofs --------------------------
(***************************************************************************)
(* What holds in every network of ChordRing: of any number of nodes, with   *)
(* any identifiers, fingers and seeds, started in any order, and whatever   *)
(* resets and pauses the application asks for.                              *)
(*                                                                          *)
(* LowLatencyChord_proofs says what one handler does to one node.  Here     *)
(* the nodes send each other what the handlers ask for, so the invariant    *)
(* also says what may lie in a queue (InOrder).  On it rest the theorems    *)
(* on predecessors, and on the exchanges of the periodic update (Tidied).   *)
(***************************************************************************)
EXTENDS ChordRing, LowLatencyChord_proofs, SequenceTheorems, FiniteSetTheorems

-----------------------------------------------------------------------------
(* Flattened sequences.  FlattenSeq is a recursive function: that it exists is  *)
(* shown by its least counterexample.                                          *)

\* One equation of FlattenSeq for each prefix of ss.
FlattenStep(ss, flatten, n) ==
    [i \in 1 .. n |-> IF i = 1 THEN ss[i] ELSE flatten[i - 1] \o ss[i]]

\* The function that flattens the first n sequences of ss exists.
LEMMA FlattenExists ==
    ASSUME NEW ss, NEW n \in Nat
    PROVE  \E flatten : flatten = FlattenStep(ss, flatten, n)
  <1> DEFINE Bad == {k \in Nat : ~\E flatten : flatten = FlattenStep(ss, flatten, k)}
  <1> SUFFICES ASSUME Bad # {} PROVE FALSE
      OBVIOUS
  <1>1. PICK k \in Bad : \A j \in Bad : k <= j
    <2> HIDE DEF Bad
    <2>1. Bad \in SUBSET Nat
        BY DEF Bad
    <2> QED
        BY <2>1, LeastNatural
  <1>2. CASE k = 0
    <2> DEFINE f == [i \in 1 .. 0 |-> 0]
    <2>1. f = FlattenStep(ss, f, 0)
        BY DEF FlattenStep
    <2> QED
        BY <1>2, <2>1
  <1>3. CASE k # 0
    <2>1. k - 1 \in Nat /\ k - 1 \notin Bad
        BY <1>1, <1>3
    <2>2. PICK f : f = FlattenStep(ss, f, k - 1)
        BY <2>1
    <2> DEFINE g == [i \in 1 .. k |-> IF i = k THEN (IF i = 1 THEN ss[i] ELSE f[i - 1] \o ss[i]) ELSE f[i]]
    <2>3. \A i \in 1 .. k : i # 1 => g[i - 1] = f[i - 1]
        BY <2>1
    <2>4. \A i \in 1 .. k : g[i] = IF i = 1 THEN ss[i] ELSE g[i - 1] \o ss[i]
      <3> TAKE i \in 1 .. k
      <3>1. CASE i = k
          BY <3>1, <2>3
      <3>2. CASE i # k
        <4>1. i \in 1 .. k - 1
            BY <3>2, <2>1
        <4>2. f[i] = IF i = 1 THEN ss[i] ELSE f[i - 1] \o ss[i]
            BY <2>2, <4>1 DEF FlattenStep
        <4>3. g[i] = f[i]
            BY <3>2
        <4> HIDE DEF g
        <4> QED
            BY <4>2, <4>3, <2>3
      <3> QED BY <3>1, <3>2
    <2>5. g = FlattenStep(ss, g, k)
      <3>1. DOMAIN g = 1 .. k /\ g = [i \in 1 .. k |-> g[i]]
          OBVIOUS
      <3> HIDE DEF g
      <3> QED
          BY <3>1, <2>4, Zenon DEF FlattenStep
    <2> QED
        BY <2>5
  <1> QED
      BY <1>2, <1>3

\* FlattenSeq takes the last value of a function with those equations.
LEMMA FlattenIs ==
    ASSUME NEW S, NEW ss \in Seq(Seq(S)), ss # <<>>
    PROVE  \E f : /\ FlattenSeq(ss) = f[Len(ss)]
                  /\ \A i \in 1 .. Len(ss) : f[i] = IF i = 1 THEN ss[i] ELSE f[i - 1] \o ss[i]
  <1>1. Len(ss) \in Nat /\ Len(ss) # 0
      BY EmptySeq
  <1> DEFINE f == CHOOSE flatten : flatten = FlattenStep(ss, flatten, Len(ss))
  <1>2. f = FlattenStep(ss, f, Len(ss))
      BY <1>1, FlattenExists
  <1>3. FlattenSeq(ss) = f[Len(ss)]
      BY <1>1 DEF FlattenSeq, FlattenStep
  <1> HIDE DEF f
  <1>4. \A i \in 1 .. Len(ss) : f[i] = IF i = 1 THEN ss[i] ELSE f[i - 1] \o ss[i]
      BY <1>2 DEF FlattenStep
  <1> QED
      BY <1>3, <1>4

\* x stands somewhere in s.
Within(x, s) == \E i \in 1 .. Len(s) : s[i] = x

\* What is in a concatenation is in one of its parts.
LEMMA WithinConcat ==
    ASSUME NEW S, NEW s \in Seq(S), NEW t \in Seq(S), NEW x
    PROVE  Within(x, s \o t) <=> Within(x, s) \/ Within(x, t)
  <1>1. /\ Len(s \o t) = Len(s) + Len(t) /\ Len(s) \in Nat /\ Len(t) \in Nat
        /\ \A i \in 1 .. Len(s) + Len(t) :
               (s \o t)[i] = IF i <= Len(s) THEN s[i] ELSE t[i - Len(s)]
      BY ConcatProperties, LenProperties
  <1>2. ASSUME Within(x, s \o t) PROVE Within(x, s) \/ Within(x, t)
    <2>1. PICK i \in 1 .. Len(s) + Len(t) : (s \o t)[i] = x
        BY <1>1, <1>2 DEF Within
    <2>2. CASE i <= Len(s)
        BY <1>1, <2>1, <2>2 DEF Within
    <2>3. CASE ~(i <= Len(s))
      <3>1. i - Len(s) \in 1 .. Len(t) /\ t[i - Len(s)] = x
          BY <1>1, <2>1, <2>3
      <3> QED
          BY <3>1 DEF Within
    <2> QED
        BY <2>2, <2>3
  <1>3. ASSUME Within(x, s) PROVE Within(x, s \o t)
    <2>1. PICK i \in 1 .. Len(s) : s[i] = x
        BY <1>3 DEF Within
    <2>2. i \in 1 .. Len(s) + Len(t) /\ (s \o t)[i] = x
        BY <1>1, <2>1
    <2> QED
        BY <1>1, <2>2 DEF Within
  <1>4. ASSUME Within(x, t) PROVE Within(x, s \o t)
    <2>1. PICK i \in 1 .. Len(t) : t[i] = x
        BY <1>4 DEF Within
    <2>2. Len(s) + i \in 1 .. Len(s) + Len(t) /\ (s \o t)[Len(s) + i] = x
        BY <1>1, <2>1
    <2> QED
        BY <1>1, <2>2 DEF Within
  <1> QED
      BY <1>2, <1>3, <1>4

\* What is in a flattened sequence is in one of the sequences.
LEMMA FlattenContents ==
    ASSUME NEW S, NEW ss \in Seq(Seq(S))
    PROVE  /\ FlattenSeq(ss) \in Seq(S)
           /\ \A x : Within(x, FlattenSeq(ss)) <=> \E i \in 1 .. Len(ss) : Within(x, ss[i])
  <1>1. CASE ss = <<>>
    <2>1. FlattenSeq(ss) = <<>> /\ Len(ss) = 0
        BY <1>1 DEF FlattenSeq
    <2>2. <<>> \in Seq(S) /\ Len(<<>>) = 0 /\ 1 .. 0 = {}
        OBVIOUS
    <2> QED
        BY <2>1, <2>2 DEF Within
  <1>2. CASE ss # <<>>
    <2>1. PICK f : /\ FlattenSeq(ss) = f[Len(ss)]
                   /\ \A i \in 1 .. Len(ss) : f[i] = IF i = 1 THEN ss[i] ELSE f[i - 1] \o ss[i]
        BY <1>2, FlattenIs
    <2>2. Len(ss) \in Nat \ {0} /\ \A i \in 1 .. Len(ss) : ss[i] \in Seq(S)
        BY <1>2, EmptySeq, ElementOfSeq
    <2> DEFINE Good(k) == /\ f[k] \in Seq(S)
                          /\ \A x : Within(x, f[k]) <=> \E i \in 1 .. k : Within(x, ss[i])
               Bad == {k \in 1 .. Len(ss) : ~Good(k)}
    <2>3. Bad = {}
      <3> SUFFICES ASSUME Bad # {} PROVE FALSE
          OBVIOUS
      <3>1. PICK k \in Bad : \A j \in Bad : k <= j
        <4>1. Bad \in SUBSET Nat
            BY <2>2
        <4> HIDE DEF Bad
        <4> QED
            BY <4>1, LeastNatural
      <3>2. k \in 1 .. Len(ss) /\ ~Good(k)
          BY <3>1
      <3>3. CASE k = 1
        <4>1. f[k] = ss[k]
            BY <2>1, <3>2, <3>3
        <4> QED
            BY <2>2, <3>2, <3>3, <4>1
      <3>4. CASE k # 1
        <4>1. k - 1 \in 1 .. Len(ss) /\ k - 1 < k
            BY <2>2, <3>2, <3>4
        <4>2. Good(k - 1)
          <5> SUFFICES ASSUME ~Good(k - 1) PROVE FALSE
              OBVIOUS
          <5>1. k - 1 \in Bad
              BY <4>1
          <5> HIDE DEF Bad, Good
          <5>2. k <= k - 1
              BY <3>1, <5>1
          <5> QED
              BY <2>2, <3>2, <5>2
        <4>3. f[k] = f[k - 1] \o ss[k] /\ ss[k] \in Seq(S)
            BY <2>1, <2>2, <3>2, <3>4
        <4>4. f[k] \in Seq(S)
            BY <4>2, <4>3, ConcatProperties
        <4>5. ASSUME NEW x PROVE Within(x, f[k]) <=> Within(x, f[k - 1]) \/ Within(x, ss[k])
            BY <4>2, <4>3, WithinConcat
        <4>6. ASSUME NEW x PROVE Within(x, f[k]) <=> \E i \in 1 .. k : Within(x, ss[i])
          <5>1. \A i : i \in 1 .. k <=> i \in 1 .. k - 1 \/ i = k
              BY <2>2, <3>2, <3>4
          <5> QED
              BY <4>2, <4>5, <5>1
        <4> QED
            BY <3>2, <4>4, <4>6
      <3> QED
          BY <3>3, <3>4
    <2>4. Good(Len(ss))
      <3> HIDE DEF Good
      <3>1. Len(ss) \in 1 .. Len(ss)
          BY <2>2
      <3> QED
          BY <2>3, <3>1
    <2> QED
        BY <2>1, <2>4
  <1> QED
      BY <1>1, <1>2

\* Chosen yields what stands at the chosen places, and nothing else.
LEMMA ChosenContents ==
    ASSUME NEW S, NEW tx \in Seq(S), NEW I
    PROVE  /\ Chosen(tx, I) \in Seq(S)
           /\ \A x : Within(x, Chosen(tx, I)) <=> \E k \in 1 .. Len(tx) : k \in I /\ tx[k] = x
  <1> DEFINE ss == [k \in DOMAIN tx |-> IF k \in I THEN <<tx[k]>> ELSE <<>>]
  <1>1. DOMAIN tx = 1 .. Len(tx) /\ Len(tx) \in Nat /\ \A k \in 1 .. Len(tx) : tx[k] \in S
      BY LenProperties, ElementOfSeq
  <1>2. ss \in Seq(Seq(S)) /\ Len(ss) = Len(tx)
      BY <1>1
  <1>3. ASSUME NEW x, NEW k \in 1 .. Len(tx)
        PROVE  Within(x, ss[k]) <=> k \in I /\ tx[k] = x
    <2>1. CASE k \in I
      <3>1. ss[k] = <<tx[k]>>
          BY <1>1, <2>1
      <3> QED
          BY <2>1, <3>1 DEF Within
    <2>2. CASE k \notin I
      <3>1. ss[k] = <<>>
          BY <1>1, <2>2
      <3> QED
          BY <2>2, <3>1 DEF Within
    <2> QED
        BY <2>1, <2>2
  <1>4. Chosen(tx, I) = FlattenSeq(ss)
      BY DEF Chosen
  <1> HIDE DEF ss
  <1>5. FlattenSeq(ss) \in Seq(S)
      BY <1>2, FlattenContents
  <1>6. \A x : Within(x, FlattenSeq(ss)) <=> \E k \in 1 .. Len(tx) : Within(x, ss[k])
      BY <1>2, FlattenContents
  <1>7. \A x : Within(x, FlattenSeq(ss)) <=> \E k \in 1 .. Len(tx) : k \in I /\ tx[k] = x
      BY <1>3, <1>6
  <1> QED
      BY <1>4, <1>5, <1>7
-----------------------------------------------------------------------------
(* Identifiers. *)

\* The identifiers node n gives its own requests.
OwnID(n) == {id \in MessageID : id[1] = n}

\* They are message identifiers, and all that node n can draw is among them.
LEMMA OwnIDs ==
    ASSUME NEW n \in Node
    PROVE  /\ OwnID(n) \in SUBSET MessageID
           /\ \A k \in 1 .. MaxID : <<n, k>> \in OwnID(n)
  <1>1. \A k \in 1 .. MaxID : <<n, k>> \in MessageID /\ <<n, k>>[1] = n
      BY BootAssumption
  <1> QED
      BY <1>1 DEF OwnID

\* The least of some fresh identifiers is one of them.
LEMMA LeastIsFresh ==
    ASSUME NEW n \in Node, NEW ids \in SUBSET FreshID(n), ids # {}
    PROVE  Least(ids) \in ids /\ Least(ids) \in OwnID(n) /\ Least(ids) \notin UsedID
  <1>1. \A id \in ids : id \in OwnID(n) /\ id \notin UsedID /\ id[2] \in 1 .. MaxID /\ id = <<n, id[2]>>
    <2>1. ASSUME NEW id \in ids
          PROVE  id \in OwnID(n) /\ id \notin UsedID /\ id[2] \in 1 .. MaxID /\ id = <<n, id[2]>>
      <3>1. PICK k \in 1 .. MaxID : id = <<n, k>>
          BY DEF FreshID
      <3>2. id[2] = k
          BY <3>1
      <3> QED
          BY <3>1, <3>2, OwnIDs DEF FreshID
    <2> QED
        BY <2>1
  <1> DEFINE numbers == {id[2] : id \in ids}
  <1>2. PICK k \in numbers : \A l \in numbers : k <= l
    <2>1. numbers \in SUBSET Nat /\ numbers # {}
        BY <1>1, BootAssumption
    <2> HIDE DEF numbers
    <2> QED
        BY <2>1, LeastNatural
  <1>3. \E id \in ids : \A other \in ids : id[2] <= other[2]
      BY <1>2
  <1>4. Least(ids) \in ids
      BY <1>3 DEF Least
  <1> QED
      BY <1>1, <1>4

\* nextUniqueMessageID returns an identifier of the node's own that is not in use.
LEMMA NextIDIsFresh ==
    ASSUME NEW n \in Node, Running(n)
    PROVE  NextID(n) \in OwnID(n) /\ NextID(n) \in MessageID /\ NextID(n) \notin UsedID
BY LeastIsFresh, OwnIDs DEF Running, NextID

-----------------------------------------------------------------------------
(* Letters: the messages nodes send each other.  J are the identifiers of the   *)
(* JOINs that still wait for their answer.  A request never comes back to the   *)
(* node that began it, carries an identifier of that node, and as a JOIN looks  *)
(* for what follows it; an answer carries a node; and what carries the          *)
(* identifier of a JOIN is that JOIN, passed on or not, or an answer that names *)
(* another node than the one that joins.                                        *)

IsLetter(m, J) ==
    /\ IsRequest(m) =>
           /\ m.initiator # m.dest
           /\ m.messageID \in OwnID(m.initiator)
           /\ m.isJoin => m.searched = Plus(m.initiator, 1)
           /\ m.type = "JOIN" => m.isJoin
    /\ m.type \in {"NOTIFY", "SUCCESSOR", "PREDECESSOR"} => m.searched \in Node
    /\ m.messageID \in J => /\ IsRequest(m) => m.isJoin
                            /\ m.type = "SUCCESSOR" => m.searched # m.messageID[1]

Letters(J) == {m \in Message : IsLetter(m, J)}

\* What a node sends joins what it has sent before; a message to itself is not sent.
LEMMA SendsLetter ==
    ASSUME NEW L, NEW s \in NodeState, s.tx \in Seq(L), NEW m, m.dest = s.id \/ m \in L
    PROVE  sendMessage(s, m).tx \in Seq(L)
  <1>1. CASE m.dest = s.id
      BY <1>1 DEF sendMessage
  <1>2. CASE m.dest # s.id
    <2>1. Append(s.tx, m) \in Seq(L)
        BY <1>2
    <2> QED
        BY <1>2, <2>1 DEF sendMessage, NodeState
  <1> QED
      BY <1>1, <1>2

\* An ACK is a letter, whatever it acknowledges.
LEMMA AckIsLetter ==
    ASSUME NEW J, NEW s \in NodeState, NEW m \in Message
    PROVE  createAckMessage(s, m) \in Letters(J)
  <1>1. s.id \in IdSpace /\ s.id \in Node /\ m.src \in Node /\ m.messageID \in MessageID
      BY NodeAssumption DEF NodeState, Message
  <1> QED
      BY <1>1 DEF createAckMessage, createMessage, Letters, IsLetter, IsRequest,
                  Message, MessageType

\* Passing a request on.
LEMMA ForwardSends ==
    ASSUME NEW J, NEW s \in NodeState, s.tx \in Seq(Letters(J)), NEW m \in Letters(J),
           IsRequest(m), NEW addr \in Node, addr # m.initiator
    PROVE  forwardFindSuccessor(s, m, addr).tx \in Seq(Letters(J))
  <1> DEFINE fwd == [m EXCEPT !.type = "FIND_SUCCESSOR", !.src = s.id, !.dest = addr,
                              !.service = s.id, !.retransmitCounter = @ + 1]
  <1>1. fwd \in Letters(J)
    <2>1. s.id \in Node /\ m.retransmitCounter + 1 \in Nat
        BY DEF NodeState, Letters, Message
    <2>2. fwd \in Message
        BY <2>1 DEF Letters, Message, MessageType
    <2>3. /\ fwd.type = "FIND_SUCCESSOR" /\ fwd.dest = addr /\ fwd.initiator = m.initiator
          /\ fwd.messageID = m.messageID /\ fwd.isJoin = m.isJoin /\ fwd.searched = m.searched
        BY DEF Letters, Message
    <2> QED
        BY <2>2, <2>3 DEF Letters, IsLetter, IsRequest
  <1> HIDE DEF fwd
  <1>2. sendMessage(s, fwd).tx \in Seq(Letters(J))
      BY <1>1, SendsLetter
  <1>3. forwardFindSuccessor(s, m, addr).tx \in {s.tx, sendMessage(s, fwd).tx}
      BY DEF forwardFindSuccessor, fwd, NodeState, pushTimers, sendMessage
  <1> QED
      BY <1>2, <1>3

\* Answering one.
LEMMA ReplySends ==
    ASSUME NEW J, NEW s \in NodeState, s.tx \in Seq(Letters(J)), NEW m \in Letters(J),
           IsRequest(m), m.initiator # s.id, NEW addr \in Node, m.isJoin => addr = s.id
    PROVE  replyFindSuccessor(s, m, addr).tx \in Seq(Letters(J))
  <1> DEFINE reply == createSuccessorMessage(s, m, addr)
  <1>1. reply \in Letters(J)
    <2>1. /\ addr \in IdSpace /\ m.initiator \in Node /\ m.messageID \in MessageID
          /\ s.predecessor \in Node /\ s.id \in Node
        BY NodeAssumption DEF NodeState, Letters, Message
    <2>2. /\ reply \in Message /\ reply.type = "SUCCESSOR" /\ reply.searched = addr
          /\ reply.messageID = m.messageID
        BY <2>1 DEF createSuccessorMessage, createMessage, Message, MessageType
    <2>3. m.messageID[1] = m.initiator
        BY DEF Letters, IsLetter, OwnID
    <2> HIDE DEF reply
    <2> QED
        BY <2>2, <2>3 DEF Letters, IsLetter, IsRequest
  <1> HIDE DEF reply
  <1>2. sendMessage(s, reply).tx \in Seq(Letters(J))
      BY <1>1, SendsLetter
  <1>3. replyFindSuccessor(s, m, addr).tx = sendMessage(s, reply).tx
      BY DEF replyFindSuccessor, reply, NodeState, sendMessage, adoptJoiner, setPredecessor,
             setSuccessorRemoveTimers, removeTimers, TimersOf
  <1> QED
      BY <1>2, <1>3

\* goStateService on RX_JOIN and RX_FIND_SUCCESSOR sends letters.
LEMMA RxFindSuccessorSends ==
    ASSUME NEW I, NEW J, NEW s, Sound(s, I), s.tx \in Seq(Letters(J)), NEW m \in Letters(J),
           IsRequest(m), m.dest = s.id
    PROVE  rxFindSuccessor(s, m).tx \in Seq(Letters(J))
  <1> DEFINE learnt == learnSeed(s, m)
             acked  == sendMessage(learnt, createAckMessage(learnt, m))
             lookup == findSuccessor(acked, m.searched, m.src, m.initiator, m.isJoin)
  <1>1. /\ m \in Message /\ m.searched \in IdSpace /\ m.initiator \in Node
        /\ m.isJoin \in BOOLEAN /\ m.initiator # s.id
        /\ m.isJoin => m.searched = Plus(m.initiator, 1)
      BY DEF Letters, Message, IsLetter
  <1>2. Sound(learnt, I) /\ learnt.id = s.id
      BY <1>1, LearnSeedFollows DEF Follows
  <1>3. learnt.tx = s.tx
      BY DEF learnSeed, pushUpdateTimer, Sound, NodeState
  <1> HIDE DEF learnt
  <1>4. Sound(acked, I) /\ acked.id = s.id
      BY <1>1, <1>2, AckFollows DEF Follows
  <1>5. acked.tx \in Seq(Letters(J))
      BY <1>1, <1>2, <1>3, AckIsLetter, SendsLetter DEF Sound
  <1> HIDE DEF acked
  <1>6. /\ lookup.found \in Node
        /\ lookup.action = "FORWARD" => lookup.found \notin {s.id, m.initiator}
        /\ lookup.action = "REPLY" /\ m.isJoin => lookup.found = s.id
      BY <1>1, <1>4, FoundSuits DEF Sound
  <1>7. lookup.action \in {"REPLY", "FORWARD"}
      BY DEF findSuccessor
  <1> HIDE DEF lookup
  <1>8. CASE lookup.action = "REPLY"
    <2>1. replyFindSuccessor(acked, m, lookup.found).tx \in Seq(Letters(J))
        BY <1>1, <1>4, <1>5, <1>6, <1>8, ReplySends DEF Sound
    <2> QED
        BY <1>8, <2>1 DEF rxFindSuccessor, lookup, acked, learnt
  <1>9. CASE lookup.action = "FORWARD"
    <2>1. forwardFindSuccessor(acked, m, lookup.found).tx \in Seq(Letters(J))
        BY <1>1, <1>4, <1>5, <1>6, <1>9, ForwardSends DEF Sound
    <2> QED
        BY <1>9, <2>1 DEF rxFindSuccessor, lookup, acked, learnt
  <1> QED
      BY <1>7, <1>8, <1>9

\* The circle has an identifier 1.
LEMMA OneIsId == 1 \in IdSpace
BY MaxAssumption DEF IdSpace

\* What asks for nobody and does not answer a request is a letter.
LEMMA PlainIsLetter ==
    ASSUME NEW J, NEW s \in NodeState,
           NEW type \in {"ACK", "FIND_PREDECESSOR", "NOTIFY", "PREDECESSOR"},
           NEW dest \in Node, NEW mid \in MessageID, NEW searched \in IdSpace,
           type \in {"NOTIFY", "PREDECESSOR"} => searched \in Node
    PROVE  createMessage(s, type, dest, mid, searched) \in Letters(J)
  <1>1. s.id \in Node
      BY DEF NodeState
  <1> QED
      BY <1>1 DEF createMessage, Letters, IsLetter, IsRequest, Message, MessageType

\* goStateService on RX_FIND_PREDECESSOR, and goStateUpdate on RX_NOTIFY.
LEMMA RxFindPredecessorSends ==
    ASSUME NEW J, NEW s \in NodeState, s.tx \in Seq(Letters(J)), NEW m \in Message
    PROVE  rxFindPredecessor(s, m).tx \in Seq(Letters(J))
  <1> DEFINE acked == sendMessage(s, createAckMessage(s, m))
             reply == createMessage(acked, "PREDECESSOR", m.initiator, m.messageID, s.predecessor)
  <1>1. acked.tx \in Seq(Letters(J))
      BY AckIsLetter, SendsLetter
  <1>2. acked \in NodeState
    <2>1. createAckMessage(s, m) \in Letters({})
        BY AckIsLetter
    <2>2. createAckMessage(s, m) \in Message
        BY <2>1 DEF Letters
    <2>3. Append(s.tx, createAckMessage(s, m)) \in Seq(Message)
        BY <2>2 DEF NodeState
    <2> QED
        BY <2>3 DEF sendMessage, NodeState
  <1>3. acked.id = s.id
      BY DEF sendMessage, NodeState
  <1>4. reply \in Letters(J)
    <2>1. /\ s.predecessor \in Node /\ s.predecessor \in IdSpace
          /\ m.initiator \in Node /\ m.messageID \in MessageID
        BY NodeAssumption DEF NodeState, Message
    <2> HIDE DEF acked
    <2> QED
        BY <1>2, <2>1, PlainIsLetter
  <1>5. createMessage(s, "PREDECESSOR", m.initiator, m.messageID, s.predecessor) = reply
      BY <1>3 DEF createMessage
  <1> HIDE DEF acked, reply
  <1>6. sendMessage(acked, reply).tx \in Seq(Letters(J))
      BY <1>1, <1>2, <1>4, SendsLetter
  <1> QED
      BY <1>5, <1>6 DEF rxFindPredecessor, acked

\* A NOTIFY is answered with an ACK.
LEMMA RxNotifySends ==
    ASSUME NEW J, NEW s \in NodeState, s.tx \in Seq(Letters(J)), NEW m \in Message
    PROVE  rxNotify(s, m).tx \in Seq(Letters(J))
  <1>1. sendMessage(s, createAckMessage(s, m)).tx \in Seq(Letters(J))
      BY AckIsLetter, SendsLetter
  <1>2. rxNotify(s, m).tx = sendMessage(s, createAckMessage(s, m)).tx
      BY DEF rxNotify, setPredecessor, sendMessage, NodeState
  <1> QED
      BY <1>1, <1>2

\* A SUCCESSOR gives rise to no message.
LEMMA RxSuccessorSends ==
    ASSUME NEW s \in NodeState, NEW m
    PROVE  rxSuccessor(s, m).tx = s.tx
BY DEF rxSuccessor, joinAnswered, fingerAnswered, setSuccessorRemoveTimers, setPredecessor,
       setNextFingerToUpdate, pushUpdateTimer, setFingerRemoveTimers, removeTimers, NodeState

\* The answer to a FIND_PREDECESSOR is followed by a NOTIFY.
LEMMA RxPredecessorSends ==
    ASSUME NEW I, NEW J, NEW s, Sound(s, I), s.tx \in Seq(Letters(J)), NEW m \in Message,
           m.searched \in Node, NEW mid \in MessageID
    PROVE  rxPredecessor(s, m, mid).tx \in Seq(Letters(J))
  <1> DEFINE stable == setSuccessorStabilize(s, m.searched, m.messageID)
             next   == setNextFingerToUpdate(stable)
             notify == createMessage(next, "NOTIFY", next.successor, mid, next.id)
  <1>1. Sound(stable, I)
      BY SetSuccessorStabilizeKeeps DEF Keeps
  <1>2. stable.tx = s.tx
      BY DEF setSuccessorStabilize, removeTimers, Sound, NodeState
  <1> HIDE DEF stable
  <1>3. Sound(next, I)
      BY <1>1, SetNextFingerToUpdateFollows DEF Follows
  <1>4. next.tx = s.tx
      BY <1>1, <1>2 DEF setNextFingerToUpdate, Sound, NodeState
  <1> HIDE DEF next
  <1>5. notify \in Letters(J)
    <2>1. next \in NodeState /\ next.successor \in Node /\ next.id \in Node /\ next.id \in IdSpace
        BY <1>3, NodeAssumption DEF Sound, NodeState
    <2> QED
        BY <2>1, PlainIsLetter
  <1> HIDE DEF notify
  <1>6. sendMessage(next, notify).tx \in Seq(Letters(J))
      BY <1>3, <1>4, <1>5, SendsLetter DEF Sound
  <1>7. issueNotify(next, mid).tx = sendMessage(next, notify).tx
      BY <1>3 DEF issueNotify, notify, pushTimers, sendMessage, Sound, NodeState
  <1> QED
      BY <1>6, <1>7 DEF rxPredecessor, next, stable

\* Every handler of a received letter sends letters.
LEMMA ReceivedSends ==
    ASSUME NEW I, NEW J, NEW s, Sound(s, I), s.tx \in Seq(Letters(J)),
           NEW m \in Letters(J), m.dest = s.id, NEW mid \in MessageID,
           NEW r \in received(s, m, mid)
    PROVE  r.tx \in Seq(Letters(J))
  <1>1. /\ m \in Message /\ s \in NodeState
        /\ m.type \in {"NOTIFY", "SUCCESSOR", "PREDECESSOR"} => m.searched \in Node
      BY DEF Letters, IsLetter, Sound
  <1>2. m.type \in {"JOIN", "FIND_SUCCESSOR"} => rxFindSuccessor(s, m).tx \in Seq(Letters(J))
      BY RxFindSuccessorSends DEF IsRequest
  <1>3. /\ rxFindPredecessor(s, m).tx \in Seq(Letters(J))
        /\ rxNotify(s, m).tx \in Seq(Letters(J))
        /\ rxSuccessor(s, m).tx \in Seq(Letters(J))
      BY <1>1, RxFindPredecessorSends, RxNotifySends, RxSuccessorSends
  <1>4. m.type = "PREDECESSOR" => rxPredecessor(s, m, mid).tx \in Seq(Letters(J))
      BY <1>1, RxPredecessorSends
  <1>5. \A t : rxAck(s, t).tx = s.tx
      BY <1>1 DEF rxAck, NodeState
  <1> QED
      BY <1>2, <1>3, <1>4, <1>5 DEF received

\* A JOIN with an identifier of the node's own is a letter.
LEMMA IssueJoinSends ==
    ASSUME NEW J, NEW s, Sound(s, OwnID(s.id)), s.tx \in Seq(Letters(J)),
           ConfSeed[s.id] # <<>>, NEW n, NEW mid \in OwnID(s.id)
    PROVE  issueJoin(s, n, mid).tx \in Seq(Letters(J))
  <1> DEFINE seeds == ConfSeed[s.id]
             next  == (s.currSeed + 1) % Len(seeds)
             made  == createMessage(s, "JOIN", seeds[next + 1], mid, Plus(s.id, 1))
             join  == [made EXCEPT !.isJoin = TRUE]
             moved == [s EXCEPT !.currSeed = next]
             sent  == sendMessage(moved, join)
  <1>1. seeds \in Seq(Node) /\ Len(seeds) \in Nat \ {0}
      BY SeedAssumption DEF Sound, NodeState
  <1>2. next \in 0 .. Len(seeds) - 1
      BY <1>1 DEF Sound, NodeState
  <1>3. join.dest = s.id \/ join \in Letters(J)
    <2>1. seeds[next + 1] \in Node
        BY <1>1, <1>2
    <2>2. Plus(s.id, 1) \in IdSpace /\ s.id \in Node
      <3>1. s.id \in Node /\ s.id \in IdSpace /\ 1 \in IdSpace
          BY NodeAssumption, OneIsId DEF Sound, NodeState
      <3> QED
          BY <3>1, PlusMinusType
    <2> DEFINE dest == seeds[next + 1]
    <2>3. dest \in Node
        BY <2>1
    <2>4. join = [createMessage(s, "JOIN", dest, mid, Plus(s.id, 1)) EXCEPT !.isJoin = TRUE]
        OBVIOUS
    <2> HIDE DEF dest, join, made, next
    <2>5. mid \in MessageID
        BY DEF OwnID
    <2>6. /\ join \in Message /\ join.type = "JOIN" /\ join.dest = dest
          /\ join.initiator = s.id /\ join.messageID = mid /\ join.isJoin
          /\ join.searched = Plus(s.id, 1)
        BY <2>2, <2>3, <2>4, <2>5 DEF createMessage, Message, MessageType
    <2> QED
        BY <2>6 DEF Letters, IsLetter, IsRequest
  <1>4. moved \in NodeState /\ moved.tx = s.tx /\ moved.id = s.id
    <2>1. next \in Nat
        BY <1>1, <1>2
    <2> HIDE DEF next
    <2> QED
        BY <2>1 DEF Sound, NodeState
  <1> HIDE DEF moved, join
  <1>5. sent.tx \in Seq(Letters(J))
      BY <1>3, <1>4, SendsLetter
  <1>6. issueJoin(s, n, mid).tx = sent.tx
      BY <1>4 DEF issueJoin, sent, moved, join, pushTimers, sendMessage, NodeState
  <1> QED
      BY <1>5, <1>6

\* A reset sends its JOIN and nothing of what had been queued.
LEMMA HardResetSends ==
    ASSUME NEW J, NEW s, Sound(s, OwnID(s.id)), NEW mid \in OwnID(s.id)
    PROVE  hardReset(s, mid).tx \in Seq(Letters(J))
  <1> DEFINE flushed == flush(s)
             reset   == softReset(flushed)
  <1>1. Sound(flushed, OwnID(s.id)) /\ flushed.id = s.id
      BY FlushFollows DEF Follows
  <1>2. flushed.tx = <<>>
      BY DEF flush, Sound, NodeState
  <1> HIDE DEF flushed
  <1>3. Sound(reset, OwnID(s.id)) /\ reset.id = s.id
      BY <1>1, SoftResetFollows DEF Follows
  <1>4. reset.tx = <<>>
      BY <1>1, <1>2 DEF softReset, Sound, NodeState
  <1> HIDE DEF reset
  <1>5. reset.tx \in Seq(Letters(J))
      BY <1>4
  <1>6. ConfSeed[s.id] # <<>> => issueJoin(reset, 0, mid).tx \in Seq(Letters(J))
      BY <1>3, <1>5, IssueJoinSends
  <1> QED
      BY <1>1, <1>5, <1>6 DEF hardReset, goStateInit, reset, flushed

\* An expired timer gives rise to a JOIN at most.
LEMMA TimerExpiredSends ==
    ASSUME NEW J, NEW s, Sound(s, OwnID(s.id)), s.tx \in Seq(Letters(J)),
           NEW t \in s.timers, NEW mid \in OwnID(s.id)
    PROVE  timerExpired(s, t, mid).tx \in Seq(Letters(J))
  <1> DEFINE I    == OwnID(s.id)
             rest == timerDropped(s, t)
             own  == unlocked(removeTimers(rest, {"RX_SUCCESSOR"}, "FIND_SUCCESSOR", t.messageID))
             free == unlocked(rest)
             past == removeTimers(rest, {"RX_ACK", "RX_SUCCESSOR_ON_JOIN"}, "JOIN", t.messageID)
  <1>1. Sound(rest, I) /\ rest.id = s.id
      BY TimerDroppedFollows DEF Keeps
  <1>2. rest.tx = s.tx
      BY DEF timerDropped, Sound, NodeState
  <1>3. timerExpired(s, t, mid) =
            IF t.type = "RX_ACK" THEN ackExpired(rest, t, mid)
            ELSE IF t.type = "RX_SUCCESSOR_ON_JOIN" THEN joinExpired(rest, t, mid)
            ELSE IF t.type = "RX_SUCCESSOR" THEN [free EXCEPT !.isNowStabilize = FALSE]
            ELSE setCopyPreviousAliveFinger(free, mid)
      BY DEF timerExpired, timerDropped
  <1> HIDE DEF rest
  <1>4. \A q \in {own, free, past} : Sound(q, I) /\ q.id = s.id
      BY <1>1, RemoveTimersSound, UnlockedFollows DEF Follows
  <1>5. \A q \in {own, free, past} : q.tx = s.tx
      BY <1>1, <1>2 DEF unlocked, removeTimers, Sound, NodeState
  <1>6. unlocked(removeTimers(rest, {"RX_PREDECESSOR"}, "FIND_PREDECESSOR", t.messageID)).tx = s.tx
      BY <1>1, <1>2 DEF unlocked, removeTimers, Sound, NodeState
  <1> HIDE DEF own, free, past
  <1>7. ASSUME NEW q \in {own, free}
        PROVE  setCopyPreviousAliveFinger(q, mid).tx \in Seq(Letters(J))
    <2>1. hardReset(q, mid).tx \in Seq(Letters(J))
        BY <1>4, HardResetSends
    <2>2. setCopyPreviousAliveFinger(q, mid).tx \in {hardReset(q, mid).tx, s.tx}
        BY <1>4, <1>5 DEF setCopyPreviousAliveFinger, Sound, NodeState
    <2> QED
        BY <2>1, <2>2
  <1>8. ASSUME t.type = "RX_SUCCESSOR_ON_JOIN" \/ t.retryMess = "JOIN"
        PROVE  joinExpired(rest, t, mid).tx \in Seq(Letters(J))
    <2>1. ConfSeed[s.id] # <<>>
        BY <1>8 DEF Sound, TimersInOrder
    <2>2. \A n : issueJoin(past, n, mid).tx \in Seq(Letters(J))
        BY <1>4, <1>5, <2>1, IssueJoinSends
    <2> QED
        BY <2>2 DEF joinExpired, past
  <1>9. forwardNoAck(rest, t).tx = s.tx
      BY <1>4, <1>5 DEF forwardNoAck, own, Sound, NodeState
  <1>10. ASSUME t.type = "RX_ACK" PROVE ackExpired(rest, t, mid).tx \in Seq(Letters(J))
      BY <1>5, <1>6, <1>7, <1>8, <1>9 DEF ackExpired, findSuccessorNoAck, own, free
  <1>11. [free EXCEPT !.isNowStabilize = FALSE].tx = s.tx
      BY <1>4, <1>5 DEF Sound, NodeState
  <1> QED
      BY <1>3, <1>7, <1>8, <1>10, <1>11

\* An expired UPDATE timer asks for a predecessor, or for a finger with an
\* identifier no JOIN carries.
LEMMA UpdateExpiredSends ==
    ASSUME NEW J, NEW s, Sound(s, OwnID(s.id)), s.tx \in Seq(Letters(J)),
           s.updateTimers > 0, NEW mid \in OwnID(s.id), mid \notin J
    PROVE  updateExpired(s, mid).tx \in Seq(Letters(J))
  <1> DEFINE I      == OwnID(s.id)
             locked == [s EXCEPT !.isNowUpdate = TRUE]
             first  == [locked EXCEPT !.isNowStabilize = TRUE]
             next   == setNextFingerToUpdate(locked)
  <1>1. Sound(locked, I) /\ locked.id = s.id /\ locked.tx = s.tx
        /\ locked.seedAddrs = s.seedAddrs /\ locked.isUpdated = s.isUpdated
    <2>1. locked \in NodeState
        BY DEF Sound, NodeState
    <2> QED
        BY <2>1 DEF Sound, NodeState, SeedsInOrder, TimersInOrder
  <1>2. s.seedAddrs # <<>>
      BY DEF Sound, SeedsInOrder
  <1>3. mid \in MessageID
      BY DEF OwnID
  <1> HIDE DEF locked
  <1>4. Sound(next, I) /\ next.id = s.id /\ next.seedAddrs # <<>>
      BY <1>1, <1>2, SetNextFingerToUpdateFollows DEF Follows, SamePlan
  <1>5. next.tx = s.tx /\ first \in NodeState /\ first.tx = s.tx /\ first.id = s.id
      BY <1>1 DEF setNextFingerToUpdate, Sound, NodeState
  <1>6. ASSUME staleFingers(s) # {} PROVE next.cwFingerIndex \in FingerIndex
    <2>1. staleFingers(locked) = staleFingers(s)
        BY <1>1 DEF staleFingers
    <2>2. lowest(staleFingers(locked)) \in FingerIndex
        BY <1>6, <2>1, HighestLowest DEF staleFingers
    <2>3. next = [locked EXCEPT !.cwFingerIndex = lowest(staleFingers(locked))]
        BY <1>6, <2>1 DEF setNextFingerToUpdate
    <2> QED
        BY <1>1, <2>2, <2>3 DEF Sound, NodeState
  <1> HIDE DEF first, next
  <1>7. ASSUME NEW q \in {first, next}
        PROVE  issueFindPredecessor(q, mid).tx \in Seq(Letters(J))
    <2> DEFINE find == createMessage(q, "FIND_PREDECESSOR", q.successor, mid,
                                     Minus(q.successor, 1))
    <2>1. q \in NodeState /\ q.tx \in Seq(Letters(J))
        BY <1>4, <1>5 DEF Sound
    <2>2. q.successor \in Node /\ q.successor \in IdSpace /\ 1 \in IdSpace
        BY <2>1, NodeAssumption, OneIsId DEF NodeState
    <2>3. Minus(q.successor, 1) \in IdSpace
        BY <2>2, PlusMinusType
    <2>4. find \in Letters(J)
        BY <1>3, <2>1, <2>2, <2>3, PlainIsLetter
    <2> HIDE DEF find
    <2>5. sendMessage(q, find).tx \in Seq(Letters(J))
        BY <2>1, <2>4, SendsLetter
    <2>6. issueFindPredecessor(q, mid).tx = sendMessage(q, find).tx
        BY <2>1 DEF issueFindPredecessor, find, pushTimers, sendMessage, NodeState
    <2> QED
        BY <2>5, <2>6
  <1>8. ASSUME staleFingers(s) # {}
        PROVE  issueFindSuccessor(next, mid).tx \in Seq(Letters(J))
    <2> DEFINE find == createMessage(next, "FIND_SUCCESSOR", fingerPast(next), mid,
                                     FingerStart(next.id, next.cwFingerIndex))
    <2>1. next \in NodeState /\ next.tx \in Seq(Letters(J))
        BY <1>4, <1>5 DEF Sound
    <2>2. fingerPast(next) \in Node
        BY <1>4, FingerPastIsNode
    <2>3. FingerStart(next.id, next.cwFingerIndex) \in IdSpace
      <3>1. next.id \in IdSpace /\ FingerMask[next.cwFingerIndex] \in IdSpace
          BY <1>6, <1>8, <2>1, NodeAssumption, FingersAssumption DEF NodeState
      <3> QED
          BY <3>1, PlusMinusType DEF FingerStart
    <2>4. find.dest = next.id \/ find \in Letters(J)
      <3>1. /\ find \in Message /\ find.type = "FIND_SUCCESSOR" /\ find.dest = fingerPast(next)
            /\ find.initiator = next.id /\ find.messageID = mid /\ ~find.isJoin
        <4>1. next.id \in Node
            BY <2>1 DEF NodeState
        <4> QED
            BY <1>3, <2>2, <2>3, <4>1 DEF createMessage, Message, MessageType
      <3> HIDE DEF find
      <3> QED
          BY <1>4, <3>1 DEF Letters, IsLetter, IsRequest
    <2> HIDE DEF find
    <2>5. sendMessage(next, find).tx \in Seq(Letters(J))
        BY <2>1, <2>4, SendsLetter
    <2>6. issueFindSuccessor(next, mid).tx \in {next.tx, sendMessage(next, find).tx}
        BY <2>1 DEF issueFindSuccessor, find, pushTimers, sendMessage, NodeState
    <2> QED
        BY <2>1, <2>5, <2>6
  <1> QED
      BY <1>7, <1>8 DEF updateExpired, locked, first, next

-----------------------------------------------------------------------------
(* The JOINs that wait for their answer. *)

\* The identifiers of the JOINs node state s waits for, and those of the network.
JoinIDs(s) == {t.messageID : t \in {u \in s.timers : u.type = "RX_SUCCESSOR_ON_JOIN"}}
Joining    == UNION {JoinIDs(node[n]) : n \in Node}

\* r waits for no JOIN but those s waits for, and perhaps that of identifier mid.
JoinsOf(r, s, ids) ==
    \A t \in r.timers : t.type = "RX_SUCCESSOR_ON_JOIN" => t \in s.timers \/ t.messageID \in ids

\* No handler of a message issues a JOIN.
LEMMA ReceivedJoins ==
    ASSUME NEW I, NEW s, Sound(s, I), NEW m \in Message, NEW mid,
           NEW r \in received(s, m, mid)
    PROVE  JoinsOf(r, s, {})
  <1>1. s \in NodeState
      BY DEF Sound
  <1>2. JoinsOf(s, s, {})
      BY DEF JoinsOf
  <1>3. JoinsOf(rxFindSuccessor(s, m), s, {})
    <2> DEFINE learnt == learnSeed(s, m)
               acked  == sendMessage(learnt, createAckMessage(learnt, m))
    <2>1. Sound(learnt, I) /\ learnt.timers = s.timers
      <3>1. Sound(learnt, I)
          BY LearnSeedFollows DEF Follows
      <3> QED
          BY <1>1, <3>1 DEF learnSeed, pushUpdateTimer, NodeState
    <2> HIDE DEF learnt
    <2>2. Sound(acked, I) /\ acked.timers = s.timers
      <3>1. Sound(acked, I)
          BY <2>1, AckFollows DEF Follows
      <3> QED
          BY <2>1, <3>1 DEF sendMessage, Sound, NodeState
    <2> HIDE DEF acked
    <2>3. acked \in NodeState
        BY <2>2 DEF Sound
    <2>4. ASSUME NEW addr
          PROVE  /\ JoinsOf(replyFindSuccessor(acked, m, addr), s, {})
                 /\ JoinsOf(forwardFindSuccessor(acked, m, addr), s, {})
      <3>1. JoinsOf(replyFindSuccessor(acked, m, addr), s, {})
          BY <2>2, <2>3 DEF JoinsOf, NodeState, replyFindSuccessor, adoptJoiner, setPredecessor,
             setSuccessorRemoveTimers, removeTimers, TimersOf, sendMessage
      <3>2. JoinsOf(forwardFindSuccessor(acked, m, addr), s, {})
          BY <2>2, <2>3 DEF JoinsOf, NodeState, forwardFindSuccessor, pushTimers, TimerFor, sendMessage
      <3> QED BY <3>1, <3>2
    <2> QED
        BY <2>4 DEF rxFindSuccessor, acked, learnt
  <1>4. JoinsOf(rxFindPredecessor(s, m), s, {}) /\ JoinsOf(rxNotify(s, m), s, {})
    <2> DEFINE acked == sendMessage(s, createAckMessage(s, m))
    <2>1. acked \in NodeState
        BY AckFollows DEF Follows, Sound
    <2>2. acked.timers = s.timers
        BY <1>1 DEF sendMessage, NodeState
    <2> HIDE DEF acked
    <2>3. \A msg : sendMessage(acked, msg).timers = s.timers
        BY <2>1, <2>2 DEF sendMessage, NodeState
    <2>4. \A addr : setPredecessor(acked, addr).timers = s.timers
        BY <2>1, <2>2 DEF setPredecessor, NodeState
    <2> QED
        BY <2>3, <2>4 DEF JoinsOf, rxFindPredecessor, rxNotify, acked
  <1>6. JoinsOf(rxSuccessor(s, m), s, {})
      BY <1>1 DEF JoinsOf, NodeState, rxSuccessor, joinAnswered, fingerAnswered,
         setSuccessorRemoveTimers, setPredecessor, setNextFingerToUpdate, pushUpdateTimer,
         setFingerRemoveTimers, removeTimers, TimersOf
  <1>7. JoinsOf(rxPredecessor(s, m, mid), s, {})
    <2> DEFINE stable == setSuccessorStabilize(s, m.searched, m.messageID)
               next   == setNextFingerToUpdate(stable)
    <2>1. next.timers \subseteq s.timers
        BY <1>1 DEF NodeState, setSuccessorStabilize, setNextFingerToUpdate, removeTimers, TimersOf
    <2>2. issueNotify(next, mid).timers
              = next.timers \cup {TimerFor("RX_ACK", createMessage(next, "NOTIFY", next.successor, mid, next.id), 0)}
        BY <1>1 DEF NodeState, issueNotify, pushTimers, sendMessage, setSuccessorStabilize,
           setNextFingerToUpdate, removeTimers
    <2> HIDE DEF next
    <2>3. JoinsOf(issueNotify(next, mid), s, {})
        BY <2>1, <2>2 DEF JoinsOf, TimerFor
    <2> QED
        BY <1>2, <2>3 DEF rxPredecessor, next, stable
  <1>8. \A t : JoinsOf(rxAck(s, t), s, {})
      BY <1>1 DEF JoinsOf, NodeState, rxAck
  <1> QED
      BY <1>2, <1>3, <1>4, <1>6, <1>7, <1>8 DEF received

\* issueJoin adds its own.
LEMMA IssueJoinJoins ==
    ASSUME NEW s \in NodeState, NEW n, NEW mid
    PROVE  JoinsOf(issueJoin(s, n, mid), s, {mid})
  <1>1. issueJoin(s, n, mid).timers \subseteq s.timers \cup
            {t \in issueJoin(s, n, mid).timers : t.messageID = mid}
      BY DEF NodeState, issueJoin, pushTimers, sendMessage, createMessage, TimerFor
  <1> QED
      BY <1>1 DEF JoinsOf

\* A reset leaves no JOIN but the one it issues.
LEMMA HardResetJoins ==
    ASSUME NEW s \in NodeState, NEW mid
    PROVE  \A t \in hardReset(s, mid).timers : t.messageID = mid
BY DEF NodeState, hardReset, flush, goStateInit, softReset, issueJoin, pushTimers,
       sendMessage, createMessage, TimerFor

\* An expired timer adds the JOIN it issues.
LEMMA TimerExpiredJoins ==
    ASSUME NEW I, NEW s, Sound(s, I), NEW t \in s.timers, NEW mid
    PROVE  JoinsOf(timerExpired(s, t, mid), s, {mid})
  <1> DEFINE rest == timerDropped(s, t)
             own  == unlocked(removeTimers(rest, {"RX_SUCCESSOR"}, "FIND_SUCCESSOR", t.messageID))
             free == unlocked(rest)
             past == removeTimers(rest, {"RX_ACK", "RX_SUCCESSOR_ON_JOIN"}, "JOIN", t.messageID)
  <1>1. Sound(rest, I)
      BY TimerDroppedFollows DEF Keeps
  <1>2. rest.timers \subseteq s.timers
      BY DEF timerDropped, Sound, NodeState
  <1>3. timerExpired(s, t, mid) =
            IF t.type = "RX_ACK" THEN ackExpired(rest, t, mid)
            ELSE IF t.type = "RX_SUCCESSOR_ON_JOIN" THEN joinExpired(rest, t, mid)
            ELSE IF t.type = "RX_SUCCESSOR" THEN [free EXCEPT !.isNowStabilize = FALSE]
            ELSE setCopyPreviousAliveFinger(free, mid)
      BY DEF timerExpired, timerDropped
  <1> HIDE DEF rest
  <1>4. own \in NodeState /\ free \in NodeState /\ past \in NodeState
    <2>1. Sound(own, I) /\ Sound(free, I) /\ Sound(past, I)
        BY <1>1, RemoveTimersSound, UnlockedFollows DEF Follows
    <2> QED
        BY <2>1 DEF Sound
  <1>5. own.timers \subseteq s.timers /\ free.timers \subseteq s.timers /\ past.timers \subseteq s.timers
      BY <1>1, <1>2 DEF unlocked, removeTimers, Sound, NodeState
  <1>6. unlocked(removeTimers(rest, {"RX_PREDECESSOR"}, "FIND_PREDECESSOR", t.messageID)).timers \subseteq s.timers
      BY <1>1, <1>2 DEF unlocked, removeTimers, Sound, NodeState
  <1> HIDE DEF own, free, past
  <1>7. ASSUME NEW q \in {own, free}
        PROVE  JoinsOf(setCopyPreviousAliveFinger(q, mid), s, {mid})
    <2>1. \A u \in hardReset(q, mid).timers : u.messageID = mid
        BY <1>4, HardResetJoins
    <2>2. setCopyPreviousAliveFinger(q, mid).timers \in {hardReset(q, mid).timers, q.timers}
        BY <1>4 DEF setCopyPreviousAliveFinger, NodeState
    <2> QED
        BY <1>5, <2>1, <2>2 DEF JoinsOf
  <1>8. JoinsOf(joinExpired(rest, t, mid), s, {mid})
    <2>1. \A n : JoinsOf(issueJoin(past, n, mid), past, {mid})
        BY <1>4, IssueJoinJoins
    <2>2. \A n : JoinsOf(issueJoin(past, n, mid), s, {mid})
        BY <1>5, <2>1 DEF JoinsOf
    <2> QED
        BY <2>2 DEF joinExpired, past
  <1>9. JoinsOf(forwardNoAck(rest, t), s, {mid})
      BY <1>4, <1>5 DEF JoinsOf, forwardNoAck, own, NodeState
  <1>10. JoinsOf(ackExpired(rest, t, mid), s, {mid})
      BY <1>5, <1>6, <1>7, <1>8, <1>9 DEF JoinsOf, ackExpired, findSuccessorNoAck, own, free
  <1>11. [free EXCEPT !.isNowStabilize = FALSE].timers = free.timers
      BY <1>4 DEF NodeState
  <1> QED
      BY <1>3, <1>5, <1>7, <1>8, <1>10, <1>11 DEF JoinsOf

\* An expired UPDATE timer issues none.
LEMMA UpdateExpiredJoins ==
    ASSUME NEW I, NEW s, Sound(s, I), NEW mid
    PROVE  JoinsOf(updateExpired(s, mid), s, {})
BY DEF JoinsOf, Sound, NodeState, updateExpired, issueFindPredecessor, issueFindSuccessor,
       setNextFingerToUpdate, pushTimers, TimerFor, sendMessage, createMessage

-----------------------------------------------------------------------------
(* The invariant: every node is in order, has nothing left to send, and every  *)
(* queue holds letters for its own node.                                       *)

NodesInOrder == /\ node \in [Node -> NodeState]
                /\ \A n \in Node : /\ Sound(node[n], OwnID(n))
                                   /\ node[n].id = n /\ node[n].tx = <<>>

QueuesInOrder == /\ net \in [Node -> Seq(Message)]
                 /\ \A d \in Node : \A m : Within(m, net[d]) =>
                                               m \in Letters(Joining) /\ m.dest = d

InOrder == NodesInOrder /\ QueuesInOrder /\ given \in 0 .. MaxCommands

\* K holds the JOINs that wait for their answer, and else identifiers not in use.
Covers(K) == /\ Joining \subseteq K
             /\ \A id \in K : id \in Joining \/ id \notin UsedID

\* r is what a handler may make of node n when K are the JOINs that wait.
Handled(r, n, K) == /\ Sound(r, OwnID(n)) /\ r.id = n
                    /\ JoinIDs(r) \subseteq K /\ r.tx \in Seq(Letters(K))

\* What lies in a queue or in a timer buffer has an identifier in use.
LEMMA InUse ==
    ASSUME InOrder
    PROVE  /\ Joining \subseteq UsedID
           /\ \A d \in Node : \A m : Within(m, net[d]) => m.messageID \in UsedID
           /\ \A d \in Node : \A t \in node[d].timers : t.messageID \in UsedID
  <1>1. ASSUME NEW d \in Node, NEW m, Within(m, net[d]) PROVE m.messageID \in UsedID
    <2>1. m \in Range(net[d])
      <3>1. DOMAIN net[d] = 1 .. Len(net[d])
          BY DEF InOrder, QueuesInOrder
      <3> QED
          BY <1>1, <3>1 DEF Within, Range
    <2> QED
        BY <2>1 DEF UsedID, InFlight
  <1>2. \A d \in Node : \A t \in node[d].timers : t.messageID \in UsedID
      BY DEF UsedID
  <1> QED
      BY <1>1, <1>2 DEF Joining, JoinIDs

\* Fewer JOINs ask less of a letter.
LEMMA FewerJoins ==
    ASSUME NEW J, NEW K, J \subseteq K
    PROVE  Letters(K) \subseteq Letters(J)
BY DEF Letters, IsLetter

\* What is on its way are letters also when more JOINs are issued.
LEMMA LettersStay ==
    ASSUME InOrder, NEW K, Covers(K), NEW d \in Node, NEW m, Within(m, net[d])
    PROVE  m \in Letters(K)
  <1>1. m \in Letters(Joining) /\ m.messageID \in UsedID
      BY InUse DEF InOrder, QueuesInOrder
  <1>2. m.messageID \in K => m.messageID \in Joining
      BY <1>1 DEF Covers
  <1> QED
      BY <1>1, <1>2 DEF Letters, IsLetter

\* The JOINs of the network, alone or with a fresh one, may be those that wait.
LEMMA CoversJoining ==
    ASSUME NEW id, id \notin UsedID
    PROVE  Covers(Joining) /\ Covers(Joining \cup {id})
BY DEF Covers

\* What JoinsOf says of the identifiers.
LEMMA JoinsOfIDs ==
    ASSUME NEW r, NEW s, NEW ids, JoinsOf(r, s, ids)
    PROVE  JoinIDs(r) \subseteq JoinIDs(s) \cup ids
BY DEF JoinsOf, JoinIDs

\* Sorting by priority loses the order, not the messages.
LEMMA ByPrioritySends ==
    ASSUME NEW S, NEW tx \in Seq(S)
    PROVE  ByPriority(tx) \in Seq(S)
  <1> DEFINE chosen(p) == Chosen(tx, {k \in DOMAIN tx : tx[k].type = TxPriority[p]})
             ss == [p \in DOMAIN TxPriority |-> chosen(p)]
  <1>1. \A p : chosen(p) \in Seq(S)
      BY ChosenContents
  <1>2. DOMAIN TxPriority = 1 .. 7
      BY DEF TxPriority
  <1>3. ByPriority(tx) = FlattenSeq(ss)
      BY DEF ByPriority
  <1> HIDE DEF chosen
  <1>4. ss \in Seq(Seq(S))
    <2>1. ss = [p \in 1 .. 7 |-> chosen(p)] /\ 7 \in Nat
        BY <1>2
    <2>2. [p \in 1 .. 7 |-> chosen(p)] \in Seq(Seq(S))
        BY <1>1
    <2> QED
        BY <2>1, <2>2
  <1> HIDE DEF ss
  <1> QED
      BY <1>3, <1>4, FlattenContents

\* A step that makes of node n what a handler may make of it keeps the invariant.
LEMMA MovesKeeps ==
    ASSUME InOrder, NEW n \in Node, NEW states,
           \A r \in states : \E K : Covers(K) /\ Handled(r, n, K),
           NEW q \in [Node -> Seq(Message)],
           \A d \in Node : \A m : Within(m, q[d]) => Within(m, net[d]),
           Moves(n, states, q), given' \in 0 .. MaxCommands
    PROVE  InOrder'
  <1>1. PICK r \in states : /\ node' = [node EXCEPT ![n] = Settled(r)]
                            /\ net' = [d \in Node |-> q[d] \o SentTo(r.tx, d)]
      BY DEF Moves
  <1>2. PICK K : Covers(K) /\ Handled(r, n, K)
      OBVIOUS
  <1>3. /\ Sound(Settled(r), OwnID(n)) /\ Settled(r).id = n /\ Settled(r).tx = <<>>
        /\ Settled(r).timers = r.timers
    <2>1. <<>> \in Seq(Message)
        OBVIOUS
    <2> QED
        BY <1>2, <2>1 DEF Handled, Settled, Sound, NodeState, SeedsInOrder, TimersInOrder
  <1>4. NodesInOrder'
    <2>1. /\ node' \in [Node -> NodeState] /\ node'[n] = Settled(r)
          /\ \A k \in Node : k # n => node'[k] = node[k]
        BY <1>1, <1>3 DEF InOrder, NodesInOrder, Sound
    <2>2. ASSUME NEW k \in Node
          PROVE  Sound(node'[k], OwnID(k)) /\ node'[k].id = k /\ node'[k].tx = <<>>
        BY <1>3, <2>1 DEF InOrder, NodesInOrder
    <2> QED
        BY <2>1, <2>2 DEF NodesInOrder
  <1>5. Joining' \subseteq K
    <2>1. ASSUME NEW k \in Node PROVE JoinIDs(node'[k]) \subseteq K
      <3>1. CASE k = n
        <4>1. node'[k].timers = r.timers
            BY <1>1, <1>3, <3>1 DEF InOrder, NodesInOrder
        <4> QED
            BY <1>2, <4>1 DEF Handled, JoinIDs
      <3>2. CASE k # n
        <4>1. node'[k] = node[k]
            BY <1>1, <3>2 DEF InOrder, NodesInOrder
        <4> QED
            BY <1>2, <4>1 DEF Covers, Joining
      <3> QED BY <3>1, <3>2
    <2> QED
        BY <2>1 DEF Joining
  <1>6. ASSUME NEW d \in Node
        PROVE  /\ net'[d] \in Seq(Message)
               /\ \A m : Within(m, net'[d]) => m \in Letters(Joining') /\ m.dest = d
    <2> DEFINE I == {k \in DOMAIN r.tx : r.tx[k].dest = d}
    <2>1. r.tx \in Seq(Letters(K)) /\ r.tx \in Seq(Message)
        BY <1>2 DEF Handled, Sound, NodeState
    <2>2. /\ SentTo(r.tx, d) \in Seq(Message)
          /\ \A m : Within(m, SentTo(r.tx, d)) <=> \E k \in 1 .. Len(r.tx) : k \in I /\ r.tx[k] = m
      <3>1. SentTo(r.tx, d) = Chosen(r.tx, I)
          BY DEF SentTo
      <3> HIDE DEF I
      <3>2. /\ Chosen(r.tx, I) \in Seq(Message)
            /\ \A m : Within(m, Chosen(r.tx, I)) <=> \E k \in 1 .. Len(r.tx) : k \in I /\ r.tx[k] = m
          BY <2>1, ChosenContents
      <3> QED
          BY <3>1, <3>2
    <2>3. ASSUME NEW m, Within(m, SentTo(r.tx, d)) PROVE m \in Letters(K) /\ m.dest = d
      <3>1. PICK k \in 1 .. Len(r.tx) : k \in I /\ r.tx[k] = m
          BY <2>2, <2>3
      <3>2. r.tx[k] \in Letters(K)
          BY <2>1, <3>1, ElementOfSeq
      <3> QED
          BY <3>1, <3>2
    <2>4. q[d] \in Seq(Message) /\ net'[d] = q[d] \o SentTo(r.tx, d)
        BY <1>1
    <2>5. net'[d] \in Seq(Message)
        BY <2>2, <2>4, ConcatProperties
    <2>6. ASSUME NEW m, Within(m, net'[d]) PROVE m \in Letters(Joining') /\ m.dest = d
      <3>1. Within(m, q[d]) \/ Within(m, SentTo(r.tx, d))
          BY <2>2, <2>4, <2>6, WithinConcat
      <3>2. ASSUME Within(m, q[d]) PROVE m \in Letters(K) /\ m.dest = d
        <4>1. Within(m, net[d])
            BY <3>2
        <4> QED
            BY <1>2, <4>1, LettersStay DEF InOrder, QueuesInOrder
      <3>3. m \in Letters(K) /\ m.dest = d
          BY <2>3, <3>1, <3>2
      <3> QED
          BY <1>5, <3>3, FewerJoins
    <2> QED
        BY <2>5, <2>6
  <1>7. QueuesInOrder'
    <2>1. net' \in [Node -> Seq(Message)]
      <3>1. net' = [d \in Node |-> net'[d]]
          BY <1>1
      <3> QED
          BY <1>6, <3>1
    <2> QED
        BY <1>6, <2>1 DEF QueuesInOrder
  <1> QED
      BY <1>4, <1>7 DEF InOrder

\* The head of a queue stands in it, and its tail holds nothing else.
LEMMA QueueOpens ==
    ASSUME InOrder, NEW n \in Node, net[n] # <<>>
    PROVE  LET q == [net EXCEPT ![n] = Tail(@)]
           IN  /\ Within(Head(net[n]), net[n])
               /\ q \in [Node -> Seq(Message)]
               /\ \A d \in Node : \A m : Within(m, q[d]) => Within(m, net[d])
  <1> DEFINE q == [net EXCEPT ![n] = Tail(@)]
  <1>1. net \in [Node -> Seq(Message)] /\ net[n] \in Seq(Message) /\ Len(net[n]) \in Nat \ {0}
      BY EmptySeq DEF InOrder, QueuesInOrder
  <1>2. Within(Head(net[n]), net[n])
      BY <1>1 DEF Within
  <1>3. /\ Tail(net[n]) \in Seq(Message) /\ Len(Tail(net[n])) = Len(net[n]) - 1
        /\ \A i \in 1 .. Len(net[n]) - 1 : Tail(net[n])[i] = net[n][i + 1]
      BY <1>1
  <1>4. ASSUME NEW m, Within(m, Tail(net[n])) PROVE Within(m, net[n])
    <2>1. PICK i \in 1 .. Len(net[n]) - 1 : Tail(net[n])[i] = m
        BY <1>3, <1>4 DEF Within
    <2>2. i + 1 \in 1 .. Len(net[n]) /\ net[n][i + 1] = m
        BY <1>1, <1>3, <2>1
    <2> QED
        BY <2>2 DEF Within
  <1>5. q[n] = Tail(net[n]) /\ \A d \in Node : d # n => q[d] = net[d]
      BY <1>1
  <1>6. q \in [Node -> Seq(Message)]
      BY <1>1, <1>3
  <1> QED
      BY <1>2, <1>4, <1>5, <1>6

\* A node takes a message of its queue.
LEMMA ReceivedHandled ==
    ASSUME NEW n \in Node, NEW K, NEW s, Handled(s, n, K),
           NEW m \in Letters(K), m.dest = n, NEW mid \in OwnID(n),
           NEW r \in received(s, m, mid)
    PROVE  Handled(r, n, K)
  <1>1. OwnID(n) \in SUBSET MessageID /\ mid \in MessageID /\ m \in Message
      BY OwnIDs DEF Letters
  <1>2. /\ m.type \in {"JOIN", "FIND_SUCCESSOR"} => m.messageID \notin OwnID(n)
        /\ m.type \in {"NOTIFY", "SUCCESSOR", "PREDECESSOR"} => m.searched \in Node
      BY DEF Letters, IsLetter, IsRequest, OwnID
  <1>3. Sound(s, OwnID(n)) /\ s.id = n /\ s.tx \in Seq(Letters(K)) /\ JoinIDs(s) \subseteq K
      BY DEF Handled
  <1>4. Sound(r, OwnID(n)) /\ r.id = n
    <2>1. Settles(r, s, OwnID(n))
        BY <1>1, <1>2, <1>3, ReceivedSettles
    <2> QED
        BY <1>3, <2>1 DEF Settles, Keeps
  <1>5. r.tx \in Seq(Letters(K))
      BY <1>1, <1>3, ReceivedSends
  <1>6. JoinIDs(r) \subseteq K
    <2>1. JoinsOf(r, s, {})
        BY <1>1, <1>3, ReceivedJoins
    <2> QED
        BY <1>3, <2>1, JoinsOfIDs
  <1> QED
      BY <1>4, <1>5, <1>6 DEF Handled

\* A node is reset.
LEMMA HardResetHandled ==
    ASSUME NEW n \in Node, NEW K, NEW s, Handled(s, n, K), NEW mid \in OwnID(n), mid \in K
    PROVE  Handled(hardReset(s, mid), n, K)
  <1>1. Sound(s, OwnID(n)) /\ s.id = n /\ s \in NodeState /\ OwnID(n) \in SUBSET MessageID
      BY OwnIDs DEF Handled, Sound
  <1>2. Sound(hardReset(s, mid), OwnID(n)) /\ hardReset(s, mid).id = n
      BY <1>1, HardResetFollows DEF Follows
  <1>3. hardReset(s, mid).tx \in Seq(Letters(K))
      BY <1>1, HardResetSends
  <1>4. JoinIDs(hardReset(s, mid)) \subseteq K
      BY <1>1, HardResetJoins DEF JoinIDs
  <1> QED
      BY <1>2, <1>3, <1>4 DEF Handled

\* A timer of a node expires.
LEMMA TimerHandled ==
    ASSUME InOrder, NEW n \in Node, NEW t \in TimersDue(n), Running(n)
    PROVE  Handled(timerHandled(n, t), n, Joining \cup {NextID(n)})
  <1> DEFINE s == node[n]
             K == Joining \cup {NextID(n)}
             I == OwnID(n)
             r == timerHandled(n, t)
  <1>1. Sound(s, I) /\ s.id = n /\ s \in NodeState /\ s.tx = <<>> /\ t \in s.timers
      BY DEF InOrder, NodesInOrder, Sound, TimersDue
  <1>2. I \in SUBSET MessageID /\ NextID(n) \in I
      BY OwnIDs, NextIDIsFresh
  <1>3. JoinIDs(s) \subseteq Joining /\ s.tx \in Seq(Letters(K))
      BY <1>1 DEF Joining
  <1>4. CASE s.state = "IDLE"
    <2>1. r = timerExpired(s, t, NextID(n))
        BY <1>4 DEF timerHandled
    <2> HIDE DEF s, K
    <2>2. Sound(timerExpired(s, t, NextID(n)), I) /\ timerExpired(s, t, NextID(n)).id = n
        BY <1>1, <1>2, TimerExpiredSettles DEF Settles, Keeps
    <2>3. timerExpired(s, t, NextID(n)).tx \in Seq(Letters(K))
        BY <1>1, <1>2, <1>3, TimerExpiredSends
    <2>4. JoinIDs(timerExpired(s, t, NextID(n))) \subseteq JoinIDs(s) \cup {NextID(n)}
        BY <1>1, TimerExpiredJoins, JoinsOfIDs
    <2> QED
        BY <1>3, <2>1, <2>2, <2>3, <2>4 DEF Handled, K
  <1>5. CASE s.state # "IDLE"
    <2>1. r = timerDropped(s, t)
        BY <1>5 DEF timerHandled
    <2> HIDE DEF s, K
    <2>2. Sound(timerDropped(s, t), I) /\ timerDropped(s, t).id = n
        BY <1>1, TimerDroppedFollows DEF Keeps
    <2>3. timerDropped(s, t).tx = s.tx /\ timerDropped(s, t).timers \subseteq s.timers
        BY <1>1 DEF timerDropped, NodeState
    <2> QED
        BY <1>3, <2>1, <2>2, <2>3 DEF Handled, K, JoinIDs
  <1> QED
      BY <1>4, <1>5

\* The UPDATE timer of a node expires.
LEMMA UpdateHandled ==
    ASSUME InOrder, NEW n \in Node, UpdateDue(n), Running(n)
    PROVE  Handled(updateHandled(n), n, Joining)
  <1> DEFINE s == node[n]
             I == OwnID(n)
             r == updateHandled(n)
  <1>1. /\ Sound(s, I) /\ s.id = n /\ s \in NodeState /\ s.tx = <<>> /\ s.updateTimers > 0
      BY DEF InOrder, NodesInOrder, Sound, UpdateDue
  <1>2. /\ I \in SUBSET MessageID /\ NextID(n) \in I /\ NextID(n) \notin Joining
      BY OwnIDs, NextIDIsFresh, InUse
  <1>3. JoinIDs(s) \subseteq Joining /\ s.tx \in Seq(Letters(Joining))
      BY <1>1 DEF Joining
  <1>4. CASE s.state = "IDLE"
    <2>1. r = updateExpired(s, NextID(n))
        BY <1>4 DEF updateHandled
    <2> HIDE DEF s
    <2>2. Sound(updateExpired(s, NextID(n)), I) /\ updateExpired(s, NextID(n)).id = n
        BY <1>1, <1>2, UpdateExpiredSettles DEF Settles, Keeps
    <2>3. updateExpired(s, NextID(n)).tx \in Seq(Letters(Joining))
        BY <1>1, <1>2, <1>3, UpdateExpiredSends
    <2>4. JoinIDs(updateExpired(s, NextID(n))) \subseteq JoinIDs(s) \cup {}
        BY <1>1, UpdateExpiredJoins, JoinsOfIDs
    <2> QED
        BY <1>3, <2>1, <2>2, <2>3, <2>4 DEF Handled
  <1>5. CASE s.state # "IDLE"
    <2>1. r = [s EXCEPT !.updateTimers = @ - 1]
        BY <1>5 DEF updateHandled
    <2> HIDE DEF s
    <2>2. s.updateTimers - 1 \in Nat /\ s.seedAddrs # <<>>
        BY <1>1 DEF NodeState, Sound, SeedsInOrder
    <2>3. r \in NodeState
        BY <1>1, <2>1, <2>2 DEF NodeState
    <2>4. Sound(r, I) /\ r.id = n /\ r.tx = s.tx /\ r.timers = s.timers
        BY <1>1, <2>1, <2>2, <2>3 DEF Sound, SeedsInOrder, TimersInOrder, NodeState
    <2> QED
        BY <1>3, <2>4 DEF Handled, JoinIDs
  <1> QED
      BY <1>4, <1>5

-----------------------------------------------------------------------------
(* Every network starts in order, and every step keeps it in order.            *)

\* A node before its start is in order.
LEMMA InitInOrder == Init => InOrder
  <1> SUFFICES ASSUME Init PROVE InOrder
      OBVIOUS
  <1>1. ASSUME NEW n \in Node
        PROVE  Sound(Off(n), OwnID(n)) /\ Off(n).id = n /\ Off(n).tx = <<>>
    <2>1. /\ [i \in FingerIndex |-> n] \in [FingerIndex -> Node] /\ ConfSeed[n] \in Seq(Node)
          /\ <<>> \in Seq(Message) /\ {} \in SUBSET Timer /\ {} \in SUBSET FingerIndex
          /\ [i \in FingerIndex |-> n][0] = n
          /\ ConfSeed[n] # <<>> => 0 < Len(ConfSeed[n])
        BY SeedAssumption, FingerZero
    <2> QED
        BY <2>1 DEF Off, Sound, NodeState, SeedsInOrder, TimersInOrder
  <1>2. NodesInOrder
      BY <1>1 DEF Init, NodesInOrder, Sound
  <1>3. QueuesInOrder
    <2>1. \A d \in Node : net[d] = <<>> /\ net[d] \in Seq(Message)
        BY DEF Init
    <2>2. \A d \in Node : \A m : ~Within(m, net[d])
        BY <2>1 DEF Within
    <2> QED
        BY <2>1, <2>2 DEF Init, QueuesInOrder
  <1>4. given \in 0 .. MaxCommands
      BY BootAssumption DEF Init
  <1> QED
      BY <1>2, <1>3, <1>4 DEF InOrder

\* The node itself, between two activations, is what a handler may make of it.
LEMMA NodeHandled ==
    ASSUME InOrder, NEW n \in Node, NEW K, Covers(K)
    PROVE  Handled(node[n], n, K)
  <1>1. node[n].tx \in Seq(Letters(K))
    <2>1. node[n].tx = <<>> /\ <<>> \in Seq(Letters(K))
        BY DEF InOrder, NodesInOrder
    <2> QED
        BY <2>1
  <1>2. JoinIDs(node[n]) \subseteq K
      BY DEF Covers, Joining
  <1> QED
      BY <1>1, <1>2 DEF Handled, InOrder, NodesInOrder

\* An identifier of the node's own is fresh, and no JOIN that waits carries it.
LEMMA FreshCovers ==
    ASSUME NEW n \in Node, Running(n)
    PROVE  Covers(Joining) /\ Covers(Joining \cup {NextID(n)})
BY NextIDIsFresh, CoversJoining

\* The step lemma, one step per action.
LEMMA NextInOrder == InOrder /\ [Next]_vars => InOrder'
  <1> SUFFICES ASSUME InOrder, [Next]_vars PROVE InOrder'
      OBVIOUS
  <1>1. CASE UNCHANGED vars
    <2>1. node' = node /\ net' = net /\ given' = given
        BY <1>1 DEF vars
    <2> QED
        BY <2>1 DEF InOrder, NodesInOrder, QueuesInOrder, Joining
  <1>2. CASE Next
    <2> PICK n \in Node :
            \/ Boot(n) \/ Deliver(n) \/ UpdateTimerExpires(n) \/ TimerExpires(n)
            \/ Coincide(n) \/ HardReset(n) \/ ResetDropsArrival(n) \/ Pause(n)
        BY <1>2 DEF Next
    <2> DEFINE K == Joining \cup {NextID(n)}
               opened == [net EXCEPT ![n] = Tail(@)]
    <2>1. net \in [Node -> Seq(Message)] /\ given \in 0 .. MaxCommands
        BY DEF InOrder, QueuesInOrder
    <2>2. ASSUME NEW command, Give(n, command) PROVE given' \in 0 .. MaxCommands
        BY <2>1, <2>2, BootAssumption DEF Give
    <2>3. Running(n)
        BY DEF Boot, Deliver, UpdateTimerExpires, TimerExpires, Coincide, HardReset,
               ResetDropsArrival, Pause, Give
    <2>4. Covers(Joining) /\ Covers(K) /\ NextID(n) \in K /\ NextID(n) \in OwnID(n)
        BY <2>3, FreshCovers, NextIDIsFresh
    <2>5. Handled(node[n], n, Joining) /\ Handled(node[n], n, K)
        BY <2>4, NodeHandled
    <2> HIDE DEF K, opened
    <2>6. Handled(hardReset(node[n], NextID(n)), n, K)
        BY <2>4, <2>5, HardResetHandled
    <2>7. ASSUME net[n] # <<>>
          PROVE  /\ Within(Head(net[n]), net[n]) /\ opened \in [Node -> Seq(Message)]
                 /\ \A d \in Node : \A m : Within(m, opened[d]) => Within(m, net[d])
        BY <2>7, QueueOpens DEF opened
    <2>8. ASSUME net[n] # <<>>, NEW J, Covers(J), NEW s, Handled(s, n, J),
                 NEW mid \in OwnID(n), NEW r \in received(s, Head(net[n]), mid)
          PROVE  Handled(r, n, J)
      <3>1. Head(net[n]) \in Letters(J) /\ Head(net[n]).dest = n
          BY <2>7, <2>8, LettersStay DEF InOrder, QueuesInOrder
      <3> QED
          BY <2>8, <3>1, ReceivedHandled
    <2>9. CASE Boot(n)
      <3>1. Moves(n, {hardReset(node[n], NextID(n))}, net) /\ given' = given
          BY <2>9 DEF Boot
      <3> QED
          BY <2>1, <2>4, <2>6, <3>1, MovesKeeps
    <2>10. CASE Deliver(n)
      <3> DEFINE states == received(node[n], Head(net[n]), NextID(n))
      <3>1. net[n] # <<>> /\ Moves(n, states, opened) /\ given' = given
          BY <2>10 DEF Deliver, opened
      <3>2. \A r \in states : Handled(r, n, Joining)
          BY <2>4, <2>5, <2>8, <3>1
      <3> HIDE DEF states
      <3> QED
          BY <2>1, <2>4, <2>7, <3>1, <3>2, MovesKeeps
    <2>11. CASE UpdateTimerExpires(n)
      <3>1. UpdateDue(n) /\ Moves(n, {updateHandled(n)}, net) /\ given' = given
          BY <2>11 DEF UpdateTimerExpires
      <3>2. Handled(updateHandled(n), n, Joining)
          BY <2>3, <3>1, UpdateHandled
      <3> QED
          BY <2>1, <2>4, <3>1, <3>2, MovesKeeps
    <2>12. CASE TimerExpires(n)
      <3> DEFINE states == {timerHandled(n, t) : t \in TimersDue(n)}
      <3>1. Moves(n, states, net) /\ given' = given
          BY <2>12 DEF TimerExpires
      <3>2. \A r \in states : Handled(r, n, K)
          BY <2>3, TimerHandled DEF K
      <3> HIDE DEF states
      <3> QED
          BY <2>1, <2>4, <3>1, <3>2, MovesKeeps
    <2>13. CASE Coincide(n)
      <3>1. PICK s \in (IF UpdateDue(n) THEN {updateHandled(n)} ELSE {})
                           \cup {timerHandled(n, t) : t \in TimersDue(n)} :
                LET fresh == FreshID(n) \ {t.messageID : t \in s.timers}
                IN  /\ fresh # {}
                    /\ Moves(n, {[r EXCEPT !.tx = ByPriority(@)] :
                                     r \in received(s, Head(net[n]), Least(fresh))}, opened)
          BY <2>13 DEF Coincide, opened
      <3> DEFINE fresh  == FreshID(n) \ {t.messageID : t \in s.timers}
                 after  == received(s, Head(net[n]), Least(fresh))
                 states == {[r EXCEPT !.tx = ByPriority(@)] : r \in after}
      <3>2. /\ net[n] # <<>> /\ given' = given /\ Moves(n, states, opened)
            /\ fresh \in SUBSET FreshID(n) /\ fresh # {}
          BY <2>13, <3>1 DEF Coincide
      <3>3. PICK J : Covers(J) /\ Handled(s, n, J)
        <4>1. UpdateDue(n) => Handled(updateHandled(n), n, Joining)
            BY <2>3, UpdateHandled
        <4>2. \A t \in TimersDue(n) : Handled(timerHandled(n, t), n, K)
            BY <2>3, TimerHandled DEF K
        <4>3. (UpdateDue(n) /\ s = updateHandled(n)) \/ \E t \in TimersDue(n) : s = timerHandled(n, t)
            OBVIOUS
        <4> QED
            BY <2>4, <4>1, <4>2, <4>3
      <3>4. Least(fresh) \in OwnID(n)
        <4> HIDE DEF fresh
        <4> QED
            BY <3>2, LeastIsFresh
      <3> HIDE DEF fresh
      <3>5. \A r \in after : Handled(r, n, J)
          BY <2>8, <3>2, <3>3, <3>4
      <3> HIDE DEF after
      <3>6. ASSUME NEW r \in after PROVE Handled([r EXCEPT !.tx = ByPriority(@)], n, J)
        <4>1. Handled(r, n, J)
            BY <3>5
        <4>2. r.tx \in Seq(Letters(J)) /\ r.tx \in Seq(Message) /\ r \in NodeState
            BY <4>1 DEF Handled, Sound, NodeState
        <4>3. ByPriority(r.tx) \in Seq(Letters(J)) /\ ByPriority(r.tx) \in Seq(Message)
            BY <4>2, ByPrioritySends
        <4> DEFINE tx == ByPriority(r.tx)
                   u  == [r EXCEPT !.tx = tx]
        <4> HIDE DEF tx
        <4>4. u \in NodeState /\ u.tx = tx
            BY <4>2, <4>3 DEF tx, NodeState
        <4>5. Sound(u, OwnID(n)) /\ u.id = n /\ u.timers = r.timers
            BY <4>1, <4>2, <4>4 DEF Handled, Sound, NodeState, SeedsInOrder, TimersInOrder
        <4>6. Handled(u, n, J)
            BY <4>1, <4>3, <4>4, <4>5 DEF Handled, JoinIDs, tx
        <4> QED
            BY <4>6 DEF tx
      <3>7. \A u \in states : Handled(u, n, J)
          BY <3>6
      <3> HIDE DEF states
      <3> QED
          BY <2>1, <2>7, <3>2, <3>3, <3>7, MovesKeeps
    <2>14. CASE HardReset(n)
      <3>1. Moves(n, {hardReset(node[n], NextID(n))}, net) /\ given' \in 0 .. MaxCommands
          BY <2>2, <2>14 DEF HardReset
      <3> QED
          BY <2>1, <2>4, <2>6, <3>1, MovesKeeps
    <2>15. CASE ResetDropsArrival(n)
      <3> DEFINE after  == FoundByReset(n)
                 states == {hardReset(s, NextID(n)) : s \in after}
      <3>1. net[n] # <<>> /\ Moves(n, states, opened) /\ given' \in 0 .. MaxCommands
          BY <2>2, <2>15 DEF ResetDropsArrival, opened
      <3>2. \A s \in after : Handled(s, n, K)
          BY <2>4, <2>5, <2>8, <3>1 DEF FoundByReset
      <3> HIDE DEF after
      <3>3. \A u \in states : Handled(u, n, K)
          BY <2>4, <3>2, HardResetHandled
      <3> HIDE DEF states
      <3> QED
          BY <2>1, <2>4, <2>7, <3>1, <3>3, MovesKeeps
    <2>16. CASE Pause(n)
      <3> DEFINE paused == [node[n] EXCEPT !.state = "PAUSED"]
      <3>1. Moves(n, {paused}, net) /\ given' \in 0 .. MaxCommands
          BY <2>2, <2>16 DEF Pause
      <3>2. Handled(paused, n, Joining)
          BY <2>5 DEF Handled, Sound, NodeState, SeedsInOrder, TimersInOrder, JoinIDs
      <3> HIDE DEF paused
      <3> QED
          BY <2>1, <2>4, <3>1, <3>2, MovesKeeps
    <2> QED
        BY <2>9, <2>10, <2>11, <2>12, <2>13, <2>14, <2>15, <2>16
  <1> QED
      BY <1>1, <1>2

\* The invariant holds in every network, of any number of nodes started in any
\* order, whatever resets and pauses the application asks for.
THEOREM NetworkInOrder == Spec => []InOrder
BY InitInOrder, NextInOrder, PTL DEF Spec

\* Type correctness: between two activations of core() every node is in one of
\* its states and has sent all it had to, and the network delivers to the
\* addressee only.
THEOREM NetworkTypeCorrect == Spec => []TypeOK
  <1>1. InOrder => TypeOK
    <2> SUFFICES ASSUME InOrder PROVE TypeOK
        OBVIOUS
    <2>1. ASSUME NEW d \in Node, NEW m \in Range(net[d]) PROVE m.dest = d
      <3>1. net[d] \in Seq(Message)
          BY DEF InOrder, QueuesInOrder
      <3>2. Within(m, net[d])
          BY <2>1, <3>1 DEF Within, Range
      <3> QED
          BY <3>2 DEF InOrder, QueuesInOrder
    <2> QED
        BY <2>1 DEF InOrder, NodesInOrder, QueuesInOrder, TypeOK
  <1> QED
      BY <1>1, NetworkInOrder, PTL

-----------------------------------------------------------------------------
(* Predecessors. *)

\* r has the predecessor of s, or the one setPredecessor gives it.
Adopts(r, s) ==
    \/ r.predecessor = s.predecessor
    \/ \E addr \in Node : r.predecessor = setPredecessor(s, addr).predecessor

\* setPredecessor moves the predecessor closer to the node, or not at all.
LEMMA SetPredecessorCloser ==
    ASSUME NEW s \in NodeState, NEW addr \in Node
    PROVE  Gap(setPredecessor(s, addr).predecessor, s.id) <= Gap(s.predecessor, s.id)
  <1>1. s.id \in IdSpace /\ s.predecessor \in IdSpace /\ addr \in IdSpace
      BY NodeAssumption DEF NodeState
  <1>2. \A a \in IdSpace, b \in IdSpace : Gap(a, b) \in 1 .. IdCount
      BY MaxAssumption DEF Gap, Dist, IdSpace, IdCount
  <1>3. setPredecessor(s, addr).predecessor =
            IF s.predecessor = s.id \/ isInRangeOverZeroNotInc(addr, s.predecessor, s.id)
            THEN addr ELSE s.predecessor
      BY DEF setPredecessor, NodeState
  <1>4. ASSUME s.predecessor = s.id PROVE Gap(s.predecessor, s.id) = IdCount
      BY <1>4 DEF Gap
  <1>5. ASSUME s.predecessor # s.id, isInRangeOverZeroNotInc(addr, s.predecessor, s.id)
        PROVE  Gap(addr, s.id) <= Gap(s.predecessor, s.id)
    <2>1. \A a \in IdSpace, b \in IdSpace, c \in IdSpace :
              b # c /\ InsideArc(a, b, c) => Gap(a, c) <= Gap(b, c)
        BY MaxAssumption DEF InsideArc, Gap, Dist, IdSpace, IdCount
    <2>2. InsideArc(addr, s.predecessor, s.id)
        BY <1>1, <1>5, OpenRangeIsInside
    <2> QED
        BY <1>1, <1>5, <2>1, <2>2
  <1>6. Gap(addr, s.id) \in 1 .. IdCount /\ Gap(s.predecessor, s.id) \in 1 .. IdCount
      BY <1>1, <1>2
  <1>7. IdCount \in Nat
      BY MaxAssumption DEF IdCount
  <1> QED
      BY <1>3, <1>4, <1>5, <1>6, <1>7

\* So does whatever adopts a predecessor that way.
LEMMA AdoptsCloser ==
    ASSUME NEW s \in NodeState, NEW r, Adopts(r, s)
    PROVE  Gap(r.predecessor, s.id) <= Gap(s.predecessor, s.id)
  <1>1. Gap(s.predecessor, s.id) \in Int
    <2>1. s.id \in IdSpace /\ s.predecessor \in IdSpace
        BY NodeAssumption DEF NodeState
    <2>2. \A a \in IdSpace, b \in IdSpace : Gap(a, b) \in Int
        BY MaxAssumption DEF Gap, Dist, IdSpace, IdCount
    <2> QED
        BY <2>1, <2>2
  <1> QED
      BY <1>1, SetPredecessorCloser DEF Adopts

\* The handlers of messages adopt predecessors no other way.
LEMMA ReceivedAdopts ==
    ASSUME NEW I, NEW s, Sound(s, I), NEW m \in Message, NEW mid,
           m.type \in {"NOTIFY", "SUCCESSOR", "PREDECESSOR"} => m.searched \in Node,
           NEW r \in received(s, m, mid)
    PROVE  Adopts(r, s)
  <1>1. s \in NodeState /\ m.initiator \in Node /\ m.service \in Node
      BY DEF Sound, Message
  <1>2. Adopts(s, s)
      BY DEF Adopts
  <1>3. Adopts(rxFindSuccessor(s, m), s)
    <2> DEFINE learnt == learnSeed(s, m)
               acked  == sendMessage(learnt, createAckMessage(learnt, m))
    <2>1. learnt \in NodeState /\ learnt.predecessor = s.predecessor /\ learnt.id = s.id
      <3>1. Sound(learnt, I) /\ learnt.id = s.id
          BY LearnSeedFollows DEF Follows
      <3>2. learnt.predecessor = s.predecessor
          BY <1>1 DEF learnSeed, pushUpdateTimer, NodeState
      <3> QED
          BY <3>1, <3>2 DEF Sound
    <2>2. acked.predecessor = s.predecessor /\ acked.id = s.id /\ acked \in NodeState
      <3>1. Sound(acked, I) /\ acked.id = s.id
          BY LearnSeedFollows, AckFollows DEF Follows
      <3> HIDE DEF learnt
      <3>2. acked.predecessor = s.predecessor
          BY <2>1 DEF sendMessage, NodeState
      <3> QED
          BY <3>1, <3>2 DEF Sound
    <2> HIDE DEF learnt, acked
    <2>3. ASSUME NEW addr
          PROVE  forwardFindSuccessor(acked, m, addr).predecessor = s.predecessor
        BY <2>2 DEF forwardFindSuccessor, pushTimers, sendMessage, NodeState
    <2>4. ASSUME NEW addr
          PROVE  replyFindSuccessor(acked, m, addr).predecessor
                     \in {s.predecessor, setPredecessor(s, m.initiator).predecessor}
        BY <1>1, <2>2 DEF replyFindSuccessor, adoptJoiner, setPredecessor,
           setSuccessorRemoveTimers, removeTimers, sendMessage, NodeState
    <2> QED
        BY <1>1, <2>3, <2>4 DEF Adopts, rxFindSuccessor, acked, learnt
  <1>4. Adopts(rxFindPredecessor(s, m), s) /\ (m.searched \in Node => Adopts(rxNotify(s, m), s))
    <2> DEFINE acked == sendMessage(s, createAckMessage(s, m))
    <2>1. acked \in NodeState
        BY AckFollows DEF Follows, Sound
    <2>2. acked.predecessor = s.predecessor /\ acked.id = s.id
        BY <1>1 DEF sendMessage, NodeState
    <2> HIDE DEF acked
    <2>3. \A msg : sendMessage(acked, msg).predecessor = s.predecessor
        BY <2>1, <2>2 DEF sendMessage, NodeState
    <2>4. \A addr : setPredecessor(acked, addr).predecessor = setPredecessor(s, addr).predecessor
        BY <1>1, <2>1, <2>2 DEF setPredecessor, NodeState
    <2> QED
        BY <2>3, <2>4 DEF Adopts, rxFindPredecessor, rxNotify, acked
  <1>5. rxSuccessor(s, m).predecessor \in {s.predecessor, setPredecessor(s, m.service).predecessor}
      BY <1>1 DEF NodeState, rxSuccessor, joinAnswered, fingerAnswered,
         setSuccessorRemoveTimers, setPredecessor, setNextFingerToUpdate, pushUpdateTimer,
         setFingerRemoveTimers, removeTimers
  <1>6. rxPredecessor(s, m, mid).predecessor = s.predecessor
      BY <1>1 DEF NodeState, rxPredecessor, setSuccessorStabilize, setNextFingerToUpdate,
         removeTimers, issueNotify, pushTimers, sendMessage
  <1>7. \A t : rxAck(s, t).predecessor = s.predecessor
      BY <1>1 DEF NodeState, rxAck
  <1> QED
      BY <1>1, <1>2, <1>3, <1>4, <1>5, <1>6, <1>7 DEF received, Adopts

\* A reset makes the node its own predecessor, and idle.
LEMMA HardResetPredecessor ==
    ASSUME NEW s \in NodeState, NEW mid
    PROVE  hardReset(s, mid).predecessor = s.id /\ hardReset(s, mid).state = "IDLE"
BY DEF NodeState, hardReset, flush, goStateInit, softReset, issueJoin, pushTimers, sendMessage

\* An expired timer leaves the predecessor alone: only a node without one resets
\* itself.
LEMMA TimerExpiredAdopts ==
    ASSUME NEW I, NEW s, Sound(s, I), NEW t \in s.timers, NEW mid
    PROVE  timerExpired(s, t, mid).predecessor = s.predecessor
  <1> DEFINE rest == timerDropped(s, t)
             own  == unlocked(removeTimers(rest, {"RX_SUCCESSOR"}, "FIND_SUCCESSOR", t.messageID))
             free == unlocked(rest)
             past == removeTimers(rest, {"RX_ACK", "RX_SUCCESSOR_ON_JOIN"}, "JOIN", t.messageID)
  <1>1. Sound(rest, I)
      BY TimerDroppedFollows DEF Keeps
  <1>2. rest.predecessor = s.predecessor /\ rest.id = s.id
      BY DEF timerDropped, Sound, NodeState
  <1>3. timerExpired(s, t, mid) =
            IF t.type = "RX_ACK" THEN ackExpired(rest, t, mid)
            ELSE IF t.type = "RX_SUCCESSOR_ON_JOIN" THEN joinExpired(rest, t, mid)
            ELSE IF t.type = "RX_SUCCESSOR" THEN [free EXCEPT !.isNowStabilize = FALSE]
            ELSE setCopyPreviousAliveFinger(free, mid)
      BY DEF timerExpired, timerDropped
  <1> HIDE DEF rest
  <1>4. own \in NodeState /\ free \in NodeState /\ past \in NodeState
    <2>1. Sound(own, I) /\ Sound(free, I) /\ Sound(past, I)
        BY <1>1, RemoveTimersSound, UnlockedFollows DEF Follows
    <2> QED
        BY <2>1 DEF Sound
  <1>5. /\ own.predecessor = s.predecessor /\ free.predecessor = s.predecessor
        /\ past.predecessor = s.predecessor
      BY <1>1, <1>2 DEF unlocked, removeTimers, Sound, NodeState
  <1>6. unlocked(removeTimers(rest, {"RX_PREDECESSOR"}, "FIND_PREDECESSOR", t.messageID)).predecessor
            = s.predecessor
      BY <1>1, <1>2 DEF unlocked, removeTimers, Sound, NodeState
  <1> HIDE DEF own, free, past
  <1>7. ASSUME NEW q \in {own, free}
        PROVE  setCopyPreviousAliveFinger(q, mid).predecessor = s.predecessor
    <2>1. q \in NodeState /\ q.predecessor = s.predecessor
        BY <1>4, <1>5
    <2>2. hardReset(q, mid).predecessor = q.id
        BY <2>1, HardResetPredecessor
    <2> QED
        BY <2>1, <2>2 DEF setCopyPreviousAliveFinger, NodeState
  <1>8. joinExpired(rest, t, mid).predecessor = s.predecessor
    <2>1. \A n : issueJoin(past, n, mid).predecessor = s.predecessor
        BY <1>4, <1>5 DEF issueJoin, pushTimers, sendMessage, NodeState
    <2> QED
        BY <2>1 DEF joinExpired, past
  <1>9. forwardNoAck(rest, t).predecessor = s.predecessor
      BY <1>4, <1>5 DEF forwardNoAck, own, NodeState
  <1>10. ackExpired(rest, t, mid).predecessor = s.predecessor
      BY <1>5, <1>6, <1>7, <1>8, <1>9 DEF ackExpired, findSuccessorNoAck, own, free
  <1>11. [free EXCEPT !.isNowStabilize = FALSE].predecessor = s.predecessor
      BY <1>4, <1>5 DEF NodeState
  <1> QED
      BY <1>3, <1>7, <1>8, <1>10, <1>11

\* Nor does an expired UPDATE timer move it.
LEMMA UpdateExpiredAdopts ==
    ASSUME NEW s \in NodeState, NEW mid
    PROVE  updateExpired(s, mid).predecessor = s.predecessor
BY DEF NodeState, updateExpired, issueFindPredecessor, issueFindSuccessor,
       setNextFingerToUpdate, pushTimers, sendMessage

\* A node that has not been started knows only itself.
OffAlone == \A n \in Node : node[n].state = "OFF" => node[n].predecessor = n

\* r is a state node n may go to from s, its predecessor no farther.
Nears(r, s, n) ==
    /\ r \in NodeState /\ r.id = n
    /\ Gap(r.predecessor, n) <= Gap(s.predecessor, n)
    /\ r.state = "OFF" => r.predecessor = n

\* Gaps are numbers.
LEMMA GapIsNumber ==
    ASSUME NEW s \in NodeState
    PROVE  Gap(s.predecessor, s.id) \in Int /\ Gap(s.predecessor, s.id) <= IdCount
           /\ IdCount \in Int /\ Gap(s.id, s.id) = IdCount
  <1>1. s.id \in IdSpace /\ s.predecessor \in IdSpace
      BY NodeAssumption DEF NodeState
  <1>2. \A a \in IdSpace, b \in IdSpace : Gap(a, b) \in Int /\ Gap(a, b) <= IdCount
      BY MaxAssumption DEF Gap, Dist, IdSpace, IdCount
  <1> QED
      BY <1>1, <1>2, MaxAssumption DEF IdCount, Gap

\* A node before its start, or between two activations.
LEMMA NodeNears ==
    ASSUME InOrder, OffAlone, NEW n \in Node
    PROVE  Nears(node[n], node[n], n)
  <1>1. node[n] \in NodeState /\ node[n].id = n
      BY DEF InOrder, NodesInOrder
  <1> QED
      BY <1>1, GapIsNumber DEF Nears, OffAlone

\* A node whose state is no longer "OFF" has only to keep its predecessor.
LEMMA AdoptsNears ==
    ASSUME NEW n, NEW s \in NodeState, s.id = n, s.state = "OFF" => s.predecessor = n,
           NEW r \in NodeState, r.id = n, Adopts(r, s), r.state = "OFF" => r.predecessor = s.predecessor,
           r.state = "OFF" => s.state = "OFF"
    PROVE  Nears(r, s, n)
BY AdoptsCloser DEF Nears

\* A message takes the predecessor no farther, from any state of the node.
LEMMA ReceivedNears ==
    ASSUME NEW n \in Node, NEW K, NEW s, Handled(s, n, K), s.state = "OFF" => s.predecessor = n,
           NEW m \in Letters(K), m.dest = n, NEW mid \in OwnID(n),
           NEW r \in received(s, m, mid)
    PROVE  Nears(r, s, n)
  <1>1. Sound(s, OwnID(n)) /\ s.id = n /\ s \in NodeState
      BY DEF Handled, Sound
  <1>2. r \in NodeState /\ r.id = n
    <2>1. Handled(r, n, K)
        BY ReceivedHandled
    <2> QED
        BY <2>1 DEF Handled, Sound
  <1>3. Adopts(r, s)
    <2>1. m \in Message /\ (m.type \in {"NOTIFY", "SUCCESSOR", "PREDECESSOR"} => m.searched \in Node)
        BY DEF Letters, IsLetter
    <2> QED
        BY <1>1, <2>1, ReceivedAdopts
  <1>4. r.state = "OFF" => r = s
    <2>1. CASE s.state = "IDLE"
      <3>1. Settles(r, s, OwnID(n))
        <4>1. OwnID(n) \in SUBSET MessageID /\ mid \in MessageID /\ m \in Message
            BY OwnIDs DEF Letters
        <4>2. /\ m.type \in {"JOIN", "FIND_SUCCESSOR"} => m.messageID \notin OwnID(n)
              /\ m.type \in {"NOTIFY", "SUCCESSOR", "PREDECESSOR"} => m.searched \in Node
            BY DEF Letters, IsLetter, IsRequest, OwnID
        <4> QED
            BY <1>1, <4>1, <4>2, ReceivedSettles
      <3> QED
          BY <2>1, <3>1 DEF Settles, Keeps
    <2>2. CASE s.state # "IDLE"
        BY <2>2 DEF received
    <2> QED BY <2>1, <2>2
  <1> QED
      BY <1>1, <1>2, <1>3, <1>4, AdoptsNears

\* Neither does a timer.
LEMMA TimerNears ==
    ASSUME InOrder, OffAlone, NEW n \in Node, NEW t \in TimersDue(n), Running(n)
    PROVE  Nears(timerHandled(n, t), node[n], n)
  <1> DEFINE s == node[n]
             r == timerHandled(n, t)
  <1>1. Sound(s, OwnID(n)) /\ s.id = n /\ s \in NodeState /\ t \in s.timers
      BY DEF InOrder, NodesInOrder, Sound, TimersDue
  <1>2. r \in NodeState /\ r.id = n
      BY TimerHandled DEF Handled, Sound
  <1>3. r.predecessor = s.predecessor
    <2>1. r \in {timerExpired(s, t, NextID(n)), timerDropped(s, t)}
        BY DEF timerHandled
    <2> HIDE DEF s, r
    <2>2. timerExpired(s, t, NextID(n)).predecessor = s.predecessor
        BY <1>1, TimerExpiredAdopts
    <2>3. timerDropped(s, t).predecessor = s.predecessor
        BY <1>1 DEF timerDropped, NodeState
    <2> QED
        BY <2>1, <2>2, <2>3
  <1>4. r.state = "OFF" => s.state = "OFF"
    <2>1. s.state = "IDLE" => r.state = "IDLE"
      <3>1. ASSUME s.state = "IDLE" PROVE r.state = "IDLE"
        <4>1. OwnID(n) \in SUBSET MessageID /\ NextID(n) \in OwnID(n)
            BY OwnIDs, NextIDIsFresh
        <4>2. r = timerExpired(s, t, NextID(n))
            BY <3>1 DEF timerHandled
        <4> HIDE DEF s, r
        <4>3. Settles(r, s, OwnID(n))
            BY <1>1, <4>1, <4>2, TimerExpiredSettles
        <4> QED
            BY <3>1, <4>3 DEF Settles, Keeps
      <3> QED BY <3>1
    <2>2. s.state # "IDLE" => r.state = s.state
        BY <1>1 DEF timerHandled, timerDropped, NodeState
    <2> QED
        BY <2>1, <2>2
  <1>5. s.state = "OFF" => s.predecessor = n
      BY DEF OffAlone
  <1> HIDE DEF s, r
  <1>6. Adopts(r, s)
      BY <1>3 DEF Adopts
  <1>7. Nears(r, s, n)
      BY <1>1, <1>2, <1>3, <1>4, <1>5, <1>6, AdoptsNears
  <1> QED
      BY <1>7 DEF r, s

\* Nor does an UPDATE timer.
LEMMA UpdateNears ==
    ASSUME InOrder, OffAlone, NEW n \in Node, UpdateDue(n), Running(n)
    PROVE  Nears(updateHandled(n), node[n], n)
  <1> DEFINE s == node[n]
             r == updateHandled(n)
  <1>1. s.id = n /\ s \in NodeState
      BY DEF InOrder, NodesInOrder
  <1>2. r \in NodeState /\ r.id = n
      BY UpdateHandled DEF Handled, Sound
  <1>3. r.predecessor = s.predecessor /\ (r.state = "OFF" => s.state = "OFF")
    <2>1. r = IF s.state = "IDLE" THEN updateExpired(s, NextID(n)) ELSE [s EXCEPT !.updateTimers = @ - 1]
        BY DEF updateHandled
    <2> HIDE DEF s, r
    <2>2. updateExpired(s, NextID(n)).predecessor = s.predecessor
        BY <1>1, UpdateExpiredAdopts
    <2>3. updateExpired(s, NextID(n)).state = s.state
        BY <1>1 DEF NodeState, updateExpired, issueFindPredecessor, issueFindSuccessor,
           setNextFingerToUpdate, pushTimers, sendMessage
    <2>4. LET u == [s EXCEPT !.updateTimers = @ - 1]
          IN  u.predecessor = s.predecessor /\ u.state = s.state
        BY <1>1 DEF NodeState
    <2> QED
        BY <2>1, <2>2, <2>3, <2>4
  <1>4. s.state = "OFF" => s.predecessor = n
      BY DEF OffAlone
  <1> HIDE DEF s, r
  <1>5. Adopts(r, s)
      BY <1>3 DEF Adopts
  <1>6. Nears(r, s, n)
      BY <1>1, <1>2, <1>3, <1>4, <1>5, AdoptsNears
  <1> QED
      BY <1>6 DEF r, s

\* A step that takes node n to such a state.
LEMMA MovesNears ==
    ASSUME InOrder, OffAlone, NEW n \in Node, NEW states, NEW q, Moves(n, states, q),
           \A r \in states : Nears(r, node[n], n)
    PROVE  /\ OffAlone'
           /\ \A k \in Node : Gap(node'[k].predecessor, k) <= Gap(node[k].predecessor, k)
  <1>1. PICK r \in states : node' = [node EXCEPT ![n] = Settled(r)]
      BY DEF Moves
  <1>2. Settled(r).predecessor = r.predecessor /\ Settled(r).state = r.state
      BY <1>1 DEF Nears, Settled, NodeState
  <1>3. node'[n] = Settled(r) /\ \A k \in Node : k # n => node'[k] = node[k]
      BY <1>1 DEF InOrder, NodesInOrder
  <1>4. ASSUME NEW k \in Node PROVE Gap(node[k].predecessor, k) <= Gap(node[k].predecessor, k)
      BY GapIsNumber DEF InOrder, NodesInOrder
  <1>5. ASSUME NEW k \in Node
        PROVE  /\ node'[k].state = "OFF" => node'[k].predecessor = k
               /\ Gap(node'[k].predecessor, k) <= Gap(node[k].predecessor, k)
      BY <1>1, <1>2, <1>3, <1>4 DEF Nears, OffAlone
  <1> QED
      BY <1>5 DEF OffAlone

\* Boot is the reset of a node that knows only itself.
LEMMA BootNears ==
    ASSUME InOrder, OffAlone, NEW n \in Node, Running(n), node[n].state = "OFF"
    PROVE  Nears(hardReset(node[n], NextID(n)), node[n], n)
  <1>1. node[n].id = n /\ node[n] \in NodeState /\ node[n].predecessor = n
      BY DEF InOrder, NodesInOrder, OffAlone
  <1>2. LET r == hardReset(node[n], NextID(n))
        IN  r \in NodeState /\ r.id = n /\ r.predecessor = n /\ r.state = "IDLE"
    <2>1. Sound(node[n], OwnID(n)) /\ OwnID(n) \in SUBSET MessageID /\ NextID(n) \in OwnID(n)
        BY OwnIDs, NextIDIsFresh DEF InOrder, NodesInOrder
    <2>2. Sound(hardReset(node[n], NextID(n)), OwnID(n)) /\ hardReset(node[n], NextID(n)).id = n
        BY <1>1, <2>1, HardResetFollows DEF Follows
    <2> QED
        BY <1>1, <2>2, HardResetPredecessor DEF Sound
  <1> QED
      BY <1>1, <1>2, GapIsNumber DEF Nears

\* One state after the other, in the instant of Coincide.
LEMMA NearsIsTransitive ==
    ASSUME NEW n, NEW r, NEW s, NEW u \in NodeState, u.id = n, Nears(s, u, n), Nears(r, s, n)
    PROVE  Nears(r, u, n)
  <1>1. Gap(r.predecessor, n) \in Int /\ Gap(s.predecessor, n) \in Int /\ Gap(u.predecessor, n) \in Int
      BY GapIsNumber DEF Nears
  <1> QED
      BY <1>1 DEF Nears

\* Without HARD_RESET a step takes no predecessor farther from its node.
LEMMA NextNears ==
    ASSUME \A n \in Node : "HARD_RESET" \notin Commands[n], InOrder, OffAlone, [Next]_vars
    PROVE  /\ OffAlone'
           /\ \A n \in Node : Gap(node'[n].predecessor, n) <= Gap(node[n].predecessor, n)
  <1>1. CASE UNCHANGED vars
    <2>1. node' = node
        BY <1>1 DEF vars
    <2>2. ASSUME NEW k \in Node PROVE Gap(node[k].predecessor, k) <= Gap(node[k].predecessor, k)
        BY GapIsNumber DEF InOrder, NodesInOrder
    <2> QED
        BY <2>1, <2>2 DEF OffAlone
  <1>2. CASE Next
    <2> PICK n \in Node :
            \/ Boot(n) \/ Deliver(n) \/ UpdateTimerExpires(n) \/ TimerExpires(n)
            \/ Coincide(n) \/ HardReset(n) \/ ResetDropsArrival(n) \/ Pause(n)
        BY <1>2 DEF Next
    <2> DEFINE opened == [net EXCEPT ![n] = Tail(@)]
    <2>1. ~HardReset(n) /\ ~ResetDropsArrival(n)
        BY DEF HardReset, ResetDropsArrival, Give
    <2>2. Running(n)
        BY <2>1 DEF Boot, Deliver, UpdateTimerExpires, TimerExpires, Coincide, Pause, Give
    <2>3. Covers(Joining) /\ Covers(Joining \cup {NextID(n)}) /\ NextID(n) \in OwnID(n)
        BY <2>2, FreshCovers, NextIDIsFresh
    <2>4. node[n] \in NodeState /\ node[n].id = n /\ Nears(node[n], node[n], n)
        BY NodeNears DEF InOrder, NodesInOrder
    <2>5. ASSUME net[n] # <<>>, NEW J, Covers(J), NEW s, Handled(s, n, J), Nears(s, node[n], n),
                 NEW mid \in OwnID(n), NEW r \in received(s, Head(net[n]), mid)
          PROVE  Nears(r, node[n], n)
      <3>1. Head(net[n]) \in Letters(J) /\ Head(net[n]).dest = n
          BY <2>5, QueueOpens, LettersStay DEF InOrder, QueuesInOrder
      <3>2. Nears(r, s, n)
          BY <2>5, <3>1, ReceivedNears DEF Nears
      <3> QED
          BY <2>4, <2>5, <3>2, NearsIsTransitive
    <2>6. CASE Boot(n)
      <3>1. Moves(n, {hardReset(node[n], NextID(n))}, net) /\ node[n].state = "OFF"
          BY <2>6 DEF Boot
      <3>2. Nears(hardReset(node[n], NextID(n)), node[n], n)
          BY <2>2, <3>1, BootNears
      <3> QED
          BY <3>1, <3>2, MovesNears
    <2>7. CASE Deliver(n)
      <3> DEFINE states == received(node[n], Head(net[n]), NextID(n))
      <3>1. net[n] # <<>> /\ Moves(n, states, opened)
          BY <2>7 DEF Deliver
      <3>2. \A r \in states : Nears(r, node[n], n)
        <4>1. Handled(node[n], n, Joining)
            BY <2>3, NodeHandled
        <4> QED
            BY <2>3, <2>4, <2>5, <3>1, <4>1
      <3> HIDE DEF states, opened
      <3> QED
          BY <3>1, <3>2, MovesNears
    <2>8. CASE UpdateTimerExpires(n)
      <3>1. UpdateDue(n) /\ Moves(n, {updateHandled(n)}, net)
          BY <2>8 DEF UpdateTimerExpires
      <3>2. Nears(updateHandled(n), node[n], n)
          BY <2>2, <3>1, UpdateNears
      <3> QED
          BY <3>1, <3>2, MovesNears
    <2>9. CASE TimerExpires(n)
      <3> DEFINE states == {timerHandled(n, t) : t \in TimersDue(n)}
      <3>1. Moves(n, states, net)
          BY <2>9 DEF TimerExpires
      <3>2. \A r \in states : Nears(r, node[n], n)
          BY <2>2, TimerNears
      <3> HIDE DEF states
      <3> QED
          BY <3>1, <3>2, MovesNears
    <2>10. CASE Coincide(n)
      <3>1. PICK s \in (IF UpdateDue(n) THEN {updateHandled(n)} ELSE {})
                           \cup {timerHandled(n, t) : t \in TimersDue(n)} :
                LET fresh == FreshID(n) \ {t.messageID : t \in s.timers}
                IN  /\ fresh # {}
                    /\ Moves(n, {[r EXCEPT !.tx = ByPriority(@)] :
                                     r \in received(s, Head(net[n]), Least(fresh))}, opened)
          BY <2>10 DEF Coincide
      <3> DEFINE fresh  == FreshID(n) \ {t.messageID : t \in s.timers}
                 after  == received(s, Head(net[n]), Least(fresh))
                 states == {[r EXCEPT !.tx = ByPriority(@)] : r \in after}
      <3>2. /\ net[n] # <<>> /\ Moves(n, states, opened)
            /\ fresh \in SUBSET FreshID(n) /\ fresh # {}
          BY <2>10, <3>1 DEF Coincide
      <3>3. \E J : Covers(J) /\ Handled(s, n, J) /\ Nears(s, node[n], n)
        <4>1. UpdateDue(n) => Handled(updateHandled(n), n, Joining) /\ Nears(updateHandled(n), node[n], n)
            BY <2>2, UpdateHandled, UpdateNears
        <4>2. \A t \in TimersDue(n) : /\ Handled(timerHandled(n, t), n, Joining \cup {NextID(n)})
                                      /\ Nears(timerHandled(n, t), node[n], n)
            BY <2>2, TimerHandled, TimerNears
        <4>3. (UpdateDue(n) /\ s = updateHandled(n)) \/ \E t \in TimersDue(n) : s = timerHandled(n, t)
            OBVIOUS
        <4> QED
            BY <2>3, <4>1, <4>2, <4>3
      <3>4. Least(fresh) \in OwnID(n)
        <4> HIDE DEF fresh
        <4> QED
            BY <3>2, LeastIsFresh
      <3> HIDE DEF fresh, opened
      <3>6. \A r \in after : Nears(r, node[n], n)
          BY <2>5, <3>2, <3>3, <3>4
      <3> HIDE DEF after
      <3>7. ASSUME NEW r \in after PROVE Nears([r EXCEPT !.tx = ByPriority(@)], node[n], n)
        <4>1. r \in NodeState /\ Nears(r, node[n], n)
            BY <3>6 DEF Nears
        <4>2. ByPriority(r.tx) \in Seq(Message)
            BY <4>1, ByPrioritySends DEF NodeState
        <4> DEFINE tx == ByPriority(r.tx)
        <4> HIDE DEF tx
        <4>3. Nears([r EXCEPT !.tx = tx], node[n], n)
            BY <4>1, <4>2 DEF tx, Nears, NodeState
        <4> QED
            BY <4>3 DEF tx
      <3>8. \A u \in states : Nears(u, node[n], n)
          BY <3>7
      <3> HIDE DEF states
      <3> QED
          BY <3>2, <3>8, MovesNears
    <2>11. CASE Pause(n)
      <3> DEFINE paused == [node[n] EXCEPT !.state = "PAUSED"]
      <3>1. Moves(n, {paused}, net)
          BY <2>11 DEF Pause
      <3>2. Nears(paused, node[n], n)
          BY <2>4 DEF Nears, NodeState
      <3> HIDE DEF paused
      <3> QED
          BY <3>1, <3>2, MovesNears
    <2> QED
        BY <2>1, <2>6, <2>7, <2>8, <2>9, <2>10, <2>11
  <1> QED
      BY <1>1, <1>2

\* In a network in which nobody is reset a predecessor is only ever replaced by a
\* closer one, though NOTIFYs, JOINs and answers to JOINs may each replace it in
\* any order.
THEOREM PredecessorsOnlyCloser ==
    ASSUME \A n \in Node : "HARD_RESET" \notin Commands[n]
    PROVE  Spec => PredecessorOnlyCloser
  <1>1. Init => OffAlone
      BY DEF Init, Off, OffAlone
  <1>2. InOrder /\ OffAlone /\ [Next]_vars => OffAlone'
      BY NextNears
  <1>3. InOrder /\ OffAlone /\ [Next]_vars =>
            [\A n \in Node : Gap(node'[n].predecessor, n) <= Gap(node[n].predecessor, n)]_vars
      BY NextNears
  <1> QED
      BY <1>1, <1>2, <1>3, NetworkInOrder, PTL DEF Spec, PredecessorOnlyCloser

-----------------------------------------------------------------------------
(* The exchanges of the periodic update: every step keeps every node tidy. *)

\* Every handler of a letter leaves the node tidy.
LEMMA ReceivedTidy ==
    ASSUME NEW n \in Node, NEW K, NEW s, Handled(s, n, K), Tidy(s), s.state # "OFF",
           NEW m \in Letters(K), m.dest = n, NEW mid \in OwnID(n),
           NEW r \in received(s, m, mid)
    PROVE  Tidy(r)
  <1>1. Sound(s, OwnID(n)) /\ s.id = n /\ s \in NodeState /\ JoinIDs(s) \subseteq K
      BY DEF Handled, Sound
  <1>2. /\ m \in Message /\ mid \in MessageID
        /\ IsRequest(m) => /\ m.messageID \notin OwnID(n) /\ m.initiator # s.id
                           /\ m.isJoin => m.searched = Plus(m.initiator, 1)
        /\ m.type \in {"NOTIFY", "SUCCESSOR", "PREDECESSOR"} => m.searched \in Node
      BY <1>1, OwnIDs DEF Letters, IsLetter, OwnID
  <1>3. IsRequest(m) => Tidy(rxFindSuccessor(s, m))
    <2>1. ASSUME IsRequest(m) PROVE GoesOn(rxFindSuccessor(s, m), s)
        BY <1>1, <1>2, <2>1, RxFindSuccessorGoesOn
    <2> QED
        BY <2>1, GoesOnTidy
  <1>4. Tidy(rxFindPredecessor(s, m)) /\ Tidy(rxNotify(s, m))
    <2>1. GoesOn(rxFindPredecessor(s, m), s) /\ GoesOn(rxNotify(s, m), s)
        BY <1>1, <1>2, RxNotifyGoesOn
    <2> QED
        BY <2>1, GoesOnTidy
  <1>5. m.type = "SUCCESSOR" => Tidy(rxSuccessor(s, m))
    <2>1. ASSUME m.type = "SUCCESSOR",
                 TimersOf(s, {"RX_SUCCESSOR_ON_JOIN"}, "JOIN", m.messageID) # {}
          PROVE  ConfSeed[s.id] # <<>> /\ m.searched # s.id
      <3>1. PICK t \in s.timers : t.type = "RX_SUCCESSOR_ON_JOIN" /\ t.messageID = m.messageID
          BY <2>1 DEF TimersOf
      <3>2. ConfSeed[s.id] # <<>> /\ t.messageID \in OwnID(n)
          BY <1>1, <3>1 DEF Sound, TimersInOrder
      <3>3. m.messageID \in K
          BY <1>1, <3>1 DEF JoinIDs
      <3>4. m.searched # m.messageID[1]
          BY <2>1, <3>3 DEF Letters, IsLetter
      <3> QED
          BY <1>1, <3>1, <3>2, <3>4 DEF OwnID
    <2>2. ASSUME m.type = "SUCCESSOR", ~s.isSuccessorSet,
                 TimersOf(s, {"RX_SUCCESSOR_ON_JOIN"}, "JOIN", m.messageID) # {}
          PROVE  Tidy(joinAnswered(s, m))
      <3>1. Closes(joinAnswered(s, m), s)
          BY <1>1, <1>2, <2>1, <2>2, JoinAnsweredCloses
      <3> QED
          BY <3>1, ClosesTidy
    <2>3. ASSUME TimersOf(s, {"RX_SUCCESSOR"}, "FIND_SUCCESSOR", m.messageID) # {}
          PROVE  Tidy(fingerAnswered(s, m))
      <3>1. Closes(fingerAnswered(s, m), s)
          BY <1>1, <1>2, <2>3, FingerAnsweredCloses
      <3> QED
          BY <3>1, ClosesTidy
    <2> QED
        BY <2>2, <2>3 DEF rxSuccessor
  <1>6. m.type = "PREDECESSOR" => Tidy(rxPredecessor(s, m, mid))
      BY <1>1, <1>2, RxPredecessorTidy
  <1>7. \A t \in ackTimers(s, m) : Tidy(rxAck(s, t))
      BY <1>1, RxAckTidy DEF ackTimers
  <1> QED
      BY <1>3, <1>4, <1>5, <1>6, <1>7 DEF received, IsRequest

\* Only a node the application may pause is ever paused.
Tidied == \A n \in Node : /\ NodeTidy(node[n])
                          /\ node[n].state = "PAUSED" => "PAUSE" \in Commands[n]

\* No request a node has passed on times out there.  goStateUpdate takes such a
\* timeout for one of its own and releases the lock of the exchange that is running.
PassedOnAcked == \A n \in Node : node[n].state = "IDLE" =>
    \A t \in TimersDue(n) :
        ~(t.type = "RX_ACK" /\ t.retryMess = "FIND_SUCCESSOR" /\ t.retransmitCounter > 0)

\* r is tidy, and paused only if s is.
StaysTidy(r, s) == NodeTidy(r) /\ (r.state = "PAUSED" => s.state = "PAUSED")

\* What a node has queued for transmission does not matter.
LEMMA SentTidy ==
    ASSUME NEW s \in NodeState, NEW tx, NodeTidy(s)
    PROVE  NodeTidy([s EXCEPT !.tx = tx])
  <1> DEFINE r == [s EXCEPT !.tx = tx]
  <1>1. /\ r.id = s.id /\ r.state = s.state /\ r.timers = s.timers
        /\ r.isNowUpdate = s.isNowUpdate /\ r.successor = s.successor
        /\ r.cwFingerIndex = s.cwFingerIndex /\ r.isUpdated = s.isUpdated
        /\ r.isSuccessorSet = s.isSuccessorSet /\ r.updateTimers = s.updateTimers
      BY DEF NodeState
  <1> HIDE DEF r
  <1>2. NodeTidy(r)
      BY <1>1 DEF NodeTidy, Tidy, LockInOrder, FingerFits, NotYetJoined
  <1> QED
      BY <1>2 DEF r

\* A message leaves the node tidy, in whatever state it is.
LEMMA ReceivedStaysTidy ==
    ASSUME NEW n \in Node, NEW K, NEW s, Handled(s, n, K), NodeTidy(s),
           NEW m \in Letters(K), m.dest = n, NEW mid \in OwnID(n),
           NEW r \in received(s, m, mid)
    PROVE  StaysTidy(r, s)
  <1>1. CASE s.state = "IDLE"
    <2>1. Tidy(r)
        BY <1>1, ReceivedTidy DEF NodeTidy
    <2>2. Settles(r, s, OwnID(n))
      <3>1. OwnID(n) \in SUBSET MessageID /\ mid \in MessageID /\ m \in Message
          BY OwnIDs DEF Letters
      <3>2. /\ m.type \in {"JOIN", "FIND_SUCCESSOR"} => m.messageID \notin OwnID(n)
            /\ m.type \in {"NOTIFY", "SUCCESSOR", "PREDECESSOR"} => m.searched \in Node
          BY DEF Letters, IsLetter, IsRequest, OwnID
      <3> QED
          BY <3>1, <3>2, ReceivedSettles DEF Handled
    <2> QED
        BY <1>1, <2>1, <2>2 DEF StaysTidy, NodeTidy, Settles, Keeps
  <1>2. CASE s.state # "IDLE"
      BY <1>2 DEF received, StaysTidy
  <1> QED
      BY <1>1, <1>2

\* So does a timer, unless it waits for the ACK of a request passed on.
LEMMA TimerStaysTidy ==
    ASSUME InOrder, PassedOnAcked, Tidied, NEW n \in Node, NEW t \in TimersDue(n), Running(n)
    PROVE  StaysTidy(timerHandled(n, t), node[n])
  <1> DEFINE s == node[n]
             r == timerHandled(n, t)
  <1>1. Sound(s, OwnID(n)) /\ s \in NodeState /\ t \in s.timers /\ NodeTidy(s)
      BY DEF InOrder, NodesInOrder, Sound, TimersDue, Tidied
  <1>2. CASE s.state = "IDLE"
    <2>1. r = timerExpired(s, t, NextID(n))
        BY <1>2 DEF timerHandled
    <2>2. ~(t.type = "RX_ACK" /\ t.retryMess = "FIND_SUCCESSOR" /\ t.retransmitCounter > 0)
        BY <1>2 DEF PassedOnAcked
    <2>3. OwnID(n) \in SUBSET MessageID /\ NextID(n) \in OwnID(n)
        BY OwnIDs, NextIDIsFresh
    <2> HIDE DEF s, r
    <2>4. Tidy(r)
        BY <1>1, <1>2, <2>1, <2>2, TimerExpiredTidy DEF NodeTidy
    <2>5. Settles(r, s, OwnID(n))
        BY <1>1, <2>1, <2>3, TimerExpiredSettles
    <2>6. StaysTidy(r, s)
        BY <1>2, <2>4, <2>5 DEF StaysTidy, NodeTidy, Settles, Keeps
    <2> QED
        BY <2>6 DEF s, r
  <1>3. CASE s.state # "IDLE"
    <2>1. s.state = "PAUSED"
        BY <1>1, <1>3 DEF NodeTidy, Tidy, NodeState
    <2>2. /\ r.id = s.id /\ r.state = s.state /\ r.timers \subseteq s.timers
          /\ r.successor = s.successor /\ r.cwFingerIndex = s.cwFingerIndex
          /\ r.isUpdated = s.isUpdated
        BY <1>1, <1>3 DEF timerHandled, timerDropped, NodeState
    <2> HIDE DEF s, r
    <2>3. FingerFits(r)
        BY <1>1, <2>1, <2>2 DEF NodeTidy, FingerFits
    <2>4. StaysTidy(r, s)
        BY <2>1, <2>2, <2>3 DEF StaysTidy, NodeTidy
    <2> QED
        BY <2>4 DEF s, r
  <1> QED
      BY <1>2, <1>3

\* And an UPDATE timer, which is not due before the ACK timer of an exchange
\* that has timed out.
LEMMA UpdateStaysTidy ==
    ASSUME InOrder, Tidied, NEW n \in Node, UpdateDue(n), Running(n)
    PROVE  StaysTidy(updateHandled(n), node[n])
  <1> DEFINE s == node[n]
             r == updateHandled(n)
  <1>1. Sound(s, OwnID(n)) /\ s \in NodeState /\ NodeTidy(s) /\ s.updateTimers > 0
      BY DEF InOrder, NodesInOrder, Sound, UpdateDue, Tidied
  <1>2. CASE s.state = "IDLE"
    <2>1. r = updateExpired(s, NextID(n)) /\ Tidy(s)
        BY <1>1, <1>2 DEF updateHandled, NodeTidy
    <2>2. ASSUME ~s.isNowUpdate, NEW t \in s.timers, OwnAck(t) PROVE FALSE
      <3>1. PICK u \in TimersOf(s, {"RX_SUCCESSOR", "RX_PREDECESSOR"}, t.retryMess, t.messageID) : TRUE
          BY <2>2 DEF UpdateDue, AckDue, OwnAck
      <3>2. u \in s.timers /\ Awaits(u)
          BY <3>1 DEF TimersOf, Awaits
      <3> QED
          BY <2>1, <2>2, <3>2 DEF Tidy, LockInOrder
    <2>3. OwnID(n) \in SUBSET MessageID /\ NextID(n) \in OwnID(n)
        BY OwnIDs, NextIDIsFresh
    <2> HIDE DEF s, r
    <2>4. Tidy(r)
        BY <1>1, <1>2, <2>1, <2>2, UpdateExpiredTidy
    <2>5. Settles(r, s, OwnID(n))
        BY <1>1, <2>1, <2>3, UpdateExpiredSettles
    <2>6. StaysTidy(r, s)
        BY <1>2, <2>4, <2>5 DEF StaysTidy, NodeTidy, Settles, Keeps
    <2> QED
        BY <2>6 DEF s, r
  <1>3. CASE s.state # "IDLE"
    <2>1. s.state = "PAUSED"
        BY <1>1, <1>3 DEF NodeTidy, Tidy, NodeState
    <2>2. /\ r.id = s.id /\ r.state = s.state /\ r.timers = s.timers
          /\ r.successor = s.successor /\ r.cwFingerIndex = s.cwFingerIndex
          /\ r.isUpdated = s.isUpdated
        BY <1>1, <1>3 DEF updateHandled, NodeState
    <2> HIDE DEF s, r
    <2>3. StaysTidy(r, s)
        BY <1>1, <2>1, <2>2 DEF StaysTidy, NodeTidy, FingerFits
    <2> QED
        BY <2>3 DEF s, r
  <1> QED
      BY <1>2, <1>3

\* A step that takes node n to such a state.
LEMMA MovesTidy ==
    ASSUME InOrder, Tidied, NEW n \in Node, NEW states, NEW q, Moves(n, states, q),
           \A r \in states : /\ r \in NodeState /\ NodeTidy(r)
                             /\ r.state = "PAUSED" => "PAUSE" \in Commands[n]
    PROVE  Tidied'
  <1>1. PICK r \in states : node' = [node EXCEPT ![n] = Settled(r)]
      BY DEF Moves
  <1>2. NodeTidy(Settled(r)) /\ Settled(r).state = r.state
      BY <1>1, SentTidy DEF Settled, NodeState
  <1>3. node'[n] = Settled(r) /\ \A k \in Node : k # n => node'[k] = node[k]
      BY <1>1 DEF InOrder, NodesInOrder
  <1>4. ASSUME NEW k \in Node
        PROVE  NodeTidy(node'[k]) /\ (node'[k].state = "PAUSED" => "PAUSE" \in Commands[k])
      BY <1>1, <1>2, <1>3 DEF Tidied
  <1> QED
      BY <1>4 DEF Tidied

\* The step lemma, one step per action.
LEMMA NextTidied == InOrder /\ PassedOnAcked /\ Tidied /\ [Next]_vars => Tidied'
  <1> SUFFICES ASSUME InOrder, PassedOnAcked, Tidied, [Next]_vars PROVE Tidied'
      OBVIOUS
  <1>1. CASE UNCHANGED vars
    <2>1. node' = node
        BY <1>1 DEF vars
    <2> QED
        BY <2>1 DEF Tidied
  <1>2. CASE Next
    <2> PICK n \in Node :
            \/ Boot(n) \/ Deliver(n) \/ UpdateTimerExpires(n) \/ TimerExpires(n)
            \/ Coincide(n) \/ HardReset(n) \/ ResetDropsArrival(n) \/ Pause(n)
        BY <1>2 DEF Next
    <2> DEFINE opened == [net EXCEPT ![n] = Tail(@)]
               Good(r) == /\ r \in NodeState /\ NodeTidy(r)
                          /\ r.state = "PAUSED" => "PAUSE" \in Commands[n]
    <2>1. Running(n)
        BY DEF Boot, Deliver, UpdateTimerExpires, TimerExpires, Coincide, HardReset,
               ResetDropsArrival, Pause, Give
    <2>2. /\ Covers(Joining) /\ Covers(Joining \cup {NextID(n)}) /\ NextID(n) \in OwnID(n)
          /\ Handled(node[n], n, Joining)
        BY <2>1, FreshCovers, NextIDIsFresh, NodeHandled
    <2>3. Good(node[n])
        BY DEF InOrder, NodesInOrder, Tidied
    <2>4. ASSUME NEW J, NEW s, Handled(s, n, J), StaysTidy(s, node[n]) PROVE Good(s)
        BY <2>3, <2>4 DEF StaysTidy, Handled, Sound
    <2>5. ASSUME net[n] # <<>>, NEW J, Covers(J), NEW s, Handled(s, n, J), Good(s),
                 NEW mid \in OwnID(n), NEW r \in received(s, Head(net[n]), mid)
          PROVE  Good(r)
      <3>1. Head(net[n]) \in Letters(J) /\ Head(net[n]).dest = n
          BY <2>5, QueueOpens, LettersStay DEF InOrder, QueuesInOrder
      <3>2. StaysTidy(r, s)
          BY <2>5, <3>1, ReceivedStaysTidy
      <3>3. r \in NodeState
          BY <2>5, <3>1, ReceivedHandled DEF Handled, Sound
      <3> QED
          BY <2>5, <3>2, <3>3 DEF StaysTidy
    <2>6. ASSUME NEW s, s \in NodeState, s.id = n, Sound(s, OwnID(n))
          PROVE  Good(hardReset(s, NextID(n)))
      <3>1. Tidy(hardReset(s, NextID(n)))
          BY <2>6, HardResetTidy
      <3>2. hardReset(s, NextID(n)) \in NodeState /\ hardReset(s, NextID(n)).state = "IDLE"
        <4>1. OwnID(n) \in SUBSET MessageID
            BY OwnIDs
        <4> QED
            BY <2>2, <2>6, <4>1, HardResetFollows, HardResetPredecessor DEF Follows, Sound
      <3> QED
          BY <3>1, <3>2 DEF NodeTidy
    <2>7. node[n] \in NodeState /\ node[n].id = n /\ Sound(node[n], OwnID(n))
        BY DEF InOrder, NodesInOrder
    <2>8. ASSUME NEW states, NEW q, Moves(n, states, q), \A r \in states : Good(r) PROVE Tidied'
        BY <2>8, MovesTidy
    <2> HIDE DEF Good
    <2>9. CASE Boot(n)
      <3>1. Moves(n, {hardReset(node[n], NextID(n))}, net)
          BY <2>9 DEF Boot
      <3> QED
          BY <2>6, <2>7, <2>8, <3>1
    <2>10. CASE Deliver(n)
      <3> DEFINE states == received(node[n], Head(net[n]), NextID(n))
      <3>1. net[n] # <<>> /\ Moves(n, states, opened)
          BY <2>10 DEF Deliver
      <3>2. \A r \in states : Good(r)
          BY <2>2, <2>3, <2>5, <3>1
      <3> HIDE DEF states, opened
      <3> QED
          BY <2>8, <3>1, <3>2
    <2>11. CASE UpdateTimerExpires(n)
      <3>1. UpdateDue(n) /\ Moves(n, {updateHandled(n)}, net)
          BY <2>11 DEF UpdateTimerExpires
      <3>2. Good(updateHandled(n))
          BY <2>1, <2>4, <3>1, UpdateHandled, UpdateStaysTidy
      <3> QED
          BY <2>8, <3>1, <3>2
    <2>12. CASE TimerExpires(n)
      <3> DEFINE states == {timerHandled(n, t) : t \in TimersDue(n)}
      <3>1. Moves(n, states, net)
          BY <2>12 DEF TimerExpires
      <3>2. \A r \in states : Good(r)
          BY <2>1, <2>4, TimerHandled, TimerStaysTidy
      <3> HIDE DEF states
      <3> QED
          BY <2>8, <3>1, <3>2
    <2>13. CASE Coincide(n)
      <3>1. PICK s \in (IF UpdateDue(n) THEN {updateHandled(n)} ELSE {})
                           \cup {timerHandled(n, t) : t \in TimersDue(n)} :
                LET fresh == FreshID(n) \ {t.messageID : t \in s.timers}
                IN  /\ fresh # {}
                    /\ Moves(n, {[r EXCEPT !.tx = ByPriority(@)] :
                                     r \in received(s, Head(net[n]), Least(fresh))}, opened)
          BY <2>13 DEF Coincide
      <3> DEFINE fresh  == FreshID(n) \ {t.messageID : t \in s.timers}
                 after  == received(s, Head(net[n]), Least(fresh))
                 states == {[r EXCEPT !.tx = ByPriority(@)] : r \in after}
      <3>2. /\ net[n] # <<>> /\ Moves(n, states, opened)
            /\ fresh \in SUBSET FreshID(n) /\ fresh # {}
          BY <2>13, <3>1 DEF Coincide
      <3>3. \E J : Covers(J) /\ Handled(s, n, J) /\ Good(s)
        <4>1. UpdateDue(n) => Handled(updateHandled(n), n, Joining) /\ Good(updateHandled(n))
            BY <2>1, <2>4, UpdateHandled, UpdateStaysTidy
        <4>2. \A t \in TimersDue(n) : /\ Handled(timerHandled(n, t), n, Joining \cup {NextID(n)})
                                      /\ Good(timerHandled(n, t))
            BY <2>1, <2>4, TimerHandled, TimerStaysTidy
        <4>3. (UpdateDue(n) /\ s = updateHandled(n)) \/ \E t \in TimersDue(n) : s = timerHandled(n, t)
            OBVIOUS
        <4> QED
            BY <2>2, <4>1, <4>2, <4>3
      <3>4. Least(fresh) \in OwnID(n)
        <4> HIDE DEF fresh
        <4> QED
            BY <3>2, LeastIsFresh
      <3> HIDE DEF fresh, opened
      <3>5. \A r \in after : Good(r)
          BY <2>5, <3>2, <3>3, <3>4
      <3> HIDE DEF after
      <3>6. ASSUME NEW r \in after PROVE Good([r EXCEPT !.tx = ByPriority(@)])
        <4>1. r \in NodeState /\ NodeTidy(r) /\ Good(r)
            BY <3>5 DEF Good
        <4>2. ByPriority(r.tx) \in Seq(Message)
            BY <4>1, ByPrioritySends DEF NodeState
        <4> DEFINE tx == ByPriority(r.tx)
                   u  == [r EXCEPT !.tx = tx]
        <4> HIDE DEF tx
        <4>3. NodeTidy(u)
            BY <4>1, SentTidy
        <4>4. u \in NodeState /\ u.state = r.state
            BY <4>1, <4>2 DEF tx, NodeState
        <4> HIDE DEF u
        <4>5. Good(u)
            BY <4>1, <4>3, <4>4 DEF Good
        <4> QED
            BY <4>5 DEF tx, u
      <3>7. \A u \in states : Good(u)
          BY <3>6
      <3> HIDE DEF states
      <3> QED
          BY <2>8, <3>2, <3>7
    <2>14. CASE HardReset(n)
      <3>1. Moves(n, {hardReset(node[n], NextID(n))}, net)
          BY <2>14 DEF HardReset
      <3> QED
          BY <2>6, <2>7, <2>8, <3>1
    <2>15. CASE ResetDropsArrival(n)
      <3> DEFINE after  == FoundByReset(n)
                 states == {hardReset(s, NextID(n)) : s \in after}
      <3>1. net[n] # <<>> /\ Moves(n, states, opened)
          BY <2>15 DEF ResetDropsArrival
      <3>2. \A s \in after : Sound(s, OwnID(n)) /\ s.id = n
        <4>1. Head(net[n]) \in Letters(Joining) /\ Head(net[n]).dest = n
            BY <2>2, <3>1, QueueOpens, LettersStay DEF InOrder, QueuesInOrder
        <4> QED
            BY <2>2, <4>1, ReceivedHandled DEF FoundByReset, Handled
      <3> HIDE DEF after, opened
      <3>3. \A u \in states : Good(u)
          BY <2>6, <3>2 DEF Sound
      <3> HIDE DEF states
      <3> QED
          BY <2>8, <3>1, <3>3
    <2>16. CASE Pause(n)
      <3> DEFINE paused == [node[n] EXCEPT !.state = "PAUSED"]
      <3>1. /\ Moves(n, {paused}, net) /\ "PAUSE" \in Commands[n]
            /\ node[n].state = "IDLE" /\ NodeTidy(node[n])
          BY <2>16 DEF Pause, Give, Tidied
      <3>2. /\ paused \in NodeState /\ paused.state = "PAUSED"
            /\ paused.id = node[n].id /\ paused.timers = node[n].timers
            /\ paused.successor = node[n].successor /\ paused.isUpdated = node[n].isUpdated
            /\ paused.cwFingerIndex = node[n].cwFingerIndex
          BY <2>7 DEF NodeState
      <3> HIDE DEF paused
      <3>3. Good(paused)
          BY <3>1, <3>2 DEF Good, NodeTidy, Tidy, FingerFits
      <3> QED
          BY <2>8, <3>1, <3>3
    <2> QED
        BY <2>9, <2>10, <2>11, <2>12, <2>13, <2>14, <2>15, <2>16
  <1> QED
      BY <1>1, <1>2

\* A node before its start is tidy.
LEMMA InitTidied == Init => Tidied
BY DEF Init, Tidied, NodeTidy, Off, Tidy, LockInOrder, FingerFits, NotYetJoined

\* The invariant of the exchanges, where every request passed on is acknowledged.
LEMMA NetworkTidied == Spec /\ []PassedOnAcked => []Tidied
BY InitTidied, NextTidied, NetworkInOrder, PTL DEF Spec

\* The answer to a FIND_SUCCESSOR is stored under the finger that was asked for:
\* in every network in which requests passed on are acknowledged, the index does
\* not move while the answer is waited for, whatever the node handles in between,
\* and whatever resets and pauses it is given.
THEOREM AnswersFitFinger == Spec /\ []PassedOnAcked => []AnswerFitsFinger
  <1>1. InOrder /\ Tidied => AnswerFitsFinger
      BY DEF InOrder, NodesInOrder, Tidied, NodeTidy, Tidy, FingerFits, AnswerFitsFinger
  <1> QED
      BY <1>1, NetworkTidied, NetworkInOrder, PTL

\* At a node that is not paused the lock stands for one exchange.
LEMMA LockIsExchange ==
    ASSUME Tidied, NEW n \in Node, node[n].state # "PAUSED"
    PROVE  Cardinality(Exchanges(n)) = (IF node[n].isNowUpdate THEN 1 ELSE 0)
  <1>1. LockInOrder(node[n])
      BY DEF Tidied, NodeTidy, Tidy
  <1>2. \A t : t \in Exchanges(n) <=> t \in node[n].timers /\ Awaits(t)
      BY DEF Exchanges, Awaits
  <1>3. CASE node[n].isNowUpdate
    <2>1. PICK t \in node[n].timers : Awaits(t) /\ \A u \in node[n].timers : Awaits(u) => u = t
        BY <1>1, <1>3 DEF LockInOrder
    <2>2. Exchanges(n) = {t}
        BY <1>2, <2>1
    <2> QED
        BY <1>3, <2>2, FS_Singleton
  <1>4. CASE ~node[n].isNowUpdate
    <2>1. Exchanges(n) = {}
        BY <1>1, <1>2, <1>4 DEF LockInOrder
    <2> QED
        BY <1>4, <2>1, FS_EmptySet
  <1> QED
      BY <1>3, <1>4

\* m_isNowUpdate locks out a second exchange: in every network of which no node
\* is paused and in which requests passed on are acknowledged, exactly one
\* exchange is open at a node that has the lock up and none at any other, also
\* when answers are late, when they never come, and after resets.
THEOREM ExchangesOne ==
    ASSUME \A n \in Node : "PAUSE" \notin Commands[n]
    PROVE  Spec /\ []PassedOnAcked => []OneExchange
  <1>1. Tidied => OneExchange
      BY LockIsExchange DEF OneExchange, Tidied
  <1> QED
      BY <1>1, NetworkTidied, PTL

-----------------------------------------------------------------------------
(* Networks nobody has disturbed.  A node only ever knows, names and asks nodes *)
(* that have been started, so what a node asks for is acknowledged, and its     *)
(* stabilize is answered: the timers of those never come due.                   *)

\* B are the nodes that have been started.  A node knows only such nodes.
Knows(s, B) ==
    /\ s.id \in B /\ s.predecessor \in B /\ s.successor \in B
    /\ \A i \in FingerIndex : s.cwFingers[i] \in B
    /\ \A i \in 1 .. Len(s.seedAddrs) : s.seedAddrs[i] \in B

\* A message goes from one of them to another and names only such nodes.
Speaks(m, B) ==
    /\ m \in Message
    /\ m.src \in B /\ m.dest \in B /\ m.initiator \in B /\ m.service \in B
    /\ m.src # m.dest /\ (m.type = "JOIN" => m.dest = BootOrder[1])
    /\ m.type \in {"NOTIFY", "SUCCESSOR", "PREDECESSOR"} => m.searched \in B

\* What has been queued for transmission.
Sent(s) == {s.tx[k] : k \in 1 .. Len(s.tx)}

\* m is the request of node n that timer t waits for, and the answer to it.
RequestOf(m, n, t) ==
    /\ m.type = t.retryMess /\ m.src = n /\ m.initiator = n
    /\ m.messageID = t.messageID /\ m.retransmitCounter = 0

AnswerTo(m, n, t, type) ==
    /\ m.type = type /\ m.dest = n
    /\ m.messageID = t.messageID /\ m.retransmitCounter = 0

\* The timers of node n for a request it has passed on, and for one it has begun.
PassedOn(t, n) == /\ t.type = "RX_ACK" /\ t.retransmitCounter # 0
                  /\ t.retryMess = "FIND_SUCCESSOR" /\ t.messageID \notin OwnID(n)

Begun(t, r, mid) ==
    /\ t.messageID = mid /\ t.retransmitCounter = 0
    /\ t.type = "RX_PREDECESSOR" => t.retryMess = "FIND_PREDECESSOR"
    /\ t.type \in {"RX_ACK", "RX_PREDECESSOR"} => \E m \in Sent(r) : RequestOf(m, r.id, t)

\* A node that stabilizes, or is going to.
Busy(s) == s.updateTimers > 0 \/ \E t \in s.timers : t.type = "RX_PREDECESSOR"

\* r is what a handler makes of s: it knows and names only nodes of B, and every
\* new timer is for a request it has just sent with the identifier mid.
Lives(r, s, mid, B) ==
    /\ r \in NodeState /\ r.id = s.id /\ r.state = s.state
    /\ Knows(r, B)
    /\ \A m \in Sent(s) : m \in Sent(r)
    /\ \A m \in Sent(r) : m \in Sent(s) \/ Speaks(m, B)
    /\ \A t \in r.timers : t \in s.timers \/ PassedOn(t, r.id) \/ Begun(t, r, mid)
    /\ \A t, u \in r.timers : /\ t \notin s.timers /\ u \notin s.timers
                              /\ Begun(t, r, mid) /\ Begun(u, r, mid)
                              /\ t.type = "RX_ACK" /\ u.type = "RX_ACK"
                              => t = u
    /\ s.successor # s.id => r.successor # r.id
    /\ Busy(r) => Busy(s) \/ r.successor # r.id
    /\ s.seedAddrs # <<>> => r.seedAddrs # <<>>

\* r neither asks nor says anything.
Plain(r, s, B) ==
    /\ r \in NodeState /\ r.id = s.id /\ r.state = s.state
    /\ Knows(r, B)
    /\ r.tx = s.tx /\ r.timers \subseteq s.timers
    /\ s.successor # s.id => r.successor # r.id
    /\ r.updateTimers > 0 => s.updateTimers > 0 \/ r.successor # r.id
    /\ s.seedAddrs # <<>> => r.seedAddrs # <<>>

\* A step that neither asks nor says anything is a step of a started node.
LEMMA PlainLives ==
    ASSUME NEW B, NEW s, NEW r, Plain(r, s, B), NEW mid
    PROVE  Lives(r, s, mid, B)
BY DEF Plain, Lives, Sent, Busy

\* One handler calls another, and one of them asks for nothing.
LEMMA LivesIsTransitive ==
    ASSUME NEW B, NEW mid, NEW q, NEW r, NEW s, Lives(q, r, mid, B), Lives(r, s, mid, B),
           r.timers \subseteq s.timers \/ q.timers \subseteq r.timers
    PROVE  Lives(q, s, mid, B)
  <1>1. ASSUME NEW t \in q.timers PROVE t \in s.timers \/ PassedOn(t, q.id) \/ Begun(t, q, mid)
    <2>1. CASE r.timers \subseteq s.timers
        BY <2>1 DEF Lives
    <2>2. CASE q.timers \subseteq r.timers
        BY <2>2 DEF Lives, Begun
    <2> QED
        BY <2>1, <2>2
  <1>2. ASSUME NEW t \in q.timers, NEW u \in q.timers, t \notin s.timers, u \notin s.timers,
               Begun(t, q, mid), Begun(u, q, mid), t.type = "RX_ACK", u.type = "RX_ACK"
        PROVE  t = u
    <2>1. CASE r.timers \subseteq s.timers
        BY <1>2, <2>1 DEF Lives
    <2>2. CASE q.timers \subseteq r.timers
      <3>1. t \in r.timers /\ u \in r.timers
          BY <2>2
      <3>2. Begun(t, r, mid) /\ Begun(u, r, mid)
          BY <1>2, <3>1 DEF Lives, PassedOn, Begun
      <3> QED
          BY <1>2, <3>1, <3>2 DEF Lives
    <2> QED
        BY <2>1, <2>2
  <1> QED
      BY <1>1, <1>2 DEF Lives

\* What sendMessage does.
LEMMA SendIs ==
    ASSUME NEW s \in NodeState, NEW m \in Message
    PROVE  /\ m.dest = s.id => sendMessage(s, m) = s
           /\ m.dest # s.id => /\ sendMessage(s, m) = [s EXCEPT !.tx = Append(@, m)]
                               /\ Sent(sendMessage(s, m)) = Sent(s) \cup {m}
           /\ sendMessage(s, m) \in NodeState
           /\ sendMessage(s, m) = [s EXCEPT !.tx = sendMessage(s, m).tx]
  <1>1. s.tx \in Seq(Message) /\ Len(s.tx) \in Nat
      BY DEF NodeState
  <1>2. CASE m.dest = s.id
    <2>1. sendMessage(s, m) = s
        BY <1>2 DEF sendMessage
    <2> QED
        BY <1>2, <2>1 DEF NodeState
  <1>3. CASE m.dest # s.id
    <2> DEFINE sent == Append(s.tx, m)
    <2>1. /\ sent \in Seq(Message) /\ Len(sent) = Len(s.tx) + 1 /\ sent[Len(s.tx) + 1] = m
          /\ \A k \in 1 .. Len(s.tx) : sent[k] = s.tx[k]
        BY <1>1
    <2> HIDE DEF sent
    <2>2. {sent[k] : k \in 1 .. Len(sent)} = {s.tx[k] : k \in 1 .. Len(s.tx)} \cup {m}
      <3>1. \A k \in 1 .. Len(sent) : k \in 1 .. Len(s.tx) \/ k = Len(s.tx) + 1
          BY <1>1, <2>1
      <3>2. \A k \in 1 .. Len(s.tx) : k \in 1 .. Len(sent)
          BY <1>1, <2>1
      <3>3. Len(s.tx) + 1 \in 1 .. Len(sent)
          BY <1>1, <2>1
      <3> QED
          BY <2>1, <3>1, <3>2, <3>3
    <2>3. sendMessage(s, m) = [s EXCEPT !.tx = sent] /\ sent = Append(s.tx, m)
        BY <1>3 DEF sendMessage, sent
    <2>4. sendMessage(s, m) \in NodeState /\ sendMessage(s, m).tx = sent
        BY <2>1, <2>3 DEF NodeState
    <2>5. Sent(sendMessage(s, m)) = Sent(s) \cup {m}
        BY <2>2, <2>4 DEF Sent
    <2> QED
        BY <1>3, <2>3, <2>4, <2>5
  <1> QED
      BY <1>2, <1>3

\* Saying something.
LEMMA SendLives ==
    ASSUME NEW B, NEW s \in NodeState, Knows(s, B), NEW m \in Message, NEW mid,
           m.dest = s.id \/ Speaks(m, B)
    PROVE  LET r == sendMessage(s, m)
           IN  Lives(r, s, mid, B) /\ r.timers = s.timers /\ Knows(r, B)
  <1> DEFINE r  == sendMessage(s, m)
             tx == r.tx
  <1>1. r \in NodeState /\ r = [s EXCEPT !.tx = tx]
      BY SendIs
  <1>2. Sent(r) = Sent(s) \/ (m.dest # s.id /\ Sent(r) = Sent(s) \cup {m})
      BY SendIs
  <1> HIDE DEF tx, r
  <1>3. /\ r.id = s.id /\ r.state = s.state /\ r.timers = s.timers /\ r.predecessor = s.predecessor
        /\ r.successor = s.successor /\ r.cwFingers = s.cwFingers /\ r.seedAddrs = s.seedAddrs
        /\ r.updateTimers = s.updateTimers
      BY <1>1 DEF NodeState
  <1>4. Knows(r, B)
      BY <1>3 DEF Knows
  <1>5. Lives(r, s, mid, B)
      BY <1>1, <1>2, <1>3, <1>4 DEF Lives, Busy
  <1> QED
      BY <1>3, <1>4, <1>5 DEF r

\* Asking for something.
LEMMA AskLives ==
    ASSUME NEW B, NEW s \in NodeState, Knows(s, B), NEW m \in Message, NEW mid,
           Speaks(m, B), m.src = s.id, m.initiator = s.id, m.messageID = mid,
           m.retransmitCounter = 0,
           NEW types \in SUBSET TimerType, NEW k \in 0 .. CtxJoin,
           "RX_PREDECESSOR" \in types => m.type = "FIND_PREDECESSOR" /\ s.successor # s.id,
           m.type \in {"JOIN", "FIND_SUCCESSOR", "FIND_PREDECESSOR", "NOTIFY"}
    PROVE  Lives(pushTimers(sendMessage(s, m), types, m, k), s, mid, B)
  <1> DEFINE sent == sendMessage(s, m)
             new  == {TimerFor(type, m, k) : type \in types}
             r    == pushTimers(sent, types, m, k)
             timers == sent.timers \cup new
  <1>1. m.dest # s.id
      BY DEF Speaks
  <1>2. /\ sent \in NodeState /\ Lives(sent, s, mid, B) /\ sent.timers = s.timers /\ Knows(sent, B)
        /\ Sent(sent) = Sent(s) \cup {m}
      BY <1>1, SendIs, SendLives
  <1>3. sent.successor = s.successor /\ sent.updateTimers = s.updateTimers /\ sent.id = s.id
        /\ sent.seedAddrs = s.seedAddrs
    <2>1. sent = [s EXCEPT !.tx = sent.tx]
        BY SendIs
    <2> HIDE DEF sent
    <2> DEFINE tx == sent.tx
    <2>2. sent = [s EXCEPT !.tx = tx]
        BY <2>1
    <2> HIDE DEF tx
    <2> QED
        BY <2>2 DEF NodeState
  <1>4. new \in SUBSET Timer
      BY DEF TimerFor, Timer, Message
  <1>5. r = [sent EXCEPT !.timers = timers]
      BY DEF pushTimers
  <1>6. \A t \in new : /\ t.type \in types /\ t.retryMess = m.type /\ t.messageID = mid
                       /\ t.retransmitCounter = 0
      BY DEF TimerFor
  <1>7. \A t, u \in new : t.type = "RX_ACK" /\ u.type = "RX_ACK" => t = u
      BY DEF TimerFor
  <1> HIDE DEF new, sent, r
  <1>8. /\ r \in NodeState /\ r.timers = sent.timers \cup new /\ r.id = sent.id
        /\ r.state = sent.state /\ r.tx = sent.tx /\ r.predecessor = sent.predecessor
        /\ r.successor = sent.successor /\ r.cwFingers = sent.cwFingers
        /\ r.seedAddrs = sent.seedAddrs /\ r.updateTimers = sent.updateTimers
      BY <1>2, <1>4, <1>5 DEF NodeState
  <1>9. Sent(r) = Sent(sent) /\ Knows(r, B)
      BY <1>2, <1>8 DEF Sent, Knows
  <1>10. \A t \in new : Begun(t, r, mid)
      BY <1>2, <1>3, <1>6, <1>8, <1>9 DEF Begun, RequestOf
  <1>11. Busy(r) => Busy(s) \/ r.successor # r.id
      BY <1>2, <1>3, <1>6, <1>8 DEF Busy
  <1>12. r.timers = s.timers \cup new
      BY <1>2, <1>8
  <1>13. \A x \in Sent(r) : x \in Sent(s) \/ Speaks(x, B)
      BY <1>2, <1>9
  <1>14. r.state = s.state
      BY <1>2, <1>8 DEF Lives
  <1> QED
      BY <1>2, <1>3, <1>7, <1>8, <1>9, <1>10, <1>11, <1>12, <1>13, <1>14 DEF Lives, r, sent

-----------------------------------------------------------------------------
(* What the methods make of a node that knows only nodes of B. *)

\* Timers dropped, the lock released, the next task chosen.
LEMMA ReleasesPlain ==
    ASSUME NEW B, NEW s \in NodeState, Knows(s, B), NEW r \in NodeState,
           r.id = s.id, r.state = s.state, r.tx = s.tx, r.timers \subseteq s.timers,
           r.predecessor = s.predecessor, r.successor = s.successor, r.cwFingers = s.cwFingers,
           r.seedAddrs = s.seedAddrs, r.updateTimers = s.updateTimers
    PROVE  Plain(r, s, B)
BY DEF Plain, Knows

\* Pointers set to a node of B.
LEMMA PointersPlain ==
    ASSUME NEW B, NEW s \in NodeState, Knows(s, B), NEW r \in NodeState, NEW a \in B,
           r.id = s.id, r.state = s.state, r.tx = s.tx, r.timers \subseteq s.timers,
           r.predecessor \in {s.predecessor, a}, r.successor \in {s.successor, a},
           \A i \in FingerIndex : r.cwFingers[i] \in {s.cwFingers[i], a},
           r.successor = s.successor \/ a # s.id,
           r.seedAddrs = s.seedAddrs, r.updateTimers = s.updateTimers
    PROVE  Plain(r, s, B)
  <1>1. Knows(r, B)
      BY DEF Knows
  <1>2. r.successor # s.successor => r.successor # r.id
      OBVIOUS
  <1> QED
      BY <1>1, <1>2 DEF Plain

\* The setters of the pointers are plain steps when they are given a started node.
LEMMA SetPredecessorPlain ==
    ASSUME NEW B, NEW s \in NodeState, Knows(s, B), NEW a \in B, a \in Node
    PROVE  Plain(setPredecessor(s, a), s, B)
  <1> DEFINE r == setPredecessor(s, a)
  <1>1. /\ r \in NodeState /\ r.id = s.id /\ r.state = s.state /\ r.tx = s.tx
        /\ r.timers = s.timers /\ r.predecessor \in {s.predecessor, a}
        /\ r.successor = s.successor /\ r.cwFingers = s.cwFingers
        /\ r.seedAddrs = s.seedAddrs /\ r.updateTimers = s.updateTimers
      BY DEF setPredecessor, NodeState
  <1> HIDE DEF r
  <1>2. Plain(r, s, B)
      BY <1>1, PointersPlain
  <1> QED
      BY <1>2 DEF r

\* The same for the successor.
LEMMA SetSuccessorPlain ==
    ASSUME NEW B, NEW I, NEW s, Sound(s, I), Knows(s, B), NEW a \in B, a \in Node, a # s.id,
           NEW mid, mid \notin I \/ ~s.isSuccessorSet
    PROVE  Plain(setSuccessorRemoveTimers(s, a, mid), s, B)
  <1> DEFINE r == setSuccessorRemoveTimers(s, a, mid)
  <1>1. r \in NodeState
      BY SetSuccessorFollows DEF Follows, Sound
  <1>2. /\ r.id = s.id /\ r.state = s.state /\ r.tx = s.tx
        /\ r.timers \subseteq s.timers /\ r.predecessor = s.predecessor
        /\ r.successor = a /\ r.seedAddrs = s.seedAddrs /\ r.updateTimers = s.updateTimers
      BY DEF setSuccessorRemoveTimers, removeTimers, TimersOf, Sound, NodeState
  <1>3. r.cwFingers = [s.cwFingers EXCEPT ![0] = a]
      BY DEF setSuccessorRemoveTimers, removeTimers, TimersOf, Sound, NodeState
  <1> HIDE DEF r
  <1>4. \A i \in FingerIndex : r.cwFingers[i] \in {s.cwFingers[i], a}
      BY <1>3 DEF Sound, NodeState
  <1>5. Plain(r, s, B)
      BY <1>1, <1>2, <1>4, PointersPlain DEF Sound
  <1> QED
      BY <1>5 DEF r

\* The same for the successor a stabilize finds.
LEMMA SetSuccessorStabilizePlain ==
    ASSUME NEW B, NEW I, NEW s, Sound(s, I), Knows(s, B), NEW a \in B, a \in Node, NEW mid
    PROVE  Plain(setSuccessorStabilize(s, a, mid), s, B)
  <1> DEFINE r == setSuccessorStabilize(s, a, mid)
  <1>1. r \in NodeState
      BY SetSuccessorStabilizeKeeps DEF Keeps, Sound
  <1>2. /\ r.id = s.id /\ r.state = s.state /\ r.tx = s.tx
        /\ r.timers \subseteq s.timers /\ r.predecessor = s.predecessor
        /\ r.seedAddrs = s.seedAddrs /\ r.updateTimers = s.updateTimers
      BY DEF setSuccessorStabilize, removeTimers, TimersOf, Sound, NodeState
  <1>3. \/ r.cwFingers = s.cwFingers /\ r.successor = s.successor
        \/ /\ isInRangeOverZeroNotInc(a, s.id, s.successor)
           /\ r.cwFingers = [s.cwFingers EXCEPT ![0] = a] /\ r.successor = a
      BY DEF setSuccessorStabilize, removeTimers, TimersOf, Sound, NodeState
  <1>4. isInRangeOverZeroNotInc(a, s.id, s.successor) => a # s.id
    <2>1. a \in IdSpace /\ s.id \in IdSpace /\ s.successor \in IdSpace
        BY NodeAssumption DEF Sound, NodeState
    <2> QED
        BY <2>1, MaxAssumption DEF isInRangeOverZeroNotInc, IdSpace
  <1> HIDE DEF r
  <1>5. \A i \in FingerIndex : r.cwFingers[i] \in {s.cwFingers[i], a}
      BY <1>3 DEF Sound, NodeState
  <1>6. Plain(r, s, B)
      BY <1>1, <1>2, <1>3, <1>4, <1>5, PointersPlain DEF Sound
  <1> QED
      BY <1>6 DEF r

\* The same for a finger that is fixed.
LEMMA SetFingerPlain ==
    ASSUME NEW B, NEW s \in NodeState, Knows(s, B), NEW a \in B, a \in Node, NEW mid
    PROVE  Plain(setFingerRemoveTimers(s, a, mid), s, B)
  <1> DEFINE r == setFingerRemoveTimers(s, a, mid)
             i == s.cwFingerIndex
  <1>1. CASE i \notin FingerIndex
    <2>1. r = s
        BY <1>1 DEF setFingerRemoveTimers
    <2> HIDE DEF r
    <2>2. Plain(r, s, B)
        BY <2>1 DEF Plain
    <2> QED
        BY <2>2 DEF r
  <1>2. CASE i \in FingerIndex
    <2>1. r \in NodeState
        BY <1>2 DEF setFingerRemoveTimers, removeTimers, TimersOf, NodeState
    <2>2. /\ r.id = s.id /\ r.state = s.state /\ r.tx = s.tx
          /\ r.timers \subseteq s.timers /\ r.predecessor = s.predecessor
          /\ r.successor = s.successor \/ (r.successor = a /\ a # s.id)
          /\ r.seedAddrs = s.seedAddrs /\ r.updateTimers = s.updateTimers
          /\ r.cwFingers = [s.cwFingers EXCEPT ![i] = a]
        BY <1>2 DEF setFingerRemoveTimers, removeTimers, TimersOf, NodeState
    <2> HIDE DEF r
    <2>3. \A j \in FingerIndex : r.cwFingers[j] \in {s.cwFingers[j], a}
        BY <2>2 DEF NodeState
    <2>4. Plain(r, s, B)
      <3>1. CASE r.successor = s.successor
        <4>1. Knows(r, B)
            BY <2>2, <2>3, <3>1 DEF Knows
        <4> QED
            BY <2>1, <2>2, <3>1, <4>1 DEF Plain
      <3>2. CASE r.successor # s.successor
          BY <2>1, <2>2, <2>3, <3>2, PointersPlain
      <3> QED
          BY <3>1, <3>2
    <2> QED
        BY <2>4 DEF r
  <1> QED
      BY <1>1, <1>2

\* The next finger to fix is no pointer, and its copy is of one the node has.
LEMMA SetNextFingerPlain ==
    ASSUME NEW B, NEW I, NEW s, Sound(s, I), Knows(s, B)
    PROVE  Plain(setNextFingerToUpdate(s), s, B)
  <1> DEFINE r == setNextFingerToUpdate(s)
  <1>1. r \in NodeState
      BY SetNextFingerToUpdateFollows DEF Follows, Sound
  <1>2. /\ r.id = s.id /\ r.state = s.state /\ r.tx = s.tx /\ r.timers = s.timers
        /\ r.predecessor = s.predecessor /\ r.successor = s.successor
        /\ r.cwFingers = s.cwFingers /\ r.seedAddrs = s.seedAddrs
        /\ r.updateTimers = s.updateTimers
      BY DEF setNextFingerToUpdate, Sound, NodeState
  <1> HIDE DEF r
  <1>3. Plain(r, s, B)
      BY <1>1, <1>2, ReleasesPlain DEF Sound
  <1> QED
      BY <1>3 DEF r

-----------------------------------------------------------------------------
(* The handlers of requests. *)

\* r acknowledges request m.
Acks(r, m) == \E a \in Sent(r) :
    /\ a.type = "ACK" /\ a.dest = m.src
    /\ a.messageID = m.messageID /\ a.retransmitCounter = 0

\* The ACK for a request goes to who sent it.
LEMMA AckLives ==
    ASSUME NEW B, B \in SUBSET Node, NEW s \in NodeState, Knows(s, B), NEW m \in Message,
           Speaks(m, B), m.dest = s.id, NEW mid
    PROVE  LET r == sendMessage(s, createAckMessage(s, m))
           IN  /\ Lives(r, s, mid, B) /\ Knows(r, B) /\ Acks(r, m)
               /\ r.timers = s.timers
  <1> DEFINE ack == createAckMessage(s, m)
             r   == sendMessage(s, ack)
  <1>1. /\ s.id \in Node /\ s.id \in IdSpace /\ m.src \in Node /\ m.messageID \in MessageID
        /\ s.id \in B /\ m.src \in B /\ m.src # s.id
      BY NodeAssumption DEF NodeState, Message, Speaks, Knows
  <1>2. /\ ack \in Message /\ ack.type = "ACK" /\ ack.src = s.id /\ ack.dest = m.src
        /\ ack.initiator = s.id /\ ack.service = s.id /\ ack.messageID = m.messageID
        /\ ack.retransmitCounter = 0
      BY <1>1 DEF createAckMessage, createMessage, Message, MessageType
  <1> HIDE DEF ack
  <1>3. Speaks(ack, B)
      BY <1>1, <1>2 DEF Speaks
  <1>4. /\ Lives(r, s, mid, B) /\ r.timers = s.timers /\ Knows(r, B)
        /\ Sent(r) = Sent(s) \cup {ack}
      BY <1>1, <1>2, <1>3, SendIs, SendLives
  <1> HIDE DEF r
  <1>5. Acks(r, m)
      BY <1>2, <1>4 DEF Acks
  <1> QED
      BY <1>4, <1>5 DEF r, ack

\* A lookup ends with a node the node knows.
LEMMA FindSuccessorKnown ==
    ASSUME NEW B, NEW s \in NodeState, Knows(s, B), NEW key, NEW sender, NEW initiator,
           NEW isJoin
    PROVE  findSuccessor(s, key, sender, initiator, isJoin).found \in B
  <1> DEFINE others    == {i \in FingerIndex : s.cwFingers[i] \notin {sender, initiator, s.id}}
             preceding == {i \in others : isInRangeOverZero(s.cwFingers[i], s.id, key)}
  <1>1. preceding # {} => s.cwFingers[highest(preceding)] \in B
    <2>1. preceding \subseteq FingerIndex
        OBVIOUS
    <2> HIDE DEF preceding
    <2>2. preceding # {} => highest(preceding) \in FingerIndex
        BY <2>1, HighestLowest
    <2> QED
        BY <2>2 DEF Knows
  <1>2. others # {} => s.cwFingers[lowest(others)] \in B
    <2>1. others \subseteq FingerIndex
        OBVIOUS
    <2> HIDE DEF others
    <2>2. others # {} => lowest(others) \in FingerIndex
        BY <2>1, HighestLowest
    <2> QED
        BY <2>2 DEF Knows
  <1>3. s.id \in B /\ s.predecessor \in B /\ s.successor \in B
      BY DEF Knows
  <1> QED
      BY <1>1, <1>2, <1>3 DEF findSuccessor

\* Passing a request on.
LEMMA ForwardLives ==
    ASSUME NEW B, B \in SUBSET Node, NEW s \in NodeState, Knows(s, B), NEW m \in Message,
           Speaks(m, B), m.messageID \notin OwnID(s.id), NEW addr \in B, NEW mid
    PROVE  LET r == forwardFindSuccessor(s, m, addr)
           IN  Lives(r, s, mid, B) /\ Sent(s) \subseteq Sent(r)
  <1> DEFINE fwd == [m EXCEPT !.type = "FIND_SUCCESSOR", !.src = s.id, !.dest = addr,
                              !.service = s.id, !.retransmitCounter = @ + 1]
             dropped == [s EXCEPT !.isNowUpdate = FALSE]
             sent    == sendMessage(s, fwd)
             t       == TimerFor("RX_ACK", fwd, 0)
             r       == pushTimers(sent, {"RX_ACK"}, fwd, 0)
  <1>1. /\ s.id \in Node /\ s.id \in B /\ addr \in Node /\ m.retransmitCounter \in Nat
        /\ m.retransmitCounter + 1 \in Nat /\ m.retransmitCounter + 1 # 0
      BY DEF NodeState, Message, Knows
  <1>2. CASE addr = s.id
    <2>1. /\ dropped \in NodeState /\ dropped.id = s.id /\ dropped.state = s.state
          /\ dropped.tx = s.tx /\ dropped.timers = s.timers
          /\ dropped.predecessor = s.predecessor /\ dropped.successor = s.successor
          /\ dropped.cwFingers = s.cwFingers /\ dropped.seedAddrs = s.seedAddrs
          /\ dropped.updateTimers = s.updateTimers
        BY DEF NodeState
    <2> HIDE DEF dropped
    <2>2. Plain(dropped, s, B)
        BY <2>1, ReleasesPlain
    <2>3. Lives(dropped, s, mid, B) /\ Sent(s) \subseteq Sent(dropped)
        BY <2>1, <2>2, PlainLives DEF Sent
    <2> QED
        BY <1>2, <2>3 DEF forwardFindSuccessor, dropped
  <1>3. CASE addr # s.id
    <2>1. /\ fwd \in Message /\ fwd.type = "FIND_SUCCESSOR" /\ fwd.src = s.id /\ fwd.dest = addr
          /\ fwd.service = s.id /\ fwd.initiator = m.initiator /\ fwd.messageID = m.messageID
          /\ fwd.retransmitCounter = m.retransmitCounter + 1
        BY <1>1 DEF Message, MessageType
    <2> HIDE DEF fwd
    <2>2. Speaks(fwd, B)
        BY <1>1, <1>3, <2>1 DEF Speaks
    <2>3. /\ Lives(sent, s, mid, B) /\ sent \in NodeState /\ Knows(sent, B)
          /\ sent.timers = s.timers
          /\ Sent(s) \subseteq Sent(sent)
        BY <1>3, <2>1, <2>2, SendIs, SendLives
    <2>4. /\ t \in Timer /\ PassedOn(t, s.id) /\ t.type # "RX_PREDECESSOR"
        BY <1>1, <2>1, SeedAssumption DEF t, TimerFor, Timer, TimerType, Message, PassedOn
    <2> HIDE DEF sent, t
    <2>5. r = [sent EXCEPT !.timers = @ \cup {t}]
        BY DEF r, pushTimers, t
    <2> HIDE DEF r
    <2>6. /\ r \in NodeState /\ r.timers = sent.timers \cup {t} /\ r.id = sent.id
          /\ r.state = sent.state /\ r.tx = sent.tx /\ r.predecessor = sent.predecessor
          /\ r.successor = sent.successor /\ r.cwFingers = sent.cwFingers
          /\ r.seedAddrs = sent.seedAddrs /\ r.updateTimers = sent.updateTimers
        BY <2>3, <2>4, <2>5 DEF NodeState
    <2>7. Sent(r) = Sent(sent) /\ Knows(r, B)
        BY <2>3, <2>6 DEF Sent, Knows
    <2>8. Busy(r) => Busy(sent)
        BY <2>4, <2>6 DEF Busy
    <2>9. ~Begun(t, r, mid) /\ r.id = s.id
        BY <2>3, <2>4, <2>6 DEF Begun, PassedOn, Lives
    <2>10. Lives(r, s, mid, B)
        BY <2>3, <2>4, <2>6, <2>7, <2>8, <2>9 DEF Lives
    <2>11. forwardFindSuccessor(s, m, addr) = r
        BY <1>3 DEF forwardFindSuccessor, r, sent, fwd
    <2> QED
        BY <2>3, <2>7, <2>10, <2>11
  <1> QED
      BY <1>2, <1>3

\* Taking in a newcomer.
LEMMA AdoptJoinerPlain ==
    ASSUME NEW B, B \in SUBSET Node, NEW I, NEW s, Sound(s, I), Knows(s, B), NEW m \in Message,
           m.messageID \notin I, m.initiator \in B, m.initiator # s.id
    PROVE  LET r == adoptJoiner(s, m)
           IN  Plain(r, s, B) /\ r.successor # r.id
  <1> DEFINE r == adoptJoiner(s, m)
             cleared == [s EXCEPT !.isNowStabilize = FALSE]
             adopted == setPredecessor(cleared, m.initiator)
  <1>1. r \in NodeState
      BY AdoptJoinerFollows DEF Follows, Sound
  <1>2. /\ r.id = s.id /\ r.state = s.state /\ r.tx = s.tx /\ r.timers \subseteq s.timers
        /\ r.predecessor \in {s.predecessor, m.initiator}
        /\ IF s.successor = s.id THEN r.successor = m.initiator ELSE r.successor = s.successor
        /\ r.cwFingers = s.cwFingers \/ r.cwFingers = [s.cwFingers EXCEPT ![0] = m.initiator]
        /\ r.seedAddrs = s.seedAddrs /\ r.updateTimers = s.updateTimers
      BY DEF adoptJoiner, setPredecessor, setSuccessorRemoveTimers, removeTimers, TimersOf,
             Sound, NodeState
  <1> HIDE DEF r
  <1>3. \A i \in FingerIndex : r.cwFingers[i] \in {s.cwFingers[i], m.initiator}
      BY <1>2 DEF Sound, NodeState
  <1>4. Plain(r, s, B)
      BY <1>1, <1>2, <1>3, PointersPlain DEF Sound
  <1> QED
      BY <1>2, <1>4 DEF r

\* Answering a request.
LEMMA ReplyLives ==
    ASSUME NEW B, B \in SUBSET Node, NEW I, NEW s, Sound(s, I), Knows(s, B), NEW m \in Message,
           m.messageID \notin I, Speaks(m, B), m.initiator # s.id, NEW addr \in B, NEW mid
    PROVE  LET r == replyFindSuccessor(s, m, addr)
           IN  /\ Lives(r, s, mid, B) /\ Sent(s) \subseteq Sent(r)
               /\ m.isJoin => r.successor # r.id
  <1> DEFINE reply   == createSuccessorMessage(s, m, addr)
             replied == sendMessage(s, reply)
             adopted == adoptJoiner(replied, m)
  <1>1. /\ s \in NodeState /\ s.id \in Node /\ s.id \in B /\ addr \in Node /\ addr \in IdSpace
        /\ m.initiator \in Node /\ m.initiator \in B /\ m.messageID \in MessageID
        /\ s.predecessor \in Node /\ s.predecessor \in B
      BY NodeAssumption DEF Sound, NodeState, Message, Knows, Speaks
  <1>2. /\ reply \in Message /\ reply.type = "SUCCESSOR" /\ reply.searched = addr
        /\ reply.src = s.id /\ reply.dest = m.initiator /\ reply.initiator = s.id
        /\ reply.service = s.predecessor
      BY <1>1 DEF createSuccessorMessage, createMessage, Message, MessageType
  <1> HIDE DEF reply
  <1>3. Speaks(reply, B)
      BY <1>1, <1>2 DEF Speaks
  <1>4. /\ Lives(replied, s, mid, B) /\ replied.timers = s.timers /\ Knows(replied, B)
        /\ Sent(s) \subseteq Sent(replied)
      BY <1>1, <1>2, <1>3, SendIs, SendLives
  <1>5. Sound(replied, I) /\ replied.id = s.id
      BY <1>2, SendMessageFollows DEF Follows
  <1> HIDE DEF replied
  <1>6. Plain(adopted, replied, B) /\ adopted.successor # adopted.id
      BY <1>1, <1>4, <1>5, AdoptJoinerPlain
  <1> HIDE DEF adopted
  <1>7. Lives(adopted, s, mid, B) /\ Sent(adopted) = Sent(replied)
    <2>1. Lives(adopted, replied, mid, B) /\ adopted.timers \subseteq replied.timers
        BY <1>6, PlainLives DEF Plain
    <2>2. Lives(adopted, s, mid, B)
        BY <1>4, <2>1, LivesIsTransitive
    <2> QED
        BY <1>6, <2>2 DEF Plain, Sent
  <1>8. replyFindSuccessor(s, m, addr) = IF m.isJoin THEN adopted ELSE replied
      BY DEF replyFindSuccessor, adopted, replied, reply
  <1> QED
      BY <1>4, <1>6, <1>7, <1>8

\* A node that has answered a JOIN knows another.
LEMMA JoinReply ==
    ASSUME NEW B, B \in SUBSET Node, NEW I, NEW s, Sound(s, I), Knows(s, B), NEW m \in Message,
           m.messageID \notin I, Speaks(m, B), m.initiator # s.id, NEW addr \in B, m.isJoin
    PROVE  replyFindSuccessor(s, m, addr).successor # replyFindSuccessor(s, m, addr).id
  <1> DEFINE r == replyFindSuccessor(s, m, addr)
  <1>1. m.isJoin => r.successor # r.id
      BY ReplyLives
  <1> QED
      BY <1>1

\* goStateService on RX_JOIN and RX_FIND_SUCCESSOR, in a node that has a seed.
LEMMA RxFindSuccessorLives ==
    ASSUME NEW B, B \in SUBSET Node, NEW s, Sound(s, OwnID(s.id)), Knows(s, B),
           NEW m \in Message, IsRequest(m), Speaks(m, B), m.dest = s.id, m.initiator # s.id,
           m.messageID \notin OwnID(s.id), learnSeed(s, m) = s, NEW mid
    PROVE  LET r == rxFindSuccessor(s, m)
           IN  Lives(r, s, mid, B) /\ Acks(r, m)
  <1> DEFINE acked  == sendMessage(s, createAckMessage(s, m))
             lookup == findSuccessor(acked, m.searched, m.src, m.initiator, m.isJoin)
             replied == replyFindSuccessor(acked, m, lookup.found)
             passed  == forwardFindSuccessor(acked, m, lookup.found)
  <1>1. s \in NodeState
      BY DEF Sound
  <1>2. /\ Lives(acked, s, mid, B) /\ Knows(acked, B) /\ Acks(acked, m)
        /\ acked.timers = s.timers
      BY <1>1, AckLives
  <1>3. Sound(acked, OwnID(s.id)) /\ acked.id = s.id /\ acked \in NodeState
      BY AckFollows DEF Follows, Sound
  <1> HIDE DEF acked
  <1>4. lookup.found \in B
      BY <1>2, <1>3, FindSuccessorKnown
  <1> HIDE DEF lookup
  <1>5. Lives(replied, acked, mid, B) /\ Sent(acked) \subseteq Sent(replied)
      BY <1>2, <1>3, <1>4, ReplyLives
  <1>6. Lives(passed, acked, mid, B) /\ Sent(acked) \subseteq Sent(passed)
      BY <1>2, <1>3, <1>4, ForwardLives
  <1>7. rxFindSuccessor(s, m) = IF lookup.action = "REPLY" THEN replied ELSE passed
      BY DEF rxFindSuccessor, acked, lookup
  <1> HIDE DEF replied, passed
  <1>8. Lives(replied, s, mid, B) /\ Lives(passed, s, mid, B)
      BY <1>2, <1>5, <1>6, LivesIsTransitive
  <1>9. Acks(replied, m) /\ Acks(passed, m)
      BY <1>2, <1>5, <1>6 DEF Acks
  <1> QED
      BY <1>7, <1>8, <1>9

\* The same in the first node, which is alone when it takes its first JOIN: it
\* then asks the newcomer from then on.
LEMMA FirstJoinLives ==
    ASSUME NEW B, B \in SUBSET Node, NEW s, Sound(s, OwnID(s.id)), Knows(s, B),
           NEW m \in Message, m.type = "JOIN", m.isJoin, Speaks(m, B), m.dest = s.id,
           m.initiator # s.id, m.messageID \notin OwnID(s.id), s.seedAddrs = <<>>,
           s.predecessor = s.id, s.successor = s.id,
           \A i \in FingerIndex : s.cwFingers[i] = s.id, NEW mid
    PROVE  LET r == rxFindSuccessor(s, m)
           IN  Lives(r, s, mid, B) /\ Acks(r, m) /\ r.seedAddrs # <<>>
  <1> DEFINE u  == learnSeed(s, m)
             r  == rxFindSuccessor(u, m)
             seed == <<m.src>>
  <1>1. u = [s EXCEPT !.seedAddrs = seed, !.updateTimers = @ + 1]
      BY DEF learnSeed, pushUpdateTimer, Sound, NodeState
  <1>2. seed \in Seq(Node) /\ Len(seed) = 1 /\ seed[1] = m.src /\ seed # <<>>
      BY DEF Message
  <1>3. Sound(u, OwnID(s.id)) /\ u \in NodeState
      BY LearnSeedFollows DEF Follows, Sound
  <1> HIDE DEF seed
  <1>4. /\ u.id = s.id /\ u.state = s.state /\ u.tx = s.tx /\ u.timers = s.timers
        /\ u.predecessor = s.id /\ u.successor = s.id /\ u.cwFingers = s.cwFingers
        /\ u.seedAddrs = seed
      BY <1>1 DEF Sound, NodeState
  <1> HIDE DEF u
  <1>5. Knows(u, B) /\ learnSeed(u, m) = u
    <2>1. \A i \in 1 .. Len(seed) : seed[i] = m.src
        BY <1>2
    <2>2. m.src \in B
        BY DEF Speaks
    <2>3. Knows(u, B)
        BY <1>4, <2>1, <2>2 DEF Knows
    <2>4. u.seedAddrs # <<>>
        BY <1>2, <1>4
    <2> QED
        BY <2>3, <2>4 DEF learnSeed
  <1>6. Lives(r, u, mid, B) /\ Acks(r, m)
      BY <1>3, <1>4, <1>5, RxFindSuccessorLives DEF IsRequest
  <1>7. r.successor # r.id
    <2> DEFINE acked == sendMessage(u, createAckMessage(u, m))
               lookup == findSuccessor(acked, m.searched, m.src, m.initiator, m.isJoin)
               replied == replyFindSuccessor(acked, m, lookup.found)
    <2>1. Knows(acked, B) /\ Sound(acked, OwnID(s.id)) /\ acked.id = s.id
        BY <1>3, <1>4, <1>5, AckLives, AckFollows DEF Follows
    <2>2. /\ acked.predecessor = s.id /\ acked.successor = s.id
          /\ \A i \in FingerIndex : acked.cwFingers[i] = s.id
        BY <1>3, <1>4 DEF sendMessage, NodeState
    <2> HIDE DEF acked
    <2>3. lookup.action = "REPLY" /\ lookup.found = s.id
        BY <2>1, <2>2 DEF findSuccessor
    <2> HIDE DEF lookup
    <2>4. lookup.found \in B /\ m.initiator # acked.id /\ m.messageID \notin OwnID(s.id)
        BY <2>1, <2>3 DEF Knows
    <2> DEFINE found == lookup.found
    <2>5. replied.successor # replied.id
      <3> HIDE DEF found
      <3>1. /\ Sound(acked, OwnID(s.id)) /\ Knows(acked, B) /\ m.messageID \notin OwnID(s.id)
            /\ m.initiator # acked.id /\ found \in B
          BY <2>1, <2>4 DEF found
      <3>2. replyFindSuccessor(acked, m, found).successor # replyFindSuccessor(acked, m, found).id
          BY <3>1, JoinReply
      <3> QED
          BY <3>2 DEF found
    <2>6. r = replied
        BY <1>5, <2>3 DEF rxFindSuccessor, acked, lookup
    <2> QED
        BY <2>5, <2>6
  <1>8. rxFindSuccessor(s, m) = r
    <2>1. learnSeed(s, m) = learnSeed(u, m)
        BY <1>5 DEF u
    <2> QED
        BY <2>1 DEF rxFindSuccessor
  <1> HIDE DEF r
  <1>9. Sent(u) = Sent(s)
      BY <1>4 DEF Sent
  <1>10. Lives(r, s, mid, B)
      BY <1>4, <1>6, <1>7, <1>9 DEF Lives
  <1>11. r.seedAddrs # <<>>
      BY <1>2, <1>4, <1>6 DEF Lives
  <1> QED
      BY <1>6, <1>8, <1>10, <1>11

\* goStateService on RX_FIND_PREDECESSOR: the answer follows the ACK.
LEMMA RxFindPredecessorLives ==
    ASSUME NEW B, B \in SUBSET Node, NEW s \in NodeState, Knows(s, B), NEW m \in Message,
           Speaks(m, B), m.dest = s.id, NEW mid
    PROVE  LET r == rxFindPredecessor(s, m)
           IN  /\ Lives(r, s, mid, B) /\ Acks(r, m)
               /\ m.initiator # s.id =>
                      \E a \in Sent(r) : /\ a.type = "PREDECESSOR" /\ a.dest = m.initiator
                                         /\ a.messageID = m.messageID /\ a.retransmitCounter = 0
  <1> DEFINE acked == sendMessage(s, createAckMessage(s, m))
             answer == createMessage(s, "PREDECESSOR", m.initiator, m.messageID, s.predecessor)
             r == sendMessage(acked, answer)
  <1>1. /\ Lives(acked, s, mid, B) /\ Knows(acked, B) /\ Acks(acked, m)
        /\ acked.timers = s.timers /\ acked \in NodeState /\ acked.id = s.id
      BY AckLives DEF Lives
  <1>2. /\ s.id \in Node /\ s.id \in B /\ s.predecessor \in Node /\ s.predecessor \in IdSpace
        /\ s.predecessor \in B /\ m.initiator \in Node /\ m.initiator \in B
        /\ m.messageID \in MessageID
      BY NodeAssumption DEF NodeState, Knows, Message, Speaks
  <1>3. /\ answer \in Message /\ answer.type = "PREDECESSOR" /\ answer.src = s.id
        /\ answer.dest = m.initiator /\ answer.initiator = s.id /\ answer.service = s.id
        /\ answer.searched = s.predecessor /\ answer.messageID = m.messageID
        /\ answer.retransmitCounter = 0
      BY <1>2 DEF createMessage, Message, MessageType
  <1> HIDE DEF acked, answer
  <1>4. answer.dest = acked.id \/ Speaks(answer, B)
      BY <1>1, <1>2, <1>3 DEF Speaks
  <1>5. /\ Lives(r, acked, mid, B) /\ r.timers = acked.timers
        /\ answer.dest # acked.id => Sent(r) = Sent(acked) \cup {answer}
        /\ Sent(acked) \subseteq Sent(r)
      BY <1>1, <1>3, <1>4, SendIs, SendLives
  <1>6. rxFindPredecessor(s, m) = r
      BY DEF rxFindPredecessor, acked, answer
  <1> HIDE DEF r
  <1>7. Lives(r, s, mid, B)
      BY <1>1, <1>5, LivesIsTransitive
  <1>8. Acks(r, m)
      BY <1>1, <1>5 DEF Acks
  <1> QED
      BY <1>1, <1>3, <1>5, <1>6, <1>7, <1>8

\* goStateUpdate on RX_NOTIFY.
LEMMA RxNotifyLives ==
    ASSUME NEW B, B \in SUBSET Node, NEW s \in NodeState, Knows(s, B), NEW m \in Message,
           Speaks(m, B), m.dest = s.id, m.searched \in B, NEW mid
    PROVE  LET r == rxNotify(s, m)
           IN  Lives(r, s, mid, B) /\ Acks(r, m)
  <1> DEFINE acked == sendMessage(s, createAckMessage(s, m))
             r == setPredecessor(acked, m.searched)
  <1>1. /\ Lives(acked, s, mid, B) /\ Knows(acked, B) /\ Acks(acked, m)
        /\ acked.timers = s.timers /\ acked \in NodeState
      BY AckLives DEF Lives
  <1> HIDE DEF acked
  <1>2. Plain(r, acked, B)
      BY <1>1, SetPredecessorPlain
  <1>3. rxNotify(s, m) = r
      BY DEF rxNotify, acked
  <1> HIDE DEF r
  <1>4. Lives(r, acked, mid, B) /\ Sent(r) = Sent(acked)
      BY <1>2, PlainLives DEF Plain, Sent
  <1>5. Lives(r, s, mid, B)
      BY <1>1, <1>4, LivesIsTransitive
  <1>6. Acks(r, m)
      BY <1>1, <1>4 DEF Acks
  <1> QED
      BY <1>3, <1>5, <1>6

-----------------------------------------------------------------------------
(* The handlers of answers. *)

\* Plain steps compose.
LEMMA PlainIsTransitive ==
    ASSUME NEW B, NEW q, NEW r, NEW s, Plain(q, r, B), Plain(r, s, B)
    PROVE  Plain(q, s, B)
BY DEF Plain

\* goStateJoin on RX_SUCCESSOR.
LEMMA JoinAnsweredPlain ==
    ASSUME NEW B, B \in SUBSET Node, NEW I, NEW s, Sound(s, I), Knows(s, B), NEW m \in Message,
           m.searched \in B, m.service \in B, m.searched # s.id, ~s.isSuccessorSet,
           ConfSeed[s.id] # <<>>
    PROVE  Plain(joinAnswered(s, m), s, B)
  <1> DEFINE known  == setPredecessor(s, m.service)
             placed == setSuccessorRemoveTimers(known, m.searched, m.messageID)
             next   == setNextFingerToUpdate(placed)
             r      == pushUpdateTimer(next)
  <1>1. Plain(known, s, B) /\ Sound(known, I) /\ ~known.isSuccessorSet
    <2>1. m.service \in Node /\ s \in NodeState
        BY DEF Message, Sound
    <2>2. ~known.isSuccessorSet
        BY <2>1 DEF setPredecessor, NodeState
    <2> QED
        BY <2>1, <2>2, SetPredecessorPlain, SetPredecessorFollows DEF Follows
  <1> HIDE DEF known
  <1>2. Plain(placed, known, B) /\ Sound(placed, I) /\ placed.successor = m.searched
    <2>1. m.searched \in Node /\ Knows(known, B) /\ known.id = s.id
        BY <1>1 DEF Plain
    <2>2. placed.successor = m.searched
        BY <1>1 DEF setSuccessorRemoveTimers, removeTimers, Sound, NodeState
    <2> HIDE DEF placed
    <2> QED
        BY <1>1, <2>1, <2>2, SetSuccessorPlain, SetSuccessorFollows DEF Follows, placed
  <1> HIDE DEF placed
  <1>3. Plain(next, placed, B) /\ Sound(next, I)
    <2>1. Knows(placed, B)
        BY <1>2 DEF Plain
    <2> QED
        BY <1>2, <2>1, SetNextFingerPlain, SetNextFingerToUpdateFollows DEF Follows
  <1> HIDE DEF next
  <1>4. Plain(next, s, B)
      BY <1>1, <1>2, <1>3, PlainIsTransitive
  <1>5. placed.id = s.id /\ placed.successor # placed.id
      BY <1>1, <1>2 DEF Plain
  <1>6. next.successor # next.id
      BY <1>3, <1>5 DEF Plain
  <1>7. /\ r \in NodeState /\ r.id = next.id /\ r.state = next.state /\ r.tx = next.tx
        /\ r.timers = next.timers /\ r.predecessor = next.predecessor
        /\ r.successor = next.successor /\ r.cwFingers = next.cwFingers
        /\ r.seedAddrs = next.seedAddrs
    <2>1. next.updateTimers + 1 \in Nat
        BY <1>3 DEF Sound, NodeState
    <2> QED
        BY <1>3, <2>1 DEF pushUpdateTimer, Sound, NodeState
  <1>8. joinAnswered(s, m) = r
      BY DEF joinAnswered, known, placed, next
  <1> HIDE DEF r
  <1>9. Plain(r, s, B)
    <2>1. Knows(r, B)
        BY <1>4, <1>7 DEF Plain, Knows
    <2> QED
        BY <1>4, <1>6, <1>7, <2>1 DEF Plain
  <1> QED
      BY <1>8, <1>9

\* Releasing the lock is a plain step.
LEMMA UnlockedPlain ==
    ASSUME NEW B, NEW s \in NodeState, Knows(s, B)
    PROVE  Plain(unlocked(s), s, B)
  <1> DEFINE r == unlocked(s)
  <1>1. /\ r \in NodeState /\ r.id = s.id /\ r.state = s.state /\ r.tx = s.tx
        /\ r.timers = s.timers /\ r.predecessor = s.predecessor
        /\ r.successor = s.successor /\ r.cwFingers = s.cwFingers
        /\ r.seedAddrs = s.seedAddrs /\ r.updateTimers = s.updateTimers
      BY DEF unlocked, NodeState
  <1> HIDE DEF r
  <1>2. Plain(r, s, B)
      BY <1>1, ReleasesPlain
  <1> QED
      BY <1>2 DEF r

\* goStateUpdate on RX_SUCCESSOR.
LEMMA FingerAnsweredPlain ==
    ASSUME NEW B, B \in SUBSET Node, NEW s \in NodeState, Knows(s, B), NEW m \in Message,
           m.searched \in B
    PROVE  Plain(fingerAnswered(s, m), s, B)
  <1> DEFINE free == unlocked(s)
             r    == setFingerRemoveTimers(free, m.searched, m.messageID)
  <1>1. Plain(free, s, B) /\ free \in NodeState /\ Knows(free, B)
      BY UnlockedPlain DEF Plain
  <1>2. fingerAnswered(s, m) = r
      BY DEF fingerAnswered, unlocked
  <1> HIDE DEF free
  <1>3. Plain(r, free, B)
      BY <1>1, SetFingerPlain
  <1> QED
      BY <1>1, <1>2, <1>3, PlainIsTransitive

\* issueMessagePushTimers(CHORD_TX_NOTIFY), of a node that knows another.
LEMMA IssueNotifyLives ==
    ASSUME NEW B, B \in SUBSET Node, NEW s \in NodeState, Knows(s, B), s.successor # s.id,
           NEW mid \in MessageID
    PROVE  LET r == issueNotify(s, mid)
           IN  /\ Lives(r, s, mid, B)
               /\ \A t \in r.timers : t \in s.timers \/ t.type = "RX_ACK"
  <1> DEFINE notify == createMessage(s, "NOTIFY", s.successor, mid, s.id)
             sent   == sendMessage(s, notify)
             r      == pushTimers(sent, {"RX_ACK"}, notify, 0)
  <1>1. /\ s.id \in Node /\ s.id \in IdSpace /\ s.id \in B /\ s.successor \in Node
        /\ s.successor \in B
      BY NodeAssumption DEF NodeState, Knows
  <1>2. /\ notify \in Message /\ notify.type = "NOTIFY" /\ notify.src = s.id
        /\ notify.dest = s.successor /\ notify.initiator = s.id /\ notify.service = s.id
        /\ notify.messageID = mid /\ notify.retransmitCounter = 0 /\ notify.searched = s.id
      BY <1>1 DEF createMessage, Message, MessageType
  <1> HIDE DEF notify
  <1>3. Speaks(notify, B)
      BY <1>1, <1>2 DEF Speaks
  <1>4. {"RX_ACK"} \in SUBSET TimerType /\ 0 \in 0 .. CtxJoin /\ "RX_PREDECESSOR" \notin {"RX_ACK"}
      BY SeedAssumption DEF TimerType
  <1>5. Lives(r, s, mid, B)
      BY <1>2, <1>3, <1>4, AskLives
  <1>6. sent.timers = s.timers
      BY <1>2, <1>3, SendLives
  <1>7. \A t \in r.timers : t \in sent.timers \/ t.type = "RX_ACK"
    <2>1. sent \in NodeState
        BY <1>2, SendIs
    <2> HIDE DEF sent
    <2> QED
        BY <2>1 DEF pushTimers, TimerFor, NodeState
  <1>8. issueNotify(s, mid) = r
      BY DEF issueNotify, sent, notify
  <1> QED
      BY <1>5, <1>6, <1>7, <1>8

\* goStateUpdate on RX_PREDECESSOR: the timer of the stabilize is gone.
LEMMA RxPredecessorLives ==
    ASSUME NEW B, B \in SUBSET Node, NEW I, NEW s, Sound(s, I), Knows(s, B), NEW m \in Message,
           m.searched \in B, NEW mid \in MessageID, Busy(s) => s.successor # s.id
    PROVE  LET r == rxPredecessor(s, m, mid)
           IN  /\ Lives(r, s, mid, B)
               /\ \A t \in r.timers : ~(/\ t.type = "RX_PREDECESSOR"
                                        /\ t.retryMess = "FIND_PREDECESSOR"
                                        /\ t.messageID = m.messageID)
  <1> DEFINE waits  == TimersOf(s, {"RX_PREDECESSOR"}, "FIND_PREDECESSOR", m.messageID)
             stable == setSuccessorStabilize(s, m.searched, m.messageID)
             next   == setNextFingerToUpdate(stable)
             r      == issueNotify(next, mid)
  <1>1. CASE waits = {}
    <2>1. rxPredecessor(s, m, mid) = s
        BY <1>1 DEF rxPredecessor
    <2>2. Lives(s, s, mid, B)
        BY DEF Lives, Sound
    <2>3. \A t \in s.timers : ~(/\ t.type = "RX_PREDECESSOR"
                                /\ t.retryMess = "FIND_PREDECESSOR"
                                /\ t.messageID = m.messageID)
        BY <1>1 DEF TimersOf
    <2> QED
        BY <2>1, <2>2, <2>3
  <1>2. CASE waits # {}
    <2>1. s.successor # s.id
        BY <1>2 DEF TimersOf, Busy
    <2>2. Plain(stable, s, B) /\ Sound(stable, I)
        BY SetSuccessorStabilizePlain, SetSuccessorStabilizeKeeps DEF Keeps
    <2>3. stable.timers = s.timers \ TimersOf(s, {"RX_ACK", "RX_PREDECESSOR"},
                                              "FIND_PREDECESSOR", m.messageID)
        BY DEF setSuccessorStabilize, removeTimers, TimersOf, Sound, NodeState
    <2> HIDE DEF stable
    <2>4. Plain(next, stable, B) /\ Sound(next, I)
      <3>1. Knows(stable, B)
          BY <2>2 DEF Plain
      <3> QED
          BY <2>2, <3>1, SetNextFingerPlain, SetNextFingerToUpdateFollows DEF Follows
    <2> HIDE DEF next
    <2>5. Plain(next, s, B) /\ next.timers \subseteq stable.timers
        BY <2>2, <2>4, PlainIsTransitive DEF Plain
    <2>6. next \in NodeState /\ Knows(next, B) /\ next.successor # next.id
        BY <2>1, <2>5 DEF Plain
    <2>7. /\ Lives(r, next, mid, B)
          /\ \A t \in r.timers : t \in next.timers \/ t.type = "RX_ACK"
        BY <2>6, IssueNotifyLives
    <2>8. rxPredecessor(s, m, mid) = r
        BY <1>2 DEF rxPredecessor, next, stable
    <2> HIDE DEF r
    <2>9. Lives(next, s, mid, B) /\ next.timers \subseteq s.timers
        BY <2>5, PlainLives DEF Plain
    <2>10. Lives(r, s, mid, B)
        BY <2>7, <2>9, LivesIsTransitive
    <2>11. \A t \in next.timers : ~(/\ t.type = "RX_PREDECESSOR"
                                    /\ t.retryMess = "FIND_PREDECESSOR"
                                    /\ t.messageID = m.messageID)
        BY <2>3, <2>5 DEF TimersOf
    <2> QED
        BY <2>7, <2>8, <2>10, <2>11
  <1> QED
      BY <1>1, <1>2

\* RX_ACK.
LEMMA RxAckPlain ==
    ASSUME NEW B, NEW s \in NodeState, Knows(s, B), NEW t \in s.timers
    PROVE  Plain(rxAck(s, t), s, B) /\ rxAck(s, t).timers = s.timers \ {t}
  <1> DEFINE r == rxAck(s, t)
  <1>1. /\ r \in NodeState /\ r.id = s.id /\ r.state = s.state /\ r.tx = s.tx
        /\ r.timers = s.timers \ {t} /\ r.predecessor = s.predecessor
        /\ r.successor = s.successor /\ r.cwFingers = s.cwFingers
        /\ r.seedAddrs = s.seedAddrs /\ r.updateTimers = s.updateTimers
      BY DEF rxAck, NodeState
  <1> HIDE DEF r
  <1>2. Plain(r, s, B)
      BY <1>1, ReleasesPlain
  <1> QED
      BY <1>1, <1>2 DEF r

-----------------------------------------------------------------------------
(* Received messages. *)

\* The timers of a node's own requests, which never come due, and those of the
\* requests it has passed on are told apart by their identifiers.
Waits(t) == t.type = "RX_PREDECESSOR" \/ (t.type = "RX_ACK" /\ t.retransmitCounter = 0)

Regular(s) ==
    /\ \A t \in s.timers : t.type = "RX_ACK" =>
           IF t.retransmitCounter = 0 THEN t.messageID \in OwnID(s.id) ELSE PassedOn(t, s.id)
    /\ \A t \in s.timers : t.type = "RX_PREDECESSOR" => t.retryMess = "FIND_PREDECESSOR"
    /\ \A t, u \in s.timers :
           /\ t.type = "RX_ACK" /\ t.retransmitCounter = 0
           /\ u.type = "RX_ACK" /\ u.retransmitCounter = 0
           /\ t.messageID = u.messageID
           => t = u

\* m answers what timer t of node n waits for.
Ends(m, n, t) == AnswerTo(m, n, t, IF t.type = "RX_ACK" THEN "ACK" ELSE "PREDECESSOR")

\* r is what handling m makes of s: it has answered m if it was a request, and
\* dropped the timers m answers.
Answers(r, s, m) ==
    /\ m.retransmitCounter = 0 /\ m.type \in {"JOIN", "FIND_SUCCESSOR", "FIND_PREDECESSOR", "NOTIFY"}
           => Acks(r, m)
    /\ m.retransmitCounter = 0 /\ m.type = "FIND_PREDECESSOR" /\ m.initiator # s.id
           => \E a \in Sent(r) : /\ a.type = "PREDECESSOR" /\ a.dest = m.initiator
                                 /\ a.messageID = m.messageID /\ a.retransmitCounter = 0
    /\ \A t \in r.timers : t \in s.timers /\ Waits(t) => ~Ends(m, s.id, t)

\* Only an ACK or a PREDECESSOR ends what a timer of an own request waits for.
LEMMA NoAnswer ==
    ASSUME NEW m, m.type \notin {"ACK", "PREDECESSOR"}, NEW n, NEW t
    PROVE  ~Ends(m, n, t)
BY DEF Ends, AnswerTo

\* The node whose first seed comes with its first JOIN.
Alone(s) == /\ s.predecessor = s.id /\ s.successor = s.id
            /\ \A i \in FingerIndex : s.cwFingers[i] = s.id

\* Whatever a started node receives, it still knows, names and asks started nodes only.
LEMMA ReceivedLives ==
    ASSUME NEW B, B \in SUBSET Node, NEW K, NEW s, Sound(s, OwnID(s.id)), Knows(s, B),
           s.state = "IDLE", Regular(s), Busy(s) => s.successor # s.id, JoinIDs(s) \subseteq K,
           NEW m \in Letters(K), Speaks(m, B), m.dest = s.id, NEW mid \in MessageID,
           s.seedAddrs = <<>> /\ m.type = "JOIN" => Alone(s),
           NEW r \in received(s, m, mid)
    PROVE  /\ Lives(r, s, mid, B) /\ Answers(r, s, m)
           /\ s.seedAddrs = <<>> /\ m.type = "JOIN" => r = s \/ r.seedAddrs # <<>>
  <1>1. /\ m \in Message /\ m.type \in MessageType /\ s \in NodeState /\ m.retransmitCounter \in Nat
        /\ m.retransmitCounter = 0 => isAddrValid(m)
        /\ m.type \in {"NOTIFY", "SUCCESSOR", "PREDECESSOR"} =>
               m.searched \in B /\ m.searched \in Node
        /\ m.service \in B
      BY FingersAssumption DEF Letters, Message, Sound, isAddrValid, Speaks
  <1>2. /\ IsRequest(m) => m.initiator # s.id /\ m.messageID \notin OwnID(s.id)
        /\ m.type = "JOIN" => m.isJoin
      BY DEF Letters, IsLetter, IsRequest, OwnID
  <1>3. Lives(s, s, mid, B)
      BY <1>1 DEF Lives
  <1>4. CASE ~isAddrValid(m)
    <2>1. r = s /\ m.retransmitCounter # 0
        BY <1>1, <1>4 DEF received
    <2>2. Answers(r, s, m)
        BY <2>1 DEF Answers, Ends, AnswerTo
    <2> QED
        BY <1>3, <2>1, <2>2
  <1>5. CASE isAddrValid(m) /\ IsRequest(m)
    <2>1. r = rxFindSuccessor(s, m)
        BY <1>5 DEF received, IsRequest
    <2>2. CASE s.seedAddrs = <<>> /\ m.type = "JOIN"
      <3>1. Lives(r, s, mid, B) /\ Acks(r, m) /\ r.seedAddrs # <<>>
          BY <1>1, <1>2, <1>5, <2>1, <2>2, FirstJoinLives DEF Alone
      <3>2. Answers(r, s, m)
          BY <1>5, <3>1, NoAnswer DEF Answers, IsRequest
      <3> QED
          BY <3>1, <3>2
    <2>3. CASE ~(s.seedAddrs = <<>> /\ m.type = "JOIN")
      <3>1. learnSeed(s, m) = s
          BY <2>3 DEF learnSeed
      <3>2. Lives(r, s, mid, B) /\ Acks(r, m)
          BY <1>1, <1>2, <1>5, <2>1, <3>1, RxFindSuccessorLives
      <3>3. Answers(r, s, m)
          BY <1>5, <3>2, NoAnswer DEF Answers, IsRequest
      <3> QED
          BY <2>3, <3>2, <3>3
    <2> QED
        BY <2>2, <2>3
  <1>6. CASE isAddrValid(m) /\ m.type = "FIND_PREDECESSOR"
    <2>1. r = rxFindPredecessor(s, m)
        BY <1>6 DEF received
    <2>2. /\ Lives(r, s, mid, B) /\ Acks(r, m)
          /\ m.initiator # s.id =>
                 \E a \in Sent(r) : /\ a.type = "PREDECESSOR" /\ a.dest = m.initiator
                                    /\ a.messageID = m.messageID /\ a.retransmitCounter = 0
        BY <1>1, <2>1, RxFindPredecessorLives
    <2>3. Answers(r, s, m)
        BY <1>6, <2>2, NoAnswer DEF Answers
    <2> QED
        BY <1>6, <2>2, <2>3
  <1>7. CASE isAddrValid(m) /\ m.type = "NOTIFY"
    <2>1. r = rxNotify(s, m)
        BY <1>7 DEF received
    <2>2. Lives(r, s, mid, B) /\ Acks(r, m)
        BY <1>1, <1>7, <2>1, RxNotifyLives
    <2>3. Answers(r, s, m)
        BY <1>7, <2>2, NoAnswer DEF Answers
    <2> QED
        BY <1>7, <2>2, <2>3
  <1>8. CASE isAddrValid(m) /\ m.type = "SUCCESSOR"
    <2>1. r = rxSuccessor(s, m)
        BY <1>8 DEF received
    <2>2. ASSUME ~s.isSuccessorSet,
                 TimersOf(s, {"RX_SUCCESSOR_ON_JOIN"}, "JOIN", m.messageID) # {}
          PROVE  Plain(joinAnswered(s, m), s, B)
      <3>1. PICK t \in s.timers : t.type = "RX_SUCCESSOR_ON_JOIN" /\ t.messageID = m.messageID
          BY <2>2 DEF TimersOf
      <3>2. ConfSeed[s.id] # <<>> /\ t.messageID \in OwnID(s.id)
          BY <3>1 DEF Sound, TimersInOrder
      <3>3. m.messageID \in K
          BY <3>1 DEF JoinIDs
      <3>4. m.searched # m.messageID[1]
          BY <1>8, <3>3 DEF Letters, IsLetter
      <3>5. m.searched # s.id
          BY <3>1, <3>2, <3>4 DEF OwnID
      <3> QED
          BY <1>1, <1>8, <2>2, <3>2, <3>5, JoinAnsweredPlain
    <2>3. Plain(fingerAnswered(s, m), s, B)
        BY <1>1, <1>8, FingerAnsweredPlain
    <2>4. r = s \/ Plain(r, s, B)
        BY <2>1, <2>2, <2>3 DEF rxSuccessor
    <2>5. Lives(r, s, mid, B)
        BY <1>3, <2>4, PlainLives
    <2>6. Answers(r, s, m)
        BY <1>8, NoAnswer DEF Answers
    <2> QED
        BY <1>8, <2>5, <2>6
  <1>9. CASE isAddrValid(m) /\ m.type = "PREDECESSOR"
    <2>1. r = rxPredecessor(s, m, mid)
        BY <1>9 DEF received
    <2>2. /\ Lives(r, s, mid, B)
          /\ \A t \in r.timers : ~(/\ t.type = "RX_PREDECESSOR"
                                   /\ t.retryMess = "FIND_PREDECESSOR"
                                   /\ t.messageID = m.messageID)
        BY <1>1, <1>9, <2>1, RxPredecessorLives
    <2>3. Answers(r, s, m)
        BY <1>9, <2>2 DEF Answers, Ends, AnswerTo, Waits, Regular
    <2> QED
        BY <1>9, <2>2, <2>3
  <1>10. CASE isAddrValid(m) /\ m.type = "ACK"
    <2>1. CASE ackTimers(s, m) = {}
      <3>1. r = s
          BY <1>10, <2>1 DEF received
      <3>2. Answers(r, s, m)
          BY <1>10, <2>1, <3>1 DEF Answers, Ends, AnswerTo, ackTimers
      <3> QED
          BY <1>3, <3>1, <3>2
    <2>2. CASE ackTimers(s, m) # {}
      <3>1. PICK t \in ackTimers(s, m) : r = rxAck(s, t)
          BY <1>10, <2>2 DEF received
      <3>2. t \in s.timers /\ t.type = "RX_ACK" /\ t.messageID = m.messageID
          BY <3>1 DEF ackTimers
      <3>3. Plain(r, s, B) /\ r.timers = s.timers \ {t}
          BY <1>1, <3>1, <3>2, RxAckPlain
      <3>4. ASSUME NEW u \in s.timers, Waits(u), Ends(m, s.id, u) PROVE u = t
        <4>1. u.type = "RX_ACK" /\ u.retransmitCounter = 0 /\ u.messageID = t.messageID
            BY <1>10, <3>2, <3>4 DEF Waits, Ends, AnswerTo
        <4>2. t.retransmitCounter = 0
            BY <3>2, <4>1 DEF Regular, PassedOn
        <4> QED
            BY <3>2, <4>1, <4>2 DEF Regular
      <3>5. Answers(r, s, m)
          BY <1>10, <3>3, <3>4 DEF Answers
      <3> QED
          BY <1>10, <3>3, <3>5, PlainLives
    <2> QED
        BY <2>1, <2>2
  <1> QED
      BY <1>1, <1>4, <1>5, <1>6, <1>7, <1>8, <1>9, <1>10 DEF MessageType, IsRequest

-----------------------------------------------------------------------------
(* Expired timers, and the start of a node. *)

\* issueMessagePushTimers(CHORD_TX_FIND_PREDECESSOR), of a node that knows another.
LEMMA IssueFindPredecessorLives ==
    ASSUME NEW B, B \in SUBSET Node, NEW s \in NodeState, Knows(s, B), s.successor # s.id,
           NEW mid \in MessageID
    PROVE  Lives(issueFindPredecessor(s, mid), s, mid, B)
  <1> DEFINE types == {"RX_PREDECESSOR", "RX_ACK"}
             find  == createMessage(s, "FIND_PREDECESSOR", s.successor, mid,
                                    Minus(s.successor, 1))
  <1>1. /\ s.id \in Node /\ s.id \in B /\ s.successor \in Node /\ s.successor \in B
        /\ Minus(s.successor, 1) \in IdSpace
      BY NodeAssumption, OneIsId, PlusMinusType DEF NodeState, Knows
  <1>2. /\ find \in Message /\ find.type = "FIND_PREDECESSOR" /\ find.src = s.id
        /\ find.dest = s.successor /\ find.initiator = s.id /\ find.service = s.id
        /\ find.messageID = mid /\ find.retransmitCounter = 0
      BY <1>1 DEF createMessage, Message, MessageType
  <1>3. issueFindPredecessor(s, mid) = pushTimers(sendMessage(s, find), types, find, 0)
      BY DEF issueFindPredecessor
  <1> HIDE DEF find
  <1>4. Speaks(find, B)
      BY <1>1, <1>2 DEF Speaks
  <1>5. types \in SUBSET TimerType /\ 0 \in 0 .. CtxJoin
      BY SeedAssumption DEF TimerType
  <1> HIDE DEF types
  <1> QED
      BY <1>2, <1>3, <1>4, <1>5, AskLives

\* Whoever is asked for a finger is known.
LEMMA FingerPastKnown ==
    ASSUME NEW B, NEW I, NEW s, Sound(s, I), Knows(s, B), s.seedAddrs # <<>>
    PROVE  fingerPast(s) \in B
  <1> DEFINE lower == {j \in FingerIndex : j < s.cwFingerIndex /\ s.cwFingers[j] # s.id}
  <1>1. s.cwFingers[0] \in B
      BY FingerZero DEF Knows
  <1>2. lower # {} => s.cwFingers[highest(lower)] \in B
    <2>1. lower \subseteq FingerIndex
        OBVIOUS
    <2> HIDE DEF lower
    <2>2. lower # {} => highest(lower) \in FingerIndex
        BY <2>1, HighestLowest
    <2> QED
        BY <2>2 DEF Knows
  <1>3. s.seedAddrs[s.currSeed + 1] \in B
    <2>1. /\ s.seedAddrs \in Seq(Node) /\ s.currSeed \in Nat
          /\ s.currSeed < Len(s.seedAddrs)
        BY DEF Sound, NodeState, SeedsInOrder
    <2>2. s.currSeed + 1 \in 1 .. Len(s.seedAddrs)
        BY <2>1
    <2> QED
        BY <2>2 DEF Knows
  <1> QED
      BY <1>1, <1>2, <1>3 DEF fingerPast

\* issueMessagePushTimers(CHORD_TX_FIND_SUCCESSOR, DO_REQUEST).
LEMMA IssueFindSuccessorLives ==
    ASSUME NEW B, B \in SUBSET Node, NEW I, NEW s, Sound(s, I), Knows(s, B),
           s.seedAddrs # <<>>, s.cwFingerIndex \in FingerIndex, NEW mid \in MessageID
    PROVE  Lives(issueFindSuccessor(s, mid), s, mid, B)
  <1> DEFINE types == {"RX_SUCCESSOR", "RX_ACK"}
             find  == createMessage(s, "FIND_SUCCESSOR", fingerPast(s), mid,
                                    FingerStart(s.id, s.cwFingerIndex))
             r     == pushTimers(sendMessage(s, find), types, find, 0)
  <1>1. /\ s \in NodeState /\ s.id \in Node /\ s.id \in B /\ s.id \in IdSpace
        /\ fingerPast(s) \in Node /\ fingerPast(s) \in B
      BY NodeAssumption, FingerPastIsNode, FingerPastKnown DEF Sound, NodeState, Knows
  <1>2. FingerStart(s.id, s.cwFingerIndex) \in IdSpace
    <2>1. FingerMask[s.cwFingerIndex] \in IdSpace
        BY FingersAssumption
    <2> QED
        BY <1>1, <2>1, PlusMinusType DEF FingerStart
  <1>3. /\ find \in Message /\ find.type = "FIND_SUCCESSOR" /\ find.src = s.id
        /\ find.dest = fingerPast(s) /\ find.initiator = s.id /\ find.service = s.id
        /\ find.messageID = mid /\ find.retransmitCounter = 0
      BY <1>1, <1>2 DEF createMessage, Message, MessageType
  <1>4. issueFindSuccessor(s, mid) = IF find.dest = s.id THEN unlocked(s) ELSE r
      BY DEF issueFindSuccessor, unlocked
  <1> HIDE DEF find
  <1>5. types \in SUBSET TimerType /\ 0 \in 0 .. CtxJoin /\ "RX_PREDECESSOR" \notin types
      BY SeedAssumption DEF TimerType
  <1> HIDE DEF types
  <1>6. CASE find.dest # s.id
    <2>1. Speaks(find, B)
        BY <1>1, <1>3, <1>6 DEF Speaks
    <2>2. Lives(r, s, mid, B)
        BY <1>1, <1>3, <1>5, <2>1, AskLives
    <2> QED
        BY <1>4, <1>6, <2>2
  <1>7. CASE find.dest = s.id
    <2>1. Lives(unlocked(s), s, mid, B)
        BY <1>1, UnlockedPlain, PlainLives
    <2> QED
        BY <1>4, <1>7, <2>1
  <1> QED
      BY <1>6, <1>7

\* The UPDATE timer.
LEMMA UpdateExpiredLives ==
    ASSUME NEW B, B \in SUBSET Node, NEW I, NEW s, Sound(s, I), Knows(s, B),
           s.updateTimers > 0, s.successor # s.id, NEW mid \in MessageID
    PROVE  Lives(updateExpired(s, mid), s, mid, B)
  <1> DEFINE locked == [s EXCEPT !.isNowUpdate = TRUE]
             first  == [locked EXCEPT !.isNowStabilize = TRUE]
             next   == setNextFingerToUpdate(locked)
  <1>1. s \in NodeState /\ s.seedAddrs # <<>>
      BY DEF Sound, SeedsInOrder
  <1>2. /\ locked \in NodeState /\ locked.id = s.id /\ locked.state = s.state
        /\ locked.tx = s.tx /\ locked.timers = s.timers /\ locked.predecessor = s.predecessor
        /\ locked.successor = s.successor /\ locked.cwFingers = s.cwFingers
        /\ locked.seedAddrs = s.seedAddrs /\ locked.updateTimers = s.updateTimers
        /\ locked.isUpdated = s.isUpdated /\ locked.currSeed = s.currSeed
      BY <1>1 DEF NodeState
  <1>3. Sound(locked, I)
      BY <1>2 DEF Sound, SeedsInOrder, TimersInOrder
  <1> HIDE DEF locked
  <1>4. /\ first \in NodeState /\ first.id = s.id /\ first.state = s.state
        /\ first.tx = s.tx /\ first.timers = s.timers /\ first.predecessor = s.predecessor
        /\ first.successor = s.successor /\ first.cwFingers = s.cwFingers
        /\ first.seedAddrs = s.seedAddrs /\ first.updateTimers = s.updateTimers
      BY <1>2 DEF NodeState
  <1>5. /\ Sound(next, I) /\ next.seedAddrs # <<>> /\ next.successor = s.successor
        /\ next.id = s.id
      BY <1>1, <1>2, <1>3, SetNextFingerToUpdateFollows DEF Follows, setNextFingerToUpdate, NodeState
  <1>6. ASSUME staleFingers(s) # {} PROVE next.cwFingerIndex \in FingerIndex
    <2>1. staleFingers(locked) = staleFingers(s)
        BY <1>2 DEF staleFingers
    <2>2. lowest(staleFingers(locked)) \in FingerIndex
        BY <1>6, <2>1, HighestLowest DEF staleFingers
    <2>3. next = [locked EXCEPT !.cwFingerIndex = lowest(staleFingers(locked))]
        BY <1>6, <2>1 DEF setNextFingerToUpdate
    <2> QED
        BY <1>2, <2>2, <2>3 DEF NodeState
  <1> HIDE DEF first
  <1>7. Plain(locked, s, B) /\ Plain(first, s, B)
      BY <1>1, <1>2, <1>4, ReleasesPlain
  <1>8. Plain(next, s, B)
    <2>1. Knows(locked, B)
        BY <1>7 DEF Plain
    <2>2. Plain(next, locked, B)
        BY <1>3, <2>1, SetNextFingerPlain
    <2> QED
        BY <1>7, <2>2, PlainIsTransitive
  <1> HIDE DEF next
  <1>9. ASSUME NEW p, Plain(p, s, B), NEW r, Lives(r, p, mid, B) PROVE Lives(r, s, mid, B)
    <2>1. Lives(p, s, mid, B) /\ p.timers \subseteq s.timers
        BY <1>9, PlainLives DEF Plain
    <2> QED
        BY <1>9, <2>1, LivesIsTransitive
  <1>10. Lives(issueFindPredecessor(first, mid), s, mid, B)
    <2>1. Lives(issueFindPredecessor(first, mid), first, mid, B)
        BY <1>4, <1>7, IssueFindPredecessorLives DEF Plain
    <2> QED
        BY <1>7, <1>9, <2>1
  <1>11. Lives(issueFindPredecessor(next, mid), s, mid, B)
    <2>1. Lives(issueFindPredecessor(next, mid), next, mid, B)
        BY <1>5, <1>8, IssueFindPredecessorLives DEF Plain
    <2> QED
        BY <1>8, <1>9, <2>1
  <1>12. ASSUME staleFingers(s) # {} PROVE Lives(issueFindSuccessor(next, mid), s, mid, B)
    <2>1. Lives(issueFindSuccessor(next, mid), next, mid, B)
        BY <1>5, <1>6, <1>8, <1>12, IssueFindSuccessorLives DEF Plain
    <2> QED
        BY <1>8, <1>9, <2>1
  <1>13. Lives(s, s, mid, B)
      BY <1>1 DEF Lives
  <1> QED
      BY <1>10, <1>11, <1>12, <1>13 DEF updateExpired, locked, first, next

-----------------------------------------------------------------------------
(* JOINs and timeouts. *)

\* A node of a network in which no JOIN has arrived yet, and which sends nothing else.
Fresh(s) == /\ Alone(s) /\ s.updateTimers = 0
            /\ \A t \in s.timers : t.retryMess = "JOIN"

OnlyJoins(s) == Fresh(s) /\ \A m \in Sent(s) : m.type = "JOIN"

\* A node with one seed, another node, asks it.
LEMMA IssueJoinLives ==
    ASSUME NEW B, B \in SUBSET Node, NEW I, NEW s, Sound(s, I), Knows(s, B),
           ConfSeed[s.id] = <<BootOrder[1]>>, BootOrder[1] \in B, BootOrder[1] # s.id,
           NEW k \in 0 .. CtxJoin, NEW mid \in MessageID
    PROVE  LET r == issueJoin(s, k, mid)
           IN  Lives(r, s, mid, B) /\ (OnlyJoins(s) => OnlyJoins(r))
  <1> DEFINE seeds == ConfSeed[s.id]
             next  == (s.currSeed + 1) % Len(seeds)
             made  == createMessage(s, "JOIN", seeds[next + 1], mid, Plus(s.id, 1))
             join  == [made EXCEPT !.isJoin = TRUE]
             moved == [s EXCEPT !.currSeed = next]
             sent  == sendMessage(moved, join)
             types == {"RX_SUCCESSOR_ON_JOIN", "RX_ACK"}
             first == BootOrder[1]
  <1>1. next = 0 /\ seeds[next + 1] = first
    <2>1. Len(seeds) = 1 /\ s.currSeed + 1 \in Nat
        BY DEF Sound, NodeState
    <2>2. next = 0
        BY <2>1
    <2> QED
        BY <2>2
  <1>2. /\ s.id \in Node /\ Plus(s.id, 1) \in IdSpace /\ s.id \in B /\ first \in Node
      BY NodeAssumption, OneIsId, PlusMinusType DEF Sound, NodeState, Knows
  <1>3. join = [createMessage(s, "JOIN", first, mid, Plus(s.id, 1)) EXCEPT !.isJoin = TRUE]
      BY <1>1
  <1>4. moved = [s EXCEPT !.currSeed = 0]
      BY <1>1
  <1> HIDE DEF first, join, made, next, moved
  <1>5. /\ join \in Message /\ join.type = "JOIN" /\ join.dest = first /\ join.src = s.id
        /\ join.initiator = s.id /\ join.messageID = mid /\ join.service = s.id
        /\ join.retransmitCounter = 0
      BY <1>2, <1>3 DEF createMessage, Message, MessageType
  <1>6. Speaks(join, B)
      BY <1>2, <1>5 DEF Speaks, first
  <1>7. /\ moved \in NodeState /\ moved.id = s.id /\ moved.state = s.state
        /\ moved.tx = s.tx /\ moved.timers = s.timers /\ moved.predecessor = s.predecessor
        /\ moved.successor = s.successor /\ moved.cwFingers = s.cwFingers
        /\ moved.seedAddrs = s.seedAddrs /\ moved.updateTimers = s.updateTimers
      BY <1>4 DEF Sound, NodeState
  <1>8. Plain(moved, s, B)
      BY <1>7, ReleasesPlain DEF Sound
  <1>9. types \in SUBSET TimerType /\ "RX_PREDECESSOR" \notin types
      BY DEF TimerType
  <1> HIDE DEF types
  <1>10. Lives(pushTimers(sent, types, join, k), moved, mid, B)
      BY <1>5, <1>6, <1>7, <1>8, <1>9, AskLives DEF Plain
  <1>11. issueJoin(s, k, mid) = pushTimers(sent, types, join, k)
      BY DEF issueJoin, join, made, next, moved, types
  <1>12. Lives(moved, s, mid, B) /\ moved.timers \subseteq s.timers
      BY <1>7, <1>8, PlainLives
  <1> DEFINE r == issueJoin(s, k, mid)
             tx == sent.tx
             new == {TimerFor(type, join, k) : type \in types}
             timers == sent.timers \cup new
  <1>13. /\ sent = [moved EXCEPT !.tx = tx] /\ Sent(sent) = Sent(moved) \cup {join}
         /\ sent \in NodeState
    <2>1. join.dest # moved.id
        BY <1>5, <1>7 DEF first
    <2> QED
        BY <1>5, <1>7, <2>1, SendIs
  <1>14. r = [sent EXCEPT !.timers = timers]
      BY <1>11 DEF pushTimers
  <1>15. \A t \in new : t.retryMess = "JOIN"
      BY <1>5 DEF TimerFor
  <1>16. \A t \in timers : t \in sent.timers \/ t.retryMess = "JOIN"
      BY <1>15
  <1>17. Lives(r, s, mid, B)
      BY <1>10, <1>11, <1>12, LivesIsTransitive
  <1>18. Sent(moved) = Sent(s)
      BY <1>7 DEF Sent
  <1> HIDE DEF tx, sent, r, timers
  <1>19. /\ sent.timers = s.timers /\ sent.id = s.id /\ sent.predecessor = s.predecessor
         /\ sent.successor = s.successor /\ sent.cwFingers = s.cwFingers
         /\ sent.updateTimers = s.updateTimers /\ sent.tx = tx
      BY <1>7, <1>13 DEF NodeState
  <1>21. /\ r.timers = timers /\ r.id = s.id /\ r.predecessor = s.predecessor
         /\ r.successor = s.successor /\ r.cwFingers = s.cwFingers
         /\ r.updateTimers = s.updateTimers /\ r.tx = tx
    <2>1. sent \in NodeState
        BY <1>13
    <2> QED
        BY <1>14, <1>19, <2>1 DEF NodeState
  <1>22. Sent(r) = Sent(s) \cup {join}
    <2>1. Sent(r) = Sent(sent)
        BY <1>19, <1>21 DEF Sent
    <2> QED
        BY <1>13, <1>18, <2>1
  <1>23. OnlyJoins(s) => OnlyJoins(r)
      BY <1>5, <1>16, <1>19, <1>21, <1>22 DEF OnlyJoins, Fresh, Alone
  <1> QED
      BY <1>17, <1>23 DEF r

\* Timers that are taken away ask nobody.
LEMMA RemoveTimersPlain ==
    ASSUME NEW B, NEW s \in NodeState, Knows(s, B), NEW types, NEW retry, NEW mid
    PROVE  LET r == removeTimers(s, types, retry, mid)
           IN  Plain(r, s, B) /\ (OnlyJoins(s) => OnlyJoins(r))
  <1> DEFINE r == removeTimers(s, types, retry, mid)
  <1>1. /\ r \in NodeState /\ r.id = s.id /\ r.state = s.state /\ r.tx = s.tx
        /\ r.timers \subseteq s.timers /\ r.predecessor = s.predecessor
        /\ r.successor = s.successor /\ r.cwFingers = s.cwFingers
        /\ r.seedAddrs = s.seedAddrs /\ r.updateTimers = s.updateTimers
      BY DEF removeTimers, TimersOf, NodeState
  <1> HIDE DEF r
  <1>2. Plain(r, s, B)
      BY <1>1, ReleasesPlain
  <1>3. Sent(r) = Sent(s)
      BY <1>1 DEF Sent
  <1>4. OnlyJoins(s) => OnlyJoins(r)
      BY <1>1, <1>3 DEF OnlyJoins, Fresh, Alone
  <1> QED
      BY <1>2, <1>4 DEF r

\* A JOIN that has not been answered goes to the next seed.
LEMMA JoinExpiredLives ==
    ASSUME NEW B, B \in SUBSET Node, NEW I, NEW s, Sound(s, I), Knows(s, B),
           ConfSeed[s.id] = <<BootOrder[1]>>, BootOrder[1] \in B, BootOrder[1] # s.id,
           NEW t \in Timer, NEW mid \in MessageID
    PROVE  LET r == joinExpired(s, t, mid)
           IN  Lives(r, s, mid, B) /\ (OnlyJoins(s) => OnlyJoins(r))
  <1> DEFINE rest == removeTimers(s, {"RX_ACK", "RX_SUCCESSOR_ON_JOIN"}, "JOIN", t.messageID)
             k == IF t.requestCounter < CtxJoin THEN t.requestCounter + 1 ELSE 0
  <1>1. k \in 0 .. CtxJoin
      BY SeedAssumption DEF Timer
  <1>2. Sound(rest, I) /\ rest.id = s.id
      BY DEF removeTimers, TimersOf, Sound, NodeState, SeedsInOrder, TimersInOrder
  <1>3. Plain(rest, s, B) /\ (OnlyJoins(s) => OnlyJoins(rest))
      BY RemoveTimersPlain DEF Sound
  <1>4. joinExpired(s, t, mid) = issueJoin(rest, k, mid)
      BY DEF joinExpired
  <1> HIDE DEF rest, k
  <1> DEFINE r == issueJoin(rest, k, mid)
  <1>5. Lives(r, rest, mid, B) /\ (OnlyJoins(rest) => OnlyJoins(r))
    <2>1. Knows(rest, B)
        BY <1>3 DEF Plain
    <2> QED
        BY <1>1, <1>2, <2>1, IssueJoinLives
  <1> HIDE DEF r
  <1>6. Lives(rest, s, mid, B) /\ rest.timers \subseteq s.timers
      BY <1>3, PlainLives DEF Plain
  <1>7. Lives(r, s, mid, B)
      BY <1>5, <1>6, LivesIsTransitive
  <1> QED
      BY <1>3, <1>4, <1>5, <1>7 DEF r

\* A timer expires that waits neither for an ACK of the node's own request nor for
\* a PREDECESSOR.
LEMMA TimerExpiredLives ==
    ASSUME NEW B, B \in SUBSET Node, NEW s, Sound(s, OwnID(s.id)), Knows(s, B), Regular(s),
           ConfSeed[s.id] # <<>> => /\ ConfSeed[s.id] = <<BootOrder[1]>>
                                    /\ BootOrder[1] \in B /\ BootOrder[1] # s.id,
           NEW t \in s.timers, ~Waits(t), NEW mid \in MessageID
    PROVE  LET r == timerExpired(s, t, mid)
           IN  Lives(r, s, mid, B) /\ (OnlyJoins(s) => OnlyJoins(r))
  <1> DEFINE rest == [s EXCEPT !.timers = @ \ {t}]
             r    == timerExpired(s, t, mid)
  <1>1. t \in Timer /\ t.type \in TimerType
      BY DEF Sound, NodeState, Timer
  <1>2. /\ Sound(rest, OwnID(s.id)) /\ rest.id = s.id /\ rest \in NodeState
        /\ rest.timers = s.timers \ {t}
      BY DEF Sound, NodeState, SeedsInOrder, TimersInOrder
  <1>3. Plain(rest, s, B)
    <2>1. /\ rest.state = s.state /\ rest.tx = s.tx
          /\ rest.timers \subseteq s.timers /\ rest.predecessor = s.predecessor
          /\ rest.successor = s.successor /\ rest.cwFingers = s.cwFingers
          /\ rest.seedAddrs = s.seedAddrs /\ rest.updateTimers = s.updateTimers
        BY DEF Sound, NodeState
    <2> HIDE DEF rest
    <2> QED
        BY <1>2, <2>1, ReleasesPlain DEF Sound
  <1>4. rest = [s EXCEPT !.timers = @ \ {t}]
      OBVIOUS
  <1> HIDE DEF rest
  <1>9. /\ rest.predecessor = s.predecessor /\ rest.successor = s.successor
        /\ rest.cwFingers = s.cwFingers /\ rest.updateTimers = s.updateTimers
        /\ Sent(rest) = Sent(s) /\ (OnlyJoins(s) => OnlyJoins(rest))
    <2>1. /\ rest.predecessor = s.predecessor /\ rest.successor = s.successor
          /\ rest.cwFingers = s.cwFingers /\ rest.updateTimers = s.updateTimers
          /\ rest.tx = s.tx
        BY <1>4 DEF Sound, NodeState
    <2>2. Sent(rest) = Sent(s)
        BY <2>1 DEF Sent
    <2> QED
        BY <1>2, <2>1, <2>2 DEF OnlyJoins, Fresh, Alone
  <1>5. CASE t.type = "RX_SUCCESSOR_ON_JOIN"
    <2>1. r = joinExpired(rest, t, mid)
        BY <1>4, <1>5 DEF timerExpired
    <2>2. ConfSeed[s.id] # <<>>
        BY <1>5 DEF Sound, TimersInOrder
    <2> HIDE DEF r
    <2>3. Lives(r, rest, mid, B) /\ (OnlyJoins(rest) => OnlyJoins(r))
      <3>1. Knows(rest, B) /\ Sound(rest, OwnID(s.id))
          BY <1>2, <1>3 DEF Plain
      <3> QED
          BY <1>1, <1>2, <2>1, <2>2, <3>1, JoinExpiredLives
    <2>4. Lives(rest, s, mid, B) /\ rest.timers \subseteq s.timers
        BY <1>3, PlainLives DEF Plain
    <2>5. Lives(r, s, mid, B)
        BY <2>3, <2>4, LivesIsTransitive
    <2> QED
        BY <1>9, <2>3, <2>5 DEF r
  <1>6. CASE t.type = "RX_SUCCESSOR"
    <2> DEFINE free == unlocked(rest)
    <2>1. r = [free EXCEPT !.isNowStabilize = FALSE]
        BY <1>4, <1>6 DEF timerExpired
    <2>2. Plain(free, rest, B)
        BY <1>2, <1>3, UnlockedPlain DEF Plain
    <2> HIDE DEF free, r
    <2>3. /\ r \in NodeState /\ r.id = free.id /\ r.state = free.state /\ r.tx = free.tx
          /\ r.timers \subseteq free.timers /\ r.predecessor = free.predecessor
          /\ r.successor = free.successor /\ r.cwFingers = free.cwFingers
          /\ r.seedAddrs = free.seedAddrs /\ r.updateTimers = free.updateTimers
        BY <2>1, <2>2 DEF Plain, NodeState
    <2>4. Plain(r, free, B)
        BY <2>2, <2>3, ReleasesPlain DEF Plain
    <2>5. Plain(r, s, B)
        BY <1>3, <2>2, <2>4, PlainIsTransitive
    <2>6. Lives(r, s, mid, B)
        BY <2>5, PlainLives
    <2>7. OnlyJoins(s) => OnlyJoins(r)
      <3>1. /\ r.predecessor = s.predecessor /\ r.successor = s.successor
            /\ r.cwFingers = s.cwFingers /\ r.updateTimers = s.updateTimers
            /\ r.tx = s.tx /\ r.id = s.id /\ r.timers \subseteq s.timers
        BY <1>2, <1>3, <1>9, <2>1 DEF free, unlocked, NodeState, Plain
      <3>2. Sent(r) = Sent(s)
          BY <3>1 DEF Sent
      <3> QED
          BY <3>1, <3>2 DEF OnlyJoins, Fresh, Alone
    <2> QED
        BY <2>6, <2>7 DEF r
  <1>7. CASE t.type = "RX_ACK"
    <2>1. t.retransmitCounter # 0 /\ t.retryMess = "FIND_SUCCESSOR"
        BY <1>7 DEF Regular, PassedOn, Waits
    <2>2. t.retransmitCounter \in Nat
        BY <1>1 DEF Timer
    <2> DEFINE gone == removeTimers(rest, {"RX_SUCCESSOR"}, "FIND_SUCCESSOR", t.messageID)
               free == unlocked(gone)
    <2>3. r = [free EXCEPT !.timers = @ \cup {t}]
        BY <1>4, <1>7, <2>1 DEF timerExpired, ackExpired, forwardNoAck
    <2>4. Plain(gone, rest, B)
        BY <1>2, <1>3, RemoveTimersPlain DEF Plain
    <2>5. Plain(free, gone, B)
        BY <2>4, UnlockedPlain DEF Plain
    <2> HIDE DEF gone, free, r
    <2>6. free.timers \subseteq rest.timers /\ Plain(free, s, B)
        BY <1>3, <2>4, <2>5, PlainIsTransitive DEF Plain
    <2>7. /\ r \in NodeState /\ r.id = free.id /\ r.state = free.state /\ r.tx = free.tx
          /\ r.timers = free.timers \cup {t} /\ r.predecessor = free.predecessor
          /\ r.successor = free.successor /\ r.cwFingers = free.cwFingers
          /\ r.seedAddrs = free.seedAddrs /\ r.updateTimers = free.updateTimers
        BY <1>1, <2>3, <2>6 DEF Plain, NodeState
    <2>8. Plain(r, s, B)
        BY <1>2, <2>6, <2>7 DEF Plain, Knows
    <2>9. Lives(r, s, mid, B)
        BY <2>8, PlainLives
    <2>10. ~OnlyJoins(s)
        BY <2>1 DEF OnlyJoins, Fresh
    <2> QED
        BY <2>9, <2>10 DEF r
  <1>8. t.type # "RX_PREDECESSOR"
      BY DEF Waits
  <1> QED
      BY <1>1, <1>5, <1>6, <1>7, <1>8 DEF TimerType, r

-----------------------------------------------------------------------------
(* Undisturbed networks. *)

Alive == {n \in Node : node[n].state = "IDLE"}

\* Among the messages F is the request timer t of node n waits for, or its answer.
Asked(t, n, F) == \E m \in F : RequestOf(m, n, t) \/ Ends(m, n, t)

\* Node n in the course of its handlers, while the messages F are on their way.
Staged(s, n, F, B) ==
    /\ Sound(s, OwnID(n)) /\ s.id = n /\ s.state = "IDLE"
    /\ Knows(s, B) /\ Regular(s) /\ (Busy(s) => s.successor # n)
    /\ \A m \in Sent(s) : Speaks(m, B)
    /\ \A t \in s.timers : Waits(t) => Asked(t, n, F \cup Sent(s))

\* Before the first JOIN arrives nothing but JOINs is sent.
Before(s, n) ==
    (IF n = BootOrder[1] THEN s ELSE node[BootOrder[1]]).seedAddrs = <<>> =>
        node[BootOrder[1]].seedAddrs = <<>> /\ OnlyJoins(s)

Undisturbed ==
    /\ \A n \in Node : IF node[n].state = "OFF" THEN node[n] = Off(n)
                       ELSE Staged(node[n], n, InFlight, Alive)
    /\ \A m \in InFlight : Speaks(m, Alive)
    /\ node[BootOrder[1]].seedAddrs = <<>> =>
           /\ \A n \in Node : Fresh(node[n])
           /\ \A m \in InFlight : m.type = "JOIN"

\* The timers of a started node stay regular.
LEMMA LivesRegular ==
    ASSUME NEW B, NEW r, NEW s, NEW mid \in OwnID(s.id), Regular(s), Lives(r, s, mid, B),
           \A t \in s.timers : t.messageID # mid
    PROVE  Regular(r)
  <1>1. r.id = s.id
      BY DEF Lives
  <1>2. \A t \in r.timers : t \in s.timers \/ PassedOn(t, r.id) \/ Begun(t, r, mid)
      BY DEF Lives
  <1>3. ASSUME NEW t \in r.timers, t.type = "RX_ACK"
        PROVE  IF t.retransmitCounter = 0 THEN t.messageID \in OwnID(r.id) ELSE PassedOn(t, r.id)
      BY <1>1, <1>2, <1>3 DEF Regular, PassedOn, Begun
  <1>4. ASSUME NEW t \in r.timers, t.type = "RX_PREDECESSOR"
        PROVE  t.retryMess = "FIND_PREDECESSOR"
      BY <1>2, <1>4 DEF Regular, PassedOn, Begun
  <1>5. ASSUME NEW t \in r.timers, NEW u \in r.timers,
               t.type = "RX_ACK", t.retransmitCounter = 0,
               u.type = "RX_ACK", u.retransmitCounter = 0, t.messageID = u.messageID
        PROVE  t = u
    <2>1. t \in s.timers \/ Begun(t, r, mid)
        BY <1>2, <1>5 DEF PassedOn
    <2>2. u \in s.timers \/ Begun(u, r, mid)
        BY <1>2, <1>5 DEF PassedOn
    <2>3. CASE t \in s.timers /\ u \in s.timers
        BY <1>5, <2>3 DEF Regular
    <2>4. CASE t \notin s.timers /\ u \notin s.timers
        BY <1>5, <2>1, <2>2, <2>4 DEF Lives
    <2> QED
        BY <1>5, <2>1, <2>2, <2>3, <2>4 DEF Begun
  <1> QED
      BY <1>3, <1>4, <1>5 DEF Regular

\* What a timer waits for is on its way also when more is.
LEMMA AskedMore ==
    ASSUME NEW t, NEW n, NEW F, NEW G, Asked(t, n, F), \A m \in F : m \in G
    PROVE  Asked(t, n, G)
BY DEF Asked

\* What a handler makes of a node in order is in order.
LEMMA LivesStaged ==
    ASSUME NEW B, NEW F, NEW n \in Node, NEW r, NEW s, Staged(s, n, F, B), NEW mid \in OwnID(n),
           Lives(r, s, mid, B), Sound(r, OwnID(n)), \A t \in s.timers : t.messageID # mid
    PROVE  Staged(r, n, F, B)
  <1>1. Regular(r)
      BY LivesRegular DEF Staged
  <1>2. r.id = n /\ r.state = "IDLE" /\ Knows(r, B)
      BY DEF Lives, Staged
  <1>3. Busy(r) => r.successor # n
      BY DEF Lives, Staged
  <1>4. \A m \in Sent(r) : Speaks(m, B)
      BY DEF Lives, Staged
  <1>5. ASSUME NEW t \in r.timers, Waits(t) PROVE Asked(t, n, F \cup Sent(r))
    <2>1. CASE t \in s.timers
      <3>1. Asked(t, n, F \cup Sent(s))
          BY <1>5, <2>1 DEF Staged
      <3>2. \A m \in F \cup Sent(s) : m \in F \cup Sent(r)
          BY DEF Lives
      <3> QED
          BY <3>1, <3>2, AskedMore
    <2>2. CASE Begun(t, r, mid)
        BY <1>2, <1>5, <2>2 DEF Begun, Asked, Waits
    <2>3. ~PassedOn(t, r.id)
        BY <1>5 DEF PassedOn, Waits
    <2> QED
        BY <2>1, <2>2, <2>3 DEF Lives
  <1> QED
      BY <1>1, <1>2, <1>3, <1>4, <1>5 DEF Staged

\* The same when the handler has taken m.
LEMMA TakesStaged ==
    ASSUME NEW B, NEW F, NEW n \in Node, NEW r, NEW s, Staged(s, n, F, B), NEW mid \in OwnID(n),
           Lives(r, s, mid, B), Sound(r, OwnID(n)), \A t \in s.timers : t.messageID # mid,
           NEW m, Speaks(m, B), m.dest = n, Answers(r, s, m),
           NEW G, \A x \in F : x = m \/ x \in G
    PROVE  Staged(r, n, G, B)
  <1>1. Staged(r, n, F, B)
      BY LivesStaged
  <1>2. ASSUME NEW t \in r.timers, Waits(t) PROVE Asked(t, n, G \cup Sent(r))
    <2>1. CASE t \in s.timers
      <3>1. PICK x \in F \cup Sent(s) : RequestOf(x, n, t) \/ Ends(x, n, t)
          BY <1>2, <2>1 DEF Staged, Asked
      <3>2. ~Ends(m, n, t)
          BY <1>2, <2>1 DEF Answers, Staged
      <3>3. ~RequestOf(m, n, t)
          BY DEF RequestOf, Speaks
      <3>4. x # m
          BY <3>1, <3>2, <3>3
      <3>5. x \in G \cup Sent(r)
          BY <3>4 DEF Lives
      <3> QED
          BY <3>1, <3>5 DEF Asked
    <2>2. CASE Begun(t, r, mid)
      <3>1. r.id = n
          BY <1>1 DEF Staged
      <3> QED
          BY <1>2, <2>2, <3>1 DEF Begun, Asked, Waits
    <2>3. ~PassedOn(t, r.id)
        BY <1>2 DEF PassedOn, Waits
    <2> QED
        BY <2>1, <2>2, <2>3 DEF Lives
  <1> QED
      BY <1>1, <1>2 DEF Staged

\* The requests of another node that n takes are answered.
LEMMA OthersAsked ==
    ASSUME NEW n \in Node, NEW k \in Node, k # n, NEW F, NEW t \in Timer, Waits(t), Asked(t, k, F),
           t.type = "RX_PREDECESSOR" => t.retryMess = "FIND_PREDECESSOR",
           NEW m, m.dest = n, NEW s, s.id = n, NEW r, Answers(r, s, m),
           NEW G, \A x \in F : x = m \/ x \in G
    PROVE  Asked(t, k, G \cup Sent(r))
  <1>1. PICK x \in F : RequestOf(x, k, t) \/ Ends(x, k, t)
      BY DEF Asked
  <1>2. CASE x \in G
      BY <1>1, <1>2 DEF Asked
  <1>3. CASE x = m
    <2>1. RequestOf(m, k, t)
        BY <1>1, <1>3 DEF Ends, AnswerTo
    <2>2. m.type \in {"JOIN", "FIND_SUCCESSOR", "FIND_PREDECESSOR", "NOTIFY"}
        BY <2>1 DEF RequestOf, Timer
    <2>3. CASE t.type = "RX_ACK"
      <3>1. PICK a \in Sent(r) : /\ a.type = "ACK" /\ a.dest = m.src
                                 /\ a.messageID = m.messageID /\ a.retransmitCounter = 0
          BY <2>1, <2>2 DEF Answers, Acks, RequestOf
      <3>2. Ends(a, k, t)
          BY <2>1, <2>3, <3>1 DEF Ends, AnswerTo, RequestOf
      <3> QED
          BY <3>2 DEF Asked
    <2>4. CASE t.type = "RX_PREDECESSOR"
      <3>1. PICK a \in Sent(r) : /\ a.type = "PREDECESSOR" /\ a.dest = m.initiator
                                 /\ a.messageID = m.messageID /\ a.retransmitCounter = 0
          BY <2>1, <2>4 DEF Answers, RequestOf
      <3>2. Ends(a, k, t)
          BY <2>1, <2>4, <3>1 DEF Ends, AnswerTo, RequestOf
      <3> QED
          BY <3>2 DEF Asked
    <2> QED
        BY <2>3, <2>4 DEF Waits
  <1> QED
      BY <1>2, <1>3

\* What is in flight lies in a queue.
LEMMA InFlightContents ==
    ASSUME net \in [Node -> Seq(Message)]
    PROVE  \A m : m \in InFlight <=> \E d \in Node : Within(m, net[d])
  <1>1. ASSUME NEW d \in Node, NEW m PROVE m \in Range(net[d]) <=> Within(m, net[d])
    <2>1. DOMAIN net[d] = 1 .. Len(net[d])
        BY ElementOfSeq
    <2> QED
        BY <2>1 DEF Range, Within
  <1> QED
      BY <1>1 DEF InFlight

\* What is on its way after a step: what the queues held, and what the node has sent.
LEMMA Flight ==
    ASSUME NEW q \in [Node -> Seq(Message)], NEW tx \in Seq(Message),
           net' = [d \in Node |-> q[d] \o SentTo(tx, d)]
    PROVE  \A m : m \in InFlight' <=> \/ \E d \in Node : Within(m, q[d])
                                      \/ \E k \in 1 .. Len(tx) : tx[k] = m
  <1>1. ASSUME NEW d \in Node
        PROVE  /\ SentTo(tx, d) \in Seq(Message)
               /\ \A m : Within(m, SentTo(tx, d)) <=>
                             \E k \in 1 .. Len(tx) : tx[k] = m /\ m.dest = d
    <2> DEFINE I == {k \in DOMAIN tx : tx[k].dest = d}
    <2>1. SentTo(tx, d) = Chosen(tx, I)
        BY DEF SentTo
    <2>2. \A k \in 1 .. Len(tx) : k \in I <=> tx[k].dest = d
        BY ElementOfSeq
    <2> HIDE DEF I
    <2>3. /\ Chosen(tx, I) \in Seq(Message)
          /\ \A x : Within(x, Chosen(tx, I)) <=> \E k \in 1 .. Len(tx) : k \in I /\ tx[k] = x
        BY ChosenContents
    <2> QED
        BY <2>1, <2>2, <2>3
  <1>2. ASSUME NEW d \in Node
        PROVE  /\ net'[d] \in Seq(Message)
               /\ \A m : Within(m, net'[d]) <=> \/ Within(m, q[d])
                                                \/ \E k \in 1 .. Len(tx) : tx[k] = m /\ m.dest = d
    <2> DEFINE new == SentTo(tx, d)
    <2>1. net'[d] = q[d] \o new /\ q[d] \in Seq(Message)
        OBVIOUS
    <2>2. /\ new \in Seq(Message)
          /\ \A m : Within(m, new) <=> \E k \in 1 .. Len(tx) : tx[k] = m /\ m.dest = d
        BY <1>1
    <2> HIDE DEF new
    <2>3. \A m : Within(m, q[d] \o new) <=> Within(m, q[d]) \/ Within(m, new)
        BY <2>1, <2>2, WithinConcat
    <2>4. q[d] \o new \in Seq(Message)
        BY <2>1, <2>2, ConcatProperties
    <2> QED
        BY <2>1, <2>2, <2>3, <2>4
  <1>3. net' \in [Node -> Seq(Message)]
      BY <1>2
  <1>4. \A m : m \in InFlight' <=> \E d \in Node : Within(m, net'[d])
    <2>1. ASSUME NEW d \in Node, NEW m PROVE m \in Range(net'[d]) <=> Within(m, net'[d])
      <3>1. DOMAIN net'[d] = 1 .. Len(net'[d])
          BY <1>3, ElementOfSeq
      <3> QED
          BY <3>1 DEF Range, Within
    <2> QED
        BY <2>1 DEF InFlight
  <1>5. \A k \in 1 .. Len(tx) : tx[k].dest \in Node
    <2>1. \A k \in 1 .. Len(tx) : tx[k] \in Message
        BY ElementOfSeq
    <2> QED
        BY <2>1 DEF Message
  <1> QED
      BY <1>2, <1>4, <1>5

\* ByPriority changes the order of what is sent, and nothing else.
LEMMA ByPriorityContents ==
    ASSUME NEW s, NEW tx \in Seq(Message), tx = s.tx
    PROVE  \A x : (\E k \in 1 .. Len(ByPriority(tx)) : ByPriority(tx)[k] = x) <=> x \in Sent(s)
  <1> DEFINE of(p) == {k \in DOMAIN tx : tx[k].type = TxPriority[p]}
             parts == [p \in DOMAIN TxPriority |-> Chosen(tx, of(p))]
  <1>1. DOMAIN TxPriority = 1 .. 7 /\ \A type \in MessageType : \E p \in 1 .. 7 : TxPriority[p] = type
    <2>1. /\ TxPriority[1] = "JOIN" /\ TxPriority[2] = "NOTIFY" /\ TxPriority[3] = "ACK"
          /\ TxPriority[4] = "SUCCESSOR" /\ TxPriority[5] = "FIND_SUCCESSOR"
          /\ TxPriority[6] = "PREDECESSOR" /\ TxPriority[7] = "FIND_PREDECESSOR"
          /\ DOMAIN TxPriority = 1 .. 7
        BY DEF TxPriority
    <2> QED
        BY <2>1 DEF MessageType
  <1>2. \A p \in 1 .. 7 : \A k \in 1 .. Len(tx) : k \in of(p) <=> tx[k].type = TxPriority[p]
      BY ElementOfSeq
  <1> HIDE DEF of
  <1>3. ASSUME NEW p \in 1 .. 7
        PROVE  /\ Chosen(tx, of(p)) \in Seq(Message)
               /\ \A x : Within(x, Chosen(tx, of(p))) <=>
                             \E k \in 1 .. Len(tx) : k \in of(p) /\ tx[k] = x
      BY ChosenContents
  <1>4. parts \in Seq(Seq(Message)) /\ Len(parts) = 7
    <2>1. parts = [p \in 1 .. 7 |-> Chosen(tx, of(p))] /\ 7 \in Nat
        BY <1>1
    <2>2. [p \in 1 .. 7 |-> Chosen(tx, of(p))] \in Seq(Seq(Message))
        BY <1>3
    <2> QED
        BY <2>1, <2>2
  <1>5. \A p \in 1 .. 7 : parts[p] = Chosen(tx, of(p))
      BY <1>1
  <1>6. ByPriority(tx) = FlattenSeq(parts)
      BY DEF ByPriority, of
  <1> HIDE DEF parts
  <1>7. \A x : Within(x, FlattenSeq(parts)) <=> \E p \in 1 .. 7 : Within(x, parts[p])
      BY <1>4, FlattenContents
  <1>8. \A k \in 1 .. Len(tx) : \E p \in 1 .. 7 : k \in of(p)
    <2>1. \A k \in 1 .. Len(tx) : tx[k] \in Message
        BY ElementOfSeq
    <2>2. \A k \in 1 .. Len(tx) : tx[k].type \in MessageType
        BY <2>1 DEF Message
    <2> QED
        BY <1>1, <1>2, <2>2
  <1>9. \A x : Within(x, ByPriority(tx)) <=> \E k \in 1 .. Len(tx) : tx[k] = x
    <2> TAKE x
    <2>1. ASSUME Within(x, ByPriority(tx)) PROVE \E k \in 1 .. Len(tx) : tx[k] = x
      <3>1. PICK p \in 1 .. 7 : Within(x, Chosen(tx, of(p)))
          BY <1>5, <1>6, <1>7, <2>1
      <3> QED
          BY <1>3, <3>1
    <2>2. ASSUME NEW k \in 1 .. Len(tx), tx[k] = x PROVE Within(x, ByPriority(tx))
      <3>1. PICK p \in 1 .. 7 : k \in of(p)
          BY <1>8
      <3>2. Within(x, parts[p])
          BY <1>3, <1>5, <2>2, <3>1
      <3> QED
          BY <1>6, <1>7, <3>2
    <2> QED
        BY <2>1, <2>2
  <1> QED
      BY <1>9 DEF Within, Sent

\* Taking the head of a queue leaves all other messages on their way.
LEMMA QueueKeeps ==
    ASSUME InOrder, NEW n \in Node, net[n] # <<>>
    PROVE  LET q == [net EXCEPT ![n] = Tail(@)]
           IN  \A d \in Node : \A m : Within(m, net[d]) => m = Head(net[n]) \/ Within(m, q[d])
  <1> DEFINE q == [net EXCEPT ![n] = Tail(@)]
  <1>1. net \in [Node -> Seq(Message)] /\ net[n] \in Seq(Message) /\ Len(net[n]) \in Nat \ {0}
      BY EmptySeq DEF InOrder, QueuesInOrder
  <1>2. /\ Tail(net[n]) \in Seq(Message) /\ Len(Tail(net[n])) = Len(net[n]) - 1
        /\ \A i \in 1 .. Len(net[n]) - 1 : Tail(net[n])[i] = net[n][i + 1]
        /\ Head(net[n]) = net[n][1]
      BY <1>1
  <1>3. ASSUME NEW m, Within(m, net[n]) PROVE m = Head(net[n]) \/ Within(m, Tail(net[n]))
    <2>1. PICK i \in 1 .. Len(net[n]) : net[n][i] = m
        BY <1>3 DEF Within
    <2>2. CASE i = 1
        BY <1>2, <2>1, <2>2
    <2>3. CASE i # 1
      <3>1. i - 1 \in 1 .. Len(net[n]) - 1 /\ (i - 1) + 1 = i
          BY <1>1, <2>1, <2>3
      <3>2. Tail(net[n])[i - 1] = m
          BY <1>2, <2>1, <3>1
      <3> QED
          BY <1>2, <3>1, <3>2 DEF Within
    <2> QED
        BY <2>2, <2>3
  <1>4. q[n] = Tail(net[n]) /\ \A d \in Node : d # n => q[d] = net[d]
      BY <1>1
  <1> QED
      BY <1>3, <1>4

\* A node that has not been started waits for no answer.
LEMMA OffWaitsForNothing ==
    ASSUME Undisturbed, NEW n \in Node, node[n].state = "OFF"
    PROVE  node[n].timers = {} /\ node[n].updateTimers = 0
  <1>1. node[n] = Off(n)
      BY DEF Undisturbed
  <1>2. Off(n).timers = {} /\ Off(n).updateTimers = 0
      BY DEF Off
  <1> QED
      BY <1>1, <1>2

\* A node that runs is in order.
LEMMA NodeStaged ==
    ASSUME InOrder, Undisturbed, NEW n \in Node, node[n].state # "OFF"
    PROVE  /\ Staged(node[n], n, InFlight, Alive) /\ Before(node[n], n) /\ Sent(node[n]) = {}
           /\ n \in Alive /\ \A t \in node[n].timers : Waits(t) => Asked(t, n, InFlight)
  <1>1. Sent(node[n]) = {}
      BY DEF InOrder, NodesInOrder, Sent
  <1>2. Staged(node[n], n, InFlight, Alive)
      BY DEF Undisturbed
  <1>3. Before(node[n], n)
      BY <1>1 DEF Before, Undisturbed, OnlyJoins
  <1>4. InFlight \cup Sent(node[n]) = InFlight
      BY <1>1
  <1> QED
      BY <1>1, <1>2, <1>3, <1>4 DEF Staged, Alive

\* The node that was started first runs if any does.
LEMMA FirstAlive ==
    ASSUME InOrder, StartedAsMain, Undisturbed, NEW n \in Alive
    PROVE  BootOrder[1] \in Alive
  <1>1. n \in Node /\ node[n].state = "IDLE"
      BY DEF Alive
  <1>2. CASE n = BootOrder[1]
      BY <1>2
  <1>3. CASE n # BootOrder[1]
    <2>1. ConfSeed[n] = <<BootOrder[1]>>
        BY <1>1, <1>3 DEF StartedAsMain
    <2>2. Sound(node[n], OwnID(n)) /\ node[n].id = n
        BY <1>1 DEF InOrder, NodesInOrder
    <2>3. node[n].seedAddrs = <<BootOrder[1]>>
      <3>1. ConfSeed[n] # <<>>
          BY <2>1
      <3>2. node[n].seedAddrs = ConfSeed[n]
          BY <2>2, <3>1 DEF Sound, SeedsInOrder
      <3> QED
          BY <2>1, <3>2
    <2>4. Knows(node[n], Alive)
        BY <1>1, NodeStaged DEF Staged
    <2> QED
        BY <2>3, <2>4 DEF Knows
  <1> QED
      BY <1>2, <1>3

\* Identifiers the node draws are on none of its timers.
LEMMA DrawnIsNew ==
    ASSUME InOrder, NEW n \in Node, Running(n)
    PROVE  /\ NextID(n) \in OwnID(n) /\ NextID(n) \in MessageID
           /\ \A t \in node[n].timers : t.messageID # NextID(n)
BY NextIDIsFresh, InUse

\* A due timer waits neither for an ACK of the node's own nor for a PREDECESSOR.
LEMMA TimerUndisturbed ==
    ASSUME InOrder, StartedAsMain, Undisturbed, NEW n \in Node, Running(n), NEW t \in TimersDue(n)
    PROVE  LET r == timerHandled(n, t)
           IN  Staged(r, n, InFlight, Alive) /\ Before(r, n) /\ ~Waits(t) /\ node[n].state = "IDLE"
  <1> DEFINE s == node[n]
             r == timerExpired(s, t, NextID(n))
  <1>1. t \in s.timers /\ \A m \in InFlight : m.messageID # t.messageID
      BY DEF TimersDue
  <1>2. s.state # "OFF"
      BY <1>1, OffWaitsForNothing
  <1>3. /\ Staged(s, n, InFlight, Alive) /\ Before(s, n) /\ n \in Alive
        /\ Waits(t) => Asked(t, n, InFlight)
      BY <1>1, <1>2, NodeStaged
  <1>4. ~Waits(t)
      BY <1>1, <1>3 DEF Asked, RequestOf, Ends, AnswerTo
  <1>5. timerHandled(n, t) = r /\ s.state = "IDLE"
      BY <1>3 DEF timerHandled, Staged
  <1>6. Sound(r, OwnID(n))
      BY <1>5, TimerHandled DEF Handled
  <1>7. ConfSeed[n] # <<>> => /\ ConfSeed[n] = <<BootOrder[1]>>
                              /\ BootOrder[1] \in Alive /\ BootOrder[1] # n
      BY <1>3, FirstAlive DEF StartedAsMain
  <1>8. /\ Sound(s, OwnID(n)) /\ s.id = n /\ Knows(s, Alive) /\ Regular(s)
        /\ Alive \in SUBSET Node
      BY <1>3 DEF Staged, Alive
  <1>9. /\ NextID(n) \in OwnID(n) /\ NextID(n) \in MessageID
        /\ \A u \in s.timers : u.messageID # NextID(n)
      BY DrawnIsNew
  <1> HIDE DEF s
  <1>10. Lives(r, s, NextID(n), Alive) /\ (OnlyJoins(s) => OnlyJoins(r))
      BY <1>1, <1>4, <1>7, <1>8, <1>9, TimerExpiredLives
  <1> HIDE DEF r
  <1>11. Staged(r, n, InFlight, Alive)
      BY <1>3, <1>6, <1>9, <1>10, LivesStaged
  <1>12. Before(r, n)
      BY <1>3, <1>10 DEF Before, Lives
  <1> QED
      BY <1>4, <1>5, <1>11, <1>12 DEF s

\* An UPDATE timer leaves the network undisturbed.
LEMMA UpdateUndisturbed ==
    ASSUME InOrder, Undisturbed, NEW n \in Node, Running(n), UpdateDue(n)
    PROVE  LET r == updateHandled(n)
           IN  Staged(r, n, InFlight, Alive) /\ Before(r, n) /\ node[n].state = "IDLE"
  <1> DEFINE s == node[n]
             r == updateExpired(s, NextID(n))
  <1>1. s.updateTimers > 0
      BY DEF UpdateDue
  <1>2. s.state # "OFF"
      BY <1>1, OffWaitsForNothing
  <1>3. Staged(s, n, InFlight, Alive) /\ Before(s, n)
      BY <1>2, NodeStaged
  <1>4. updateHandled(n) = r /\ s.state = "IDLE"
      BY <1>3 DEF updateHandled, Staged
  <1>5. Sound(r, OwnID(n))
      BY <1>4, UpdateHandled DEF Handled
  <1>6. /\ Sound(s, OwnID(n)) /\ Knows(s, Alive) /\ Alive \in SUBSET Node /\ s.successor # s.id
      BY <1>1, <1>3 DEF Staged, Alive, Busy
  <1>7. /\ NextID(n) \in OwnID(n) /\ NextID(n) \in MessageID
        /\ \A u \in s.timers : u.messageID # NextID(n)
      BY DrawnIsNew
  <1>8. Before(s, n) => (IF n = BootOrder[1] THEN s ELSE node[BootOrder[1]]).seedAddrs # <<>>
      BY <1>1 DEF Before, OnlyJoins, Fresh
  <1> HIDE DEF s
  <1>9. Lives(r, s, NextID(n), Alive)
      BY <1>1, <1>6, <1>7, UpdateExpiredLives
  <1> HIDE DEF r
  <1>10. Staged(r, n, InFlight, Alive)
      BY <1>3, <1>5, <1>7, <1>9, LivesStaged
  <1>11. Before(r, n)
      BY <1>3, <1>8, <1>9 DEF Before, Lives
  <1> QED
      BY <1>4, <1>10, <1>11 DEF s

\* A node takes the first message of its queue; G is what stays on its way.
LEMMA TakenUndisturbed ==
    ASSUME InOrder, Undisturbed, NEW n \in Node, NEW K, Covers(K), net[n] # <<>>,
           NEW s, Handled(s, n, K), Staged(s, n, InFlight, Alive), Before(s, n),
           NEW mid \in OwnID(n), \A t \in s.timers : t.messageID # mid,
           NEW r \in received(s, Head(net[n]), mid),
           NEW G, \A x \in InFlight : x = Head(net[n]) \/ x \in G
    PROVE  /\ Staged(r, n, G, Alive) /\ Before(r, n)
           /\ \A k \in Node : k # n =>
                  \A t \in node[k].timers : Waits(t) => Asked(t, k, G \cup Sent(r))
  <1> DEFINE m == Head(net[n])
  <1>1. Within(m, net[n])
      BY QueueOpens
  <1>2. m \in Letters(K) /\ m.dest = n
      BY <1>1, LettersStay DEF InOrder, QueuesInOrder
  <1>3. m \in InFlight
      BY <1>1, InFlightContents DEF InOrder, QueuesInOrder
  <1>4. /\ Speaks(m, Alive)
        /\ node[BootOrder[1]].seedAddrs = <<>> => m.type = "JOIN"
      BY <1>3 DEF Undisturbed
  <1>5. /\ Sound(s, OwnID(n)) /\ s.id = n /\ s.state = "IDLE" /\ Knows(s, Alive) /\ Regular(s)
        /\ Busy(s) => s.successor # n
      BY DEF Staged
  <1>6. Alive \in SUBSET Node /\ JoinIDs(s) \subseteq K /\ mid \in MessageID
      BY DEF Alive, Handled, OwnID
  <1>7. s.seedAddrs = <<>> /\ m.type = "JOIN" => Alone(s)
      BY <1>2, <1>4 DEF Speaks, Before, OnlyJoins, Fresh
  <1>8. Sound(r, OwnID(n))
      BY <1>2, ReceivedHandled DEF Handled
  <1> HIDE DEF m
  <1>9. r \in received(s, m, mid)
      BY DEF m
  <1>10. /\ Lives(r, s, mid, Alive) /\ Answers(r, s, m)
         /\ s.seedAddrs = <<>> /\ m.type = "JOIN" => r = s \/ r.seedAddrs # <<>>
      BY <1>2, <1>4, <1>5, <1>6, <1>7, <1>9, ReceivedLives
  <1>11. \A x \in InFlight : x = m \/ x \in G
      BY DEF m
  <1>12. Staged(r, n, G, Alive)
      BY <1>2, <1>4, <1>8, <1>10, <1>11, TakesStaged
  <1>13. Before(r, n)
    <2>1. CASE n = BootOrder[1]
      <3>1. CASE r.seedAddrs = <<>>
        <4>1. s.seedAddrs = <<>>
            BY <1>10, <3>1 DEF Lives
        <4>2. node[BootOrder[1]].seedAddrs = <<>>
            BY <2>1, <4>1 DEF Before
        <4>3. r = s
            BY <1>4, <1>10, <3>1, <4>1, <4>2
        <4> QED
            BY <4>3
      <3>2. CASE r.seedAddrs # <<>>
          BY <2>1, <3>2 DEF Before
      <3> QED
          BY <3>1, <3>2
    <2>2. CASE n # BootOrder[1]
        BY <1>2, <1>4, <2>2 DEF Before, Speaks
    <2> QED
        BY <2>1, <2>2
  <1>14. ASSUME NEW k \in Node, k # n, NEW t \in node[k].timers, Waits(t)
         PROVE  Asked(t, k, G \cup Sent(r))
    <2>1. node[k].state # "OFF"
        BY <1>14, OffWaitsForNothing
    <2>2. Asked(t, k, InFlight) /\ Regular(node[k])
        BY <1>14, <2>1, NodeStaged DEF Staged
    <2>3. t.type = "RX_PREDECESSOR" => t.retryMess = "FIND_PREDECESSOR"
        BY <1>14, <2>2 DEF Regular
    <2>4. t \in Timer
        BY <1>14 DEF InOrder, NodesInOrder, NodeState
    <2> QED
        BY <1>2, <1>5, <1>10, <1>11, <1>14, <2>2, <2>3, <2>4, OthersAsked
  <1> QED
      BY <1>12, <1>13, <1>14

\* u is r with what it sends in another order.
SendsAs(u, r) ==
    /\ u.tx \in Seq(Message) /\ Settled(u) = Settled(r)
    /\ \A x : (\E k \in 1 .. Len(u.tx) : u.tx[k] = x) <=> x \in Sent(r)

\* A node sends what it sends.
LEMMA SendsAsItself ==
    ASSUME NEW r \in NodeState
    PROVE  SendsAs(r, r)
BY DEF SendsAs, Sent, NodeState

\* A node that moves among undisturbed ones leaves them so.
LEMMA MovesUndisturbed ==
    ASSUME InOrder, Undisturbed, NEW n \in Node, NEW B, B = Alive \cup {n}, NEW states,
           NEW q \in [Node -> Seq(Message)],
           NEW G, \A x : x \in G <=> \E d \in Node : Within(x, q[d]),
           \A x \in G : x \in InFlight,
           \A u \in states : \E r :
               /\ SendsAs(u, r) /\ Staged(r, n, G, B) /\ Before(r, n)
               /\ \A k \in Node : k # n =>
                      \A t \in node[k].timers : Waits(t) => Asked(t, k, G \cup Sent(r)),
           Moves(n, states, q)
    PROVE  Undisturbed'
  <1>1. PICK u \in states : /\ node' = [node EXCEPT ![n] = Settled(u)]
                            /\ net' = [d \in Node |-> q[d] \o SentTo(u.tx, d)]
      BY DEF Moves
  <1>2. PICK r : /\ SendsAs(u, r) /\ Staged(r, n, G, B) /\ Before(r, n)
                 /\ \A k \in Node : k # n =>
                        \A t \in node[k].timers : Waits(t) => Asked(t, k, G \cup Sent(r))
      OBVIOUS
  <1> DEFINE s == Settled(r)
  <1>3. r \in NodeState /\ r.id = n /\ r.state = "IDLE"
      BY <1>2 DEF Staged, Sound
  <1>4. /\ s \in NodeState /\ s.tx = <<>> /\ s.timers = r.timers /\ s.id = r.id
        /\ s.state = r.state /\ s.predecessor = r.predecessor /\ s.successor = r.successor
        /\ s.cwFingers = r.cwFingers /\ s.seedAddrs = r.seedAddrs /\ s.currSeed = r.currSeed
        /\ s.updateTimers = r.updateTimers
    <2>1. s = [r EXCEPT !.tx = <<>>] /\ <<>> \in Seq(Message)
        BY DEF Settled
    <2> QED
        BY <1>3, <2>1 DEF NodeState
  <1> HIDE DEF s
  <1>5. node'[n] = s /\ \A k \in Node : k # n => node'[k] = node[k]
      BY <1>1, <1>2 DEF InOrder, NodesInOrder, SendsAs, s
  <1>6. \A x : x \in InFlight' <=> x \in G \cup Sent(r)
    <2> DEFINE tx == u.tx
    <2>1. tx \in Seq(Message) /\ net' = [d \in Node |-> q[d] \o SentTo(tx, d)]
        BY <1>1, <1>2 DEF SendsAs
    <2>2. \A x : (\E k \in 1 .. Len(tx) : tx[k] = x) <=> x \in Sent(r)
        BY <1>2 DEF SendsAs
    <2> HIDE DEF tx
    <2>3. \A x : x \in InFlight' <=> \/ \E d \in Node : Within(x, q[d])
                                     \/ \E k \in 1 .. Len(tx) : tx[k] = x
        BY <2>1, Flight
    <2> QED
        BY <2>2, <2>3
  <1>7. Alive' = B
      BY <1>3, <1>4, <1>5 DEF Alive
  <1>8. Sent(s) = {}
      BY <1>4 DEF Sent
  <1>9. Staged(node'[n], n, InFlight', Alive')
    <2>1. Sound(s, OwnID(n))
        BY <1>2, <1>4 DEF Staged, Sound, SeedsInOrder, TimersInOrder
    <2>2. Knows(s, B) /\ Regular(s) /\ (Busy(s) => s.successor # n)
        BY <1>2, <1>4 DEF Staged, Knows, Regular, Busy
    <2>3. \A t \in s.timers : Waits(t) => Asked(t, n, InFlight' \cup Sent(s))
        BY <1>2, <1>4, <1>6 DEF Staged, Asked
    <2> QED
        BY <1>3, <1>4, <1>5, <1>7, <1>8, <2>1, <2>2, <2>3 DEF Staged
  <1>10. ASSUME NEW k \in Node, k # n, node[k].state # "OFF"
         PROVE  Staged(node[k], k, InFlight', Alive')
    <2>1. Staged(node[k], k, InFlight, Alive) /\ Sent(node[k]) = {}
        BY <1>10, NodeStaged
    <2>2. Knows(node[k], B)
        BY <2>1 DEF Staged, Knows
    <2>3. \A t \in node[k].timers : Waits(t) => Asked(t, k, InFlight' \cup Sent(node[k]))
        BY <1>2, <1>6, <1>10 DEF Asked
    <2> QED
        BY <1>7, <2>1, <2>2, <2>3 DEF Staged
  <1>11. ASSUME NEW k \in Node
         PROVE  IF node'[k].state = "OFF" THEN node'[k] = Off(k)
                ELSE Staged(node'[k], k, InFlight', Alive')
    <2>1. CASE k = n
        BY <1>3, <1>4, <1>5, <1>9, <2>1
    <2>2. CASE k # n
      <3>1. node'[k] = node[k]
          BY <1>5, <2>2
      <3>2. node[k].state = "OFF" => node[k] = Off(k)
          BY DEF Undisturbed
      <3> QED
          BY <1>10, <2>2, <3>1, <3>2
    <2> QED
        BY <2>1, <2>2
  <1>12. ASSUME NEW x \in InFlight' PROVE Speaks(x, Alive')
    <2>1. x \in G => Speaks(x, Alive)
        BY DEF Undisturbed
    <2>2. x \in G => Speaks(x, B)
        BY <2>1 DEF Speaks
    <2> QED
        BY <1>2, <1>6, <1>7, <1>12, <2>2 DEF Staged
  <1>13. ASSUME node'[BootOrder[1]].seedAddrs = <<>>
         PROVE  /\ \A k \in Node : Fresh(node'[k])
                /\ \A x \in InFlight' : x.type = "JOIN"
    <2>1. BootOrder[1] \in Node
      <3>1. BootOrder \in Seq(Node) /\ \E i \in DOMAIN BootOrder : BootOrder[i] = n
          BY BootAssumption
      <3>2. 1 \in 1 .. Len(BootOrder)
          BY <3>1
      <3> QED
          BY <3>1, <3>2
    <2>2. node[BootOrder[1]].seedAddrs = <<>> /\ OnlyJoins(r)
        BY <1>2, <1>4, <1>5, <1>13, <2>1 DEF Before
    <2>3. Fresh(s)
        BY <1>4, <2>2 DEF OnlyJoins, Fresh, Alone
    <2>4. \A k \in Node : Fresh(node'[k])
        BY <1>5, <2>2, <2>3 DEF Undisturbed
    <2>5. \A x \in InFlight' : x.type = "JOIN"
        BY <1>6, <2>2 DEF Undisturbed, OnlyJoins
    <2> QED
        BY <2>4, <2>5
  <1> QED
      BY <1>11, <1>12, <1>13 DEF Undisturbed

\* The start of a node: it knows itself, and asks the one started first.
LEMMA BootUndisturbed ==
    ASSUME InOrder, StartedAsMain, Undisturbed, NEW n \in Node, Running(n), node[n].state = "OFF",
           n # BootOrder[1] => BootOrder[1] \in Alive
    PROVE  LET r == hardReset(node[n], NextID(n))
           IN  Staged(r, n, InFlight, Alive \cup {n}) /\ Before(r, n)
  <1> DEFINE s    == node[n]
             base == softReset(flush(s))
             r    == hardReset(s, NextID(n))
             B    == Alive \cup {n}
             none == [i \in FingerIndex |-> n]
  <1>1. s = Off(n) /\ Off(n) \in NodeState /\ Off(n).id = n /\ Off(n).seedAddrs = ConfSeed[n]
      BY DEF Undisturbed, InOrder, NodesInOrder, Off
  <1>2. Sound(base, OwnID(n))
    <2>1. Sound(s, OwnID(n))
        BY DEF InOrder, NodesInOrder
    <2> QED
        BY <2>1, FlushFollows, SoftResetFollows DEF Follows
  <1>4. s \in NodeState /\ s.id = n /\ s.seedAddrs = ConfSeed[n]
      BY <1>1
  <1> HIDE DEF s
  <1> DEFINE f == flush(s)
  <1>3. f \in NodeState /\ f.id = n /\ f.timers = {} /\ f.updateTimers = 0 /\ f.tx = <<>>
        /\ f.seedAddrs = ConfSeed[n]
    <2>1. <<>> \in Seq(Message)
        OBVIOUS
    <2> QED
        BY <1>4, <2>1 DEF flush, NodeState
  <1>5. /\ base.id = n /\ base.state = "IDLE" /\ base.predecessor = n /\ base.successor = n
        /\ base.cwFingers = none /\ base.timers = {} /\ base.updateTimers = 0
        /\ base.tx = <<>> /\ base.seedAddrs = ConfSeed[n]
    <2>1. base = softReset(f)
        OBVIOUS
    <2> HIDE DEF f, base
    <2> QED
        BY <1>3, <2>1 DEF softReset, NodeState
  <1> HIDE DEF base
  <1>6. Sent(base) = {}
      BY <1>5 DEF Sent
  <1>7. Knows(base, B)
    <2>1. \A i \in FingerIndex : base.cwFingers[i] \in B
        BY <1>5
    <2>2. CASE n = BootOrder[1]
      <3>1. ConfSeed[n] = <<>>
          BY <2>2 DEF StartedAsMain
      <3> QED
          BY <1>5, <2>1, <3>1 DEF Knows
    <2>3. CASE n # BootOrder[1]
      <3>1. ConfSeed[n] = <<BootOrder[1]>> /\ BootOrder[1] \in B
          BY <2>3 DEF StartedAsMain
      <3> QED
          BY <1>5, <2>1, <3>1 DEF Knows
    <2> QED
        BY <2>2, <2>3
  <1>8. Staged(base, n, InFlight, B)
      BY <1>2, <1>5, <1>6, <1>7 DEF Staged, Regular, Busy
  <1>9. OnlyJoins(base)
      BY <1>5, <1>6 DEF OnlyJoins, Fresh, Alone
  <1>10. NextID(n) \in OwnID(n) /\ NextID(n) \in MessageID
      BY DrawnIsNew
  <1>11. Staged(r, n, InFlight, B) /\ OnlyJoins(r) /\ (base.seedAddrs # <<>> => r.seedAddrs # <<>>)
    <2>1. CASE n = BootOrder[1]
      <3>1. ConfSeed[flush(s).id] = <<>>
          BY <1>4, <2>1 DEF StartedAsMain, flush, NodeState
      <3>2. r = base
          BY <3>1 DEF hardReset, goStateInit, base
      <3> QED
          BY <1>8, <1>9, <3>2
    <2>2. CASE n # BootOrder[1]
      <3>1. ConfSeed[n] = <<BootOrder[1]>> /\ BootOrder[1] \in B /\ ConfSeed[n] # <<>>
          BY <2>2 DEF StartedAsMain
      <3>2. flush(s).id = n
          BY <1>4 DEF flush, NodeState
      <3>3. r = issueJoin(base, 0, NextID(n))
          BY <3>1, <3>2 DEF hardReset, goStateInit, base
      <3>4. 0 \in 0 .. CtxJoin /\ B \in SUBSET Node
          BY SeedAssumption DEF Alive
      <3>5. Lives(r, base, NextID(n), B) /\ (OnlyJoins(base) => OnlyJoins(r))
        <4> HIDE DEF r, B
        <4> DEFINE j == issueJoin(base, 0, NextID(n))
        <4>1. Lives(j, base, NextID(n), B) /\ (OnlyJoins(base) => OnlyJoins(j))
            BY <1>2, <1>5, <1>7, <1>10, <2>2, <3>1, <3>4, IssueJoinLives
        <4> QED
            BY <3>3, <4>1
      <3>6. Sound(r, OwnID(n))
        <4>1. Sound(s, OwnID(n)) /\ OwnID(n) \in SUBSET MessageID
            BY OwnIDs DEF s, InOrder, NodesInOrder
        <4> QED
            BY <1>10, <4>1, HardResetFollows DEF Follows
      <3> HIDE DEF r, B
      <3>7. Staged(r, n, InFlight, B)
          BY <1>5, <1>8, <1>10, <3>5, <3>6, LivesStaged
      <3> QED
          BY <1>9, <3>5, <3>7 DEF Lives
    <2> QED
        BY <2>1, <2>2
  <1>12. Before(r, n)
      BY <1>4, <1>5, <1>11 DEF Before, s
  <1> QED
      BY <1>11, <1>12 DEF s

\* The step lemma.  Give counts the commands, so the steps that take one are out.
LEMMA NextUndisturbed ==
    ASSUME InOrder, StartedAsMain, Undisturbed, [Next]_vars, given = 0, given' = 0
    PROVE  Undisturbed'
  <1>1. CASE UNCHANGED vars
    <2>1. node' = node /\ net' = net
        BY <1>1 DEF vars
    <2>2. InFlight' = InFlight /\ Alive' = Alive
        BY <2>1 DEF InFlight, Alive
    <2> QED
        BY <2>1, <2>2 DEF Undisturbed
  <1>2. CASE Next
    <2> PICK n \in Node :
            \/ Boot(n) \/ Deliver(n) \/ UpdateTimerExpires(n) \/ TimerExpires(n)
            \/ Coincide(n) \/ HardReset(n) \/ ResetDropsArrival(n) \/ Pause(n)
        BY <1>2 DEF Next
    <2> DEFINE opened == [net EXCEPT ![n] = Tail(@)]
               left   == {x \in InFlight : \E d \in Node : Within(x, opened[d])}
    <2>1. /\ net \in [Node -> Seq(Message)] /\ Running(n)
          /\ \A x : x \in InFlight <=> \E d \in Node : Within(x, net[d])
      <3>1. net \in [Node -> Seq(Message)]
          BY DEF InOrder, QueuesInOrder
      <3> QED
          BY <3>1, InFlightContents DEF Boot, Deliver, UpdateTimerExpires, TimerExpires, Coincide,
             HardReset, ResetDropsArrival, Pause, Give
    <2>2. Covers(Joining) /\ Covers(Joining \cup {NextID(n)}) /\ NextID(n) \in OwnID(n)
        BY <2>1, FreshCovers, NextIDIsFresh
    <2>3. ASSUME NEW k \in Node, NEW t \in node[k].timers, Waits(t), NEW r
          PROVE  Asked(t, k, InFlight \cup Sent(r))
      <3>1. Asked(t, k, InFlight)
          BY <2>3, OffWaitsForNothing, NodeStaged
      <3> QED
          BY <3>1, AskedMore
    <2>4. ASSUME NEW r, Staged(r, n, InFlight, Alive \cup {n}), Before(r, n),
                 Moves(n, {r}, net)
          PROVE  Undisturbed'
      <3>1. SendsAs(r, r)
          BY <2>4, SendsAsItself DEF Staged, Sound
      <3> DEFINE B == Alive \cup {n}
                 states == {r}
      <3>2. \A u \in states : \E x :
               /\ SendsAs(u, x) /\ Staged(x, n, InFlight, B) /\ Before(x, n)
               /\ \A k \in Node : k # n =>
                      \A t \in node[k].timers : Waits(t) => Asked(t, k, InFlight \cup Sent(x))
          BY <2>3, <2>4, <3>1
      <3>3. Moves(n, states, net) /\ B = Alive \cup {n}
          BY <2>4
      <3> HIDE DEF B, states
      <3> QED
          BY <2>1, <3>2, <3>3, MovesUndisturbed
    <2>5. ASSUME n \in Alive PROVE Alive \cup {n} = Alive
        BY <2>5
    <2>6. ASSUME net[n] # <<>>
          PROVE  /\ n \in Alive /\ opened \in [Node -> Seq(Message)]
                 /\ \A x : x \in left <=> \E d \in Node : Within(x, opened[d])
                 /\ \A x \in InFlight : x = Head(net[n]) \/ x \in left
      <3>1. /\ Within(Head(net[n]), net[n]) /\ opened \in [Node -> Seq(Message)]
            /\ \A d \in Node : \A m : Within(m, opened[d]) => Within(m, net[d])
          BY <2>6, QueueOpens
      <3>2. Head(net[n]) \in InFlight /\ Head(net[n]).dest = n
          BY <2>1, <3>1 DEF InOrder, QueuesInOrder
      <3>3. n \in Alive
          BY <3>2 DEF Undisturbed, Speaks
      <3>4. \A d \in Node : \A m : Within(m, net[d]) => m = Head(net[n]) \/ Within(m, opened[d])
          BY <2>6, QueueKeeps
      <3> HIDE DEF opened
      <3> QED
          BY <2>1, <3>1, <3>3, <3>4
    <2> HIDE DEF opened, left
    <2>7. CASE Boot(n)
      <3>1. /\ node[n].state = "OFF" /\ Moves(n, {hardReset(node[n], NextID(n))}, net)
            /\ \E i \in DOMAIN BootOrder :
                   /\ BootOrder[i] = n
                   /\ \A j \in 1 .. i - 1 : node[BootOrder[j]].state # "OFF"
          BY <2>7 DEF Boot
      <3>2. ASSUME n # BootOrder[1] PROVE BootOrder[1] \in Alive
        <4>1. PICK i \in DOMAIN BootOrder :
                  /\ BootOrder[i] = n /\ \A j \in 1 .. i - 1 : node[BootOrder[j]].state # "OFF"
            BY <3>1
        <4>2. BootOrder \in Seq(Node) /\ i \in 1 .. Len(BootOrder) /\ i # 1
            BY <3>2, <4>1, BootAssumption
        <4>3. 1 \in 1 .. i - 1 /\ BootOrder[1] \in Node
            BY <4>2
        <4>4. node[BootOrder[1]].state # "OFF"
            BY <4>1, <4>3
        <4> QED
            BY <4>3, <4>4, NodeStaged
      <3>3. /\ Staged(hardReset(node[n], NextID(n)), n, InFlight, Alive \cup {n})
            /\ Before(hardReset(node[n], NextID(n)), n)
          BY <2>1, <3>1, <3>2, BootUndisturbed
      <3> QED
          BY <2>4, <3>1, <3>3
    <2>8. CASE Deliver(n)
      <3> DEFINE states == received(node[n], Head(net[n]), NextID(n))
      <3>1. net[n] # <<>> /\ Moves(n, states, opened)
          BY <2>8 DEF Deliver, opened
      <3>2. n \in Alive /\ node[n].state = "IDLE"
          BY <2>6, <3>1 DEF Alive
      <3>3. /\ Handled(node[n], n, Joining) /\ Staged(node[n], n, InFlight, Alive)
            /\ Before(node[n], n) /\ \A t \in node[n].timers : t.messageID # NextID(n)
          BY <2>1, <2>2, <3>2, NodeHandled, NodeStaged, DrawnIsNew
      <3>4. ASSUME NEW r \in states
            PROVE  /\ SendsAs(r, r) /\ Staged(r, n, left, Alive) /\ Before(r, n)
                   /\ \A k \in Node : k # n =>
                          \A t \in node[k].timers : Waits(t) => Asked(t, k, left \cup Sent(r))
        <4>1. /\ Staged(r, n, left, Alive) /\ Before(r, n)
              /\ \A k \in Node : k # n =>
                     \A t \in node[k].timers : Waits(t) => Asked(t, k, left \cup Sent(r))
            BY <2>2, <2>6, <3>1, <3>3, <3>4, TakenUndisturbed
        <4> QED
            BY <4>1, SendsAsItself DEF Staged, Sound
      <3> HIDE DEF states
      <3>5. \A x \in left : x \in InFlight
          BY DEF left
      <3>6. Alive = Alive \cup {n}
          BY <2>5, <3>2
      <3> QED
          BY <2>6, <3>1, <3>4, <3>5, <3>6, MovesUndisturbed
    <2>9. CASE UpdateTimerExpires(n)
      <3>1. UpdateDue(n) /\ Moves(n, {updateHandled(n)}, net)
          BY <2>9 DEF UpdateTimerExpires
      <3>2. /\ Staged(updateHandled(n), n, InFlight, Alive) /\ Before(updateHandled(n), n)
            /\ node[n].state = "IDLE"
          BY <2>1, <3>1, UpdateUndisturbed
      <3>3. Alive \cup {n} = Alive
          BY <2>5, <3>2 DEF Alive
      <3> QED
          BY <2>4, <3>1, <3>2, <3>3
    <2>10. CASE TimerExpires(n)
      <3>1. Moves(n, {timerHandled(n, t) : t \in TimersDue(n)}, net)
          BY <2>10 DEF TimerExpires
      <3>2. PICK t \in TimersDue(n) : Moves(n, {timerHandled(n, t)}, net)
          BY <3>1 DEF Moves
      <3>3. /\ Staged(timerHandled(n, t), n, InFlight, Alive) /\ Before(timerHandled(n, t), n)
            /\ node[n].state = "IDLE"
          BY <2>1, TimerUndisturbed
      <3>4. Alive \cup {n} = Alive
          BY <2>5, <3>3 DEF Alive
      <3> QED
          BY <2>4, <3>2, <3>3, <3>4
    <2>11. CASE Coincide(n)
      <3>1. PICK s \in (IF UpdateDue(n) THEN {updateHandled(n)} ELSE {})
                           \cup {timerHandled(n, t) : t \in TimersDue(n)} :
                LET fresh == FreshID(n) \ {t.messageID : t \in s.timers}
                IN  /\ fresh # {}
                    /\ Moves(n, {[r EXCEPT !.tx = ByPriority(@)] :
                                     r \in received(s, Head(net[n]), Least(fresh))}, opened)
          BY <2>11 DEF Coincide, opened
      <3> DEFINE fresh  == FreshID(n) \ {t.messageID : t \in s.timers}
                 mid    == Least(fresh)
                 after  == received(s, Head(net[n]), mid)
                 states == {[r EXCEPT !.tx = ByPriority(@)] : r \in after}
      <3>2. /\ net[n] # <<>> /\ Moves(n, states, opened)
            /\ fresh \in SUBSET FreshID(n) /\ fresh # {}
          BY <2>11, <3>1 DEF Coincide
      <3>3. (UpdateDue(n) /\ s = updateHandled(n)) \/ \E t \in TimersDue(n) : s = timerHandled(n, t)
          OBVIOUS
      <3>4. Staged(s, n, InFlight, Alive) /\ Before(s, n)
          BY <2>1, <3>3, UpdateUndisturbed, TimerUndisturbed
      <3>5. PICK J : Covers(J) /\ Handled(s, n, J)
          BY <2>1, <2>2, <3>3, UpdateHandled, TimerHandled
      <3>6. mid \in OwnID(n) /\ mid \in fresh
        <4> HIDE DEF fresh
        <4> QED
            BY <3>2, LeastIsFresh
      <3>7. \A t \in s.timers : t.messageID # mid
        <4> HIDE DEF mid
        <4> QED
            BY <3>6
      <3> HIDE DEF fresh, mid
      <3>8. ASSUME NEW r \in after
            PROVE  /\ Staged(r, n, left, Alive) /\ Before(r, n)
                   /\ \A k \in Node : k # n =>
                          \A t \in node[k].timers : Waits(t) => Asked(t, k, left \cup Sent(r))
          BY <2>6, <3>2, <3>4, <3>5, <3>6, <3>7, <3>8, TakenUndisturbed
      <3> HIDE DEF after
      <3>9. ASSUME NEW r \in after PROVE SendsAs([r EXCEPT !.tx = ByPriority(@)], r)
        <4>1. r \in NodeState /\ r.tx \in Seq(Message)
            BY <3>8, <3>9 DEF Staged, Sound, NodeState
        <4> DEFINE tx == ByPriority(r.tx)
                   u  == [r EXCEPT !.tx = tx]
        <4>2. tx \in Seq(Message) /\ \A x : (\E k \in 1 .. Len(tx) : tx[k] = x) <=> x \in Sent(r)
            BY <4>1, ByPrioritySends, ByPriorityContents
        <4> HIDE DEF tx
        <4>3. u.tx = tx /\ Settled(u) = Settled(r)
            BY <4>1 DEF NodeState, Settled
        <4> HIDE DEF u
        <4>4. SendsAs(u, r)
            BY <4>2, <4>3 DEF SendsAs
        <4> QED
            BY <4>4 DEF u, tx
      <3>10. \A u \in states : \E r :
                 /\ SendsAs(u, r) /\ Staged(r, n, left, Alive) /\ Before(r, n)
                 /\ \A k \in Node : k # n =>
                        \A t \in node[k].timers : Waits(t) => Asked(t, k, left \cup Sent(r))
          BY <3>8, <3>9
      <3> HIDE DEF states
      <3>11. \A x \in left : x \in InFlight
          BY DEF left
      <3>12. Alive = Alive \cup {n}
          BY <2>5, <2>6, <3>2
      <3> QED
          BY <2>6, <3>2, <3>10, <3>11, <3>12, MovesUndisturbed
    <2>12. ~(HardReset(n) \/ ResetDropsArrival(n) \/ Pause(n))
        BY DEF HardReset, ResetDropsArrival, Pause, Give
    <2> QED
        BY <2>7, <2>8, <2>9, <2>10, <2>11, <2>12
  <1> QED
      BY <1>1, <1>2

\* Before the first node is started there is nothing on its way.
LEMMA InitUndisturbed == Init => Undisturbed
  <1> SUFFICES ASSUME Init PROVE Undisturbed
      OBVIOUS
  <1>1. \A n \in Node : node[n] = Off(n) /\ Off(n).state = "OFF" /\ net[n] = <<>>
      BY DEF Init, Off
  <1>2. InFlight = {}
    <2>1. \A d \in Node : net[d] = <<>> /\ net[d] \in Seq(Message)
        BY DEF Init
    <2>2. \A d \in Node : \A m : ~Within(m, net[d])
        BY <2>1 DEF Within
    <2>3. net \in [Node -> Seq(Message)]
        BY <2>1 DEF Init
    <2>4. \A m : m \notin InFlight
        BY <2>2, <2>3, InFlightContents
    <2> QED
        BY <2>4
  <1>3. ASSUME NEW n \in Node PROVE Fresh(Off(n))
      BY DEF Fresh, Alone, Off
  <1> QED
      BY <1>1, <1>2, <1>3 DEF Undisturbed

\* Commands are counted and never taken back.
LEMMA GivenGrows ==
    ASSUME InOrder, [Next]_vars, given' = 0
    PROVE  given = 0
  <1>1. given \in Nat
      BY BootAssumption DEF InOrder
  <1>2. given' = given \/ given' = given + 1
      BY DEF Next, vars, Boot, Deliver, UpdateTimerExpires, TimerExpires, Coincide, HardReset,
             ResetDropsArrival, Pause, Give
  <1> QED
      BY <1>1, <1>2

\* Nobody has been given a command before the count is up.
LEMMA NetworkUndisturbed ==
    ASSUME StartedAsMain
    PROVE  Spec => [](given = 0 => Undisturbed)
  <1>2. InOrder /\ (given = 0 => Undisturbed) /\ [Next]_vars
            => (given = 0 => Undisturbed)'
      BY GivenGrows, NextUndisturbed
  <1>3. Init => (given = 0 => Undisturbed)
      BY InitUndisturbed
  <1> QED
      BY <1>2, <1>3, NetworkInOrder, PTL DEF Spec

-----------------------------------------------------------------------------
(* Requests that are passed on.  The node a request goes to acknowledges it and *)
(* only then passes it on, and no two copies of it are ever on their way, also   *)
(* when it goes round and comes by the same node again.  So each timer for such  *)
(* an ACK has its request, or its ACK, on the way, or the hop limit has dropped  *)
(* the request.                                                                  *)

\* g and h place the elements of s in the sequences ss, one after the other.
Placed(s, ss, g, h, n) ==
    /\ \A p \in 1 .. Len(s) : /\ g[p] \in 1 .. n /\ h[p] \in 1 .. Len(ss[g[p]])
                              /\ s[p] = ss[g[p]][h[p]]
    /\ \A p, r \in 1 .. Len(s) : p < r => g[p] < g[r] \/ (g[p] = g[r] /\ h[p] < h[r])

\* A flattened sequence holds the sequences one after the other.
LEMMA FlattenOrder ==
    ASSUME NEW S, NEW ss \in Seq(Seq(S))
    PROVE  \E g, h : Placed(FlattenSeq(ss), ss, g, h, Len(ss))
  <1>1. CASE ss = <<>>
    <2>1. FlattenSeq(ss) = <<>> /\ Len(<<>>) = 0 /\ 1 .. 0 = {}
        BY <1>1 DEF FlattenSeq
    <2>2. Placed(FlattenSeq(ss), ss, 0, 0, Len(ss))
        BY <2>1 DEF Placed
    <2> QED
        BY <2>2
  <1>2. CASE ss # <<>>
    <2>1. PICK f : /\ FlattenSeq(ss) = f[Len(ss)]
                   /\ \A i \in 1 .. Len(ss) : f[i] = IF i = 1 THEN ss[i] ELSE f[i - 1] \o ss[i]
        BY <1>2, FlattenIs
    <2>2. Len(ss) \in Nat \ {0} /\ \A i \in 1 .. Len(ss) : ss[i] \in Seq(S) /\ Len(ss[i]) \in Nat
        BY <1>2, EmptySeq, ElementOfSeq
    <2> DEFINE Good(k) == f[k] \in Seq(S) /\ \E g, h : Placed(f[k], ss, g, h, k)
               Bad == {k \in 1 .. Len(ss) : ~Good(k)}
    <2>3. Bad = {}
      <3> SUFFICES ASSUME Bad # {} PROVE FALSE
          OBVIOUS
      <3>1. PICK k \in Bad : \A j \in Bad : k <= j
        <4>1. Bad \in SUBSET Nat
            BY <2>2
        <4> HIDE DEF Bad
        <4> QED
            BY <4>1, LeastNatural
      <3>2. k \in 1 .. Len(ss) /\ ~Good(k)
          BY <3>1
      <3>3. CASE k = 1
        <4>1. f[1] = ss[1] /\ ss[1] \in Seq(S) /\ Len(ss[1]) \in Nat
            BY <2>1, <2>2, <3>2, <3>3
        <4> DEFINE g == [p \in 1 .. Len(ss[1]) |-> 1]
                   h == [p \in 1 .. Len(ss[1]) |-> p]
        <4>2. Placed(f[1], ss, g, h, 1)
            BY <4>1 DEF Placed
        <4> HIDE DEF g, h
        <4> QED
            BY <3>2, <3>3, <4>1, <4>2
      <3>4. CASE k # 1
        <4>1. k - 1 \in 1 .. Len(ss) /\ k - 1 < k
            BY <2>2, <3>2, <3>4
        <4>2. Good(k - 1)
          <5> SUFFICES ASSUME ~Good(k - 1) PROVE FALSE
              OBVIOUS
          <5>1. k - 1 \in Bad
              BY <4>1
          <5> HIDE DEF Bad, Good
          <5>2. k <= k - 1
              BY <3>1, <5>1
          <5> QED
              BY <2>2, <3>2, <5>2
        <4> DEFINE a == f[k - 1]
                   b == ss[k]
                   c == a \o b
        <4>3. f[k] = c /\ a \in Seq(S) /\ b \in Seq(S)
            BY <2>1, <2>2, <3>2, <3>4, <4>2
        <4>4. PICK g, h : Placed(a, ss, g, h, k - 1)
            BY <4>2
        <4> HIDE DEF a, b
        <4>5. /\ c \in Seq(S) /\ Len(c) = Len(a) + Len(b) /\ Len(a) \in Nat /\ Len(b) \in Nat
              /\ \A i \in 1 .. Len(a) + Len(b) :
                     c[i] = IF i <= Len(a) THEN a[i] ELSE b[i - Len(a)]
            BY <4>3, ConcatProperties, LenProperties
        <4> HIDE DEF c
        <4> DEFINE g2 == [p \in 1 .. Len(c) |-> IF p <= Len(a) THEN g[p] ELSE k]
                   h2 == [p \in 1 .. Len(c) |-> IF p <= Len(a) THEN h[p] ELSE p - Len(a)]
        <4>6. \A p \in 1 .. Len(c) :
                  IF p <= Len(a) THEN p \in 1 .. Len(a) /\ g2[p] = g[p] /\ h2[p] = h[p] /\ c[p] = a[p]
                  ELSE p - Len(a) \in 1 .. Len(b) /\ g2[p] = k /\ h2[p] = p - Len(a)
                       /\ c[p] = b[p - Len(a)]
            BY <4>5
        <4> HIDE DEF g2, h2
        <4>7. \A p \in 1 .. Len(a) : /\ g[p] \in 1 .. k - 1 /\ h[p] \in 1 .. Len(ss[g[p]])
                                     /\ a[p] = ss[g[p]][h[p]]
            BY <4>4 DEF Placed
        <4>8. \A p, r \in 1 .. Len(a) : p < r => g[p] < g[r] \/ (g[p] = g[r] /\ h[p] < h[r])
            BY <4>4 DEF Placed
        <4>9. \A p \in 1 .. Len(c) : /\ g2[p] \in 1 .. k /\ h2[p] \in 1 .. Len(ss[g2[p]])
                                     /\ c[p] = ss[g2[p]][h2[p]]
          <5> TAKE p \in 1 .. Len(c)
          <5>1. CASE p <= Len(a)
            <6>1. p \in 1 .. Len(a) /\ g2[p] = g[p] /\ h2[p] = h[p] /\ c[p] = a[p]
                BY <4>6, <5>1
            <6>2. /\ g[p] \in 1 .. k - 1 /\ h[p] \in 1 .. Len(ss[g[p]])
                  /\ a[p] = ss[g[p]][h[p]]
                BY <4>7, <6>1
            <6>3. g[p] \in 1 .. k
                BY <2>2, <3>2, <6>2
            <6> QED
                BY <6>1, <6>2, <6>3
          <5>2. CASE ~(p <= Len(a))
            <6>1. /\ p - Len(a) \in 1 .. Len(b) /\ g2[p] = k /\ h2[p] = p - Len(a)
                  /\ c[p] = b[p - Len(a)]
                BY <4>6, <5>2
            <6>2. k \in 1 .. k
                BY <2>2, <3>2
            <6> QED
                BY <6>1, <6>2 DEF b
          <5> QED
              BY <5>1, <5>2
        <4>10. ASSUME NEW p \in 1 .. Len(c), NEW r \in 1 .. Len(c), p < r
               PROVE  g2[p] < g2[r] \/ (g2[p] = g2[r] /\ h2[p] < h2[r])
          <5>1. CASE r <= Len(a)
            <6>1. p <= Len(a)
                BY <4>5, <4>10, <5>1
            <6> QED
                BY <4>6, <4>8, <4>10, <5>1, <6>1
          <5>2. CASE ~(r <= Len(a)) /\ p <= Len(a)
            <6>1. g2[p] \in 1 .. k - 1 /\ g2[r] = k
                BY <4>6, <4>7, <5>2
            <6> QED
                BY <2>2, <3>2, <6>1
          <5>3. CASE ~(r <= Len(a)) /\ ~(p <= Len(a))
              BY <4>5, <4>6, <4>10, <5>3
          <5> QED
              BY <5>1, <5>2, <5>3
        <4>11. Placed(f[k], ss, g2, h2, k)
            BY <4>3, <4>9, <4>10 DEF Placed
        <4>12. f[k] \in Seq(S)
            BY <4>3, <4>5
        <4> QED
            BY <3>2, <4>11, <4>12
      <3> QED
          BY <3>3, <3>4
    <2>4. Good(Len(ss))
      <3> HIDE DEF Good
      <3>1. Len(ss) \in 1 .. Len(ss)
          BY <2>2
      <3> QED
          BY <2>3, <3>1
    <2> QED
        BY <2>1, <2>4
  <1> QED
      BY <1>1, <1>2

\* g places the elements of s in tx, in the same order.
Follow(s, tx, g) ==
    /\ \A p \in 1 .. Len(s) : g[p] \in 1 .. Len(tx) /\ s[p] = tx[g[p]]
    /\ \A p, r \in 1 .. Len(s) : p < r => g[p] < g[r]

\* Chosen keeps the order.
LEMMA ChosenOrder ==
    ASSUME NEW S, NEW tx \in Seq(S), NEW I
    PROVE  \E g : Follow(Chosen(tx, I), tx, g) /\ \A p \in 1 .. Len(Chosen(tx, I)) : g[p] \in I
  <1> DEFINE ss == [k \in DOMAIN tx |-> IF k \in I THEN <<tx[k]>> ELSE <<>>]
             s  == FlattenSeq(ss)
  <1>1. DOMAIN tx = 1 .. Len(tx) /\ Len(tx) \in Nat /\ \A k \in 1 .. Len(tx) : tx[k] \in S
      BY LenProperties, ElementOfSeq
  <1>2. ss \in Seq(Seq(S)) /\ Len(ss) = Len(tx)
      BY <1>1
  <1>3. ASSUME NEW k \in 1 .. Len(tx), NEW i \in 1 .. Len(ss[k])
        PROVE  k \in I /\ i = 1 /\ ss[k][i] = tx[k]
    <2>1. CASE k \in I
      <3>1. ss[k] = <<tx[k]>> /\ Len(<<tx[k]>>) = 1
          BY <1>1, <2>1
      <3> QED
          BY <2>1, <3>1
    <2>2. CASE k \notin I
      <3>1. ss[k] = <<>> /\ Len(<<>>) = 0 /\ 1 .. 0 = {}
          BY <1>1, <2>2
      <3> QED
          BY <3>1
    <2> QED
        BY <2>1, <2>2
  <1>4. Chosen(tx, I) = s
      BY DEF Chosen
  <1> HIDE DEF ss
  <1>5. PICK g, h : Placed(s, ss, g, h, Len(ss))
      BY <1>2, FlattenOrder
  <1> HIDE DEF s
  <1>6. \A p \in 1 .. Len(s) : g[p] \in 1 .. Len(tx) /\ h[p] = 1 /\ g[p] \in I /\ s[p] = tx[g[p]]
      BY <1>2, <1>3, <1>5 DEF Placed
  <1>7. \A p, r \in 1 .. Len(s) : p < r => g[p] < g[r]
      BY <1>5, <1>6 DEF Placed
  <1> QED
      BY <1>4, <1>6, <1>7 DEF Follow

\* x and y stand at two places of tx, and are no passed request and an ACK, in this order.
Ordered(tx, x, y) ==
    \E i, j \in 1 .. Len(tx) : /\ i # j /\ x = tx[i] /\ y = tx[j]
                               /\ ~(tx[i].type = "FIND_SUCCESSOR" /\ tx[j].type = "ACK")

\* Sorting by priority moves no message behind one of less priority, and none twice.
LEMMA ByPriorityOrder ==
    ASSUME NEW tx \in Seq(Message)
    PROVE  \A p, r \in 1 .. Len(ByPriority(tx)) :
               p < r => Ordered(tx, ByPriority(tx)[p], ByPriority(tx)[r])
  <1> DEFINE of(p) == {k \in DOMAIN tx : tx[k].type = TxPriority[p]}
             parts == [p \in DOMAIN TxPriority |-> Chosen(tx, of(p))]
             s == FlattenSeq(parts)
  <1>1. /\ DOMAIN TxPriority = 1 .. 7
        /\ \A p \in 1 .. 7 : /\ TxPriority[p] = "ACK" <=> p = 3
                             /\ TxPriority[p] = "FIND_SUCCESSOR" <=> p = 5
        /\ \A p, r \in 1 .. 7 : TxPriority[p] = TxPriority[r] => p = r
    <2>1. /\ TxPriority[1] = "JOIN" /\ TxPriority[2] = "NOTIFY" /\ TxPriority[3] = "ACK"
          /\ TxPriority[4] = "SUCCESSOR" /\ TxPriority[5] = "FIND_SUCCESSOR"
          /\ TxPriority[6] = "PREDECESSOR" /\ TxPriority[7] = "FIND_PREDECESSOR"
          /\ DOMAIN TxPriority = 1 .. 7
        BY DEF TxPriority
    <2>2. \A p \in 1 .. 7 : p = 1 \/ p = 2 \/ p = 3 \/ p = 4 \/ p = 5 \/ p = 6 \/ p = 7
        OBVIOUS
    <2> QED
        BY <2>1, <2>2
  <1>2. \A p \in 1 .. 7 : \A k \in 1 .. Len(tx) : k \in of(p) <=> tx[k].type = TxPriority[p]
      BY ElementOfSeq
  <1> HIDE DEF of
  <1>3. ASSUME NEW p \in 1 .. 7
        PROVE  /\ Chosen(tx, of(p)) \in Seq(Message)
               /\ \E g : /\ Follow(Chosen(tx, of(p)), tx, g)
                         /\ \A k \in 1 .. Len(Chosen(tx, of(p))) : g[k] \in of(p)
      BY ChosenContents, ChosenOrder
  <1>4. parts \in Seq(Seq(Message)) /\ Len(parts) = 7
    <2>1. parts = [p \in 1 .. 7 |-> Chosen(tx, of(p))] /\ 7 \in Nat
        BY <1>1
    <2>2. [p \in 1 .. 7 |-> Chosen(tx, of(p))] \in Seq(Seq(Message))
        BY <1>3
    <2> QED
        BY <2>1, <2>2
  <1>5. \A p \in 1 .. 7 : parts[p] = Chosen(tx, of(p))
      BY <1>1
  <1>6. ByPriority(tx) = s
      BY DEF ByPriority, of
  <1> HIDE DEF parts
  <1>7. PICK g, h : Placed(s, parts, g, h, 7)
      BY <1>4, FlattenOrder
  <1> HIDE DEF s
  <1>8. ASSUME NEW p \in 1 .. Len(s), NEW r \in 1 .. Len(s), p < r
        PROVE  Ordered(tx, s[p], s[r])
    <2>1. /\ g[p] \in 1 .. 7 /\ h[p] \in 1 .. Len(parts[g[p]]) /\ s[p] = parts[g[p]][h[p]]
          /\ g[r] \in 1 .. 7 /\ h[r] \in 1 .. Len(parts[g[r]]) /\ s[r] = parts[g[r]][h[r]]
          /\ g[p] < g[r] \/ (g[p] = g[r] /\ h[p] < h[r])
        BY <1>7, <1>8 DEF Placed
    <2>2. PICK a : /\ Follow(parts[g[p]], tx, a)
                   /\ \A k \in 1 .. Len(parts[g[p]]) : a[k] \in of(g[p])
        BY <1>3, <1>5, <2>1
    <2>3. PICK b : /\ Follow(parts[g[r]], tx, b)
                   /\ \A k \in 1 .. Len(parts[g[r]]) : b[k] \in of(g[r])
        BY <1>3, <1>5, <2>1
    <2>4. CASE g[p] = g[r]
      <3>1. h[r] \in 1 .. Len(parts[g[p]]) /\ h[p] < h[r]
          BY <2>1, <2>4
      <3>2. /\ a[h[p]] \in 1 .. Len(tx) /\ a[h[r]] \in 1 .. Len(tx)
            /\ s[p] = tx[a[h[p]]] /\ s[r] = tx[a[h[r]]]
            /\ a[h[p]] \in of(g[p]) /\ a[h[r]] \in of(g[p])
            /\ a[h[p]] < a[h[r]]
          BY <2>1, <2>2, <2>4, <3>1 DEF Follow
      <3>3. a[h[p]] # a[h[r]]
          BY <3>2
      <3>4. tx[a[h[p]]].type = tx[a[h[r]]].type
          BY <1>2, <2>1, <3>2
      <3> QED
          BY <3>2, <3>3, <3>4 DEF Ordered
    <2>5. CASE g[p] < g[r]
      <3>1. /\ a[h[p]] \in 1 .. Len(tx) /\ b[h[r]] \in 1 .. Len(tx)
            /\ s[p] = tx[a[h[p]]] /\ s[r] = tx[b[h[r]]]
            /\ a[h[p]] \in of(g[p]) /\ b[h[r]] \in of(g[r])
          BY <2>1, <2>2, <2>3 DEF Follow
      <3>2. tx[a[h[p]]].type = TxPriority[g[p]] /\ tx[b[h[r]]].type = TxPriority[g[r]]
          BY <1>2, <2>1, <3>1
      <3>3. g[p] # g[r] /\ ~(g[p] = 5 /\ g[r] = 3)
          BY <2>1, <2>5
      <3>4. a[h[p]] # b[h[r]]
          BY <1>1, <2>1, <3>2, <3>3
      <3>5. ~(tx[a[h[p]]].type = "FIND_SUCCESSOR" /\ tx[b[h[r]]].type = "ACK")
          BY <1>1, <2>1, <3>2, <3>3
      <3> QED
          BY <3>1, <3>4, <3>5 DEF Ordered
    <2> QED
        BY <2>1, <2>4, <2>5
  <1>9. \A p, r \in 1 .. Len(s) : p < r => Ordered(tx, s[p], s[r])
      BY <1>8
  <1> QED
      BY <1>6, <1>9

\* The timer for the ACK of a request the node has passed on.
Forwarded(t) == t.type = "RX_ACK" /\ t.retransmitCounter # 0

\* A request that is taken, and not dropped by the hop limit.
Taken(m) == IsRequest(m) /\ isAddrValid(m)

\* a acknowledges m.
AckFor(a, m) == /\ a.type = "ACK" /\ a.dest = m.src
                /\ a.messageID = m.messageID /\ a.retransmitCounter = 0

\* b is m passed on by node n.
Passes(b, n, m) == b.type = "FIND_SUCCESSOR" /\ b.messageID = m.messageID /\ b.src = n

\* r is what handling m makes of s: at most two messages are sent, of a request that is
\* taken first its ACK and then, if anything, an answer or the request itself, and only
\* then there is one timer more for the ACK of a request passed on.
Relays(r, s, m) ==
    /\ \/ r.tx = s.tx /\ ~Taken(m)
       \/ \E a : /\ r.tx = Append(s.tx, a) /\ ~IsRequest(a) /\ (Taken(m) => AckFor(a, m))
       \/ \E a, b : /\ r.tx = Append(Append(s.tx, a), b)
                    /\ ~IsRequest(a) /\ (Taken(m) => AckFor(a, m))
                    /\ IsRequest(b) => Taken(m) /\ Passes(b, s.id, m)
    /\ \A t \in r.timers : Forwarded(t) /\ t \notin s.timers =>
           /\ Taken(m) /\ t.messageID = m.messageID
           /\ \E b \in Sent(r) : Passes(b, s.id, m) /\ b.retransmitCounter = t.retransmitCounter
    /\ \A t, u \in r.timers :
           Forwarded(t) /\ t \notin s.timers /\ Forwarded(u) /\ u \notin s.timers => t = u
    /\ m.type = "ACK" /\ isAddrValid(m) =>
           \A t \in r.timers : t.type = "RX_ACK" /\ t.messageID = m.messageID =>
               \E u \in s.timers : /\ u \notin r.timers
                                   /\ u.type = "RX_ACK" /\ u.messageID = m.messageID
    /\ \A t \in r.timers : t.type = "RX_ACK" => t \in s.timers \/ m.type # "ACK"

\* sendMessage adds the message at the end, unless it is for the node itself.
LEMMA SendAppends ==
    ASSUME NEW s \in NodeState, NEW m
    PROVE  /\ sendMessage(s, m).tx = (IF m.dest = s.id THEN s.tx ELSE Append(s.tx, m))
           /\ sendMessage(s, m).timers = s.timers /\ sendMessage(s, m).id = s.id
           /\ sendMessage(s, m).predecessor = s.predecessor
BY DEF sendMessage, NodeState

\* What stands at the end of tx is sent.
LEMMA AppendedSent ==
    ASSUME NEW tx \in Seq(Message), NEW a \in Message, NEW b \in Message, NEW r,
           r.tx = Append(Append(tx, a), b)
    PROVE  b \in Sent(r)
  <1> DEFINE one == Append(tx, a)
             two == Append(one, b)
  <1>1. one \in Seq(Message) /\ Len(one) \in Nat
      OBVIOUS
  <1> HIDE DEF one
  <1>2. Len(two) = Len(one) + 1 /\ two[Len(one) + 1] = b
      BY <1>1
  <1>3. Len(one) + 1 \in 1 .. Len(two)
      BY <1>1, <1>2
  <1> HIDE DEF two
  <1>4. r.tx = two
      BY DEF two, one
  <1> QED
      BY <1>2, <1>3, <1>4 DEF Sent

\* Passing a request on.
LEMMA ForwardRelays ==
    ASSUME NEW s \in NodeState, NEW m \in Message, NEW addr \in Node, addr # s.id
    PROVE  LET r == forwardFindSuccessor(s, m, addr)
           IN  \E b \in Message : \E t :
                   /\ r.tx = Append(s.tx, b) /\ r.timers = s.timers \cup {t}
                   /\ Passes(b, s.id, m) /\ b.retransmitCounter = t.retransmitCounter
                   /\ t.messageID = m.messageID
  <1> DEFINE fwd == [m EXCEPT !.type = "FIND_SUCCESSOR", !.src = s.id, !.dest = addr,
                              !.service = s.id, !.retransmitCounter = @ + 1]
             sent == sendMessage(s, fwd)
             t    == TimerFor("RX_ACK", fwd, 0)
             r    == pushTimers(sent, {"RX_ACK"}, fwd, 0)
  <1>1. s.id \in Node /\ m.retransmitCounter + 1 \in Nat
      BY DEF NodeState, Message
  <1>2. /\ fwd \in Message /\ fwd.type = "FIND_SUCCESSOR" /\ fwd.src = s.id /\ fwd.dest = addr
        /\ fwd.messageID = m.messageID
      BY <1>1 DEF Message, MessageType
  <1> HIDE DEF fwd
  <1>3. sent.tx = Append(s.tx, fwd) /\ sent.timers = s.timers /\ sent \in NodeState
      BY <1>2, SendAppends, SendIs
  <1>4. t.messageID = m.messageID /\ t.retransmitCounter = fwd.retransmitCounter
      BY <1>2 DEF TimerFor
  <1> HIDE DEF sent
  <1>5. r.tx = Append(s.tx, fwd) /\ r.timers = s.timers \cup {t}
      BY <1>3 DEF pushTimers, NodeState
  <1>6. forwardFindSuccessor(s, m, addr) = r
      BY DEF forwardFindSuccessor, sent, fwd
  <1> HIDE DEF r, t
  <1> QED
      BY <1>2, <1>4, <1>5, <1>6 DEF Passes

\* Answering one.
LEMMA ReplyRelays ==
    ASSUME NEW s \in NodeState, NEW m \in Message, NEW addr \in Node, m.initiator # s.id
    PROVE  LET r == replyFindSuccessor(s, m, addr)
           IN  /\ \E b \in Message : r.tx = Append(s.tx, b) /\ ~IsRequest(b)
               /\ r.timers \subseteq s.timers
  <1> DEFINE reply   == createSuccessorMessage(s, m, addr)
             replied == sendMessage(s, reply)
  <1>1. /\ s.id \in Node /\ addr \in IdSpace /\ m.initiator \in Node /\ m.messageID \in MessageID
        /\ s.predecessor \in Node
      BY NodeAssumption DEF NodeState, Message
  <1>2. reply \in Message /\ reply.type = "SUCCESSOR" /\ reply.dest = m.initiator
      BY <1>1 DEF createSuccessorMessage, createMessage, Message, MessageType
  <1> HIDE DEF reply
  <1>3. replied.tx = Append(s.tx, reply) /\ replied.timers = s.timers /\ replied \in NodeState
      BY <1>2, SendAppends, SendIs
  <1> HIDE DEF replied
  <1>4. adoptJoiner(replied, m).tx = replied.tx /\ adoptJoiner(replied, m).timers \subseteq replied.timers
      BY <1>3 DEF adoptJoiner, setPredecessor, setSuccessorRemoveTimers, removeTimers, NodeState
  <1>5. replyFindSuccessor(s, m, addr) \in {replied, adoptJoiner(replied, m)}
      BY DEF replyFindSuccessor, replied, reply
  <1> QED
      BY <1>2, <1>3, <1>4, <1>5 DEF IsRequest

\* goStateService on RX_JOIN and RX_FIND_SUCCESSOR.
LEMMA RxFindSuccessorRelays ==
    ASSUME NEW I, NEW s, Sound(s, I), NEW m \in Message, Taken(m), m.src # s.id,
           m.initiator # s.id, m.isJoin => m.searched = Plus(m.initiator, 1)
    PROVE  Relays(rxFindSuccessor(s, m), s, m)
  <1> DEFINE learnt == learnSeed(s, m)
             ack    == createAckMessage(learnt, m)
             acked  == sendMessage(learnt, ack)
             lookup == findSuccessor(acked, m.searched, m.src, m.initiator, m.isJoin)
             r      == rxFindSuccessor(s, m)
  <1> SUFFICES Relays(r, s, m)
      OBVIOUS
  <1>1. learnt \in NodeState /\ learnt.id = s.id
      BY LearnSeedFollows DEF Follows, Sound
  <1>2. learnt.tx = s.tx /\ learnt.timers = s.timers /\ s.tx \in Seq(Message)
      BY DEF learnSeed, pushUpdateTimer, Sound, NodeState
  <1> HIDE DEF learnt
  <1>3. ack \in Message /\ AckFor(ack, m)
      BY <1>1, AckIsLetter DEF Letters, AckFor, createAckMessage, createMessage
  <1> HIDE DEF ack
  <1>4. /\ acked \in NodeState /\ acked.id = s.id /\ acked.timers = s.timers
        /\ acked.tx = Append(s.tx, ack)
    <2>1. ack.dest # learnt.id
        BY <1>1, <1>3 DEF AckFor
    <2>2. /\ acked.tx = Append(learnt.tx, ack) /\ acked.timers = learnt.timers
          /\ acked.id = learnt.id
        BY <1>1, <2>1, SendAppends
    <2>3. acked \in NodeState
        BY <1>1, <1>3, SendIs
    <2> QED
        BY <1>1, <1>2, <2>2, <2>3
  <1> HIDE DEF acked
  <1>5. lookup.found \in Node /\ (lookup.action = "FORWARD" => lookup.found # s.id)
    <2>1. m.searched \in IdSpace /\ m.initiator \in Node /\ m.isJoin \in BOOLEAN
        BY DEF Message
    <2> QED
        BY <1>4, <2>1, FoundSuits
  <1>6. r = IF lookup.action = "REPLY" THEN replyFindSuccessor(acked, m, lookup.found)
                                       ELSE forwardFindSuccessor(acked, m, lookup.found)
      BY DEF rxFindSuccessor, lookup, acked, ack, learnt
  <1>7. lookup.action \in {"REPLY", "FORWARD"}
      BY DEF findSuccessor
  <1>8. m.type # "ACK" /\ ~IsRequest(ack)
      BY <1>3 DEF Taken, IsRequest, AckFor
  <1> HIDE DEF lookup, r
  <1>9. CASE lookup.action = "REPLY"
    <2>1. PICK b \in Message : r.tx = Append(Append(s.tx, ack), b) /\ ~IsRequest(b)
        BY <1>4, <1>5, <1>6, <1>9, ReplyRelays
    <2>2. r.timers \subseteq s.timers
        BY <1>4, <1>5, <1>6, <1>9, ReplyRelays
    <2> QED
        BY <1>3, <1>8, <2>1, <2>2 DEF Relays
  <1>10. CASE lookup.action = "FORWARD"
    <2>1. PICK b \in Message : \E t :
              /\ r.tx = Append(Append(s.tx, ack), b) /\ r.timers = s.timers \cup {t}
              /\ Passes(b, s.id, m) /\ b.retransmitCounter = t.retransmitCounter
              /\ t.messageID = m.messageID
        BY <1>4, <1>5, <1>6, <1>10, ForwardRelays
    <2>2. b \in Sent(r)
        BY <1>2, <1>3, <2>1, AppendedSent
    <2> QED
        BY <1>3, <1>8, <2>1, <2>2 DEF Relays
  <1> QED
      BY <1>7, <1>9, <1>10

\* A handler that sends at most one message, no request, and passes nothing on.
LEMMA OneMessageRelays ==
    ASSUME NEW r, NEW s, NEW m, ~Taken(m), m.type # "ACK",
           r.tx = s.tx \/ \E a : r.tx = Append(s.tx, a) /\ ~IsRequest(a),
           \A t \in r.timers : Forwarded(t) => t \in s.timers
    PROVE  Relays(r, s, m)
BY DEF Relays

\* goStateService on RX_FIND_PREDECESSOR, and goStateUpdate on RX_NOTIFY.
LEMMA RxFindPredecessorRelays ==
    ASSUME NEW s \in NodeState, NEW m \in Message, m.type = "FIND_PREDECESSOR", m.src # s.id
    PROVE  Relays(rxFindPredecessor(s, m), s, m)
  <1> DEFINE ack   == createAckMessage(s, m)
             acked == sendMessage(s, ack)
             reply == createMessage(s, "PREDECESSOR", m.initiator, m.messageID, s.predecessor)
             r     == rxFindPredecessor(s, m)
  <1>1. ack \in Message /\ AckFor(ack, m) /\ ~IsRequest(ack)
      BY AckIsLetter DEF Letters, AckFor, createAckMessage, createMessage, IsRequest
  <1> HIDE DEF ack
  <1>2. acked \in NodeState /\ acked.tx = Append(s.tx, ack) /\ acked.timers = s.timers
      BY <1>1, SendIs, SendAppends DEF AckFor
  <1> HIDE DEF acked
  <1>3. ~IsRequest(reply)
      BY DEF createMessage, IsRequest
  <1>4. r = sendMessage(acked, reply)
      BY DEF rxFindPredecessor, acked, ack
  <1> HIDE DEF reply, r
  <1>5. r.timers = s.timers /\ (r.tx = Append(s.tx, ack) \/ r.tx = Append(Append(s.tx, ack), reply))
      BY <1>2, <1>4, SendAppends
  <1>6. ~Taken(m) /\ m.type # "ACK"
      BY DEF Taken, IsRequest
  <1>7. Relays(r, s, m)
      BY <1>1, <1>3, <1>5, <1>6 DEF Relays
  <1> QED
      BY <1>7 DEF r

\* A NOTIFY is acknowledged; nothing is passed on.
LEMMA RxNotifyRelays ==
    ASSUME NEW s \in NodeState, NEW m \in Message, m.type = "NOTIFY"
    PROVE  Relays(rxNotify(s, m), s, m)
  <1> DEFINE ack   == createAckMessage(s, m)
             acked == sendMessage(s, ack)
             r     == rxNotify(s, m)
  <1>1. ack \in Message /\ ~IsRequest(ack)
      BY AckIsLetter DEF Letters, createAckMessage, createMessage, IsRequest
  <1> HIDE DEF ack
  <1>2. /\ acked \in NodeState /\ acked.timers = s.timers
        /\ acked.tx = s.tx \/ acked.tx = Append(s.tx, ack)
      BY <1>1, SendIs, SendAppends
  <1> HIDE DEF acked
  <1>3. r = setPredecessor(acked, m.searched)
      BY DEF rxNotify, acked, ack
  <1>4. r.tx = acked.tx /\ r.timers = s.timers
      BY <1>2, <1>3 DEF setPredecessor, NodeState
  <1> HIDE DEF r
  <1>5. ~Taken(m) /\ m.type # "ACK"
      BY DEF Taken, IsRequest
  <1>6. Relays(r, s, m)
      BY <1>1, <1>2, <1>4, <1>5, OneMessageRelays
  <1> QED
      BY <1>6 DEF r

\* goStateUpdate on RX_PREDECESSOR: what it sends is a NOTIFY.
LEMMA RxPredecessorRelays ==
    ASSUME NEW s \in NodeState, NEW m \in Message, m.type = "PREDECESSOR", NEW mid
    PROVE  Relays(rxPredecessor(s, m, mid), s, m)
  <1> DEFINE stable == setSuccessorStabilize(s, m.searched, m.messageID)
             next   == setNextFingerToUpdate(stable)
             notify == createMessage(next, "NOTIFY", next.successor, mid, next.id)
             sent   == sendMessage(next, notify)
             r      == rxPredecessor(s, m, mid)
  <1>1. next.tx = s.tx /\ next.timers \subseteq s.timers /\ DOMAIN next = DOMAIN s
      BY DEF setSuccessorStabilize, setNextFingerToUpdate, removeTimers, NodeState
  <1> HIDE DEF next
  <1>2. ~IsRequest(notify) /\ notify.retransmitCounter = 0
      BY DEF createMessage, IsRequest
  <1> HIDE DEF notify
  <1>3. /\ sent.timers = next.timers /\ DOMAIN sent = DOMAIN s
        /\ sent.tx = s.tx \/ sent.tx = Append(s.tx, notify)
      BY <1>1 DEF sendMessage, NodeState
  <1> HIDE DEF sent
  <1> DEFINE done == pushTimers(sent, {"RX_ACK"}, notify, 0)
  <1>4. done.tx = sent.tx /\ \A t \in done.timers : t \in sent.timers \/ t.retransmitCounter = 0
      BY <1>2, <1>3 DEF pushTimers, TimerFor, NodeState
  <1>5. r = s \/ r = done
      BY DEF rxPredecessor, issueNotify, sent, notify, next
  <1> HIDE DEF done, r
  <1>6. ~Taken(m) /\ m.type # "ACK"
      BY DEF Taken, IsRequest
  <1>7. \A t \in r.timers : Forwarded(t) => t \in s.timers
      BY <1>1, <1>3, <1>4, <1>5 DEF Forwarded
  <1>8. Relays(r, s, m)
      BY <1>2, <1>3, <1>4, <1>5, <1>6, <1>7, OneMessageRelays
  <1> QED
      BY <1>8 DEF r

\* Whatever a node receives.
LEMMA ReceivedRelays ==
    ASSUME NEW I, NEW s, Sound(s, I), s.state = "IDLE", NEW m \in Message, m.src # s.id,
           IsRequest(m) => m.initiator # s.id /\ (m.isJoin => m.searched = Plus(m.initiator, 1)),
           NEW mid, NEW r \in received(s, m, mid)
    PROVE  Relays(r, s, m)
  <1>1. s \in NodeState /\ m.type \in MessageType
      BY DEF Sound, Message
  <1>2. CASE ~isAddrValid(m)
    <2>1. r = s /\ ~Taken(m)
        BY <1>2 DEF received, Taken
    <2> QED
        BY <1>2, <2>1 DEF Relays
  <1>3. CASE isAddrValid(m) /\ IsRequest(m)
    <2>1. r = rxFindSuccessor(s, m) /\ Taken(m)
        BY <1>3 DEF received, IsRequest, Taken
    <2> QED
        BY <1>3, <2>1, RxFindSuccessorRelays
  <1>4. CASE isAddrValid(m) /\ m.type = "FIND_PREDECESSOR"
    <2>1. r = rxFindPredecessor(s, m)
        BY <1>4 DEF received
    <2> QED
        BY <1>1, <1>4, <2>1, RxFindPredecessorRelays
  <1>5. CASE isAddrValid(m) /\ m.type = "NOTIFY"
    <2>1. r = rxNotify(s, m)
        BY <1>5 DEF received
    <2> QED
        BY <1>1, <1>5, <2>1, RxNotifyRelays
  <1>6. CASE isAddrValid(m) /\ m.type = "SUCCESSOR"
    <2>1. r = rxSuccessor(s, m)
        BY <1>6 DEF received
    <2>2. joinAnswered(s, m).tx = s.tx /\ joinAnswered(s, m).timers \subseteq s.timers
        BY <1>1 DEF joinAnswered, pushUpdateTimer, setNextFingerToUpdate, setPredecessor,
                    setSuccessorRemoveTimers, removeTimers, NodeState
    <2>3. fingerAnswered(s, m).tx = s.tx /\ fingerAnswered(s, m).timers \subseteq s.timers
        BY <1>1 DEF fingerAnswered, setFingerRemoveTimers, removeTimers, NodeState
    <2>4. r.tx = s.tx /\ r.timers \subseteq s.timers
        BY <2>1, <2>2, <2>3 DEF rxSuccessor
    <2>5. ~Taken(m) /\ m.type # "ACK"
        BY <1>6 DEF Taken, IsRequest
    <2> QED
        BY <2>4, <2>5, OneMessageRelays
  <1>7. CASE isAddrValid(m) /\ m.type = "PREDECESSOR"
    <2>1. r = rxPredecessor(s, m, mid)
        BY <1>7 DEF received
    <2> QED
        BY <1>1, <1>7, <2>1, RxPredecessorRelays
  <1>8. CASE isAddrValid(m) /\ m.type = "ACK"
    <2>1. ~Taken(m)
        BY <1>8 DEF Taken, IsRequest
    <2>2. CASE ackTimers(s, m) = {}
      <3>1. r = s
          BY <1>8, <2>2 DEF received
      <3>2. \A t \in s.timers : ~(t.type = "RX_ACK" /\ t.messageID = m.messageID)
          BY <2>2 DEF ackTimers
      <3> QED
          BY <2>1, <3>1, <3>2 DEF Relays
    <2>3. CASE ackTimers(s, m) # {}
      <3>1. PICK u \in ackTimers(s, m) : r = rxAck(s, u)
          BY <1>8, <2>3 DEF received
      <3>2. u \in s.timers /\ u.type = "RX_ACK" /\ u.messageID = m.messageID
          BY <3>1 DEF ackTimers
      <3>3. r.timers = s.timers \ {u} /\ r.tx = s.tx
          BY <1>1, <3>1 DEF rxAck, NodeState
      <3> QED
          BY <2>1, <3>2, <3>3 DEF Relays
    <2> QED
        BY <2>2, <2>3
  <1> QED
      BY <1>1, <1>2, <1>3, <1>4, <1>5, <1>6, <1>7, <1>8 DEF MessageType, IsRequest

\* r has at most asked for something with the identifier mid, and waits for its ACK.
Issues(r, s, mid) ==
    /\ r.tx = s.tx \/ \E x : r.tx = Append(s.tx, x) /\ x.messageID = mid /\ x.src = s.id
    /\ \A t \in r.timers : t.type = "RX_ACK" =>
           t \in s.timers \/ (t.messageID = mid /\ t.retransmitCounter = 0)

\* Asking for something, after methods that neither send nor push.
LEMMA AskIssues ==
    ASSUME NEW s, NEW u \in NodeState, u.tx = s.tx, u.timers \subseteq s.timers, u.id = s.id,
           NEW m, m.src = s.id, m.retransmitCounter = 0, NEW types, NEW k
    PROVE  Issues(pushTimers(sendMessage(u, m), types, m, k), s, m.messageID)
  <1> DEFINE sent == sendMessage(u, m)
             new  == {TimerFor(type, m, k) : type \in types}
             r    == pushTimers(sent, types, m, k)
  <1>1. /\ sent.tx = u.tx \/ sent.tx = Append(u.tx, m)
        /\ sent.timers = u.timers /\ DOMAIN sent = DOMAIN u
      BY SendAppends DEF sendMessage, NodeState
  <1>2. r = [sent EXCEPT !.timers = @ \cup new]
      BY DEF pushTimers
  <1>3. \A t \in new : t.messageID = m.messageID /\ t.retransmitCounter = 0
      BY DEF TimerFor
  <1> HIDE DEF sent, new, r
  <1>4. r.tx = sent.tx /\ r.timers = sent.timers \cup new
      BY <1>1, <1>2 DEF NodeState
  <1>5. Issues(r, s, m.messageID)
      BY <1>1, <1>3, <1>4 DEF Issues
  <1> QED
      BY <1>5 DEF r, sent

\* A step that asks for nothing.
LEMMA NothingIssued ==
    ASSUME NEW r, NEW s, NEW mid, r.tx = s.tx, r.timers \subseteq s.timers
    PROVE  Issues(r, s, mid)
BY DEF Issues

\* issueMessagePushTimers, for each of the three requests a node begins.
LEMMA IssueJoinIssues ==
    ASSUME NEW s, NEW u \in NodeState, u.tx = s.tx, u.timers \subseteq s.timers, u.id = s.id,
           NEW k, NEW mid
    PROVE  Issues(issueJoin(u, k, mid), s, mid)
  <1> DEFINE seeds == ConfSeed[u.id]
             next  == (u.currSeed + 1) % Len(seeds)
             join  == [createMessage(u, "JOIN", seeds[next + 1], mid, Plus(u.id, 1))
                           EXCEPT !.isJoin = TRUE]
             moved == [u EXCEPT !.currSeed = next]
  <1>1. join.src = u.id /\ join.messageID = mid /\ join.retransmitCounter = 0
      BY DEF createMessage
  <1>2. moved.tx = u.tx /\ moved.timers = u.timers /\ moved.id = u.id /\ DOMAIN moved = DOMAIN u
      BY DEF NodeState
  <1> DEFINE sent == sendMessage(moved, join)
             new  == {TimerFor(type, join, k) : type \in {"RX_SUCCESSOR_ON_JOIN", "RX_ACK"}}
             r    == pushTimers(sent, {"RX_SUCCESSOR_ON_JOIN", "RX_ACK"}, join, k)
  <1>3. r = [sent EXCEPT !.timers = @ \cup new]
      BY DEF pushTimers
  <1>4. \A t \in new : t.messageID = mid /\ t.retransmitCounter = 0
      BY <1>1 DEF TimerFor
  <1>5. issueJoin(u, k, mid) = r
      BY DEF issueJoin
  <1> HIDE DEF join, moved, new, r
  <1>6. /\ sent.tx = s.tx \/ sent.tx = Append(s.tx, join)
        /\ sent.timers \subseteq s.timers /\ DOMAIN sent = DOMAIN u
      BY <1>2 DEF sendMessage, NodeState
  <1> HIDE DEF sent
  <1>7. r.tx = sent.tx /\ r.timers = sent.timers \cup new
      BY <1>3, <1>6 DEF NodeState
  <1>8. Issues(r, s, mid)
      BY <1>1, <1>4, <1>6, <1>7 DEF Issues
  <1> QED
      BY <1>5, <1>8

\* What a stabilize issues.
LEMMA IssueFindPredecessorIssues ==
    ASSUME NEW s, NEW u \in NodeState, u.tx = s.tx, u.timers \subseteq s.timers, u.id = s.id,
           NEW mid
    PROVE  Issues(issueFindPredecessor(u, mid), s, mid)
  <1> DEFINE find == createMessage(u, "FIND_PREDECESSOR", u.successor, mid, Minus(u.successor, 1))
  <1>1. find.src = s.id /\ find.messageID = mid /\ find.retransmitCounter = 0
      BY DEF createMessage
  <1>2. issueFindPredecessor(u, mid) =
            pushTimers(sendMessage(u, find), {"RX_PREDECESSOR", "RX_ACK"}, find, 0)
      BY DEF issueFindPredecessor
  <1> HIDE DEF find
  <1>3. Issues(pushTimers(sendMessage(u, find), {"RX_PREDECESSOR", "RX_ACK"}, find, 0), s,
               find.messageID)
      BY <1>1, AskIssues
  <1> QED
      BY <1>1, <1>2, <1>3

\* What a lookup issues.
LEMMA IssueFindSuccessorIssues ==
    ASSUME NEW s, NEW u \in NodeState, u.tx = s.tx, u.timers \subseteq s.timers, u.id = s.id,
           NEW mid
    PROVE  Issues(issueFindSuccessor(u, mid), s, mid)
  <1> DEFINE find == createMessage(u, "FIND_SUCCESSOR", fingerPast(u), mid,
                                   FingerStart(u.id, u.cwFingerIndex))
             dropped == [u EXCEPT !.isNowUpdate = FALSE]
             asked == pushTimers(sendMessage(u, find), {"RX_SUCCESSOR", "RX_ACK"}, find, 0)
  <1>1. find.src = s.id /\ find.messageID = mid /\ find.retransmitCounter = 0
      BY DEF createMessage
  <1>2. issueFindSuccessor(u, mid) \in {dropped, asked}
      BY DEF issueFindSuccessor
  <1>3. Issues(dropped, s, mid)
    <2>1. dropped.tx = u.tx /\ dropped.timers = u.timers
        BY DEF NodeState
    <2> HIDE DEF dropped
    <2> QED
        BY <2>1, NothingIssued
  <1> HIDE DEF find, dropped
  <1>4. Issues(asked, s, find.messageID)
      BY <1>1, AskIssues
  <1> HIDE DEF asked
  <1> QED
      BY <1>1, <1>2, <1>3, <1>4

\* An expired UPDATE timer.
LEMMA UpdateExpiredIssues ==
    ASSUME NEW s \in NodeState, NEW mid
    PROVE  Issues(updateExpired(s, mid), s, mid)
  <1> DEFINE locked == [s EXCEPT !.isNowUpdate = TRUE]
             first  == [locked EXCEPT !.isNowStabilize = TRUE]
             next   == setNextFingerToUpdate(locked)
  <1>1. locked \in NodeState /\ locked.tx = s.tx /\ locked.timers = s.timers /\ locked.id = s.id
      BY DEF NodeState
  <1>2. first \in NodeState /\ first.tx = s.tx /\ first.timers = s.timers /\ first.id = s.id
      BY DEF NodeState
  <1> HIDE DEF locked
  <1>3. next \in NodeState /\ next.tx = s.tx /\ next.timers = s.timers /\ next.id = s.id
    <2>1. staleFingers(locked) # {} => lowest(staleFingers(locked)) \in Nat
      <3>1. staleFingers(locked) \subseteq FingerIndex /\ FingerIndex \subseteq Nat
          BY FingersAssumption DEF staleFingers, FingerIndex
      <3> QED
          BY <3>1, HighestLowest
    <2> QED
        BY <1>1, <2>1 DEF setNextFingerToUpdate, NodeState
  <1> HIDE DEF first, next
  <1>4. /\ Issues(issueFindPredecessor(first, mid), s, mid)
        /\ Issues(issueFindPredecessor(next, mid), s, mid)
        /\ Issues(issueFindSuccessor(next, mid), s, mid)
      BY <1>2, <1>3, IssueFindPredecessorIssues, IssueFindSuccessorIssues
  <1>5. Issues(s, s, mid)
      BY NothingIssued
  <1>6. updateExpired(s, mid) \in {s, issueFindPredecessor(first, mid),
                                   issueFindPredecessor(next, mid), issueFindSuccessor(next, mid)}
      BY DEF updateExpired, locked, first, next
  <1> QED
      BY <1>4, <1>5, <1>6

\* An expired timer that the ring does not leave waiting: that of a JOIN, of the answer
\* to a lookup, or of the ACK for a request passed on.
LEMMA TimerExpiredIssues ==
    ASSUME NEW s \in NodeState, Regular(s), NEW t \in s.timers, ~Waits(t), NEW mid
    PROVE  Issues(timerExpired(s, t, mid), s, mid)
  <1> DEFINE rest == [s EXCEPT !.timers = @ \ {t}]
  <1>1. rest \in NodeState /\ rest.tx = s.tx /\ rest.timers = s.timers \ {t} /\ rest.id = s.id
      BY DEF NodeState
  <1> HIDE DEF rest
  <1>2. t.type \in TimerType
      BY DEF NodeState, Timer
  <1>3. CASE t.type = "RX_ACK"
    <2>1. t.retryMess = "FIND_SUCCESSOR" /\ t.retransmitCounter # 0
        BY <1>3 DEF Waits, Regular, PassedOn
    <2>2. timerExpired(s, t, mid) = forwardNoAck(rest, t)
        BY <1>3, <2>1 DEF timerExpired, ackExpired, rest
    <2>3. forwardNoAck(rest, t).tx = s.tx /\ forwardNoAck(rest, t).timers \subseteq s.timers
        BY <1>1 DEF forwardNoAck, unlocked, removeTimers, NodeState
    <2> QED
        BY <2>2, <2>3, NothingIssued
  <1>4. CASE t.type = "RX_SUCCESSOR_ON_JOIN"
    <2> DEFINE gone == removeTimers(rest, {"RX_ACK", "RX_SUCCESSOR_ON_JOIN"}, "JOIN", t.messageID)
               k == IF t.requestCounter < CtxJoin THEN t.requestCounter + 1 ELSE 0
    <2>1. gone \in NodeState /\ gone.tx = s.tx /\ gone.timers \subseteq s.timers /\ gone.id = s.id
        BY <1>1 DEF removeTimers, NodeState
    <2>2. timerExpired(s, t, mid) = issueJoin(gone, k, mid)
        BY <1>4 DEF timerExpired, joinExpired, rest
    <2> HIDE DEF gone, k
    <2> QED
        BY <2>1, <2>2, IssueJoinIssues
  <1>5. CASE t.type = "RX_SUCCESSOR"
    <2> DEFINE r == [unlocked(rest) EXCEPT !.isNowStabilize = FALSE]
    <2>1. timerExpired(s, t, mid) = r
        BY <1>5 DEF timerExpired, rest
    <2>2. r.tx = s.tx /\ r.timers \subseteq s.timers
        BY <1>1 DEF unlocked, NodeState
    <2> HIDE DEF r
    <2> QED
        BY <2>1, <2>2, NothingIssued
  <1> QED
      BY <1>2, <1>3, <1>4, <1>5 DEF TimerType, Waits

\* The start of a node.
LEMMA HardResetIssues ==
    ASSUME NEW I, NEW s, Sound(s, I), s.tx = <<>>, s.timers = {}, NEW mid
    PROVE  Issues(hardReset(s, mid), s, mid)
  <1> DEFINE f == flush(s)
             reset == softReset(f)
  <1>1. f.tx = <<>> /\ f.timers = {} /\ f.id = s.id
      BY DEF flush, Sound, NodeState
  <1>2. Sound(f, I)
      BY FlushFollows DEF Follows
  <1>3. Sound(reset, I) /\ reset.id = f.id
      BY <1>2, SoftResetFollows DEF Follows
  <1> HIDE DEF f
  <1>4. reset.tx = <<>> /\ reset.timers = {}
      BY <1>1, <1>2 DEF softReset, Sound, NodeState
  <1>5. hardReset(s, mid) \in {reset, issueJoin(reset, 0, mid)}
      BY DEF hardReset, goStateInit, f
  <1> HIDE DEF reset
  <1>6. reset.timers \subseteq s.timers /\ reset.tx = s.tx /\ reset.id = s.id /\ reset \in NodeState
      BY <1>1, <1>3, <1>4 DEF Sound
  <1>7. Issues(issueJoin(reset, 0, mid), s, mid) /\ Issues(reset, s, mid)
      BY <1>6, IssueJoinIssues, NothingIssued
  <1> QED
      BY <1>5, <1>7

\* x asks, or asks again, for what id names.
Asks(x, id) == IsRequest(x) /\ x.messageID = id

\* On the way in q is the ACK for the request id, and before it not the request itself.
AckAhead(q, id) == \E i \in 1 .. Len(q) :
    /\ q[i].type = "ACK" /\ q[i].messageID = id /\ q[i].retransmitCounter = 0
    /\ \A j \in 1 .. i - 1 : ~Asks(q[j], id)

\* Timer t of node n waits for the ACK of a request that is on its way from n, or for
\* an ACK that is on its way to n, or else for nothing: the request was dropped.
Carried(t, n, N) ==
    \/ \E d \in Node : \E i \in 1 .. Len(N[d]) :
           /\ Asks(N[d][i], t.messageID) /\ N[d][i].src = n
           /\ N[d][i].retransmitCounter = t.retransmitCounter
    \/ AckAhead(N[n], t.messageID)
    \/ /\ ~isAddrValid(t)
       /\ \A d \in Node : \A i \in 1 .. Len(N[d]) : ~Asks(N[d][i], t.messageID)

\* No two requests on their way have the same identifier.
OneRequest(N) ==
    \A d, e \in Node : \A i \in 1 .. Len(N[d]), j \in 1 .. Len(N[e]) :
        /\ IsRequest(N[d][i]) /\ IsRequest(N[e][j])
        /\ N[d][i].messageID = N[e][j].messageID
        => d = e /\ i = j

\* No node waits for two ACKs of one request, which may come by it more than once.
Routed ==
    /\ OneRequest(net)
    /\ \A n \in Node :
           /\ \A t, u \in node[n].timers :
                  Forwarded(t) /\ Forwarded(u) /\ t.messageID = u.messageID => t = u
           /\ \A t \in node[n].timers : Forwarded(t) => Carried(t, n, net)

\* What node n sends after it has taken the messages T: requests of its own, and the
\* one it has taken, after the ACK for it.
Transmits(v, n, T) ==
    /\ v \in Seq(Message)
    /\ \A i, j \in 1 .. Len(v) :
           IsRequest(v[i]) /\ IsRequest(v[j]) /\ v[i].messageID = v[j].messageID => i = j
    /\ \A i \in 1 .. Len(v) : IsRequest(v[i]) =>
           \/ v[i].messageID \notin UsedID
           \/ \E m \in T : Taken(m) /\ v[i].messageID = m.messageID
    /\ \A m \in T : Taken(m) =>
           /\ \E i \in 1 .. Len(v) : AckFor(v[i], m)
           /\ \A i, j \in 1 .. Len(v) : AckFor(v[i], m) /\ Asks(v[j], m.messageID) => i < j

\* What timers it then has for the ACKs of requests passed on.
Remembers(u, n, T) ==
    /\ \A t \in u.timers : Forwarded(t) /\ t \notin node[n].timers =>
           \E m \in T : /\ Taken(m) /\ t.messageID = m.messageID
                        /\ \E i \in 1 .. Len(u.tx) :
                               /\ Passes(u.tx[i], n, m)
                               /\ u.tx[i].retransmitCounter = t.retransmitCounter
    /\ \A t, x \in u.timers : /\ Forwarded(t) /\ t \notin node[n].timers
                              /\ Forwarded(x) /\ x \notin node[n].timers
                              => t = x
    /\ \A m \in T : m.type = "ACK" /\ isAddrValid(m) =>
           \A t \in u.timers : Forwarded(t) /\ t.messageID = m.messageID =>
               \E x \in node[n].timers : /\ x # t /\ x.type = "RX_ACK"
                                         /\ x.messageID = m.messageID

\* g says where in v the messages stand that make of the queue q the queue r.
Lengthens(r, q, v, d, g) ==
    /\ Len(q) \in Nat /\ Len(r) \in Nat /\ Len(q) <= Len(r)
    /\ \A i \in 1 .. Len(q) : r[i] = q[i]
    /\ \A i \in 1 .. Len(r) : Len(q) < i => g[i] \in 1 .. Len(v) /\ r[i] = v[g[i]] /\ v[g[i]].dest = d
    /\ \A i, j \in 1 .. Len(r) : Len(q) < i /\ i < j => g[i] < g[j]
    /\ \A k \in 1 .. Len(v) : v[k].dest = d => \E i \in 1 .. Len(r) : Len(q) < i /\ r[i] = v[k]

\* What a node sends comes after what is on its way, in the order in which it is sent.
LEMMA SentLengthens ==
    ASSUME NEW q \in Seq(Message), NEW v \in Seq(Message), NEW d
    PROVE  \E g : Lengthens(q \o SentTo(v, d), q, v, d, g)
  <1> DEFINE I == {k \in DOMAIN v : v[k].dest = d}
             b == SentTo(v, d)
             r == q \o b
  <1>1. b = Chosen(v, I)
      BY DEF SentTo
  <1>2. \A k \in 1 .. Len(v) : k \in I <=> v[k].dest = d
      BY ElementOfSeq
  <1> HIDE DEF I, b
  <1>3. /\ b \in Seq(Message)
        /\ \A x : Within(x, b) <=> \E k \in 1 .. Len(v) : k \in I /\ v[k] = x
      BY <1>1, ChosenContents
  <1>4. PICK h : Follow(b, v, h) /\ \A p \in 1 .. Len(b) : h[p] \in I
      BY <1>1, ChosenOrder
  <1>5. /\ Len(r) = Len(q) + Len(b) /\ Len(q) \in Nat /\ Len(b) \in Nat
        /\ \A i \in 1 .. Len(q) + Len(b) : r[i] = IF i <= Len(q) THEN q[i] ELSE b[i - Len(q)]
      BY <1>3, ConcatProperties, LenProperties
  <1> HIDE DEF r
  <1> DEFINE g == [i \in 1 .. Len(r) |-> h[i - Len(q)]]
  <1>6. /\ \A p \in 1 .. Len(b) : h[p] \in 1 .. Len(v) /\ b[p] = v[h[p]] /\ v[h[p]].dest = d
        /\ \A p, s \in 1 .. Len(b) : p < s => h[p] < h[s]
      BY <1>2, <1>4 DEF Follow
  <1>7. ASSUME NEW i \in 1 .. Len(r), Len(q) < i
        PROVE  /\ g[i] \in 1 .. Len(v) /\ r[i] = v[g[i]] /\ v[g[i]].dest = d
               /\ g[i] = h[i - Len(q)] /\ i - Len(q) \in 1 .. Len(b)
    <2>1. i - Len(q) \in 1 .. Len(b) /\ r[i] = b[i - Len(q)] /\ g[i] = h[i - Len(q)]
        BY <1>5, <1>7
    <2> QED
        BY <1>6, <2>1
  <1>8. ASSUME NEW i \in 1 .. Len(r), NEW j \in 1 .. Len(r), Len(q) < i, i < j
        PROVE  g[i] < g[j]
    <2>1. Len(q) < j
        BY <1>5, <1>8
    <2>2. /\ g[i] = h[i - Len(q)] /\ i - Len(q) \in 1 .. Len(b)
          /\ g[j] = h[j - Len(q)] /\ j - Len(q) \in 1 .. Len(b)
        BY <1>7, <1>8, <2>1
    <2>3. i - Len(q) < j - Len(q)
        BY <1>5, <1>8
    <2> QED
        BY <1>6, <2>2, <2>3
  <1>9. ASSUME NEW k \in 1 .. Len(v), v[k].dest = d
        PROVE  \E i \in 1 .. Len(r) : Len(q) < i /\ r[i] = v[k]
    <2>1. Within(v[k], b)
        BY <1>2, <1>3, <1>9
    <2>2. PICK p \in 1 .. Len(b) : b[p] = v[k]
        BY <2>1 DEF Within
    <2>3. Len(q) + p \in 1 .. Len(r) /\ Len(q) < Len(q) + p /\ r[Len(q) + p] = v[k]
        BY <1>5, <2>2
    <2> QED
        BY <2>3
  <1> HIDE DEF g
  <1>10. Lengthens(r, q, v, d, g)
      BY <1>5, <1>7, <1>8, <1>9 DEF Lengthens
  <1> QED
      BY <1>10 DEF r, b

\* The queues q are those of the network when node n has taken the messages T from its own.
Opened(q, n, T) ==
    \/ q = net /\ T = {}
    \/ net[n] # <<>> /\ q = [net EXCEPT ![n] = Tail(@)] /\ T = {Head(net[n])}

\* What was on its way still is, off[d] places further to the front, but for T.
Kept(off, n, T, q) ==
    /\ off \in [Node -> {0, 1}]
    /\ \A d \in Node : d # n => off[d] = 0
    /\ off[n] = 0 => T = {}
    /\ off[n] = 1 => T = {net[n][1]} /\ 1 \in 1 .. Len(net[n])
    /\ \A d \in Node : /\ Len(q[d]) = Len(net[d]) - off[d]
                       /\ \A i \in 1 .. Len(q[d]) : /\ i + off[d] \in 1 .. Len(net[d])
                                                    /\ q[d][i] = net[d][i + off[d]]

\* Nothing but the head of a queue is taken.
LEMMA OpenedPlaces ==
    ASSUME InOrder, NEW n \in Node, NEW q, NEW T, Opened(q, n, T)
    PROVE  /\ q \in [Node -> Seq(Message)]
           /\ \E off : Kept(off, n, T, q)
  <1>1. net \in [Node -> Seq(Message)] /\ \A d \in Node : net[d] \in Seq(Message) /\ Len(net[d]) \in Nat
      BY LenProperties DEF InOrder, QueuesInOrder
  <1> DEFINE At(off, d) == /\ Len(q[d]) = Len(net[d]) - off[d]
                            /\ \A i \in 1 .. Len(q[d]) : /\ i + off[d] \in 1 .. Len(net[d])
                                                         /\ q[d][i] = net[d][i + off[d]]
  <1>2. CASE q = net /\ T = {}
    <2> DEFINE off == [d \in Node |-> 0]
    <2>1. /\ off \in [Node -> {0, 1}] /\ off[n] = 0
          /\ \A d \in Node : off[d] = 0
        OBVIOUS
    <2> HIDE DEF off
    <2>2. ASSUME NEW d \in Node
          PROVE  At(off, d)
      <3>1. q[d] = net[d] /\ off[d] = 0 /\ Len(net[d]) \in Nat
          BY <1>1, <1>2, <2>1
      <3>2. ASSUME NEW i \in 1 .. Len(net[d])
            PROVE  i + off[d] = i /\ q[d][i] = net[d][i + off[d]]
        <4>1. i + off[d] = i
            BY <3>1
        <4> QED
            BY <3>1, <4>1
      <3>3. Len(q[d]) = Len(net[d]) - off[d]
          BY <3>1
      <3>4. \A i \in 1 .. Len(q[d]) : i + off[d] \in 1 .. Len(net[d]) /\ q[d][i] = net[d][i + off[d]]
          BY <3>1, <3>2
      <3> QED
          BY <3>3, <3>4
    <2> HIDE DEF At
    <2>3. \A d \in Node : At(off, d)
        BY <2>2
    <2>4. q \in [Node -> Seq(Message)]
        BY <1>1, <1>2
    <2>5. /\ \A d \in Node : d # n => off[d] = 0
          /\ off[n] = 0 => T = {}
          /\ off[n] = 1 => T = {net[n][1]} /\ 1 \in 1 .. Len(net[n])
        BY <1>2, <2>1
    <2>6. Kept(off, n, T, q)
        BY <2>1, <2>3, <2>5 DEF At, Kept
    <2> QED
        BY <2>4, <2>6
  <1>3. CASE net[n] # <<>> /\ q = [net EXCEPT ![n] = Tail(@)] /\ T = {Head(net[n])}
    <2> DEFINE off == [d \in Node |-> IF d = n THEN 1 ELSE 0]
    <2>1. /\ off \in [Node -> {0, 1}] /\ off[n] = 1
          /\ \A d \in Node : d # n => off[d] = 0
        OBVIOUS
    <2> HIDE DEF off
    <2>2. Len(net[n]) # 0
        BY <1>1, <1>3, EmptySeq
    <2>3. /\ Tail(net[n]) \in Seq(Message) /\ Len(Tail(net[n])) = Len(net[n]) - 1
          /\ \A i \in 1 .. Len(net[n]) - 1 : Tail(net[n])[i] = net[n][i + 1]
          /\ Head(net[n]) = net[n][1] /\ 1 \in 1 .. Len(net[n])
        BY <1>1, <1>3, <2>2
    <2>4. q[n] = Tail(net[n]) /\ \A d \in Node : d # n => q[d] = net[d]
        BY <1>1, <1>3
    <2>5. q \in [Node -> Seq(Message)]
        BY <1>1, <1>3, <2>3
    <2>6. ASSUME NEW d \in Node
          PROVE  At(off, d)
      <3>1. CASE d = n
        <4>1. Len(q[d]) = Len(net[d]) - off[d] /\ Len(q[d]) = Len(net[n]) - 1 /\ off[d] = 1
            BY <2>1, <2>3, <2>4, <3>1
        <4>2. ASSUME NEW i \in 1 .. Len(net[n]) - 1
              PROVE  i + 1 \in 1 .. Len(net[d]) /\ q[d][i] = net[d][i + 1]
          <5>1. i + 1 \in 1 .. Len(net[n])
              BY <1>1
          <5>2. Tail(net[n])[i] = net[n][i + 1]
              BY <2>3
          <5> QED
              BY <2>4, <3>1, <5>1, <5>2
        <4> QED
            BY <4>1, <4>2
      <3>2. CASE d # n
        <4>1. q[d] = net[d] /\ off[d] = 0 /\ Len(net[d]) \in Nat
            BY <1>1, <2>1, <2>4, <3>2
        <4>2. ASSUME NEW i \in 1 .. Len(net[d])
              PROVE  i + off[d] = i /\ q[d][i] = net[d][i + off[d]]
          <5>1. i + off[d] = i
              BY <4>1
          <5> QED
              BY <4>1, <5>1
        <4>3. Len(q[d]) = Len(net[d]) - off[d]
            BY <4>1
        <4>4. \A i \in 1 .. Len(q[d]) : i + off[d] \in 1 .. Len(net[d]) /\ q[d][i] = net[d][i + off[d]]
            BY <4>1, <4>2
        <4> QED
            BY <4>3, <4>4
      <3> QED
          BY <3>1, <3>2
    <2> HIDE DEF At
    <2>7. \A d \in Node : At(off, d)
        BY <2>6
    <2>8. /\ \A d \in Node : d # n => off[d] = 0
          /\ off[n] = 0 => T = {}
          /\ off[n] = 1 => T = {net[n][1]} /\ 1 \in 1 .. Len(net[n])
        BY <1>3, <2>1, <2>3
    <2>9. Kept(off, n, T, q)
        BY <2>1, <2>7, <2>8 DEF At, Kept
    <2> QED
        BY <2>5, <2>9
  <1> QED
      BY <1>2, <1>3 DEF Opened

\* The queues have become R: n has taken T, which left q, and has sent v.
Exchanged(n, T, q, v, R) ==
    /\ Opened(q, n, T) /\ Transmits(v, n, T)
    /\ R = [d \in Node |-> q[d] \o SentTo(v, d)]

\* What was on its way still is, off[d] places further to the front, but for T.
Shifted(off, n, T, q, R) ==
    /\ off \in [Node -> {0, 1}]
    /\ \A d \in Node : d # n => off[d] = 0
    /\ off[n] = 0 => T = {}
    /\ off[n] = 1 => T = {net[n][1]} /\ 1 \in 1 .. Len(net[n])
    /\ \A d \in Node : Len(q[d]) \in Nat /\ Len(R[d]) \in Nat /\ Len(q[d]) <= Len(R[d])
    /\ \A d \in Node : \A i \in 1 .. Len(q[d]) : /\ i + off[d] \in 1 .. Len(net[d])
                                                 /\ R[d][i] = net[d][i + off[d]]
    /\ \A d \in Node : \A i \in 1 .. Len(net[d]) :
           (d = n => off[n] = 0 \/ i # 1)
               => i - off[d] \in 1 .. Len(q[d]) /\ R[d][i - off[d]] = net[d][i]

\* Every place of the new queues is an old one or that of something sent.
LEMMA ExchangedPlaces ==
    ASSUME InOrder, NEW n \in Node, NEW T, NEW q, NEW v, NEW R, Exchanged(n, T, q, v, R)
    PROVE  /\ \E off : Shifted(off, n, T, q, R)
           /\ \A d \in Node : \E g : Lengthens(R[d], q[d], v, d, g)
  <1>0. Opened(q, n, T)
      BY DEF Exchanged
  <1>1. /\ q \in [Node -> Seq(Message)] /\ v \in Seq(Message)
        /\ \A d \in Node : R[d] = q[d] \o SentTo(v, d)
      BY <1>0, OpenedPlaces DEF Exchanged, Transmits
  <1>2. ASSUME NEW d \in Node PROVE \E g : Lengthens(R[d], q[d], v, d, g)
    <2>1. q[d] \in Seq(Message)
        BY <1>1
    <2>2. \E g : Lengthens(q[d] \o SentTo(v, d), q[d], v, d, g)
        BY <1>1, <2>1, SentLengthens
    <2> QED
        BY <1>1, <2>2
  <1>3. PICK off : Kept(off, n, T, q)
      BY <1>0, OpenedPlaces
  <1>4. \A d \in Node : /\ Len(q[d]) \in Nat /\ Len(R[d]) \in Nat /\ Len(q[d]) <= Len(R[d])
                        /\ \A i \in 1 .. Len(q[d]) : R[d][i] = q[d][i]
      BY <1>2 DEF Lengthens
  <1>5. \A d \in Node : Len(net[d]) \in Nat /\ off[d] \in {0, 1}
      BY <1>3, LenProperties DEF Kept, InOrder, QueuesInOrder
  <1>6. \A d \in Node : \A i \in 1 .. Len(q[d]) : /\ i + off[d] \in 1 .. Len(net[d])
                                                  /\ R[d][i] = net[d][i + off[d]]
      BY <1>3, <1>4 DEF Kept
  <1>7. ASSUME NEW d \in Node, NEW i \in 1 .. Len(net[d]), d = n => off[n] = 0 \/ i # 1
        PROVE  i - off[d] \in 1 .. Len(q[d]) /\ R[d][i - off[d]] = net[d][i]
    <2>1. off[d] = 0 \/ (off[d] = 1 /\ i # 1)
        BY <1>3, <1>5, <1>7 DEF Kept
    <2>2. Len(q[d]) = Len(net[d]) - off[d] /\ Len(net[d]) \in Nat
        BY <1>3, <1>5 DEF Kept
    <2>3. i - off[d] \in 1 .. Len(q[d]) /\ (i - off[d]) + off[d] = i
      <3>1. CASE off[d] = 0
          BY <2>2, <3>1
      <3>2. CASE off[d] = 1 /\ i # 1
          BY <2>2, <3>2
      <3> QED
          BY <2>1, <3>1, <3>2
    <2> QED
        BY <1>6, <2>3
  <1>8. Shifted(off, n, T, q, R)
      BY <1>3, <1>4, <1>6, <1>7 DEF Kept, Shifted
  <1> QED
      BY <1>2, <1>8

\* What stands in a queue is in use.
LEMMA PlaceInUse ==
    ASSUME InOrder, NEW d \in Node, NEW i \in 1 .. Len(net[d])
    PROVE  net[d][i] \in InFlight /\ net[d][i].messageID \in UsedID
  <1>1. net \in [Node -> Seq(Message)]
      BY DEF InOrder, QueuesInOrder
  <1>2. Within(net[d][i], net[d])
      BY DEF Within
  <1>3. net[d][i] \in InFlight
      BY <1>1, <1>2, InFlightContents
  <1> QED
      BY <1>3 DEF UsedID

\* A request that is sent is new or the one just taken: no other is on its way.
LEMMA SentIsOnly ==
    ASSUME InOrder, Routed, NEW n \in Node, NEW T, NEW q, NEW v, NEW R,
           Exchanged(n, T, q, v, R), NEW off, Shifted(off, n, T, q, R),
           NEW k \in 1 .. Len(v), NEW e \in Node, NEW j \in 1 .. Len(q[e]),
           IsRequest(v[k]), Asks(R[e][j], v[k].messageID)
    PROVE  FALSE
  <1>1. j + off[e] \in 1 .. Len(net[e]) /\ R[e][j] = net[e][j + off[e]]
      BY DEF Shifted
  <1>2. v[k].messageID \in UsedID
      BY <1>1, PlaceInUse DEF Asks
  <1>3. PICK m \in T : Taken(m) /\ v[k].messageID = m.messageID
      BY <1>2 DEF Exchanged, Transmits
  <1>4. m = net[n][1] /\ 1 \in 1 .. Len(net[n]) /\ off[n] = 1 /\ off[e] \in {0, 1}
      BY <1>3 DEF Shifted
  <1>5. e = n /\ j + off[e] = 1
      BY <1>1, <1>3, <1>4 DEF Routed, OneRequest, Taken, Asks
  <1> QED
      BY <1>4, <1>5

\* So no two requests on their way ever have the same identifier.
LEMMA OneRequestStays ==
    ASSUME InOrder, Routed, NEW n \in Node, NEW T, NEW q, NEW v, NEW R,
           Exchanged(n, T, q, v, R)
    PROVE  OneRequest(R)
  <1>1. PICK off : Shifted(off, n, T, q, R)
      BY ExchangedPlaces
  <1>2. \A d \in Node : \E g : Lengthens(R[d], q[d], v, d, g)
      BY ExchangedPlaces
  <1> SUFFICES ASSUME NEW d \in Node, NEW e \in Node,
                      NEW i \in 1 .. Len(R[d]), NEW j \in 1 .. Len(R[e]),
                      IsRequest(R[d][i]), IsRequest(R[e][j]),
                      R[d][i].messageID = R[e][j].messageID
               PROVE  d = e /\ i = j
      BY DEF OneRequest
  <1>3. PICK g : Lengthens(R[d], q[d], v, d, g)
      BY <1>2
  <1>4. PICK h : Lengthens(R[e], q[e], v, e, h)
      BY <1>2
  <1>5. /\ Len(q[d]) \in Nat /\ Len(R[d]) \in Nat /\ Len(q[e]) \in Nat /\ Len(R[e]) \in Nat
        /\ off[d] \in {0, 1} /\ off[e] \in {0, 1}
      BY <1>1 DEF Shifted
  <1>6. CASE i <= Len(q[d]) /\ j <= Len(q[e])
    <2>1. i \in 1 .. Len(q[d]) /\ j \in 1 .. Len(q[e])
        BY <1>5, <1>6
    <2>2. /\ i + off[d] \in 1 .. Len(net[d]) /\ R[d][i] = net[d][i + off[d]]
          /\ j + off[e] \in 1 .. Len(net[e]) /\ R[e][j] = net[e][j + off[e]]
        BY <1>1, <2>1 DEF Shifted
    <2> DEFINE x == i + off[d]
               y == j + off[e]
    <2>3. /\ x \in 1 .. Len(net[d]) /\ y \in 1 .. Len(net[e])
          /\ IsRequest(net[d][x]) /\ IsRequest(net[e][y])
          /\ net[d][x].messageID = net[e][y].messageID
        BY <2>2
    <2> HIDE DEF x, y
    <2>4. d = e /\ x = y
        BY <2>3 DEF Routed, OneRequest
    <2>5. i + off[d] = j + off[d]
        BY <2>4 DEF x, y
    <2> QED
        BY <1>5, <2>4, <2>5
  <1>7. CASE i <= Len(q[d]) /\ Len(q[e]) < j
    <2>1. i \in 1 .. Len(q[d]) /\ h[j] \in 1 .. Len(v) /\ R[e][j] = v[h[j]]
        BY <1>4, <1>5, <1>7 DEF Lengthens
    <2> QED
        BY <1>1, <2>1, SentIsOnly DEF Asks
  <1>8. CASE Len(q[d]) < i /\ j <= Len(q[e])
    <2>1. j \in 1 .. Len(q[e]) /\ g[i] \in 1 .. Len(v) /\ R[d][i] = v[g[i]]
        BY <1>3, <1>5, <1>8 DEF Lengthens
    <2> QED
        BY <1>1, <2>1, SentIsOnly DEF Asks
  <1>9. CASE Len(q[d]) < i /\ Len(q[e]) < j
    <2>1. /\ g[i] \in 1 .. Len(v) /\ R[d][i] = v[g[i]] /\ v[g[i]].dest = d
          /\ h[j] \in 1 .. Len(v) /\ R[e][j] = v[h[j]] /\ v[h[j]].dest = e
        BY <1>3, <1>4, <1>9 DEF Lengthens
    <2>2. d = e
        BY <2>1 DEF Exchanged, Transmits
    <2>3. j \in 1 .. Len(R[d]) /\ Len(q[d]) < j
        BY <1>9, <2>2
    <2>4. g[j] \in 1 .. Len(v) /\ R[d][j] = v[g[j]]
        BY <1>3, <2>3 DEF Lengthens
    <2>5. g[i] = g[j]
      <3>1. /\ IsRequest(v[g[i]]) /\ IsRequest(v[g[j]])
            /\ v[g[i]].messageID = v[g[j]].messageID
          BY <2>1, <2>2, <2>4
      <3>2. \A a, b \in 1 .. Len(v) :
                IsRequest(v[a]) /\ IsRequest(v[b]) /\ v[a].messageID = v[b].messageID => a = b
          BY DEF Exchanged, Transmits
      <3> QED
          BY <2>1, <2>4, <3>1, <3>2
    <2>6. ~(i < j) /\ ~(j < i)
      <3>1. ASSUME i < j PROVE g[i] < g[j]
          BY <1>3, <1>9, <2>3, <3>1 DEF Lengthens
      <3>2. ASSUME j < i PROVE g[j] < g[i]
          BY <1>3, <1>9, <2>3, <3>2 DEF Lengthens
      <3>3. g[i] \in Int /\ g[j] \in Int
          BY <2>1, <2>4
      <3> QED
          BY <2>5, <3>1, <3>2, <3>3
    <2> QED
        BY <2>2, <2>6
  <1> QED
      BY <1>5, <1>6, <1>7, <1>8, <1>9

\* A timer of node n for the ACK of the request it takes: then it never was its sender.
LEMMA TakenNotCarried ==
    ASSUME InOrder, Routed, NEW n \in Node, NEW t \in node[n].timers, Forwarded(t),
           1 \in 1 .. Len(net[n]), IsRequest(net[n][1]), net[n][1].src # net[n][1].dest,
           t.messageID = net[n][1].messageID
    PROVE  FALSE
  <1> DEFINE m == net[n][1]
  <1>1. m.src # n
    <2>1. Within(net[n][1], net[n])
        BY DEF Within
    <2> QED
        BY <2>1 DEF InOrder, QueuesInOrder
  <1>2. Carried(t, n, net)
      BY DEF Routed
  <1>3. Asks(net[n][1], t.messageID)
      BY DEF Asks
  <1>4. ASSUME NEW d \in Node, NEW i \in 1 .. Len(net[d]), Asks(net[d][i], t.messageID), net[d][i].src = n
        PROVE  FALSE
    <2>1. d = n /\ i = 1
        BY <1>3, <1>4 DEF Routed, OneRequest, Asks
    <2> QED
        BY <1>1, <1>4, <2>1
  <1>5. ASSUME AckAhead(net[n], t.messageID) PROVE FALSE
    <2>1. PICK i \in 1 .. Len(net[n]) : /\ net[n][i].type = "ACK"
                                        /\ \A j \in 1 .. i - 1 : ~Asks(net[n][j], t.messageID)
        BY <1>5 DEF AckAhead
    <2>2. i # 1
        BY <1>3, <2>1 DEF Asks, IsRequest
    <2>3. 1 \in 1 .. i - 1
        BY <2>1, <2>2
    <2> QED
        BY <1>3, <2>1, <2>3
  <1> QED
      BY <1>2, <1>3, <1>4, <1>5 DEF Carried

\* No timer is there twice.
LEMMA TimersStay ==
    ASSUME InOrder, Routed, NEW n \in Node, NEW T, NEW q, NEW u, NEW R,
           Exchanged(n, T, q, u.tx, R), Remembers(u, n, T),
           \A m \in InFlight : m.src # m.dest,
           NEW t \in u.timers, NEW x \in u.timers, Forwarded(t), Forwarded(x),
           t.messageID = x.messageID
    PROVE  t = x
  <1>1. PICK off : Shifted(off, n, T, q, R)
      BY ExchangedPlaces
  <1>2. ASSUME NEW y \in u.timers, NEW z \in u.timers, Forwarded(y), Forwarded(z),
               y.messageID = z.messageID, y \in node[n].timers, z \notin node[n].timers
        PROVE  FALSE
    <2>1. PICK m \in T : Taken(m) /\ z.messageID = m.messageID
        BY <1>2 DEF Remembers
    <2>2. m = net[n][1] /\ 1 \in 1 .. Len(net[n])
        BY <1>1, <2>1 DEF Shifted
    <2>3. m.src # m.dest
        BY <2>2, PlaceInUse
    <2> QED
        BY <1>2, <2>1, <2>2, <2>3, TakenNotCarried DEF Taken
  <1>3. CASE t \in node[n].timers /\ x \in node[n].timers
      BY <1>3 DEF Routed
  <1>4. CASE t \notin node[n].timers /\ x \notin node[n].timers
      BY <1>4 DEF Remembers
  <1> QED
      BY <1>2, <1>3, <1>4

\* A request passed on is on its way.
LEMMA PassedIsCarried ==
    ASSUME InOrder, NEW n \in Node, NEW T, NEW q, NEW u, NEW R,
           Exchanged(n, T, q, u.tx, R), Remembers(u, n, T),
           NEW t \in u.timers, Forwarded(t), t \notin node[n].timers
    PROVE  Carried(t, n, R)
  <1>1. PICK m \in T : /\ t.messageID = m.messageID
                       /\ \E i \in 1 .. Len(u.tx) :
                              /\ Passes(u.tx[i], n, m)
                              /\ u.tx[i].retransmitCounter = t.retransmitCounter
      BY DEF Remembers
  <1>2. PICK i \in 1 .. Len(u.tx) : /\ Passes(u.tx[i], n, m)
                                    /\ u.tx[i].retransmitCounter = t.retransmitCounter
      BY <1>1
  <1> DEFINE x == u.tx[i]
  <1>3. x \in Message
      BY DEF Exchanged, Transmits
  <1>4. x.dest \in Node
      BY <1>3 DEF Message
  <1>5. PICK g : Lengthens(R[x.dest], q[x.dest], u.tx, x.dest, g)
      BY <1>4, ExchangedPlaces
  <1>6. \E p \in 1 .. Len(R[x.dest]) : R[x.dest][p] = x
      BY <1>5 DEF Lengthens
  <1>7. Asks(x, t.messageID) /\ x.src = n /\ x.retransmitCounter = t.retransmitCounter
      BY <1>1, <1>2 DEF Passes, Asks, IsRequest
  <1> HIDE DEF x
  <1> QED
      BY <1>4, <1>6, <1>7 DEF Carried

\* The request of node k is taken and acknowledged: its ACK is on its way.
LEMMA TakenIsAcked ==
    ASSUME InOrder, Routed, NEW n \in Node, NEW T, NEW q, NEW v, NEW R,
           Exchanged(n, T, q, v, R), NEW off, Shifted(off, n, T, q, R), off[n] = 1,
           Taken(net[n][1]), NEW k \in Node, net[n][1].src = k
    PROVE  AckAhead(R[k], net[n][1].messageID)
  <1> DEFINE m == net[n][1]
             id == m.messageID
  <1>1. m \in T /\ 1 \in 1 .. Len(net[n]) /\ IsRequest(m)
      BY DEF Shifted, Taken
  <1>2. /\ \E i \in 1 .. Len(v) : AckFor(v[i], m)
        /\ \A i, j \in 1 .. Len(v) : AckFor(v[i], m) /\ Asks(v[j], id) => i < j
      BY <1>1 DEF Exchanged, Transmits
  <1>3. PICK i \in 1 .. Len(v) : AckFor(v[i], m)
      BY <1>2
  <1>4. PICK g : Lengthens(R[k], q[k], v, k, g)
      BY ExchangedPlaces
  <1>5. v[i].dest = k
      BY <1>3 DEF AckFor
  <1>6. PICK p \in 1 .. Len(R[k]) : Len(q[k]) < p /\ R[k][p] = v[i]
      BY <1>4, <1>5 DEF Lengthens
  <1>7. g[p] \in 1 .. Len(v) /\ v[g[p]] = v[i] /\ Len(q[k]) \in Nat /\ Len(R[k]) \in Nat
      BY <1>4, <1>6 DEF Lengthens
  <1>8. ASSUME NEW j \in 1 .. p - 1, Asks(R[k][j], id)
        PROVE  FALSE
    <2>1. j \in 1 .. Len(R[k]) /\ j < p
        BY <1>6, <1>7
    <2>2. CASE j <= Len(q[k])
      <3>1. j \in 1 .. Len(q[k]) /\ off[k] \in {0, 1}
          BY <1>7, <2>1, <2>2 DEF Shifted
      <3>2. j + off[k] \in 1 .. Len(net[k]) /\ R[k][j] = net[k][j + off[k]]
          BY <3>1 DEF Shifted
      <3> DEFINE x == j + off[k]
      <3>3. x \in 1 .. Len(net[k]) /\ IsRequest(net[k][x]) /\ net[k][x].messageID = net[n][1].messageID
          BY <1>8, <3>2 DEF Asks
      <3> HIDE DEF x
      <3>4. k = n /\ x = 1
          BY <1>1, <3>3 DEF Routed, OneRequest
      <3> QED
          BY <3>1, <3>4 DEF x
    <2>3. CASE Len(q[k]) < j
      <3>1. g[j] \in 1 .. Len(v) /\ R[k][j] = v[g[j]] /\ g[j] < g[p]
          BY <1>4, <1>6, <2>1, <2>3 DEF Lengthens
      <3>2. AckFor(v[g[p]], m) /\ Asks(v[g[j]], id)
          BY <1>3, <1>7, <1>8, <3>1
      <3>3. g[p] < g[j]
          BY <1>2, <1>7, <3>1, <3>2
      <3> QED
          BY <1>7, <3>1, <3>3
    <2> QED
        BY <1>7, <2>1, <2>2, <2>3
  <1>9. R[k][p].type = "ACK" /\ R[k][p].messageID = id /\ R[k][p].retransmitCounter = 0
      BY <1>3, <1>6 DEF AckFor
  <1> QED
      BY <1>8, <1>9 DEF AckAhead

\* Nothing asks any more for what was neither on its way nor is taken, or is dropped.
LEMMA NoneAsks ==
    ASSUME InOrder, Routed, NEW n \in Node, NEW T, NEW q, NEW v, NEW R,
           Exchanged(n, T, q, v, R), NEW off, Shifted(off, n, T, q, R), NEW id \in UsedID,
           \A d \in Node : \A i \in 1 .. Len(net[d]) :
               Asks(net[d][i], id) => d = n /\ i = 1 /\ off[n] = 1 /\ ~Taken(net[n][1])
    PROVE  \A d \in Node : \A i \in 1 .. Len(R[d]) : ~Asks(R[d][i], id)
  <1> SUFFICES ASSUME NEW d \in Node, NEW i \in 1 .. Len(R[d]), Asks(R[d][i], id)
               PROVE  FALSE
      OBVIOUS
  <1>1. PICK g : Lengthens(R[d], q[d], v, d, g)
      BY ExchangedPlaces
  <1>2. Len(q[d]) \in Nat /\ off[d] \in {0, 1}
      BY DEF Shifted
  <1>3. CASE i <= Len(q[d])
    <2>1. i \in 1 .. Len(q[d])
        BY <1>2, <1>3
    <2>2. i + off[d] \in 1 .. Len(net[d]) /\ R[d][i] = net[d][i + off[d]]
        BY <2>1 DEF Shifted
    <2>3. d = n /\ i + off[d] = 1 /\ off[n] = 1
        BY <2>2
    <2> QED
        BY <2>1, <2>3
  <1>4. CASE Len(q[d]) < i
    <2>1. g[i] \in 1 .. Len(v) /\ R[d][i] = v[g[i]]
        BY <1>1, <1>4 DEF Lengthens
    <2>2. PICK m \in T : Taken(m) /\ id = m.messageID
        BY <2>1 DEF Exchanged, Transmits, Asks
    <2>3. m = net[n][1] /\ 1 \in 1 .. Len(net[n])
        BY <2>2 DEF Shifted
    <2> QED
        BY <2>2, <2>3 DEF Asks, Taken
  <1> QED
      BY <1>2, <1>3, <1>4

\* What a timer waits for stays on its way, or the timer goes.
LEMMA CarriedStays ==
    ASSUME InOrder, Routed, NEW n \in Node, NEW T, NEW q, NEW u, NEW R,
           Exchanged(n, T, q, u.tx, R), Remembers(u, n, T), Regular(node[n]),
           NEW k \in Node, NEW t \in node[k].timers, Forwarded(t), k = n => t \in u.timers
    PROVE  Carried(t, k, R)
  <1> DEFINE id == t.messageID
  <1>1. PICK off : Shifted(off, n, T, q, R)
      BY ExchangedPlaces
  <1>2. id \in UsedID /\ Carried(t, k, net)
      BY DEF UsedID, Routed
  <1>3. off[n] \in {0, 1} /\ off[k] \in {0, 1} /\ node[n].id = n
      BY <1>1 DEF Shifted, InOrder, NodesInOrder
  <1>4. ASSUME NEW d \in Node, NEW i \in 1 .. Len(net[d]), Asks(net[d][i], id),
               net[d][i].src = k, net[d][i].retransmitCounter = t.retransmitCounter
        PROVE  Carried(t, k, R)
    <2>1. CASE d = n => off[n] = 0 \/ i # 1
      <3>1. /\ i - off[d] \in 1 .. Len(q[d]) /\ R[d][i - off[d]] = net[d][i]
            /\ Len(q[d]) \in Nat /\ Len(R[d]) \in Nat /\ Len(q[d]) <= Len(R[d])
          BY <1>1, <2>1 DEF Shifted
      <3> DEFINE x == i - off[d]
      <3>2. x \in 1 .. Len(R[d]) /\ R[d][x] = net[d][i]
          BY <3>1
      <3> HIDE DEF x
      <3> QED
          BY <1>4, <3>2 DEF Carried
    <2>2. CASE d = n /\ off[n] = 1 /\ i = 1
      <3>1. CASE Taken(net[n][1])
        <4>1. AckAhead(R[k], net[n][1].messageID)
            BY <1>1, <1>4, <2>2, <3>1, TakenIsAcked
        <4> QED
            BY <1>4, <2>2, <4>1 DEF Carried, Asks
      <3>2. CASE ~Taken(net[n][1])
        <4>1. \A e \in Node : \A j \in 1 .. Len(net[e]) : Asks(net[e][j], id) => e = n /\ j = 1
            BY <1>4, <2>2 DEF Routed, OneRequest, Asks
        <4>2. \A e \in Node : \A j \in 1 .. Len(R[e]) : ~Asks(R[e][j], id)
            BY <1>1, <1>2, <2>2, <3>2, <4>1, NoneAsks
        <4>3. ~isAddrValid(t)
            BY <1>4, <2>2, <3>2 DEF Taken, Asks, isAddrValid
        <4> QED
            BY <4>2, <4>3 DEF Carried
      <3> QED
          BY <3>1, <3>2
    <2> QED
        BY <1>3, <2>1, <2>2
  <1>5. ASSUME AckAhead(net[k], id)
        PROVE  Carried(t, k, R)
    <2>1. PICK i \in 1 .. Len(net[k]) :
              /\ net[k][i].type = "ACK" /\ net[k][i].messageID = id
              /\ net[k][i].retransmitCounter = 0
              /\ \A j \in 1 .. i - 1 : ~Asks(net[k][j], id)
        BY <1>5 DEF AckAhead
    <2>2. CASE k = n => off[n] = 0 \/ i # 1
      <3> DEFINE x == i - off[k]
      <3>1. /\ x \in 1 .. Len(q[k]) /\ R[k][x] = net[k][i]
            /\ Len(q[k]) \in Nat /\ Len(R[k]) \in Nat /\ Len(q[k]) <= Len(R[k])
          BY <1>1, <2>2 DEF Shifted
      <3>2. ASSUME NEW j \in 1 .. x - 1, Asks(R[k][j], id)
            PROVE  FALSE
        <4>1. j \in 1 .. Len(q[k]) /\ j + off[k] \in 1 .. i - 1
            BY <1>3, <3>1
        <4>2. R[k][j] = net[k][j + off[k]]
            BY <1>1, <4>1 DEF Shifted
        <4> QED
            BY <2>1, <3>2, <4>1, <4>2
      <3>3. x \in 1 .. Len(R[k])
          BY <3>1
      <3> HIDE DEF x
      <3>4. AckAhead(R[k], id)
          BY <2>1, <3>1, <3>2, <3>3 DEF AckAhead
      <3> QED
          BY <3>4 DEF Carried
    <2>3. CASE k = n /\ off[n] = 1 /\ i = 1
      <3> DEFINE m == net[n][1]
      <3>1. m \in T /\ m.type = "ACK" /\ m.messageID = id /\ isAddrValid(m)
        <4>1. 0 <= 3 * FingersSize
            BY FingersAssumption
        <4> QED
            BY <1>1, <2>1, <2>3, <4>1 DEF Shifted, isAddrValid
      <3>2. PICK x \in node[n].timers : x # t /\ x.type = "RX_ACK" /\ x.messageID = id
          BY <2>3, <3>1 DEF Remembers
      <3>3. PassedOn(t, n)
          BY <1>3, <2>3 DEF Regular, Forwarded
      <3>4. Forwarded(x)
          BY <1>3, <3>2, <3>3 DEF Regular, Forwarded, PassedOn
      <3> QED
          BY <2>3, <3>2, <3>4 DEF Routed
    <2> QED
        BY <1>3, <2>2, <2>3
  <1>6. ASSUME ~isAddrValid(t), \A d \in Node : \A i \in 1 .. Len(net[d]) : ~Asks(net[d][i], id)
        PROVE  Carried(t, k, R)
    <2>1. \A e \in Node : \A j \in 1 .. Len(R[e]) : ~Asks(R[e][j], id)
        BY <1>1, <1>2, <1>6, NoneAsks
    <2> QED
        BY <1>6, <2>1 DEF Carried
  <1> QED
      BY <1>2, <1>4, <1>5, <1>6 DEF Carried

\* What is added at the end of a sequence of messages stands there.
LEMMA AppendPlaces ==
    ASSUME NEW S, NEW u \in Seq(S), NEW a
    PROVE  /\ Len(Append(u, a)) = Len(u) + 1 /\ Len(u) \in Nat
           /\ \A i \in 1 .. Len(u) : Append(u, a)[i] = u[i]
           /\ Append(u, a)[Len(u) + 1] = a
           /\ Append(u, a) \in Seq(S \cup {a})
  <1>1. u \in Seq(S \cup {a})
      BY ElementOfSeq, LenProperties
  <1> QED
      BY <1>1, AppendProperties

\* A step of node n keeps the requests on their way apart.
LEMMA MovesRouted ==
    ASSUME InOrder, Routed, \A m \in InFlight : m.src # m.dest,
           NEW n \in Node, Regular(node[n]), NEW T, NEW q, Opened(q, n, T),
           NEW states, Moves(n, states, q),
           \A u \in states : u \in NodeState /\ Transmits(u.tx, n, T) /\ Remembers(u, n, T)
    PROVE  Routed'
  <1>1. PICK u \in states : /\ node' = [node EXCEPT ![n] = Settled(u)]
                            /\ net' = [d \in Node |-> q[d] \o SentTo(u.tx, d)]
      BY DEF Moves
  <1>2. u \in NodeState /\ Remembers(u, n, T) /\ Exchanged(n, T, q, u.tx, net')
      BY <1>1 DEF Exchanged
  <1>3. /\ node'[n] = Settled(u) /\ Settled(u).timers = u.timers
        /\ \A k \in Node : k # n => node'[k] = node[k]
      BY <1>1, <1>2 DEF InOrder, NodesInOrder, Settled, NodeState
  <1>4. OneRequest(net')
      BY <1>2, OneRequestStays
  <1>5. ASSUME NEW k \in Node, NEW t \in node'[k].timers, NEW x \in node'[k].timers,
               Forwarded(t), Forwarded(x), t.messageID = x.messageID
        PROVE  t = x
    <2>1. CASE k = n
      <3>1. t \in u.timers /\ x \in u.timers
          BY <1>3, <2>1
      <3> QED
          BY <1>2, <1>5, <3>1, TimersStay
    <2>2. CASE k # n
        BY <1>3, <1>5, <2>2 DEF Routed
    <2> QED
        BY <2>1, <2>2
  <1>6. ASSUME NEW k \in Node, NEW t \in node'[k].timers, Forwarded(t)
        PROVE  Carried(t, k, net')
    <2>1. CASE k # n
        BY <1>2, <1>3, <1>6, <2>1, CarriedStays
    <2>2. CASE k = n /\ t \in node[n].timers
        BY <1>2, <1>3, <1>6, <2>2, CarriedStays
    <2>3. CASE k = n /\ t \notin node[n].timers
        BY <1>2, <1>3, <1>6, <2>3, PassedIsCarried
    <2> QED
        BY <2>1, <2>2, <2>3
  <1> QED
      BY <1>4, <1>5, <1>6 DEF Routed

\* A node that asks for something of its own.
LEMMA IssuedRouted ==
    ASSUME NEW n \in Node, node[n].tx = <<>>, NEW s \in NodeState, NEW mid, mid \notin UsedID,
           Issues(s, node[n], mid)
    PROVE  Transmits(s.tx, n, {}) /\ Remembers(s, n, {})
  <1>1. s.tx \in Seq(Message)
      BY DEF NodeState
  <1>2. \A i \in 1 .. Len(s.tx) : i = 1 /\ s.tx[i].messageID = mid
    <2>1. CASE s.tx = <<>>
        BY <2>1
    <2>2. ASSUME NEW x, s.tx = Append(<<>>, x), x.messageID = mid
          PROVE  \A i \in 1 .. Len(s.tx) : i = 1 /\ s.tx[i].messageID = mid
      <3>1. <<>> \in Seq(Message) /\ Len(<<>>) = 0
          OBVIOUS
      <3>2. Len(s.tx) = 1 /\ s.tx[1] = x
          BY <2>2, <3>1, AppendPlaces
      <3> QED
          BY <2>2, <3>2
    <2> QED
        BY <2>1, <2>2 DEF Issues
  <1>3. Transmits(s.tx, n, {})
      BY <1>1, <1>2 DEF Transmits
  <1>4. \A t \in s.timers : Forwarded(t) => t \in node[n].timers
      BY DEF Issues, Forwarded
  <1> QED
      BY <1>3, <1>4 DEF Remembers

\* Where the messages stand that a node sends when it handles m, after it has asked
\* for something of its own with the identifier mid, or has not.
LEMMA RelayPlaces ==
    ASSUME NEW s \in NodeState, NEW c, c.tx = <<>>, NEW mid, Issues(s, c, mid),
           NEW m, NEW r, Relays(r, s, m), NEW v, v = r.tx
    PROVE  /\ Len(v) \in Nat
           /\ \A i \in 1 .. Len(v) :
                  \/ i = 1 /\ v[i].messageID = mid
                  \/ ~IsRequest(v[i])
                  \/ i = Len(v) /\ Taken(m) /\ Passes(v[i], s.id, m)
           /\ Taken(m) => \E i \in 1 .. Len(v) : AckFor(v[i], m)
  <1> DEFINE u == s.tx
  <1>1. u \in Seq(Message)
      BY DEF NodeState
  <1>2. Len(u) \in {0, 1} /\ \A i \in 1 .. Len(u) : i = 1 /\ u[i].messageID = mid
    <2>1. CASE u = <<>>
        BY <2>1
    <2>2. ASSUME NEW x, u = Append(<<>>, x), x.messageID = mid
          PROVE  Len(u) \in {0, 1} /\ \A i \in 1 .. Len(u) : i = 1 /\ u[i].messageID = mid
      <3>1. <<>> \in Seq(Message) /\ Len(<<>>) = 0
          OBVIOUS
      <3>2. Len(u) = 1 /\ u[1] = x
          BY <2>2, <3>1, AppendPlaces
      <3> QED
          BY <2>2, <3>2
    <2> QED
        BY <2>1, <2>2 DEF Issues
  <1> HIDE DEF u
  <1>3. CASE v = u /\ ~Taken(m)
      BY <1>2, <1>3
  <1>4. ASSUME NEW a, v = Append(u, a), ~IsRequest(a), Taken(m) => AckFor(a, m)
        PROVE  /\ Len(v) \in Nat
               /\ \A i \in 1 .. Len(v) :
                      \/ i = 1 /\ v[i].messageID = mid
                      \/ ~IsRequest(v[i])
                      \/ i = Len(v) /\ Taken(m) /\ Passes(v[i], s.id, m)
               /\ Taken(m) => \E i \in 1 .. Len(v) : AckFor(v[i], m)
    <2>1. /\ Len(v) = Len(u) + 1 /\ Len(u) \in Nat
          /\ \A i \in 1 .. Len(u) : v[i] = u[i]
          /\ v[Len(u) + 1] = a
        BY <1>1, <1>4, AppendPlaces DEF u
    <2>2. \A i \in 1 .. Len(v) : i \in 1 .. Len(u) \/ i = Len(u) + 1
        BY <2>1
    <2>3. Len(u) + 1 \in 1 .. Len(v)
        BY <2>1
    <2> QED
        BY <1>2, <1>4, <2>1, <2>2, <2>3
  <1>5. ASSUME NEW a, NEW b, v = Append(Append(u, a), b), ~IsRequest(a),
               Taken(m) => AckFor(a, m), IsRequest(b) => Taken(m) /\ Passes(b, s.id, m)
        PROVE  /\ Len(v) \in Nat
               /\ \A i \in 1 .. Len(v) :
                      \/ i = 1 /\ v[i].messageID = mid
                      \/ ~IsRequest(v[i])
                      \/ i = Len(v) /\ Taken(m) /\ Passes(v[i], s.id, m)
               /\ Taken(m) => \E i \in 1 .. Len(v) : AckFor(v[i], m)
    <2> DEFINE w == Append(u, a)
    <2>1. /\ Len(w) = Len(u) + 1 /\ Len(u) \in Nat
          /\ \A i \in 1 .. Len(u) : w[i] = u[i]
          /\ w[Len(u) + 1] = a /\ w \in Seq(Message \cup {a})
        BY <1>1, AppendPlaces DEF u
    <2> HIDE DEF w
    <2>2. v = Append(w, b)
        BY <1>5 DEF w
    <2>3. /\ Len(v) = Len(w) + 1
          /\ \A i \in 1 .. Len(w) : v[i] = w[i]
          /\ v[Len(w) + 1] = b
        BY <2>1, <2>2, AppendPlaces
    <2>4. \A i \in 1 .. Len(v) : i \in 1 .. Len(u) \/ i = Len(u) + 1 \/ i = Len(u) + 2
        BY <2>1, <2>3
    <2>5. /\ Len(u) + 1 \in 1 .. Len(v) /\ v[Len(u) + 1] = a
          /\ Len(u) + 2 = Len(v) /\ v[Len(u) + 2] = b
          /\ \A i \in 1 .. Len(u) : v[i] = u[i]
        BY <2>1, <2>3
    <2> QED
        BY <1>2, <1>5, <2>1, <2>3, <2>4, <2>5
  <1> QED
      BY <1>3, <1>4, <1>5 DEF Relays, u

\* A node that takes m, after it has asked for something of its own, or has not; what it
\* sends may be put into the order of priorities.
LEMMA RelayedTransmits ==
    ASSUME NEW n \in Node, NEW mid, mid \notin UsedID, NEW m, m.messageID \in UsedID,
           NEW v \in Seq(Message),
           \A i \in 1 .. Len(v) :
               \/ i = 1 /\ v[i].messageID = mid
               \/ ~IsRequest(v[i])
               \/ i = Len(v) /\ Taken(m) /\ Passes(v[i], n, m),
           Taken(m) => \E i \in 1 .. Len(v) : AckFor(v[i], m)
    PROVE  Transmits(v, n, {m}) /\ Transmits(ByPriority(v), n, {m})
  <1> DEFINE id == m.messageID
             w  == ByPriority(v)
  <1>1. Len(v) \in Nat
      BY LenProperties
  <1>2. ASSUME NEW i \in 1 .. Len(v), IsRequest(v[i])
        PROVE  \/ i = 1 /\ v[i].messageID = mid
               \/ i = Len(v) /\ Taken(m) /\ Passes(v[i], n, m) /\ v[i].messageID = id
      BY <1>2 DEF Passes
  <1>3. \A i, j \in 1 .. Len(v) :
            IsRequest(v[i]) /\ IsRequest(v[j]) /\ v[i].messageID = v[j].messageID => i = j
      BY <1>2
  <1>4. \A i \in 1 .. Len(v) : IsRequest(v[i]) =>
            v[i].messageID \notin UsedID \/ (Taken(m) /\ v[i].messageID = id)
      BY <1>2
  <1>5. ASSUME NEW i \in 1 .. Len(v), NEW j \in 1 .. Len(v), AckFor(v[i], m), Asks(v[j], id)
        PROVE  i < j /\ v[j].type = "FIND_SUCCESSOR"
    <2>1. IsRequest(v[j]) /\ v[j].messageID # mid
        BY <1>5 DEF Asks
    <2>2. j = Len(v) /\ v[j].type = "FIND_SUCCESSOR"
        BY <1>2, <2>1 DEF Passes
    <2>3. i # j
        BY <1>5, <2>2 DEF AckFor
    <2> QED
        BY <1>1, <2>2, <2>3
  <1>6. Transmits(v, n, {m})
      BY <1>3, <1>4, <1>5 DEF Transmits
  <1>7. w \in Seq(Message) /\ \A x : Within(x, w) <=> Within(x, v)
    <2>1. ByPriority(v) \in Seq(Message)
        BY ByPrioritySends
    <2>2. \A x : Within(x, ByPriority(v)) <=> Within(x, v)
      <3> DEFINE sender == [tx |-> v]
      <3>1. \A x : (\E k \in 1 .. Len(ByPriority(v)) : ByPriority(v)[k] = x) <=> x \in Sent(sender)
          BY ByPriorityContents
      <3>2. sender.tx = v
          OBVIOUS
      <3> HIDE DEF sender
      <3> QED
          BY <3>1, <3>2 DEF Within, Sent
    <2> QED
        BY <2>1, <2>2
  <1>8. \A p, r \in 1 .. Len(w) : p < r => Ordered(v, w[p], w[r])
      BY ByPriorityOrder
  <1> HIDE DEF w
  <1>9. \A p \in 1 .. Len(w) : \E i \in 1 .. Len(v) : w[p] = v[i]
      BY <1>7 DEF Within
  <1>10. ASSUME NEW p \in 1 .. Len(w), NEW r \in 1 .. Len(w), IsRequest(w[p]), IsRequest(w[r]),
                w[p].messageID = w[r].messageID
         PROVE  p = r
    <2>1. ASSUME NEW a \in 1 .. Len(w), NEW b \in 1 .. Len(w), IsRequest(w[a]), IsRequest(w[b]),
                 w[a].messageID = w[b].messageID, a < b
          PROVE  FALSE
      <3>1. PICK i, j \in 1 .. Len(v) : i # j /\ w[a] = v[i] /\ w[b] = v[j]
        <4>1. Ordered(v, w[a], w[b])
            BY <1>8, <2>1
        <4> QED
            BY <4>1 DEF Ordered
      <3> QED
          BY <1>3, <2>1, <3>1
    <2>2. ~(p < r) /\ ~(r < p)
        BY <1>10, <2>1
    <2> QED
        BY <2>2
  <1>11. ASSUME NEW p \in 1 .. Len(w), IsRequest(w[p])
         PROVE  w[p].messageID \notin UsedID \/ (Taken(m) /\ w[p].messageID = id)
      BY <1>4, <1>9, <1>11
  <1>12. Taken(m) => \E p \in 1 .. Len(w) : AckFor(w[p], m)
      BY <1>7 DEF Within
  <1>13. ASSUME NEW p \in 1 .. Len(w), NEW r \in 1 .. Len(w), AckFor(w[p], m), Asks(w[r], id)
         PROVE  p < r
    <2>1. p # r
        BY <1>13 DEF AckFor, Asks, IsRequest
    <2>2. ASSUME r < p PROVE FALSE
      <3>1. PICK i, j \in 1 .. Len(v) : /\ w[r] = v[i] /\ w[p] = v[j]
                                        /\ ~(v[i].type = "FIND_SUCCESSOR" /\ v[j].type = "ACK")
        <4>1. Ordered(v, w[r], w[p])
            BY <1>8, <2>2
        <4> QED
            BY <4>1 DEF Ordered
      <3>2. v[i].type = "FIND_SUCCESSOR"
          BY <1>5, <1>13, <3>1
      <3> QED
          BY <1>13, <3>1, <3>2 DEF AckFor
    <2> QED
        BY <2>1, <2>2
  <1>14. Transmits(w, n, {m})
      BY <1>7, <1>10, <1>11, <1>12, <1>13 DEF Transmits
  <1> QED
      BY <1>6, <1>14 DEF w

\* The step of a node that takes m, whatever it has asked for before, is one of Routed.
LEMMA RelayedRouted ==
    ASSUME NEW n \in Node, node[n].tx = <<>>, NEW s \in NodeState, s.id = n,
           NEW mid, mid \notin UsedID, Issues(s, node[n], mid),
           NEW m, m.messageID \in UsedID, NEW r \in NodeState, Relays(r, s, m)
    PROVE  /\ Transmits(r.tx, n, {m}) /\ Remembers(r, n, {m})
           /\ LET u == [r EXCEPT !.tx = ByPriority(@)]
              IN  u \in NodeState /\ Transmits(u.tx, n, {m}) /\ Remembers(u, n, {m})
  <1> DEFINE w == ByPriority(r.tx)
             u == [r EXCEPT !.tx = w]
             c == node[n]
             v == r.tx
  <1>1. r.tx \in Seq(Message)
      BY DEF NodeState
  <1>2. Transmits(r.tx, n, {m}) /\ Transmits(w, n, {m})
    <2>1. /\ \A i \in 1 .. Len(v) :
                 \/ i = 1 /\ v[i].messageID = mid
                 \/ ~IsRequest(v[i])
                 \/ i = Len(v) /\ Taken(m) /\ Passes(v[i], s.id, m)
          /\ Taken(m) => \E i \in 1 .. Len(v) : AckFor(v[i], m)
        BY RelayPlaces
    <2> HIDE DEF v
    <2>2. v \in Seq(Message)
        BY <1>1 DEF v
    <2>3. Transmits(v, n, {m}) /\ Transmits(ByPriority(v), n, {m})
        BY <2>1, <2>2, RelayedTransmits
    <2> QED
        BY <2>3 DEF v
  <1>3. /\ w \in Seq(Message) /\ \A x : (\E k \in 1 .. Len(w) : w[k] = x) <=> x \in Sent(r)
    <2>1. w \in Seq(Message)
        BY <1>1, ByPrioritySends
    <2> QED
        BY <1>1, <2>1, ByPriorityContents
  <1> HIDE DEF w
  <1>4. u \in NodeState /\ u.tx = w /\ u.timers = r.timers
      BY <1>3 DEF NodeState
  <1>5. ASSUME NEW t \in r.timers, Forwarded(t), t \notin c.timers
        PROVE  t \notin s.timers
      BY <1>5 DEF Issues, Forwarded
  <1>6. ASSUME NEW t \in r.timers, Forwarded(t), t \notin c.timers
        PROVE  /\ Taken(m) /\ t.messageID = m.messageID
               /\ \E b \in Sent(r) : Passes(b, n, m) /\ b.retransmitCounter = t.retransmitCounter
      BY <1>5, <1>6 DEF Relays
  <1>7. \A t, x \in r.timers :
            Forwarded(t) /\ t \notin c.timers /\ Forwarded(x) /\ x \notin c.timers => t = x
      BY <1>5 DEF Relays
  <1>8. ASSUME m.type = "ACK", isAddrValid(m), NEW t \in r.timers, Forwarded(t),
               t.messageID = m.messageID
        PROVE  \E x \in c.timers : x # t /\ x.type = "RX_ACK" /\ x.messageID = m.messageID
    <2>1. PICK x \in s.timers : x \notin r.timers /\ x.type = "RX_ACK" /\ x.messageID = m.messageID
        BY <1>8 DEF Relays, Forwarded
    <2>2. x \in c.timers
        BY <2>1 DEF Issues
    <2> QED
        BY <2>1, <2>2
  <1>9. Remembers(r, n, {m})
      BY <1>6, <1>7, <1>8 DEF Remembers, Sent
  <1>10. \A t \in r.timers : Forwarded(t) /\ t \notin c.timers =>
             /\ Taken(m) /\ t.messageID = m.messageID
             /\ \E i \in 1 .. Len(w) : /\ Passes(w[i], n, m)
                                       /\ w[i].retransmitCounter = t.retransmitCounter
      BY <1>3, <1>6
  <1> HIDE DEF u
  <1>11. Remembers(u, n, {m})
      BY <1>4, <1>7, <1>8, <1>10 DEF Remembers
  <1> QED
      BY <1>2, <1>4, <1>9, <1>11 DEF u, w

\* What holds of the message a node takes.
LEMMA HeadIsTaken ==
    ASSUME InOrder, Undisturbed, NEW n \in Node, net[n] # <<>>
    PROVE  LET m == Head(net[n])
           IN  /\ m \in Message /\ m.src # n /\ m.messageID \in UsedID /\ n \in Alive
               /\ IsRequest(m) =>
                      m.initiator # n /\ (m.isJoin => m.searched = Plus(m.initiator, 1))
  <1> DEFINE m == Head(net[n])
  <1>1. Within(m, net[n]) /\ net \in [Node -> Seq(Message)]
      BY QueueOpens DEF InOrder, QueuesInOrder
  <1> HIDE DEF m
  <1>2. m \in Letters(Joining) /\ m.dest = n /\ m \in InFlight
      BY <1>1, InFlightContents DEF InOrder, QueuesInOrder
  <1>3. m \in Message /\ m.src # m.dest /\ m.dest \in Alive
      BY <1>2 DEF Undisturbed, Speaks
  <1>4. IsRequest(m) => m.initiator # n /\ (m.isJoin => m.searched = Plus(m.initiator, 1))
      BY <1>2 DEF Letters, IsLetter
  <1> QED
      BY <1>2, <1>3, <1>4 DEF m, UsedID

\* A node that is not disturbed when a timer of it expires asks for one thing at most.
LEMMA TimerIssues ==
    ASSUME InOrder, StartedAsMain, Undisturbed, NEW n \in Node, Running(n), NEW s,
           \/ UpdateDue(n) /\ s = updateHandled(n)
           \/ \E t \in TimersDue(n) : s = timerHandled(n, t)
    PROVE  /\ Staged(s, n, InFlight, Alive) /\ node[n].state = "IDLE"
           /\ Issues(s, node[n], NextID(n))
  <1>1. CASE UpdateDue(n) /\ s = updateHandled(n)
    <2>1. Staged(s, n, InFlight, Alive) /\ node[n].state = "IDLE"
        BY <1>1, UpdateUndisturbed
    <2>2. s = updateExpired(node[n], NextID(n)) /\ node[n] \in NodeState
        BY <1>1, <2>1 DEF updateHandled, InOrder, NodesInOrder
    <2> QED
        BY <2>1, <2>2, UpdateExpiredIssues
  <1>2. ASSUME NEW t \in TimersDue(n), s = timerHandled(n, t)
        PROVE  /\ Staged(s, n, InFlight, Alive) /\ node[n].state = "IDLE"
               /\ Issues(s, node[n], NextID(n))
    <2>1. Staged(s, n, InFlight, Alive) /\ node[n].state = "IDLE" /\ ~Waits(t)
        BY <1>2, TimerUndisturbed
    <2>2. s = timerExpired(node[n], t, NextID(n)) /\ node[n] \in NodeState /\ t \in node[n].timers
        BY <1>2, <2>1 DEF timerHandled, TimersDue, InOrder, NodesInOrder
    <2>3. Regular(node[n])
        BY <2>1, NodeStaged DEF Staged
    <2> QED
        BY <2>1, <2>2, <2>3, TimerExpiredIssues
  <1> QED
      BY <1>1, <1>2

\* The step lemma: commands are out, since given counts them.
LEMMA NextRouted ==
    ASSUME InOrder, StartedAsMain, Undisturbed, Routed, [Next]_vars, given = 0, given' = 0
    PROVE  Routed'
  <1>1. CASE UNCHANGED vars
    <2>1. node' = node /\ net' = net
        BY <1>1 DEF vars
    <2> QED
        BY <2>1 DEF Routed
  <1>2. CASE Next
    <2> PICK n \in Node :
            \/ Boot(n) \/ Deliver(n) \/ UpdateTimerExpires(n) \/ TimerExpires(n)
            \/ Coincide(n) \/ HardReset(n) \/ ResetDropsArrival(n) \/ Pause(n)
        BY <1>2 DEF Next
    <2> DEFINE opened == [net EXCEPT ![n] = Tail(@)]
               m      == Head(net[n])
               c      == node[n]
    <2>1. /\ Running(n) /\ NextID(n) \notin UsedID /\ NextID(n) \in OwnID(n)
          /\ Covers(Joining) /\ Covers(Joining \cup {NextID(n)})
      <3>1. Running(n)
          BY DEF Boot, Deliver, UpdateTimerExpires, TimerExpires, Coincide,
             HardReset, ResetDropsArrival, Pause, Give
      <3> QED
          BY <3>1, FreshCovers, NextIDIsFresh
    <2>2. \A x \in InFlight : x.src # x.dest
        BY DEF Undisturbed, Speaks
    <2>3. c \in NodeState /\ c.id = n /\ c.tx = <<>> /\ Regular(c)
      <3>1. c \in NodeState /\ c.id = n /\ c.tx = <<>>
          BY DEF InOrder, NodesInOrder
      <3>2. CASE c.state = "OFF"
          BY <3>1, <3>2, OffWaitsForNothing DEF Regular
      <3>3. CASE c.state # "OFF"
          BY <3>1, <3>3, NodeStaged DEF Staged
      <3> QED
          BY <3>1, <3>2, <3>3
    <2>4. ASSUME NEW s \in NodeState, Issues(s, c, NextID(n)), Moves(n, {s}, net)
          PROVE  Routed'
      <3>1. Transmits(s.tx, n, {}) /\ Remembers(s, n, {})
          BY <2>1, <2>3, <2>4, IssuedRouted
      <3> DEFINE states == {s}
      <3>2. \A u \in states : u \in NodeState /\ Transmits(u.tx, n, {}) /\ Remembers(u, n, {})
          BY <3>1
      <3>3. Opened(net, n, {}) /\ Moves(n, states, net) /\ Regular(node[n])
          BY <2>3, <2>4 DEF Opened
      <3> HIDE DEF states
      <3> QED
          BY <2>2, <3>2, <3>3, MovesRouted
    <2>5. ASSUME net[n] # <<>>
          PROVE  /\ Opened(opened, n, {m}) /\ n \in Alive
                 /\ m \in Message /\ m.src # n /\ m.messageID \in UsedID
                 /\ IsRequest(m) =>
                        m.initiator # n /\ (m.isJoin => m.searched = Plus(m.initiator, 1))
        BY <2>5, HeadIsTaken DEF Opened
    <2>6. ASSUME net[n] # <<>>, NEW s, Sound(s, OwnID(n)), s.state = "IDLE", s.id = n,
                 Issues(s, c, NextID(n)), NEW mid, NEW r \in received(s, m, mid), r \in NodeState
          PROVE  /\ Transmits(r.tx, n, {m}) /\ Remembers(r, n, {m})
                 /\ LET u == [r EXCEPT !.tx = ByPriority(@)]
                    IN  u \in NodeState /\ Transmits(u.tx, n, {m}) /\ Remembers(u, n, {m})
      <3> HIDE DEF m
      <3>1. Relays(r, s, m)
          BY <2>5, <2>6, ReceivedRelays
      <3>2. s \in NodeState
          BY <2>6 DEF Sound
      <3> QED
          BY <2>1, <2>3, <2>5, <2>6, <3>1, <3>2, RelayedRouted
    <2>7. ASSUME net[n] # <<>>, NEW states, Moves(n, states, opened),
                 \A u \in states : u \in NodeState /\ Transmits(u.tx, n, {m}) /\ Remembers(u, n, {m})
          PROVE  Routed'
      <3> HIDE DEF opened, m
      <3>1. Opened(opened, n, {m}) /\ Regular(node[n])
          BY <2>3, <2>5, <2>7
      <3> QED
          BY <2>2, <2>7, <3>1, MovesRouted
    <2> HIDE DEF opened
    <2>8. CASE Boot(n)
      <3>1. c.state = "OFF" /\ Moves(n, {hardReset(c, NextID(n))}, net)
          BY <2>8 DEF Boot
      <3>2. Sound(c, OwnID(n)) /\ c.timers = {} /\ OwnID(n) \in SUBSET MessageID
          BY <3>1, OffWaitsForNothing, OwnIDs DEF InOrder, NodesInOrder
      <3>3. Issues(hardReset(c, NextID(n)), c, NextID(n))
          BY <2>3, <3>2, HardResetIssues
      <3>4. hardReset(c, NextID(n)) \in NodeState
        <4>1. Sound(hardReset(c, NextID(n)), OwnID(n))
            BY <2>1, <3>2, HardResetFollows DEF Follows
        <4> QED
            BY <4>1 DEF Sound
      <3> QED
          BY <2>4, <3>1, <3>3, <3>4
    <2>9. CASE Deliver(n)
      <3> DEFINE states == received(c, m, NextID(n))
      <3>1. net[n] # <<>> /\ Moves(n, states, opened)
          BY <2>9 DEF Deliver, opened
      <3>2. c.state = "IDLE" /\ n \in Alive
          BY <2>5, <3>1 DEF Alive
      <3>3. /\ Handled(c, n, Joining) /\ Staged(c, n, InFlight, Alive)
            /\ Before(c, n) /\ \A t \in c.timers : t.messageID # NextID(n)
          BY <2>1, <3>2, NodeHandled, NodeStaged, DrawnIsNew
      <3>4. Issues(c, c, NextID(n)) /\ Sound(c, OwnID(n))
          BY <3>3, NothingIssued DEF Staged
      <3>5. ASSUME NEW r \in states
            PROVE  r \in NodeState /\ Transmits(r.tx, n, {m}) /\ Remembers(r, n, {m})
        <4>1. Staged(r, n, InFlight, Alive)
            BY <2>1, <3>1, <3>3, <3>5, TakenUndisturbed
        <4>2. r \in NodeState
            BY <4>1 DEF Staged, Sound
        <4> QED
            BY <2>3, <2>6, <3>1, <3>2, <3>4, <3>5, <4>2
      <3> HIDE DEF states
      <3> QED
          BY <2>7, <3>1, <3>5
    <2>10. CASE UpdateTimerExpires(n)
      <3>1. UpdateDue(n) /\ Moves(n, {updateHandled(n)}, net)
          BY <2>10 DEF UpdateTimerExpires
      <3>2. /\ Staged(updateHandled(n), n, InFlight, Alive)
            /\ Issues(updateHandled(n), c, NextID(n))
          BY <2>1, <3>1, TimerIssues
      <3>3. updateHandled(n) \in NodeState
          BY <3>2 DEF Staged, Sound
      <3> QED
          BY <2>4, <3>1, <3>2, <3>3
    <2>11. CASE TimerExpires(n)
      <3>1. PICK t \in TimersDue(n) : Moves(n, {timerHandled(n, t)}, net)
          BY <2>11 DEF TimerExpires, Moves
      <3>2. /\ Staged(timerHandled(n, t), n, InFlight, Alive)
            /\ Issues(timerHandled(n, t), c, NextID(n))
          BY <2>1, TimerIssues
      <3>3. timerHandled(n, t) \in NodeState
          BY <3>2 DEF Staged, Sound
      <3> QED
          BY <2>4, <3>1, <3>2, <3>3
    <2>12. CASE Coincide(n)
      <3>1. PICK s \in (IF UpdateDue(n) THEN {updateHandled(n)} ELSE {})
                           \cup {timerHandled(n, t) : t \in TimersDue(n)} :
                LET fresh == FreshID(n) \ {t.messageID : t \in s.timers}
                IN  /\ fresh # {}
                    /\ Moves(n, {[r EXCEPT !.tx = ByPriority(@)] :
                                     r \in received(s, Head(net[n]), Least(fresh))}, opened)
          BY <2>12 DEF Coincide, opened
      <3> DEFINE fresh  == FreshID(n) \ {t.messageID : t \in s.timers}
                 mid    == Least(fresh)
                 after  == received(s, m, mid)
                 states == {[r EXCEPT !.tx = ByPriority(@)] : r \in after}
      <3>2. /\ net[n] # <<>> /\ Moves(n, states, opened)
            /\ fresh \in SUBSET FreshID(n) /\ fresh # {}
          BY <2>12, <3>1 DEF Coincide
      <3>3. (UpdateDue(n) /\ s = updateHandled(n)) \/ \E t \in TimersDue(n) : s = timerHandled(n, t)
          OBVIOUS
      <3>4. /\ Staged(s, n, InFlight, Alive) /\ Before(s, n) /\ Issues(s, c, NextID(n))
            /\ Sound(s, OwnID(n)) /\ s.state = "IDLE" /\ s.id = n
        <4>1. Staged(s, n, InFlight, Alive) /\ Issues(s, c, NextID(n))
            BY <2>1, <3>3, TimerIssues
        <4>2. Before(s, n)
            BY <2>1, <3>3, UpdateUndisturbed, TimerUndisturbed
        <4> QED
            BY <4>1, <4>2 DEF Staged
      <3>5. PICK J : Covers(J) /\ Handled(s, n, J)
          BY <2>1, <3>3, UpdateHandled, TimerHandled
      <3>6. mid \in OwnID(n) /\ mid \in fresh
        <4> HIDE DEF fresh
        <4> QED
            BY <3>2, LeastIsFresh
      <3>7. \A t \in s.timers : t.messageID # mid
        <4> HIDE DEF mid
        <4> QED
            BY <3>6
      <3> HIDE DEF fresh, mid
      <3>8. ASSUME NEW r \in after
            PROVE  LET u == [r EXCEPT !.tx = ByPriority(@)]
                   IN  u \in NodeState /\ Transmits(u.tx, n, {m}) /\ Remembers(u, n, {m})
        <4>1. Staged(r, n, InFlight, Alive)
            BY <3>2, <3>4, <3>5, <3>6, <3>7, <3>8, TakenUndisturbed
        <4>2. r \in NodeState
            BY <4>1 DEF Staged, Sound
        <4> QED
            BY <2>6, <3>2, <3>4, <3>8, <4>2
      <3> HIDE DEF after
      <3>9. \A u \in states : u \in NodeState /\ Transmits(u.tx, n, {m}) /\ Remembers(u, n, {m})
          BY <3>8
      <3> HIDE DEF states
      <3> QED
          BY <2>7, <3>2, <3>9
    <2>13. ~(HardReset(n) \/ ResetDropsArrival(n) \/ Pause(n))
        BY DEF HardReset, ResetDropsArrival, Pause, Give
    <2> QED
        BY <2>8, <2>9, <2>10, <2>11, <2>12, <2>13
  <1> QED
      BY <1>1, <1>2

\* At first nothing is on its way, and no timer runs.
LEMMA InitRouted == Init => Routed
  <1> SUFFICES ASSUME Init PROVE Routed
      OBVIOUS
  <1>1. \A n \in Node : node[n].timers = {} /\ net[n] = <<>>
      BY DEF Init, Off
  <1>2. \A n \in Node : 1 .. Len(net[n]) = {}
      BY <1>1
  <1> QED
      BY <1>1, <1>2 DEF Routed, OneRequest

\* The second invariant of networks nobody has disturbed.
LEMMA NetworkRouted ==
    ASSUME StartedAsMain
    PROVE  Spec => [](given = 0 => Routed)
  <1>1. /\ InOrder /\ (given = 0 => Undisturbed) /\ (given = 0 => Routed) /\ [Next]_vars
        => (given = 0 => Routed)'
      BY GivenGrows, NextRouted
  <1>2. Init => (given = 0 => Routed)
      BY InitRouted
  <1> QED
      BY <1>1, <1>2, NetworkInOrder, NetworkUndisturbed, PTL DEF Spec

\* In a network started as main.cpp starts it, and so far given no command, no timer for
\* the ACK of a request comes due, nor one for the answer to a stabilize: the request, its
\* ACK or its answer is still on its way; for a request a node has passed on, unless the
\* hop limit has dropped it (sendMessage, pushTimers; rxFindSuccessor,
\* forwardFindSuccessor, isAddrValid, rxAck).
THEOREM UndisturbedAnswered ==
    ASSUME StartedAsMain
    PROVE  Spec => []RequestsAnswered
  <1>1. /\ InOrder /\ (given = 0 => Undisturbed) /\ (given = 0 => Routed)
        => RequestsAnswered
    <2> SUFFICES ASSUME InOrder, Undisturbed, Routed, NEW n \in Node, NEW t \in node[n].timers,
                        t.type = "RX_PREDECESSOR" \/ (t.type = "RX_ACK" /\ isAddrValid(t))
                 PROVE  \E m \in InFlight : m.messageID = t.messageID
        BY DEF RequestsAnswered
    <2>1. CASE Waits(t)
      <3>1. Asked(t, n, InFlight)
          BY <2>1, OffWaitsForNothing, NodeStaged
      <3> QED
          BY <3>1 DEF Asked, RequestOf, Ends, AnswerTo
    <2>2. CASE ~Waits(t)
      <3>1. Forwarded(t) /\ isAddrValid(t)
          BY <2>2 DEF Waits, Forwarded
      <3>2. CASE \E d \in Node : \E i \in 1 .. Len(net[d]) : Asks(net[d][i], t.messageID)
          BY <3>2, PlaceInUse DEF Asks
      <3>3. CASE AckAhead(net[n], t.messageID)
          BY <3>3, PlaceInUse DEF AckAhead
      <3> QED
          BY <3>1, <3>2, <3>3 DEF Routed, Carried
    <2> QED
        BY <2>1, <2>2
  <1> QED
      BY <1>1, NetworkInOrder, NetworkUndisturbed, NetworkRouted, PTL

\* No node has passed a request on that the hop limit drops.
HopsSuffice == \A n \in Node : \A t \in node[n].timers : Forwarded(t) => isAddrValid(t)

\* Then every request passed on is acknowledged.
LEMMA UndisturbedPassedOn ==
    ASSUME Routed, InOrder, HopsSuffice
    PROVE  PassedOnAcked
  <1> SUFFICES ASSUME NEW n \in Node, NEW t \in TimersDue(n), t.type = "RX_ACK",
                      t.retransmitCounter > 0
               PROVE  FALSE
      BY DEF PassedOnAcked
  <1>1. t \in node[n].timers /\ \A m \in InFlight : m.messageID # t.messageID
      BY DEF TimersDue
  <1>2. Forwarded(t)
    <2>1. t \in Timer
        BY <1>1 DEF InOrder, NodesInOrder, NodeState
    <2> QED
        BY <2>1 DEF Forwarded, Timer
  <1>3. Carried(t, n, net) /\ isAddrValid(t)
      BY <1>1, <1>2 DEF Routed, HopsSuffice
  <1>4. ~\E d \in Node : \E i \in 1 .. Len(net[d]) : Asks(net[d][i], t.messageID)
      BY <1>1, PlaceInUse DEF Asks
  <1>5. ~AckAhead(net[n], t.messageID)
      BY <1>1, PlaceInUse DEF AckAhead
  <1> QED
      BY <1>3, <1>4, <1>5 DEF Carried

\* m_isNowUpdate locks out a second exchange in every network nobody disturbs and in which
\* no lookup meets the hop limit, however lookups, joins and updates interleave: the
\* hypothesis of ExchangesOne and AnswersFitFinger is proved there.
THEOREM UndisturbedExchanges ==
    ASSUME StartedAsMain
    PROVE  Spec /\ [](given = 0 /\ HopsSuffice) => [](OneExchange /\ AnswerFitsFinger)
  <1>1. InOrder /\ (given = 0 => Routed) /\ given = 0 /\ HopsSuffice => PassedOnAcked
      BY UndisturbedPassedOn
  <1>2. InOrder /\ (given = 0 => Undisturbed) /\ given = 0 /\ Tidied => OneExchange /\ AnswerFitsFinger
    <2> SUFFICES ASSUME InOrder, Undisturbed, Tidied
                 PROVE  OneExchange /\ AnswerFitsFinger
        OBVIOUS
    <2>1. \A n \in Node : node[n].state # "PAUSED"
        BY DEF Undisturbed, Staged, Off
    <2>2. OneExchange
        BY <2>1, LockIsExchange DEF OneExchange
    <2>3. AnswerFitsFinger
        BY DEF InOrder, NodesInOrder, Tidied, NodeTidy, Tidy, FingerFits, AnswerFitsFinger
    <2> QED
        BY <2>2, <2>3
  <1> QED
      BY <1>1, <1>2, NetworkInOrder, NetworkUndisturbed, NetworkRouted, NetworkTidied, PTL

-----------------------------------------------------------------------------
(* Successors.  Nothing but the answer to a lookup moves one away. *)

\* r has the successor of s, or has set one no farther.
Approaches(r, s) ==
    /\ r.id = s.id /\ (r.successor = s.successor \/ r.isSuccessorSet)
    /\ s.isSuccessorSet => r.isSuccessorSet
    /\ \A t \in r.timers : t.type = "RX_SUCCESSOR" => t \in s.timers
    /\ Gap(s.id, r.successor) <= Gap(s.id, s.successor)

\* Gaps to a node are numbers, at most that of a node that knows only itself.
LEMMA GapToNode ==
    ASSUME NEW s, Pointed(s), NEW a \in Node
    PROVE  /\ Gap(s.id, a) \in Nat /\ Gap(s.id, s.successor) \in Nat
           /\ s.successor = s.id => Gap(s.id, a) <= Gap(s.id, s.successor)
  <1>1. s.id \in IdSpace /\ s.successor \in IdSpace /\ a \in IdSpace
      BY NodeAssumption DEF Pointed
  <1>2. \A x \in IdSpace, y \in IdSpace : Gap(x, y) \in Nat /\ Gap(x, y) <= IdCount
      BY MaxAssumption DEF Gap, Dist, IdSpace, IdCount
  <1>3. \A x : Gap(x, x) = IdCount
      BY DEF Gap
  <1> QED
      BY <1>1, <1>2, <1>3

\* A node that stays as it is approaches its successor.
LEMMA StaysApproaches ==
    ASSUME NEW s, NEW r, Stays(r, s)
    PROVE  Approaches(r, s)
  <1>1. Gap(s.id, s.successor) \in Nat
      BY GapToNode DEF Stays, Pointed
  <1>2. Gap(s.id, r.successor) <= Gap(s.id, s.successor)
      BY <1>1 DEF Stays
  <1> QED
      BY <1>2 DEF Stays, Approaches

\* Also with steps before it or after it that stay.
LEMMA StaysThenApproaches ==
    ASSUME NEW a, NEW b, NEW c, Approaches(a, b), Stays(b, c)
    PROVE  Approaches(a, c)
BY DEF Stays, Approaches

LEMMA ApproachesThenStays ==
    ASSUME NEW a, NEW b, NEW c, Stays(a, b), Approaches(b, c)
    PROVE  Approaches(a, c)
BY DEF Stays, Approaches

\* What approaches its successor still has set it.
LEMMA ApproachesLeads ==
    ASSUME NEW r, NEW s, Leads(s), Approaches(r, s)
    PROVE  Leads(r)
BY DEF Leads, Approaches

\* The setters of the successor.
LEMMA SetSuccessorApproaches ==
    ASSUME NEW s, Pointed(s), NEW addr \in Node, NEW mid
    PROVE  /\ s.successor = s.id => Approaches(setSuccessorRemoveTimers(s, addr, mid), s)
           /\ Approaches(setSuccessorStabilize(s, addr, mid), s)
  <1>1. s.successor = s.id => Approaches(setSuccessorRemoveTimers(s, addr, mid), s)
    <2> DEFINE r == setSuccessorRemoveTimers(s, addr, mid)
    <2>1. /\ r.id = s.id /\ r.successor = addr /\ r.isSuccessorSet = TRUE
          /\ r.timers \subseteq s.timers
        BY DEF setSuccessorRemoveTimers, removeTimers, Pointed
    <2> HIDE DEF r
    <2>2. s.successor = s.id => Approaches(r, s)
        BY <2>1, GapToNode DEF Approaches
    <2> QED
        BY <2>2 DEF r
  <1>2. Approaches(setSuccessorStabilize(s, addr, mid), s)
    <2> DEFINE r == setSuccessorStabilize(s, addr, mid)
    <2>1. /\ r.id = s.id /\ r.isSuccessorSet = TRUE /\ r.timers \subseteq s.timers
          /\ \/ r.successor = s.successor
             \/ r.successor = addr /\ isInRangeOverZeroNotInc(addr, s.id, s.successor)
        BY DEF setSuccessorStabilize, removeTimers, Pointed
    <2> HIDE DEF r
    <2>2. isInRangeOverZeroNotInc(addr, s.id, s.successor)
              => Gap(s.id, addr) <= Gap(s.id, s.successor)
      <3>1. s.id \in IdSpace /\ s.successor \in IdSpace /\ addr \in IdSpace
          BY NodeAssumption DEF Pointed
      <3>2. \A a \in IdSpace, b \in IdSpace, c \in IdSpace :
                b # c /\ InsideArc(a, b, c) => Gap(b, a) <= Gap(b, c)
          BY MaxAssumption DEF InsideArc, Gap, Dist, IdSpace, IdCount
      <3> QED
          BY <3>1, <3>2, OpenRangeIsInside, GapToNode
    <2>3. Gap(s.id, s.successor) \in Nat
        BY GapToNode
    <2>4. Gap(s.id, r.successor) <= Gap(s.id, s.successor)
        BY <2>1, <2>2, <2>3
    <2> QED
        BY <2>1, <2>4 DEF Approaches, r
  <1> QED
      BY <1>1, <1>2

\* Passing a request on, and answering one.
LEMMA RequestApproaches ==
    ASSUME NEW s, Pointed(s), NEW m, m.initiator \in Node, NEW addr
    PROVE  /\ Approaches(forwardFindSuccessor(s, m, addr), s)
           /\ Approaches(replyFindSuccessor(s, m, addr), s)
  <1>1. Approaches(forwardFindSuccessor(s, m, addr), s)
    <2> DEFINE fwd == [m EXCEPT !.type = "FIND_SUCCESSOR", !.src = s.id, !.dest = addr,
                                !.service = s.id, !.retransmitCounter = @ + 1]
               sent == sendMessage(s, fwd)
    <2>1. Stays(sent, s) /\ Pointed(sent)
        BY MethodsStay, StaysPointed
    <2>2. forwardFindSuccessor(s, m, addr) \in {unlocked(s), pushTimers(sent, {"RX_ACK"}, fwd, 0)}
        BY DEF forwardFindSuccessor, unlocked
    <2> HIDE DEF sent, fwd
    <2>3. Stays(pushTimers(sent, {"RX_ACK"}, fwd, 0), sent)
        BY <2>1, MethodsStay
    <2> QED
        BY <2>1, <2>2, <2>3, MethodsStay, StaysIsTransitive, StaysApproaches
  <1>2. Approaches(replyFindSuccessor(s, m, addr), s)
    <2> DEFINE replied == sendMessage(s, createSuccessorMessage(s, m, addr))
               cleared == [replied EXCEPT !.isNowStabilize = FALSE]
               adopted == setPredecessor(cleared, m.initiator)
               placed  == setSuccessorRemoveTimers(adopted, m.initiator, m.messageID)
    <2>1. Stays(replied, s) /\ Pointed(replied)
        BY MethodsStay, StaysPointed
    <2>2. replyFindSuccessor(s, m, addr) \in
              {replied, IF replied.successor = replied.id THEN placed ELSE adopted}
        BY DEF replyFindSuccessor, adoptJoiner
    <2> HIDE DEF replied
    <2>3. Stays(cleared, replied) /\ Pointed(cleared)
        BY <2>1, MethodsStay, StaysPointed
    <2> HIDE DEF cleared
    <2>4. Stays(adopted, cleared) /\ Pointed(adopted)
        BY <2>3, MethodsStay, StaysPointed
    <2> HIDE DEF adopted
    <2>5. Stays(adopted, replied) /\ Stays(adopted, s)
        BY <2>1, <2>3, <2>4, StaysIsTransitive
    <2>6. replied.successor = replied.id => Approaches(placed, adopted)
        BY <2>4, <2>5, SetSuccessorApproaches DEF Stays
    <2> QED
        BY <2>1, <2>2, <2>5, <2>6, StaysApproaches, StaysThenApproaches
  <1> QED
      BY <1>1, <1>2

\* The handlers of requests.
LEMMA RequestsApproach ==
    ASSUME NEW s, Pointed(s), NEW m, m.initiator \in Node
    PROVE  /\ Approaches(rxFindSuccessor(s, m), s)
           /\ Stays(rxFindPredecessor(s, m), s) /\ Stays(rxNotify(s, m), s)
  <1>1. Approaches(rxFindSuccessor(s, m), s)
    <2> DEFINE learnt == learnSeed(s, m)
               acked  == sendMessage(learnt, createAckMessage(learnt, m))
               lookup == findSuccessor(acked, m.searched, m.src, m.initiator, m.isJoin)
    <2>1. Stays(learnt, s) /\ Pointed(learnt)
        BY MethodsStay, StaysPointed
    <2>2. rxFindSuccessor(s, m) \in {replyFindSuccessor(acked, m, lookup.found),
                                     forwardFindSuccessor(acked, m, lookup.found)}
        BY DEF rxFindSuccessor
    <2> HIDE DEF learnt
    <2>3. Stays(acked, learnt) /\ Pointed(acked)
        BY <2>1, MethodsStay, StaysPointed
    <2> HIDE DEF acked, lookup
    <2>4. Stays(acked, s)
        BY <2>1, <2>3, StaysIsTransitive
    <2> QED
        BY <2>2, <2>3, <2>4, RequestApproaches, StaysThenApproaches
  <1>2. Stays(rxFindPredecessor(s, m), s) /\ Stays(rxNotify(s, m), s)
    <2> DEFINE acked == sendMessage(s, createAckMessage(s, m))
    <2>1. Stays(acked, s) /\ Pointed(acked)
        BY MethodsStay, StaysPointed
    <2>2. \E a : rxFindPredecessor(s, m) = sendMessage(acked, a)
        BY DEF rxFindPredecessor
    <2>3. rxNotify(s, m) = setPredecessor(acked, m.searched)
        BY DEF rxNotify
    <2> HIDE DEF acked
    <2> QED
        BY <2>1, <2>2, <2>3, MethodsStay, StaysIsTransitive
  <1> QED
      BY <1>1, <1>2

\* r is what node state s becomes by the answer m to a lookup of its own.
Finds(r, s, m) ==
    /\ m.type = "SUCCESSOR" /\ TimersOf(s, {"RX_SUCCESSOR"}, "FIND_SUCCESSOR", m.messageID) # {}
    /\ r.tx = s.tx /\ r.id = s.id /\ r.isSuccessorSet = s.isSuccessorSet

\* The handlers of answers.
LEMMA AnswersApproach ==
    ASSUME NEW s \in NodeState, Leads(s), NEW m, m.service \in Node, m.searched \in Node, NEW mid
    PROVE  /\ m.type = "SUCCESSOR" => Approaches(rxSuccessor(s, m), s) \/ Finds(rxSuccessor(s, m), s, m)
           /\ Approaches(rxPredecessor(s, m, mid), s)
  <1>1. Pointed(s)
      BY DEF Pointed, NodeState
  <1>2. ~s.isSuccessorSet => Approaches(joinAnswered(s, m), s)
    <2> DEFINE known  == setPredecessor(s, m.service)
               placed == setSuccessorRemoveTimers(known, m.searched, m.messageID)
               next   == setNextFingerToUpdate(placed)
    <2> SUFFICES ASSUME ~s.isSuccessorSet PROVE Approaches(joinAnswered(s, m), s)
        OBVIOUS
    <2>1. Stays(known, s) /\ Pointed(known) /\ known.successor = known.id
      <3>1. Stays(known, s)
          BY <1>1, MethodsStay
      <3>2. s.successor = s.id
          BY DEF Leads
      <3> HIDE DEF known
      <3> QED
          BY <3>1, <3>2 DEF Stays
    <2> HIDE DEF known
    <2>2. Approaches(placed, known) /\ Pointed(placed)
      <3>1. DOMAIN placed = DOMAIN known /\ placed.successor = m.searched /\ placed.id = known.id
          BY <2>1 DEF setSuccessorRemoveTimers, removeTimers, Pointed
      <3> HIDE DEF placed
      <3>2. Pointed(placed)
          BY <2>1, <3>1 DEF Pointed
      <3> QED
          BY <2>1, <3>2, SetSuccessorApproaches DEF placed
    <2> HIDE DEF placed
    <2>3. Stays(next, placed) /\ Pointed(next)
        BY <2>2, MethodsStay, StaysPointed
    <2>4. joinAnswered(s, m) = pushUpdateTimer(next)
        BY DEF joinAnswered, next, placed, known
    <2> HIDE DEF next
    <2>5. Stays(pushUpdateTimer(next), next)
        BY <2>3, MethodsStay
    <2>6. Stays(joinAnswered(s, m), placed)
        BY <2>3, <2>4, <2>5, StaysIsTransitive
    <2> QED
        BY <2>1, <2>2, <2>6, StaysThenApproaches, ApproachesThenStays
  <1>3. LET r == fingerAnswered(s, m)
        IN  r.tx = s.tx /\ r.id = s.id /\ r.isSuccessorSet = s.isSuccessorSet
      BY DEF fingerAnswered, setFingerRemoveTimers, removeTimers, NodeState
  <1>4. m.type = "SUCCESSOR" => Approaches(rxSuccessor(s, m), s) \/ Finds(rxSuccessor(s, m), s, m)
    <2>1. Approaches(s, s)
        BY <1>1, MethodsStay, StaysApproaches
    <2> QED
        BY <1>2, <1>3, <2>1 DEF rxSuccessor, Finds
  <1>5. Approaches(rxPredecessor(s, m, mid), s)
    <2> DEFINE stable == setSuccessorStabilize(s, m.searched, m.messageID)
               next   == setNextFingerToUpdate(stable)
               notify == createMessage(next, "NOTIFY", next.successor, mid, next.id)
               sent   == sendMessage(next, notify)
               r      == pushTimers(sent, {"RX_ACK"}, notify, 0)
    <2>1. Approaches(stable, s) /\ Pointed(stable)
      <3>1. DOMAIN stable = DOMAIN s /\ stable.successor \in {s.successor, m.searched} /\ stable.id = s.id
          BY DEF setSuccessorStabilize, removeTimers, NodeState
      <3> HIDE DEF stable
      <3>2. Pointed(stable)
          BY <1>1, <3>1 DEF Pointed
      <3> QED
          BY <1>1, <3>2, SetSuccessorApproaches DEF stable
    <2>2. rxPredecessor(s, m, mid) \in {s, r}
        BY DEF rxPredecessor, issueNotify
    <2> HIDE DEF stable
    <2>3. Stays(next, stable) /\ Pointed(next)
        BY <2>1, MethodsStay, StaysPointed
    <2> HIDE DEF next, notify
    <2>4. Stays(sent, next) /\ Pointed(sent)
        BY <2>3, MethodsStay, StaysPointed
    <2> HIDE DEF sent
    <2>5. Stays(r, sent)
        BY <2>4, MethodsStay
    <2> HIDE DEF r
    <2>6. Stays(r, stable)
        BY <2>3, <2>4, <2>5, StaysIsTransitive
    <2>7. Approaches(r, s)
        BY <2>1, <2>6, ApproachesThenStays
    <2>8. Approaches(s, s)
        BY <1>1, MethodsStay, StaysApproaches
    <2> QED
        BY <2>2, <2>7, <2>8
  <1> QED
      BY <1>4, <1>5

\* Every message takes a node closer to its successor, or is the answer to its lookup.
LEMMA ReceivedApproaches ==
    ASSUME NEW s \in NodeState, Leads(s), NEW m \in Message, NEW mid,
           m.type \in {"NOTIFY", "SUCCESSOR", "PREDECESSOR"} => m.searched \in Node,
           NEW r \in received(s, m, mid)
    PROVE  Approaches(r, s) \/ Finds(r, s, m)
  <1>1. m.initiator \in Node /\ m.service \in Node /\ Pointed(s)
      BY DEF Message, Pointed, NodeState
  <1>2. Approaches(s, s)
      BY <1>1, MethodsStay, StaysApproaches
  <1>3. /\ Approaches(rxFindSuccessor(s, m), s)
        /\ Approaches(rxFindPredecessor(s, m), s) /\ Approaches(rxNotify(s, m), s)
      BY <1>1, RequestsApproach, StaysApproaches
  <1>4. m.type = "SUCCESSOR" => Approaches(rxSuccessor(s, m), s) \/ Finds(rxSuccessor(s, m), s, m)
      BY <1>1, AnswersApproach
  <1>5. m.type = "PREDECESSOR" => Approaches(rxPredecessor(s, m, mid), s)
      BY <1>1, AnswersApproach
  <1>6. \A t : Approaches(rxAck(s, t), s)
    <2>1. \A t : Stays(rxAck(s, t), s)
        BY <1>1 DEF rxAck, Stays, Pointed
    <2> QED
        BY <2>1, StaysApproaches
  <1> QED
      BY <1>2, <1>3, <1>4, <1>5, <1>6 DEF received

\* An expired timer, in a network that answers every request.
LEMMA TimerExpiredStays ==
    ASSUME NEW s \in NodeState, Regular(s), NEW t \in s.timers, ~Waits(t), NEW mid
    PROVE  Stays(timerExpired(s, t, mid), s)
  <1> DEFINE rest == [s EXCEPT !.timers = @ \ {t}]
  <1>1. Pointed(s)
      BY DEF Pointed, NodeState
  <1>2. Stays(rest, s) /\ Pointed(rest)
      BY <1>1, MethodsStay, StaysPointed
  <1> HIDE DEF rest
  <1>3. t.type \in TimerType
      BY DEF NodeState, Timer
  <1>4. CASE t.type = "RX_ACK"
    <2> DEFINE gone == removeTimers(rest, {"RX_SUCCESSOR"}, "FIND_SUCCESSOR", t.messageID)
               free == unlocked(gone)
               r    == [free EXCEPT !.timers = @ \cup {t}]
    <2>1. t.retryMess = "FIND_SUCCESSOR" /\ t.retransmitCounter # 0
        BY <1>4 DEF Waits, Regular, PassedOn
    <2>2. timerExpired(s, t, mid) = r
        BY <1>4, <2>1 DEF timerExpired, ackExpired, forwardNoAck, rest
    <2>3. Stays(gone, rest) /\ Pointed(gone)
        BY <1>2, MethodsStay, StaysPointed
    <2> HIDE DEF gone
    <2>4. Stays(free, gone) /\ Pointed(free)
        BY <2>3, MethodsStay, StaysPointed
    <2> HIDE DEF free
    <2>5. Stays(r, free)
        BY <1>4, <2>4, MethodsStay
    <2> HIDE DEF r
    <2> QED
        BY <1>2, <2>2, <2>3, <2>4, <2>5, StaysIsTransitive
  <1>5. CASE t.type = "RX_SUCCESSOR_ON_JOIN"
    <2> DEFINE gone == removeTimers(rest, {"RX_ACK", "RX_SUCCESSOR_ON_JOIN"}, "JOIN", t.messageID)
               k == IF t.requestCounter < CtxJoin THEN t.requestCounter + 1 ELSE 0
    <2>1. Stays(gone, rest) /\ Pointed(gone)
        BY <1>2, MethodsStay, StaysPointed
    <2>2. timerExpired(s, t, mid) = issueJoin(gone, k, mid)
        BY <1>5 DEF timerExpired, joinExpired, rest
    <2> HIDE DEF gone, k
    <2>3. Stays(issueJoin(gone, k, mid), gone)
        BY <2>1, IssueJoinStays
    <2> QED
        BY <1>2, <2>1, <2>2, <2>3, StaysIsTransitive
  <1>6. CASE t.type = "RX_SUCCESSOR"
    <2> DEFINE free == unlocked(rest)
               r    == [free EXCEPT !.isNowStabilize = FALSE]
    <2>1. timerExpired(s, t, mid) = r
        BY <1>6 DEF timerExpired, rest
    <2>2. Stays(free, rest) /\ Pointed(free)
        BY <1>2, MethodsStay, StaysPointed
    <2> HIDE DEF free
    <2>3. Stays(r, free)
        BY <2>2, MethodsStay
    <2> HIDE DEF r
    <2> QED
        BY <1>2, <2>1, <2>2, <2>3, StaysIsTransitive
  <1> QED
      BY <1>3, <1>4, <1>5, <1>6 DEF TimerType, Waits

\* The timer of a node that is not disturbed.
LEMMA TimerKeepsSuccessor ==
    ASSUME InOrder, StartedAsMain, Undisturbed, NEW n \in Node, Running(n), Leads(node[n]), NEW s,
           \/ UpdateDue(n) /\ s = updateHandled(n)
           \/ \E t \in TimersDue(n) : s = timerHandled(n, t)
    PROVE  KeepsSuccessor(s, node[n], NextID(n)) /\ Leads(s)
  <1>1. node[n] \in NodeState /\ node[n].id = n
      BY DEF InOrder, NodesInOrder
  <1>2. CASE UpdateDue(n) /\ s = updateHandled(n)
    <2>1. Staged(updateHandled(n), n, InFlight, Alive) /\ node[n].state = "IDLE"
        BY <1>2, UpdateUndisturbed
    <2>2. s = updateExpired(node[n], NextID(n))
        BY <1>2, <2>1 DEF updateHandled
    <2>3. KeepsSuccessor(s, node[n], NextID(n))
        BY <1>1, <2>2, UpdateExpiredKeepsSuccessor
    <2>4. node[n].successor # n
      <3>1. node[n].updateTimers > 0 /\ Staged(node[n], n, InFlight, Alive)
          BY <1>2, <2>1, NodeStaged DEF UpdateDue
      <3> QED
          BY <3>1 DEF Staged, Busy
    <2> QED
        BY <1>1, <2>3, <2>4 DEF KeepsSuccessor, Leads
  <1>3. ASSUME NEW t \in TimersDue(n), s = timerHandled(n, t)
        PROVE  KeepsSuccessor(s, node[n], NextID(n)) /\ Leads(s)
    <2>1. node[n].state = "IDLE" /\ ~Waits(t)
        BY <1>3, TimerUndisturbed
    <2>2. s = timerExpired(node[n], t, NextID(n)) /\ t \in node[n].timers
        BY <1>3, <2>1 DEF timerHandled, TimersDue
    <2>3. Regular(node[n])
        BY <2>1, NodeStaged DEF Staged
    <2>4. Stays(s, node[n])
        BY <1>1, <2>1, <2>2, <2>3, TimerExpiredStays
    <2> QED
        BY <2>4 DEF Stays, KeepsSuccessor, Leads
  <1> QED
      BY <1>2, <1>3

\* What is for other nodes does not come to n.
LEMMA SentElsewhere ==
    ASSUME NEW v \in Seq(Message), NEW n, \A k \in 1 .. Len(v) : v[k].dest # n
    PROVE  SentTo(v, n) = <<>>
  <1> DEFINE I == {k \in DOMAIN v : v[k].dest = n}
  <1>1. \A k \in 1 .. Len(v) : k \notin I
      OBVIOUS
  <1>2. SentTo(v, n) = Chosen(v, I)
      BY DEF SentTo
  <1> HIDE DEF I
  <1>3. /\ Chosen(v, I) \in Seq(Message)
        /\ \A x : Within(x, Chosen(v, I)) <=> \E k \in 1 .. Len(v) : k \in I /\ v[k] = x
      BY ChosenContents
  <1> DEFINE c == Chosen(v, I)
  <1>4. c \in Seq(Message) /\ \A x : ~Within(x, c)
      BY <1>1, <1>3
  <1> HIDE DEF c
  <1>5. \A i \in 1 .. Len(c) : FALSE
      BY <1>4 DEF Within
  <1>6. c = <<>>
      BY <1>4, <1>5, EmptySeq
  <1> QED
      BY <1>2, <1>6 DEF c

\* Every node that knows another, or looks one up, has a successor.
Led == \A n \in Node : Leads(node[n])

\* The successor of node n in r is no farther than now, or n has been told it.
NoFarther(r, n) == LookupAnswered(n) \/ Gap(n, r.successor) <= Gap(n, node[n].successor)

\* A node that takes a message, after a timer or not: s is what the timer has made of it,
\* and v what it sends.
LEMMA TakenLed ==
    ASSUME InOrder, Undisturbed, NEW n \in Node, net[n] # <<>>,
           NEW s \in NodeState, s.id = n, Leads(s), NEW mid, mid \notin UsedID,
           KeepsSuccessor(s, node[n], mid), Issues(s, node[n], mid),
           \A x \in Sent(s) : Speaks(x, Alive),
           NEW id, NEW r \in received(s, Head(net[n]), id),
           NEW v \in Seq(Message), \A k \in 1 .. Len(v) : v[k] \in Sent(r),
           net'[n] = Tail(net[n]) \o SentTo(v, n)
    PROVE  Leads(r) /\ NoFarther(r, n)
  <1> DEFINE m == Head(net[n])
  <1>1. /\ m \in Message /\ m.messageID \in UsedID
        /\ m.type \in {"NOTIFY", "SUCCESSOR", "PREDECESSOR"} => m.searched \in Node
    <2>1. Within(m, net[n])
        BY QueueOpens
    <2> HIDE DEF m
    <2>2. m \in InFlight
        BY <2>1, InFlightContents DEF InOrder, QueuesInOrder
    <2> QED
        BY <2>2 DEF Undisturbed, Speaks, Alive, UsedID
  <1>2. node[n].tx = <<>>
      BY DEF InOrder, NodesInOrder
  <1>3. net[n] \in Seq(Message) /\ Tail(net[n]) \in Seq(Message) /\ Len(Tail(net[n])) < Len(net[n])
    <2>1. net[n] \in Seq(Message)
        BY DEF InOrder, QueuesInOrder
    <2> QED
        BY <2>1
  <1> HIDE DEF m
  <1>4. Approaches(r, s) \/ Finds(r, s, m)
      BY <1>1, ReceivedApproaches DEF m
  <1>5. CASE Approaches(r, s)
    <2>1. Leads(r)
        BY <1>5, ApproachesLeads
    <2>2. Gap(n, r.successor) <= Gap(n, node[n].successor)
        BY <1>5 DEF Approaches, KeepsSuccessor
    <2> QED
        BY <2>1, <2>2 DEF NoFarther
  <1>6. CASE Finds(r, s, m)
    <2>1. PICK t \in s.timers : /\ t.type = "RX_SUCCESSOR" /\ t.retryMess = "FIND_SUCCESSOR"
                                /\ t.messageID = m.messageID
        BY <1>6 DEF Finds, TimersOf
    <2>2. t \in node[n].timers
        BY <1>1, <2>1 DEF KeepsSuccessor
    <2>3. TimersOf(node[n], {"RX_SUCCESSOR"}, "FIND_SUCCESSOR", m.messageID) # {}
        BY <2>1, <2>2 DEF TimersOf
    <2>4. Leads(r)
        BY <1>6, <2>1 DEF Finds, Leads
    <2>5. ASSUME NEW x \in Sent(r) PROVE x.dest # n
      <3>1. x \in Sent(s)
          BY <1>6 DEF Finds, Sent
      <3>2. x.src # x.dest
          BY <3>1 DEF Speaks
      <3>3. x.src = n
        <4>1. PICK k \in 1 .. Len(s.tx) : s.tx[k] = x
            BY <3>1 DEF Sent
        <4>2. s.tx # <<>>
            BY <4>1
        <4>3. PICK y : s.tx = Append(<<>>, y) /\ y.src = n
            BY <1>2, <4>2 DEF Issues, KeepsSuccessor
        <4>4. <<>> \in Seq(Message) /\ Len(<<>>) = 0
            OBVIOUS
        <4>5. Len(s.tx) = 1 /\ s.tx[1] = y
            BY <4>3, <4>4, AppendPlaces
        <4> QED
            BY <4>1, <4>3, <4>5
      <3> QED
          BY <3>2, <3>3
    <2>6. SentTo(v, n) = <<>>
        BY <2>5, SentElsewhere
    <2>7. Len(net'[n]) < Len(net[n])
        BY <1>3, <2>6
    <2>8. LookupAnswered(n)
        BY <1>6, <2>3, <2>7 DEF LookupAnswered, Finds, m
    <2> QED
        BY <2>4, <2>8 DEF NoFarther
  <1> QED
      BY <1>4, <1>5, <1>6

\* Node n has gone to u, all others stay.
LEMMA MovesLed ==
    ASSUME InOrder, Led, NEW n \in Node, NEW u \in NodeState, Leads(u), NoFarther(u, n),
           node' = [node EXCEPT ![n] = Settled(u)]
    PROVE  Led' /\ \A k \in Node : NoFarther(node'[k], k)
  <1>1. node \in [Node -> NodeState]
      BY DEF InOrder, NodesInOrder
  <1>2. /\ node'[n] = Settled(u) /\ \A k \in Node : k # n => node'[k] = node[k]
      BY <1>1
  <1>3. Settled(u).successor = u.successor /\ Leads(Settled(u))
      BY DEF Settled, NodeState, Leads
  <1>4. \A k \in Node : Leads(node'[k])
      BY <1>2, <1>3 DEF Led
  <1>5. ASSUME NEW k \in Node PROVE NoFarther(node'[k], k)
    <2>1. CASE k = n
        BY <1>2, <1>3, <2>1 DEF NoFarther
    <2>2. CASE k # n
      <3>1. Gap(k, node[k].successor) \in Nat
        <4>1. Pointed(node[k]) /\ node[k].id = k
            BY DEF InOrder, NodesInOrder, NodeState, Pointed
        <4> QED
            BY <4>1, GapToNode
      <3>2. Gap(k, node'[k].successor) <= Gap(k, node[k].successor)
          BY <1>2, <2>2, <3>1
      <3> QED
          BY <3>2 DEF NoFarther
    <2> QED
        BY <2>1, <2>2
  <1> QED
      BY <1>4, <1>5 DEF Led

\* The step lemma: commands are out, since given counts them.
LEMMA NextLed ==
    ASSUME InOrder, StartedAsMain, Undisturbed, Led, [Next]_vars, given = 0, given' = 0
    PROVE  Led' /\ \A k \in Node : UNCHANGED vars \/ NoFarther(node'[k], k)
  <1>1. CASE UNCHANGED vars
      BY <1>1 DEF vars, Led
  <1>2. CASE Next
    <2> PICK n \in Node :
            \/ Boot(n) \/ Deliver(n) \/ UpdateTimerExpires(n) \/ TimerExpires(n)
            \/ Coincide(n) \/ HardReset(n) \/ ResetDropsArrival(n) \/ Pause(n)
        BY <1>2 DEF Next
    <2> DEFINE opened == [net EXCEPT ![n] = Tail(@)]
               m      == Head(net[n])
               c      == node[n]
    <2>1. Running(n) /\ NextID(n) \notin UsedID /\ NextID(n) \in OwnID(n) /\ Covers(Joining)
      <3>1. Running(n)
          BY DEF Boot, Deliver, UpdateTimerExpires, TimerExpires, Coincide,
             HardReset, ResetDropsArrival, Pause, Give
      <3> QED
          BY <3>1, FreshCovers, NextIDIsFresh
    <2>2. c \in NodeState /\ c.id = n /\ c.tx = <<>> /\ Leads(c) /\ net \in [Node -> Seq(Message)]
        BY DEF InOrder, NodesInOrder, QueuesInOrder, Led
    <2>3. opened[n] = Tail(net[n])
        BY <2>2
    <2>4. ASSUME NEW s \in NodeState, KeepsSuccessor(s, c, NextID(n)), Leads(s), Moves(n, {s}, net)
          PROVE  Led' /\ \A k \in Node : NoFarther(node'[k], k)
      <3>1. node' = [node EXCEPT ![n] = Settled(s)]
          BY <2>4 DEF Moves
      <3>2. Gap(n, c.successor) \in Nat
          BY <2>2, GapToNode DEF Pointed, NodeState
      <3>3. NoFarther(s, n)
          BY <2>4, <3>2 DEF KeepsSuccessor, NoFarther
      <3> QED
          BY <2>4, <3>1, <3>3, MovesLed
    <2>5. KeepsSuccessor(c, c, NextID(n))
        BY DEF KeepsSuccessor
    <2> HIDE DEF opened
    <2>6. CASE Boot(n)
      <3>1. c.state = "OFF" /\ Moves(n, {hardReset(c, NextID(n))}, net)
          BY <2>6 DEF Boot
      <3>2. c = Off(n)
          BY <3>1 DEF Undisturbed
      <3> DEFINE s == hardReset(c, NextID(n))
      <3>3. s.successor = n /\ Leads(s)
          BY <3>2, HardResetStays
      <3>4. s \in NodeState
        <4>1. Sound(c, OwnID(n)) /\ OwnID(n) \in SUBSET MessageID
            BY OwnIDs DEF InOrder, NodesInOrder
        <4>2. Sound(s, OwnID(n))
            BY <2>1, <4>1, HardResetFollows DEF Follows
        <4> QED
            BY <4>2 DEF Sound
      <3>5. node' = [node EXCEPT ![n] = Settled(s)]
          BY <3>1 DEF Moves
      <3> HIDE DEF s
      <3>6. NoFarther(s, n)
        <4>1. c.successor = n
            BY <3>2 DEF Off
        <4>2. Gap(n, c.successor) \in Nat
            BY <2>2, GapToNode DEF Pointed, NodeState
        <4> QED
            BY <3>3, <4>1, <4>2 DEF NoFarther
      <3> QED
          BY <3>3, <3>4, <3>5, <3>6, MovesLed
    <2>7. CASE Deliver(n)
      <3>1. net[n] # <<>> /\ Moves(n, received(c, m, NextID(n)), opened)
          BY <2>7 DEF Deliver, opened
      <3>2. c.state = "IDLE"
          BY <3>1, HeadIsTaken DEF Alive
      <3>3. /\ Handled(c, n, Joining) /\ Staged(c, n, InFlight, Alive)
            /\ Before(c, n) /\ \A t \in c.timers : t.messageID # NextID(n)
            /\ \A x \in Sent(c) : Speaks(x, Alive)
          BY <2>1, <3>2, NodeHandled, NodeStaged, DrawnIsNew
      <3>4. Issues(c, c, NextID(n))
          BY NothingIssued
      <3>5. PICK r \in received(c, m, NextID(n)) :
                /\ node' = [node EXCEPT ![n] = Settled(r)]
                /\ net' = [d \in Node |-> opened[d] \o SentTo(r.tx, d)]
          BY <3>1 DEF Moves
      <3>6. r \in NodeState /\ r.tx \in Seq(Message)
        <4>1. Staged(r, n, InFlight, Alive)
            BY <2>1, <3>1, <3>3, TakenUndisturbed
        <4>2. r \in NodeState
            BY <4>1 DEF Staged, Sound
        <4> QED
            BY <4>2 DEF NodeState
      <3>7. net'[n] = Tail(net[n]) \o SentTo(r.tx, n)
          BY <2>3, <3>5
      <3>8. \A k \in 1 .. Len(r.tx) : r.tx[k] \in Sent(r)
          BY DEF Sent
      <3>9. Leads(r) /\ NoFarther(r, n)
          BY <2>1, <2>2, <2>5, <3>1, <3>3, <3>4, <3>6, <3>7, <3>8, TakenLed
      <3> QED
          BY <3>5, <3>6, <3>9, MovesLed
    <2>8. CASE UpdateTimerExpires(n)
      <3>1. UpdateDue(n) /\ Moves(n, {updateHandled(n)}, net)
          BY <2>8 DEF UpdateTimerExpires
      <3>2. KeepsSuccessor(updateHandled(n), c, NextID(n)) /\ Leads(updateHandled(n))
          BY <2>1, <2>2, <3>1, TimerKeepsSuccessor
      <3>3. updateHandled(n) \in NodeState
          BY <2>1, <3>1, TimerIssues DEF Staged, Sound
      <3> QED
          BY <2>4, <3>1, <3>2, <3>3
    <2>9. CASE TimerExpires(n)
      <3>1. PICK t \in TimersDue(n) : Moves(n, {timerHandled(n, t)}, net)
          BY <2>9 DEF TimerExpires, Moves
      <3>2. KeepsSuccessor(timerHandled(n, t), c, NextID(n)) /\ Leads(timerHandled(n, t))
          BY <2>1, <2>2, TimerKeepsSuccessor
      <3>3. timerHandled(n, t) \in NodeState
          BY <2>1, TimerIssues DEF Staged, Sound
      <3> QED
          BY <2>4, <3>1, <3>2, <3>3
    <2>10. CASE Coincide(n)
      <3>1. PICK s \in (IF UpdateDue(n) THEN {updateHandled(n)} ELSE {})
                           \cup {timerHandled(n, t) : t \in TimersDue(n)} :
                LET fresh == FreshID(n) \ {t.messageID : t \in s.timers}
                IN  /\ fresh # {}
                    /\ Moves(n, {[r EXCEPT !.tx = ByPriority(@)] :
                                     r \in received(s, Head(net[n]), Least(fresh))}, opened)
          BY <2>10 DEF Coincide, opened
      <3> DEFINE fresh == FreshID(n) \ {t.messageID : t \in s.timers}
                 id    == Least(fresh)
                 after == received(s, m, id)
      <3>2. /\ net[n] # <<>> /\ Moves(n, {[r EXCEPT !.tx = ByPriority(@)] : r \in after}, opened)
            /\ fresh \in SUBSET FreshID(n) /\ fresh # {}
          BY <2>10, <3>1 DEF Coincide
      <3>3. (UpdateDue(n) /\ s = updateHandled(n)) \/ \E t \in TimersDue(n) : s = timerHandled(n, t)
          OBVIOUS
      <3>4. /\ Staged(s, n, InFlight, Alive) /\ Before(s, n) /\ Issues(s, c, NextID(n))
            /\ s \in NodeState /\ s.id = n /\ \A x \in Sent(s) : Speaks(x, Alive)
            /\ KeepsSuccessor(s, c, NextID(n)) /\ Leads(s)
        <4>1. Staged(s, n, InFlight, Alive) /\ Issues(s, c, NextID(n))
            BY <2>1, <3>3, TimerIssues
        <4>2. Before(s, n)
            BY <2>1, <3>3, UpdateUndisturbed, TimerUndisturbed
        <4>3. KeepsSuccessor(s, c, NextID(n)) /\ Leads(s)
            BY <2>1, <2>2, <3>3, TimerKeepsSuccessor
        <4> QED
            BY <4>1, <4>2, <4>3 DEF Staged, Sound
      <3>5. PICK J : Covers(J) /\ Handled(s, n, J)
          BY <2>1, <3>3, UpdateHandled, TimerHandled, FreshCovers
      <3>6. id \in OwnID(n) /\ id \in fresh
        <4> HIDE DEF fresh
        <4> QED
            BY <3>2, LeastIsFresh
      <3>7. \A t \in s.timers : t.messageID # id
        <4> HIDE DEF id
        <4> QED
            BY <3>6
      <3> HIDE DEF fresh, id
      <3> DEFINE states == {[r EXCEPT !.tx = ByPriority(@)] : r \in after}
      <3>8. PICK r \in after : \E w \in states :
                /\ w = [r EXCEPT !.tx = ByPriority(@)]
                /\ node' = [node EXCEPT ![n] = Settled(w)]
                /\ net' = [d \in Node |-> opened[d] \o SentTo(w.tx, d)]
        <4> HIDE DEF after
        <4>1. \A w \in states : \E r \in after : w = [r EXCEPT !.tx = ByPriority(@)]
            OBVIOUS
        <4>2. Moves(n, states, opened)
            BY <3>2
        <4> HIDE DEF states
        <4> QED
            BY <4>1, <4>2 DEF Moves
      <3> HIDE DEF states
      <3>9. r \in NodeState /\ r.tx \in Seq(Message)
        <4>1. Staged(r, n, InFlight, Alive)
            BY <3>2, <3>4, <3>5, <3>6, <3>7, TakenUndisturbed
        <4>2. r \in NodeState
            BY <4>1 DEF Staged, Sound
        <4> QED
            BY <4>2 DEF NodeState
      <3> DEFINE v == ByPriority(r.tx)
                 u == [r EXCEPT !.tx = v]
      <3>10. v \in Seq(Message) /\ \A k \in 1 .. Len(v) : v[k] \in Sent(r)
          BY <3>9, ByPrioritySends, ByPriorityContents
      <3>11. /\ node' = [node EXCEPT ![n] = Settled(u)]
             /\ net'[n] = Tail(net[n]) \o SentTo(u.tx, n)
          BY <2>3, <3>8
      <3> HIDE DEF v
      <3>12. u.tx = v /\ u \in NodeState /\ u.successor = r.successor /\ (Leads(r) => Leads(u))
          BY <3>9, <3>10 DEF NodeState, Leads
      <3> HIDE DEF u
      <3>13. Leads(r) /\ NoFarther(r, n)
          BY <2>1, <3>2, <3>4, <3>10, <3>11, <3>12, TakenLed
      <3>14. Leads(u) /\ NoFarther(u, n)
          BY <3>12, <3>13 DEF NoFarther
      <3> QED
          BY <3>11, <3>12, <3>14, MovesLed
    <2>11. ~(HardReset(n) \/ ResetDropsArrival(n) \/ Pause(n))
        BY DEF HardReset, ResetDropsArrival, Pause, Give
    <2> QED
        BY <2>6, <2>7, <2>8, <2>9, <2>10, <2>11
  <1> QED
      BY <1>1, <1>2

\* Until the first command a node, of whatever network started as main.cpp starts it, goes
\* from a successor to one farther away only by the answer to a lookup of its own:
\* neither a node that joins, nor stabilize, nor a timeout takes it away
\* (setSuccessorAndRemoveTimers, setSuccessorStabilize, setCopyPreviousAliveFinger).
THEOREM SuccessorsApproach ==
    ASSUME StartedAsMain
    PROVE  Spec => OnlyLookupsMoveAway
  <1>1. Init => (given = 0 => Led)
      BY DEF Init, Led, Leads, Off
  <1>2. /\ InOrder /\ (given = 0 => Undisturbed) /\ (given = 0 => Led) /\ [Next]_vars
        => (given = 0 => Led)'
      BY GivenGrows, NextLed
  <1>3. /\ InOrder /\ InOrder' /\ (given = 0 => Undisturbed) /\ (given = 0 => Led) /\ [Next]_vars
        => [\A n \in Node : \/ given' > 0 \/ LookupAnswered(n)
                            \/ Gap(n, node'[n].successor) <= Gap(n, node[n].successor)]_vars
    <2>1. InOrder' => given' = 0 \/ given' > 0
        BY BootAssumption DEF InOrder
    <2> QED
        BY <2>1, GivenGrows, NextLed DEF NoFarther
  <1> QED
      BY <1>1, <1>2, <1>3, NetworkInOrder, NetworkUndisturbed, PTL DEF Spec, OnlyLookupsMoveAway

-----------------------------------------------------------------------------
(* The updates of a network implement UpdateCycle. *)

\* What the update of a node is doing, by its timers.
Doing(s) ==
    IF ~s.isNowUpdate THEN "none"
    ELSE IF \E t \in s.timers : t.type = "RX_PREDECESSOR" THEN "stabilize"
    ELSE IF \E t \in s.timers : t.type = "RX_SUCCESSOR" THEN "fix"
    ELSE "notify"

PhaseOf(s) == IF s.state = "PAUSED" \/ s.outOfRange THEN "stopped" ELSE Doing(s)

\* A handler that goes on with an exchange, and one that closes it.
LEMMA GoesOnDoing ==
    ASSUME NEW s, NEW r, GoesOn(r, s)
    PROVE  Doing(r) = Doing(s)
BY DEF GoesOn, Doing, Awaits

\* A node that has closed its exchange does nothing.
LEMMA ClosesDoing ==
    ASSUME NEW s, NEW r, Closes(r, s)
    PROVE  Doing(r) = "none"
BY DEF Closes, Doing

\* With a timer for a finger a node fixes it, with one for a predecessor it
\* stabilizes, and with one for the ACK of a NOTIFY it notifies.
LEMMA TimerDoing ==
    ASSUME NEW s, Tidy(s), NEW t \in s.timers, Awaits(t)
    PROVE  /\ s.isNowUpdate /\ \A u \in s.timers : Awaits(u) => u = t
           /\ t.type = "RX_PREDECESSOR" => Doing(s) = "stabilize"
           /\ t.type = "RX_SUCCESSOR" => Doing(s) = "fix"
           /\ t.type = "RX_ACK" => Doing(s) = "notify"
  <1>1. s.isNowUpdate /\ \A u \in s.timers : Awaits(u) => u = t
      BY DEF Tidy, LockInOrder
  <1>2. \A u \in s.timers : u.type \in {"RX_PREDECESSOR", "RX_SUCCESSOR"} => u = t
      BY <1>1 DEF Awaits
  <1> QED
      BY <1>1, <1>2 DEF Doing

\* q is what a message m makes of what a node is doing that does p: it may take the
\* answer to its stabilize, that to its fix_finger or the ACK of its NOTIFY.
Takes(p, q, s, m) ==
    \/ q = p
    \/ p \in {"none", "notify", "fix"} /\ q = "none"
    \/ /\ p = "stabilize" /\ q = "notify"
       /\ \E t \in s.timers : t.type = "RX_PREDECESSOR" /\ t.messageID = m.messageID

\* The answer to a FIND_PREDECESSOR takes a node from stabilize to notify.
LEMMA RxPredecessorDoing ==
    ASSUME NEW I, NEW s, Sound(s, I), Tidy(s), NEW m \in Message,
           m.searched \in Node, NEW mid \in MessageID
    PROVE  Takes(Doing(s), Doing(rxPredecessor(s, m, mid)), s, m)
  <1> DEFINE stable == setSuccessorStabilize(s, m.searched, m.messageID)
             next   == setNextFingerToUpdate(stable)
             r      == issueNotify(next, mid)
             gone   == TimersOf(s, {"RX_ACK", "RX_PREDECESSOR"}, "FIND_PREDECESSOR", m.messageID)
  <1>1. CASE TimersOf(s, {"RX_PREDECESSOR"}, "FIND_PREDECESSOR", m.messageID) = {}
      BY <1>1 DEF rxPredecessor, Takes
  <1>2. CASE TimersOf(s, {"RX_PREDECESSOR"}, "FIND_PREDECESSOR", m.messageID) # {}
    <2>1. PICK t \in s.timers : t.type = "RX_PREDECESSOR" /\ t.retryMess = "FIND_PREDECESSOR"
                                  /\ t.messageID = m.messageID
        BY <1>2 DEF TimersOf
    <2>2. Awaits(t) /\ t \in gone
        BY <2>1 DEF Awaits, TimersOf
    <2>3. s.isNowUpdate /\ (\A u \in s.timers : Awaits(u) => u = t) /\ Doing(s) = "stabilize"
        BY <2>1, <2>2, TimerDoing
    <2>4. Sound(stable, I)
        BY SetSuccessorStabilizeKeeps DEF Keeps
    <2>5. stable.timers = s.timers \ gone /\ stable.isNowUpdate = s.isNowUpdate
        BY DEF setSuccessorStabilize, removeTimers, TimersOf, Sound, NodeState
    <2> HIDE DEF stable, gone
    <2>6. Sound(next, I)
        BY <2>4, SetNextFingerToUpdateFollows DEF Follows
    <2>7. next.timers = s.timers \ gone /\ next.isNowUpdate
        BY <2>3, <2>4, <2>5 DEF setNextFingerToUpdate, Sound, NodeState
    <2> HIDE DEF next
    <2> DEFINE T == TimerFor("RX_ACK", createMessage(next, "NOTIFY", next.successor, mid, next.id), 0)
    <2>8. r.timers = next.timers \cup {T} /\ r.isNowUpdate = next.isNowUpdate
        BY <2>6 DEF issueNotify, pushTimers, sendMessage, Sound, NodeState
    <2>9. T.type = "RX_ACK"
        BY DEF TimerFor, createMessage
    <2>10. rxPredecessor(s, m, mid) = r
        BY <1>2 DEF rxPredecessor, next, stable
    <2> HIDE DEF r, T
    <2>11. \A u \in r.timers : u.type \notin {"RX_PREDECESSOR", "RX_SUCCESSOR"}
        BY <2>2, <2>3, <2>7, <2>8, <2>9 DEF Awaits
    <2>12. Doing(r) = "notify"
        BY <2>7, <2>8, <2>11 DEF Doing
    <2> QED
        BY <2>1, <2>3, <2>10, <2>12 DEF Takes
  <1> QED
      BY <1>1, <1>2

\* A message takes the update of a node a step further, or leaves it alone.
LEMMA ReceivedDoing ==
    ASSUME NEW n \in Node, NEW K, NEW s, Handled(s, n, K), Tidy(s), s.state # "OFF",
           NEW m \in Letters(K), m.dest = n, NEW mid \in OwnID(n),
           NEW r \in received(s, m, mid)
    PROVE  Takes(Doing(s), Doing(r), s, m)
  <1>1. Sound(s, OwnID(n)) /\ s.id = n /\ s \in NodeState /\ JoinIDs(s) \subseteq K
      BY DEF Handled, Sound
  <1>2. /\ m \in Message /\ mid \in MessageID
        /\ IsRequest(m) => /\ m.messageID \notin OwnID(n) /\ m.initiator # s.id
                           /\ m.isJoin => m.searched = Plus(m.initiator, 1)
        /\ m.type \in {"NOTIFY", "SUCCESSOR", "PREDECESSOR"} => m.searched \in Node
      BY <1>1, OwnIDs DEF Letters, IsLetter, OwnID
  <1>3. \A u : GoesOn(u, s) => Takes(Doing(s), Doing(u), s, m)
      BY GoesOnDoing DEF Takes
  <1>4. IsRequest(m) => GoesOn(rxFindSuccessor(s, m), s)
      BY <1>1, <1>2, RxFindSuccessorGoesOn
  <1>5. GoesOn(rxFindPredecessor(s, m), s) /\ GoesOn(rxNotify(s, m), s) /\ GoesOn(s, s)
      BY <1>1, <1>2, RxNotifyGoesOn, GoesOnItself
  <1>6. ASSUME m.type = "SUCCESSOR" PROVE Takes(Doing(s), Doing(rxSuccessor(s, m)), s, m)
    <2>1. ASSUME ~s.isSuccessorSet,
                 TimersOf(s, {"RX_SUCCESSOR_ON_JOIN"}, "JOIN", m.messageID) # {}
          PROVE  Takes(Doing(s), Doing(joinAnswered(s, m)), s, m)
      <3>1. PICK t \in s.timers : t.type = "RX_SUCCESSOR_ON_JOIN" /\ t.messageID = m.messageID
          BY <2>1 DEF TimersOf
      <3>2. ConfSeed[s.id] # <<>> /\ t.messageID \in OwnID(n)
          BY <1>1, <3>1 DEF Sound, TimersInOrder
      <3>3. m.messageID \in K
          BY <1>1, <3>1 DEF JoinIDs
      <3>4. m.searched # m.messageID[1]
          BY <1>6, <3>3 DEF Letters, IsLetter
      <3>5. m.searched # s.id
          BY <1>1, <3>1, <3>2, <3>4 DEF OwnID
      <3>6. Closes(joinAnswered(s, m), s)
          BY <1>1, <1>2, <1>6, <2>1, <3>2, <3>5, JoinAnsweredCloses
      <3>7. Doing(s) = "none"
          BY <2>1, <3>2 DEF Tidy, NotYetJoined, Doing
      <3> QED
          BY <3>6, <3>7, ClosesDoing DEF Takes
    <2>2. ASSUME TimersOf(s, {"RX_SUCCESSOR"}, "FIND_SUCCESSOR", m.messageID) # {}
          PROVE  Takes(Doing(s), Doing(fingerAnswered(s, m)), s, m)
      <3>1. Closes(fingerAnswered(s, m), s)
          BY <1>1, <1>2, <2>2, FingerAnsweredCloses
      <3>2. PICK t \in s.timers : t.type = "RX_SUCCESSOR"
          BY <2>2 DEF TimersOf
      <3>3. Doing(s) = "fix"
          BY <3>2, TimerDoing DEF Awaits
      <3> QED
          BY <3>1, <3>3, ClosesDoing DEF Takes
    <2> QED
        BY <1>3, <1>5, <2>1, <2>2 DEF rxSuccessor
  <1>7. m.type = "PREDECESSOR" => Takes(Doing(s), Doing(rxPredecessor(s, m, mid)), s, m)
      BY <1>1, <1>2, RxPredecessorDoing
  <1>8. ASSUME NEW t \in ackTimers(s, m) PROVE Takes(Doing(s), Doing(rxAck(s, t)), s, m)
    <2> DEFINE u == rxAck(s, t)
    <2>1. /\ u.timers = s.timers \ {t} /\ u.isNowUpdate = IF t.retryMess = "NOTIFY" THEN FALSE ELSE s.isNowUpdate
          /\ t \in s.timers /\ t.type = "RX_ACK"
        BY <1>1 DEF rxAck, ackTimers, NodeState
    <2> HIDE DEF u
    <2>2. CASE t.retryMess = "NOTIFY"
      <3>1. Doing(u) = "none" /\ Doing(s) = "notify"
          BY <2>1, <2>2, TimerDoing DEF Doing, Awaits
      <3> QED
          BY <3>1 DEF Takes, u
    <2>3. CASE t.retryMess # "NOTIFY"
      <3>1. Doing(u) = Doing(s)
          BY <2>1, <2>3 DEF Doing
      <3> QED
          BY <3>1 DEF Takes, u
    <2> QED
        BY <2>2, <2>3
  <1>9. Takes(Doing(s), Doing(s), s, m)
      BY DEF Takes
  <1> QED
      BY <1>3, <1>4, <1>5, <1>6, <1>7, <1>8, <1>9 DEF received, IsRequest

\* What a node has queued for transmission does not matter.
LEMMA SentPhase ==
    ASSUME NEW s \in NodeState, NEW tx
    PROVE  PhaseOf([s EXCEPT !.tx = tx]) = PhaseOf(s)
  <1> DEFINE r == [s EXCEPT !.tx = tx]
  <1>1. /\ r.state = s.state /\ r.timers = s.timers /\ r.isNowUpdate = s.isNowUpdate
        /\ r.outOfRange = s.outOfRange
      BY DEF NodeState
  <1> HIDE DEF r
  <1>2. PhaseOf(r) = PhaseOf(s)
      BY <1>1 DEF PhaseOf, Doing
  <1> QED
      BY <1>2 DEF r

\* A node that is paused takes its messages and its timers and does nothing.
LEMMA ReceivedPhase ==
    ASSUME NEW n \in Node, NEW K, NEW s, Handled(s, n, K), NodeTidy(s),
           NEW m \in Letters(K), m.dest = n, NEW mid \in OwnID(n),
           NEW r \in received(s, m, mid)
    PROVE  Takes(PhaseOf(s), PhaseOf(r), s, m)
  <1>1. CASE s.state = "IDLE"
    <2>1. Takes(Doing(s), Doing(r), s, m)
        BY <1>1, ReceivedDoing DEF NodeTidy
    <2>2. mid \in MessageID /\ s \in NodeState
        BY DEF OwnID, Handled, Sound
    <2>3. r.outOfRange = s.outOfRange
        BY <2>2, ReceivedInRange
    <2>4. r.state # "PAUSED"
        BY <1>1, ReceivedStaysTidy DEF StaysTidy
    <2> QED
        BY <1>1, <2>1, <2>3, <2>4 DEF PhaseOf, Takes
  <1>2. CASE s.state # "IDLE"
      BY <1>2 DEF received, Takes
  <1> QED
      BY <1>1, <1>2

\* An UPDATE timer begins to stabilize or to fix a finger, with an identifier of its
\* own, or finds nobody to ask.
LEMMA UpdateExpiredDoing ==
    ASSUME NEW s \in NodeState, Tidy(s), ~s.isNowUpdate, NEW mid
    PROVE  LET r == updateExpired(s, mid)
           IN  /\ r.outOfRange = s.outOfRange
               /\ \/ Doing(r) \in {"none", "fix"}
                  \/ /\ Doing(r) = "stabilize"
                     /\ \A t \in r.timers : t.type = "RX_PREDECESSOR" => t.messageID = mid
  <1> DEFINE locked == [s EXCEPT !.isNowUpdate = TRUE]
             first  == [locked EXCEPT !.isNowStabilize = TRUE]
             next   == setNextFingerToUpdate(locked)
             Locks(v) == /\ v \in NodeState /\ v.isNowUpdate /\ v.timers = s.timers
                         /\ v.outOfRange = s.outOfRange
             Begins(r) == /\ r.outOfRange = s.outOfRange
                          /\ \/ Doing(r) \in {"none", "fix"}
                             \/ /\ Doing(r) = "stabilize"
                                /\ \A t \in r.timers : t.type = "RX_PREDECESSOR" => t.messageID = mid
  <1>1. \A t \in s.timers : t.type \notin {"RX_PREDECESSOR", "RX_SUCCESSOR"}
      BY DEF Tidy, LockInOrder, Awaits
  <1>2. Locks(locked)
      BY DEF NodeState
  <1> HIDE DEF locked
  <1>3. Locks(first)
      BY <1>2 DEF NodeState
  <1>4. Locks(next)
    <2>1. staleFingers(locked) \in SUBSET FingerIndex
        BY DEF staleFingers
    <2>2. staleFingers(locked) # {} => lowest(staleFingers(locked)) \in Nat
        BY <2>1, HighestLowest DEF FingerIndex
    <2> QED
        BY <1>2, <2>2 DEF setNextFingerToUpdate, NodeState
  <1> HIDE DEF first, next
  <1>5. ASSUME NEW v, Locks(v) PROVE Begins(issueFindPredecessor(v, mid))
    <2> DEFINE find == createMessage(v, "FIND_PREDECESSOR", v.successor, mid, Minus(v.successor, 1))
               P == TimerFor("RX_PREDECESSOR", find, 0)
               A == TimerFor("RX_ACK", find, 0)
               r == issueFindPredecessor(v, mid)
    <2>1. r.timers = s.timers \cup {P, A} /\ r.isNowUpdate /\ r.outOfRange = s.outOfRange
        BY <1>5 DEF issueFindPredecessor, pushTimers, sendMessage, NodeState
    <2>2. P.type = "RX_PREDECESSOR" /\ P.messageID = mid /\ A.type = "RX_ACK"
        BY DEF TimerFor, createMessage
    <2> HIDE DEF r, P, A
    <2>3. Begins(r)
        BY <1>1, <2>1, <2>2 DEF Doing
    <2> QED
        BY <2>3 DEF r
  <1>6. Begins(issueFindSuccessor(next, mid))
    <2> DEFINE find == createMessage(next, "FIND_SUCCESSOR", fingerPast(next), mid,
                                     FingerStart(next.id, next.cwFingerIndex))
               S == TimerFor("RX_SUCCESSOR", find, 0)
               A == TimerFor("RX_ACK", find, 0)
               r == pushTimers(sendMessage(next, find), {"RX_SUCCESSOR", "RX_ACK"}, find, 0)
               u == [next EXCEPT !.isNowUpdate = FALSE]
    <2>1. issueFindSuccessor(next, mid) \in {u, r}
        BY DEF issueFindSuccessor
    <2>2. Begins(u)
      <3>1. ~u.isNowUpdate /\ u.outOfRange = s.outOfRange
          BY <1>4 DEF NodeState
      <3> HIDE DEF u
      <3> QED
          BY <3>1 DEF Doing
    <2>3. Begins(r)
      <3>1. r.timers = s.timers \cup {S, A} /\ r.isNowUpdate /\ r.outOfRange = s.outOfRange
          BY <1>4 DEF pushTimers, sendMessage, NodeState
      <3>2. S.type = "RX_SUCCESSOR" /\ A.type = "RX_ACK"
          BY DEF TimerFor, createMessage
      <3> HIDE DEF r, S, A
      <3> QED
          BY <1>1, <3>1, <3>2 DEF Doing
    <2> HIDE DEF u, r, Begins
    <2> QED
        BY <2>1, <2>2, <2>3
  <1>7. /\ ~s.isNowStabilize => updateExpired(s, mid) = issueFindPredecessor(first, mid)
        /\ s.isNowStabilize => updateExpired(s, mid) \in {issueFindPredecessor(next, mid),
                                                          issueFindSuccessor(next, mid)}
      BY DEF updateExpired, locked, first, next
  <1> HIDE DEF Locks, Begins
  <1>8. Begins(updateExpired(s, mid))
      BY <1>3, <1>4, <1>5, <1>6, <1>7
  <1> QED
      BY <1>8 DEF Begins

\* An UPDATE timer of a node, whatever its state.
LEMMA UpdatePhase ==
    ASSUME InOrder, Tidied, NEW n \in Node, UpdateDue(n), Running(n)
    PROVE  LET p == PhaseOf(node[n])
               r == updateHandled(n)
           IN  \/ PhaseOf(r) = p
               \/ p = "none" /\ PhaseOf(r) = "fix"
               \/ /\ p = "none" /\ PhaseOf(r) = "stabilize"
                  /\ \A t \in r.timers : t.type = "RX_PREDECESSOR" => t.messageID = NextID(n)
  <1> DEFINE s == node[n]
             r == updateHandled(n)
  <1>1. s \in NodeState /\ NodeTidy(s) /\ s.updateTimers > 0
      BY DEF InOrder, NodesInOrder, UpdateDue, Tidied
  <1>2. CASE s.state = "IDLE"
    <2>1. r = updateExpired(s, NextID(n)) /\ Tidy(s)
        BY <1>1, <1>2 DEF updateHandled, NodeTidy
    <2>2. r.state # "PAUSED"
        BY <1>2, UpdateStaysTidy DEF StaysTidy
    <2> HIDE DEF s, r
    <2>3. CASE s.isNowUpdate
        BY <2>1, <2>3 DEF updateExpired, s, r
    <2>4. CASE ~s.isNowUpdate
      <3>1. /\ r.outOfRange = s.outOfRange
            /\ \/ Doing(r) \in {"none", "fix"}
               \/ /\ Doing(r) = "stabilize"
                  /\ \A t \in r.timers : t.type = "RX_PREDECESSOR" => t.messageID = NextID(n)
          BY <1>1, <2>1, <2>4, UpdateExpiredDoing
      <3>2. Doing(s) = "none"
          BY <2>4 DEF Doing
      <3>3. \/ PhaseOf(r) = PhaseOf(s)
            \/ PhaseOf(s) = "none" /\ PhaseOf(r) = "fix"
            \/ /\ PhaseOf(s) = "none" /\ PhaseOf(r) = "stabilize"
               /\ \A t \in r.timers : t.type = "RX_PREDECESSOR" => t.messageID = NextID(n)
          BY <1>2, <2>2, <3>1, <3>2 DEF PhaseOf
      <3> QED
          BY <3>3 DEF s, r
    <2> QED
        BY <2>3, <2>4
  <1>3. CASE s.state # "IDLE"
    <2>1. s.state = "PAUSED"
        BY <1>1, <1>3 DEF NodeTidy, Tidy, NodeState
    <2>2. r.state = s.state
        BY <1>1, <1>3 DEF updateHandled, NodeState
    <2> QED
        BY <2>1, <2>2 DEF PhaseOf
  <1> QED
      BY <1>2, <1>3

\* A JOIN that is issued again is none of the update's business.
LEMMA JoinExpiredPhase ==
    ASSUME NEW s \in NodeState, s.state = "IDLE", NEW t \in s.timers, ~Awaits(t), NEW mid
    PROVE  PhaseOf(joinExpired([s EXCEPT !.timers = @ \ {t}], t, mid)) = PhaseOf(s)
  <1> DEFINE rest == [s EXCEPT !.timers = @ \ {t}]
             past == removeTimers(rest, {"RX_ACK", "RX_SUCCESSOR_ON_JOIN"}, "JOIN", t.messageID)
             r    == joinExpired(rest, t, mid)
  <1>1. /\ rest \in NodeState /\ rest.timers = s.timers \ {t} /\ rest.state = s.state
        /\ rest.isNowUpdate = s.isNowUpdate /\ rest.outOfRange = s.outOfRange
      BY DEF NodeState
  <1> HIDE DEF rest
  <1>2. Doing(rest) = Doing(s)
      BY <1>1 DEF Doing, Awaits
  <1>3. Doing(r) = Doing(rest)
      BY <1>1, JoinExpiredGoesOn, GoesOnDoing
  <1>4. past \in NodeState /\ past.outOfRange = rest.outOfRange /\ past.state = rest.state
      BY <1>1 DEF removeTimers, TimersOf, NodeState
  <1>5. r = issueJoin(past, IF t.requestCounter < CtxJoin THEN t.requestCounter + 1 ELSE 0, mid)
      BY DEF joinExpired
  <1> HIDE DEF past, r
  <1>6. \A k : issueJoin(past, k, mid).outOfRange = past.outOfRange
               /\ issueJoin(past, k, mid).state = past.state
      BY <1>4 DEF issueJoin, pushTimers, sendMessage, NodeState
  <1>7. r.outOfRange = past.outOfRange /\ r.state = past.state
      BY <1>5, <1>6
  <1>8. PhaseOf(r) = PhaseOf(s)
      BY <1>1, <1>2, <1>3, <1>4, <1>7 DEF PhaseOf
  <1> QED
      BY <1>8 DEF r, rest

\* A finger that is copied belongs to no exchange.
LEMMA CopyPhase ==
    ASSUME NEW s \in NodeState, ~s.isNowUpdate, NEW mid
    PROVE  PhaseOf(setCopyPreviousAliveFinger(s, mid)) \in {"none", "stopped"}
  <1>1. ~hardReset(s, mid).isNowUpdate
      BY DEF NodeState, hardReset, flush, goStateInit, softReset, issueJoin, pushTimers, sendMessage
  <1>2. \A i, alive : ~[s EXCEPT !.cwFingers[i] = alive, !.isUpdated = @ \cup {i},
                                 !.successor = IF i = 0 THEN alive ELSE @,
                                 !.cwFingerIndex = i + 1].isNowUpdate
      BY DEF NodeState
  <1>3. [s EXCEPT !.outOfRange = TRUE].outOfRange
      BY DEF NodeState
  <1>4. \A r : ~r.isNowUpdate \/ r.outOfRange => PhaseOf(r) \in {"none", "stopped"}
      BY DEF PhaseOf, Doing
  <1> QED
      BY <1>1, <1>2, <1>3, <1>4 DEF setCopyPreviousAliveFinger

\* A timeout of the update gives up the exchange, if it does not stop the node.
LEMMA TimerExpiredPhase ==
    ASSUME NEW s \in NodeState, s.state = "IDLE", NEW t \in s.timers, NEW mid
    PROVE  LET r == timerExpired(s, t, mid)
           IN  PhaseOf(r) = PhaseOf(s) \/ PhaseOf(r) \in {"none", "stopped"}
  <1> DEFINE rest == [s EXCEPT !.timers = @ \ {t}]
             gone(types, retry) == removeTimers(rest, types, retry, t.messageID)
             r == timerExpired(s, t, mid)
  <1>1. rest \in NodeState /\ \A types, retry : gone(types, retry) \in NodeState
      BY DEF removeTimers, TimersOf, NodeState
  <1>2. ASSUME NEW u \in NodeState
        PROVE  /\ PhaseOf(unlocked(u)) \in {"none", "stopped"}
               /\ PhaseOf([unlocked(u) EXCEPT !.isNowStabilize = FALSE]) \in {"none", "stopped"}
               /\ PhaseOf([unlocked(u) EXCEPT !.timers = @ \cup {t}]) \in {"none", "stopped"}
               /\ PhaseOf(setCopyPreviousAliveFinger(unlocked(u), mid)) \in {"none", "stopped"}
    <2>1. unlocked(u) \in NodeState /\ ~unlocked(u).isNowUpdate
        BY DEF unlocked, NodeState
    <2>2. /\ ~[unlocked(u) EXCEPT !.isNowStabilize = FALSE].isNowUpdate
          /\ ~[unlocked(u) EXCEPT !.timers = @ \cup {t}].isNowUpdate
        BY <2>1 DEF NodeState
    <2>3. PhaseOf(setCopyPreviousAliveFinger(unlocked(u), mid)) \in {"none", "stopped"}
        BY <2>1, CopyPhase
    <2> QED
        BY <2>1, <2>2, <2>3 DEF PhaseOf, Doing
  <1>3. CASE t.type = "RX_ACK"
    <2>1. r = ackExpired(rest, t, mid)
        BY <1>3 DEF timerExpired
    <2>2. t.retryMess = "JOIN" => PhaseOf(joinExpired(rest, t, mid)) = PhaseOf(s)
        BY <1>3, JoinExpiredPhase DEF Awaits
    <2> HIDE DEF rest, r
    <2>3. ackExpired(rest, t, mid) \in
              {IF t.retryMess = "JOIN" THEN joinExpired(rest, t, mid) ELSE unlocked(rest),
               setCopyPreviousAliveFinger(unlocked(gone({"RX_SUCCESSOR"}, "FIND_SUCCESSOR")), mid),
               [unlocked(gone({"RX_SUCCESSOR"}, "FIND_SUCCESSOR")) EXCEPT !.timers = @ \cup {t}],
               unlocked(gone({"RX_PREDECESSOR"}, "FIND_PREDECESSOR"))}
        BY DEF ackExpired, findSuccessorNoAck, forwardNoAck
    <2> HIDE DEF gone
    <2> QED
        BY <1>1, <1>2, <2>1, <2>2, <2>3 DEF r
  <1>4. CASE t.type = "RX_SUCCESSOR_ON_JOIN"
    <2>1. r = joinExpired(rest, t, mid)
        BY <1>4 DEF timerExpired
    <2> QED
        BY <1>4, <2>1, JoinExpiredPhase DEF Awaits
  <1>5. CASE t.type \notin {"RX_ACK", "RX_SUCCESSOR_ON_JOIN"}
    <2>1. r \in {[unlocked(rest) EXCEPT !.isNowStabilize = FALSE],
                 setCopyPreviousAliveFinger(unlocked(rest), mid)}
        BY <1>5 DEF timerExpired
    <2> HIDE DEF rest, r
    <2> QED
        BY <1>1, <1>2, <2>1 DEF r
  <1> QED
      BY <1>3, <1>4, <1>5

\* Any other timer of a node, whatever its state.
LEMMA TimerPhase ==
    ASSUME InOrder, Tidied, NEW n \in Node, NEW t \in TimersDue(n), Running(n)
    PROVE  LET r == timerHandled(n, t)
           IN  PhaseOf(r) = PhaseOf(node[n]) \/ PhaseOf(r) \in {"none", "stopped"}
  <1> DEFINE s == node[n]
             r == timerHandled(n, t)
  <1>1. s \in NodeState /\ t \in s.timers /\ NodeTidy(s)
      BY DEF InOrder, NodesInOrder, TimersDue, Tidied
  <1>2. CASE s.state = "IDLE"
    <2>1. r = timerExpired(s, t, NextID(n))
        BY <1>2 DEF timerHandled
    <2> HIDE DEF s, r
    <2>2. PhaseOf(r) = PhaseOf(s) \/ PhaseOf(r) \in {"none", "stopped"}
        BY <1>1, <1>2, <2>1, TimerExpiredPhase
    <2> QED
        BY <2>2 DEF s, r
  <1>3. CASE s.state # "IDLE"
    <2>1. s.state = "PAUSED"
        BY <1>1, <1>3 DEF NodeTidy, Tidy, NodeState
    <2>2. r.state = s.state
        BY <1>1, <1>3 DEF timerHandled, timerDropped, NodeState
    <2> QED
        BY <2>1, <2>2 DEF PhaseOf
  <1> QED
      BY <1>2, <1>3

\* In a network nobody has disturbed the only exchange that times out is fix_finger.
LEMMA TimerPhaseUndisturbed ==
    ASSUME InOrder, StartedAsMain, Undisturbed, PassedOnAcked, Tidied,
           NEW n \in Node, NEW t \in TimersDue(n), Running(n)
    PROVE  LET r == timerHandled(n, t)
           IN  \/ PhaseOf(r) = PhaseOf(node[n])
               \/ PhaseOf(node[n]) = "fix" /\ PhaseOf(r) = "none"
  <1> DEFINE s == node[n]
             r == timerHandled(n, t)
             rest == [s EXCEPT !.timers = @ \ {t}]
             u    == [unlocked(rest) EXCEPT !.isNowStabilize = FALSE]
  <1>1. s \in NodeState /\ t \in s.timers /\ t \in Timer /\ ~s.outOfRange
      BY DEF InOrder, NodesInOrder, TimersDue, NodeState, Running
  <1>2. ~Waits(t) /\ s.state = "IDLE" /\ Tidy(s)
      BY TimerUndisturbed DEF Tidied, NodeTidy
  <1>3. Regular(s)
      BY <1>2, NodeStaged DEF Staged
  <1>4. r = timerExpired(s, t, NextID(n))
      BY <1>2 DEF timerHandled
  <1>5. t.type # "RX_ACK"
    <2> SUFFICES ASSUME t.type = "RX_ACK" PROVE FALSE
        OBVIOUS
    <2>1. t.retransmitCounter # 0 /\ t.retryMess = "FIND_SUCCESSOR"
        BY <1>1, <1>2, <1>3 DEF Waits, Regular, PassedOn
    <2>2. t.retransmitCounter > 0
        BY <1>1, <2>1 DEF Timer
    <2> QED
        BY <1>2, <2>1, <2>2 DEF PassedOnAcked
  <1>6. t.type = "RX_SUCCESSOR_ON_JOIN" \/ t.type = "RX_SUCCESSOR"
      BY <1>1, <1>2, <1>5 DEF Timer, TimerType, Waits
  <1>7. ASSUME t.type = "RX_SUCCESSOR_ON_JOIN" PROVE PhaseOf(r) = PhaseOf(s)
    <2>1. r = joinExpired(rest, t, NextID(n))
        BY <1>4, <1>7 DEF timerExpired
    <2> HIDE DEF s, r
    <2> QED
        BY <1>1, <1>2, <1>7, <2>1, JoinExpiredPhase DEF Awaits
  <1>8. ASSUME t.type = "RX_SUCCESSOR" PROVE PhaseOf(s) = "fix" /\ PhaseOf(r) = "none"
    <2>1. r = u
        BY <1>4, <1>8 DEF timerExpired
    <2>2. ~u.isNowUpdate /\ u.outOfRange = s.outOfRange /\ u.state = s.state
        BY <1>1 DEF unlocked, NodeState
    <2> HIDE DEF u, r, s, rest
    <2>3. Doing(s) = "fix"
        BY <1>1, <1>2, <1>8, TimerDoing DEF Awaits
    <2> QED
        BY <1>1, <1>2, <2>1, <2>2, <2>3 DEF PhaseOf, Doing
  <1> HIDE DEF r, s
  <1>9. PhaseOf(r) = PhaseOf(s) \/ (PhaseOf(s) = "fix" /\ PhaseOf(r) = "none")
      BY <1>6, <1>7, <1>8
  <1> QED
      BY <1>9 DEF r, s

\* A step of UpdateCycle that nothing disturbs.
Turns(p, q) ==
    \/ q = p
    \/ p = "none" /\ q \in {"stabilize", "fix"}
    \/ p = "stabilize" /\ q = "notify"
    \/ p \in {"notify", "fix"} /\ q = "none"

\* A step from one value to another, undisturbed or not.
LEMMA PhaseSteps ==
    ASSUME NEW n \in Node, NEW p, NEW q, p = Phase(n),
           [k \in Node |-> Phase(k)]' = [[k \in Node |-> Phase(k)] EXCEPT ![n] = q],
           \/ given' = given /\ Turns(p, q)
           \/ given' > 0 /\ q \in {"none", "stopped"}
    PROVE  [Update!Next]_(Update!vars)
  <1> DEFINE P == [k \in Node |-> Phase(k)]
  <1>1. P \in [Node -> {Phase(k) : k \in Node}] /\ P[n] = p /\ P' = [P EXCEPT ![n] = q]
      OBVIOUS
  <1>2. CASE given' > 0 /\ q \in {"none", "stopped"}
    <2>1. (given > 0)' = TRUE /\ \E to \in {"none", "stopped"} : P' = [P EXCEPT ![n] = to]
        BY <1>1, <1>2
    <2>2. Update!Disturb(n)
        BY <2>1 DEF Update!Disturb
    <2> QED
        BY <2>2 DEF Update!Next
  <1>3. CASE given' = given /\ Turns(p, q)
    <2>1. (given > 0)' = (given > 0)
        BY <1>3
    <2>2. CASE q = p
      <3>1. P' = P
          BY <1>1, <2>2
      <3> QED
          BY <2>1, <3>1 DEF Update!vars
    <2>3. CASE p = "none" /\ q = "stabilize"
      <3>1. Update!Stabilize(n)
          BY <1>1, <2>1, <2>3 DEF Update!Stabilize, Update!Goes
      <3> QED
          BY <3>1 DEF Update!Next
    <2>4. CASE p = "none" /\ q = "fix"
      <3>1. Update!Fix(n)
          BY <1>1, <2>1, <2>4 DEF Update!Fix, Update!Goes
      <3> QED
          BY <3>1 DEF Update!Next
    <2>5. CASE p = "stabilize" /\ q = "notify"
      <3>1. Update!Notify(n)
          BY <1>1, <2>1, <2>5 DEF Update!Notify, Update!Goes
      <3> QED
          BY <3>1 DEF Update!Next
    <2>6. CASE p \in {"notify", "fix"} /\ q = "none"
      <3>1. Update!Finish(n)
          BY <1>1, <2>1, <2>6 DEF Update!Finish, Update!Goes
      <3> QED
          BY <3>1 DEF Update!Next
    <2> QED
        BY <1>3, <2>2, <2>3, <2>4, <2>5, <2>6 DEF Turns
  <1> QED
      BY <1>2, <1>3

\* What a node may do to its phase in a step.
MayDo(p, r) == \/ given' = given /\ Turns(p, PhaseOf(r))
               \/ given' > 0 /\ PhaseOf(r) \in {"none", "stopped"}

\* Node n moves, and its phase by a step of UpdateCycle; the others stay.
LEMMA MovesPhase ==
    ASSUME InOrder, NEW n \in Node, NEW states, NEW q, Moves(n, states, q),
           \A r \in states : r \in NodeState /\ MayDo(Phase(n), r)
    PROVE  [Update!Next]_(Update!vars)
  <1>1. PICK r \in states : node' = [node EXCEPT ![n] = Settled(r)]
      BY DEF Moves
  <1>2. PhaseOf(Settled(r)) = PhaseOf(r) /\ MayDo(Phase(n), r)
      BY <1>1, SentPhase DEF Settled
  <1>3. node'[n] = Settled(r) /\ \A k \in Node : k # n => node'[k] = node[k]
      BY <1>1 DEF InOrder, NodesInOrder
  <1>4. \A k \in Node : Phase(k)' = PhaseOf(node'[k]) /\ Phase(k) = PhaseOf(node[k])
      BY DEF Phase, Stopped, PhaseOf, Doing
  <1>5. \A k \in Node : Phase(k)' = IF k = n THEN PhaseOf(r) ELSE Phase(k)
      BY <1>2, <1>3, <1>4
  <1>6. [k \in Node |-> Phase(k)]' = [[k \in Node |-> Phase(k)] EXCEPT ![n] = PhaseOf(r)]
      BY <1>5
  <1> QED
      BY <1>2, <1>6, PhaseSteps DEF MayDo

\* A reset node updates nothing.
LEMMA HardResetPhase ==
    ASSUME NEW s \in NodeState, NEW mid
    PROVE  /\ PhaseOf(hardReset(s, mid)) \in {"none", "stopped"}
           /\ ~s.outOfRange => PhaseOf(hardReset(s, mid)) = "none"
  <1> DEFINE r == hardReset(s, mid)
  <1>1. ~r.isNowUpdate /\ r.state = "IDLE" /\ r.outOfRange = s.outOfRange
      BY DEF NodeState, hardReset, flush, goStateInit, softReset, issueJoin, pushTimers, sendMessage
  <1> HIDE DEF r
  <1>2. PhaseOf(r) \in {"none", "stopped"} /\ (~s.outOfRange => PhaseOf(r) = "none")
      BY <1>1 DEF PhaseOf, Doing
  <1> QED
      BY <1>2 DEF r

\* A message that arrives in the instant of a timer: what the timer has asked for is
\* not answered yet.
LEMMA CoincidePhase ==
    ASSUME InOrder, StartedAsMain, given = 0 => Undisturbed, PassedOnAcked, Tidied,
           NEW n \in Node, Running(n), given' = given,
           NEW s, \/ UpdateDue(n) /\ s = updateHandled(n)
                  \/ \E t \in TimersDue(n) : s = timerHandled(n, t),
           NEW m, m.messageID \in UsedID, NEW r, Takes(PhaseOf(s), PhaseOf(r), s, m)
    PROVE  MayDo(Phase(n), r)
  <1> DEFINE p == PhaseOf(node[n])
             q == PhaseOf(s)
  <1>1. Phase(n) = p
      BY DEF Phase, Stopped, PhaseOf, Doing
  <1>2. given \in Nat
      BY BootAssumption DEF InOrder
  <1>3. CASE UpdateDue(n) /\ s = updateHandled(n)
    <2>1. \/ q = p
          \/ p = "none" /\ q = "fix"
          \/ /\ p = "none" /\ q = "stabilize"
             /\ \A t \in s.timers : t.type = "RX_PREDECESSOR" => t.messageID = NextID(n)
        BY <1>3, UpdatePhase
    <2>2. NextID(n) \notin UsedID
        BY NextIDIsFresh
    <2>3. Turns(p, PhaseOf(r))
        BY <2>1, <2>2 DEF Takes, Turns
    <2> QED
        BY <1>1, <2>3 DEF MayDo
  <1>4. CASE \E t \in TimersDue(n) : s = timerHandled(n, t)
    <2>1. CASE given = 0
      <3>1. q = p \/ (p = "fix" /\ q = "none")
          BY <1>4, <2>1, TimerPhaseUndisturbed
      <3>2. Turns(p, PhaseOf(r))
          BY <3>1 DEF Takes, Turns
      <3> QED
          BY <1>1, <3>2 DEF MayDo
    <2>2. CASE given # 0
      <3>1. q = p \/ q \in {"none", "stopped"}
          BY <1>4, TimerPhase
      <3>2. Turns(p, PhaseOf(r)) \/ PhaseOf(r) \in {"none", "stopped"}
          BY <3>1 DEF Takes, Turns
      <3>3. given' > 0
          BY <1>2, <2>2
      <3> QED
          BY <1>1, <3>2, <3>3 DEF MayDo
    <2> QED
        BY <2>1, <2>2
  <1> QED
      BY <1>3, <1>4

\* The step lemma, one step per action.
LEMMA NextPhase ==
    ASSUME InOrder, StartedAsMain, given = 0 => Undisturbed, PassedOnAcked, Tidied, [Next]_vars
    PROVE  [Update!Next]_(Update!vars)
  <1>1. CASE UNCHANGED vars
    <2>1. node' = node /\ given' = given
        BY <1>1 DEF vars
    <2>2. \A k \in Node : Phase(k)' = Phase(k)
        BY <2>1 DEF Phase, Stopped
    <2>3. [k \in Node |-> Phase(k)]' = [k \in Node |-> Phase(k)] /\ (given > 0)' = (given > 0)
        BY <2>1, <2>2
    <2> QED
        BY <2>3 DEF Update!vars
  <1>2. CASE Next
    <2> PICK n \in Node :
            \/ Boot(n) \/ Deliver(n) \/ UpdateTimerExpires(n) \/ TimerExpires(n)
            \/ Coincide(n) \/ HardReset(n) \/ ResetDropsArrival(n) \/ Pause(n)
        BY <1>2 DEF Next
    <2> DEFINE opened == [net EXCEPT ![n] = Tail(@)]
               p == PhaseOf(node[n])
    <2>1. Running(n)
        BY DEF Boot, Deliver, UpdateTimerExpires, TimerExpires, Coincide, HardReset,
               ResetDropsArrival, Pause, Give
    <2>2. /\ Covers(Joining) /\ Covers(Joining \cup {NextID(n)}) /\ NextID(n) \in OwnID(n)
          /\ Handled(node[n], n, Joining)
        BY <2>1, FreshCovers, NextIDIsFresh, NodeHandled
    <2>3. /\ node[n] \in NodeState /\ NodeTidy(node[n]) /\ given \in Nat
          /\ ~node[n].outOfRange
        BY <2>1, BootAssumption DEF InOrder, NodesInOrder, Tidied, Running
    <2>4. Phase(n) = p
        BY DEF Phase, Stopped, PhaseOf, Doing
    <2>5. ASSUME NEW states, NEW q, Moves(n, states, q),
                 \A r \in states : r \in NodeState /\ MayDo(p, r)
          PROVE  [Update!Next]_(Update!vars)
        BY <2>4, <2>5, MovesPhase
    <2>6. ASSUME net[n] # <<>>, NEW J, Covers(J), NEW s, Handled(s, n, J), NodeTidy(s),
                 NEW mid \in OwnID(n), NEW r \in received(s, Head(net[n]), mid)
          PROVE  /\ r \in NodeState /\ Takes(PhaseOf(s), PhaseOf(r), s, Head(net[n]))
                 /\ Head(net[n]).messageID \in UsedID
      <3>1. /\ Head(net[n]) \in Letters(J) /\ Head(net[n]).dest = n
            /\ Head(net[n]).messageID \in UsedID
          BY <2>6, QueueOpens, LettersStay, InUse DEF InOrder, QueuesInOrder
      <3>2. Takes(PhaseOf(s), PhaseOf(r), s, Head(net[n]))
          BY <2>6, <3>1, ReceivedPhase
      <3>3. r \in NodeState
          BY <2>6, <3>1, ReceivedHandled DEF Handled, Sound
      <3> QED
          BY <3>1, <3>2, <3>3
    <2> HIDE DEF opened, p
    <2>7. CASE Boot(n)
      <3>1. /\ Moves(n, {hardReset(node[n], NextID(n))}, net) /\ given' = given
            /\ node[n].state = "OFF"
          BY <2>7 DEF Boot
      <3>2. p = "none"
          BY <2>3, <3>1 DEF p, PhaseOf, Doing, NodeTidy, Tidy, LockInOrder
      <3>3. PhaseOf(hardReset(node[n], NextID(n))) = "none"
          BY <2>3, HardResetPhase
      <3>4. hardReset(node[n], NextID(n)) \in NodeState
        <4>1. OwnID(n) \in SUBSET MessageID
            BY OwnIDs
        <4> QED
            BY <2>2, <4>1, HardResetFollows DEF Follows, Sound, Handled
      <3> QED
          BY <2>5, <3>1, <3>2, <3>3, <3>4 DEF MayDo, Turns
    <2>8. CASE Deliver(n)
      <3> DEFINE states == received(node[n], Head(net[n]), NextID(n))
      <3>1. net[n] # <<>> /\ Moves(n, states, opened) /\ given' = given
          BY <2>8 DEF Deliver, opened
      <3>2. \A r \in states : r \in NodeState /\ MayDo(p, r)
          BY <2>2, <2>3, <2>6, <3>1 DEF MayDo, Turns, Takes, p
      <3> HIDE DEF states
      <3> QED
          BY <2>5, <3>1, <3>2
    <2>9. CASE UpdateTimerExpires(n)
      <3>1. UpdateDue(n) /\ Moves(n, {updateHandled(n)}, net) /\ given' = given
          BY <2>9 DEF UpdateTimerExpires
      <3>2. updateHandled(n) \in NodeState
          BY <2>1, <3>1, UpdateHandled DEF Handled, Sound
      <3>3. MayDo(p, updateHandled(n))
          BY <2>1, <3>1, UpdatePhase DEF MayDo, Turns, p
      <3> QED
          BY <2>5, <3>1, <3>2, <3>3
    <2>10. CASE TimerExpires(n)
      <3> DEFINE states == {timerHandled(n, t) : t \in TimersDue(n)}
      <3>1. Moves(n, states, net) /\ given' = given
          BY <2>10 DEF TimerExpires
      <3>2. ASSUME NEW t \in TimersDue(n)
            PROVE  timerHandled(n, t) \in NodeState /\ MayDo(p, timerHandled(n, t))
        <4> DEFINE r == timerHandled(n, t)
        <4>1. r \in NodeState
            BY <2>1, TimerHandled DEF Handled, Sound
        <4>2. PhaseOf(r) = p \/ PhaseOf(r) \in {"none", "stopped"}
            BY <2>1, TimerPhase DEF p
        <4>3. given = 0 => (PhaseOf(r) = p \/ (p = "fix" /\ PhaseOf(r) = "none"))
            BY <2>1, TimerPhaseUndisturbed DEF p
        <4> HIDE DEF r
        <4>4. MayDo(p, r)
          <5>1. given = 0 \/ given' > 0
              BY <2>3, <3>1
          <5> QED
              BY <3>1, <4>2, <4>3, <5>1 DEF MayDo, Turns
        <4> QED
            BY <4>1, <4>4 DEF r
      <3>3. \A r \in states : r \in NodeState /\ MayDo(p, r)
          BY <3>2
      <3> HIDE DEF states
      <3> QED
          BY <2>5, <3>1, <3>3
    <2>11. CASE Coincide(n)
      <3>1. PICK s \in (IF UpdateDue(n) THEN {updateHandled(n)} ELSE {})
                           \cup {timerHandled(n, t) : t \in TimersDue(n)} :
                LET fresh == FreshID(n) \ {t.messageID : t \in s.timers}
                IN  /\ fresh # {}
                    /\ Moves(n, {[r EXCEPT !.tx = ByPriority(@)] :
                                     r \in received(s, Head(net[n]), Least(fresh))}, opened)
          BY <2>11 DEF Coincide, opened
      <3> DEFINE fresh  == FreshID(n) \ {t.messageID : t \in s.timers}
                 after  == received(s, Head(net[n]), Least(fresh))
                 states == {[r EXCEPT !.tx = ByPriority(@)] : r \in after}
      <3>2. /\ net[n] # <<>> /\ Moves(n, states, opened) /\ given' = given
            /\ fresh \in SUBSET FreshID(n) /\ fresh # {}
          BY <2>11, <3>1 DEF Coincide
      <3>3. (UpdateDue(n) /\ s = updateHandled(n)) \/ \E t \in TimersDue(n) : s = timerHandled(n, t)
          OBVIOUS
      <3>4. NodeTidy(s)
          BY <2>1, <3>3, UpdateStaysTidy, TimerStaysTidy DEF StaysTidy
      <3>5. PICK J : Covers(J) /\ Handled(s, n, J)
          BY <2>1, <2>2, <3>3, UpdateHandled, TimerHandled
      <3>6. Least(fresh) \in OwnID(n)
        <4> HIDE DEF fresh
        <4> QED
            BY <3>2, LeastIsFresh
      <3> HIDE DEF fresh
      <3>7. \A r \in after : r \in NodeState /\ MayDo(p, r)
        <4>1. ASSUME NEW r \in after
              PROVE  /\ r \in NodeState /\ Takes(PhaseOf(s), PhaseOf(r), s, Head(net[n]))
                     /\ Head(net[n]).messageID \in UsedID
            BY <2>6, <3>2, <3>4, <3>5, <3>6, <4>1
        <4> HIDE DEF after
        <4>2. ASSUME NEW r \in after PROVE MayDo(p, r)
            BY <2>1, <2>4, <3>2, <3>3, <4>1, <4>2, CoincidePhase
        <4> QED
            BY <4>1, <4>2
      <3> HIDE DEF after
      <3>8. ASSUME NEW r \in after
            PROVE  LET u == [r EXCEPT !.tx = ByPriority(@)] IN u \in NodeState /\ MayDo(p, u)
        <4>1. r \in NodeState /\ r.tx \in Seq(Message) /\ MayDo(p, r)
            BY <3>7, <3>8 DEF NodeState
        <4> DEFINE tx == ByPriority(r.tx)
                   u  == [r EXCEPT !.tx = tx]
        <4>2. tx \in Seq(Message)
            BY <4>1, ByPrioritySends
        <4> HIDE DEF tx
        <4>3. u \in NodeState
            BY <4>1, <4>2 DEF NodeState
        <4>4. PhaseOf(u) = PhaseOf(r)
            BY <4>1, SentPhase
        <4> HIDE DEF u
        <4>5. u \in NodeState /\ MayDo(p, u)
            BY <4>1, <4>3, <4>4 DEF MayDo
        <4> QED
            BY <4>5 DEF u, tx
      <3>9. \A u \in states : u \in NodeState /\ MayDo(p, u)
          BY <3>8
      <3> HIDE DEF states
      <3> QED
          BY <2>5, <3>2, <3>9
    <2>12. ASSUME NEW s \in NodeState, Sound(s, OwnID(n)), given' = given + 1
           PROVE  hardReset(s, NextID(n)) \in NodeState /\ MayDo(p, hardReset(s, NextID(n)))
      <3>1. OwnID(n) \in SUBSET MessageID
          BY OwnIDs
      <3>2. hardReset(s, NextID(n)) \in NodeState
          BY <2>2, <2>12, <3>1, HardResetFollows DEF Follows, Sound
      <3>3. given' > 0 /\ PhaseOf(hardReset(s, NextID(n))) \in {"none", "stopped"}
          BY <2>3, <2>12, HardResetPhase
      <3> QED
          BY <3>2, <3>3 DEF MayDo
    <2>13. CASE HardReset(n)
      <3>1. Moves(n, {hardReset(node[n], NextID(n))}, net) /\ given' = given + 1
          BY <2>13 DEF HardReset, Give
      <3>2. Sound(node[n], OwnID(n))
          BY <2>2 DEF Handled
      <3> QED
          BY <2>3, <2>5, <2>12, <3>1, <3>2
    <2>14. CASE ResetDropsArrival(n)
      <3> DEFINE after  == FoundByReset(n)
                 states == {hardReset(s, NextID(n)) : s \in after}
      <3>1. net[n] # <<>> /\ Moves(n, states, opened) /\ given' = given + 1
          BY <2>14 DEF ResetDropsArrival, Give, opened
      <3>2. \A s \in after : Sound(s, OwnID(n)) /\ s \in NodeState
        <4>1. Head(net[n]) \in Letters(Joining) /\ Head(net[n]).dest = n
            BY <2>2, <3>1, QueueOpens, LettersStay DEF InOrder, QueuesInOrder
        <4> QED
            BY <2>2, <4>1, ReceivedHandled DEF FoundByReset, Handled, Sound
      <3> HIDE DEF after
      <3>3. \A u \in states : u \in NodeState /\ MayDo(p, u)
          BY <2>12, <3>1, <3>2
      <3> HIDE DEF states
      <3> QED
          BY <2>5, <3>1, <3>3
    <2>15. CASE Pause(n)
      <3> DEFINE paused == [node[n] EXCEPT !.state = "PAUSED"]
      <3>1. Moves(n, {paused}, net) /\ given' = given + 1
          BY <2>15 DEF Pause, Give
      <3>2. paused \in NodeState /\ paused.state = "PAUSED"
          BY <2>3 DEF NodeState
      <3> HIDE DEF paused
      <3>3. given' > 0 /\ PhaseOf(paused) = "stopped"
          BY <2>3, <3>1, <3>2 DEF PhaseOf
      <3> QED
          BY <2>5, <3>1, <3>2, <3>3 DEF MayDo
    <2> QED
        BY <2>7, <2>8, <2>9, <2>10, <2>11, <2>13, <2>14, <2>15
  <1> QED
      BY <1>1, <1>2

\* No node updates anything before it is started.
LEMMA InitPhase == Init => Update!Init
  <1> SUFFICES ASSUME Init PROVE Update!Init
      OBVIOUS
  <1>1. \A n \in Node : Phase(n) = "none"
      BY DEF Init, Off, Phase, Stopped
  <1>2. ~(given > 0)
      BY DEF Init
  <1> QED
      BY <1>1, <1>2 DEF Update!Init

\* Each step of a network is one of UpdateCycle or is not seen by it: at every node
\* stabilize, notify and fix_finger follow each other and never overlap, whatever it
\* handles in between, and before the first command no stabilize or notify is given up.
THEOREM ImplementsUpdateCycle ==
    ASSUME StartedAsMain
    PROVE  Spec /\ []PassedOnAcked => Update!Init /\ [][Update!Next]_(Update!vars)
  <1>1. InOrder /\ (given = 0 => Undisturbed) /\ PassedOnAcked /\ Tidied /\ [Next]_vars
            => [Update!Next]_(Update!vars)
      BY NextPhase
  <1> QED
      BY <1>1, InitPhase, NetworkInOrder, NetworkUndisturbed, NetworkTidied, PTL DEF Spec

=============================================================================
