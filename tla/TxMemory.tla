------------------------------ MODULE TxMemory ------------------------------
(***************************************************************************)
(* The memory list of sent messages, m_txMemoryList of every node.          *)
(*                                                                          *)
(* A node remembers the requests it has sent with the state it sent them    *)
(* in, once for the ACK and once for the answer.  An answer or an ACK is    *)
(* handled in the state the list gives it, and uses up the entry; without   *)
(* one it is dropped.  LowLatencyChord tells the state by the timer of the  *)
(* request instead: this module shows that the list tells the same.         *)
(*                                                                          *)
(* Two bounds: the list never gets to MAX_SIZE_MEMORY_LIST (100000), and an *)
(* entry is forgotten when its message identifier is in use nowhere else    *)
(* (the program keeps it; no such identifier comes back for 130 draws).     *)
(***************************************************************************)
EXTENDS ChordRing, Bags

VARIABLE memory      \* per node: a bag of what it has sent

memoryVars == <<node, net, given, memory>>

States == <<"JOIN", "SERVICE", "UPDATE">>      \* in the order of finite_state

\* The state node n issues m in: passed-on lookups are the ones it has not begun.
issuedState(n, m) ==
    IF m.type = "JOIN" THEN "JOIN"
    ELSE IF m.type = "FIND_SUCCESSOR" /\ m.initiator # n THEN "SERVICE"
    ELSE "UPDATE"

\* A plausible slip: a request is remembered once, whatever it waits for.
copiesOnce(type) == IF type \in {"JOIN", "FIND_SUCCESSOR", "FIND_PREDECESSOR", "NOTIFY"}
                    THEN 1 ELSE 0

\* How often pushTxMessageMemoryList pushes a message: for the ACK it needs, and
\* for the answer.
copies(type) ==
    IF type \in {"JOIN", "FIND_SUCCESSOR", "FIND_PREDECESSOR"} THEN 2
    ELSE IF type = "NOTIFY" THEN 1
    ELSE 0

Entry(n, m) == [messageID |-> m.messageID, type |-> m.type, state |-> issuedState(n, m)]

pushTxMessageMemoryList(n, sent) ==
    LET requests == {m \in sent : copies(m.type) > 0}
    IN  [e \in {Entry(n, m) : m \in requests} |-> copies(e.type)]

\* The requests a message may answer, in the order they are looked for.
possibleTxType(type) ==
    CASE type = "SUCCESSOR"   -> <<"JOIN", "FIND_SUCCESSOR">>
      [] type = "PREDECESSOR" -> <<"FIND_PREDECESSOR">>
      [] type = "ACK"         -> <<"JOIN", "FIND_SUCCESSOR", "FIND_PREDECESSOR", "NOTIFY">>
      [] OTHER                -> <<>>

\* findStateOnRxReplyMess: the entries with m's identifier in the order of their
\* types, then of their states; the first of them is the one.
Candidates(list, m) ==
    LET types == possibleTxType(m.type)
        tried == FlattenSeq([i \in DOMAIN types |-> [j \in DOMAIN States |->
                     [messageID |-> m.messageID, type |-> types[i], state |-> States[j]]]])
    IN  SelectSeq(tried, LAMBDA e : BagIn(e, list))

findStateOnRxReplyMess(list, m) ==
    IF Candidates(list, m) = <<>> THEN "UNKNOWN" ELSE Head(Candidates(list, m)).state

\* The list after m has been looked up.
usedUp(list, m) ==
    IF Candidates(list, m) = <<>> THEN list
    ELSE list (-) SetToBag({Head(Candidates(list, m))})

-----------------------------------------------------------------------------
Looked(n) == node[n].state = "IDLE" /\ isAddrValid(Head(net[n]))

\* What node n sends in this step.
Sent(n) == UNION {{net'[d][k] : k \in Len(net[d]) + 1 .. Len(net'[d])} : d \in Node \ {n}}

\* A timer has made the node reset itself: only flush ends an UPDATE timer.
Flushed(n) == node[n].updateTimers > 0 /\ node'[n].updateTimers = 0

kept(n) == IF Flushed(n) THEN EmptyBag ELSE memory[n]

\* Node n sends what it sends, and remembers it on top of list.
Remember(n, list) ==
    LET pushed == [memory EXCEPT ![n] = list (+) pushTxMessageMemoryList(n, Sent(n))]
        inUse  == UsedID'
        left(bag) == [e \in {e \in DOMAIN bag : e.messageID \in inUse} |-> bag[e]]
    IN  memory' = [d \in Node |-> left(pushed[d])]

MemoryInit == Init /\ memory = [n \in Node |-> EmptyBag]

\* The steps of ChordRing but for PAUSE, which leaves the list alone.
MemoryNext == \E n \in Node :
    \/ (Boot(n) \/ HardReset(n) \/ ResetDropsArrival(n)) /\ Remember(n, EmptyBag)
    \/ (UpdateTimerExpires(n) \/ TimerExpires(n)) /\ Remember(n, kept(n))
    \/ Deliver(n) /\ Remember(n, IF Looked(n) THEN usedUp(memory[n], Head(net[n]))
                                              ELSE memory[n])
    \/ Coincide(n) /\ Remember(n, IF Looked(n) THEN usedUp(kept(n), Head(net[n]))
                                               ELSE kept(n))

MemorySpec == MemoryInit /\ [][MemoryNext]_memoryVars /\ Fairness

-----------------------------------------------------------------------------
\* An answer a node is waiting for, or an ACK, is handled in the state of the node
\* that is waiting for it: the timers of the request and the memory list, which
\* are written by different methods, agree, though ACKs and answers come in
\* either order and resets fall in between.
AnswersRouted == \A n \in Node :
    net[n] # <<>> /\ Looked(n) =>
        LET m     == Head(net[n])
            state == findStateOnRxReplyMess(memory[n], m)
            timers(types) == {t \in node[n].timers : t.type \in types /\ t.messageID = m.messageID}
        IN  /\ m.type = "SUCCESSOR" /\ timers({"RX_SUCCESSOR_ON_JOIN"}) # {} => state = "JOIN"
            /\ m.type = "SUCCESSOR" /\ timers({"RX_SUCCESSOR"}) # {} => state = "UPDATE"
            /\ m.type = "PREDECESSOR" /\ timers({"RX_PREDECESSOR"}) # {} => state = "UPDATE"
            /\ m.type = "ACK" => \A t \in timers({"RX_ACK"}) :
                   state = IF t.retryMess = "JOIN" THEN "JOIN"
                           ELSE IF t.retransmitCounter > 0 THEN "SERVICE" ELSE "UPDATE"
=============================================================================
