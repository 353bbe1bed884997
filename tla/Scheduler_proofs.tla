-------------------------- MODULE Scheduler_proofs --------------------------
(***************************************************************************)
(* core() is never left asleep with something to do, and no timer is ever   *)
(* overdue: for any buffers, limits, timeouts and handlers.                 *)
(***************************************************************************)
EXTENDS Scheduler, Sums_proofs

\* Time stops while core() is due, so the wake-ups keep the timers on time.
IInv == TypeOK /\ NoLostWakeup /\ OnTime

\* Whatever a handler does to buffers that were in order leaves them in order.
LEMMA HandleInOrder ==
    ASSUME TypeOK, OnTime, NEW b \in 0 .. Buffers,
           NEW held \in [Buffer -> Nat], \A c \in Buffer : held[c] <= MaxSize[c],
           NEW running \in SUBSET armed, Handle(b, held, running)
    PROVE  /\ messages' \in [Buffer -> Nat] /\ \A c \in Buffer : messages'[c] <= MaxSize[c]
           /\ armed' \in SUBSET Slot /\ left' \in [Slot -> Int]
           /\ OnTime'
  <1>1. PICK pushes \in SUBSET Produces[b] :
            messages' = [c \in Buffer |-> IF c \in pushes THEN Pushed(held[c], c) ELSE held[c]]
      BY DEF Handle
  <1>2. PICK dropped \in SUBSET running, set \in SUBSET (Slot \ armed), timeout \in Timeout :
            /\ armed' = (running \ dropped) \cup set
            /\ left' = [s \in Slot |-> IF s \in set THEN timeout
                                       ELSE IF s \in armed' THEN left[s] ELSE 0]
      BY DEF Handle
  <1>3. \A c \in Buffer : messages'[c] \in Nat /\ messages'[c] <= MaxSize[c]
    <2>1. \A c \in Buffer : MaxSize[c] \in Nat \ {0}
        BY BufferAssumption
    <2> QED
        BY <1>1, <2>1 DEF Pushed
  <1>4. armed' \in SUBSET Slot
      BY <1>2 DEF TypeOK
  <1>5. timeout \in Nat \ {0}
      BY TimeoutAssumption
  <1>6. left' \in [Slot -> Int]
      BY <1>2, <1>5 DEF TypeOK
  <1>7. OnTime'
      BY <1>2, <1>4, <1>5 DEF OnTime, TypeOK
  <1> QED
      BY <1>1, <1>3, <1>4, <1>6, <1>7

\* While core() is due and the timers are on time no wake-up is lost.
LEMMA DueIsEnough ==
    ASSUME m_eventCore' = 0, TypeOK', OnTime'
    PROVE  NoLostWakeup'
  BY DEF NoLostWakeup, OnTime, TypeOK, NotPending

LEMMA InitInOrder == Init => IInv
  <1> SUFFICES ASSUME Init PROVE IInv
      OBVIOUS
  <1>1. \A b \in Buffer : MaxSize[b] \in Nat \ {0}
      BY BufferAssumption
  <1>2. TypeOK
      BY <1>1, TimeoutAssumption DEF Init, TypeOK
  <1> QED
      BY <1>2 DEF IInv, Init, NoLostWakeup, OnTime, Waiting

LEMMA PushInOrder ==
    ASSUME IInv, NEW b \in Buffer, pushNewMessage(b)
    PROVE  IInv'
  <1>1. MaxSize[b] \in Nat \ {0} /\ MaxArrivals \in Nat
      BY BufferAssumption, TimeoutAssumption
  <1>2. TypeOK'
      BY <1>1 DEF IInv, TypeOK, pushNewMessage, Pushed
  <1>3. OnTime'
      BY DEF IInv, OnTime, pushNewMessage
  <1> QED
      BY <1>2, <1>3, DueIsEnough DEF IInv, pushNewMessage

\* What TakeMessage and TakeTimer have in common.
LEMMA TakenInOrder ==
    ASSUME IInv, messCounter' \in [Buffer -> Nat], passed' \in [Buffer -> Nat],
           m_eventCore' = renotify, UNCHANGED arrivals,
           NEW b \in 0 .. Buffers,
           NEW held \in [Buffer -> Nat], \A c \in Buffer : held[c] <= MaxSize[c],
           NEW running \in SUBSET armed, Handle(b, held, running)
    PROVE  IInv'
  <1>1. /\ messages' \in [Buffer -> Nat] /\ \A c \in Buffer : messages'[c] <= MaxSize[c]
        /\ armed' \in SUBSET Slot /\ left' \in [Slot -> Int]
        /\ OnTime'
      BY HandleInOrder DEF IInv
  <1>2. TypeOK'
      BY <1>1 DEF IInv, TypeOK, renotify
  <1> QED
      BY <1>1, <1>2, DueIsEnough DEF IInv, renotify

LEMMA TakeMessageInOrder ==
    ASSUME IInv, NEW b \in Buffer, TakeMessage(b)
    PROVE  IInv'
  <1>1. Buffers \in Nat /\ b \in 0 .. Buffers
      BY BufferAssumption DEF Buffer
  <1>2. \A c \in Buffer : Counter(c) \in Nat /\ count(c) \in Nat /\ MaxSize[c] \in Nat \ {0}
      BY BufferAssumption DEF IInv, TypeOK, Counter, count
  <1>3. messages[b] > 0
      BY DEF TakeMessage, choosable, Ready, Waiting
  <1>4. CASE /\ Handle(b, [messages EXCEPT ![b] = @ - 1], armed)
             /\ messCounter' = [c \in Buffer |-> IF c = b THEN count(c) ELSE Counter(c)]
             /\ passed' = [c \in Buffer |-> IF c = b \/ messages[c] = 0 THEN 0
                                            ELSE IF {b, c} \cap Immediate # {} THEN passed[c]
                                            ELSE passed[c] + 1]
    <2> DEFINE held == [messages EXCEPT ![b] = @ - 1]
    <2>1. held \in [Buffer -> Nat] /\ \A c \in Buffer : held[c] <= MaxSize[c]
        BY <1>2, <1>3 DEF IInv, TypeOK
    <2>2. messCounter' \in [Buffer -> Nat] /\ passed' \in [Buffer -> Nat]
        BY <1>2, <1>4 DEF IInv, TypeOK
    <2> HIDE DEF held
    <2>3. Handle(b, held, armed)
        BY <1>4 DEF held
    <2> QED
        BY <1>1, <2>1, <2>2, <2>3, TakenInOrder DEF TakeMessage
  <1>5. CASE /\ Handle(b, [c \in Buffer |-> 0], {})
             /\ messCounter' = [c \in Buffer |-> 0]
             /\ passed' = [c \in Buffer |-> 0]
    <2> DEFINE held == [c \in Buffer |-> 0]
    <2>1. held \in [Buffer -> Nat] /\ \A c \in Buffer : held[c] <= MaxSize[c]
        BY <1>2
    <2>2. messCounter' \in [Buffer -> Nat] /\ passed' \in [Buffer -> Nat]
        BY <1>5
    <2> HIDE DEF held
    <2>3. Handle(b, held, {})
        BY <1>5 DEF held
    <2> QED
        BY <1>1, <2>1, <2>2, <2>3, TakenInOrder DEF TakeMessage
  <1> QED
      BY <1>4, <1>5 DEF TakeMessage

LEMMA TakeTimerInOrder ==
    ASSUME IInv, NEW s \in Slot, TakeTimer(s)
    PROVE  IInv'
  <1>1. 0 \in 0 .. Buffers
      BY BufferAssumption
  <1>2. Handle(0, messages, armed \ {s}) /\ (armed \ {s}) \in SUBSET armed
      BY DEF TakeTimer
  <1>3. /\ messCounter' \in [Buffer -> Nat] /\ passed' \in [Buffer -> Nat]
        /\ messages \in [Buffer -> Nat] /\ \A c \in Buffer : messages[c] <= MaxSize[c]
      BY DEF IInv, TypeOK, TakeTimer
  <1> QED
      BY <1>1, <1>2, <1>3, TakenInOrder DEF TakeTimer

LEMMA NothingToDoInOrder ==
    ASSUME IInv, NothingToDo
    PROVE  IInv'
  <1>1. CASE armed = {}
      BY <1>1 DEF IInv, TypeOK, NoLostWakeup, OnTime, NothingToDo, Waiting, NotPending
  <1>2. CASE armed # {}
    <2>1. PICK s \in armed : wakeForFirst(left[s]) /\ m_eventCore' = left[s]
        BY <1>2 DEF NothingToDo
    <2>2. left[s] \in Nat
        BY <2>1 DEF IInv, TypeOK, OnTime
    <2>3. TypeOK' /\ OnTime'
        BY <2>1, <2>2 DEF IInv, TypeOK, OnTime, NothingToDo
    <2>4. NoLostWakeup'
        BY <2>1, <2>2 DEF NoLostWakeup, NothingToDo, wakeForFirst, Waiting, NotPending
    <2> QED
        BY <2>3, <2>4 DEF IInv
  <1> QED
      BY <1>1, <1>2

LEMMA TickInOrder ==
    ASSUME IInv, Tick
    PROVE  IInv'
  <1>1. Waiting = {}
      BY DEF IInv, NoLostWakeup, Tick
  <1>2. \A s \in armed : /\ m_eventCore \in Nat \ {0} /\ m_eventCore <= left[s]
                         /\ left[s] \in Int
      BY DEF IInv, NoLostWakeup, TypeOK, Tick
  <1>3. m_eventCore' \in Nat \cup {NotPending}
      BY DEF IInv, TypeOK, Tick
  <1>4. TypeOK'
      BY <1>3, TimeoutAssumption DEF IInv, TypeOK, Tick
  <1>5. OnTime'
      BY <1>2 DEF OnTime, Tick, IInv, TypeOK
  <1>6. NoLostWakeup'
      BY <1>1, <1>2 DEF NoLostWakeup, Tick, Waiting, NotPending, IInv, TypeOK
  <1> QED
      BY <1>4, <1>5, <1>6 DEF IInv

LEMMA NextInOrder == IInv /\ [Next]_vars => IInv'
  <1> SUFFICES ASSUME IInv, [Next]_vars PROVE IInv'
      OBVIOUS
  <1>1. CASE \E b \in Buffer : pushNewMessage(b)
      BY <1>1, PushInOrder
  <1>2. CASE core
      BY <1>2, TakeMessageInOrder, TakeTimerInOrder, NothingToDoInOrder DEF core
  <1>3. CASE Tick
      BY <1>3, TickInOrder
  <1>4. CASE UNCHANGED vars
      BY <1>4 DEF vars, IInv, TypeOK, NoLostWakeup, OnTime, Waiting
  <1> QED
      BY <1>1, <1>2, <1>3, <1>4 DEF Next

\* No buffer of messages ever holds more than its size, whatever the handlers push.
THEOREM SchedulerTypeCorrect == Spec => []TypeOK
  <1>1. IInv => TypeOK
      BY DEF IInv
  <1> QED
      BY <1>1, InitInOrder, NextInOrder, PTL DEF Spec

\* Whatever the handlers do and whenever messages come, core() is due while a
\* message waits, and is woken no later than the first timer expires.
THEOREM WakeupNeverLost == Spec => []NoLostWakeup
  <1>1. IInv => NoLostWakeup
      BY DEF IInv
  <1> QED
      BY <1>1, InitInOrder, NextInOrder, PTL DEF Spec

\* No timer is ever overdue, whatever the limits, sizes and timeouts.
THEOREM TimersOnTime == Spec => []OnTime
  <1>1. IInv => OnTime
      BY DEF IInv
  <1> QED
      BY <1>1, InitInOrder, NextInOrder, PTL DEF Spec

-----------------------------------------------------------------------------
(* No class starves another. *)

\* What has been taken of each limited buffer in this round.
Taken(counter) == [b \in Buffer |-> IF b \in Limited THEN counter[b] ELSE 0]

Others(share, b) == [share EXCEPT ![b] = 0]

\* A buffer that has had its share waits for the others to have theirs; the next
\* round is for it once those above it have had theirs.
InTurn(b, counter, times) ==
    /\ counter[b] = Quota(b) => times <= SumTo(Others(Taken(counter), b), Buffers)
    /\ counter[b] < Quota(b) => times <= SumTo(Others(Share, b), Buffers)
                                         + SumTo(Taken(counter), b - 1)

PassedInTurn == \A b \in Limited :
    /\ messages[b] = 0 => passed[b] = 0
    /\ InTurn(b, messCounter, passed[b])

\* No buffer gets more than its share of a round.
SharesKept == \A b \in Limited : messCounter[b] <= Quota(b)

TurnInv == IInv /\ SharesKept /\ PassedInTurn

LEMMA QuotaPositive ==
    ASSUME NEW b \in Buffer
    PROVE  Quota(b) \in Nat /\ Quota(b) > 0
  BY BufferAssumption DEF Quota, Buffer

LEMMA BufferIs ==
    ASSUME NEW b \in Buffer
    PROVE  /\ Buffer = 1 .. Buffers /\ Buffers \in Nat /\ b \in Nat /\ b - 1 \in 0 .. Buffers
  BY BufferAssumption DEF Buffer

\* The buffers served before b.
Above(b) == {c \in Buffer : c < b}

LEMMA OffersIs ==
    ASSUME NEW b \in Limited, messCounter[b] \in Nat
    PROVE  Offers(b) <=> messCounter[b] < Quota(b)
  <1>1. MaxDeep[b] \in Nat /\ MaxSize[b] \in Nat
      BY BufferAssumption DEF Limited
  <1> QED
      BY <1>1 DEF Offers, Quota, Limited

\* The functions summed up.
LEMMA Summed ==
    ASSUME NEW counter \in [Buffer -> Nat], NEW b \in Buffer
    PROVE  /\ Taken(counter) \in [Buffer -> Nat] /\ Share \in [Buffer -> Nat]
           /\ Others(Taken(counter), b) \in [Buffer -> Nat] /\ Others(Share, b) \in [Buffer -> Nat]
  BY QuotaPositive DEF Taken, Share, Others

\* Sums over the buffers, and over those above one.
LEMMA SumOf ==
    ASSUME NEW f \in [Buffer -> Nat], NEW b \in Buffer
    PROVE  SumTo(f, Buffers) \in Nat /\ SumTo(f, b - 1) \in Nat
  <1>1. Buffers \in Nat /\ b - 1 \in 0 .. Buffers /\ \A i \in 1 .. Buffers : f[i] \in Nat
      BY BufferIs
  <1>2. \A n \in 0 .. Buffers : SumTo(f, n) \in Nat
      BY <1>1, SumStep
  <1>3. Buffers \in 0 .. Buffers
      BY <1>1
  <1> QED
      BY <1>1, <1>2, <1>3

LEMMA SumsGrow ==
    ASSUME NEW f \in [Buffer -> Nat], NEW g \in [Buffer -> Nat], NEW b \in Buffer,
           \A c \in Buffer : f[c] <= g[c]
    PROVE  SumTo(f, Buffers) <= SumTo(g, Buffers) /\ SumTo(f, b - 1) <= SumTo(g, b - 1)
  <1>1. Buffers \in Nat /\ b - 1 \in Nat /\ b - 1 <= Buffers
      BY BufferIs
  <1>2. \A i \in 1 .. Buffers : f[i] \in Nat /\ g[i] \in Nat /\ f[i] <= g[i]
      BY BufferIs
  <1>3. \A i \in 1 .. b - 1 : i \in 1 .. Buffers
      BY <1>1
  <1>4. SumTo(f, Buffers) <= SumTo(g, Buffers)
      BY <1>1, <1>2, SumGrows
  <1>5. SumTo(f, b - 1) <= SumTo(g, b - 1)
      BY <1>1, <1>2, <1>3, SumGrows
  <1> QED
      BY <1>4, <1>5

LEMMA SumsOneMore ==
    ASSUME NEW f \in [Buffer -> Nat], NEW c \in Buffer
    PROVE  SumTo([f EXCEPT ![c] = @ + 1], Buffers) = SumTo(f, Buffers) + 1
  <1> DEFINE g == [f EXCEPT ![c] = @ + 1]
  <1>1. Buffers \in Nat /\ c \in 1 .. Buffers
      BY BufferIs
  <1>2. \A i \in 1 .. Buffers : f[i] \in Nat /\ g[i] = IF i = c THEN f[i] + 1 ELSE f[i]
      BY <1>1, BufferIs
  <1> HIDE DEF g
  <1>3. SumTo(g, Buffers) = SumTo(f, Buffers) + 1
      BY <1>1, <1>2, SumOneMore
  <1> QED
      BY <1>3 DEF g

LEMMA SumAboveOneMore ==
    ASSUME NEW f \in [Buffer -> Nat], NEW g \in [Buffer -> Nat], NEW b \in Buffer,
           NEW c \in Buffer, c \in Above(b), \A d \in Buffer : g[d] = IF d = c THEN f[d] + 1 ELSE f[d]
    PROVE  \E more \in Nat : SumTo(f, b - 1) = more /\ SumTo(g, b - 1) = more + 1
  <1> DEFINE n == b - 1
  <1>1. n \in Nat /\ c \in 1 .. n /\ \A i \in 1 .. n : i \in Buffer
      BY BufferAssumption DEF Above, Buffer
  <1>2. \A i \in 1 .. n : f[i] \in Nat /\ g[i] = IF i = c THEN f[i] + 1 ELSE f[i]
      BY <1>1
  <1>3. SumTo(f, n) \in Nat
      BY SumOf
  <1> HIDE DEF n
  <1>4. SumTo(g, n) = SumTo(f, n) + 1
      BY <1>1, <1>2, SumOneMore
  <1> QED
      BY <1>3, <1>4 DEF n

\* What has been taken is at most the shares.
LEMMA TakenLessThanShare ==
    ASSUME NEW counter \in [Buffer -> Nat], \A c \in Limited : counter[c] <= Quota(c),
           NEW b \in Buffer
    PROVE  /\ SumTo(Taken(counter), b - 1) <= SumTo(Share, b - 1)
           /\ SumTo(Others(Taken(counter), b), Buffers) <= SumTo(Others(Share, b), Buffers)
  <1>1. \A c \in Buffer : Taken(counter)[c] <= Share[c]
      BY QuotaPositive DEF Taken, Share, Limited
  <1>2. \A c \in Buffer : Others(Taken(counter), b)[c] <= Others(Share, b)[c]
      BY <1>1, Summed DEF Others
  <1> QED
      BY <1>1, <1>2, Summed, SumsGrow

\* The bound follows.
LEMMA TurnIsEnough == TurnInv => PassedAtMost
  <1> SUFFICES ASSUME TurnInv, NEW b \in Limited
               PROVE  passed[b] <= SumTo(Others(Share, b), Buffers) + SumTo(Share, b - 1)
      BY DEF PassedAtMost, Others
  <1>1. /\ messCounter \in [Buffer -> Nat] /\ passed[b] \in Nat /\ b \in Buffer
        /\ Quota(b) \in Nat /\ messCounter[b] \in Nat /\ messCounter[b] <= Quota(b)
        /\ \A c \in Limited : messCounter[c] <= Quota(c)
      BY QuotaPositive DEF TurnInv, IInv, TypeOK, Limited, SharesKept
  <1>2. /\ SumTo(Taken(messCounter), b - 1) <= SumTo(Share, b - 1)
        /\ SumTo(Others(Taken(messCounter), b), Buffers) <= SumTo(Others(Share, b), Buffers)
      BY <1>1, TakenLessThanShare
  <1>3. /\ SumTo(Taken(messCounter), b - 1) \in Nat /\ SumTo(Share, b - 1) \in Nat
        /\ SumTo(Others(Taken(messCounter), b), Buffers) \in Nat
        /\ SumTo(Others(Share, b), Buffers) \in Nat
      BY <1>1, Summed, SumOf
  <1>4. InTurn(b, messCounter, passed[b])
      BY DEF TurnInv, PassedInTurn
  <1> QED
      BY <1>1, <1>2, <1>3, <1>4 DEF InTurn

\* A buffer that has not been passed keeps its turn.
LEMMA UnpassedInTurn ==
    ASSUME NEW counter \in [Buffer -> Nat], NEW b \in Limited
    PROVE  InTurn(b, counter, 0)
  <1>1. b \in Buffer
      BY DEF Limited
  <1>2. /\ SumTo(Taken(counter), b - 1) \in Nat
        /\ SumTo(Others(Taken(counter), b), Buffers) \in Nat
        /\ SumTo(Others(Share, b), Buffers) \in Nat
      BY <1>1, Summed, SumOf
  <1> QED
      BY <1>2 DEF InTurn

\* The counts of c start again with one, while b waits.
LEMMA PassedAnew ==
    ASSUME NEW counter \in [Buffer -> Nat], \A d \in Limited : counter[d] <= Quota(d),
           NEW after \in [Buffer -> Nat], NEW b \in Limited, NEW c \in Limited, c \in Above(b),
           NEW times \in Nat, counter[b] = Quota(b), InTurn(b, counter, times),
           after[b] = 0, after[c] = 1
    PROVE  InTurn(b, after, times + 1)
  <1>1. b \in Buffer /\ c \in Buffer
      BY DEF Limited
  <1> DEFINE none == [d \in Buffer |-> 0]
             one  == [d \in Buffer |-> IF d = c THEN 1 ELSE 0]
  <1>2. /\ none \in [Buffer -> Nat] /\ one \in [Buffer -> Nat]
        /\ \A d \in Buffer : one[d] = IF d = c THEN none[d] + 1 ELSE none[d]
      OBVIOUS
  <1>3. \A d \in Buffer : one[d] <= Taken(after)[d]
      BY <1>1 DEF Taken
  <1>4. Taken(after) \in [Buffer -> Nat]
      BY <1>1, Summed
  <1> HIDE DEF none, one
  <1>5. SumTo(one, b - 1) = SumTo(none, b - 1) + 1 /\ SumTo(none, b - 1) \in Nat
    <2>1. SumTo(none, b - 1) \in Nat
        BY <1>1, <1>2, SumOf
    <2>2. \E more \in Nat : SumTo(none, b - 1) = more /\ SumTo(one, b - 1) = more + 1
        BY <1>1, <1>2, SumAboveOneMore
    <2> QED
        BY <2>1, <2>2
  <1>6. SumTo(one, b - 1) <= SumTo(Taken(after), b - 1) /\ SumTo(Taken(after), b - 1) \in Nat
      BY <1>1, <1>2, <1>3, <1>4, SumsGrow, SumOf
  <1>7. /\ SumTo(Others(Taken(counter), b), Buffers) <= SumTo(Others(Share, b), Buffers)
        /\ SumTo(Others(Taken(counter), b), Buffers) \in Nat
        /\ SumTo(Others(Share, b), Buffers) \in Nat
      BY <1>1, Summed, SumOf, TakenLessThanShare
  <1>8. times <= SumTo(Others(Taken(counter), b), Buffers)
      BY DEF InTurn
  <1>9. after[b] < Quota(b) /\ Quota(b) \in Nat
      BY <1>1, QuotaPositive
  <1> QED
      BY <1>5, <1>6, <1>7, <1>8, <1>9 DEF InTurn

\* One more message of c is taken in this round, while b waits.
LEMMA PassedOnce ==
    ASSUME NEW counter \in [Buffer -> Nat], NEW b \in Limited, NEW c \in Limited, b # c,
           NEW times \in Nat, InTurn(b, counter, times), counter[b] <= Quota(b),
           counter[b] < Quota(b) => c \in Above(b)
    PROVE  InTurn(b, [counter EXCEPT ![c] = @ + 1], times + 1)
  <1> DEFINE after == [counter EXCEPT ![c] = @ + 1]
  <1>1. b \in Buffer /\ c \in Buffer /\ after \in [Buffer -> Nat] /\ after[b] = counter[b]
        /\ Quota(b) \in Nat
      BY QuotaPositive DEF Limited
  <1>2. Taken(after) = [Taken(counter) EXCEPT ![c] = @ + 1]
      BY <1>1 DEF Taken
  <1>3. Others(Taken(after), b) = [Others(Taken(counter), b) EXCEPT ![c] = @ + 1]
      BY <1>1, <1>2, Summed DEF Others
  <1> HIDE DEF after
  <1>4. /\ Taken(after) \in [Buffer -> Nat] /\ Taken(counter) \in [Buffer -> Nat]
        /\ Others(Taken(after), b) \in [Buffer -> Nat]
        /\ Others(Taken(counter), b) \in [Buffer -> Nat] /\ Others(Share, b) \in [Buffer -> Nat]
      BY <1>1, Summed
  <1>5. SumTo(Others(Taken(after), b), Buffers) = SumTo(Others(Taken(counter), b), Buffers) + 1
      BY <1>1, <1>3, <1>4, SumsOneMore
  <1>6. ASSUME c \in Above(b)
        PROVE  \E more \in Nat : /\ SumTo(Taken(counter), b - 1) = more
                                 /\ SumTo(Taken(after), b - 1) = more + 1
    <2> DEFINE old == Taken(counter)
               new == Taken(after)
    <2>1. /\ old \in [Buffer -> Nat] /\ new \in [Buffer -> Nat] /\ b \in Buffer /\ c \in Buffer
          /\ \A d \in Buffer : new[d] = IF d = c THEN old[d] + 1 ELSE old[d]
        BY <1>1, <1>2, <1>4
    <2> HIDE DEF old, new
    <2>2. \E more \in Nat : SumTo(old, b - 1) = more /\ SumTo(new, b - 1) = more + 1
        BY <1>6, <2>1, SumAboveOneMore
    <2> QED
        BY <2>2 DEF old, new
  <1>7. /\ SumTo(Taken(counter), b - 1) \in Nat
        /\ SumTo(Others(Taken(counter), b), Buffers) \in Nat
        /\ SumTo(Others(Share, b), Buffers) \in Nat
      BY <1>1, <1>4, SumOf
  <1>8. InTurn(b, after, times + 1)
      BY <1>1, <1>5, <1>6, <1>7 DEF InTurn
  <1> QED
      BY <1>8 DEF after

LEMMA InitInTurn == Init => TurnInv
  <1> SUFFICES ASSUME Init PROVE TurnInv
      OBVIOUS
  <1>1. messCounter \in [Buffer -> Nat] /\ \A b \in Limited : passed[b] = 0 /\ messCounter[b] = 0
      BY DEF Init, Limited
  <1>2. SharesKept
      BY <1>1, QuotaPositive DEF SharesKept, Limited
  <1>3. PassedInTurn
      BY <1>1, UnpassedInTurn DEF PassedInTurn
  <1> QED
      BY <1>2, <1>3, InitInOrder DEF TurnInv

\* What waits goes on waiting, whatever a handler pushes.
LEMMA HandleHolds ==
    ASSUME NEW b \in 0 .. Buffers, NEW held \in [Buffer -> Nat], NEW running,
           Handle(b, held, running), NEW c \in Buffer, held[c] > 0
    PROVE  messages'[c] > 0
  <1>1. MaxSize[c] \in Nat
      BY BufferAssumption
  <1>2. PICK pushes \in SUBSET Produces[b] :
            messages' = [d \in Buffer |-> IF d \in pushes THEN Pushed(held[d], d) ELSE held[d]]
      BY DEF Handle
  <1> QED
      BY <1>1, <1>2 DEF Pushed

LEMMA PushInTurn ==
    ASSUME TurnInv, NEW b \in Buffer, pushNewMessage(b)
    PROVE  TurnInv'
  <1>1. IInv'
      BY PushInOrder DEF TurnInv
  <1>2. messCounter' = messCounter /\ passed' = passed
      BY DEF pushNewMessage
  <1>3. \A c \in Buffer : messages'[c] = 0 => messages[c] = 0
      BY BufferAssumption DEF TurnInv, IInv, TypeOK, pushNewMessage, Pushed
  <1> QED
      BY <1>1, <1>2, <1>3 DEF TurnInv, SharesKept, PassedInTurn, Limited

\* The handler of a message of c does to the turn of b what TakeMessage says.
LEMMA TakenInTurn ==
    ASSUME TurnInv, NEW c \in Buffer, c \in choosable, \A other \in choosable : c <= other,
           messCounter' = [d \in Buffer |-> IF d = c THEN count(d) ELSE Counter(d)],
           passed' = [d \in Buffer |-> IF d = c \/ messages[d] = 0 THEN 0
                                        ELSE IF {c, d} \cap Immediate # {} THEN passed[d]
                                        ELSE passed[d] + 1],
           NEW b \in Limited
    PROVE  messCounter'[b] <= Quota(b) /\ InTurn(b, messCounter', passed'[b])
  <1>1. /\ messCounter \in [Buffer -> Nat] /\ passed[b] \in Nat /\ messages \in [Buffer -> Nat]
        /\ b \in Buffer /\ b \notin Immediate
        /\ Quota(b) \in Nat /\ Quota(b) > 0
        /\ \A d \in Limited : messCounter[d] <= Quota(d)
      BY QuotaPositive DEF TurnInv, IInv, TypeOK, Limited, SharesKept
  <1>2. messCounter' \in [Buffer -> Nat]
      BY <1>1 DEF count, Counter
  <1>3. messages[c] > 0
      BY DEF choosable, Ready, Waiting
  <1>4. c \in Limited => (Ready = {} \/ messCounter[c] < Quota(c))
      BY <1>1, OffersIs DEF choosable, Ready
  <1>5. messCounter'[b] <= Quota(b)
    <2>1. CASE b = c
      <3>1. messCounter'[b] = Counter(b) + 1
          BY <1>1, <2>1 DEF count
      <3> QED
          BY <1>1, <1>3, <1>4, <2>1, <3>1 DEF Counter
    <2>2. CASE b # c
        BY <1>1, <2>2 DEF Counter
    <2> QED
        BY <2>1, <2>2
  <1>6. CASE passed'[b] = 0
      BY <1>2, <1>5, <1>6, UnpassedInTurn
  <1>7. CASE b # c /\ messages[b] > 0 /\ c \in Immediate
    <2>1. Ready # {}
        BY <1>3, <1>7 DEF Ready, Offers, Waiting
    <2>2. messCounter' = messCounter
        BY <1>1, <1>7, <2>1 DEF count, Counter
    <2>3. passed'[b] = passed[b]
        BY <1>1, <1>7
    <2> QED
        BY <1>5, <2>2, <2>3 DEF TurnInv, PassedInTurn
  <1>8. CASE b # c /\ messages[b] > 0 /\ c \notin Immediate
    <2>1. c \in Limited /\ b \in Waiting
        BY <1>1, <1>8 DEF Limited, Waiting
    <2>2. passed'[b] = passed[b] + 1
        BY <1>1, <1>8
    <2>3. InTurn(b, messCounter, passed[b])
        BY DEF TurnInv, PassedInTurn
    <2>4. CASE Ready = {}
      <3>1. c \in Above(b)
        <4>1. b \in choosable /\ c <= b /\ b # c
            BY <1>8, <2>1, <2>4 DEF choosable
        <4> QED
            BY <1>1, <4>1, BufferIs DEF Above
      <3>2. messCounter[b] = Quota(b)
          BY <1>1, <2>1, <2>4, OffersIs DEF Ready
      <3>3. messCounter'[b] = 0 /\ messCounter'[c] = 1
          BY <1>1, <1>3, <1>8, <2>4 DEF count, Counter
      <3>4. InTurn(b, messCounter', passed[b] + 1)
          BY <1>1, <1>2, <2>1, <2>3, <3>1, <3>2, <3>3, PassedAnew
      <3> QED
          BY <1>5, <2>2, <3>4
    <2>5. CASE Ready # {}
      <3>1. messCounter[b] < Quota(b) => c \in Above(b)
        <4> SUFFICES ASSUME messCounter[b] < Quota(b) PROVE c \in Above(b)
            OBVIOUS
        <4>1. b \in choosable
            BY <1>1, <2>1, <2>5, OffersIs DEF Ready, choosable
        <4>2. c <= b /\ b # c
            BY <1>8, <4>1
        <4> QED
            BY <1>1, <4>2, BufferIs DEF Above
      <3>2. messCounter' = [messCounter EXCEPT ![c] = @ + 1]
          BY <1>1, <1>8, <2>5 DEF count, Counter
      <3>3. InTurn(b, [messCounter EXCEPT ![c] = @ + 1], passed[b] + 1)
          BY <1>1, <1>8, <2>1, <2>3, <3>1, PassedOnce
      <3> QED
          BY <1>5, <2>2, <3>2, <3>3
    <2> QED
        BY <2>4, <2>5
  <1> QED
      BY <1>1, <1>6, <1>7, <1>8

LEMMA TakeMessageInTurn ==
    ASSUME TurnInv, NEW c \in Buffer, TakeMessage(c)
    PROVE  TurnInv'
  <1>1. IInv'
      BY TakeMessageInOrder DEF TurnInv
  <1>2. c \in choosable /\ (\A other \in choosable : c <= other) /\ c \in 0 .. Buffers
      BY BufferAssumption DEF TakeMessage, Buffer
  <1>3. messages \in [Buffer -> Nat] /\ messCounter \in [Buffer -> Nat]
      BY DEF TurnInv, IInv, TypeOK
  <1>4. CASE /\ Handle(c, [messages EXCEPT ![c] = @ - 1], armed)
             /\ messCounter' = [d \in Buffer |-> IF d = c THEN count(d) ELSE Counter(d)]
             /\ passed' = [d \in Buffer |-> IF d = c \/ messages[d] = 0 THEN 0
                                            ELSE IF {c, d} \cap Immediate # {} THEN passed[d]
                                            ELSE passed[d] + 1]
    <2>1. \A b \in Limited : messCounter'[b] <= Quota(b) /\ InTurn(b, messCounter', passed'[b])
        BY <1>2, <1>4, TakenInTurn
    <2>2. ASSUME NEW b \in Limited, messages'[b] = 0 PROVE passed'[b] = 0
      <3> DEFINE held == [messages EXCEPT ![c] = @ - 1]
      <3>1. b \in Buffer /\ messages[c] > 0
          BY <1>2 DEF Limited, choosable, Ready, Waiting
      <3>2. held \in [Buffer -> Nat] /\ (b # c => held[b] = messages[b])
          BY <1>3, <3>1
      <3> HIDE DEF held
      <3>3. Handle(c, held, armed)
          BY <1>4 DEF held
      <3>4. ~(held[b] > 0)
          BY <1>2, <2>2, <3>1, <3>2, <3>3, HandleHolds
      <3>5. b = c \/ messages[b] = 0
          BY <1>3, <3>1, <3>2, <3>4
      <3> QED
          BY <1>4, <3>1, <3>5
    <2> QED
        BY <1>1, <2>1, <2>2 DEF TurnInv, SharesKept, PassedInTurn
  <1>5. CASE /\ Handle(c, [d \in Buffer |-> 0], {})
             /\ messCounter' = [d \in Buffer |-> 0]
             /\ passed' = [d \in Buffer |-> 0]
    <2>1. messCounter' \in [Buffer -> Nat] /\ \A b \in Limited : messCounter'[b] = 0 /\ passed'[b] = 0
        BY <1>5 DEF Limited
    <2>2. SharesKept'
        BY <2>1, QuotaPositive DEF SharesKept, Limited
    <2>3. PassedInTurn'
        BY <2>1, UnpassedInTurn DEF PassedInTurn
    <2> QED
        BY <1>1, <2>2, <2>3 DEF TurnInv
  <1> QED
      BY <1>4, <1>5 DEF TakeMessage

\* While nothing waits nobody has been passed.
LEMMA NobodyWaits ==
    ASSUME TurnInv, Waiting = {}, NEW b \in Limited
    PROVE  passed[b] = 0
  <1>1. messages[b] = 0
      BY DEF Waiting, Limited, TurnInv, IInv, TypeOK
  <1> QED
      BY <1>1 DEF TurnInv, PassedInTurn

LEMMA TakeTimerInTurn ==
    ASSUME TurnInv, NEW s \in Slot, TakeTimer(s)
    PROVE  TurnInv'
  <1>1. IInv'
      BY TakeTimerInOrder DEF TurnInv
  <1>2. messCounter' = messCounter /\ passed' = passed /\ \A b \in Limited : passed[b] = 0
      BY NobodyWaits DEF TakeTimer
  <1> QED
      BY <1>1, <1>2 DEF TurnInv, SharesKept, PassedInTurn

LEMMA TickInTurn ==
    ASSUME TurnInv, Tick
    PROVE  TurnInv'
  <1>1. IInv'
      BY TickInOrder DEF TurnInv
  <1>2. Waiting = {} /\ passed' = passed /\ messages' = messages
      BY DEF TurnInv, IInv, NoLostWakeup, Tick
  <1>3. \A b \in Limited : passed'[b] = 0
      BY <1>2, NobodyWaits
  <1>4. messCounter' \in [Buffer -> Nat] /\ \A b \in Limited : messCounter'[b] = 0
      BY DEF Tick, Limited
  <1>5. SharesKept'
      BY <1>4, QuotaPositive DEF SharesKept, Limited
  <1>6. PassedInTurn'
      BY <1>3, <1>4, UnpassedInTurn DEF PassedInTurn
  <1> QED
      BY <1>1, <1>5, <1>6 DEF TurnInv

LEMMA NextInTurn == TurnInv /\ [Next]_vars => TurnInv'
  <1> SUFFICES ASSUME TurnInv, [Next]_vars PROVE TurnInv'
      OBVIOUS
  <1>1. CASE \E b \in Buffer : pushNewMessage(b)
      BY <1>1, PushInTurn
  <1>2. CASE \E b \in Buffer : TakeMessage(b)
      BY <1>2, TakeMessageInTurn
  <1>3. CASE \E s \in Slot : TakeTimer(s)
      BY <1>3, TakeTimerInTurn
  <1>4. CASE NothingToDo
    <2>1. IInv'
        BY <1>4, NothingToDoInOrder DEF TurnInv
    <2> QED
        BY <1>4, <2>1 DEF NothingToDo, TurnInv, SharesKept, PassedInTurn
  <1>5. CASE Tick
      BY <1>5, TickInTurn
  <1>6. CASE UNCHANGED vars
    <2>1. IInv'
        BY NextInOrder DEF TurnInv
    <2> QED
        BY <1>6, <2>1 DEF vars, TurnInv, SharesKept, PassedInTurn
  <1> QED
      BY <1>1, <1>2, <1>3, <1>4, <1>5, <1>6 DEF Next, core

\* Whatever arrives meanwhile and whatever the handlers push, a message at the head of a
\* limited buffer lets one round of the other limited buffers pass, and the next share of
\* those before its own, and is then taken.
THEOREM NoBufferStarves == Spec => []PassedAtMost
  BY InitInTurn, NextInTurn, TurnIsEnough, PTL DEF Spec
=============================================================================
