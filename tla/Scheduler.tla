----------------------------- MODULE Scheduler -----------------------------
(***************************************************************************)
(* How core() of low_latency_chord chooses what to handle: the buffers of   *)
(* trp/message_buffer.h, one per class of messages in order of priority,    *)
(* and the timer buffer, which is looked at when all of them are empty.     *)
(*                                                                          *)
(* Of a class that is not `immediate' at most maxDeep messages are taken    *)
(* before the lower classes get their turn; when no class is left the       *)
(* counts start again.  The code drops the counts when it is called in a    *)
(* new instant (lastCallTime), the model when time passes.                  *)
(*                                                                          *)
(* core() runs when m_eventCore fires.  What a handler does to the node is  *)
(* told in LowLatencyChord; here it takes one message or timer and puts     *)
(* messages and timers into the buffers, drops timers, or flushes.  Which   *)
(* of several timers due in one instant comes first is left open.           *)
(***************************************************************************)
EXTENDS Integers, Sums

CONSTANTS
    Buffers,      \* the number of message buffers; buffer 1 is served first
    Immediate,    \* the buffers without a limit
    MaxDeep,      \* maxDeep of each buffer
    MaxSize,      \* maxSize of each buffer
    Outside,      \* the buffers filled by the application and the network
    Produces,     \* the buffers the handlers fill, per buffer of the message
                  \* handled, and for timers under 0
    Flushing,     \* the buffers whose messages may flush the node
    Slot,         \* places in the timer buffer
    Timeout,      \* the timeouts of the configuration
    MaxArrivals   \* bound on the messages from outside in one instant

Buffer == 1 .. Buffers

ASSUME BufferAssumption ==
    /\ Buffers \in Nat
    /\ Immediate \subseteq Buffer /\ Outside \subseteq Buffer /\ Flushing \subseteq Buffer
    /\ MaxDeep \in [Buffer -> Nat \ {0}] /\ MaxSize \in [Buffer -> Nat \ {0}]
    /\ Produces \in [0 .. Buffers -> SUBSET Buffer]
ASSUME TimeoutAssumption == Timeout \subseteq Nat \ {0} /\ MaxArrivals \in Nat

NotPending == -1   \* nobody has notified m_eventCore

VARIABLES
    messages,      \* how many messages each buffer holds
    messCounter,   \* how many were taken from it since the counts started
    armed,         \* the places taken in the timer buffer
    left,          \* the time each of these timers has left
    m_eventCore,   \* the time until core() runs, or NotPending
    arrivals,      \* how many messages came from outside in this instant
    passed         \* per buffer: messages of limited buffers taken since its first waits

vars == <<messages, messCounter, armed, left, m_eventCore, arrivals, passed>>

-----------------------------------------------------------------------------
(* The buffers. *)

Waiting == {b \in Buffer : messages[b] > 0}

\* firstMessIteratorByImmediate finds a message in buffer b.
Offers(b) == \/ b \in Immediate
             \/ messCounter[b] < MaxDeep[b] /\ messCounter[b] < MaxSize[b]

Ready == {b \in Waiting : Offers(b)}

\* A plausible slip: the counts are never started again.
choosableReadyOnly == Ready

\* When no buffer offers a message the counts of all that hold one start again.
choosable == IF Ready = {} THEN Waiting ELSE Ready

Counter(b) == IF Ready = {} /\ messages[b] > 0 THEN 0 ELSE messCounter[b]

\* A plausible slip: every buffer is treated as immediate.
countNothing(b) == Counter(b)

count(b) == IF b \in Immediate THEN Counter(b) ELSE Counter(b) + 1

\* A plausible slip: the size is not looked at.
PushedUnbounded(held, b) == held + 1

\* A buffer that is full drops its oldest message for the new one.
Pushed(held, b) == IF held >= MaxSize[b] THEN held ELSE held + 1

Expired == {s \in armed : left[s] <= 0}

-----------------------------------------------------------------------------
Init ==
    /\ messages = [b \in Buffer |-> 0]
    /\ messCounter = [b \in Buffer |-> 0]
    /\ armed = {}
    /\ left = [s \in Slot |-> 0]
    /\ m_eventCore = NotPending
    /\ arrivals = 0
    /\ passed = [b \in Buffer |-> 0]

\* pushNewMessage by Transport_plus: a command, a request or a received message.
pushNewMessage(b) ==
    /\ b \in Outside /\ arrivals < MaxArrivals
    /\ messages' = [messages EXCEPT ![b] = Pushed(@, b)]
    /\ m_eventCore' = 0
    /\ arrivals' = arrivals + 1
    /\ UNCHANGED <<messCounter, armed, left, passed>>

\* What the handler of a message of buffer b, or of a timer when b is 0, does to
\* the buffers: it finds `held' messages and the timers `running', nothing of
\* either if it has flushed them, and pushes messages, drops and sets timers.
Handle(b, held, running) ==
    /\ \E pushes \in SUBSET Produces[b] :
           messages' = [c \in Buffer |-> IF c \in pushes THEN Pushed(held[c], c) ELSE held[c]]
    /\ \E dropped \in SUBSET running, set \in SUBSET (Slot \ armed), timeout \in Timeout :
           /\ armed' = (running \ dropped) \cup set
           /\ left' = [s \in Slot |-> IF s \in set THEN timeout
                                      ELSE IF s \in armed' THEN left[s] ELSE 0]

\* A plausible slip: core() waits to be notified.
renotifyNot == NotPending

\* core() re-notifies itself after each message or timer.
renotify == 0

\* The message chosen is handled; a command may flush all buffers first.
TakeMessage(b) ==
    /\ m_eventCore = 0
    /\ b \in choosable /\ \A other \in choosable : b <= other
    /\ \/ /\ Handle(b, [messages EXCEPT ![b] = @ - 1], armed)
          /\ messCounter' = [c \in Buffer |-> IF c = b THEN count(c) ELSE Counter(c)]
          /\ passed' = [c \in Buffer |-> IF c = b \/ messages[c] = 0 THEN 0
                                         ELSE IF {b, c} \cap Immediate # {} THEN passed[c]
                                         ELSE passed[c] + 1]
       \/ /\ b \in Flushing
          /\ Handle(b, [c \in Buffer |-> 0], {})
          /\ messCounter' = [c \in Buffer |-> 0]
          /\ passed' = [c \in Buffer |-> 0]
    /\ m_eventCore' = renotify
    /\ UNCHANGED arrivals

\* An expired timer is taken when no message waits.
TakeTimer(s) ==
    /\ m_eventCore = 0 /\ Waiting = {}
    /\ s \in Expired
    /\ Handle(0, messages, armed \ {s})
    /\ m_eventCore' = renotify
    /\ UNCHANGED <<messCounter, arrivals, passed>>

\* A plausible slip: core() is woken for the last timer.
wakeForLatest(time) == \A s \in armed : left[s] <= time

wakeForFirst(time) == \A s \in armed : time <= left[s]

\* Nothing to do: core() is woken for the first timer to expire, if any is set.
NothingToDo ==
    /\ m_eventCore = 0 /\ Waiting = {} /\ Expired = {}
    /\ IF armed = {} THEN m_eventCore' = NotPending
       ELSE \E s \in armed : wakeForFirst(left[s]) /\ m_eventCore' = left[s]
    /\ UNCHANGED <<messages, messCounter, armed, left, arrivals, passed>>

core == (\E b \in Buffer : TakeMessage(b)) \/ (\E s \in Slot : TakeTimer(s)) \/ NothingToDo

\* Time passes when m_eventCore is not due.
Tick ==
    /\ m_eventCore # 0
    /\ m_eventCore' = IF m_eventCore > 0 THEN m_eventCore - 1 ELSE m_eventCore
    /\ left' = [s \in Slot |-> IF s \in armed THEN left[s] - 1 ELSE left[s]]
    /\ messCounter' = [b \in Buffer |-> 0]
    /\ arrivals' = 0
    /\ UNCHANGED <<messages, armed, passed>>

Next == (\E b \in Buffer : pushNewMessage(b)) \/ core \/ Tick

Spec == Init /\ [][Next]_vars

\* The simulator runs what is due, and then lets time pass.
FairSpec == Spec /\ WF_vars(core) /\ WF_vars(Tick)

-----------------------------------------------------------------------------
TypeOK ==
    /\ messages \in [Buffer -> Nat] /\ \A b \in Buffer : messages[b] <= MaxSize[b]
    /\ messCounter \in [Buffer -> Nat]
    /\ armed \in SUBSET Slot
    /\ left \in [Slot -> Int]
    /\ m_eventCore \in Nat \cup {NotPending}
    /\ arrivals \in 0 .. MaxArrivals
    /\ passed \in [Buffer -> Nat]

\* No wake-up is lost, though one event serves all buffers and timers and a
\* notification replaces a later one: while a message waits core() is due, and
\* while a timer runs core() is woken no later than the timer expires.
NoLostWakeup ==
    /\ Waiting # {} => m_eventCore = 0
    /\ \A s \in armed : m_eventCore # NotPending /\ m_eventCore <= left[s]

\* A timer is never overdue: however many messages come in its last instant, it
\* is taken before time passes.
OnTime == \A s \in armed : left[s] >= 0

Quota(b) == IF MaxDeep[b] < MaxSize[b] THEN MaxDeep[b] ELSE MaxSize[b]

Limited == Buffer \ Immediate

Share == [b \in Buffer |-> IF b \in Limited THEN Quota(b) ELSE 0]

\* No class starves another: before the first message of a buffer is taken, the
\* others get what is left of their share of this round, and those above it
\* their share of the next, whatever arrives meanwhile.
PassedAtMost == \A b \in Limited :
    passed[b] <= SumTo([Share EXCEPT ![b] = 0], Buffers) + SumTo(Share, b - 1)

\* Every burst of messages is worked off, and every timer is taken or dropped.
WorkedOff ==
    /\ \A b \in Buffer : messages[b] > 0 ~> messages[b] = 0
    /\ \A s \in Slot : s \in armed ~> s \notin armed
=============================================================================
