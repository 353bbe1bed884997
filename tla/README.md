# Transport+ Chord: formal model

A TLA+ model of the peer-to-peer transport simulated in `src/Sample4`: a Chord
ring ("Transport+") written in C++ over SystemC. The modules here follow the
C++ method by method; TLC checks them on small rings, and TLAPS proves what
holds for every ring.

`trp/`, `net/`, `app/`, `mntr/` below are directories of `src/Sample4/src`, and
`LLC` is `trp/low_latency_chord.cpp`.

## 1. The system

| Component | State | Operations | Talks to |
|---|---|---|---|
| Identifier circle (`inc.h`, `inc.cpp`) | none | range tests across zero, `uint160` arithmetic, random numbers | everyone |
| Chord layer (`LLC`) | finite state, predecessor, successor, finger tables, `m_isNowUpdate`, `m_isNowStabilize`, `m_isSuccessorSet`, seeds, message and timer buffers, memory list of sent messages | `core()` takes one message or expired timer and runs one `goState...` handler | `Transport_plus` |
| `message_buffer` and the scheduler (`trp/message_buffer.h`, LLC:193-371) | one buffer per message class, a timer buffer | push, take by priority, take expired timer, erase by type and id | Chord layer |
| `Transport_plus` | none of its own | translates application requests, passes messages up and down | `Application`, Chord layer, `network` |
| `network` | a buffer, an event and a wake-up time per port, latencies | `push_into_network`, `checkReceive`, `send` | `Transport_plus` of every node |
| `Application` | a list of requests, a counter and an event per type, `m_isPaused` | hands down `HARD_RESET` and other commands, random data requests | `Transport_plus` |
| `Monitor` | reference fingers | compares snapshots with the reference | `Transport_plus` |
| `main.cpp` | configuration | reads `config.txt`, builds the nodes, gives seeds and start times | all |

A node joins by sending `JOIN` to a seed; the request is passed on as
`FIND_SUCCESSOR` (`isJoin`) until it reaches the node that owns identifier + 1,
which answers with `SUCCESSOR` and takes the newcomer as predecessor. From then
on an `UPDATE` timer expires every period and starts one of two exchanges:
*stabilize* (`FIND_PREDECESSOR` to the successor, `PREDECESSOR` back, then
`NOTIFY`) or *fix finger* (`FIND_SUCCESSOR` for one finger). Each request is
acknowledged (`ACK`) and guarded by timers. `m_isNowUpdate` is the lock that
keeps the two exchanges apart.

**What is hard.** A handler runs to completion, but an exchange takes several
messages, and anything may be handled in between: other nodes' joins and
notifies, late answers, timeouts, commands of the application. The lock and the
index of the finger being fixed are shared by all of them. Several nodes may
join at once through one seed. A node may be reset or switched off in the
middle. Timeouts are retried with counters kept inside the expired timer. The
identifiers wrap at zero. `PROJECT.json` lists the hazards with their lines.

**What makes each component correct.**

* Identifier circle: the range tests are the clockwise arcs.
* Chord layer, one node: it never indexes past its tables; a lock always has a
  timer that releases it; a running node is joining or updating; one update
  timer; successor and finger 0 agree.
* Ring: the nodes form one ring and keep it; pointers only improve when nobody
  leaves; the answer to a lookup is stored under the finger asked for; the ring
  converges to the ideal one, also after a reset.
* Network: nothing lost, duplicated or overtaken on the way to a node, however the
  latencies fall; a free port is served at once; one message per node and instant.
* Scheduler: no wake-up is lost, no timer is late, no class of messages starves
  another.
* Memory list: it routes an answer to the state whose timer waits for it.
* Application: every request is handed down as often as planned.
* Monitor: its reference fingers are the owners of the identifiers.

## 2. The modules

| Module | Models |
|---|---|
| `RingIds` | `isInRangeOverZero`, `isInRangeOverZeroNotInc`, `uint160` + and -; `Dist`, `OnArc`, `InsideArc` say what they are for |
| `RingWalk` | reference definition of an arc: somebody walks it |
| `LowLatencyChord` | class `low_latency_chord`: one operator per method, from the state of a node to the state after the method |
| `ChordNode` | one node against arbitrary peers: every well-formed message at any time, timers in any order, all commands |
| `ChordRing` | several nodes, one queue per destination, started as `main.cpp` does, with `HARD_RESET` or `PAUSE` at any time |
| `UpdateCycle` | abstract specification of the periodic update, which `ChordRing` implements |
| `TxMemory` | `m_txMemoryList` of every node of `ChordRing`: what it remembers, how it routes answers |
| `Lookup` | one lookup or JOIN through a ring of nodes that know their neighbours, by the handlers of `LowLatencyChord` |
| `Monitor` | `monitor::genRefFingers` |
| `Network` | class `network`: buffers, latencies and events of the ports, in milliseconds |
| `PortQueues` | abstract specification: a queue per port, which `Network` implements and `ChordRing` builds on |
| `Scheduler` | `message_buffer`, `pushNewMessage`, `firstMessByPriority` and `core`: which message or timer is handled next |
| `Application` | class `application`: schedules, repetitions, random periods, pauses |
| `RequestPlan` | abstract specification of a schedule, which `Application` implements |
| `MCChordNode`, `MCChordRing`, `MCLookup`, `MCTxMemory`, `MCNetwork`, `MCScheduler`, `MCApplication` | constants for TLC |
| `Sums` | a sum of numbers in order, as `Scheduler` and `Application` use it |
| `*_proofs` | the theorems |

### Correspondence

`core()` takes one event, runs one handler, and re-notifies itself in the same
simulated instant; a handler is therefore one atomic step, and everything it
queued for transmission has left the node before time passes. An operator of
`LowLatencyChord` maps the state record `s` to the state after the method, and
`s.tx` collects the messages sent on the way. A field has the name of its
member (`m_cwFingerIndex` is `s.cwFingerIndex`, `isUpdated` is the set of
fingers whose flag is up). Timers are a set of records with the parts of
`retryMess` the handlers read; UPDATE timers carry nothing and are counted.

The handlers are reached as in the code: `received` is `goStateIdle` with
`mess2state` and `checkMessage`; `timerExpired` is the TIMER_EXPIRED branch of
JOIN, SERVICE and UPDATE; `joinAnswered`, `fingerAnswered`, `rxPredecessor`,
`rxNotify`, `rxAck` are branches of `goStateJoin` and `goStateUpdate`;
`rxFindSuccessor` and `rxFindPredecessor` are `goStateService`; the commands are
`doResetFlushPauseIfMess`.

`findStateOnRxReplyMess` routes an answer to the state its request was issued
in, by a memory list of sent messages. The answer must also match a timer
(`isMessageIDvalid`), and `LowLatencyChord` tells the state by the timer.
`TxMemory` adds the list to `ChordRing`, as a bag of what `sendMessage` pushes:
each action of `ChordRing` but `Pause`, which leaves the list alone, is taken
together with what it does to the list. That
the list and the timers tell the same is `AnswersRouted`. An entry is forgotten when
its identifier is in use nowhere else; the program keeps it.

Three places where C++ and TLA+ differ need a word. `setCopyPreviousAliveFinger`
writes `m_cwFingers[m_cwFingerIndex]` unchecked: the model records a write past
the end in `outOfRange` and says nothing of that node afterwards, since
anything may have been overwritten. `chord_timer_message::operator=` does not
copy `isDelayed`, so the event `INACCESSIBLE_NODE` never occurs and the list of
inaccessible fingers stays empty; neither is modelled. `m_txMessBufferIndex`, the
buffer `eraseTxMess` looks into (LLC:297), is never assigned: the model takes its
value to name no buffer, so that nothing is erased.

`Network` has an action per SystemC method. Times are kept as the milliseconds
left (`m_wakeUpInfo`, `m_eventSend`) or gone by (`age`, for
`netwokrStartTime`), so that states repeat; `Tick` is the simulator moving on
when no event is due. `Notify` is `sc_event::notify`, which keeps an earlier
notification that is pending. `checkReceive` draws every delay from `Delays`, the
latency plus or minus the random part, and a random part (`RandomPart`) is 0 or
1 to one more than was asked for, since `genRand` (`inc.cpp:84-92`) may return one more than its
limit. `CAN_USE` stands for `bufIndex` and `time`
together, as `bufIndex` is otherwise always the port's own index. `main.cpp:405`
gives all latencies 10 ms and no random part; the model and the proofs take any.

`Scheduler` keeps of a buffer how many messages it holds and how many were taken
(`messCounter`), and of a timer the time it has left. `message_buffer` drops its
count when it is asked in a new instant (`lastCallTime`); the model drops it when
time passes. A handler is what it does to the buffers (`Handle`): it pushes
messages and timers, drops timers, and a command may flush everything first.
`pushNewTimer` may put a timer in front or at the back; which of several timers
due in one instant is first is left open. The limits are the constants `MaxDeep`
and `MaxSize`; the buffers TX_JOIN to TX_PREDECESSOR are alike and TLC has one of
each kind.

In `ChordRing` the network is a queue per destination. Two results stand behind
that and behind handlers that are one step. `QueuesPorts`: `network` implements
those queues. `OneArrival` with the limits of `Scheduler` (RX has `maxDeep` 1,
timers come when all buffers are empty): a node gets at most one message in an
instant, and what its handler queued has left before the next timer or message
is handled. Messages of one handler leave in the order of their buffers'
priorities, which is the order in which the handlers of `LowLatencyChord` append
them to `tx`. A message that arrives in the very instant in which a timer has just
been handled is handled before what the timer has queued leaves; that is the
action `Coincide`, which sends what both queued by priority (`TxPriority`). A
HARD_RESET is taken between instants (`HardReset`), or in the instant of an
arrival (`ResetDropsArrival`): a node whose `core()` was not woken by a timer finds
the message still in its buffer and drops it unread, and one that handled a timer
first may have handled the message and drops what that has queued (`FoundByReset`).

A node that is OFF takes messages and drops them, as STATE_OFF does. Message
identifiers are fresh (`NextID`), where `nextUniqueMessageID` draws them at random.

`Lookup` starts from any ring and hands one request from node to node with
`received`; a node is in the state JOIN leaves it in (`Joined`), its fingers are those
of the monitor's reference (`exact`) or, but for finger 0, any nodes at all. The owner
it compares with is where the walker of `RingWalk` first meets a node.
`Monitor!genRefFingers` goes through the nodes from the greatest down, as
`genRefFingers` does; the sorted vector is a set, and its neighbour in the loop is
`nextAddr`.

`Application` has one action for `generateMess`, for every type whose event is due.
`m_reqs`, `m_sentReqCounter`, `m_isTriggeredReq`, `m_isPaused` and `m_randSimReq` are
its variables; `m_isFilled` is `randSimReq[t] # Unfilled`. `doRandSimMess` keeps its
quirks: what was drawn for the first request of a type is what its second request
is sent with, and tails add up. A request asks for at least one repetition (an
amount of 0 is never met by the counter, which is compared for equality, and
repeats for ever), and sizes are drawn like destinations. The network
does not see the schedule: `ChordRing` and `ChordNode` take commands at any time,
which contains every schedule.

## 3. Runs

| Run | Question | Bounds |
|---|---|---|
| `lookup` | Are the range tests the clockwise arcs? Is every lookup and JOIN answered by naming the owner? Is the monitor's reference the owner? | 16 identifiers and 4 fingers: the whole space of the build (`W = 4`); every ring of up to 5 nodes with exact fingers, of up to 3 with any |
| `node_resets` | Does a node always keep something that releases its lock, and a JOIN or UPDATE timer, under hard and soft resets, and is the seed it would ask there? | 2 identifiers of nodes, 2 entries in the seed list, 2 fingers, 4 timers, 3 own message identifiers |
| `node_commands` | Do successor and finger 0 agree, is there one UPDATE timer, under HARD_RESET, FLUSH, PAUSE, CONTINUE? | 3 nodes, 2 fingers, 2 timers |
| `ring2` | Two nodes, updates starting at any moment, one of them perhaps paused or reset: does the ring form, do the updates implement `UpdateCycle`, and is a node ever locked for good? | 2 nodes, circle of 4, one PAUSE or one HARD_RESET of the node that has a seed |
| `ring3` | Three nodes joining at any time, every interleaving: is there one exchange at a time, is every answer stored where it belongs and every request answered, and do pointers only get better? | circle of 8, 3 fingers, 3 requests outstanding per node |
| `ring3_reset` | Three nodes, one of them reset at any time, also while it answers: does the ring form, also again? Do the memory lists route every answer? | circle of 4, 2 fingers, one reset; updates start when the network is quiet |
| `pause_index` | *violated*: the finger index leaves its range after a timeout | one PAUSE |
| `seed_reset` | *violated*: the node started first does not come back after HARD_RESET | one HARD_RESET |
| `join_answer` | *violated*: a node that adopts a newcomer while its own JOIN is open never starts its UPDATE timer | 3 nodes, one HARD_RESET |
| `network` | Is the switch a queue per port, is everything served as soon as it can be, and only one message per instant? | 2 ports, latencies 2 and 1 ms with a random part of 1 ms asked for, of 1 or 2 ms drawn, 2 messages waiting per port |
| `scheduler` | Does `core()` always wake up, take timers in time and give every buffer its turn? | one immediate and three limited buffers, 2 timers of 1 or 2 ms, 4 messages from outside per instant |
| `application` | Is every request handed down as often as planned, whatever falls into one instant and whenever a pause comes? | plans of 1 or 2 requests for 5 types, up to 5 repetitions, times up to 3 ms |

**Why the bounds are enough.** Three nodes on a circle give every relative
position that the range tests distinguish: before, between, after, and across
zero. With two or three fingers the table has a finger that is the successor, one
beyond it, and one that can be out of date while another is being fixed. In `ring3`
the bound of three outstanding requests per node is never the reason a node
cannot move: a node has one exchange of its own, forwards, and a JOIN. With three nodes a
lookup is passed on once at most; what happens on a longer way is proved
(`UndisturbedAnswered`), as TLC does not get through four nodes, and was looked at by simulation of rings
of four and five nodes (section 5). `ChordNode`
bounds its timers, UPDATE timers and finger index (`MaxTimers`,
`MaxUpdateTimers`, `MaxIndex`); the proofs have no such bound to rely on, as they
hold for every value of the constants. `CtxJoin` is 0 or 1 so that the retry counter both grows
and restarts. In `network` the two ports have different latencies, so that the event of one wakes
`send` while the other travels, and a random part as large as the smaller latency or
larger, so that the clamp to 1 ms is used. In `scheduler` `MaxDeep` is below, equal to and above
`MaxSize`; four arrivals in an instant use up the limits of all limited buffers and
start the counts again, and the sum `PassedAtMost` allows is reached.
In `lookup` every ring of up to five nodes on the circle of the build is tried (`MaxExact`), every
identifier is looked for and every node asked; with fingers that may be anything
(`MaxStale`) a request passes through any of the states of three nodes, each
time it comes to one. In `application` delays and periods coincide, since times reach
to 3 only, so that PAUSE, CONTINUE and data fall into one instant in every order.
`node_resets` uses symmetry on the identifiers the node gives out,
which are only compared for equality; runs with liveness use none. Its two seed entries make
`m_currSeed` move, and resets and repeated JOINs set and count it.

**What the run without commands shows of timeouts.** In `ring3`
`RequestsAnswered` says that no timer for an ACK and none for the answer to a
stabilize is ever due, since nobody leaves; the
timeouts themselves are exercised in `node_resets`, `node_commands`,
`ring2` and `ring3_reset`.

**Fairness** (`ChordRing!Fairness`). SystemC runs every event that is due, so a
node that has been given a start time starts (`Boot`, weak), a message in a
queue arrives (`Deliver`, weak) and a timer that stays expires
(`TimerExpires`, weak). The UPDATE timer is pushed again each time it expires,
for as long as the node runs, and is only held back while another timer of the
node is due or, with `Quiet`, while something is in flight: it expires
infinitely often if it can infinitely often, which is strong fairness. Two
assumptions on time stand behind the guards. A timer of 5 or 15 s does not
expire while a message of its exchange, which takes milliseconds, is on its way.
`wait_rx_ack_sec` equals the waits for answers (`config.txt`), so when an answer
has timed out the ACK timer of the same exchange is due too and comes first
(`AckDue`). `Quiet` says that an UPDATE timer (1 s) does not expire in the
milliseconds an exchange takes; `ring2` and `ring3` do without it.

`Network!Fairness` and `Scheduler!FairSpec`: SystemC runs `checkReceive`, `send`
and `core()` when their events are due and moves the time on when nothing is
(weak fairness of each and of `Tick`). `Application!FairSpec` says the same of
`generateMess`. Pushes have none. In `Scheduler`
arrivals in one instant are bounded (`MaxArrivals`), as they are in the code: one
message of the network (`OneArrival`) and the commands of the schedule.

**Deadlock.** `ring3`, `ring3_reset`, `network` and `scheduler` check it. The request of
`lookup` ends with its answer and the plan of `application` with its last request; a node or ring with PAUSE stops where all are
paused or the bounds are reached.

## 4. Proofs

* `LowLatencyChord_proofs`, at its head, and the first part of `Lookup_proofs`: on a circle of any size
  `isInRangeOverZero` is the inclusive clockwise arc and
  `isInRangeOverZeroNotInc` the open one (`RangeIsArc`, `OpenRangeIsInside`,
  by arithmetic on `Dist`), and both agree with the walker (`RangeCorrect`,
  `OpenRangeCorrect`; during a lookup `LookupRanges`), who never leaves the circle
  (`WalkTypeCorrect`).
* `Lookup_proofs`, for rings of any number of nodes on circles of any size, with
  any stale fingers: `AnswersAreOwners` (`LookupSpec => []AnswerIsOwner`: a lookup or
  JOIN is answered with the owner), `ReferencesAreOwners` (what the monitor
  compares with is the owner) and `ExactAreAnswered` (with exact fingers the
  request is never dropped and takes at most `FingersSize` hops).
* `LowLatencyChord_proofs`, the rest: one lemma per method. `Sound(s, own)` says the state
  is a node's state whose own requests carry its own identifiers, whose seed
  can be read and whose finger 0 is the successor or the node, `Follows` and `Settles` say how a method may change it.
  Its last part says what the methods do to the exchange of the update (`Tidy`, `GoesOn`,
  `Closes`), that no handler of a message writes outside `m_cwFingers`, and which methods
  leave the successor alone (`Stays`).
* `ChordNode_proofs`: `NodeTypeCorrect` (`Spec => []TypeOK`, for every list of seeds:
  the seed `m_currSeed` names is there whenever an update may ask it),
  `SuccessorAlwaysFinger0` (`Spec => []SuccessorIsFinger0`) and
  `LockAlwaysHasTimer` (`Spec => []LockHasTimer`), `AlwaysJoiningOrUpdating`
  (`Spec => []JoiningOrUpdating`) and, for nodes that get no SOFT_RESET,
  `AlwaysOneUpdateTimer` (`Spec => []OneUpdateTimer`). Every handler either is
  `Quiet`, it touches neither the UPDATE timers nor the node's own JOIN, or is
  shown to keep `HasFuture` and `HasOneUpdate`.
* `ChordRing_proofs`, for any number of nodes, any identifiers, seeds and queues:
  `NetworkTypeCorrect` (`Spec => []TypeOK`), `PredecessorsOnlyCloser`
  (`Spec => PredecessorOnlyCloser`, for rings without HARD_RESET),
  `AnswersFitFinger` (`Spec /\ []PassedOnAcked => []AnswerFitsFinger`) and
  `ExchangesOne` (the same for `OneExchange`, for rings without PAUSE). For networks
  started as `main.cpp` starts them: `UndisturbedAnswered` (`Spec => []RequestsAnswered`: until
  the first command no timer comes due that waits for an ACK, of an own request or of one
  passed on, or for the answer to a stabilize), `UndisturbedExchanges`
  (`Spec /\ [](given = 0 /\ HopsSuffice) => [](OneExchange /\ AnswerFitsFinger)`, where
  `HopsSuffice` says that no lookup meets the hop limit: `PassedOnAcked` is no
  hypothesis there, but follows), `SuccessorsApproach` (`Spec => OnlyLookupsMoveAway`:
  until the first command only the answer to a lookup moves a successor away) and
  `ImplementsUpdateCycle` (`Spec /\ []PassedOnAcked => Update!Init /\
  [][Update!Next]_(Update!vars)`: each step of the network is one of `UpdateCycle` or a
  stutter). The argument is below.
* `Network_proofs`: `NetworkTypeCorrect`, `WakeupNeverLost`, `TravellerAlwaysExists`,
  `OneArrivalAtATime`, `AlwaysPunctual` and `NetworkImplementsQueues`
  (`Spec => Abstract!Spec`: each step of the network is one of `PortQueues` or a
  stutter; that every message arrives is checked by `network`), for every number of ports, every table of
  latencies and every random part. The inductive invariant `Shaped /\ \A p :
  InOrder(p)` says port by port how buffer, wake-up time and event fit together
  and bounds the age of every message by its place.
* `Scheduler_proofs`: `SchedulerTypeCorrect`, `WakeupNeverLost` and `TimersOnTime`, for every number of
  buffers, all limits, all handlers. The inductive invariant is `TypeOK`,
  `NoLostWakeup` and `OnTime` together: that no timer is overdue when time
  passes follows from `core()` being woken no later than each of them.
  `NoBufferStarves` (`Spec => []PassedAtMost`) is shown with an invariant of its own, see below.
* `Application_proofs`: `ApplicationTypeCorrect`, `EventAlwaysHasRequest`,
  `NoRequestForgotten`, for every plan. The inductive invariant is the three
  together: that a counter stays in its type follows from the request it counts for,
  and that a list has a request from its event being set. That CONTINUE wakes
  nobody (`resumed` is empty) is a step of the proof. `ImplementsPlan`: each step of the
  application is one of `RequestPlan` or a stutter, where a type's `left` is the sum of
  what its list asks for, less what has been handed down.
* `Sums_proofs`: a sum is what its recursive definition says (`SumStep`), it grows with its
  terms (`SumGrows`), and one more in one term is one more in the sum (`SumOneMore`).
  That the function which sums up exists is shown by induction; the induction
  (`InductionOver`) is over a set of numbers, by the least number that is not in it.

In `ChordNode_proofs` the inductive invariant is `IInv == Ready /\ LockKept`. `TypeOK` alone is not
inductive: fixing a finger reads `m_seedAddrs[m_currSeed]`, and that the seed
exists follows from what is outstanding, so `Ready` carries `Sound`.
`LockHasTimer` alone is not inductive either: a timer that is about to release
the lock may be removed by an answer to another request with the same
identifier, unless the identifiers the node gives out are its own; and a node
that is OFF drops timers, so `LockKept` adds that it has no lock then.
`OneUpdateTimer` is not inductive: the answer to a JOIN starts an UPDATE timer
whether one runs or not, and only a node without a successor takes that answer,
so `HasOneUpdate` adds that a node with a configured seed whose update runs has a
successor; a SOFT_RESET forgets the successor and keeps the timer, which is why
the theorem excludes it. `JoiningOrUpdating` rests on `Sound`: a newcomer taken in
as successor drops the timers of a JOIN with the newcomer's identifier, which is
never one of the node's own. The
assumptions are those on the constants (`MaxAssumption`, `NodeAssumption`,
`FingersAssumption`, `SeedAssumption`, `SelfAssumption`, of the ring also `BootAssumption`), and the environment of
`ChordNode`: peers do not put an identifier of this node's own requests on
requests of theirs. `LockHasTimer` is claimed of nodes that are not paused.

In `Scheduler_proofs` `PassedAtMost` is not inductive: `passed` counts over two rounds and
`messCounter` over one, and time passing resets the latter. `InTurn` says of a waiting
buffer how much of the bound is used up: one that has had its share of this round may
still be passed by what is left of the others' shares, and then, in the next round, by the
shares of those above it; one that has not is passed only by those above it. Time does not pass while it
waits (`NoLostWakeup`), and no buffer takes more than its share in a round
(`SharesKept`), since the counts begin again only when no waiting buffer has any of
its share left.

In `Lookup_proofs` the owner of an identifier is the first node from it on
(`OneOwner`). A node names itself only when the identifier is between its
predecessor and itself, and its successor only when it is between itself and its successor: in
a ring whose neighbours are right both are the owner (`OwnsItself`, `OwnsUpTo`).
That every answer names the owner is inductive only with the request on its way:
`RequestInOrder` says it is for the identifier asked for, has come to a node of the ring,
and that a newcomer that joins is not one. For the bound on hops `Reach` says how far the node
that has the request is from the last node before the identifier: below
`2 * FingerMask[i] - 1` when `i + 1` hops are left. A node passes the request to the highest of its
fingers that lies before the identifier (`HighestBounds`), with exact fingers that is the
first node from `n + FingerMask[j]` on, for the highest `j` that does not
pass the last node before the identifier, so that the distance left is less than
`FingerMask[j]` (`SeedReaches`, `FingerBetween`, `HopHeads`): each hop uses a lower finger than the one before.
Finger 0 is always one of them, so nothing is dropped (`AlwaysPreceding`).
The assumptions are `MaskAssumption`, the mask doubles from 1 and its last entry is
half the circle (LLC:393-395 computes the powers of two, `main.cpp:274` sets the
number of fingers to the logarithm of the circle), and `MessageIDAssumption`, that there is
an identifier to ask with.

In `ChordRing_proofs` there are five inductive invariants. `TypeOK` of the ring is not inductive:
an answer with an arbitrary identifier of the type could match a timer it does not
belong to, and a node stores what an answer brings. `InOrder` therefore says of each node that
it is `Sound` and its timers carry identifiers that have been given out (`NodesInOrder`), and of what is
on its way (`QueuesInOrder`) that it is one of the messages the nodes write
(`Letters`): with an identifier of the node that asked first, and with what it asked for.
`Covers` adds that the identifier a node is about to give out is on
nothing that waits, neither in a timer nor on its way, so that a fresh request is answered by nobody else's answer. On top of
it `Tidied` says node by node who holds the lock: of the timers for answers to an update at
most one is there, and then the node is locked (`LockInOrder`); the
answer on its way to a timer of the update is one to the request of that timer (`Answering`);
the finger that a timer waits for is the one asked for (`FingerFits`); and a node
that has not joined has no update (`NotYetJoined`). `AnswerFitsFinger` and
`OneExchange` follow at once.

The hypotheses of these theorems beyond `Spec` are what the code needs. A HARD_RESET forgets
the predecessor, so the next one may be anywhere. A node that is OFF drops timers
and keeps its lock, so a paused node may hold two. `PassedOnAcked` says that an
ACK timer for a request passed on is answered before it expires:
`forwardNoAck` (LLC:861) releases `m_isNowUpdate` when a request of
*another* node has not been acknowledged, though the lock may stand for an
update of this node's own. No run checks it, since it is false where a HARD_RESET drops
an ACK, and where a lookup goes round a ring that is still forming until it meets the hop limit and is
dropped without an ACK (section 5). Where neither happens it is proved (`UndisturbedPassedOn`).

Before the first command more is true: every request is acknowledged in time.
`Undisturbed` is the third invariant of the ring. With `B` the nodes started so far, nodes
know (`Knows`) and messages speak (`Speaks`) of nodes of `B` only, so that
nothing is sent to a node that is OFF and drops it. `Staged` says of each node that every timer
for an own ACK or for the answer to a stabilize (`Waits`) has its request, or what ends it,
among the messages on their way (`Asked`); `Before`, that until the first JOIN has
arrived nothing but JOINs is sent. `Lives` is what a
handler may do to all that, shown for each of them. A timer comes due only when no message with its
identifier is on its way (`TimersDue`), which `Asked` excludes.

For a request that is passed on the same is said by the fourth invariant, `Routed`. The timer a node keeps
for its ACK (`Forwarded`) is `Carried`: the request is on its way from this node with the
hop count of the timer; or its ACK is on its way to the node, and the request is not ahead of it; or the
request has been dropped. The second part needs the order of the queue: a lookup that goes round comes by the same
node again, and were it handled before the ACK of the first time, the node would keep two
timers for one identifier, which one ACK ends. The node that takes the request sends
the ACK before it passes the request on (`Ordered`), and sending by priority keeps that order
(`ByPriorityOrder`). That there is one copy of each request is `OneRequest`; the
timer of a request that is dropped at the hop limit has a hop count that `isAddrValid` rejects.
`Relays` and `Issues` are what a handler may do to all that. `UndisturbedAnswered` puts the two invariants
together.

The fifth, `Led`, says that a node that has another one as its successor, or waits for the answer
to a lookup, has set its successor (`m_isSuccessorSet`). So the answer to a JOIN and the adoption of
a newcomer find the node its own successor, from which every other one is nearer, and
`setSuccessorStabilize` asks for a nearer one (`Approaches`): what is left is the answer to a lookup (`Finds`),
which the node takes from its queue while it sends nothing to itself. A timeout would let the node copy
a finger, or reset it; the timers that do that do not come due, by `Asked`
(`TimerExpiredStays`).

The last three rest on `StartedAsMain`, an assumption of the theorems on undisturbed networks only: the node
started first has no seed and is the seed of all others (`main.cpp:379-386`). TLC evaluates it
for the instances of the ring runs (`SeedAsMain` in `MCChordRing`).

For `ImplementsUpdateCycle` the phase of a node is read off its lock and its timers (`PhaseOf`, `Doing`). By
`Tidied` a node waits for at most one answer of an update, so it has one phase;
`Takes` says for each message that is handled how the phase moves. A message that arrives in
the instant in which a timer has been handled (`Coincide`) may move it again: an update that
has just begun is not answered by it, because its identifier is fresh, and a `fix_finger`
that has just been given up is followed by nothing. When a timer comes due before the first command,
it is that of a JOIN or of a `fix_finger` (`TimerPhaseUndisturbed`, by the same argument as
`UndisturbedAnswered`): so only a disturbed network
gives up a stabilize. A paused node that is reset goes from `stopped` to `none`:
the proof showed that `Disturb` of `UpdateCycle` had to allow it.

What a node sends is sorted out to queues with `FlattenSeq`; that a
property of each element carries over is shown by taking the least index where it
does not.

**Only model-checked.** `JoinAnswerArmsUpdate` of the ring: it needs that a node that is known to
others has the answer to its JOIN ahead of all they send it, an invariant on all queues
during a join.
`RequestsAnswered` leaves out the answers to a lookup and a JOIN, which do fail to come
when the hop limit is met. `AnswersRouted` speaks of the bags of `TxMemory`. `UpdatesCycle` is
proved step by step (`ImplementsUpdateCycle`), its fairness is model-checked.
`Converges`, `LockReleased`, `WorkedOff` and the liveness parts of `QueuesPorts` and `KeepsPlan`
depend on fairness.

## 5. What the runs found

1. `pause_index`: `setCopyPreviousAliveFinger` (LLC:2424) can write past the end
   of `m_cwFingers`; LLC:2339 and LLC:1833 treat the same index as an error.
2. `join_answer`: the answer to a JOIN is dropped when the node has adopted a
   newcomer meanwhile, and `t_update` (`transport_plus.md:121`) is not started.
3. `seed_reset`: HARD_RESET of the node without a configured seed leaves it alone
   for good, against `readme.md:234`.

Seen while modelling, without a run: there is no `check_predecessor`, which
`readme.md:146` lists among the periodic procedures, so a predecessor that has
stopped answering is never forgotten; `SOFT_RESET` keeps the running UPDATE timer
and the JOIN it sends adds another (`OneUpdateTimer` is therefore checked
without SOFT_RESET); `arrayID` is sorted and stripped of duplicates
(`main.cpp:109`), so nodes start in numerical order and not in that of the list
(`readme.md:141`); a JOIN goes to the next seed at once, not after `Ctx_join`
attempts (`transport_plus.md:115`); `RX_PREDECESSOR` waits `TrxSucc` (LLC:244).
`application::generateMess` clears `m_isPaused` for CONTINUE before it asks whether
to wake the types a pause has held up (`app/application.cpp:202`, `:213`), so that
the branch is never taken and what falls due during a pause is lost with all its
repetitions: `RequestPlan` has it as `Lose`. In the example at
`main.cpp:476-489` a HARD_RESET between PAUSE and CONTINUE would be lost so. A node
with stale fingers that finds nobody to ask but itself answers a lookup with
itself, and may be wrong (in the ring 2, 3, 4, 5 node 5 asks 3 for identifier 1, 3 passes
it on to 4, and 4 names itself): `AnswerIsOwner` excepts that case, and the asker's
finger is wrong until it is fixed again. Of the two entries remembered for a
passed-on lookup only the one for its ACK is used up, since the answer goes to the
initiator; the other stays until 100000 entries are there. In simulations of larger
rings a lookup moved a successor away from a node that was still there: with nodes 0, 4
and 6 and two joining at 4, node 0's lookup for its finger 0 is passed by 4 to 6,
which knows nobody but the sender and the initiator and names itself, and node 0 takes 6 for its
successor until it stabilizes (`OnlyLookupsMoveAway` excepts lookups for that reason). And with
nodes 0, 4, 5 and 6 a lookup circled between three nodes that were still joining until the hop limit, and
was dropped without an ACK, so that the node that had passed it on last runs into
`forwardNoAck`, which releases the lock whatever it stands for.

Some of the hazards in `PROJECT.json` have no property, and a note says why: what a pause
loses of a schedule, the doubled UPDATE timer of a SOFT_RESET, the early release
by `forwardNoAck`, a lookup with stale fingers that is dropped, and the successor that the
answer to a lookup moves away are things the code does and that no document or comment of the repository
rules out. The properties state what holds apart from them.

## 6. Not modelled, and the plan

Done: identifiers, the Chord layer, the ring, lookups, the memory list, the network, the
scheduler, the application, the monitor's reference. Next, in this order:

1. Proofs: `JoinAnswerArmsUpdate`, with an invariant on what is on its way during a JOIN.
2. PAUSE followed by CONTINUE in `ChordRing` (`ChordNode` has both): what a pause
   loses, the lock and the UPDATE timer among it, is not promised otherwise
   anywhere in the repository.
3. `NO_ACK` as a configuration of `LowLatencyChord`.

Not modelled: `NO_ACK`, retries of requests (`CtxRetry`, `CtxFindSucc`,
`fillFingersMinQty` are 0 by default), counter-clockwise fingers above 0
(`CCW_FINGERS_TURN_ON` is off), latency measurement (all equal), data messages
(`goStateApprequest` and `goStateIndata` return to IDLE), CONF requests (run() does
not start them), the limit of the memory list (100000 entries), the comparison of
snapshots, which only prints, reading and validating `config.txt`, logging, SHA-1, the vendored `json` library and, but for `sc_event::notify` and the
advance of time, `systemc`, and the prototypes
`Sample1` to `Sample3`.
