---------------------------- MODULE MCScheduler ----------------------------
(* One buffer of each kind: commands, received messages, messages to send   *)
(* and requests of the application.                                           *)
EXTENDS Scheduler

CONFIG == 1
RX     == 2
TX     == 3
APP    == 4

MCMaxDeep == <<3, 1, 2, 1>>
MCMaxSize == <<1, 2, 2, 1>>
MCProduces == [b \in 0 .. 4 |-> CASE b = 0 -> {CONFIG, TX}
                                  [] b \in {CONFIG, RX} -> {TX}
                                  [] OTHER -> {}]
=============================================================================
