---------------------------- MODULE UpdateCycle ----------------------------
(***************************************************************************)
(* What the periodic update of the nodes promises, without messages or      *)
(* timers: each node does one thing at a time, stabilizing its successor    *)
(* (ask it for its predecessor, then notify it) or fixing a finger, and     *)
(* does each of them again and again.  Once a node has been stopped or      *)
(* reset, the others may have to give up what they are doing, but they      *)
(* never get stuck in it.                                                   *)
(***************************************************************************)
CONSTANT Node

VARIABLES
    phase,      \* what the update of each node is doing
    disturbed   \* a node has been stopped or reset

vars == <<phase, disturbed>>

Phase == {"none", "stabilize", "notify", "fix", "stopped"}

Init == phase = [n \in Node |-> "none"] /\ disturbed = FALSE

AllRun == \A n \in Node : phase[n] # "stopped"

Goes(n, from, to) ==
    /\ phase[n] = from /\ phase' = [phase EXCEPT ![n] = to]
    /\ UNCHANGED disturbed

Stabilize(n) == Goes(n, "none", "stabilize")
Notify(n)    == Goes(n, "stabilize", "notify")
Fix(n)       == Goes(n, "none", "fix")
Finish(n)    == Goes(n, "notify", "none") \/ Goes(n, "fix", "none")

GiveUp(n) == disturbed /\ Goes(n, "stabilize", "none")

\* A node is stopped or starts afresh, whatever it is doing.
Disturb(n) ==
    /\ disturbed' = TRUE
    /\ \E to \in {"none", "stopped"} : phase' = [phase EXCEPT ![n] = to]

Next == \E n \in Node :
            Stabilize(n) \/ Notify(n) \/ Fix(n) \/ Finish(n) \/ GiveUp(n) \/ Disturb(n)

\* Nothing that is begun stays unfinished; while all nodes run, neither task
\* starves the other.
Fairness == \A n \in Node :
    /\ WF_vars(Notify(n) \/ GiveUp(n)) /\ WF_vars(Finish(n))
    /\ SF_vars(AllRun /\ Stabilize(n)) /\ SF_vars(AllRun /\ Fix(n))

Spec == Init /\ [][Next]_vars /\ Fairness
=============================================================================
