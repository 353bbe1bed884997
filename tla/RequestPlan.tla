---------------------------- MODULE RequestPlan ----------------------------
(***************************************************************************)
(* What the application of a node promises, without events and times: each  *)
(* type of request is handed down as often as planned, nothing but CONTINUE *)
(* is handed down during a pause, and a type that falls due during a pause  *)
(* is lost, with all that was still planned of it.                          *)
(***************************************************************************)
EXTENDS Integers

CONSTANTS
    Type,           \* the types of requests
    Least, Most     \* the fewest and the most requests of a type a plan holds

VARIABLES left,    \* per type: the requests still to be handed down
          paused,
          lost     \* the types a pause has put an end to

vars == <<left, paused, lost>>

Init == /\ left \in [Type -> Least .. Most]
        /\ paused = FALSE
        /\ lost = {}

Goes(t) == left[t] > 0 /\ t \notin lost

Hand(t) ==
    /\ Goes(t) /\ (paused => t = "CONTINUE")
    /\ left' = [left EXCEPT ![t] = @ - 1]
    /\ paused' = CASE t = "PAUSE"    -> TRUE
                   [] t = "CONTINUE" -> FALSE
                   [] OTHER          -> paused
    /\ UNCHANGED lost

Lose(t) ==
    /\ Goes(t) /\ paused /\ t # "CONTINUE"
    /\ lost' = lost \cup {t}
    /\ UNCHANGED <<left, paused>>

Next == \E t \in Type : Hand(t) \/ Lose(t)

\* Whatever is planned falls due.
Fairness == \A t \in Type : WF_vars(Hand(t) \/ Lose(t))

Spec == Init /\ [][Next]_vars /\ Fairness
=============================================================================
