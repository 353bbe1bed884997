----------------------------- MODULE PortQueues -----------------------------
(***************************************************************************)
(* What the network promises the nodes, and all that ChordRing takes from   *)
(* it: one queue per port, nothing lost, doubled or overtaken in it, and    *)
(* every message arrives.  Latencies, events and the clock are not seen     *)
(* here; messages for several ports may arrive in the same instant.         *)
(***************************************************************************)
EXTENDS Naturals, Sequences

CONSTANTS Port, Item

VARIABLE queue

Init == queue = [p \in Port |-> <<>>]

Enter(p, item) == queue' = [queue EXCEPT ![p] = Append(@, item)]

Arrive(ports) ==
    /\ ports # {}
    /\ \A p \in ports : queue[p] # <<>>
    /\ queue' = [p \in Port |-> IF p \in ports THEN Tail(queue[p]) ELSE queue[p]]

ArriveAt(p) == \E ports \in SUBSET Port : p \in ports /\ Arrive(ports)

Next == \/ \E p \in Port, item \in Item : Enter(p, item)
        \/ \E ports \in SUBSET Port : Arrive(ports)

Spec == Init /\ [][Next]_queue

FairSpec == Spec /\ \A p \in Port : WF_queue(ArriveAt(p))
=============================================================================
