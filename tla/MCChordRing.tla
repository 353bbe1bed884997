---------------------------- MODULE MCChordRing ----------------------------
(* Networks of two and three nodes, in several orders of starting them. *)
EXTENDS ChordRing

Order2   == <<0, 2>>
Order035 == <<0, 3, 5>>     \* clockwise, on a circle of eight
Order203 == <<2, 0, 3>>     \* on a circle of four: 0 and 2 own fingers of 3
Order032 == <<0, 3, 2>>     \* 2 joins between two nodes that know each other

Mask == [i \in FingerIndex |-> 2^i]

\* main.cpp: the node started first has no seed and is the seed of the others.
Seed == [n \in Node |-> IF n = BootOrder[1] THEN <<>> ELSE <<BootOrder[1]>>]

ASSUME SeedAsMain == StartedAsMain

\* The commands of the application: none, PAUSE of any node, HARD_RESET of the
\* node started first, of node 3, or of any but the first along with PAUSE.
Nothing    == [n \in Node |-> {}]
Pauses     == [n \in Node |-> {"PAUSE"}]
ResetFirst == [n \in Node |-> IF n = BootOrder[1] THEN {"HARD_RESET"} ELSE {}]
Reset3     == [n \in Node |-> IF n = 3 THEN {"HARD_RESET"} ELSE {}]
ResetOrPause == [n \in Node |-> IF n = BootOrder[1] THEN {"PAUSE"} ELSE {"PAUSE", "HARD_RESET"}]

IDs == Node \X (1 .. MaxID)
=============================================================================
