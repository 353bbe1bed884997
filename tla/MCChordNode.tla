--------------------------- MODULE MCChordNode ---------------------------
(* A joining node 0 with two possible peers on a circle of four identifiers. *)
EXTENDS ChordNode, TLC

CONSTANTS o1, o2, o3, f1      \* message identifiers, o* given out by Self

Mask == [i \in FingerIndex |-> 2^i]
Seed == [n \in Node |-> IF n = Self THEN <<2>> ELSE <<0>>]

\* Two entries in the list of seeds, so that m_currSeed moves.
Seeds == [n \in Node |-> IF n = Self THEN <<2, 2>> ELSE <<0>>]

\* The identifiers Self gives out are only ever compared for equality.
OwnIDSymmetry == Permutations({o1, o2, o3})
=============================================================================
