----------------------------- MODULE MCLookup -----------------------------
(* All small rings; every identifier may be a node. *)
EXTENDS Lookup

AllIds == 0 .. MAX_UINT160
Mask   == [i \in FingerIndex |-> 2^i]
Seed   == [n \in Node |-> <<>>]
=============================================================================
