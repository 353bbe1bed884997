----------------------------- MODULE MCTxMemory -----------------------------
(* The networks of MCChordRing with the memory lists of their nodes. *)
EXTENDS MCChordRing, TxMemory
=============================================================================
