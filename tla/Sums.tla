-------------------------------- MODULE Sums --------------------------------
(***************************************************************************)
(* Sums of numbers in order, as a recursive function.                       *)
(***************************************************************************)
EXTENDS Integers, Sequences

\* f[1] + ... + f[n]
SumTo(f, n) ==
    LET sum[i \in 0 .. n] == IF i = 0 THEN 0 ELSE sum[i - 1] + f[i]
    IN  sum[n]
=============================================================================
