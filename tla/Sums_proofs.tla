---------------------------- MODULE Sums_proofs ----------------------------
(***************************************************************************)
(* Induction over sets of naturals, and what it says of sums.               *)
(***************************************************************************)
EXTENDS Sums, WellFoundedInduction, TLAPS

\* A set of naturals that is not empty has a least element.
LEMMA LeastNatural ==
    ASSUME NEW I \in SUBSET Nat, I # {}
    PROVE  \E i \in I : \A j \in I : i <= j
  <1> DEFINE R == OpToRel(<, Nat)
  <1>1. PICK i \in I : \A j \in I : <<j, i>> \notin R
    <2> HIDE DEF R
    <2>1. IsWellFoundedOn(R, Nat)
        BY NatLessThanWellFounded DEF R
    <2> QED
        BY <2>1, WFMin
  <1>2. \A j \in I : ~(j < i)
      BY <1>1 DEF OpToRel
  <1> QED
      BY <1>2

\* Induction, for what can be said of a number by membership in a set.
LEMMA InductionOver ==
    ASSUME NEW S, 0 \in S, \A n \in Nat : n \in S => n + 1 \in S
    PROVE  \A n \in Nat : n \in S
  <1> DEFINE Rest == {n \in Nat : n \notin S}
  <1>1. SUFFICES ASSUME Rest # {} PROVE FALSE
      OBVIOUS
  <1>2. PICK n \in Rest : \A m \in Rest : n <= m
    <2>1. Rest \in SUBSET Nat
        OBVIOUS
    <2> HIDE DEF Rest
    <2> QED
        BY <1>1, <2>1, LeastNatural
  <1>3. n \in Nat /\ n \notin S /\ n # 0
      BY <1>2
  <1>4. n - 1 \in Nat /\ (n - 1) + 1 = n
      BY <1>3
  <1>5. n - 1 \notin S
      BY <1>3, <1>4
  <1>6. n <= n - 1
      BY <1>2, <1>4, <1>5
  <1> QED
      BY <1>3, <1>6

\* g holds the sums of the first n numbers of f.
SumsUp(g, f, n) == /\ g \in [0 .. n -> Nat] /\ g[0] = 0
                   /\ \A i \in 1 .. n : g[i] = g[i - 1] + f[i]

LEMMA SumsExist ==
    ASSUME NEW f, NEW N \in Nat, \A i \in 1 .. N : f[i] \in Nat
    PROVE  \A n \in 0 .. N : \E g : SumsUp(g, f, n)
  <1> DEFINE S == {n \in Nat : n <= N => \E g : SumsUp(g, f, n)}
  <1>1. 0 \in S
    <2>1. SumsUp([i \in 0 .. 0 |-> 0], f, 0)
        BY DEF SumsUp
    <2> QED
        BY <2>1
  <1>2. ASSUME NEW n \in Nat, n \in S PROVE n + 1 \in S
    <2> SUFFICES ASSUME n + 1 <= N PROVE \E g : SumsUp(g, f, n + 1)
        OBVIOUS
    <2>1. PICK g : SumsUp(g, f, n)
        BY <1>2
    <2>2. f[n + 1] \in Nat /\ g[n] \in Nat
        BY <2>1 DEF SumsUp
    <2> DEFINE h == [i \in 0 .. n + 1 |-> IF i = n + 1 THEN g[n] + f[n + 1] ELSE g[i]]
    <2>3. SumsUp(h, f, n + 1)
        BY <2>1, <2>2 DEF SumsUp
    <2> QED
        BY <2>3
  <1> HIDE DEF S
  <1>3. \A n \in Nat : n \in S
      BY <1>1, <1>2, InductionOver
  <1> QED
      BY <1>3 DEF S

\* There is only one way to sum up.
LEMMA SumsAgree ==
    ASSUME NEW f, NEW N \in Nat, NEW n \in Nat, n <= N, NEW g, NEW h,
           SumsUp(g, f, N), SumsUp(h, f, n)
    PROVE  \A i \in 0 .. n : g[i] = h[i]
  <1> DEFINE S == {i \in Nat : i <= n => g[i] = h[i]}
  <1>1. 0 \in S
      BY DEF SumsUp
  <1>2. ASSUME NEW i \in Nat, i \in S PROVE i + 1 \in S
    <2> SUFFICES ASSUME i + 1 <= n PROVE g[i + 1] = h[i + 1]
        OBVIOUS
    <2>1. i + 1 \in 1 .. n /\ i + 1 \in 1 .. N /\ (i + 1) - 1 = i /\ g[i] = h[i]
        BY <1>2
    <2> QED
        BY <2>1 DEF SumsUp
  <1> HIDE DEF S
  <1>3. \A i \in Nat : i \in S
      BY <1>1, <1>2, InductionOver
  <1> QED
      BY <1>3 DEF S

\* SumTo is what its definition says.
LEMMA SumIs ==
    ASSUME NEW f, NEW n \in Nat, \A i \in 1 .. n : f[i] \in Nat
    PROVE  \E g : SumsUp(g, f, n) /\ SumTo(f, n) = g[n]
  <1> DEFINE Sums(g) == g = [i \in 0 .. n |-> IF i = 0 THEN 0 ELSE g[i - 1] + f[i]]
             sum     == CHOOSE g : Sums(g)
  <1>1. PICK h : SumsUp(h, f, n)
      BY SumsExist
  <1>2. Sums(h)
      BY <1>1 DEF SumsUp
  <1>3. Sums(sum)
    <2> HIDE DEF Sums
    <2> QED
        BY <1>2
  <1>4. SumTo(f, n) = sum[n]
      BY DEF SumTo
  <1> HIDE DEF sum
  <1>5. \A i \in 0 .. n : sum[i] = h[i]
    <2> DEFINE S == {i \in Nat : i <= n => sum[i] = h[i]}
    <2>1. sum[0] = 0 /\ \A i \in 1 .. n : sum[i] = sum[i - 1] + f[i]
        BY <1>3
    <2>2. 0 \in S
        BY <1>1, <2>1 DEF SumsUp
    <2>3. ASSUME NEW i \in Nat, i \in S PROVE i + 1 \in S
      <3> SUFFICES ASSUME i + 1 <= n PROVE sum[i + 1] = h[i + 1]
          OBVIOUS
      <3>1. i + 1 \in 1 .. n /\ (i + 1) - 1 = i /\ sum[i] = h[i]
          BY <2>3
      <3> QED
          BY <1>1, <2>1, <3>1 DEF SumsUp
    <2> HIDE DEF S
    <2>4. \A i \in Nat : i \in S
        BY <2>2, <2>3, InductionOver
    <2> QED
        BY <2>4 DEF S
  <1> QED
      BY <1>1, <1>4, <1>5

LEMMA SumStep ==
    ASSUME NEW f, NEW N \in Nat, \A i \in 1 .. N : f[i] \in Nat
    PROVE  /\ SumTo(f, 0) = 0
           /\ \A n \in 0 .. N : SumTo(f, n) \in Nat
           /\ \A n \in 1 .. N : SumTo(f, n) = SumTo(f, n - 1) + f[n]
  <1>1. PICK g : SumsUp(g, f, N)
      BY SumsExist
  <1>2. ASSUME NEW n \in 0 .. N PROVE SumTo(f, n) = g[n]
    <2>1. n \in Nat /\ n <= N /\ \A i \in 1 .. n : f[i] \in Nat
        OBVIOUS
    <2>2. PICK h : SumsUp(h, f, n) /\ SumTo(f, n) = h[n]
        BY <2>1, SumIs
    <2> QED
        BY <1>1, <2>1, <2>2, SumsAgree
  <1> QED
      BY <1>1, <1>2 DEF SumsUp

\* Larger numbers have larger sums.
LEMMA SumGrows ==
    ASSUME NEW f, NEW g, NEW N \in Nat,
           \A i \in 1 .. N : f[i] \in Nat /\ g[i] \in Nat /\ f[i] <= g[i]
    PROVE  SumTo(f, N) <= SumTo(g, N)
  <1> DEFINE S == {n \in Nat : n <= N => SumTo(f, n) <= SumTo(g, n)}
  <1>1. /\ SumTo(f, 0) = 0 /\ SumTo(g, 0) = 0
        /\ \A n \in 0 .. N : SumTo(f, n) \in Nat /\ SumTo(g, n) \in Nat
        /\ \A n \in 1 .. N : /\ SumTo(f, n) = SumTo(f, n - 1) + f[n]
                            /\ SumTo(g, n) = SumTo(g, n - 1) + g[n]
      BY SumStep
  <1>2. 0 \in S
      BY <1>1
  <1>3. ASSUME NEW n \in Nat, n \in S PROVE n + 1 \in S
    <2> SUFFICES ASSUME n + 1 <= N PROVE SumTo(f, n + 1) <= SumTo(g, n + 1)
        OBVIOUS
    <2>1. n + 1 \in 1 .. N /\ (n + 1) - 1 = n /\ n \in 0 .. N /\ SumTo(f, n) <= SumTo(g, n)
        BY <1>3
    <2> QED
        BY <1>1, <2>1
  <1> HIDE DEF S
  <1>4. \A n \in Nat : n \in S
      BY <1>2, <1>3, InductionOver
  <1> QED
      BY <1>4 DEF S

\* Numbers that are the same have the same sum.
LEMMA SumSame ==
    ASSUME NEW f, NEW g, NEW N \in Nat,
           \A i \in 1 .. N : f[i] \in Nat /\ g[i] \in Nat /\ f[i] = g[i]
    PROVE  SumTo(f, N) = SumTo(g, N)
  <1>1. SumTo(f, N) <= SumTo(g, N) /\ SumTo(g, N) <= SumTo(f, N)
      BY SumGrows
  <1>2. SumTo(f, N) \in Nat /\ SumTo(g, N) \in Nat
      BY SumStep
  <1> QED
      BY <1>1, <1>2

\* One more of one of the numbers is one more of the sum.
LEMMA SumOneMore ==
    ASSUME NEW f, NEW g, NEW N \in Nat, NEW k \in 1 .. N,
           \A i \in 1 .. N : f[i] \in Nat /\ g[i] = IF i = k THEN f[i] + 1 ELSE f[i]
    PROVE  SumTo(g, N) = SumTo(f, N) + 1
  <1> DEFINE S == {n \in Nat : n <= N => SumTo(g, n) = SumTo(f, n) + (IF k <= n THEN 1 ELSE 0)}
  <1>1. /\ SumTo(f, 0) = 0 /\ SumTo(g, 0) = 0
        /\ \A n \in 0 .. N : SumTo(f, n) \in Nat /\ SumTo(g, n) \in Nat
        /\ \A n \in 1 .. N : /\ SumTo(f, n) = SumTo(f, n - 1) + f[n]
                            /\ SumTo(g, n) = SumTo(g, n - 1) + g[n]
      BY SumStep
  <1>2. 0 \in S
      BY <1>1
  <1>3. ASSUME NEW n \in Nat, n \in S PROVE n + 1 \in S
    <2> SUFFICES ASSUME n + 1 <= N
                 PROVE  SumTo(g, n + 1) = SumTo(f, n + 1) + (IF k <= n + 1 THEN 1 ELSE 0)
        OBVIOUS
    <2>1. /\ n + 1 \in 1 .. N /\ (n + 1) - 1 = n /\ n \in 0 .. N
          /\ SumTo(g, n) = SumTo(f, n) + (IF k <= n THEN 1 ELSE 0)
        BY <1>3
    <2>2. /\ SumTo(f, n + 1) = SumTo(f, n) + f[n + 1]
          /\ SumTo(g, n + 1) = SumTo(g, n) + g[n + 1]
          /\ SumTo(f, n) \in Nat /\ f[n + 1] \in Nat
          /\ g[n + 1] = IF n + 1 = k THEN f[n + 1] + 1 ELSE f[n + 1]
        BY <1>1, <2>1
    <2> QED
        BY <2>1, <2>2
  <1> HIDE DEF S
  <1>4. \A n \in Nat : n \in S
      BY <1>2, <1>3, InductionOver
  <1> QED
      BY <1>4 DEF S

\* The first of the numbers, and the rest.
LEMMA SumFirst ==
    ASSUME NEW f, NEW g, NEW N \in Nat,
           \A i \in 1 .. N + 1 : f[i] \in Nat, \A i \in 1 .. N : g[i] = f[i + 1]
    PROVE  SumTo(f, N + 1) = f[1] + SumTo(g, N)
  <1> DEFINE S == {n \in Nat : n <= N => SumTo(f, n + 1) = f[1] + SumTo(g, n)}
  <1>1. /\ SumTo(f, 0) = 0 /\ \A n \in 0 .. N + 1 : SumTo(f, n) \in Nat
        /\ \A n \in 1 .. N + 1 : SumTo(f, n) = SumTo(f, n - 1) + f[n]
      BY SumStep
  <1>2. /\ SumTo(g, 0) = 0 /\ \A n \in 0 .. N : SumTo(g, n) \in Nat
        /\ \A n \in 1 .. N : SumTo(g, n) = SumTo(g, n - 1) + g[n]
      BY SumStep
  <1>3. 0 \in S
    <2>1. 1 \in 1 .. N + 1 /\ f[1] \in Nat
        OBVIOUS
    <2> QED
        BY <1>1, <1>2, <2>1
  <1>4. ASSUME NEW n \in Nat, n \in S PROVE n + 1 \in S
    <2> SUFFICES ASSUME n + 1 <= N PROVE SumTo(f, (n + 1) + 1) = f[1] + SumTo(g, n + 1)
        OBVIOUS
    <2>1. /\ n + 1 \in 1 .. N /\ (n + 1) - 1 = n /\ n \in 0 .. N
          /\ (n + 1) + 1 \in 1 .. N + 1 /\ ((n + 1) + 1) - 1 = n + 1
          /\ SumTo(f, n + 1) = f[1] + SumTo(g, n)
        BY <1>4
    <2>2. /\ SumTo(f, (n + 1) + 1) = SumTo(f, n + 1) + f[(n + 1) + 1]
          /\ SumTo(g, n + 1) = SumTo(g, n) + g[n + 1]
          /\ g[n + 1] = f[(n + 1) + 1]
        BY <1>1, <1>2, <2>1
    <2>3. f[1] \in Nat /\ f[(n + 1) + 1] \in Nat /\ SumTo(g, n) \in Nat
        BY <1>2, <2>1
    <2> QED
        BY <2>1, <2>2, <2>3
  <1> HIDE DEF S
  <1>5. \A n \in Nat : n \in S
      BY <1>3, <1>4, InductionOver
  <1> QED
      BY <1>5 DEF S
=============================================================================
