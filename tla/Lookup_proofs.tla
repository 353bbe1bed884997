---------------------------- MODULE Lookup_proofs ----------------------------
(***************************************************************************)
(* The walker of RingWalk, and on it the lookup: in a ring of any size, on   *)
(* a circle of any size, a lookup and a JOIN are answered with the owner of  *)
(* the identifier, and with fingers that are right within as many hops as    *)
(* there are fingers.                                                        *)
(***************************************************************************)
EXTENDS Lookup, LowLatencyChord_proofs

-----------------------------------------------------------------------------
(* The walk: the range tests of inc.cpp are right on a circle of any size.   *)

\* One step further the arc is longer by the identifier stepped on.
LEMMA ArcGrows ==
    ASSUME NEW id \in IdSpace, NEW a \in IdSpace, NEW b \in IdSpace,
           Plus(b, 1) # a
    PROVE  OnArc(id, a, Plus(b, 1)) <=> OnArc(id, a, b) \/ id = Plus(b, 1)
  BY MaxAssumption DEF OnArc, Dist, Plus, IdSpace, IdCount

\* The inductive invariant: what has been visited is the arc walked.
Arc == {id \in IdSpace : OnArc(id, from, at)}
WalkInv == TypeOK /\ visited = Arc

\* The walk starts on an arc of one identifier.
LEMMA InitWalkInv == Init => WalkInv
  <1> SUFFICES ASSUME Init PROVE WalkInv
      OBVIOUS
  <1>1. TypeOK
      BY DEF Init, TypeOK
  <1>2. \A id \in IdSpace : OnArc(id, from, from) <=> id = from
      BY <1>1, MaxAssumption DEF TypeOK, OnArc, Dist, IdSpace, IdCount
  <1>3. visited = Arc
      BY <1>1, <1>2 DEF Init, Arc, TypeOK
  <1> QED
      BY <1>1, <1>3 DEF WalkInv

\* Every step lengthens the arc by the identifier stepped on.
LEMMA StepWalkInv == WalkInv /\ [Next]_vars => WalkInv'
  <1> SUFFICES ASSUME WalkInv, [Next]_vars PROVE WalkInv'
      OBVIOUS
  <1>1. CASE Walk
    <2>1. from \in IdSpace /\ at \in IdSpace /\ at' = Plus(at, 1) /\ from' = from
        BY <1>1 DEF Walk, WalkInv, TypeOK
    <2>2. at' \in IdSpace /\ Plus(at, 1) # from
        BY <1>1, <2>1, MaxAssumption DEF Walk, Plus, IdSpace, IdCount
    <2>3. \A id \in IdSpace : OnArc(id, from', at') <=> OnArc(id, from, at) \/ id = at'
        BY <2>1, <2>2, ArcGrows
    <2>4. visited' = Arc'
        BY <1>1, <2>2, <2>3 DEF Walk, WalkInv, Arc
    <2>5. TypeOK'
        BY <1>1, <2>1, <2>2 DEF Walk, WalkInv, TypeOK
    <2> QED
        BY <2>4, <2>5 DEF WalkInv
  <1>2. CASE UNCHANGED vars
      BY <1>2 DEF WalkInv, TypeOK, Arc, vars
  <1> QED
      BY <1>1, <1>2 DEF Next

\* isInRangeOverZero is the set of identifiers walked over, for every size of
\* the circle.
LEMMA WalkInvImpliesRange == WalkInv => WalkedIsInRange
  BY RangeIsArc DEF WalkInv, TypeOK, WalkedIsInRange, Arc

\* The same for the open test.
LEMMA WalkInvImpliesInside == WalkInv => InsideIsInRangeNotInc
  <1> SUFFICES ASSUME WalkInv, NEW id \in IdSpace
               PROVE  isInRangeOverZeroNotInc(id, from, at) <=>
                          IF at = from THEN id # from ELSE id \in visited \ {from, at}
      BY DEF InsideIsInRangeNotInc
  <1>1. from \in IdSpace /\ at \in IdSpace /\ (id \in visited <=> OnArc(id, from, at))
      BY DEF WalkInv, TypeOK, Arc
  <1>2. InsideArc(id, from, at) <=>
            IF at = from THEN id # from ELSE OnArc(id, from, at) /\ id # from /\ id # at
      BY <1>1, MaxAssumption DEF InsideArc, OnArc, Dist, IdSpace, IdCount
  <1> QED
      BY <1>1, <1>2, OpenRangeIsInside

\* The walker stays on the circle.
THEOREM WalkTypeCorrect == Spec => []TypeOK
  <1>1. WalkInv => TypeOK
      BY DEF WalkInv
  <1> QED
      BY <1>1, InitWalkInv, StepWalkInv, PTL DEF Spec

\* On a circle of any size isInRangeOverZero(id, from, to) holds exactly of the
\* identifiers met on the way clockwise from `from' to `to'.
THEOREM RangeCorrect == Spec => []WalkedIsInRange
  BY InitWalkInv, StepWalkInv, WalkInvImpliesRange, PTL DEF Spec

\* On a circle of any size isInRangeOverZeroNotInc(id, from, to) holds exactly
\* of the identifiers met strictly in between, and of all others when from = to.
THEOREM OpenRangeCorrect == Spec => []InsideIsInRangeNotInc
  BY InitWalkInv, StepWalkInv, WalkInvImpliesInside, PTL DEF Spec
-----------------------------------------------------------------------------
(* The ring: who comes before and after a node, and who owns an identifier.  *)

\* Among some nodes one is nearest, whichever way the distance is taken.
LEMMA NearestExists ==
    ASSUME NEW S \in SUBSET IdSpace, S # {}, NEW n \in IdSpace
    PROVE  /\ \E p \in S : \A m \in S : Dist(p, n) <= Dist(m, n)
           /\ \E p \in S : \A m \in S : Dist(n, p) <= Dist(n, m)
  <1>1. \A m \in S : Dist(m, n) \in Nat /\ Dist(n, m) \in Nat
      BY MaxAssumption DEF Dist, IdSpace, IdCount
  <1>2. \E p \in S : \A m \in S : Dist(p, n) <= Dist(m, n)
    <2> DEFINE D == {Dist(m, n) : m \in S}
    <2>1. D \in SUBSET Nat /\ D # {}
        BY <1>1
    <2>2. PICK d \in D : \A e \in D : d <= e
      <3> HIDE DEF D
      <3> QED
          BY <2>1, LeastNatural
    <2>3. PICK p \in S : d = Dist(p, n)
        BY <2>2
    <2>4. \A m \in S : Dist(m, n) \in D
        OBVIOUS
    <2> HIDE DEF D
    <2> QED
        BY <2>2, <2>3, <2>4
  <1>3. \E p \in S : \A m \in S : Dist(n, p) <= Dist(n, m)
    <2> DEFINE D == {Dist(n, m) : m \in S}
    <2>1. D \in SUBSET Nat /\ D # {}
        BY <1>1
    <2>2. PICK d \in D : \A e \in D : d <= e
      <3> HIDE DEF D
      <3> QED
          BY <2>1, LeastNatural
    <2>3. PICK p \in S : d = Dist(n, p)
        BY <2>2
    <2>4. \A m \in S : Dist(n, m) \in D
        OBVIOUS
    <2> HIDE DEF D
    <2> QED
        BY <2>2, <2>3, <2>4
  <1> QED
      BY <1>2, <1>3

\* Before and After are the nearest other nodes, and the node itself when it is alone.
LEMMA Neighbours ==
    ASSUME ring \subseteq Node, NEW n \in ring
    PROVE  /\ Before(n) \in ring /\ After(n) \in ring
           /\ Before(n) \in IdSpace /\ After(n) \in IdSpace
           /\ Before(n) = n => ring = {n}
           /\ After(n) = n => ring = {n}
           /\ \A m \in ring : m # n => /\ Dist(Before(n), n) <= Dist(m, n)
                                       /\ Dist(n, After(n)) <= Dist(n, m)
  <1>1. ring \subseteq IdSpace
      BY NodeAssumption
  <1>2. CASE ring = {n}
      BY <1>1, <1>2 DEF Before, After
  <1>3. CASE ring # {n}
    <2>1. ring \ {n} # {} /\ ring \ {n} \in SUBSET IdSpace /\ n \in IdSpace
        BY <1>1, <1>3
    <2>2. /\ Before(n) \in ring \ {n}
          /\ \A m \in ring \ {n} : Dist(Before(n), n) <= Dist(m, n)
      <3>1. \E p \in ring \ {n} : \A m \in ring \ {n} : Dist(p, n) <= Dist(m, n)
          BY <2>1, NearestExists
      <3> QED
          BY <1>3, <3>1 DEF Before
    <2>3. /\ After(n) \in ring \ {n}
          /\ \A m \in ring \ {n} : Dist(n, After(n)) <= Dist(n, m)
      <3>1. \E p \in ring \ {n} : \A m \in ring \ {n} : Dist(n, p) <= Dist(n, m)
          BY <2>1, NearestExists
      <3> QED
          BY <1>3, <3>1 DEF After
    <2> QED
        BY <1>1, <2>2, <2>3
  <1> QED
      BY <1>2, <1>3

\* o is the node that owns the identifier x: the first one met from there.
Owns(o, x) == o \in ring /\ \A m \in ring : Dist(x, o) <= Dist(x, m)

\* Every identifier has exactly one owner.
LEMMA OneOwner ==
    ASSUME ring \subseteq Node, ring # {}, NEW x \in IdSpace
    PROVE  /\ \E o \in ring : Owns(o, x)
           /\ \A o, p : Owns(o, x) /\ Owns(p, x) => o = p
  <1>1. ring \in SUBSET IdSpace
      BY NodeAssumption
  <1>2. \E o \in ring : Owns(o, x)
      BY <1>1, NearestExists DEF Owns
  <1>3. ASSUME NEW o, NEW p, Owns(o, x), Owns(p, x) PROVE o = p
    <2>1. o \in IdSpace /\ p \in IdSpace /\ Dist(x, o) <= Dist(x, p) /\ Dist(x, p) <= Dist(x, o)
        BY <1>1, <1>3 DEF Owns
    <2> QED
        BY <2>1, MaxAssumption DEF Dist, IdSpace, IdCount
  <1> QED
      BY <1>2, <1>3

\* A node that is the identifier owns it.
LEMMA OwnsItself ==
    ASSUME ring \subseteq Node, NEW n \in ring
    PROVE  Owns(n, n)
  <1>1. ring \subseteq IdSpace
      BY NodeAssumption
  <1> QED
      BY <1>1, MaxAssumption DEF Owns, Dist, IdSpace, IdCount

\* From a node on, up to the next one, the next one owns every identifier; and what a
\* node owns lies after the node before it.
LEMMA OwnsUpTo ==
    ASSUME ring \subseteq Node, NEW n \in ring, NEW x \in IdSpace
    PROVE  /\ OnArc(x, n, After(n)) /\ x # n => Owns(After(n), x)
           /\ OnArc(x, Before(n), n) /\ x # Before(n) => Owns(n, x)
           /\ Owns(n, x) /\ ring # {n} => OnArc(x, Before(n), n) /\ x # Before(n)
  <1>1. ring \subseteq IdSpace /\ n \in IdSpace
      BY NodeAssumption
  <1>2. ASSUME OnArc(x, n, After(n)), x # n PROVE Owns(After(n), x)
    <2>1. After(n) \in ring /\ After(n) \in IdSpace
        BY Neighbours
    <2>2. ASSUME NEW m \in ring PROVE Dist(x, After(n)) <= Dist(x, m)
      <3>1. m \in IdSpace /\ (m # n => Dist(n, After(n)) <= Dist(n, m))
          BY <1>1, Neighbours
      <3> QED
          BY <1>1, <1>2, <2>1, <3>1, MaxAssumption DEF OnArc, Dist, IdSpace, IdCount
    <2> QED
        BY <2>1, <2>2 DEF Owns
  <1>3. ASSUME OnArc(x, Before(n), n), x # Before(n) PROVE Owns(n, x)
    <2>1. Before(n) \in IdSpace
        BY Neighbours
    <2>2. ASSUME NEW m \in ring PROVE Dist(x, n) <= Dist(x, m)
      <3>1. m \in IdSpace /\ (m # n => Dist(Before(n), n) <= Dist(m, n))
          BY <1>1, Neighbours
      <3> QED
          BY <1>1, <1>3, <2>1, <3>1, MaxAssumption DEF OnArc, Dist, IdSpace, IdCount
    <2> QED
        BY <2>2 DEF Owns
  <1>4. ASSUME Owns(n, x), ring # {n} PROVE OnArc(x, Before(n), n) /\ x # Before(n)
    <2>1. Before(n) \in IdSpace /\ Before(n) # n /\ Dist(x, n) <= Dist(x, Before(n))
        BY <1>4, Neighbours DEF Owns
    <2> QED
        BY <1>1, <2>1, MaxAssumption DEF OnArc, Dist, IdSpace, IdCount
  <1> QED
      BY <1>2, <1>3, <1>4

\* After undoes Before.
LEMMA AfterBefore ==
    ASSUME ring \subseteq Node, NEW n \in ring
    PROVE  After(Before(n)) = n
  <1>1. ring \subseteq IdSpace
      BY NodeAssumption
  <1> DEFINE p == Before(n)
  <1>2. p \in ring /\ (p = n => ring = {n}) /\ \A m \in ring : m # n => Dist(p, n) <= Dist(m, n)
      BY Neighbours
  <1>3. CASE p = n
      BY <1>2, <1>3 DEF After
  <1>4. CASE p # n
    <2> DEFINE q == After(p)
    <2>1. /\ q \in ring /\ (q = p => ring = {p})
          /\ \A m \in ring : m # p => Dist(p, q) <= Dist(p, m)
      <3> HIDE DEF p
      <3> QED
          BY <1>2, Neighbours
    <2> HIDE DEF p, q
    <2>2. q # p /\ Dist(p, q) <= Dist(p, n) /\ (q # n => Dist(p, n) <= Dist(q, n))
        BY <1>2, <1>4, <2>1
    <2>3. p \in IdSpace /\ q \in IdSpace /\ n \in IdSpace
        BY <1>1, <1>2, <2>1
    <2>4. q = n
        BY <2>2, <2>3, MaxAssumption DEF Dist, IdSpace, IdCount
    <2> QED
        BY <2>4 DEF p, q
  <1> QED
      BY <1>3, <1>4

\* The least and the greatest of some identifiers.
LEMMA MinMaxExist ==
    ASSUME NEW S \in SUBSET IdSpace, S # {}
    PROVE  /\ M!Min(S) \in S /\ \A y \in S : M!Min(S) <= y
           /\ M!Max(S) \in S
  <1>1. \E x \in S : \A y \in S : x <= y
    <2>1. S \in SUBSET Nat
        BY MaxAssumption DEF IdSpace
    <2> QED
        BY <2>1, LeastNatural
  <1>2. \E x \in S : \A y \in S : x >= y
    <2> DEFINE J == {MAX_UINT160 - y : y \in S}
    <2>1. J \in SUBSET Nat /\ J # {}
      <3>1. \A y \in S : MAX_UINT160 - y \in Nat
          BY MaxAssumption DEF IdSpace
      <3> QED
          BY <3>1
    <2>2. PICK k \in J : \A l \in J : k <= l
      <3> HIDE DEF J
      <3> QED
          BY <2>1, LeastNatural
    <2>3. PICK x \in S : k = MAX_UINT160 - x
        BY <2>2
    <2>4. ASSUME NEW y \in S PROVE x >= y
      <3>1. MAX_UINT160 - x <= MAX_UINT160 - y
          BY <2>2, <2>3
      <3> QED
          BY <3>1, MaxAssumption DEF IdSpace
    <2> QED
        BY <2>4
  <1> QED
      BY <1>1, <1>2 DEF M!Min, M!Max

\* The neighbour in the monitor's sorted vector is the next node of the ring.
LEMMA NextIsAfter ==
    ASSUME ring \subseteq Node, NEW a \in ring
    PROVE  M!nextAddr(ring, a) = After(a)
  <1>1. ring \in SUBSET IdSpace /\ a \in IdSpace
      BY NodeAssumption
  <1> DEFINE greater == {b \in ring : b > a}
             b       == M!nextAddr(ring, a)
             c       == After(a)
  <1>2. /\ c \in ring /\ (c = a => ring = {a})
        /\ \A m \in ring : m # a => Dist(a, c) <= Dist(a, m)
      BY Neighbours
  <1>3. b \in ring /\ (b = a => ring = {a}) /\ \A m \in ring : m # a => Dist(a, b) <= Dist(a, m)
    <2>1. CASE greater = {}
      <3>1. b = M!Min(ring) /\ b \in ring /\ \A y \in ring : b <= y
          BY <1>1, <2>1, MinMaxExist DEF M!nextAddr
      <3>2. \A m \in ring : m <= a
          BY <1>1, <2>1, MaxAssumption DEF IdSpace
      <3> HIDE DEF b, greater
      <3>3. b \in IdSpace
          BY <1>1, <3>1
      <3>4. ASSUME NEW m \in ring PROVE (b = a => m = a) /\ (m # a => Dist(a, b) <= Dist(a, m))
        <4>1. m \in IdSpace /\ b <= m /\ m <= a
            BY <1>1, <3>1, <3>2
        <4> QED
            BY <1>1, <3>3, <4>1, MaxAssumption DEF Dist, IdSpace, IdCount
      <3> QED
          BY <3>1, <3>4
    <2>2. CASE greater # {}
      <3>1. greater \in SUBSET IdSpace
          BY <1>1
      <3>2. b = M!Min(greater)
          BY <2>2 DEF M!nextAddr
      <3>3. b \in greater /\ \A y \in greater : b <= y
        <4> HIDE DEF greater, b
        <4> QED
            BY <2>2, <3>1, <3>2, MinMaxExist
      <3>4. b \in ring /\ b > a
          BY <3>3
      <3>5. ASSUME NEW m \in ring, m # a PROVE Dist(a, b) <= Dist(a, m)
        <4>1. m > a => b <= m
            BY <3>3
        <4> HIDE DEF b
        <4> QED
            BY <1>1, <3>4, <3>5, <4>1, MaxAssumption DEF Dist, IdSpace, IdCount
      <3> HIDE DEF b
      <3> QED
          BY <1>1, <3>4, <3>5, MaxAssumption DEF IdSpace
    <2> QED
        BY <2>1, <2>2
  <1> HIDE DEF b, c
  <1>4. b = c
    <2>1. b \in IdSpace /\ c \in IdSpace
        BY <1>1, <1>2, <1>3
    <2>2. CASE b = a \/ c = a
        BY <1>2, <1>3, <2>2
    <2>3. CASE b # a /\ c # a
        BY <1>1, <1>2, <1>3, <2>1, <2>3, MaxAssumption DEF Dist, IdSpace, IdCount
    <2> QED
        BY <2>2, <2>3
  <1> QED
      BY <1>4 DEF b, c

\* The monitor's reference for a finger is the owner of the identifier it starts at.
LEMMA ReferenceOwns ==
    ASSUME ring \subseteq Node, NEW n \in ring, NEW i \in FingerIndex
    PROVE  Owns(M!genRefFingers(ring, n)[i], FingerStart(n, i))
  <1> DEFINE x     == FingerStart(n, i)
             found == {a \in ring : a = x \/ isInRangeOverZero(x, a, After(a))}
  <1>1. ring \in SUBSET IdSpace /\ n \in IdSpace
      BY NodeAssumption
  <1>2. x \in IdSpace
      BY <1>1, FingersAssumption, PlusMinusType DEF FingerStart
  <1>3. M!genRefFingers(ring, n)[i] =
            IF found = {} THEN n ELSE IF M!Max(found) = x THEN x
                                 ELSE M!nextAddr(ring, M!Max(found))
    <2>1. i \in 0 .. FingersSize - 1
        BY DEF FingerIndex
    <2>2. M!Plus(n, FingerMask[i]) = x
        BY DEF M!Plus, Plus, M!IdCount, IdCount, FingerStart
    <2>3. found = {a \in ring : a = x \/ M!isInRangeOverZero(x, a, M!nextAddr(ring, a))}
      <3>1. ASSUME NEW a \in ring
            PROVE  isInRangeOverZero(x, a, After(a))
                       <=> M!isInRangeOverZero(x, a, M!nextAddr(ring, a))
          BY NextIsAfter DEF isInRangeOverZero, M!isInRangeOverZero
      <3> HIDE DEF x
      <3> QED
          BY <3>1
    <2> HIDE DEF found, x
    <2> QED
        BY <2>1, <2>2, <2>3 DEF M!genRefFingers
  <1> HIDE DEF x
  <1>4. ASSUME NEW a \in found, a # x PROVE a \in ring /\ Owns(After(a), x)
    <2>1. a \in ring /\ isInRangeOverZero(x, a, After(a))
        BY <1>4
    <2>2. OnArc(x, a, After(a))
        BY <1>1, <1>2, <2>1, Neighbours, RangeIsArc
    <2> QED
        BY <1>2, <1>4, <2>1, <2>2, OwnsUpTo
  <1>5. ASSUME found = {} PROVE Owns(M!genRefFingers(ring, n)[i], x)
    <2>1. PICK o \in ring : Owns(o, x)
        BY <1>1, <1>2, OneOwner
    <2>2. ring = {o}
      <3> SUFFICES ASSUME ring # {o} PROVE FALSE
          OBVIOUS
      <3>1. OnArc(x, Before(o), o) /\ Before(o) \in ring /\ Before(o) \in IdSpace
          BY <1>2, <2>1, OwnsUpTo, Neighbours
      <3>2. isInRangeOverZero(x, Before(o), After(Before(o)))
          BY <1>1, <1>2, <3>1, AfterBefore, RangeIsArc
      <3> QED
          BY <1>5, <3>1, <3>2
    <2> QED
        BY <1>3, <1>5, <2>1, <2>2
  <1>6. ASSUME found # {} PROVE Owns(M!genRefFingers(ring, n)[i], x)
    <2>1. M!Max(found) \in found
      <3>1. found \in SUBSET IdSpace
          BY <1>1
      <3> HIDE DEF found
      <3> QED
          BY <1>6, <3>1, MinMaxExist
    <2>2. CASE M!Max(found) = x
      <3>1. x \in ring
          BY <2>1, <2>2
      <3> HIDE DEF found
      <3> QED
          BY <1>3, <1>6, <2>2, <3>1, OwnsItself
    <2>3. CASE M!Max(found) # x
      <3> HIDE DEF found
      <3>1. M!Max(found) \in ring /\ Owns(After(M!Max(found)), x)
          BY <1>4, <2>1, <2>3
      <3> QED
          BY <1>3, <1>6, <2>3, <3>1, NextIsAfter
    <2> QED
        BY <2>2, <2>3
  <1> QED
      BY <1>5, <1>6 DEF x

-----------------------------------------------------------------------------
(* What a node of the ring does with a request.                              *)

\* A node of the ring before it handles a request: it has nothing to send, knows
\* its neighbours, and its fingers are nodes of the ring.
Serves(s, n) ==
    /\ s \in NodeState /\ s.id = n /\ s.state = "IDLE" /\ s.tx = <<>>
    /\ s.seedAddrs = <<n>> /\ s.currSeed = 0
    /\ s.predecessor = Before(n) /\ s.successor = After(n)
    /\ \A i \in FingerIndex : s.cwFingers[i] \in ring

\* So is every node Lookup asks; with exact fingers it knows their owners.
LEMMA StatesServe ==
    ASSUME ring \subseteq Node, NEW n \in ring, NEW s \in States(n)
    PROVE  /\ Serves(s, n)
           /\ exact => \A i \in FingerIndex : Owns(s.cwFingers[i], FingerStart(n, i))
  <1> DEFINE j == Joined(n, After(n))
  <1>1. n \in Node /\ Before(n) \in ring /\ After(n) \in ring /\ 0 \in FingerIndex
      BY Neighbours, FingerZero
  <1>2. ConfSeed[n] \in Seq(Node) /\ <<n>> \in Seq(Node) /\ <<>> \in Seq(Message)
      BY <1>1, SeedAssumption
  <1>3. Off(n) \in NodeState
      BY <1>1, <1>2 DEF Off, NodeState
  <1>4. /\ j \in NodeState /\ j.id = n /\ j.state = "IDLE" /\ j.tx = <<>>
        /\ j.seedAddrs = <<n>> /\ j.currSeed = 0
        /\ j.predecessor = Before(n) /\ j.successor = After(n)
    <2>1. [i \in FingerIndex |-> After(n)] \in [FingerIndex -> Node]
        BY <1>1
    <2>2. Off(n).id = n /\ Off(n).tx = <<>> /\ Off(n).currSeed = 0
        BY DEF Off
    <2> QED
        BY <1>1, <1>2, <1>3, <2>1, <2>2 DEF Joined, NodeState
  <1>5. PICK f \in Tables(n, j.successor) : s = [j EXCEPT !.cwFingers = f]
      BY DEF States
  <1> HIDE DEF j
  <1>6. /\ f \in [FingerIndex -> ring]
        /\ exact => \A i \in FingerIndex : Owns(f[i], FingerStart(n, i))
    <2>1. CASE exact
      <3>1. f = M!genRefFingers(ring, n)
          BY <2>1 DEF Tables
      <3>2. f = [i \in FingerIndex |-> f[i]]
          BY <3>1 DEF M!genRefFingers, FingerIndex
      <3>3. \A i \in FingerIndex : Owns(f[i], FingerStart(n, i))
          BY <3>1, ReferenceOwns
      <3>4. \A i \in FingerIndex : f[i] \in ring
          BY <3>3 DEF Owns
      <3> QED
          BY <3>2, <3>3, <3>4
    <2>2. CASE ~exact
        BY <2>2 DEF Tables
    <2> QED
        BY <2>1, <2>2
  <1>7. s.cwFingers = f /\ s \in NodeState
      BY <1>4, <1>5, <1>6 DEF NodeState
  <1> QED
      BY <1>4, <1>5, <1>6, <1>7 DEF Serves, NodeState

\* A second message follows the first.
LEMMA AppendToOne ==
    ASSUME NEW a, NEW b
    PROVE  Append(<<>>, b) = <<b>> /\ Append(<<a>>, b) = <<a, b>>
  <1>1. <<>> \in Seq({a, b}) /\ <<a>> \in Seq({a, b}) /\ b \in {a, b}
      OBVIOUS
  <1>2. Append(<<a>>, b) = <<a, b>>
    <2> DEFINE q == Append(<<a>>, b)
    <2>1. q \in Seq({a, b}) /\ Len(q) = 2 /\ q[1] = a /\ q[2] = b
        BY <1>1
    <2>2. <<a, b>> \in Seq({a, b})
        OBVIOUS
    <2> HIDE DEF q
    <2>3. q = <<a, b>>
        BY <2>1, <2>2
    <2> QED
        BY <2>3 DEF q
  <1>3. Append(<<>>, b) = <<b>>
      BY <1>1
  <1> QED
      BY <1>2, <1>3

\* Of what a handler sends the request is what is no ACK.
LEMMA SentIs ==
    ASSUME NEW s, NEW ack, ack.type = "ACK", NEW m, m.type # "ACK"
    PROVE  /\ s.tx = <<>> \/ s.tx = <<ack>> => Sent(s) = Dropped
           /\ s.tx = <<m>> \/ s.tx = <<ack, m>> => Sent(s) = m
  <1> DEFINE others == {i \in DOMAIN s.tx : s.tx[i].type # "ACK"}
  <1>1. ASSUME s.tx = <<>> \/ s.tx = <<ack>> PROVE Sent(s) = Dropped
    <2>1. others = {}
        BY <1>1
    <2> QED
        BY <2>1 DEF Sent
  <1>2. ASSUME s.tx = <<m>> \/ s.tx = <<ack, m>> PROVE Sent(s) = m
    <2>1. others # {} /\ \A i \in others : s.tx[i] = m
        BY <1>2
    <2> HIDE DEF others
    <2>2. (CHOOSE i \in others : TRUE) \in others
        BY <2>1
    <2> QED
        BY <2>1, <2>2 DEF Sent, others
  <1> QED
      BY <1>1, <1>2

\* The request as a node passes it on.
PassedOn(n, m, addr) ==
    [m EXCEPT !.type = "FIND_SUCCESSOR", !.src = n, !.dest = addr,
              !.service = n, !.retransmitCounter = @ + 1]

\* A request is dropped beyond the hop limit, answered to its initiator or passed on,
\* and nothing is ever sent to the node itself.
LEMMA Handled ==
    ASSUME ring \subseteq Node, NEW n \in ring, NEW asked, Serves(asked, n),
           NEW m \in Message, m.type = "JOIN" \/ m.type = "FIND_SUCCESSOR",
           NEW s \in received(asked, m, mid)
    PROVE  LET found == findSuccessor(asked, m.searched, m.src, m.initiator, m.isJoin)
           IN  Sent(s) = IF ~isAddrValid(m) THEN Dropped
                         ELSE IF found.action = "REPLY"
                         THEN IF m.initiator = n THEN Dropped
                              ELSE createSuccessorMessage(asked, m, found.found)
                         ELSE IF found.found = n THEN Dropped
                              ELSE PassedOn(n, m, found.found)
  <1> DEFINE ack   == createAckMessage(asked, m)
             acked == sendMessage(asked, ack)
             found == findSuccessor(asked, m.searched, m.src, m.initiator, m.isJoin)
             reply == createSuccessorMessage(asked, m, found.found)
  <1>1. CASE ~isAddrValid(m)
    <2>1. s = asked /\ s.tx = <<>>
        BY <1>1 DEF received, Serves
    <2> QED
        BY <1>1, <2>1 DEF Sent
  <1>2. CASE isAddrValid(m)
    <2>1. s = rxFindSuccessor(asked, m)
        BY <1>2 DEF received, Serves
    <2>2. learnSeed(asked, m) = asked
      <3>1. asked.seedAddrs # <<>>
          BY DEF Serves
      <3> QED
          BY <3>1 DEF learnSeed
    <2>3. /\ acked \in NodeState /\ acked.id = n
          /\ acked.predecessor = asked.predecessor /\ acked.successor = asked.successor
          /\ acked.cwFingers = asked.cwFingers
          /\ acked.tx = <<>> \/ acked.tx = <<ack>>
          /\ ack.type = "ACK"
      <3>1. n \in Node /\ n \in IdSpace
          BY NodeAssumption
      <3>2. ack \in Message
          BY <3>1 DEF Serves, createAckMessage, createMessage, Message, MessageType
      <3>3. Append(asked.tx, ack) = <<ack>> /\ <<ack>> \in Seq(Message)
          BY <3>2 DEF Serves
      <3>4. ack.type = "ACK"
          BY DEF createAckMessage, createMessage
      <3> HIDE DEF ack
      <3> QED
          BY <3>3, <3>4 DEF Serves, NodeState, sendMessage
    <2>4. findSuccessor(acked, m.searched, m.src, m.initiator, m.isJoin) = found
        BY <2>3 DEF findSuccessor, Serves
    <2>5. createSuccessorMessage(acked, m, found.found) = reply
        BY <2>3 DEF createSuccessorMessage, createMessage, Serves
    <2>6. s = IF found.action = "REPLY" THEN replyFindSuccessor(acked, m, found.found)
                                        ELSE forwardFindSuccessor(acked, m, found.found)
        BY <2>1, <2>2, <2>4 DEF rxFindSuccessor
    <2> HIDE DEF ack, acked, found
    <2>7. CASE found.action = "REPLY"
      <3> DEFINE replied == sendMessage(acked, reply)
      <3>1. reply.type = "SUCCESSOR" /\ reply.dest = m.initiator
          BY DEF createSuccessorMessage, createMessage
      <3>2. /\ m.initiator = n => replied.tx = acked.tx
            /\ m.initiator # n => replied.tx = Append(acked.tx, reply)
            /\ \A f \in DOMAIN acked : f # "tx" => replied[f] = acked[f]
            /\ DOMAIN replied = DOMAIN acked
          BY <2>3, <3>1 DEF sendMessage, NodeState
      <3>3. s.tx = replied.tx
        <4>1. s = IF m.isJoin THEN adoptJoiner(replied, m) ELSE replied
            BY <2>5, <2>6, <2>7 DEF replyFindSuccessor
        <4> HIDE DEF replied, reply
        <4>2. \A f \in DOMAIN acked : f = "tx" \/ replied[f] = acked[f]
            BY <3>2
        <4>3. adoptJoiner(replied, m).tx = replied.tx
          <5>1. "tx" \in DOMAIN replied /\ "isNowStabilize" \in DOMAIN replied
              BY <2>3, <3>2 DEF NodeState
          <5> QED
              BY <5>1 DEF adoptJoiner, setPredecessor, setSuccessorRemoveTimers, removeTimers
        <4> QED
            BY <4>1, <4>3
      <3> HIDE DEF replied, reply
      <3>4. m.initiator # n => s.tx = <<reply>> \/ s.tx = <<ack, reply>>
        <4>1. Append(<<>>, reply) = <<reply>> /\ Append(<<ack>>, reply) = <<ack, reply>>
            BY AppendToOne
        <4> QED
            BY <2>3, <3>2, <3>3, <4>1
      <3>5. m.initiator = n => s.tx = <<>> \/ s.tx = <<ack>>
          BY <2>3, <3>2, <3>3
      <3>6. Sent(s) = IF m.initiator = n THEN Dropped ELSE reply
          BY <2>3, <3>1, <3>4, <3>5, SentIs
      <3> QED
          BY <1>2, <2>7, <3>6 DEF found, reply
    <2>8. CASE found.action # "REPLY"
      <3> DEFINE fwd == PassedOn(n, m, found.found)
                 sent == sendMessage(acked, fwd)
      <3>1. fwd.type = "FIND_SUCCESSOR" /\ fwd.dest = found.found
          BY DEF PassedOn, Message
      <3>2. s = IF found.found = n THEN [acked EXCEPT !.isNowUpdate = FALSE]
                ELSE pushTimers(sent, {"RX_ACK"}, fwd, 0)
          BY <2>3, <2>6, <2>8 DEF forwardFindSuccessor, PassedOn
      <3> HIDE DEF fwd
      <3>3. CASE found.found = n
        <4>1. s.tx = acked.tx
            BY <2>3, <3>2, <3>3 DEF NodeState
        <4>2. Sent(s) = Dropped
            BY <2>3, <3>1, <4>1, SentIs
        <4> QED
            BY <1>2, <2>8, <3>3, <4>2 DEF found
      <3>4. CASE found.found # n
        <4>1. s.tx = Append(acked.tx, fwd)
            BY <2>3, <3>1, <3>2, <3>4 DEF NodeState, sendMessage, pushTimers
        <4>2. Append(<<>>, fwd) = <<fwd>> /\ Append(<<ack>>, fwd) = <<ack, fwd>>
            BY AppendToOne
        <4>3. Sent(s) = fwd
            BY <2>3, <3>1, <4>1, <4>2, SentIs
        <4> QED
            BY <1>2, <2>8, <3>4, <4>3 DEF found, fwd
      <3> QED
          BY <3>3, <3>4
    <2> QED
        BY <2>7, <2>8
  <1> QED
      BY <1>1, <1>2

\* The last node before the owner of an identifier, and where the others are.
LEMMA LastBefore ==
    ASSUME ring \subseteq Node, NEW o, NEW x \in IdSpace, Owns(o, x), ring # {o}
    PROVE  /\ Before(o) \in ring /\ Before(o) \in IdSpace /\ Before(o) # o /\ Before(o) # x
           /\ OnArc(x, Before(o), o)
           /\ \A m \in ring : m # o => Dist(Before(o), o) <= Dist(m, o)
  <1>1. o \in ring
      BY DEF Owns
  <1> QED
      BY <1>1, Neighbours, OwnsUpTo

\* The fingers of s between the node and the identifier, but for the nodes a request
\* has come from.
Preceding(s, key, sender, initiator) ==
    {i \in FingerIndex : /\ s.cwFingers[i] \notin {sender, initiator, s.id}
                         /\ isInRangeOverZero(s.cwFingers[i], s.id, key)}

\* The node is next to the identifier.
Near(n, key) == key = Before(n) \/ OnArc(key, n, After(n))

\* What findSuccessor finds: the owner answers; its neighbours name it, or pass a JOIN on to it;
\* any other node passes the request on to a finger before the identifier, or, when it
\* has none, to some node of the ring, or answers with itself.
LEMMA Found ==
    ASSUME ring \subseteq Node, NEW n \in ring, NEW s, Serves(s, n),
           NEW key \in IdSpace, NEW o, Owns(o, key),
           NEW sender, NEW initiator, NEW isJoin \in BOOLEAN
    PROVE  LET r == findSuccessor(s, key, sender, initiator, isJoin)
               P == Preceding(s, key, sender, initiator)
           IN  /\ r.action = "REPLY" \/ r.action = "FORWARD"
               /\ r.found \in ring
               /\ n = o => r.action = "REPLY" /\ r.found = o
               /\ n # o /\ Near(n, key) =>
                      r.found = o /\ r.action = IF isJoin THEN "FORWARD" ELSE "REPLY"
               /\ n # o /\ ~Near(n, key) /\ P # {} =>
                      r.action = "FORWARD" /\ r.found = s.cwFingers[highest(P)]
               /\ n # o /\ ~Near(n, key) /\ r.action = "REPLY" => r.found = n
  <1> DEFINE r == findSuccessor(s, key, sender, initiator, isJoin)
             P == Preceding(s, key, sender, initiator)
             named(a) == [action |-> IF isJoin /\ a # n THEN "FORWARD" ELSE "REPLY", found |-> a]
             others == {i \in FingerIndex : s.cwFingers[i] \notin {sender, initiator, s.id}}
             preceding == {i \in others : isInRangeOverZero(s.cwFingers[i], s.id, key)}
  <1>1. preceding = P
      BY DEF Preceding
  <1>2. /\ s.id = n /\ s.predecessor = Before(n) /\ s.successor = After(n)
        /\ \A i \in FingerIndex : s.cwFingers[i] \in ring
      BY DEF Serves
  <1>3. /\ n \in IdSpace /\ Before(n) \in ring /\ After(n) \in ring /\ o \in ring
        /\ Before(n) \in IdSpace /\ After(n) \in IdSpace
        /\ Before(n) = n => ring = {n}
      BY Neighbours, NodeAssumption DEF Owns
  <1>4. /\ isInRangeOverZero(key, Before(n), n) <=> OnArc(key, Before(n), n)
        /\ isInRangeOverZero(key, n, After(n)) <=> OnArc(key, n, After(n))
      BY <1>3, RangeIsArc
  <1>5. /\ preceding # {} => highest(preceding) \in FingerIndex
        /\ others # {} => lowest(others) \in FingerIndex
    <2>1. preceding \in SUBSET FingerIndex /\ others \in SUBSET FingerIndex
        OBVIOUS
    <2> HIDE DEF preceding, others
    <2> QED
        BY <2>1, HighestLowest
  <1>6. r = IF key = n \/ (key # Before(n) /\ OnArc(key, Before(n), n))
            THEN [action |-> "REPLY", found |-> n]
            ELSE IF key = Before(n)
            THEN named(Before(n))
            ELSE IF OnArc(key, n, After(n))
            THEN named(After(n))
            ELSE IF preceding # {}
            THEN [action |-> "FORWARD", found |-> s.cwFingers[highest(preceding)]]
            ELSE IF others # {} THEN [action |-> "FORWARD", found |-> s.cwFingers[lowest(others)]]
            ELSE IF Before(n) \notin {sender, initiator, n}
            THEN [action |-> "FORWARD", found |-> Before(n)]
            ELSE [action |-> "REPLY", found |-> n]
    <2> HIDE DEF preceding, others
    <2>1. r = IF key = n THEN [action |-> "REPLY", found |-> n]
            ELSE IF key = Before(n)
            THEN named(Before(n))
            ELSE IF OnArc(key, Before(n), n) THEN [action |-> "REPLY", found |-> n]
            ELSE IF OnArc(key, n, After(n))
            THEN named(After(n))
            ELSE IF preceding # {}
            THEN [action |-> "FORWARD", found |-> s.cwFingers[highest(preceding)]]
            ELSE IF others # {} THEN [action |-> "FORWARD", found |-> s.cwFingers[lowest(others)]]
            ELSE IF Before(n) \notin {sender, initiator, n}
            THEN [action |-> "FORWARD", found |-> Before(n)]
            ELSE [action |-> "REPLY", found |-> n]
        BY <1>2, <1>4 DEF findSuccessor, preceding, others
    <2> HIDE DEF r
    <2> QED
        BY <2>1
  <1> HIDE DEF r, P, preceding, others
  <1>7. /\ key = n => n = o
        /\ key # Before(n) /\ OnArc(key, Before(n), n) => n = o
        /\ key = Before(n) => Before(n) = o
        /\ OnArc(key, n, After(n)) /\ key # n => After(n) = o
    <2>1. key = n => Owns(n, key)
        BY OwnsItself
    <2>2. key = Before(n) => Owns(Before(n), key)
        BY <1>3, OwnsItself
    <2>3. /\ OnArc(key, n, After(n)) /\ key # n => Owns(After(n), key)
          /\ OnArc(key, Before(n), n) /\ key # Before(n) => Owns(n, key)
        BY OwnsUpTo
    <2>4. \A a : Owns(a, key) => a = o
        BY <1>3, OneOwner
    <2> QED
        BY <2>1, <2>2, <2>3, <2>4
  <1>8. n = o /\ ring # {n} => OnArc(key, Before(n), n) /\ key # Before(n)
      BY OwnsUpTo
  <1>9. ring = {n} => /\ o = n /\ Before(n) = n /\ After(n) = n
                      /\ OnArc(key, n, n) => key = n
                      /\ others = {} /\ preceding = {}
    <2>1. OnArc(key, n, n) => key = n
        BY <1>3, MaxAssumption DEF OnArc, Dist, IdSpace, IdCount
    <2>2. ring = {n} => others = {} /\ preceding = {}
        BY <1>2 DEF others, preceding
    <2> QED
        BY <1>3, <2>1, <2>2
  <1>10. r.action = "REPLY" \/ r.action = "FORWARD"
      BY <1>6
  <1>11. r.found \in ring
      BY <1>2, <1>3, <1>5, <1>6
  <1>12. n = o => r.action = "REPLY" /\ r.found = o
    <2>1. CASE ring = {n}
        BY <1>6, <1>9, <2>1
    <2>2. CASE ring # {n}
        BY <1>6, <1>8, <2>2
    <2> QED
        BY <2>1, <2>2
  <1>13. n # o /\ Near(n, key) => r.found = o /\ r.action = IF isJoin THEN "FORWARD" ELSE "REPLY"
      BY <1>6, <1>7 DEF Near
  <1>14. n # o /\ ~Near(n, key) /\ P # {} =>
             r.action = "FORWARD" /\ r.found = s.cwFingers[highest(P)]
      BY <1>1, <1>6, <1>7 DEF Near
  <1>15. n # o /\ ~Near(n, key) /\ r.action = "REPLY" => r.found = n
      BY <1>6, <1>7 DEF Near
  <1> QED
      BY <1>10, <1>11, <1>12, <1>13, <1>14, <1>15 DEF r, P

-----------------------------------------------------------------------------
(* With exact fingers every hop brings a request nearer, and halves the way.   *)

\* The fingers start at doubling distances.
LEMMA MaskDoubles ==
    /\ \A i \in FingerIndex : FingerMask[i] \in 1 .. MAX_UINT160
    /\ \A i, j \in FingerIndex : i < j => 2 * FingerMask[i] <= FingerMask[j]
  <1>1. \A i \in FingerIndex : FingerMask[i] \in 1 .. MAX_UINT160
      BY FingersAssumption, MaxAssumption DEF IdSpace
  <1>2. ASSUME NEW i \in FingerIndex, NEW k \in FingerIndex, i < k
        PROVE  2 * FingerMask[i] <= FingerMask[k]
    <2> DEFINE Bad == {j \in FingerIndex : i < j /\ ~(2 * FingerMask[i] <= FingerMask[j])}
    <2> SUFFICES ASSUME Bad # {} PROVE FALSE
        BY <1>2
    <2>1. PICK j \in Bad : \A l \in Bad : j <= l
      <3>1. Bad \in SUBSET Nat
          BY DEF FingerIndex
      <3> HIDE DEF Bad
      <3> QED
          BY <3>1, LeastNatural
    <2>2. /\ j \in FingerIndex /\ i < j /\ ~(2 * FingerMask[i] <= FingerMask[j])
          /\ j - 1 \in FingerIndex /\ i <= j - 1 /\ (j - 1) + 1 = j
        BY <2>1, FingersAssumption DEF FingerIndex
    <2>3. FingerMask[j] = 2 * FingerMask[j - 1]
        BY <2>2, MaskAssumption
    <2>4. i = j - 1 \/ 2 * FingerMask[i] <= FingerMask[j - 1]
      <3>1. j - 1 \notin Bad
        <4>1. ~(j <= j - 1)
            BY <2>2 DEF FingerIndex
        <4> HIDE DEF Bad
        <4> QED
            BY <2>1, <4>1
      <3> QED
          BY <2>2, <3>1 DEF FingerIndex
    <2> QED
        BY <1>1, <2>2, <2>3, <2>4
  <1> QED
      BY <1>1, <1>2

\* highest is an upper bound.
LEMMA HighestBounds ==
    ASSUME NEW I \in SUBSET FingerIndex, I # {}
    PROVE  \A j \in I : j <= highest(I)
  <1> DEFINE J == {FingersSize - i : i \in I}
  <1>1. J \in SUBSET Nat /\ J # {}
    <2>1. \A i \in I : FingersSize - i \in Nat
        BY FingersAssumption DEF FingerIndex
    <2> QED
        BY <2>1
  <1>2. PICK k \in J : \A l \in J : k <= l
    <2> HIDE DEF J
    <2> QED
        BY <1>1, LeastNatural
  <1>3. PICK i \in I : k = FingersSize - i
      BY <1>2
  <1>4. \A j \in I : j <= i
    <2> TAKE j \in I
    <2>1. FingersSize - i <= FingersSize - j
        BY <1>2, <1>3
    <2> QED
        BY <2>1, FingersAssumption DEF FingerIndex
  <1> QED
      BY <1>4 DEF highest

\* How far a request at node n may still have to go, after c hops: the last
\* node before the identifier is within the reach of the fingers up to some i, and
\* for each of them, and for the last step to the owner, a hop is left.
Reach(n, c) ==
    \E i \in FingerIndex : /\ Dist(n, Before(at)) <= 2 * FingerMask[i] - 2
                           /\ c + i + 1 <= FingersSize

\* A request on its way to a node n nearer than those it has come from.
Heads(n, sender, initiator, c) ==
    /\ n # initiator
    /\ c <= FingersSize
    /\ n # at => /\ sender \in ring => Dist(n, from) < Dist(sender, from)
                 /\ initiator \in ring => Dist(n, from) < Dist(initiator, from)
                 /\ Reach(n, c)

\* A JOIN may start at any node: the last one before the identifier is never a full
\* circle away.
LEMMA SeedReaches ==
    ASSUME ring \subseteq Node, from \in IdSpace, Owns(at, from), NEW n \in ring, n # at
    PROVE  Reach(n, 0)
  <1>1. /\ Before(at) \in IdSpace /\ Before(at) # at /\ n \in IdSpace /\ at \in IdSpace
        /\ Dist(Before(at), at) <= Dist(n, at)
    <2>1. ring # {at} /\ at \in ring
        BY DEF Owns
    <2> QED
        BY <2>1, LastBefore, NodeAssumption
  <1>2. Dist(n, Before(at)) <= IdCount - 2
      BY <1>1, MaxAssumption DEF Dist, IdSpace, IdCount
  <1>3. FingersSize - 1 \in FingerIndex /\ 0 + (FingersSize - 1) + 1 <= FingersSize
      BY FingersAssumption DEF FingerIndex
  <1> QED
      BY <1>2, <1>3, MaskAssumption DEF Reach

\* Finger j of n is the owner of the identifier looked for, or lies before it, when
\* the identifier is d from n and further than the finger starts.
LEMMA FingerBetween ==
    ASSUME ring \subseteq Node, from \in IdSpace, Owns(at, from), NEW n \in ring,
           NEW j \in FingerIndex, NEW g, Owns(g, FingerStart(n, j)),
           FingerMask[j] <= Dist(n, from)
    PROVE  g = at \/ (FingerMask[j] <= Dist(n, g) /\ Dist(n, g) < Dist(n, from))
  <1> DEFINE x == Plus(n, FingerMask[j])
  <1>1. n \in IdSpace /\ at \in IdSpace /\ g \in IdSpace /\ g \in ring /\ at \in ring
      BY NodeAssumption DEF Owns
  <1>2. FingerMask[j] \in 1 .. MAX_UINT160 /\ FingerMask[j] \in IdSpace
      BY MaskDoubles, MaxAssumption DEF IdSpace
  <1>3. Dist(x, g) <= Dist(x, at) /\ Dist(x, g) <= Dist(x, n)
      BY <1>1 DEF Owns, FingerStart
  <1>4. Dist(from, at) <= Dist(from, g) /\ Dist(from, at) <= Dist(from, n)
      BY <1>1 DEF Owns
  <1>5. x \in IdSpace /\ Dist(n, x) = FingerMask[j]
      BY <1>1, <1>2, MaxAssumption DEF Plus, Dist, IdSpace, IdCount
  <1> HIDE DEF x
  <1>6. g = at \/ (Dist(n, x) <= Dist(n, g) /\ Dist(n, g) < Dist(n, from))
      BY <1>1, <1>2, <1>3, <1>4, <1>5, MaxAssumption DEF Dist, IdSpace, IdCount
  <1> QED
      BY <1>5, <1>6

\* A finger in front of n is never one a request has come from.
LEMMA NearerIsNew ==
    ASSUME ring \subseteq Node, from \in IdSpace, NEW n \in ring, n # at,
           NEW sender, NEW initiator, NEW c, Heads(n, sender, initiator, c),
           NEW g \in ring, g # n, Dist(n, g) < Dist(n, from)
    PROVE  Dist(g, from) < Dist(n, from) /\ g # sender /\ g # initiator
  <1>1. n \in IdSpace /\ g \in IdSpace
      BY NodeAssumption
  <1>2. Dist(g, from) < Dist(n, from) /\ Dist(g, from) \in Nat /\ Dist(n, from) \in Nat
      BY <1>1, MaxAssumption DEF Dist, IdSpace, IdCount
  <1>3. ASSUME NEW x \in ring, Dist(n, from) < Dist(x, from) PROVE g # x
    <2>1. Dist(x, from) \in Nat
        BY NodeAssumption, MaxAssumption DEF Dist, IdSpace, IdCount
    <2> QED
        BY <1>2, <1>3, <2>1
  <1> QED
      BY <1>2, <1>3 DEF Heads

\* The next node lies before the identifier, unless n is next to it.
LEMMA AfterIsBefore ==
    ASSUME ring \subseteq Node, from \in IdSpace, Owns(at, from), NEW n \in ring, n # at,
           ~Near(n, from)
    PROVE  /\ n # from
           /\ After(n) \in ring /\ After(n) # n
           /\ Dist(n, After(n)) < Dist(n, from)
  <1>1. n # from
      BY OwnsItself, OneOwner
  <1>2. After(n) \in ring /\ After(n) # n /\ After(n) \in IdSpace
      BY Neighbours DEF Owns
  <1>3. Dist(n, After(n)) < Dist(n, from)
      BY <1>2, NodeAssumption, MaxAssumption DEF Near, OnArc, Dist, IdSpace, IdCount
  <1> QED
      BY <1>1, <1>2, <1>3

\* Finger 0 is a finger to pass the request on to.
LEMMA AlwaysPreceding ==
    ASSUME ring \subseteq Node, from \in IdSpace, Owns(at, from), NEW n \in ring, n # at,
           ~Near(n, from), NEW s, Serves(s, n),
           \A i \in FingerIndex : Owns(s.cwFingers[i], FingerStart(n, i)),
           NEW sender, NEW initiator, NEW c, Heads(n, sender, initiator, c)
    PROVE  Preceding(s, from, sender, initiator) # {}
  <1> DEFINE g == s.cwFingers[0]
  <1>1. 0 \in FingerIndex /\ s.id = n /\ n \in IdSpace
      BY FingerZero, NodeAssumption DEF Serves
  <1>2. g \in ring /\ g \in IdSpace /\ at \in IdSpace /\ Owns(g, FingerStart(n, 0))
      BY <1>1, NodeAssumption DEF Owns
  <1>3. n # from /\ After(n) \in IdSpace /\ After(n) \in ring /\ After(n) # n
        /\ Dist(n, After(n)) < Dist(n, from)
      BY AfterIsBefore, NodeAssumption
  <1> HIDE DEF g
  <1>4. FingerMask[0] = 1 /\ 1 <= Dist(n, from)
      BY <1>1, <1>3, MaskAssumption, MaxAssumption DEF Dist, IdSpace, IdCount
  <1>5. g # at
    <2> SUFFICES ASSUME g = at PROVE FALSE
        OBVIOUS
    <2>1. Dist(Plus(n, 1), at) <= Dist(Plus(n, 1), After(n))
        BY <1>2, <1>3, <1>4 DEF Owns, FingerStart
    <2>2. Dist(from, at) <= Dist(from, n)
        BY DEF Owns
    <2> QED
        BY <1>1, <1>2, <1>3, <2>1, <2>2, MaxAssumption DEF Dist, Plus, IdSpace, IdCount
  <1>6. 1 <= Dist(n, g) /\ Dist(n, g) < Dist(n, from)
      BY <1>1, <1>2, <1>4, <1>5, FingerBetween
  <1>7. g # n
      BY <1>1, <1>6, MaxAssumption DEF Dist, IdSpace, IdCount
  <1>8. g # sender /\ g # initiator
      BY <1>2, <1>6, <1>7, NearerIsNew
  <1>9. isInRangeOverZero(g, n, from)
      BY <1>1, <1>2, <1>6, RangeIsArc, MaxAssumption DEF OnArc, Dist, IdSpace, IdCount
  <1>10. 0 \in Preceding(s, from, sender, initiator)
      BY <1>1, <1>7, <1>8, <1>9 DEF Preceding, g
  <1> QED
      BY <1>10

\* A hop to a finger before the identifier leaves a shorter way, for which one finger less
\* is enough.
LEMMA HopHeads ==
    ASSUME ring \subseteq Node, from \in IdSpace, Owns(at, from), NEW n \in ring, n # at,
           ~Near(n, from), NEW s, Serves(s, n),
           \A i \in FingerIndex : Owns(s.cwFingers[i], FingerStart(n, i)),
           NEW sender, NEW initiator, NEW c \in Nat, Heads(n, sender, initiator, c),
           NEW P, P = Preceding(s, from, sender, initiator),
           NEW f, f = s.cwFingers[highest(P)]
    PROVE  P # {} /\ f # n /\ Heads(f, n, initiator, c + 1)
  <1>1. P # {} /\ P \in SUBSET FingerIndex
      BY AlwaysPreceding DEF Preceding
  <1> DEFINE j == highest(P)
             p == Before(at)
  <1>2. j \in P /\ j \in FingerIndex /\ \A k \in P : k <= j
      BY <1>1, HighestLowest, HighestBounds
  <1> HIDE DEF j
  <1>3. /\ f \in ring /\ f # sender /\ f # initiator /\ f # n
        /\ isInRangeOverZero(f, n, from)
        /\ Owns(f, FingerStart(n, j))
      BY <1>2 DEF Preceding, Owns, Serves, j
  <1>4. n \in IdSpace /\ f \in IdSpace /\ at \in IdSpace /\ at \in ring
      BY <1>3, NodeAssumption DEF Owns
  <1>5. Dist(n, f) <= Dist(n, from)
      BY <1>3, <1>4, RangeIsArc DEF OnArc
  <1>6. PICK i \in FingerIndex : /\ Dist(n, p) <= 2 * FingerMask[i] - 2
                                 /\ c + i + 1 <= FingersSize
      BY DEF Heads, Reach
  <1>7. c + 1 <= FingersSize
      BY <1>6, FingersAssumption DEF FingerIndex
  <1>8. CASE f = at
      BY <1>1, <1>3, <1>7, <1>8 DEF Heads
  <1>9. CASE f # at
    <2>1. f # from /\ Dist(n, f) < Dist(n, from)
      <3>1. f # from
          BY <1>3, <1>9, OwnsItself, OneOwner
      <3> QED
          BY <1>4, <1>5, <3>1, MaxAssumption DEF Dist, IdSpace, IdCount
    <2>2. Dist(f, from) < Dist(n, from)
        BY <1>3, <2>1, NearerIsNew
    <2>3. initiator \in ring => Dist(f, from) < Dist(initiator, from)
      <3>1. initiator \in ring => /\ Dist(n, from) < Dist(initiator, from)
                                  /\ initiator \in IdSpace
          BY NodeAssumption DEF Heads
      <3> QED
          BY <1>4, <2>2, <3>1, MaxAssumption DEF Dist, IdSpace, IdCount
    <2>4. \A k \in FingerIndex : FingerMask[k] \in 1 .. MAX_UINT160
        BY MaskDoubles
    <2>5. FingerMask[j] <= Dist(n, f)
      <3>1. Dist(Plus(n, FingerMask[j]), f) <= Dist(Plus(n, FingerMask[j]), n)
          BY <1>3 DEF Owns, FingerStart
      <3> QED
          BY <1>2, <1>3, <1>4, <2>4, <3>1, MaxAssumption DEF Plus, Dist, IdSpace, IdCount
    <2>6. /\ p \in IdSpace /\ p \in ring /\ p # at /\ p # from /\ OnArc(from, p, at)
          /\ Dist(p, at) <= Dist(n, at) /\ Dist(p, at) <= Dist(f, at)
      <3>1. ring # {at}
          OBVIOUS
      <3> QED
          BY <1>3, <1>9, <3>1, LastBefore
    <2> HIDE DEF p
    <2>7. Dist(from, at) <= Dist(from, n) /\ Dist(from, at) <= Dist(from, f)
        BY <1>3 DEF Owns
    <2>8. /\ Dist(n, p) < Dist(n, from) /\ Dist(n, p) < Dist(n, at)
          /\ Dist(f, p) = Dist(n, p) - Dist(n, f)
          /\ Dist(n, p) \in Nat /\ Dist(f, p) \in Nat /\ Dist(n, f) \in Nat
      <3>1. Dist(n, p) < Dist(n, from) /\ Dist(n, p) < Dist(n, at)
          BY <1>4, <2>6, <2>7, MaxAssumption DEF OnArc, Dist, IdSpace, IdCount
      <3>2. Dist(f, p) = Dist(n, p) - Dist(n, f)
          BY <1>4, <2>1, <2>6, <2>7, <3>1, MaxAssumption DEF OnArc, Dist, IdSpace, IdCount
      <3> QED
          BY <1>4, <2>6, <3>1, <3>2, MaxAssumption DEF Dist, IdSpace, IdCount
    <2>9. j <= i /\ i - 1 \in FingerIndex /\ FingerMask[i] = 2 * FingerMask[i - 1]
      <3>1. FingerMask[j] <= 2 * FingerMask[i] - 2
          BY <1>2, <1>6, <2>4, <2>5, <2>8
      <3>2. j <= i
        <4>1. i < j => 2 * FingerMask[i] <= FingerMask[j]
            BY <1>2, <1>6, MaskDoubles
        <4> QED
            BY <1>2, <1>6, <2>4, <3>1, <4>1, FingersAssumption DEF FingerIndex
      <3>3. i # 0
          BY <1>2, <2>4, <3>1, MaskAssumption
      <3>4. i - 1 \in FingerIndex /\ (i - 1) + 1 = i
          BY <1>6, <3>3, FingersAssumption DEF FingerIndex
      <3> QED
          BY <1>6, <3>2, <3>4, MaskAssumption
    <2>10. Dist(f, p) <= 2 * FingerMask[i - 1] - 2
      <3>1. CASE j = i
          BY <1>2, <1>6, <2>4, <2>5, <2>8, <2>9, <3>1
      <3>2. CASE j # i
        <4>1. j + 1 \in FingerIndex /\ FingerMask[j + 1] = 2 * FingerMask[j]
          <5>1. j + 1 \in FingerIndex
              BY <1>2, <1>6, <2>9, <3>2, FingersAssumption DEF FingerIndex
          <5> QED
              BY <1>2, <5>1, MaskAssumption
        <4>2. Dist(n, p) < 2 * FingerMask[j]
          <5> SUFFICES ASSUME FingerMask[j + 1] <= Dist(n, p) PROVE FALSE
              BY <1>2, <2>4, <2>8, <4>1
          <5> DEFINE g == s.cwFingers[j + 1]
                     m == FingerMask[j + 1]
          <5>1. /\ Owns(g, FingerStart(n, j + 1)) /\ g \in ring /\ g \in IdSpace
                /\ m \in 1 .. MAX_UINT160
              BY <2>4, <4>1, NodeAssumption DEF Owns
          <5> HIDE DEF g, m
          <5>2. m <= Dist(n, p)
              BY DEF m
          <5>3. g # at
            <6> SUFFICES ASSUME g = at PROVE FALSE
                OBVIOUS
            <6>1. Dist(Plus(n, m), at) <= Dist(Plus(n, m), p)
                BY <2>6, <5>1 DEF Owns, FingerStart, m
            <6> QED
                BY <1>4, <2>6, <2>8, <5>1, <5>2, <6>1, MaxAssumption
                DEF Plus, Dist, IdSpace, IdCount
          <5>4. m <= Dist(n, from)
              BY <1>4, <2>6, <2>8, <5>1, <5>2, MaxAssumption DEF Dist, IdSpace, IdCount
          <5>5. m <= Dist(n, g) /\ Dist(n, g) < Dist(n, from)
              BY <4>1, <5>1, <5>3, <5>4, FingerBetween DEF m
          <5>6. g # n
              BY <1>4, <5>1, <5>5, MaxAssumption DEF Dist, IdSpace, IdCount
          <5>7. g # sender /\ g # initiator
              BY <5>1, <5>5, <5>6, NearerIsNew
          <5>8. isInRangeOverZero(g, n, from)
              BY <1>4, <5>1, <5>5, RangeIsArc, MaxAssumption DEF OnArc, Dist, IdSpace, IdCount
          <5>9. j + 1 \in P
              BY <4>1, <5>6, <5>7, <5>8 DEF Preceding, Serves, g
          <5> QED
              BY <1>2, <5>9, FingersAssumption DEF FingerIndex
        <4>3. FingerMask[j] <= FingerMask[i - 1]
          <5>1. j = i - 1 \/ j < i - 1
              BY <1>2, <1>6, <2>9, <3>2, FingersAssumption DEF FingerIndex
          <5>2. j < i - 1 => 2 * FingerMask[j] <= FingerMask[i - 1]
              BY <1>2, <2>9, MaskDoubles
          <5> QED
              BY <1>2, <2>4, <2>9, <5>1, <5>2
        <4> QED
            BY <1>2, <2>4, <2>5, <2>8, <2>9, <4>2, <4>3
      <3> QED
          BY <3>1, <3>2
    <2>11. (c + 1) + (i - 1) + 1 <= FingersSize
        BY <1>6, FingersAssumption DEF FingerIndex
    <2>12. Reach(f, c + 1)
        BY <2>9, <2>10, <2>11 DEF Reach, p
    <2> QED
        BY <1>1, <1>3, <1>7, <2>2, <2>3, <2>12 DEF Heads
  <1> QED
      BY <1>8, <1>9

-----------------------------------------------------------------------------
(* The invariant of the lookup.                                              *)

\* Once there is a ring, the walker stands at the owner of the identifier.
RingInOrder ==
    /\ ring \subseteq Node
    /\ ring # {} => Owns(at, from)
    /\ ring = {} => request = Unasked

\* A request looks for the identifier and has come to a node of the ring; the
\* newcomer of a JOIN is none; with exact fingers the request gets nearer.
RequestInOrder ==
    Asked => /\ request \in Message
             /\ request.searched = from
             /\ request.dest \in ring
             /\ request.isJoin => request.initiator \notin ring
             /\ exact => Heads(request.dest, request.src, request.initiator,
                               request.retransmitCounter)

LookupInv ==
    /\ WalkInv /\ RingInOrder /\ RequestInOrder /\ AnswerIsOwner
    /\ exact => request # Dropped

\* In the beginning nothing has been asked.
LEMMA InitLookupInv == LookupInit => LookupInv
  <1> SUFFICES ASSUME LookupInit PROVE LookupInv
      OBVIOUS
  <1>1. WalkInv
      BY InitWalkInv DEF LookupInit
  <1>2. request = [type |-> "none"] /\ ring = {}
      BY DEF LookupInit, Unasked
  <1> QED
      BY <1>1, <1>2
      DEF LookupInv, RingInOrder, RequestInOrder, AnswerIsOwner, Asked, Answered, Dropped, Unasked

\* The walker has met no node of the ring but the one where it stands.
LEMMA ChooseKeeps == LookupInv /\ Choose => LookupInv'
  <1> SUFFICES ASSUME LookupInv, Choose PROVE LookupInv'
      OBVIOUS
  <1>1. /\ from' = from /\ at' = at /\ visited' = visited /\ request' = request
        /\ ring = {} /\ request = [type |-> "none"] /\ WalkInv
      BY DEF LookupInv, RingInOrder, Choose, Unasked
  <1>2. WalkInv'
      BY <1>1 DEF WalkInv, TypeOK, Arc
  <1>3. PICK others \in SUBSET (Node \ visited) : at \in Node /\ ring' = others \cup {at}
      BY DEF Choose, kSubset
  <1>4. ASSUME NEW m \in ring' PROVE Dist(from, at) <= Dist(from, m)
    <2>1. from \in IdSpace /\ at \in IdSpace /\ m \in IdSpace /\ (m = at \/ m \notin visited)
        BY <1>1, <1>3, NodeAssumption DEF WalkInv, TypeOK
    <2>2. m = at \/ ~OnArc(m, from, at)
        BY <1>1, <2>1 DEF WalkInv, Arc
    <2> QED
        BY <2>1, <2>2, MaxAssumption DEF OnArc, Dist, IdSpace, IdCount
  <1>5. RingInOrder'
      BY <1>1, <1>3, <1>4 DEF RingInOrder, Owns
  <1> QED
      BY <1>1, <1>2, <1>5
      DEF LookupInv, RequestInOrder, AnswerIsOwner, Asked, Answered, Dropped

\* What a step that changes the request alone has to show.
LEMMA RequestKeeps ==
    ASSUME LookupInv, UNCHANGED <<from, at, visited, ring, exact>>, ring # {},
           RequestInOrder', AnswerIsOwner', exact => request' # Dropped
    PROVE  LookupInv'
BY DEF LookupInv, WalkInv, TypeOK, Arc, RingInOrder, Owns, Dropped

\* Whom a node asks for finger i: a node of the ring, and with exact fingers one that
\* brings the request nearer.
LEMMA AskFingerKeeps == LookupInv /\ AskFinger => LookupInv'
  <1> SUFFICES ASSUME LookupInv, AskFinger PROVE LookupInv'
      OBVIOUS
  <1>1. /\ ring \subseteq Node /\ ring # {} /\ Owns(at, from) /\ from \in IdSpace
        /\ UNCHANGED <<from, at, visited, ring, exact>>
      BY DEF AskFinger, LookupInv, RingInOrder, WalkInv, TypeOK
  <1>2. PICK n \in ring, i \in FingerIndex :
            /\ FingerStart(n, i) = from
            /\ \E asking \in States(n) :
                LET s == issueFindSuccessor([asking EXCEPT !.cwFingerIndex = i], mid)
                IN  s.tx # <<>> /\ request' = Sent(s)
      BY DEF AskFinger
  <1>3. PICK asking \in States(n) :
            LET s == issueFindSuccessor([asking EXCEPT !.cwFingerIndex = i], mid)
            IN  s.tx # <<>> /\ request' = Sent(s)
      BY <1>2
  <1>4. /\ Serves(asking, n)
        /\ exact => \A k \in FingerIndex : Owns(asking.cwFingers[k], FingerStart(n, k))
      BY <1>1, StatesServe
  <1> DEFINE a == [asking EXCEPT !.cwFingerIndex = i]
             g == fingerPast(a)
             lower == {k \in FingerIndex : k < i /\ asking.cwFingers[k] # n}
             find == createMessage(a, "FIND_SUCCESSOR", g, mid, from)
  <1>5. /\ a.id = n /\ a.tx = <<>> /\ a.cwFingers = asking.cwFingers /\ a.cwFingerIndex = i
        /\ a.seedAddrs = <<n>> /\ a.currSeed = 0 /\ a \in NodeState
    <2>1. i \in Nat
        BY DEF FingerIndex
    <2> QED
        BY <1>4, <2>1 DEF Serves, NodeState
  <1> HIDE DEF a
  <1>6. g = IF i = 0 THEN asking.cwFingers[0]
            ELSE IF lower # {} THEN asking.cwFingers[highest(lower)] ELSE n
      BY <1>5 DEF fingerPast
  <1>7. lower # {} => /\ highest(lower) \in FingerIndex /\ highest(lower) < i
                      /\ asking.cwFingers[highest(lower)] # n
    <2>1. lower \in SUBSET FingerIndex
        OBVIOUS
    <2>2. lower # {} => highest(lower) \in lower
      <3> HIDE DEF lower
      <3> QED
          BY <2>1, HighestLowest
    <2> QED
        BY <2>2
  <1>8. g \in ring
      BY <1>4, <1>6, <1>7, FingerZero DEF Serves
  <1> HIDE DEF g, lower
  <1>9. find \in Message /\ find.type = "FIND_SUCCESSOR" /\ find.dest = g /\ find.src = n
        /\ find.initiator = n /\ find.searched = from /\ find.retransmitCounter = 0
        /\ find.isJoin = FALSE
    <2>1. mid \in MessageID
        BY MessageIDAssumption DEF mid
    <2> QED
        BY <1>1, <1>5, <1>8, <2>1 DEF createMessage, Message, MessageType
  <1>10. g # n /\ request' = find
    <2> DEFINE s == issueFindSuccessor(a, mid)
    <2>1. s.tx # <<>> /\ request' = Sent(s)
        BY <1>3 DEF a
    <2>2. s = IF g = n THEN [a EXCEPT !.isNowUpdate = FALSE]
              ELSE pushTimers(sendMessage(a, find), {"RX_SUCCESSOR", "RX_ACK"}, find, 0)
        BY <1>2, <1>5, <1>9 DEF issueFindSuccessor, g
    <2> HIDE DEF s, find
    <2>3. g # n
        BY <1>5, <2>1, <2>2 DEF NodeState
    <2>4. s.tx = Append(<<>>, find)
        BY <1>5, <1>9, <2>2, <2>3 DEF pushTimers, sendMessage, NodeState
    <2>5. s.tx = <<find>>
        BY <2>4, AppendToOne
    <2>6. Sent(s) = find
      <3> DEFINE ack == [type |-> "ACK"]
      <3>1. ack.type = "ACK"
          OBVIOUS
      <3> QED
          BY <1>9, <2>5, <3>1, SentIs
    <2> QED
        BY <2>1, <2>3, <2>6
  <1> HIDE DEF find
  <1>11. exact => Heads(g, n, n, 0)
    <2> SUFFICES ASSUME exact, g # at PROVE Dist(g, from) < Dist(n, from) /\ Reach(g, 0)
        BY <1>10, FingersAssumption DEF Heads
    <2> DEFINE j == highest(lower)
               p == Before(at)
    <2>1. i # 0
      <3>1. i = 0 => Owns(g, from)
          BY <1>2, <1>4, <1>6
      <3> QED
          BY <1>1, <3>1, OneOwner
    <2>2. /\ j \in FingerIndex /\ j < i /\ Owns(g, FingerStart(n, j))
        BY <1>4, <1>6, <1>7, <1>10, <2>1
    <2> HIDE DEF j
    <2>3. n \in IdSpace /\ g \in IdSpace /\ at \in IdSpace /\ at \in ring
        BY <1>1, <1>8, NodeAssumption DEF Owns
    <2>4. \A k \in FingerIndex : FingerMask[k] \in 1 .. MAX_UINT160
        BY MaskDoubles
    <2>5. Dist(n, from) = FingerMask[i]
        BY <1>2, <2>3, <2>4, MaxAssumption DEF FingerStart, Plus, Dist, IdSpace, IdCount
    <2>6. 1 <= Dist(n, g) /\ Dist(n, g) < FingerMask[i]
      <3>1. FingerMask[j] <= Dist(n, from)
          BY <2>2, <2>4, <2>5, MaskDoubles
      <3>2. FingerMask[j] <= Dist(n, g) /\ Dist(n, g) < Dist(n, from)
          BY <1>1, <2>2, <3>1, FingerBetween
      <3> QED
          BY <2>2, <2>3, <2>4, <2>5, <3>2, MaxAssumption DEF Dist, IdSpace, IdCount
    <2>7. /\ p \in IdSpace /\ p # at /\ p # from /\ OnArc(from, p, at)
          /\ Dist(p, at) <= Dist(g, at)
        BY <1>1, <1>8, LastBefore
    <2> HIDE DEF p
    <2>8. Dist(from, at) <= Dist(from, n) /\ Dist(from, at) <= Dist(from, g)
        BY <1>1, <1>8 DEF Owns
    <2>9. Dist(g, from) = FingerMask[i] - Dist(n, g)
        BY <1>1, <2>3, <2>4, <2>5, <2>6, MaxAssumption DEF Dist, IdSpace, IdCount
    <2>10. Dist(g, p) < Dist(g, from)
        BY <1>1, <2>3, <2>6, <2>7, <2>8, MaxAssumption DEF OnArc, Dist, IdSpace, IdCount
    <2>11. /\ i - 1 \in FingerIndex /\ 0 + (i - 1) + 1 <= FingersSize
           /\ FingerMask[i] = 2 * FingerMask[i - 1]
      <3>1. i - 1 \in FingerIndex /\ (i - 1) + 1 = i /\ i <= FingersSize
          BY <2>1, FingersAssumption DEF FingerIndex
      <3> QED
          BY <3>1, MaskAssumption, FingersAssumption DEF FingerIndex
    <2>12. Dist(g, p) <= 2 * FingerMask[i - 1] - 2
      <3>1. Dist(g, p) \in Nat /\ Dist(n, g) \in Nat /\ FingerMask[i] \in Nat
          BY <2>3, <2>4, <2>7, MaxAssumption DEF Dist, IdSpace, IdCount
      <3> QED
          BY <2>6, <2>9, <2>10, <2>11, <3>1
    <2>13. Reach(g, 0)
        BY <2>11, <2>12 DEF Reach, p
    <2>14. Dist(g, from) < Dist(n, from)
        BY <2>3, <2>4, <2>5, <2>6, <2>9, MaxAssumption DEF Dist, IdSpace, IdCount
    <2> QED
        BY <2>13, <2>14
  <1>12. RequestInOrder'
      BY <1>1, <1>8, <1>9, <1>10, <1>11
      DEF RequestInOrder, Heads, Reach, Before
  <1>13. AnswerIsOwner' /\ request' # Dropped
      BY <1>9, <1>10 DEF AnswerIsOwner, Answered, Dropped
  <1> QED
      BY <1>1, <1>12, <1>13, RequestKeeps

\* A newcomer may begin with any node of the ring.
LEMMA AskJoinKeeps == LookupInv /\ AskJoin => LookupInv'
  <1> SUFFICES ASSUME LookupInv, AskJoin PROVE LookupInv'
      OBVIOUS
  <1>1. /\ ring \subseteq Node /\ ring # {} /\ Owns(at, from) /\ from \in IdSpace
        /\ UNCHANGED <<from, at, visited, ring, exact>>
      BY DEF AskJoin, LookupInv, RingInOrder, WalkInv, TypeOK
  <1> DEFINE n == Minus(from, 1)
  <1>2. n \in Node /\ n \notin ring
      BY DEF AskJoin
  <1>3. PICK seed \in ring :
            request' = [createMessage(Off(n), "JOIN", seed, mid, from) EXCEPT !.isJoin = TRUE]
      BY DEF AskJoin
  <1> HIDE DEF n
  <1>4. Off(n).id = n
      BY DEF Off
  <1>5. /\ request' \in Message /\ request'.type = "JOIN" /\ request'.dest = seed
        /\ request'.src = n /\ request'.initiator = n /\ request'.searched = from
        /\ request'.retransmitCounter = 0
    <2>1. mid \in MessageID
        BY MessageIDAssumption DEF mid
    <2>2. createMessage(Off(n), "JOIN", seed, mid, from) \in Message
        BY <1>1, <1>2, <1>4, <2>1 DEF createMessage, Message, MessageType
    <2> QED
        BY <1>3, <1>4, <2>2 DEF createMessage, Message
  <1>6. Heads(seed, n, n, 0)
    <2>1. seed # n
        BY <1>2
    <2>2. seed # at => Reach(seed, 0)
        BY <1>1, SeedReaches
    <2> QED
        BY <1>2, <2>1, <2>2, FingersAssumption DEF Heads
  <1>7. RequestInOrder'
      BY <1>1, <1>2, <1>5, <1>6 DEF RequestInOrder, Heads, Reach, Before
  <1>8. AnswerIsOwner' /\ request' # Dropped
      BY <1>5 DEF AnswerIsOwner, Answered, Dropped
  <1> QED
      BY <1>1, <1>7, <1>8, RequestKeeps

\* A hop answers with the owner or passes the request on, and with exact fingers
\* brings it nearer.
LEMMA HopKeeps == LookupInv /\ Hop => LookupInv'
  <1> SUFFICES ASSUME LookupInv, Hop PROVE LookupInv'
      OBVIOUS
  <1> DEFINE m == request
             n == request.dest
             c == request.retransmitCounter
  <1>1. /\ ring \subseteq Node /\ n \in ring /\ Owns(at, from) /\ from \in IdSpace
        /\ m \in Message /\ (m.type = "JOIN" \/ m.type = "FIND_SUCCESSOR")
        /\ m.searched = from /\ (m.isJoin => m.initiator \notin ring)
        /\ exact => Heads(n, m.src, m.initiator, c)
        /\ UNCHANGED <<from, at, visited, ring, exact>>
      BY DEF Hop, LookupInv, RingInOrder, RequestInOrder, Asked, WalkInv, TypeOK
  <1>2. PICK asked \in States(n) : \E s \in received(asked, m, mid) : request' = Sent(s)
      BY DEF Hop
  <1>3. PICK s \in received(asked, m, mid) : request' = Sent(s)
      BY <1>2
  <1>4. /\ Serves(asked, n)
        /\ exact => \A i \in FingerIndex : Owns(asked.cwFingers[i], FingerStart(n, i))
      BY <1>1, StatesServe
  <1> DEFINE r == findSuccessor(asked, from, m.src, m.initiator, m.isJoin)
             P == Preceding(asked, from, m.src, m.initiator)
             f == asked.cwFingers[highest(P)]
  <1>5. m.isJoin \in BOOLEAN /\ c \in Nat /\ m.initiator \in Node
      BY <1>1 DEF Message
  <1>6. request' = IF ~isAddrValid(m) THEN Dropped
                   ELSE IF r.action = "REPLY"
                   THEN IF m.initiator = n THEN Dropped
                        ELSE createSuccessorMessage(asked, m, r.found)
                   ELSE IF r.found = n THEN Dropped
                        ELSE PassedOn(n, m, r.found)
      BY <1>1, <1>3, <1>4, Handled
  <1>7. /\ r.action = "REPLY" \/ r.action = "FORWARD"
        /\ r.found \in ring
        /\ n = at => r.action = "REPLY" /\ r.found = at
        /\ n # at /\ Near(n, from) =>
               r.found = at /\ r.action = IF m.isJoin THEN "FORWARD" ELSE "REPLY"
        /\ n # at /\ ~Near(n, from) /\ P # {} => r.action = "FORWARD" /\ r.found = f
        /\ n # at /\ ~Near(n, from) /\ r.action = "REPLY" => r.found = n
      BY <1>1, <1>4, <1>5, Found
  <1>8. exact /\ n # at /\ ~Near(n, from) => P # {} /\ f # n /\ Heads(f, n, m.initiator, c + 1)
      BY <1>1, <1>4, <1>5, HopHeads
  <1> HIDE DEF r, P, f
  <1>9. exact => isAddrValid(m)
    <2>1. exact => c <= FingersSize
        BY <1>1 DEF Heads
    <2> QED
        BY <1>5, <2>1, FingersAssumption DEF isAddrValid
  <1>10. exact => m.initiator # n
      BY <1>1 DEF Heads
  <1>11. ASSUME exact, r.action = "FORWARD"
         PROVE  r.found # n /\ Heads(r.found, n, m.initiator, c + 1)
    <2>1. n # at
        BY <1>7, <1>11
    <2>2. CASE Near(n, from)
      <3>1. m.isJoin /\ r.found = at
          BY <1>7, <1>11, <2>1, <2>2
      <3>2. at # m.initiator
          BY <1>1, <3>1 DEF Owns
      <3>3. c + 1 <= FingersSize
        <4>1. PICK i \in FingerIndex : c + i + 1 <= FingersSize
            BY <1>1, <1>11, <2>1 DEF Heads, Reach
        <4> QED
            BY <1>5, <4>1, FingersAssumption DEF FingerIndex
      <3> QED
          BY <2>1, <3>1, <3>2, <3>3 DEF Heads
    <2>3. CASE ~Near(n, from)
        BY <1>7, <1>8, <1>11, <2>1, <2>3
    <2> QED
        BY <2>2, <2>3
  <1>12. exact => request' # Dropped
    <2> SUFFICES ASSUME exact PROVE request' # Dropped
        OBVIOUS
    <2>1. CASE r.action = "REPLY"
      <3>1. request'.type = "SUCCESSOR"
        <4>1. request' = createSuccessorMessage(asked, m, r.found)
            BY <1>6, <1>9, <1>10, <2>1
        <4> QED
            BY <4>1 DEF createSuccessorMessage, createMessage
      <3> QED
          BY <3>1 DEF Dropped
    <2>2. CASE r.action = "FORWARD"
      <3>1. request' = PassedOn(n, m, r.found)
          BY <1>6, <1>9, <1>11, <2>2
      <3>2. request'.type = "FIND_SUCCESSOR"
          BY <1>1, <3>1 DEF PassedOn, Message
      <3> QED
          BY <3>2 DEF Dropped
    <2> QED
        BY <1>7, <2>1, <2>2
  <1>13. AnswerIsOwner'
    <2> SUFFICES ASSUME request'.type = "SUCCESSOR"
                 PROVE  request'.searched = at \/ (~exact /\ request'.searched = request'.src)
        BY <1>1 DEF AnswerIsOwner, Answered
    <2>1. request' # Dropped
        BY DEF Dropped
    <2>2. r.action = "REPLY"
      <3> SUFFICES ASSUME r.action = "FORWARD" PROVE FALSE
          BY <1>7
      <3>1. request' = PassedOn(n, m, r.found)
          BY <1>6, <2>1
      <3> QED
          BY <1>1, <3>1 DEF PassedOn, Message
    <2>3. request' = createSuccessorMessage(asked, m, r.found)
        BY <1>6, <2>1, <2>2
    <2>4. request'.searched = r.found /\ request'.src = n
        BY <1>4, <2>3 DEF createSuccessorMessage, createMessage, Serves
    <2>5. CASE n = at \/ Near(n, from)
        BY <1>7, <2>4, <2>5
    <2>6. CASE n # at /\ ~Near(n, from)
        BY <1>7, <1>8, <2>2, <2>4, <2>6
    <2> QED
        BY <2>5, <2>6
  <1>14. RequestInOrder'
    <2> SUFFICES ASSUME request'.type = "JOIN" \/ request'.type = "FIND_SUCCESSOR"
                 PROVE  RequestInOrder'
        BY DEF RequestInOrder, Asked
    <2>1. request' # Dropped
        BY DEF Dropped
    <2>2. r.action = "FORWARD"
      <3> SUFFICES ASSUME r.action = "REPLY" PROVE FALSE
          BY <1>7
      <3>1. request' = createSuccessorMessage(asked, m, r.found)
          BY <1>6, <2>1
      <3> QED
          BY <3>1 DEF createSuccessorMessage, createMessage
    <2>3. request' = PassedOn(n, m, r.found)
        BY <1>6, <2>1, <2>2
    <2>4. /\ request' \in Message /\ request'.searched = from /\ request'.dest = r.found
          /\ request'.src = n /\ request'.initiator = m.initiator
          /\ request'.isJoin = m.isJoin /\ request'.retransmitCounter = c + 1
      <3>1. r.found \in Node /\ n \in Node /\ c + 1 \in Nat
          BY <1>1, <1>5, <1>7
      <3> QED
          BY <1>1, <2>3, <3>1 DEF PassedOn, Message, MessageType
    <2> HIDE DEF m, n, c
    <2>5. exact => Heads(r.found, n, m.initiator, c + 1)
        BY <1>11, <2>2
    <2> QED
        BY <1>1, <1>7, <2>4, <2>5 DEF RequestInOrder, Heads, Reach, Before
  <1> QED
      BY <1>1, <1>12, <1>13, <1>14, RequestKeeps

\* Every step keeps the invariant.
LEMMA NextLookupInv == LookupInv /\ [LookupNext]_lookupVars => LookupInv'
  <1> SUFFICES ASSUME LookupInv, [LookupNext]_lookupVars PROVE LookupInv'
      OBVIOUS
  <1>1. CASE Seek
    <2>1. WalkInv'
        BY <1>1, StepWalkInv DEF Seek, Next, LookupInv
    <2>2. request = [type |-> "none"] /\ ring = {} /\ UNCHANGED <<ring, exact, request>>
        BY <1>1 DEF Seek, Unasked
    <2> QED
        BY <2>1, <2>2
        DEF LookupInv, RingInOrder, RequestInOrder, AnswerIsOwner, Asked, Answered, Dropped, Unasked
  <1>2. CASE Choose
      BY <1>2, ChooseKeeps
  <1>3. CASE AskFinger
      BY <1>3, AskFingerKeeps
  <1>4. CASE AskJoin
      BY <1>4, AskJoinKeeps
  <1>5. CASE Hop
      BY <1>5, HopKeeps
  <1>6. CASE UNCHANGED lookupVars
    <2>1. UNCHANGED <<from, at, visited, ring, exact, request>>
        BY <1>6 DEF lookupVars
    <2> QED
        BY <2>1
        DEF LookupInv, WalkInv, TypeOK, Arc, RingInOrder, Owns, RequestInOrder, Heads, Reach,
            Before, AnswerIsOwner, Asked, Answered, Dropped, Unasked
  <1> QED
      BY <1>1, <1>2, <1>3, <1>4, <1>5, <1>6 DEF LookupNext

\* The invariant holds throughout a lookup.
LEMMA LookupInvAlways == LookupSpec => []LookupInv
  BY InitLookupInv, NextLookupInv, PTL DEF LookupSpec

\* A lookup walks as RingWalk does before it asks.
LEMMA LookupWalks == LookupSpec => Spec
  <1>1. LookupInit => Init
      BY DEF LookupInit
  <1>2. [LookupNext]_lookupVars => [Next]_vars
      BY DEF LookupNext, Seek, Choose, AskFinger, AskJoin, Hop, Next, vars, lookupVars
  <1> QED
      BY <1>1, <1>2, PTL DEF LookupSpec, Spec

\* Whoever answers a lookup or a JOIN names the owner of the identifier, in a ring of
\* any size whose nodes know their neighbours; with fingers out of date a node that
\* knows nobody else to ask may name itself.
THEOREM AnswersAreOwners == LookupSpec => []AnswerIsOwner
  <1>1. LookupInv => AnswerIsOwner
      BY DEF LookupInv
  <1> QED
      BY <1>1, LookupInvAlways, PTL

\* The monitor's reference for a finger is the owner of the identifier it starts at, in
\* a ring of any size.
THEOREM ReferencesAreOwners == LookupSpec => []ReferenceIsOwner
  <1>1. LookupInv => ReferenceIsOwner
    <2> SUFFICES ASSUME LookupInv, ring # {}, NEW n \in ring, NEW i \in FingerIndex,
                        FingerStart(n, i) = from
                 PROVE  M!genRefFingers(ring, n)[i] = at
        BY DEF ReferenceIsOwner
    <2>1. ring \subseteq Node /\ Owns(at, from) /\ from \in IdSpace
        BY DEF LookupInv, RingInOrder, WalkInv, TypeOK
    <2>2. Owns(M!genRefFingers(ring, n)[i], from)
        BY <2>1, ReferenceOwns
    <2> QED
        BY <2>1, <2>2, OneOwner
  <1> QED
      BY <1>1, LookupInvAlways, PTL

\* With exact fingers no lookup and no JOIN is dropped, and none is passed on more often
\* than there are fingers, in a ring of any size.
THEOREM ExactAreAnswered == LookupSpec => []ExactIsAnswered
  <1>1. LookupInv => ExactIsAnswered
      BY DEF LookupInv, RequestInOrder, Heads, ExactIsAnswered
  <1> QED
      BY <1>1, LookupInvAlways, PTL

\* In the ring the range tests are the arcs, and the walker stays on the circle.
THEOREM LookupRanges == LookupSpec => [](TypeOK /\ WalkedIsInRange /\ InsideIsInRangeNotInc)
  BY LookupWalks, WalkTypeCorrect, RangeCorrect, OpenRangeCorrect, PTL
=============================================================================
