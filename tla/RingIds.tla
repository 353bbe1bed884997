------------------------------ MODULE RingIds ------------------------------
(***************************************************************************)
(* The identifier circle of the Transport+ Chord: identifiers of W bits     *)
(* (type uint160 of inc.h), clockwise order, and the two range tests of     *)
(* src/Sample4/src/inc.cpp that every routing and pointer decision of a     *)
(* node is made with.                                                       *)
(*                                                                          *)
(* MAX_UINT160 is a parameter: 2^W - 1 in the program, with W = 4, 10 or 20 *)
(* (readme.md).  Nothing below depends on it being of that form.            *)
(***************************************************************************)
EXTENDS Integers

CONSTANT MAX_UINT160      \* the greatest identifier, MAX_UINT160 of inc.h

ASSUME MaxAssumption == MAX_UINT160 \in Nat \ {0}

IdSpace == 0 .. MAX_UINT160
IdCount == MAX_UINT160 + 1

\* A plausible slip of the range test below: the part of the arc beyond zero
\* is forgotten.
isInRangeForgetsZero(id, from, to) ==
    IF from <= to THEN from <= id /\ id <= to
                  ELSE from <= id /\ id <= MAX_UINT160

\* id lies on the clockwise arc from `from' to `to', both ends included.  The
\* over-zero branch tests three intervals, the first against MAX_UINT160 + to,
\* a sum of W + 8 bits.
isInRangeOverZero(id, from, to) ==
    IF from <= to
    THEN from <= id /\ id <= to
    ELSE \/ from <= id /\ id <= MAX_UINT160 + to
         \/ from <= id /\ id <= MAX_UINT160
         \/ 0 <= id /\ id <= to

\* A plausible slip of the open range test: <= kept from the inclusive test,
\* so that the arc from a node to itself is empty instead of full.
isInRangeNotIncEmptyLoop(id, from, to) ==
    IF from <= to
    THEN from < id /\ id < to
    ELSE (from < id /\ id <= MAX_UINT160) \/ (0 <= id /\ id < to)

\* id lies strictly inside the arc; the arc from an identifier to itself is
\* the whole circle but that identifier.
isInRangeOverZeroNotInc(id, from, to) ==
    IF from < to
    THEN from < id /\ id < to
    ELSE \/ from < id /\ id < MAX_UINT160 + to
         \/ from < id /\ id <= MAX_UINT160
         \/ 0 <= id /\ id < to

\* Plausible slips: arithmetic that does not wrap.
PlusUnbounded(id, offset)  == id + offset
MinusUnbounded(id, offset) == id - offset

\* sc_biguint<W> addition and subtraction of an offset 0 .. MAX_UINT160: the
\* result is truncated to W bits.
Plus(id, offset)  == IF id + offset > MAX_UINT160 THEN id + offset - IdCount
                                                   ELSE id + offset
Minus(id, offset) == IF id < offset THEN id - offset + IdCount ELSE id - offset

-----------------------------------------------------------------------------
(* What the range tests are for: distances walked clockwise. *)

Dist(from, to) == IF from <= to THEN to - from ELSE to - from + IdCount

OnArc(id, from, to) == Dist(from, id) <= Dist(from, to)

InsideArc(id, from, to) ==
    /\ id # from
    /\ from = to \/ Dist(from, id) < Dist(from, to)
=============================================================================
