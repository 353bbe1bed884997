----------------------------- MODULE RingWalk -----------------------------
(***************************************************************************)
(* The reference definition of the two range tests: a walker starts at      *)
(* `from' and steps clockwise, one identifier at a time, once round the     *)
(* circle.  The arc from `from' to where it stands is the set of            *)
(* identifiers it has stood on.                                             *)
(***************************************************************************)
EXTENDS RingIds

VARIABLES from,       \* where the walk starts, chosen once
          at,         \* where the walker stands
          visited     \* the identifiers it has stood on

vars == <<from, at, visited>>

\* The walker stays on the circle: clockwise steps wrap round at MAX_UINT160.
TypeOK == /\ from \in IdSpace
          /\ at \in IdSpace
          /\ visited \subseteq IdSpace

Init == /\ from \in IdSpace
        /\ at = from
        /\ visited = {from}

Walk == /\ Plus(at, 1) # from
        /\ at' = Plus(at, 1)
        /\ visited' = visited \cup {at'}
        /\ UNCHANGED from

Next == Walk

Spec == Init /\ [][Next]_vars

\* What has been walked so far is exactly what isInRangeOverZero says of the
\* arc from `from' to where the walker stands: the three-interval test of
\* inc.cpp is the inclusive clockwise arc, across zero or not.
WalkedIsInRange ==
    \A id \in IdSpace : id \in visited <=> isInRangeOverZero(id, from, at)

\* The open test of inc.cpp is the walked arc without its ends, and, for an arc
\* that starts and ends at one identifier, everything but that identifier (a
\* node that is its own predecessor accepts any other as predecessor).
InsideIsInRangeNotInc ==
    \A id \in IdSpace :
        isInRangeOverZeroNotInc(id, from, at) <=>
            IF at = from THEN id # from ELSE id \in visited \ {from, at}
=============================================================================
