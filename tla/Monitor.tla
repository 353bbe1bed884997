------------------------------ MODULE Monitor ------------------------------
(***************************************************************************)
(* The reference the monitor compares finger tables with: genRefFingers of  *)
(* mntr/monitor.cpp, computed from the nodes that run, without messages.    *)
(***************************************************************************)
EXTENDS RingIds, FiniteSetsExt

CONSTANTS
    m_fingersSize,   \* how many fingers a table has
    m_mask           \* what the start of finger i is off by

\* The next node after a in increasing order, the least one after the greatest.
nextAddr(addrs, a) ==
    LET greater == {b \in addrs : b > a}
    IN  IF greater = {} THEN Min(addrs) ELSE Min(greater)

\* A plausible slip: the first node before the start instead of after it.
genRefFingersBefore(addrs, currNodeAddr) ==
    [i \in 0 .. m_fingersSize - 1 |->
        LET expected == Plus(currNodeAddr, m_mask[i])
            before   == {a \in addrs : a <= expected}
        IN  IF before = {} THEN Max(addrs) ELSE Max(before)]

\* genRefFingers, clockwise: the nodes are gone through from the greatest to the
\* least until the start of the finger is a node, or lies between a node and the
\* next one, which then is the reference.  Found nowhere, it stays the node itself.
genRefFingers(addrs, currNodeAddr) ==
    LET isFound(a, expected) == \/ a = expected
                                \/ isInRangeOverZero(expected, a, nextAddr(addrs, a))
        refOf(expected) ==
            LET found == {a \in addrs : isFound(a, expected)}
            IN  IF found = {} THEN currNodeAddr
                ELSE IF Max(found) = expected THEN expected
                ELSE nextAddr(addrs, Max(found))
    IN  [i \in 0 .. m_fingersSize - 1 |-> refOf(Plus(currNodeAddr, m_mask[i]))]
=============================================================================
