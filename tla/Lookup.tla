------------------------------- MODULE Lookup -------------------------------
(***************************************************************************)
(* One lookup in a ring whose nodes know their neighbours: a node asks for  *)
(* the owner of a finger, or a newcomer joins, and the request is passed    *)
(* from node to node by the handlers of LowLatencyChord until one of them   *)
(* answers.                                                                 *)
(*                                                                          *)
(* The answer is checked against the walker of RingWalk: it starts at the   *)
(* identifier looked for, and the first node it meets is the owner.  When   *)
(* it stands at `at', any ring may be chosen in which it has met no node    *)
(* before.                                                                  *)
(***************************************************************************)
EXTENDS RingWalk, LowLatencyChord, FiniteSetsExt

CONSTANTS
    MaxExact,   \* bound on the size of a ring with exact fingers
    MaxStale    \* and of one with fingers that may be out of date

VARIABLES
    ring,       \* the nodes of the ring; none before it has been chosen
    exact,      \* the fingers are those of the monitor's reference
    request     \* the message on its way, the answer in the end

lookupVars == <<from, at, visited, ring, exact, request>>

\* m_fingerMask, and the number of fingers main.cpp gives a node: the last finger
\* starts half-way round the circle.
ASSUME MaskAssumption ==
    /\ FingerMask[0] = 1
    /\ \A i \in FingerIndex : i + 1 \in FingerIndex => FingerMask[i + 1] = 2 * FingerMask[i]
    /\ IdCount = 2 * FingerMask[FingersSize - 1]

ASSUME MessageIDAssumption == MessageID # {}

M == INSTANCE Monitor WITH m_fingersSize <- FingersSize, m_mask <- FingerMask

Unasked == [type |-> "none"]
Dropped == [type |-> "dropped"]

\* The neighbours of n.
Before(n) == IF ring = {n} THEN n
             ELSE CHOOSE p \in ring \ {n} : \A m \in ring \ {n} : Dist(p, n) <= Dist(m, n)
After(n)  == IF ring = {n} THEN n
             ELSE CHOOSE p \in ring \ {n} : \A m \in ring \ {n} : Dist(n, p) <= Dist(n, m)

\* A node that has joined: of its fingers only finger 0, the successor, is sure.
Joined(n, successor) ==
    [Off(n) EXCEPT !.state = "IDLE", !.predecessor = Before(n), !.successor = successor,
                   !.cwFingers = [i \in FingerIndex |-> successor],
                   !.isUpdated = FingerIndex, !.isSuccessorSet = TRUE, !.seedAddrs = <<n>>]

Tables(n, successor) ==
    IF exact THEN {M!genRefFingers(ring, n)}
             ELSE {f \in [FingerIndex -> ring] : f[0] = successor}

\* The states n may be in.
States(n) ==
    UNION {{[joined EXCEPT !.cwFingers = f] : f \in Tables(n, joined.successor)} :
               joined \in {Joined(n, After(n))}}

mid == CHOOSE id \in MessageID : TRUE

\* What a handler sends besides the ACK; nothing when the request is dropped.
Sent(s) ==
    LET others == {i \in DOMAIN s.tx : s.tx[i].type # "ACK"}
    IN  IF others = {} THEN Dropped ELSE s.tx[CHOOSE i \in others : TRUE]

-----------------------------------------------------------------------------
LookupInit == /\ Init
              /\ ring = {}
              /\ exact = FALSE
              /\ request = Unasked

\* The walk to the owner goes on until the ring is chosen.
Seek == /\ request = Unasked /\ ring = {}
        /\ Walk
        /\ UNCHANGED <<ring, exact, request>>

\* A ring in which the walker has met its first node.
Choose ==
    /\ ring = {}
    /\ exact' \in BOOLEAN
    /\ \E k \in 0 .. (IF exact' THEN MaxExact ELSE MaxStale) - 1 :
       \E others \in kSubset(k, Node \ visited) :
           /\ at \in Node
           /\ ring' = others \cup {at}
    /\ UNCHANGED <<from, at, visited, request>>

\* A node of the ring asks for the finger that starts at `from'.  One that would ask
\* itself sends nothing.
AskFinger ==
    /\ ring # {} /\ request = Unasked
    /\ \E n \in ring, i \in FingerIndex :
        /\ FingerStart(n, i) = from
        /\ \E asking \in States(n) :
            LET s == issueFindSuccessor([asking EXCEPT !.cwFingerIndex = i], mid)
            IN  s.tx # <<>> /\ request' = Sent(s)
    /\ UNCHANGED <<from, at, visited, ring, exact>>

\* A newcomer just before `from' joins by any node of the ring.
AskJoin ==
    /\ ring # {} /\ request = Unasked
    /\ Minus(from, 1) \in Node \ ring
    /\ \E seed \in ring :
        LET n == Minus(from, 1)
        IN  request' = [createMessage(Off(n), "JOIN", seed, mid, from) EXCEPT !.isJoin = TRUE]
    /\ UNCHANGED <<from, at, visited, ring, exact>>

\* The node the request has come to handles it.
Hop ==
    /\ request.type \in {"JOIN", "FIND_SUCCESSOR"}
    /\ \E asked \in States(request.dest) : \E s \in received(asked, request, mid) :
           request' = Sent(s)
    /\ UNCHANGED <<from, at, visited, ring, exact>>

LookupNext == Seek \/ Choose \/ AskFinger \/ AskJoin \/ Hop

LookupSpec == LookupInit /\ [][LookupNext]_lookupVars

-----------------------------------------------------------------------------
Asked    == request.type \in {"JOIN", "FIND_SUCCESSOR"}
Answered == request.type = "SUCCESSOR"

\* Whoever answers a lookup or a JOIN names the owner of the identifier.  The one
\* exception is a node that knows nobody it could ask, as its fingers are out of
\* date: it names itself, and is wrong.
AnswerIsOwner == Answered =>
    \/ request.searched = at
    \/ ~exact /\ request.searched = request.src

\* With exact fingers no lookup and no JOIN is lost: it does not go round in
\* circles until the hop limit drops it, but is passed on at most once per finger.
ExactIsAnswered == exact =>
    /\ request # Dropped
    /\ Asked => request.retransmitCounter <= FingersSize

\* The monitor's reference for the finger that starts at `from' is the owner, the
\* first node the walker meets.
ReferenceIsOwner == ring # {} /\ request = Unasked =>
    \A n \in ring, i \in FingerIndex :
        FingerStart(n, i) = from => M!genRefFingers(ring, n)[i] = at
=============================================================================
