SPECIFICATION LookupSpec
CONSTANTS
    MAX_UINT160 = 15
    Node <- AllIds
    MessageID = {x}
    FingersSize = 4
    FingerMask <- Mask
    ConfSeed <- Seed
    CtxJoin = 0
    MaxExact = 5
    MaxStale = 3
INVARIANT TypeOK
INVARIANT WalkedIsInRange
INVARIANT InsideIsInRangeNotInc
INVARIANT AnswerIsOwner
INVARIANT ReferenceIsOwner
INVARIANT ExactIsAnswered
CHECK_DEADLOCK FALSE
