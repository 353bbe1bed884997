SPECIFICATION Spec
CONSTANTS
    MAX_UINT160 = 7
    Node = {0, 3, 5}
    MessageID <- IDs
    FingersSize = 3
    FingerMask <- Mask
    ConfSeed <- Seed
    CtxJoin = 1
    BootOrder <- Order035
    MaxID = 3
    Quiet = FALSE
    Commands <- Nothing
    MaxCommands = 0
INVARIANT TypeOK
INVARIANT OneExchange
INVARIANT AnswerFitsFinger
INVARIANT RequestsAnswered
PROPERTY OnlyLookupsMoveAway
PROPERTY PredecessorOnlyCloser
PROPERTY JoinAnswerArmsUpdate
