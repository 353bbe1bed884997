SPECIFICATION Spec
CONSTANTS
    MAX_UINT160 = 3
    Node = {0, 2, 3}
    MessageID <- IDs
    FingersSize = 2
    FingerMask <- Mask
    ConfSeed <- Seed
    CtxJoin = 1
    BootOrder <- Order032
    MaxID = 4
    Quiet = TRUE
    Commands <- Reset3
    MaxCommands = 1
PROPERTY JoinAnswerArmsUpdate
