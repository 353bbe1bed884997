SPECIFICATION Spec
CONSTANTS
    MAX_UINT160 = 3
    Node = {0, 2}
    MessageID <- IDs
    FingersSize = 2
    FingerMask <- Mask
    ConfSeed <- Seed
    CtxJoin = 1
    BootOrder <- Order2
    MaxID = 4
    Quiet = FALSE
    Commands <- Pauses
    MaxCommands = 1
INVARIANT FingerIndexInRange
CHECK_DEADLOCK FALSE
