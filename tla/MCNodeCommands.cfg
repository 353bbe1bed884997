SPECIFICATION Spec
CONSTANTS
    o1 = o1  o2 = o2  o3 = o3  f1 = f1
    MAX_UINT160 = 3
    Node = {0, 2, 3}
    MessageID = {o1, o2, o3, f1}
    FingersSize = 2
    FingerMask <- Mask
    ConfSeed <- Seed
    CtxJoin = 0
    Self = 0
    OwnID = {o1, o2, o3}
    Commands = {"HARD_RESET", "FLUSH", "PAUSE", "CONTINUE"}
    Hops = {0, 4}
    MaxTimers = 2
    MaxUpdateTimers = 2
    MaxIndex = 3
SYMMETRY OwnIDSymmetry
INVARIANT SuccessorIsFinger0
INVARIANT OneUpdateTimer
CHECK_DEADLOCK FALSE
