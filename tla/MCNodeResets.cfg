SPECIFICATION Spec
CONSTANTS
    o1 = o1  o2 = o2  o3 = o3  f1 = f1
    MAX_UINT160 = 3
    Node = {0, 2}
    MessageID = {o1, o2, o3, f1}
    FingersSize = 2
    FingerMask <- Mask
    ConfSeed <- Seeds
    CtxJoin = 1
    Self = 0
    OwnID = {o1, o2, o3}
    Commands = {"HARD_RESET", "SOFT_RESET"}
    Hops = {0, 4}
    MaxTimers = 4
    MaxUpdateTimers = 2
    MaxIndex = 3
SYMMETRY OwnIDSymmetry
INVARIANT TypeOK
INVARIANT LockHasTimer
INVARIANT JoiningOrUpdating
CHECK_DEADLOCK FALSE
