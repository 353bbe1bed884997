SPECIFICATION FairSpec
CONSTANTS
    Buffers = 4
    Immediate = {1}
    MaxDeep <- MCMaxDeep
    MaxSize <- MCMaxSize
    Outside = {1, 2, 4}
    Produces <- MCProduces
    Flushing = {1}
    Slot = {s1, s2}
    Timeout = {1, 2}
    MaxArrivals = 4
INVARIANTS
    TypeOK
    NoLostWakeup
    OnTime
    PassedAtMost
PROPERTY WorkedOff
