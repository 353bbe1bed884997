SPECIFICATION FairSpec
CONSTANTS
    Port <- MCPort
    Content = {a, b}
    Latency <- MCLatency
    Disperse <- MCDisperse
    MaxLatency = 4
    MaxBuff = 2
INVARIANTS
    TypeOK
    NoLostWakeup
    TravellerExists
    OneArrival
    Punctual
PROPERTY QueuesPorts
