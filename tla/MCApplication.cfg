SPECIFICATION FairSpec
CONSTANTS
    Plan <- Plans
    Contents = {"a", "b"}
    MaxTime = 3
    MaxAmount = 5
INVARIANT TypeOK
INVARIANT EventHasRequest
INVARIANT NoneForgotten
PROPERTY KeepsPlan
\* A plan comes to its end.
CHECK_DEADLOCK FALSE
