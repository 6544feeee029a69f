\* The stack of the StackBuilder example: retry around dedup.
CONSTANTS
    p1 = p1
    p2 = p2
    MaxSends = 3
    Capacity = 2
    Producers = {p1}
    MaxSize = 2
    Stack <- RetryOutermost
    MaxAttempts = 2
    WindowSize = 1
    IdOf <- Ids
    Wanted <- FirstTwo
    MaxStarts = 1
CHECK_DEADLOCK FALSE
SPECIFICATION Spec
INVARIANTS
    NoSilentLoss
