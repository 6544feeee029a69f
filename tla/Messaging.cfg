\* A client, two copies of a message, a channel that overflows, two loops.
CONSTANTS
    p1 = p1
    p2 = p2
    MaxSends = 2
    Capacity = 1
    Producers = {p1}
    MaxSize = 2
    Stack <- DedupOutermost
    MaxAttempts = 2
    WindowSize = 1
    IdOf <- TwoCopies
    Wanted <- FirstTwo
    MaxStarts = 2
CHECK_DEADLOCK FALSE
SPECIFICATION FairSpec
INVARIANTS
    MessagesConserved
    
    NoSilentLoss
PROPERTIES
    MessagingEnds
