\* A child under every policy, and two overlapping shutdown passes, one of
\* which may be dropped.
CONSTANTS
    k1 = k1
    shutdown = shutdown
    backstop = backstop
    Children = {k1}
    Passes = {shutdown, backstop}
    Detached = {backstop}
    Fanout = 1
    Policies <- AllPolicies
CHECK_DEADLOCK FALSE
SPECIFICATION FairSpec
INVARIANTS
    ClaimsHeld
    NoOrphan
PROPERTIES
    ShutdownHonest
    Ends
