\* Three components, hooks in every phase; a before_stop hook may hang.
CONSTANTS
    Clients = {"app"}
    N = 3
    Ops = {"start_all", "stop_all"}
    MaxOps = 2
    Concurrency = 1
    UserCancels = FALSE
    Hooks <- OneOrTwoHooks
    HangingHooks = {"before_stop"}
CHECK_DEADLOCK FALSE
SPECIFICATION AppFairSpec
INVARIANTS
    ReleasedInOrder
    AllUpOrDown
    OkMeansClean
PROPERTIES
    StopEnds
