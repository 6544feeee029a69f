\* One client: every operation, failures, timeouts, panics, a cancelled start, and
\* components that never answer.
CONSTANTS
    c1 = c1
    Clients = {c1}
    N = 3
    Ops = {"start_all", "start_all_concurrent", "stop_all"}
    MaxOps = 3
    Concurrency = 2
    UserCancels = TRUE
CHECK_DEADLOCK FALSE
SPECIFICATION FairSpec
INVARIANTS
    NoLeak
    AllOrNothing
    NoneRunsAfterStop
PROPERTIES
    Order
    OpsReturn
