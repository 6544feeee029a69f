\* Blocked submitters return, handles resolve, and the pool ends, although one
\* handler returns only when it is cancelled.
CONSTANTS
    t1 = t1
    t2 = t2
    t3 = t3
    t4 = t4
    Tasks <- ThreeTasks
    Policies = {"Block"}
    Capacity = 1
    Size = 1
    LongRunning = {t1}
    Endings = {"closed", "waiting", "dropping"}
CHECK_DEADLOCK FALSE
SPECIFICATION FairSpec
PROPERTIES
    SubmittersReturn
    HandlesResolve
    PoolEnds
