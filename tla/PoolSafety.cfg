\* Four tasks under each policy, while the owner ends the pool in any way.
CONSTANTS
    t1 = t1
    t2 = t2
    t3 = t3
    t4 = t4
    Tasks <- FourTasks
    Policies = {"Block", "Reject", "DropOldest"}
    Capacity = 2
    Size = 2
    LongRunning = {}
    Endings = {"closed", "waiting", "dropping"}
CHECK_DEADLOCK FALSE
SPECIFICATION Spec
SYMMETRY TaskSymmetry
INVARIANTS
    PermitsConserved
    QueueSound
    NoLostWakeup
    NoStrandedTask
PROPERTIES
    ImplementsPool
