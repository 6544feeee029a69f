\* Three threads that append to, flush, sweep and close the accumulators of two keys.
CONSTANTS
    t1 = t1
    t2 = t2
    t3 = t3
    k1 = k1
    k2 = k2
    Threads = {t1, t2, t3}
    Keys = {k1, k2}
    Ops = {"append", "flush", "cleanup_expired", "close"}
    MaxOps = 4
    MaxSize = 2
    Threshold = 2
    KeepAlive = TRUE
CHECK_DEADLOCK FALSE
SYMMETRY Symmetries
SPECIFICATION Spec
INVARIANTS
    ClosedExactlyOnce
    ValuesConserved
    QuietWithinLimits
