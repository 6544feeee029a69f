\* Three callers under a bulkhead of two or of three, every call may be dropped,
\* reset() at any time, and an operation need not return.
CONSTANTS
    c1 = c1
    c2 = c2
    c3 = c3
    Callers <- ThreeCallers
    Cancellable <- ThreeCallers
    MaxFailures = 2
    HalfOpenMax = 2
    Timeout = 2
    Resettable = TRUE
    Limits = {2, 3}
    MaxAttempts = 2
SPECIFICATION PolicyFairSpec
INVARIANTS
    ClosedBelowThreshold
    ProbesBounded
    SaturatedHasProbe
    CallbacksAccountForState
    BulkheadSound
PROPERTIES
    OpenForTimeout
    Recovers
    CallsReturn
