\* A run whose future is dropped after its leader was collected.

CONSTANTS
    k1 = k1
    shutdown = shutdown
    backstop = backstop
    Children = {k1}
    Passes = {shutdown, backstop}
    Detached = {backstop}
    Fanout = 1
    Policies <- AllPolicies
CHECK_DEADLOCK FALSE
SPECIFICATION Spec
INVARIANTS
    NoOrphanEver
