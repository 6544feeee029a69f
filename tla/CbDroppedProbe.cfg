\* The same recovery question when one caller's future may be dropped.
CONSTANTS
    c1 = c1
    c2 = c2
    c3 = c3
    Callers <- TwoCallers
    Cancellable = {c1}
    MaxFailures = 1
    HalfOpenMax = 1
    Timeout = 1
    Resettable = FALSE
SPECIFICATION FairSpec
PROPERTIES
    HalfOpenResolves
