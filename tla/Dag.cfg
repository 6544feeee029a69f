\* Every graph of four nodes and up to six edges, some of them equal.
CONSTANTS
    n1 = n1
    n2 = n2
    n3 = n3
    n4 = n4
    Nodes <- FourNodes
    MaxParallelism = 2
    MaxParallelEdges = 2
    MaxEdges = 6
    OnError = {"Fail", "Continue", "Skip"}
SPECIFICATION Spec
SYMMETRY NodeSymmetry
INVARIANTS
    NoInternalError
    InputsComplete
    SkippedAreDownstream
    ResultsExplained
