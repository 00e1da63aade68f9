SPECIFICATION Spec
CONSTANTS
    Nothing     = Nothing
    IntMax      = 7
    LongestRun  = 1
    LongestList = 1
    LastNode    = 1
    Weights     = {1, 3}
    MostEdges   = 0
    Depth       = 1
    Letters     = {1, 2}
    LongestWord = 1
    Payloads    = {p1, p2}
    MostArguments = 2
    LONG    = 32
    SHORT   = 8
    Lengths = {0}
    Offsets = {0, 3, 7}
INVARIANTS AlgorithmAsTold
