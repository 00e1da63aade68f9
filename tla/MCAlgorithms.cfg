SPECIFICATION MCSpec
CONSTANTS
    Nothing     = Nothing
    NoBuffer    = NoBuffer
    IntMax      = 7
    LongestRun  = 7
    LongestList = 3
    LastNode    = 3
    Weights     = {1, 3}
    MostEdges   = 5
    Depth       = 3
    Letters     = {1, 2}
    LongestWord = 2
    Payloads    = {p1, p2}
    MostArguments = 4
    LONG    = 32
    SHORT   = 8
    Lengths = {0, 3, 8, 20, 29, 131}
    Offsets = {0, 3, 7}
INVARIANTS ResultsRight PathsFinal TraversalsRight PrefixTreeIsMap ArgumentsRight
           CrcRight TestsPass
PROPERTIES Returns
