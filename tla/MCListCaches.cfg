SPECIFICATION MCSpec
CONSTANTS
    Keys    = {1, 2, 3, 4}
    Data    = {d1, d2}
    NoData  = NoData
    LenMax  = 3
    Nodes   = {n1, n2, n3}
    Buckets = {b1, b2, b3, b4}
    MaxFreq = 3
INVARIANTS SafeCache LFUSafe
PROPERTIES ImplementsLRU ImplementsLFU
SYMMETRY Symmetry
CHECK_DEADLOCK FALSE
