SPECIFICATION MCSpec
CONSTANTS
    Keys   = {1, 2, 3, 4}
    Data   = {d1, d2}
    NoData = NoData
    LenMax = 3
INVARIANTS SafeCache
PROPERTIES ImplementsExactLRU ImplementsForgetfulCache
SYMMETRY Symmetry
CHECK_DEADLOCK FALSE
