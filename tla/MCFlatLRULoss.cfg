SPECIFICATION MCSpec
CONSTANTS
    Keys   = {1, 2, 3, 4}
    Data   = {d1, d2}
    NoData = NoData
    LenMax = 2
PROPERTIES NoSilentLoss
CHECK_DEADLOCK FALSE
