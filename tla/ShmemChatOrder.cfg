SPECIFICATION FairSpec
CONSTANTS
    MaxLines = 3
    Patient  = FALSE
INVARIANTS NoBusError
