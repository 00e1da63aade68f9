SPECIFICATION FairSpec
CONSTANTS
    MaxLines = 3
    Patient  = TRUE
INVARIANTS Alternation NoBusError
PROPERTIES Answered
