SPECIFICATION FairSpec
CONSTANTS
    Children   = {c1, c2, c3}
    Main       = main
    Values     = {1, 2}
    Capacity   = 2
    Iterations = 2
INVARIANTS Inv SafeQueue AllConsumed
PROPERTIES ImplementsFifo Termination AbortStrandsChildren
