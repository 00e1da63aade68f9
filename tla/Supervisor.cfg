SPECIFICATION FairSpec
CONSTANTS
    Children = {c1, c2, c3}
    NoChild  = NoChild
INVARIANTS Inv
PROPERTIES ThreadJoinedFirst HandlerInTime StopReturns
