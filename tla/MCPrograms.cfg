SPECIFICATION FairSpec
CONSTANTS
    Idle      = Idle
    Main      = main
    Workers   = {w1, w2, w3}
    Permits   = 2
    PerWorker = 3
    IntMax    = 7
    Consumers  = {c1, c2, c3}
    Capacity   = 2
    Iterations = 3
    IncomingPeriods   = {1, 3}
    ProcessingPeriods = {0, 1, 3, 8, 9, 10}
    ProcessorCounts   = {0, 1, 3}
    MaxFrames         = 8
INVARIANTS CountersSafe AssertionIffAllFits QueueSafe PipelineSafe KeepsUp
           EventLoopsSafe ForksSafe
PROPERTIES EveryProgramEnds
