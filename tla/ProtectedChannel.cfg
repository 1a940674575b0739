SPECIFICATION FairSpec
CONSTANTS
    t1 = t1
    t2 = t2
    None = None
    Threads <- TwoThreads
    MaxGeneration = 2
    ClientSpan = 2
    Carriers <- FirstBoth
INVARIANTS
    TypeOK
    ClosedByOne
    NoLostGeneration
    ReplacementJoins
    LiveGenerationOwnsPort
    ClosedLeavesNothing
PROPERTIES
    CloseReturns
    StopClosesAll
CHECK_DEADLOCK FALSE
