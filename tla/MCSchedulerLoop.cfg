CONSTANTS
    NULL = NULL
    c1 = c1
    c2 = c2
    g1 = g1
    g2 = g2
    Check <- MCCheck
    Goroutine <- MCGoroutine
    Inputs <- MCInputs
    Concurrency = 2
    MaxRuns = 1
SPECIFICATION FairSpec
INVARIANTS
    TypeOK
    SlotsAccounted
    DrainedWhenStopped
PROPERTIES
    EveryDueCheckRuns
    WithdrawnChecksStop
