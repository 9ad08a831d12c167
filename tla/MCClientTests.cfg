CONSTANTS
    NULL = NULL
    Counts <- MCCounts
    Latency <- MCLatency
    MaxHops = 3
SPECIFICATION Spec
INVARIANTS
    VerdictMatchesPings
    CutShortAccusesNobody
CHECK_DEADLOCK FALSE
