CONSTANTS
    NULL = NULL
    Customer = {c1, c2}
    Run = {r1, r2}
    Reading <- MCReading
    Polls <- MCPolls
    Patches <- MCPatches
    MaxScores = 3
SYMMETRY MCSymmetry
SPECIFICATION Spec
INVARIANTS
    RunsTypeOK
    CacheIsNewest
    NoScoreIsCutShort
PROPERTIES
    AlarmsHaveASource
