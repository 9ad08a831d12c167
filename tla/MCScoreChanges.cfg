CONSTANTS
    NULL = NULL
    Values <- MCValues
    PeerCounts <- MCPeerCounts
    Ages <- MCAges
    Symptoms <- MCSymptoms
    Settings <- MCSettings
SPECIFICATION ChangesSpec
INVARIANTS
    ChangesTypeOK
    LostPointsAreDiagnosed
PROPERTIES
    WorseNeverScoresBetter
