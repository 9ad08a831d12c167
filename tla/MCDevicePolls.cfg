CONSTANTS
    NULL = NULL
    Call = {c1, c2}
    Replies <- MCReplies
    Station = {s1}
SPECIFICATION Spec
INVARIANTS
    MirrorFollowsCalls
    SnapshotIsWholeOrTold
    CapabilitiesAreProven
PROPERTIES
    CapabilitiesStay
    CallsEnd
CHECK_DEADLOCK FALSE
