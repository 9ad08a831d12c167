CONSTANTS
    NULL = NULL
    c1 = c1
    c2 = c2
    w1 = w1
    w2 = w2
    r1 = r1
    r2 = r2
    k1 = k1
    Candidate <- MCCandidate
    WorkOrder <- MCWorkOrder
    Request <- MCRequest
    Key <- MCKey
    PatchTo <- MCPatchTo
    OrderMoves <- MCOrderMoves
    Cooldowns <- MCCooldowns
    MaxNow = 1
SPECIFICATION Spec
SYMMETRY MCSymmetry
INVARIANTS
    PromotedLink
    OpenDuplicatesWereRivals
PROPERTIES
    OneOrderPerOpening
