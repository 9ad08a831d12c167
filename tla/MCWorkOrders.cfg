CONSTANTS
    NULL = NULL
    w1 = w1
    r1 = r1
    r2 = r2
    ann = ann
    bob = bob
    eta1 = eta1
    WorkOrder <- MCWorkOrder
    Request <- MCRequest
    Assignee <- MCAssignee
    Eta <- MCEta
    Promotions <- MCPromotions
    PatchInputs <- MCPatchInputs
    AppendTypes <- MCAppendTypes
    MaxTx = 4
SPECIFICATION FairSpec
INVARIANTS
    ResolvedStamp
    TimelineExplainsRow
PROPERTIES
    ClosedIsFrozen
    ImplementsLifecycle
    EveryRequestEnds
\* MaxTx ends every behaviour.
CHECK_DEADLOCK FALSE
