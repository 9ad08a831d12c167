CONSTANTS
    NULL = NULL
    Runner = {r1, r2}
    Table = {"devices", "thresholds", "work_orders"}
    Column = {"status", "tower_id"}
    Files <- MCFiles
SYMMETRY MCSymmetry
SPECIFICATION Spec
INVARIANTS
    RecordIsOfItsText
    AppliedIsRecorded
    RecordedInOrder
PROPERTIES
    RecordsStay
