CONSTANTS
    NULL = NULL
    Runner = {r1}
    Table = {"devices", "thresholds", "work_orders"}
    Column = {"status", "tower_id"}
    Files <- MCFiles
SPECIFICATION Spec
INVARIANT UndisturbedRunsSucceed
