SPECIFICATION Spec
CONSTANTS
    Paths = {a, b}
    Uids = {u, v}
    Versions = {m, n}
    Jobs = {"s"}
    CliScans = {"t"}
    MaxBatch = 2
    MaxTroubles = 1
SYMMETRY Symmetric
INVARIANTS QuietScanAgrees RemovedLeavesNothing JobsTellTheOutcome
PROPERTIES DeletedWasMissing
CHECK_DEADLOCK FALSE
