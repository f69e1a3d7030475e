\* Two snapshot_start handlers run at the same time.
SPECIFICATION Spec
CONSTANTS
    r1 = r1
    r2 = r2
    r3 = r3
    Requests = {r1, r2}
    Names = {"a"}
    Tools <- SnapshotTools
    TableCounts = {1}
    MaxConcurrent = 2
    HasRegistry = FALSE
    MaxSnapshots = 2
INVARIANT OneSnapshot
\* The process ends.
CHECK_DEADLOCK FALSE
