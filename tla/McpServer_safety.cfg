\* Three requests at once, two of them admitted, on two connectors.
SPECIFICATION Spec
CONSTANTS
    r1 = r1
    r2 = r2
    r3 = r3
    Requests = {r1, r2, r3}
    Names = {"a", "b"}
    Tools <- LifecycleTools
    TableCounts = {0, 2}
    MaxConcurrent = 2
    HasRegistry = TRUE
    MaxSnapshots = 2
SYMMETRY RequestSymmetry
INVARIANTS
    TypeOK
    RateLimited
    TotalAccounted
    SnapshottingHasTask
PROPERTIES
    NoResurrection
    ProgressKept
\* The process ends.
CHECK_DEADLOCK FALSE
