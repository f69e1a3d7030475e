\* Two requests compete for one permit on one connector, with every tool but
\* connector_remove; what was asked for is done unless the process ends, and
\* snapshots follow one another.
SPECIFICATION FairSpec
CONSTANTS
    r1 = r1
    r2 = r2
    r3 = r3
    Requests = {r1, r2}
    Names = {"a"}
    Tools <- NoRemoval
    TableCounts = {1}
    MaxConcurrent = 1
    HasRegistry = TRUE
    MaxSnapshots = 2
INVARIANT
    StatusTracksTask
PROPERTIES
    Answered
    SnapshotsEnd
\* The process ends.
CHECK_DEADLOCK FALSE
