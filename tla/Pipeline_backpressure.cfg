\* A snapshot or stream of one event more than the channel holds.
SPECIFICATION FairSpec
CONSTANTS
    Capacity = 2
    NumSinks = 2
    MaxRows  = 3
    MaxRuns  = 1
    Filtered <- SomeFiltered
PROPERTY BackpressureReleases
CHECK_DEADLOCK FALSE
