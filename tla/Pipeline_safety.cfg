\* Channels of two, connector calls of up to three events (one too many), two
\* runs with snapshots, failures and stop() calls in between.
SPECIFICATION Spec
CONSTANTS
    Capacity = 2
    NumSinks = 2
    MaxRows  = 3
    MaxRuns  = 2
    Filtered <- SomeFiltered
INVARIANTS
    TypeOK
    OkMeansDone
    Accounted
    LossIsTail
PROPERTIES
    KeepsPromise
    CallsGetOn
\* The program may stop: nobody calls run() again, or the source is blocked.
CHECK_DEADLOCK FALSE
