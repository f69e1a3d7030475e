\* Connector calls that fit the channel, under the runtime's fairness.
SPECIFICATION FairSpec
CONSTANTS
    Capacity = 2
    NumSinks = 2
    MaxRows  = 2
    MaxRuns  = 2
    Filtered <- SomeFiltered
PROPERTY CallsReturn
CHECK_DEADLOCK FALSE
