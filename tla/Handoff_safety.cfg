\* All three connectors on a log of three changes at positions 4, 6, 8 and 10.
SPECIFICATION Spec
CONSTANTS
    t1 = t1
    t2 = t2
    v1 = v1
    v2 = v2
    none = none
    Kinds = {"postgres", "mysql", "mongodb"}
    Tables = {t1, t2}
    Rows = {v1, v2}
    NoRow = none
    FirstLsn = 4
    LsnStep = 2
    MaxChanges = 3
SYMMETRY DataSymmetry
INVARIANTS
    TypeOK
    LossIsWindow
    AgreedPosition
    NoReplay
    EndsAtRefusal
\* The log is bounded.
CHECK_DEADLOCK FALSE
