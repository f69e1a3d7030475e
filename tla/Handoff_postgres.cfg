\* A snapshot and the stream after it; the first change ends at position 10, the
\* first with two digits.
SPECIFICATION Spec
CONSTANTS
    t1 = t1
    t2 = t2
    v1 = v1
    v2 = v2
    none = none
    Kinds = {"postgres"}
    Tables = {t1, t2}
    Rows = {v1, v2}
    NoRow = none
    FirstLsn = 8
    LsnStep = 2
    MaxChanges = 3
SYMMETRY DataSymmetry
INVARIANT StreamsFromSnapshot
\* The log is bounded.
CHECK_DEADLOCK FALSE
