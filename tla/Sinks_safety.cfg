\* Up to three writes, of any of the sinks, in any order and overlap.
SPECIFICATION Spec
CONSTANTS
    Null = Null
    r1 = r1
    r2 = r2
    l1 = l1
    l2 = l2
    RestSinks = {r1, r2}
    LakeSinks = {l1, l2}
    Chain <- MCChain
    Batches <- MCBatches
    MaxWrites = 3
INVARIANT TypeOK
INVARIANT CommittedOnce
INVARIANT RowsStay
INVARIANT BatchesReadBack
SYMMETRY SinksSymmetry
CHECK_DEADLOCK FALSE
