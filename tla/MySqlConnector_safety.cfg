\* Sessions over two tables that are altered, with packets that hide events.
SPECIFICATION ConnectorSpec
CONSTANTS
    Null = Null
    t1 = t1
    t2 = t2
    Tables = {t1, t2}
    Bits <- MCBits
    Shapes <- MCShapes
    RowLists <- MCRowLists
    Lists <- MCLists
    Results <- MCResults
    MaxAttempts = 2
    MaxOpened = 2
    MaxWire = 1
    MaxEvents = 2
    MaxRows = 2
INVARIANT TypeOK
INVARIANT StreamsLetIn
INVARIANT RowsAreRight
INVARIANT RowsAreComplete
INVARIANT SnapshotIsRight
PROPERTY RetriesAsPromised
SYMMETRY MySqlSymmetry
CHECK_DEADLOCK FALSE
