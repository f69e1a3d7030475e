\* Sessions over two tables that are altered, and starts that retry.
SPECIFICATION Spec
CONSTANTS
    c1 = c1
    c2 = c2
    Cut = Cut
    Null = Null
    NoConn = NoConn
    NoEvent = NoEvent
    t1 = t1
    t2 = t2
    Tables = {t1, t2}
    Shapes <- MCShapes
    MaxAttempts = 3
    Conns = {c1, c2}
    MaxWire = 1
    MaxTx = 2
    MaxChanges = 2
    MaxTold = 2
INVARIANT TypeOK
INVARIANT RightUnlessAltered
INVARIANT PositionCovers
PROPERTY RetriesAsPromised
SYMMETRY PgSymmetry
CHECK_DEADLOCK FALSE
