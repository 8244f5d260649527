SPECIFICATION FairSpec
CONSTANTS
    Query = {q1, q2}
    MaxRows = 2
    RowBound = 3
    None = None
INVARIANTS
    RowsOnlyUnderLock
    ReadOnlyWhereSupported
PROPERTIES
    ConnectionsReleased
    ImplementsOneQuery
CHECK_DEADLOCK FALSE
