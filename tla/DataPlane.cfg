SPECIFICATION FairSpec
CONSTANTS
    FromClient = 2
    FromBase = 1
    Window = 1
    None = None
INVARIANTS
    TypeOK
    InOrder
    ClosedAfterLastByte
    NothingLeft
PROPERTIES
    PipeReturns
CHECK_DEADLOCK FALSE
