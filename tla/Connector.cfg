SPECIFICATION FairSpec
CONSTANTS
    Task = {t1, t2}
    None = None
INVARIANTS
    TypeOK
    OneLiveTask
    AddressOfLiveTunnel
PROPERTIES
    CancelledEnds
    Settles
    RetriesAfterDrop
