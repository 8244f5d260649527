SPECIFICATION FairSpec
CONSTANTS
    Code = {c1}
    Pairing = {p1}
    Handler = {h1, h2}
    Task = {t1}
    None = None
INVARIANTS
    ShownAddressIsHeld
    ConnectedIsRecorded
PROPERTIES
    EndReachesRelay
    Reaped
