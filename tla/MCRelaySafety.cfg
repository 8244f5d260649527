SPECIFICATION Spec
CONSTANTS
    Code = {c1, c2}
    Pairing = {p1, p2}
    Handler = {h1, h2, h3}
    None = None
SYMMETRY Symmetry
INVARIANTS
    TypeOK
    AddressHasKeeper
    SoleConnectorFreesPort
PROPERTIES
    StatusTruthful
    ExpiredStaysDead
    SoleConnectorKeepsPort
