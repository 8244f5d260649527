SPECIFICATION Spec
CONSTANTS
    Code = {c1}
    Pairing = {p1}
    Handler = {h1, h2}
    None = None
SYMMETRY Symmetry
PROPERTIES
    PortLivesWithConnector
