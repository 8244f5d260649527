SPECIFICATION Spec
CONSTANTS
    Account = {a1, a2}
    Launch = {l1, l2, l3}
    Op = {o1, o2}
    None = None
    Empty = Empty
    Torn = Torn
SYMMETRY Symmetry
CHECK_DEADLOCK FALSE
INVARIANTS
    OneMachineOneInstall
    FileFollowsMemory
PROPERTIES
    InstallKept
