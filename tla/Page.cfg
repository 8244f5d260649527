SPECIFICATION FairSpec
CONSTANTS
    Gen = {g1, g2}
    Run = {r1, r2}
    MaxReloads = 1
    None = None
INVARIANTS
    ResultOfShownSQL
    OneGenerationAtATime
    OfferIsEarned
PROPERTIES
    BusyOnlyAfterReload
    ButtonsReturn
CHECK_DEADLOCK FALSE
