SPECIFICATION FairSpec
CONSTANTS
    Task = {t1, t2}
    None = None
PROPERTIES
    ServedIsShown
