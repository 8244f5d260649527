SPECIFICATION Spec
CONSTANTS
    ReadOpeners = {"select"}
    ForbiddenAnywhere = {"delete"}
    DangerousExact = {"lo_import"}
    DangerousPrefixes = {"xp_"}
    FirstWords = {"declare"}
    OtherWords = {"users"}
    MaxInt = 2
    MaxQuoted = 5
    MaxWords = 5
    MaxParts = 2
    Tables = 3
    MaxRows = 4
    MaxWordings = 2
    MaxError = 5
CHECK_DEADLOCK FALSE
INVARIANTS
    StripIsOneReading
    VerdictIsExact
    NoSchemaWordLeaves
    VersionsAgree
    OutlineIsWhole
    FailureKeepsItsClass
    ShapeDropsValues
