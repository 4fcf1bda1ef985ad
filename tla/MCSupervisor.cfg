SPECIFICATION Spec
CONSTANTS
    Names = {bar, clock}
    NoName = NoName
    Labels = {bar, clock}
    ManifestName <- SameManifestName
    MaxInst = 3
    CmdCap = 1
    UpdCap = 1
SYMMETRY Symmetric
INVARIANTS
    TypeOK
    TasksAndRoutesAgree
    AtMostOneDown
    NoLostDown
    OldStopsFirst
