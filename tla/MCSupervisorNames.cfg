SPECIFICATION Spec
CONSTANTS
    Names = {bar, clock}
    NoName = NoName
    Labels = {bar, clock, other}
    ManifestName <- OtherManifestName
    MaxInst = 2
    CmdCap = 1
    UpdCap = 1
INVARIANTS
    AtMostOneDown
