SPECIFICATION LiveSpec
CONSTANTS
    Names = {bar, clock}
    NoName = NoName
    Labels = {bar, clock}
    ManifestName <- SameManifestName
    MaxInst = 2
    CmdCap = 1
    UpdCap = 1
PROPERTIES
    NewsInOrder
    DeadAreReported
    StopReturns
