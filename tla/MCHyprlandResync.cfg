SPECIFICATION LiveSpec
CONSTANTS
    Callers = {ui}
    Loop = loop
    Keys = {launcher}
    NoKey = NoKey
    MaxWorld = 2
    MaxReload = 1
    MaxLines = 2
PROPERTIES
    ResyncEnds
CHECK_DEADLOCK FALSE
