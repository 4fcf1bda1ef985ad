SPECIFICATION AllSpec
CONSTANTS
    Parts = {"hyprland", "auto", "status"}
    Callers = {ui}
    Loop = loop
    Keys = {launcher, power}
    NoKey = NoKey
    MaxWorld = 1
    MaxReload = 2
    MaxLines = 2
INVARIANTS
    TypeOK
    
PROPERTIES
    CallsReturn
    
CHECK_DEADLOCK FALSE
