SPECIFICATION AllSpec
CONSTANTS
    Parts = {"files", "script", "build"}
    Processes = {settings, shell}
    MaxWrites = 2
    Radii = {8, 12}
    NoFile = NoFile
    Surfaces = {bar}
    All = All
    None = None
INVARIANTS
    TypeOK
    WritesAreKept
PROPERTIES
    RadiusKept
    EditsAreApplied
    RequestsAreServed
CHECK_DEADLOCK FALSE
