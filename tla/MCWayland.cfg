SPECIFICATION MCSpec
CONSTANTS
    Surfaces = {bar, dock}
    Sizes = {small, large}
    MaxBuffers = 4
    NoSize = NoSize
    None = None
    Globals = {1, 2}
    Modes = {1, 2}
    Configurations <- MCConfigurations
    MaxWire = 2
    SurfaceNames = {"bar", "menu"}
    SurfaceSizes = {0, 1, 2}
    Forced = {"auto", "xdg"}
    Overrides = {"none", "layer"}
    MaxCreated = 2
SYMMETRY Symmetric
INVARIANTS
    TypeOK
    NoBufferLost
    DevicesAreTracked
    
PROPERTIES
    HeldBuffersKeepTheirFrame
    DoubleBuffered
    
CHECK_DEADLOCK FALSE
