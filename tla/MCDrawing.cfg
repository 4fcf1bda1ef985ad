SPECIFICATION MCSpec
CONSTANTS
    Surfaces = {bar, dock}
    Sizes = {small, large}
    Looks = {rest, hover}
    MaxVersion = 1
    MaxImages = 1
    HasGpu = TRUE
    None = None
    Blank = Blank
    Glyphs = {"i", "t", "w", "blank", "huge"}
    GlyphSize <- MCGlyphSize
    AtlasWidth = 7
    AtlasHeight = 7
    MaxGlyphs = 2
    Texts <- MCTexts
    Colors = {"red", "blue"}
    MaxLayouts = 1
    MaxInstances = 3
    GpuNodes <- MCGpuNodes
    Files = {"icon", "cover"}
    MaxMtime = 2
    MaxTextures = 2
    TargetSizes = {"s", "l"}
    MaxFrames = 2
    InitialCapacity <- MCInitialCapacity
    DamageNodes <- MCDamageNodes
    MaxNodes = 3
    Columns = 4
    MaxRegions = 2
SYMMETRY Symmetric
INVARIANTS
    TypeOK
    FramesAreWhole
    
    FrameFitsSurface
PROPERTIES
    
    ImagesAreCurrent
CHECK_DEADLOCK FALSE
