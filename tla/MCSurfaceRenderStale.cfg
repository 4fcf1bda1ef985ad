SPECIFICATION Spec
CONSTANTS
    Surfaces = {bar}
    Sizes = {small}
    Looks = {rest}
    MaxVersion = 1
    MaxImages = 0
    HasGpu = FALSE
    None = None
    Blank = Blank
INVARIANTS
    NoStaleReuse
