SPECIFICATION Spec
CONSTANTS
    Glyphs = {"i", "t"}
    GlyphSize <- MCGlyphSize
    AtlasWidth = 7
    AtlasHeight = 7
    MaxGlyphs = 2
    Texts <- MCTexts
    Colors = {"red", "blue"}
    MaxLayouts = 1
    MaxInstances = 2
INVARIANTS
    TextHasItsColor
