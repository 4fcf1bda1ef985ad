---------------------------- MODULE MCGlyphAtlas ----------------------------
(* An instance of GlyphAtlas for TLC: two glyphs, two colours. *)
EXTENDS GlyphAtlas

MCGlyphSize == [i |-> <<1, 1>>, t |-> <<1, 2>>]
MCTexts == [label |-> <<"i", "t">>]
=============================================================================
