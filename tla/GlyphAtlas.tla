----------------------------- MODULE GlyphAtlas -----------------------------
(***************************************************************************)
(* Text on the GPU (wyrd-graphics, render/gpu.rs): glyph_atlas_entry packs *)
(* rasterized glyphs in rows of one texture, append_text_glyphs turns a    *)
(* laid out text into draw instances that sample it, and text_layout_cache *)
(* keeps the glyphs of the texts laid out last.  All uploads of a frame    *)
(* reach the texture before the first of its instances is drawn, so a      *)
(* glyph that is overwritten while a frame is collected is lost to the     *)
(* instances collected before.                                             *)
(*                                                                         *)
(* A placement is a glyph with the corner it was uploaded to.              *)
(***************************************************************************)
EXTENDS Integers, Sequences

CONSTANTS
    Glyphs,        \* cosmic_text::CacheKey: a glyph in a font and a size
    GlyphSize,     \* glyph -> <<width, height>>, <<0, 0>> when it has no pixels
    AtlasWidth,
    AtlasHeight,
    MaxGlyphs,     \* 4096 entries in the index
    Texts,         \* text -> sequence of glyphs
    Colors,
    MaxLayouts,    \* 256 layouts
    MaxInstances   \* bound on the glyphs of a frame

VARIABLES
    glyphs,      \* the index: placements of different glyphs, oldest access first
    pen_x, pen_y, row_height,
    texels,      \* the placements whose pixels the texture still holds
    text_layout_cache, \* <<text, colour>>, oldest access first
    pending,     \* glyphs of the text being appended that are still to come
    color,       \* the colour the glyphs of that text are drawn in
    wanted,      \* the colour the scene asks for
    frame,       \* "idle", "collecting" or "submitted"
    instances,   \* what the frame draws so far: [at, color, wanted]
    recycled     \* history: the atlas was cleared while this frame was collected

atlas   == <<glyphs, pen_x, pen_y, row_height, texels>>
vars    == <<atlas, text_layout_cache, pending, color, wanted, frame, instances, recycled>>

W(g) == GlyphSize[g][1]
H(g) == GlyphSize[g][2]

Placement == [glyph : Glyphs, x : Nat, y : Nat]

TypeOK ==
    /\ glyphs \in Seq(Placement)
    /\ texels \subseteq Placement
    /\ pen_x \in Nat /\ pen_y \in Nat /\ row_height \in Nat
    /\ text_layout_cache \in Seq((DOMAIN Texts) \X Colors)
    /\ pending \in Seq(Glyphs)
    /\ color \in Colors /\ wanted \in Colors
    /\ frame \in {"idle", "collecting", "submitted"}
    /\ instances \in Seq([at : Placement, color : Colors, wanted : Colors])
    /\ recycled \in BOOLEAN

\* GlyphAtlas::new
Init ==
    /\ glyphs = <<>> /\ texels = {}
    /\ pen_x = 1 /\ pen_y = 1 /\ row_height = 0
    /\ text_layout_cache = <<>>
    /\ pending = <<>>
    /\ color = CHOOSE c \in Colors : TRUE
    /\ wanted = color
    /\ frame = "idle"
    /\ instances = <<>>
    /\ recycled = FALSE

-----------------------------------------------------------------------------
(* Least recently used order *)

\* The i-th becomes the newest of the sequence.
Touch(used, i) ==
    [k \in DOMAIN used |-> IF k < i THEN used[k] ELSE IF k = Len(used) THEN used[i] ELSE used[k + 1]]

\* Two uploads share a texel.
Overlap(p, q) ==
    /\ p.x < q.x + W(q.glyph) /\ q.x < p.x + W(p.glyph)
    /\ p.y < q.y + H(q.glyph) /\ q.y < p.y + H(p.glyph)

-----------------------------------------------------------------------------
(* append_text_glyphs: the layout *)

\* collect_instances starts over for every frame.
BeginFrame ==
    /\ frame # "collecting"
    /\ frame' = "collecting"
    /\ instances' = <<>> /\ recycled' = FALSE
    /\ UNCHANGED <<atlas, text_layout_cache, pending, color, wanted>>

\* The colour is no part of the key of a layout, but the glyphs of a cached
\* layout carry the colour they were laid out in, and it has precedence.
LayoutHit(t, c) ==
    \E i \in DOMAIN text_layout_cache :
        /\ text_layout_cache[i][1] = t
        /\ color' = text_layout_cache[i][2]
        /\ text_layout_cache' = Touch(text_layout_cache, i)

LayoutMiss(t, c) ==
    /\ \A i \in DOMAIN text_layout_cache : text_layout_cache[i][1] # t
    /\ color' = c
    /\ text_layout_cache' = Append(
           IF Len(text_layout_cache) >= MaxLayouts THEN Tail(text_layout_cache)
           ELSE text_layout_cache, <<t, c>>)

LayoutText ==
    /\ frame = "collecting" /\ pending = <<>>
    /\ \E t \in DOMAIN Texts, c \in Colors :
           /\ Len(instances) + Len(Texts[t]) <= MaxInstances
           /\ LayoutHit(t, c) \/ LayoutMiss(t, c)
           /\ pending' = Texts[t] /\ wanted' = c
    /\ UNCHANGED <<atlas, frame, instances, recycled>>

-----------------------------------------------------------------------------
(* glyph_atlas_entry *)

\* The glyph at p is drawn, unless the box of the text clips it away.
Emit(p) ==
    /\ pending' = Tail(pending)
    /\ \/ instances' = Append(instances, [at |-> p, color |-> color, wanted |-> wanted])
       \/ UNCHANGED instances
    /\ UNCHANGED <<text_layout_cache, color, wanted, frame>>

GlyphHit ==
    /\ pending # <<>>
    /\ \E i \in DOMAIN glyphs :
           /\ glyphs[i].glyph = Head(pending)
           /\ glyphs' = Touch(glyphs, i)
           /\ Emit(glyphs[i])
    /\ UNCHANGED <<pen_x, pen_y, row_height, texels, recycled>>

Uncached == pending # <<>> /\ \A i \in DOMAIN glyphs : glyphs[i].glyph # Head(pending)

\* swash has no pixels for the glyph: a space, or an empty outline.
GlyphBlank ==
    /\ Uncached
    /\ W(Head(pending)) = 0 \/ H(Head(pending)) = 0
    /\ pending' = Tail(pending)
    /\ UNCHANGED <<atlas, text_layout_cache, color, wanted, frame, instances, recycled>>

\* The pen after a row that is full was left for the next one.
Pen(g) ==
    LET wraps == pen_x + W(g) + 2 > AtlasWidth
    IN  IF wraps THEN [x |-> 1, y |-> pen_y + row_height, row |-> 0]
        ELSE [x |-> pen_x, y |-> pen_y, row |-> row_height]

\* A full index loses its oldest entry, not its texels.
Evict == IF Len(glyphs) >= MaxGlyphs THEN Tail(glyphs) ELSE glyphs

Overflows(g) == Pen(g).y + H(g) + 2 > AtlasHeight
TooLarge(g)  == W(g) + 3 >= AtlasWidth \/ H(g) + 3 >= AtlasHeight

\* No row is left: the index is cleared and the texture filled from the top.
Corner(g) == IF Overflows(g) THEN [x |-> 1, y |-> 1, row |-> 0] ELSE Pen(g)
Kept(g)   == IF Overflows(g) THEN <<>> ELSE Evict

GlyphRasterized ==
    /\ Uncached
    /\ LET g == Head(pending)
           new == [glyph |-> g, x |-> Corner(g).x + 1, y |-> Corner(g).y + 1]
       IN  /\ W(g) > 0 /\ H(g) > 0 /\ ~TooLarge(g)
           /\ glyphs' = Append(Kept(g), new)
           /\ pen_x' = Corner(g).x + W(g) + 2
           /\ pen_y' = Corner(g).y
           /\ row_height' = IF Corner(g).row > H(g) + 2 THEN Corner(g).row ELSE H(g) + 2
           /\ texels' = {p \in texels : ~Overlap(p, new)} \cup {new}
           /\ recycled' = (recycled \/ Overflows(g))
           /\ Emit(new)

\* The glyph is refused after the pen and the index have moved for it, and with
\* it the frame: render_scene returns the error.
GlyphTooLarge ==
    /\ Uncached
    /\ LET g == Head(pending)
       IN  /\ W(g) > 0 /\ H(g) > 0 /\ TooLarge(g)
           /\ glyphs' = Kept(g)
           /\ pen_x' = Corner(g).x /\ pen_y' = Corner(g).y /\ row_height' = Corner(g).row
    /\ pending' = <<>> /\ frame' = "idle" /\ instances' = <<>>
    /\ UNCHANGED <<texels, text_layout_cache, color, wanted, recycled>>

\* queue.submit: the instances sample the texture as it is now.
Submit ==
    /\ frame = "collecting" /\ pending = <<>>
    /\ frame' = "submitted"
    /\ UNCHANGED <<atlas, text_layout_cache, pending, color, wanted, instances, recycled>>

Next ==
    \/ BeginFrame \/ LayoutText \/ Submit
    \/ GlyphHit \/ GlyphBlank \/ GlyphRasterized \/ GlyphTooLarge

Spec == Init /\ [][Next]_vars

-----------------------------------------------------------------------------
(* Properties *)

\* Whatever was packed, cleared or refused before: the glyphs of the index lie
\* inside the texture, share no texel, and the texture still holds them.
GlyphsKeepTheirTexels ==
    \A i \in DOMAIN glyphs :
        LET p == glyphs[i]
        IN  /\ p \in texels
            /\ p.x + W(p.glyph) <= AtlasWidth /\ p.y + H(p.glyph) <= AtlasHeight
            /\ \A k \in DOMAIN glyphs : glyphs[k] # p => ~Overlap(glyphs[k], p)

\* A placement lies in a row that is full, or left of the pen in the present one.
Behind(p) ==
    \/ p.y + H(p.glyph) < pen_y
    \/ p.x + W(p.glyph) < pen_x /\ p.y + H(p.glyph) < pen_y + row_height

\* So does everything uploaded since the atlas was cleared last, whether the index
\* still has it or not, and nothing was uploaded over it.
UploadsAreBehind ==
    /\ \A i \in DOMAIN glyphs : Behind(glyphs[i])
    /\ ~recycled => \A i \in DOMAIN instances : instances[i].at \in texels /\ Behind(instances[i].at)

\* A submitted frame shows every glyph it collected, also those the index has
\* dropped since, unless the atlas was cleared while the frame was collected.
TextIsLegible ==
    frame = "submitted" /\ ~recycled =>
        \A i \in DOMAIN instances : instances[i].at \in texels

\* A text is drawn in the colour the scene asks for.
TextHasItsColor ==
    frame = "submitted" => \A i \in DOMAIN instances : instances[i].color = instances[i].wanted
=============================================================================
