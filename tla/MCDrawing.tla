------------------------------ MODULE MCDrawing ------------------------------
(* Drawing: instances of SurfaceRender and of the modules beside it.  They  *)
(* share no state, so one run checks each on its own: part says which of    *)
(* them moves.                                                              *)
EXTENDS SurfaceRender, Integers, Sequences, FiniteSets, TLC

CONSTANTS
    Glyphs, GlyphSize, AtlasWidth, AtlasHeight, MaxGlyphs,            \* of GlyphAtlas
    Texts, Colors, MaxLayouts, MaxInstances,
    GpuNodes, Files, MaxMtime, MaxTextures, TargetSizes, MaxFrames,   \* of GpuFrame
    InitialCapacity,
    DamageNodes, MaxNodes, Columns, MaxRegions                        \* of SceneDamage

ASSUME AtlasConstants ==
    /\ GlyphSize \in [Glyphs -> Nat \X Nat]
    /\ \A t \in DOMAIN Texts : Texts[t] \in Seq(Glyphs)
    /\ Colors # {}
    /\ AtlasWidth \in Nat /\ AtlasHeight \in Nat
    /\ MaxGlyphs \in Nat \ {0} /\ MaxLayouts \in Nat \ {0}

ASSUME GpuNodesAreNodes ==
    \A node \in GpuNodes :
        /\ node.kind \in {"shape", "tint", "image", "blur"}
        /\ node.kind = "image" => node.file \in Files /\ node.parts > 0
        /\ \A n \in {node.parts, node.radius, node.stops, node.segments, node.clips} : n \in Nat
ASSUME GpuConstants ==
    /\ InitialCapacity \in [{"instances", "stops", "segments", "clips"} -> Nat]
    /\ MaxTextures \in Nat \ {0} /\ MaxMtime \in Nat \ {0} /\ MaxFrames \in Nat
    /\ TargetSizes # {} /\ MaxInstances \in Nat
    /\ None \notin Files \X (1 .. MaxMtime)

ASSUME NodesAreNodes ==
    \A node \in DamageNodes :
        node.x \in Int /\ node.w \in Nat /\ node.pad \in Nat /\ node.opaque \in BOOLEAN
ASSUME DamageBoundsAreNatural == MaxNodes \in Nat /\ Columns \in Nat /\ MaxRegions \in Nat

VARIABLES
    part,
    glyphs, pen_x, pen_y, row_height, texels, text_layout_cache,
    pending, color, wanted, text_frame, text_instances, recycled,
    mtime, instances, texture_assets, capacity, bind_group, blur_intermediate,
    config, backbuffer, gpu_initialized, stage, frame_id, ops,
    prev_scene, columns, initialized, drawn, unseen

glyphVars == <<glyphs, pen_x, pen_y, row_height, texels, text_layout_cache,
               pending, color, wanted, text_frame, text_instances, recycled>>
gpuVars == <<mtime, instances, texture_assets, capacity, bind_group, blur_intermediate,
             config, backbuffer, gpu_initialized, stage, frame_id, ops>>
damageVars == <<prev_scene, columns, initialized, drawn, unseen>>

Symmetric == Permutations(Surfaces) \cup Permutations(Sizes) \cup Permutations(Looks)

-----------------------------------------------------------------------------
(* Glyphs of two sizes, one wide, one without pixels and one too large, on an *)
(* atlas of two rows.                                                         *)

MCGlyphSize ==
    [i |-> <<1, 1>>, t |-> <<1, 2>>, w |-> <<2, 1>>, blank |-> <<0, 0>>, huge |-> <<4, 1>>]
MCTexts == [label |-> <<"i", "blank", "t">>, icon |-> <<"w">>, banner |-> <<"huge">>]

Glyph == INSTANCE GlyphAtlas WITH frame <- text_frame, instances <- text_instances

-----------------------------------------------------------------------------
(* Nodes of every kind, two frames; or fewer kinds, and files that change. *)

PlainNode == [kind |-> "shape", parts |-> 1, file |-> None, radius |-> 0,
              stops |-> 2, segments |-> 0, clips |-> 0]

MCGpuNodes == {
    PlainNode, [PlainNode EXCEPT !.parts = 2, !.segments = 1], [PlainNode EXCEPT !.kind = "tint"],
    [PlainNode EXCEPT !.kind = "blur", !.radius = 2], [PlainNode EXCEPT !.kind = "blur"],
    [PlainNode EXCEPT !.kind = "image", !.file = "icon"],
    [PlainNode EXCEPT !.kind = "image", !.file = "cover", !.clips = 1]}
MCInitialCapacity == [instances |-> 2, stops |-> 1, segments |-> 1, clips |-> 1]

Gpu == INSTANCE GpuFrame WITH
    Nodes <- GpuNodes, Sizes <- TargetSizes, initialized <- gpu_initialized

ASSUME NoneIsNoTarget == None \notin [size : TargetSizes, filled : BOOLEAN]

\* Files change, or every kind of node is drawn.
GpuNext ==
    /\ Gpu!Next
    /\ IF part = "image"
       THEN \A i \in DOMAIN instances' :
                instances'[i].kind \in {"shape", "image"} /\ instances'[i].segments = 0
       ELSE mtime' = mtime

\* The passes of a frame paint its scene with the textures and the data of its own
\* instances (see GpuFrame).
FramesAreWhole ==
    part \in {"shape", "image"} =>
        Gpu!TypeOK /\ Gpu!PassesPaintTheScene /\ Gpu!SlicesAreOwn /\ Gpu!ImagesAreDrawn

-----------------------------------------------------------------------------
Opaque == [widget |-> "a", x |-> 0, w |-> 2, pad |-> 0, look |-> 1, opaque |-> TRUE]

MCDamageNodes ==
    {Opaque, [Opaque EXCEPT !.look = 2], [Opaque EXCEPT !.x = 2],
     [Opaque EXCEPT !.widget = None, !.x = 1], [Opaque EXCEPT !.widget = "b", !.x = 4],
     [Opaque EXCEPT !.widget = "b", !.x = 4, !.pad = 1, !.opaque = FALSE]}

Damage == INSTANCE SceneDamage WITH Nodes <- DamageNodes, pixels <- columns

ASSUME NoneIsNoScene == None \notin Damage!Scenes

\* What is kept from frame to frame is what it is taken for: the texels of a glyph
\* (see GlyphAtlas), the picture on the backbuffer that is repainted from damage
\* (see SceneDamage), and that it is a whole one (see GpuFrame).
PixelsAreKept ==
    /\ part = "glyphs" =>
        Glyph!TypeOK /\ Glyph!GlyphsKeepTheirTexels /\ Glyph!TextIsLegible /\ Glyph!UploadsAreBehind
    /\ part = "damage" =>
        Damage!TypeOK /\ Damage!DamageSuffices /\ Damage!FollowsScene /\ Damage!FrameIsKept
    /\ part \in {"shape", "image"} => Gpu!DamageNeedsAFrame

-----------------------------------------------------------------------------
Parts == {"surfaces", "glyphs", "shape", "image", "damage"}

MCInit ==
    /\ part \in Parts
    /\ Init /\ Glyph!Init /\ Gpu!Init /\ Damage!Init
    /\ part = "surfaces" \/ Cardinality({size[s] : s \in Surfaces}) = 1

MCNext ==
    /\ UNCHANGED part
    /\ \/ part = "surfaces" /\ Next /\ UNCHANGED <<glyphVars, gpuVars, damageVars>>
       \/ part = "glyphs" /\ Glyph!Next /\ UNCHANGED <<vars, gpuVars, damageVars>>
       \/ part \in {"shape", "image"} /\ GpuNext /\ UNCHANGED <<vars, glyphVars, damageVars>>
       \/ part = "damage" /\ Damage!Next /\ UNCHANGED <<vars, glyphVars, gpuVars>>

MCSpec == MCInit /\ [][MCNext]_<<part, vars, glyphVars, gpuVars, damageVars>>
=============================================================================
