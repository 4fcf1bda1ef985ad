----------------------------- MODULE SceneDamage -----------------------------
(***************************************************************************)
(* Repainting only what changed: SceneGraph::diff_against and dirty_rects  *)
(* (wyrd-graphics, render/scene.rs), the regions of DamageTracker          *)
(* (render/damage.rs), and the frames render_surface_impl (wyrd-widgets,   *)
(* widgets/render_bridge.rs) draws with them on the persistent backbuffer  *)
(* of a GPU target.                                                        *)
(*                                                                         *)
(* A surface is one row of columns.  A node has the widget it belongs to   *)
(* (or None), its bounds x and w in half columns, the columns pad by which *)
(* a shadow reaches beyond them, a look and whether it is opaque.  A column *)
(* holds the nodes painted on it since the last opaque one, and which of   *)
(* them was painted before which: a node painted twice is before itself.   *)
(***************************************************************************)
EXTENDS Integers, Sequences, FiniteSets, Functions

CONSTANTS
    Nodes,       \* the nodes a scene can be made of
    MaxNodes,    \* bound on the nodes of a scene
    Columns,     \* width of the surface
    MaxRegions,  \* MAX_DAMAGE_REGIONS (64)
    None         \* no widget, no scene

Screen == 0 .. Columns - 1

VARIABLES
    prev_scene,   \* nodes of the last scene drawn, in paint order, or None
    pixels,       \* column -> what the backbuffer holds there
    initialized,  \* preserves_contents of the target
    drawn,        \* how the last step painted the backbuffer: "all", "damage", "not"
    unseen        \* history: the backbuffer differs and no damage tells where

vars == <<prev_scene, pixels, initialized, drawn, unseen>>

\* No scene has two equal nodes: diff_against could not tell that one is gone.
Scenes == {s \in UNION {[1 .. n -> Nodes] : n \in 0 .. MaxNodes} : IsInjective(s)}

Layers == [nodes : SUBSET Nodes, order : SUBSET (Nodes \X Nodes)]

TypeOK ==
    /\ prev_scene \in Scenes \cup {None}
    /\ pixels \in [Screen -> Layers]
    /\ initialized \in BOOLEAN /\ drawn \in {"all", "damage", "not"}
    /\ unseen \in BOOLEAN

-----------------------------------------------------------------------------
(* Painting *)

Ceil(h) == (h + 1) \div 2

\* The columns a node paints, and those it paints only in part.
Covers(node) ==
    {c \in Screen : node.w > 0 /\ c >= node.x \div 2 - node.pad /\ c < Ceil(node.x + node.w) + node.pad}
Edges(node)  == {c \in Covers(node) : 2 * c < node.x \/ 2 * c + 2 > node.x + node.w}

On(c, scene)     == {i \in DOMAIN scene : c \in Covers(scene[i])}
Hides(node, c)   == node.opaque /\ c \notin Edges(node)
IsOpaque(c, scene) == \E i \in On(c, scene) : Hides(scene[i], c)

\* The nodes seen on a column: no later one hides them.
Seen(c, scene) == {i \in On(c, scene) : \A k \in On(c, scene) : k > i => ~Hides(scene[k], c)}

Bare   == [nodes |-> {}, order |-> {}]
Cleared == [c \in Screen |-> Bare]

\* A column after the scene was painted on it, in order, over what it held.
Paint(under, scene, c) ==
    LET base == IF IsOpaque(c, scene) THEN Bare ELSE under
        new  == {scene[i] : i \in Seen(c, scene)}
    IN  [nodes |-> base.nodes \cup new,
         order |-> base.order \cup (base.nodes \X new)
                   \cup {p \in new \X new : \E i, k \in Seen(c, scene) :
                              i < k /\ p = <<scene[i], scene[k]>>}]

PaintAll(scene) == [c \in Screen |-> Paint(Bare, scene, c)]

-----------------------------------------------------------------------------
(* scene.rs *)

\* What diff_against compares of two nodes of one widget (or of none): kind,
\* bounds and transform.
Same(node, old) == node = old

\* diff_against: the nodes that no node of the previous scene equals.
Dirty(scene, prev) ==
    {i \in DOMAIN scene : prev = None \/ \A j \in DOMAIN prev : ~Same(scene[i], prev[j])}

\* has_widget_removed_or_changed: some node of a widget has no node of that
\* widget with its bounds any more.  Nodes without a widget are passed over.
RemovedOrMoved(scene, prev) ==
    \E j \in DOMAIN prev :
        /\ prev[j].widget # None
        /\ \A i \in DOMAIN scene :
               scene[i].widget = prev[j].widget => <<scene[i].x, scene[i].w>> # <<prev[j].x, prev[j].w>>

\* dirty_rects: the width is rounded up on its own, not the right edge.  A node
\* without width has no rectangle.
Rect(node) == [left |-> node.x \div 2 - node.pad, right |-> node.x \div 2 + Ceil(node.w) + node.pad]

Damaged(scene, prev) == {i \in Dirty(scene, prev) : scene[i].w > 0}

-----------------------------------------------------------------------------
(* damage.rs *)

Touch(r, s) == r.left <= s.right /\ s.left <= r.right

Union(r, s) == [left  |-> IF r.left < s.left THEN r.left ELSE s.left,
                right |-> IF r.right > s.right THEN r.right ELSE s.right]

\* Mutant: the regions that touch are taken out and do not grow the new one.
AbsorbForgets(merged, rect) ==
    SelectSeq(merged, LAMBDA r : ~Touch(r, rect)) \o <<rect>>

\* One rectangle of optimize: the regions it touches, one after the other, are
\* taken out and grow it.  A region passed over is not looked at again.
Absorb(merged, rect) ==
    LET scan[k \in 0 .. Len(merged)] ==
            IF k = 0 THEN [rect |-> rect, rest |-> <<>>]
            ELSE IF Touch(merged[k], scan[k - 1].rect)
                 THEN [rect |-> Union(merged[k], scan[k - 1].rect), rest |-> scan[k - 1].rest]
                 ELSE [rect |-> scan[k - 1].rect, rest |-> Append(scan[k - 1].rest, merged[k])]
        end == scan[Len(merged)]
    IN  Append(end.rest, end.rect)

\* The regions of the nodes at some places of the scene, each absorbed in turn.
Merged(scene, places) ==
    LET merged[i \in 0 .. Len(scene)] ==
            IF i = 0 THEN <<>>
            ELSE IF i \in places THEN Absorb(merged[i - 1], Rect(scene[i])) ELSE merged[i - 1]
    IN  merged[Len(scene)]

\* optimize of the rectangles of a scene: too many are a full redraw; where there
\* are less than two nothing is merged.
Optimize(scene, places) ==
    IF Cardinality(places) > MaxRegions /\ Cardinality(places) >= 2
    THEN [full |-> TRUE, regions |-> <<>>]
    ELSE [full |-> FALSE, regions |-> Merged(scene, places)]

\* The damage of a scene: from_scene, and set_full_redraw.
Damage(scene, prev) ==
    IF prev # None /\ RemovedOrMoved(scene, prev) THEN [full |-> TRUE, regions |-> <<>>]
    ELSE Optimize(scene, Damaged(scene, prev))

-----------------------------------------------------------------------------
(* Frames *)

\* Node j of the previous scene is gone or has changed, its widget still has a
\* node with its bounds, and what is dirty there does not reach as far as it did.
Vanished(j, scene, prev) ==
    /\ \A i \in DOMAIN scene : ~Same(scene[i], prev[j])
    /\ \A i \in DOMAIN scene :
           scene[i].widget = prev[j].widget /\ <<scene[i].x, scene[i].w>> = <<prev[j].x, prev[j].w>> =>
               i \notin Dirty(scene, prev) \/ scene[i].pad < prev[j].pad

\* Changes of the picture that diff_against and dirty_rects do not see: another
\* order of nodes, nodes that vanished, and a column that bounds which start
\* within another one reach into.
Invisible(scene, prev) ==
    /\ prev # None
    /\ \/ \E i, k \in DOMAIN scene, j, l \in DOMAIN prev :
              i < k /\ l < j /\ Same(scene[i], prev[j]) /\ Same(scene[k], prev[l])
       \/ \E j \in DOMAIN prev : Vanished(j, scene, prev)
       \/ \E i \in Dirty(scene, prev) : \E c \in Covers(scene[i]) : c >= Rect(scene[i]).right

\* The columns of a region.
Area(r) == {c \in Screen : r.left <= c /\ c < r.right}

\* A damaged column is painted over what it held, without being cleared: that
\* shows where no node of the scene hides it.
Smears(scene, area) == \E c \in area : On(c, scene) # {} /\ ~IsOpaque(c, scene)

\* The scene is painted once for each region a column lies in; the third time
\* changes nothing of what is followed here.
Repaint(scene, regions) ==
    [c \in Screen |->
        LET hit == {k \in DOMAIN regions : c \in Area(regions[k])}
        IN  CASE hit = {} -> pixels[c]
              [] \E k \in hit : hit = {k} -> Paint(pixels[c], scene, c)
              [] OTHER -> Paint(Paint(pixels[c], scene, c), scene, c)]

Init ==
    /\ prev_scene = None
    /\ pixels = Cleared
    /\ initialized = FALSE
    /\ drawn = "not"
    /\ unseen = FALSE

\* render_scene on the target: in parts only when the target holds a frame and
\* there is damage.
GpuFrame(scene) ==
    LET damage == Damage(scene, prev_scene)
        partly == initialized /\ ~damage.full /\ damage.regions # <<>>
        astray == unseen \/ Invisible(scene, prev_scene)
                  \/ \E k \in DOMAIN damage.regions : Smears(scene, Area(damage.regions[k]))
    IN  /\ pixels' = IF ~partly THEN PaintAll(scene)
                     ELSE IF astray THEN Cleared ELSE Repaint(scene, damage.regions)
        /\ initialized' = TRUE
        /\ prev_scene' = scene
        /\ drawn' = IF partly THEN "damage" ELSE "all"
        /\ unseen' = (partly /\ astray)

\* (What the backbuffer holds is not followed once it has gone astray: Cleared.)
\* A frame on the CPU, for a transform or because the GPU failed: the scene is
\* recorded as drawn, the backbuffer is not touched.
CpuFrame(scene) ==
    /\ prev_scene' = scene
    /\ drawn' = "not"
    /\ unseen' = (unseen \/ (initialized /\ scene # prev_scene))
    /\ pixels' = IF unseen' THEN Cleared ELSE pixels
    /\ UNCHANGED initialized

\* WaylandGpuSurface::resize drops the backbuffer.
Resize ==
    /\ pixels' = Cleared /\ initialized' = FALSE /\ unseen' = FALSE
    /\ drawn' = "not"
    /\ UNCHANGED prev_scene

\* A finished download drops the scene: with nothing to compare, all nodes of
\* the next one are dirty, but what is no longer there is not.
ImageReady ==
    /\ prev_scene' = None /\ unseen' = initialized
    /\ drawn' = "not" /\ pixels' = Cleared
    /\ UNCHANGED initialized

Next ==
    \/ \E scene \in Scenes : GpuFrame(scene) \/ CpuFrame(scene)
    \/ Resize \/ ImageReady

Spec == Init /\ [][Next]_vars

-----------------------------------------------------------------------------
(* Properties *)

\* A frame that repaints only the damaged regions leaves on the backbuffer what
\* a full redraw would, until a change goes by of which the damage does not tell.
DamageSuffices == drawn # "not" /\ ~unseen => pixels = PaintAll(prev_scene)

\* It always holds the last scene while it can be followed.
FollowsScene == initialized /\ ~unseen => prev_scene # None /\ pixels = PaintAll(prev_scene)
FrameIsKept  == drawn # "not" => initialized
=============================================================================
