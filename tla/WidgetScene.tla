------------------------------ MODULE WidgetScene ------------------------------
(***************************************************************************)
(* From the widget tree to what is seen and pointed at (wyrd-widgets:      *)
(* widgets/tree.rs, layout.rs, render_bridge.rs and hit_test of mod.rs;    *)
(* the CPU painter of wyrd-graphics/src/render/mod.rs).  The host measures *)
(* and lays out the tree, has it rendered, and asks which widget is at a   *)
(* point, in any order with changes of the tree.                           *)
(*                                                                         *)
(* Lengths are whole, of scale 1; axis 1 is x and axis 2 is y; a rectangle *)
(* is [at, size].  Padding is the same on all sides.  A size a widget does *)
(* not set is None; least and most bound it.  natural is what measuring    *)
(* its content gives (text, the file of an image, the default of a slider).*)
(* value is [from, to, now] and stands for the numbers of progress, ring   *)
(* and slider; flow says along which axis it grows and from which end.     *)
(* look is the set of what the style of the widget makes visible.  Slots   *)
(* are numbered parents first.                                             *)
(***************************************************************************)
EXTENDS Integers, Sequences, SequencesExt, FiniteSets, FiniteSetsExt, Functions

CONSTANTS
    Trees,     \* trees: slot -> widget, slot 1 is the root
    Sizes,     \* sizes of the surface
    Natural,   \* sizes that measuring a content may give
    Offsets,   \* scroll offsets the host may ask for
    MaxPanics, \* bound on the widgets that panic
    None

VARIABLES
    tree,      \* slot -> widget, with what measuring and layout found
    hovered,   \* the widget the host says the pointer is on, or None
    stage,     \* "changed", "laid out" or "rendered", of the tree as it is
    scene,     \* once rendered: what the frame paints, from the bottom to the top
    lost       \* once rendered: the widgets that panicked while it was built

vars == <<tree, hovered, stage, scene, lost>>

LineHeight == 15          \* 1.25 of a font size of 12
NarrowestShrunk == 48
SmallestCell == <<40, 30>>
SmallestThumb == 16
TrackPad == 4
SmallestViewport == 12
TextHeight == 16          \* 1.35 of a font size of 12
RingWidth == 7

\* The larger, the smaller, and f32::clamp where it does not panic.
Larger(a, b) == IF a > b THEN a ELSE b
Smaller(a, b) == IF a < b THEN a ELSE b
Clamp(v, low, high) == Smaller(Larger(v, low), high)

Cross(axis) == 3 - axis
Flows(node) == node.mode \in {"row", "column"}
Axis(node) == IF node.mode = "row" THEN 1 ELSE 2
Total(nodes, slots, value(_)) == FoldLeft(LAMBDA n, s : n + value(nodes[s]), 0, slots)
Widest(nodes, slots, value(_)) == FoldLeft(LAMBDA n, s : Larger(n, value(nodes[s])), 0, slots)

RECURSIVE Under(_, _)
Under(nodes, s) == {s} \cup UNION {Under(nodes, c) : c \in Range(nodes[s].children)}

-----------------------------------------------------------------------------
(* tree.rs: measuring, children first *)

Bounded(node, axis, length) == Clamp(length, node.least[axis], node.most[axis])
Asked(node, axis) == IF node.fixed[axis] # None THEN node.fixed[axis] ELSE node.measured[axis]
Gaps(node) == node.gap * (Len(node.children) - 1)

\* What the children take up along an axis, by the mode of their parent.
ChildrenTake(nodes, s, axis) ==
    LET node == nodes[s]
        asked(child) == Asked(child, axis)
        measured(child) == child.measured[axis]
        reach(child) == child.place[axis] + asked(child)
        kids == node.children
        tracks == IF axis = 1 THEN Larger(1, Len(node.columns))
                  ELSE (Len(kids) + Larger(1, Len(node.columns)) - 1) \div Larger(1, Len(node.columns))
    IN  CASE Flows(node) /\ Axis(node) = axis -> Total(nodes, kids, asked) + Gaps(node)
          [] Flows(node) /\ Axis(node) # axis ->
                 IF axis = 2 THEN Larger(Widest(nodes, kids, asked), LineHeight)
                 ELSE Widest(nodes, kids, asked)
          [] node.mode = "grid" ->
                 Larger(SmallestCell[axis], Widest(nodes, kids, measured)) * tracks
                     + node.gap * (tracks - 1)
          [] node.mode = "absolute" -> Widest(nodes, kids, reach)
          [] node.mode = "stack" -> Widest(nodes, kids, measured)

Wanted(nodes, s, axis, room) ==
    LET node == nodes[s]
    IN  IF node.children # <<>> THEN Smaller(ChildrenTake(nodes, s, axis) + 2 * node.pad, room)
        ELSE IF node.kind = "container" THEN room
        ELSE IF node.kind = "text"
        THEN Smaller((IF axis = 2 THEN Larger(node.natural[2], LineHeight) ELSE node.natural[1])
                         + 2 * node.pad, room)
        ELSE Smaller(node.natural[axis], room)

\* A widget that has failed stays as it is, and so does all under it; one that
\* panics now is left without a size and has failed for good.
Measured(nodes, room, panics) ==
    LET gone == UNION {Under(nodes, s) : s \in {r \in DOMAIN nodes : nodes[r].failed}}
        size(ns, s, axis) ==
            Bounded(ns[s], axis, IF ns[s].fixed[axis] # None THEN ns[s].fixed[axis]
                                 ELSE Wanted(ns, s, axis, room[axis]))
        step(s, ns) == IF s \in gone THEN ns
                       ELSE IF s \in panics
                       THEN [ns EXCEPT ![s].failed = TRUE, ![s].measured = <<0, 0>>]
                       ELSE [ns EXCEPT ![s].measured = <<size(ns, s, 1), size(ns, s, 2)>>]
    IN  FoldRight(step, [s \in 1 .. Cardinality(DOMAIN nodes) |-> s], nodes)

-----------------------------------------------------------------------------
(* layout.rs *)

Content(node) ==
    [at |-> <<node.rect.at[1] + node.pad, node.rect.at[2] + node.pad>>,
     size |-> <<Larger(0, node.rect.size[1] - 2 * node.pad),
                Larger(0, node.rect.size[2] - 2 * node.pad)>>]

Along(axis, main, cross) == IF axis = 1 THEN <<main, cross>> ELSE <<cross, main>>

Rigid(nodes, s, axis) ==
    LET rigid(child) == IF child.weight > 0 THEN 0 ELSE Bounded(child, axis, Asked(child, axis))
    IN  Total(nodes, nodes[s].children, rigid)

\* Where the first child goes and what is added to the gaps.
Spread(node, axis, free) ==
    LET n == Len(node.children)
        step == CASE node.justify = "between" -> IF n > 1 THEN free \div (n - 1) ELSE 0
                  [] node.justify = "around" -> free \div n
                  [] node.justify = "evenly" -> free \div (n + 1)
                  [] OTHER -> 0
        first == CASE node.justify = "center" -> free \div 2
                   [] node.justify = "end" -> free
                   [] node.justify = "around" -> step \div 2
                   [] node.justify = "evenly" -> step
                   [] OTHER -> 0
    IN  [first |-> first, step |-> step]

\* The scroll offset of a column, held to its range.
Scrolled(nodes, s) ==
    Clamp(nodes[s].offset, 0,
          Larger(0, Rigid(nodes, s, 2) + Gaps(nodes[s]) - Content(nodes[s]).size[2]))

\* flex_layout: a row gives way where it is too narrow, a column that scrolls
\* does not bound its children.
FlexLayout(nodes, s) ==
    LET node == nodes[s]
        axis == Axis(node)
        content == Content(node)
        free == Larger(0, content.size[axis] - Gaps(node) - Rigid(nodes, s, axis))
        weight(child) == child.weight
        weights == Total(nodes, node.children, weight)
        spread == IF weights > 0 THEN [first |-> 0, step |-> 0] ELSE Spread(node, axis, free)
        scrolls == axis = 2 /\ node.scrolls
        offset == IF scrolls THEN Scrolled(nodes, s) ELSE 0
        short == IF axis = 1 /\ weights = 0
                 THEN Larger(0, Rigid(nodes, s, axis) + Gaps(node) - content.size[axis]) ELSE 0
        cross(child) ==
            LET c == Cross(axis)
                own == Smaller(Bounded(child, c, Asked(child, c)), content.size[c])
            IN  [at |-> content.at[c] + (CASE node.align = "center" -> (content.size[c] - own) \div 2
                                           [] node.align = "end" -> content.size[c] - own
                                           [] OTHER -> 0),
                 size |-> Bounded(child, c, IF node.align = "stretch" THEN content.size[c] ELSE own)]
        place(acc, i) ==
            LET child == nodes[node.children[i]]
                full == Bounded(child, axis,
                            IF child.fixed[axis] # None THEN child.fixed[axis]
                            ELSE IF child.weight > 0 THEN (free * child.weight) \div weights
                            ELSE child.measured[axis])
                gives == /\ child.fixed[axis] = None
                         /\ i < Len(node.children) \/ Len(node.children) = 1
                given == IF gives THEN Smaller(acc.short, Larger(0, full - NarrowestShrunk)) ELSE 0
                left == Larger(0, content.at[axis] + content.size[axis] - acc.cursor)
                main == CASE axis = 1 -> Smaller(Smaller(full - given, content.size[1]), left)
                          [] scrolls -> full
                          [] OTHER -> Smaller(full, content.size[2])
                across == cross(child)
            IN  [cursor |-> acc.cursor + main + node.gap + spread.step,
                 short |-> acc.short - given,
                 nodes |-> [acc.nodes EXCEPT ![node.children[i]].rect =
                               [at |-> Along(axis, acc.cursor, across.at),
                                size |-> Along(axis, main, across.size)]]]
    IN  FoldLeft(place,
                 [cursor |-> content.at[axis] + spread.first - offset, short |-> short,
                  nodes |-> IF scrolls THEN [nodes EXCEPT ![s].offset = offset] ELSE nodes],
                 [i \in DOMAIN node.children |-> i]).nodes

\* grid_layout: a column is a length or 0, a share of what is left; rows share
\* the height.
GridLayout(nodes, s) ==
    LET node == nodes[s]
        content == Content(node)
        columns == IF node.columns = <<>> THEN <<0>> ELSE node.columns
        count == Len(columns)
        shares == Cardinality({c \in 1 .. count : columns[c] = 0})
        left == Larger(0, content.size[1] - node.gap * (count - 1) - FoldLeft(+, 0, columns))
        wide(c) == IF columns[c] = 0 THEN left \div shares ELSE columns[c]
        rows == (Len(node.children) + count - 1) \div count
        high == (content.size[2] - node.gap * (rows - 1)) \div rows
        cell(i) ==
            LET column == 1 + ((i - 1) % count)
            IN  [at |-> <<content.at[1] +
                              FoldLeft(LAMBDA x, c : x + wide(c) + node.gap, 0,
                                       [c \in 1 .. column - 1 |-> c]),
                          content.at[2] + ((i - 1) \div count) * (high + node.gap)>>,
                 size |-> <<wide(column), high>>]
        fits(child, c) ==
            [c EXCEPT !.size = [axis \in 1 .. 2 |->
                IF child.fixed[axis] # None THEN Smaller(child.fixed[axis], @[axis]) ELSE @[axis]]]
    IN  FoldLeft(LAMBDA ns, i : [ns EXCEPT ![node.children[i]].rect = fits(ns[node.children[i]], cell(i))],
                 nodes, [i \in DOMAIN node.children |-> i])

AbsoluteLayout(nodes, s) ==
    FoldLeft(LAMBDA ns, c : [ns EXCEPT ![c].rect =
                 [at |-> <<nodes[s].rect.at[1] + ns[c].place[1],
                           nodes[s].rect.at[2] + ns[c].place[2]>>,
                  size |-> <<Asked(ns[c], 1), Asked(ns[c], 2)>>]],
             nodes, nodes[s].children)

StackLayout(nodes, s) ==
    FoldLeft(LAMBDA ns, c : [ns EXCEPT ![c].rect = nodes[s].rect], nodes, nodes[s].children)

\* layout_tree: the root gets the surface, the others what their parent gives them.
LaidOut(nodes, size) ==
    LET place(ns, s) == CASE ns[s].children = <<>> -> ns
                          [] Flows(ns[s]) -> FlexLayout(ns, s)
                          [] ns[s].mode = "grid" -> GridLayout(ns, s)
                          [] ns[s].mode = "absolute" -> AbsoluteLayout(ns, s)
                          [] ns[s].mode = "stack" -> StackLayout(ns, s)
    IN  FoldLeft(place, [nodes EXCEPT ![1].rect = [at |-> <<0, 0>>, size |-> size]],
                 [s \in 1 .. Cardinality(DOMAIN nodes) |-> s])

-----------------------------------------------------------------------------
(* mod.rs: hit_test *)

\* Where a widget is shown: its rectangle, moved as its transform says.
Area(node) == [node.rect EXCEPT !.at = <<@[1] + node.shift[1], @[2] + node.shift[2]>>]

Inside(area, p) ==
    \A axis \in 1 .. 2 : p[axis] >= area.at[axis] /\ p[axis] < area.at[axis] + area.size[axis]

Clips(node) == node.clips \/ node.scrolls

RECURSIVE HitBelow(_, _, _)
HitBelow(nodes, s, p) ==
    LET node == nodes[s]
        inside == Inside(Area(node), p)
        hits == SelectSeq([i \in DOMAIN node.children |-> HitBelow(nodes, node.children[i], p)],
                          LAMBDA hit : hit # None)
    IN  IF Clips(node) /\ ~inside THEN None
        ELSE IF hits # <<>> THEN Last(hits)
        ELSE IF inside /\ ~node.failed THEN s ELSE None

HitTest(nodes, p) == HitBelow(nodes, 1, p)

-----------------------------------------------------------------------------
(* render_bridge.rs: the scene of a tree, as the CPU paints it *)

\* build_progress_scene, and the fill of build_slider_scene: the part of the
\* widget that its value covers.
Fill(node) ==
    LET area == Area(node)
        axis == node.flow.axis
        span == Larger(1, node.value.to - node.value.from)
        covered == Clamp((area.size[axis] * (node.value.now - node.value.from)) \div span,
                         0, area.size[axis])
    IN  [at |-> [area.at EXCEPT ![axis] = IF node.flow.back THEN @ + area.size[axis] - covered ELSE @],
         size |-> [area.size EXCEPT ![axis] = covered]]

\* build_slider_thumb_scene: hovered, the thumb is 18 percent larger.  The call
\* of clamp panics on a track shorter than the thumb.
ThumbRadius(node, on) == IF on THEN (node.thumb * 118) \div 100 ELSE node.thumb
ThumbFits(node, on) == 2 * ThumbRadius(node, on) <= Area(node).size[node.flow.axis]
Thumb(node, on) ==
    LET area == Area(node)
        axis == node.flow.axis
        r == ThumbRadius(node, on)
        fill == Fill(node)
        end == IF node.flow.back THEN fill.at[axis] ELSE fill.at[axis] + fill.size[axis]
        center == [i \in 1 .. 2 |->
                      IF i = axis THEN Clamp(end, area.at[i] + r, area.at[i] + area.size[i] - r)
                      ELSE area.at[i] + area.size[i] \div 2]
    IN  [at |-> <<center[1] - r, center[2] - r>>, size |-> <<2 * r, 2 * r>>]

\* build_scrollbar_scene.  The call of clamp panics on a track shorter than the
\* smallest thumb.
Overflows(nodes, s) ==
    LET high(child) == IF child.fixed[2] # None THEN child.fixed[2]
                       ELSE Larger(child.measured[2], child.rect.size[2])
    IN  /\ nodes[s].scrolls /\ nodes[s].children # <<>>
        /\ Total(nodes, nodes[s].children, high) + Gaps(nodes[s]) + 2 * nodes[s].pad
             > nodes[s].rect.size[2] + 1
        /\ nodes[s].rect.size[2] > SmallestViewport
ScrollbarFits(nodes, s) ==
    Overflows(nodes, s) => nodes[s].rect.size[2] - 2 * TrackPad >= SmallestThumb

\* The place of text and images: the padding is given up where it leaves no room.
Inner(node) ==
    LET area == Area(node)
        line == Smaller(TextHeight, area.size[2])
        x == IF node.kind = "button" /\ 200 * node.pad > 24 * area.size[1] THEN (8 * area.size[1]) \div 100
             ELSE IF 2 * node.pad >= area.size[1] THEN 0 ELSE node.pad
        y == IF area.size[2] - 2 * node.pad < line THEN (area.size[2] - line) \div 2 ELSE node.pad
    IN  [at |-> <<area.at[1] + x, area.at[2] + y>>,
         size |-> <<Larger(1, area.size[1] - 2 * x), Larger(1, area.size[2] - 2 * y)>>]

\* What a widget paints itself, from the bottom up: "area" is its container, which
\* shows nothing but holds the rest.
Part(name, area) == <<[name |-> name, area |-> area]>>
When(cond, part) == IF cond THEN part ELSE <<>>

\* What its style shows; a ring and a slider take part of it into their own hands.
StyleParts(node) ==
    LET plain == node.kind = "text" /\ node.look \cap {"background", "outline"} = {}
        styled(what, kinds) == When(what \in node.look /\ node.kind \notin kinds, Part(what, Area(node)))
    IN  When(~plain, styled("shadow", {})) \o styled("background", {"ring"})
        \o styled("outline", {"ring", "slider"})

FillParts(node) ==
    When(\A axis \in 1 .. 2 : Fill(node).size[axis] > 0, Part("fill", Fill(node)))

\* build_progress_ring_scene: nothing where the ring would not fit.
RingParts(node) ==
    When(\A axis \in 1 .. 2 : Area(node).size[axis] > 2 + RingWidth,
         Part("arc", Area(node)) \o Part("text", Area(node)))

\* build_slider_scene
SliderParts(node, on) ==
    LET all == Area(node)
    IN  FillParts(node)
        \o When(node.value.from < 100 /\ node.value.to > 100, Part("tick", all))
        \o Part("text", all)
        \o When("outline" \in node.look, Part("outline", all))
        \o Part("thumb", Thumb(node, on))

\* build_text_or_input_scene
TextParts(node) ==
    When(\/ node.kind \in {"text", "button", "input"}
         \/ node.kind = "module" /\ node.children = <<>>, Part("text", Inner(node)))

Pieces(node, on) ==
    Part("area", Area(node)) \o StyleParts(node)
    \o (CASE node.kind = "progress" -> FillParts(node)
          [] node.kind = "ring" -> RingParts(node)
          [] node.kind = "slider" -> SliderParts(node, on)
          [] node.kind = "image" -> Part("image", Inner(node))
          [] OTHER -> <<>>)
    \o TextParts(node)

\* Children in the order of their z index; stable, as sort_by_key is.
FromBehind(nodes, children) ==
    LET order == SetToSortSeq(DOMAIN children,
                     LAMBDA i, j : LET zi == nodes[children[i]].z
                                       zj == nodes[children[j]].z
                                   IN  zi < zj \/ (zi = zj /\ i < j))
    IN  [k \in DOMAIN order |-> children[order[k]]]

\* build_scene_node_with_anim: what is painted so far, with all of a widget or, when
\* it panics, nothing of it and of those under it.  All but the shadow of a widget that
\* clips is clipped to it.
RECURSIVE Painted(_, _, _, _, _, _)
Painted(nodes, below, s, clip, on, panics) ==
    LET node == nodes[s]
        all == Area(node)
        held == IF Clips(node) THEN clip \cup {all} ELSE clip
        items(parts) == [i \in DOMAIN parts |->
                            [widget |-> s, name |-> parts[i].name, area |-> parts[i].area,
                             clip |-> IF parts[i].name = "shadow" THEN clip ELSE held]]
        own == below \o items(Pieces(node, s \in on))
        inner == FoldLeft(LAMBDA acc, c : Painted(nodes, acc, c, held, on, panics),
                          own, FromBehind(nodes, node.children))
        bar == When(Overflows(nodes, s), items(Part("scrollbar", all)))
        panicked == \/ s \in panics
                    \/ node.kind = "slider" /\ ~ThumbFits(node, s \in on)
                    \/ ~ScrollbarFits(nodes, s)
    IN  IF node.failed \/ all.size[1] <= 0 \/ all.size[2] <= 0 THEN below
        ELSE IF panicked THEN SubSeq(inner, 1, Len(below))
        ELSE inner \o bar

\* render_scene_node_offset: a point where an item is painted.
PaintsAt(item, p) == \A area \in {item.area} \cup item.clip : Inside(area, p)

\* is_node_hovered: the widget the pointer is on, and those around it.
On(nodes, widget) == IF widget = None THEN {} ELSE {s \in DOMAIN nodes : widget \in Under(nodes, s)}

Frame(nodes, widget, panics) == Painted(nodes, <<>>, 1, {}, On(nodes, widget), panics)

-----------------------------------------------------------------------------
(* Steps *)

Rectangles == [at : Seq(Int), size : Seq(Int)]

TypeOK ==
    /\ \A s \in DOMAIN tree : tree[s].measured \in Seq(Nat) /\ tree[s].rect \in Rectangles
    /\ hovered \in DOMAIN tree \cup {None}
    /\ stage \in {"changed", "laid out", "rendered"}
    /\ \A i \in DOMAIN scene : scene[i].widget \in DOMAIN tree /\ scene[i].area \in Rectangles
    /\ lost \subseteq DOMAIN tree

Init ==
    /\ tree \in Trees
    /\ hovered = None /\ stage = "changed" /\ scene = <<>> /\ lost = {}

\* What is on the screen no longer counts.
Turn(to) == stage' = to /\ scene' = <<>> /\ lost' = {}

\* A widget may panic while it is measured or while the scene is built (a font, a
\* picture).  MaxPanics bounds those that do.
Panics ==
    {p \in {{}} \cup {{s} : s \in DOMAIN tree} :
        Cardinality({s \in DOMAIN tree : tree[s].failed}) + Cardinality(p) <= MaxPanics}

\* measure_tree and layout_tree.
Layout(size) ==
    /\ \E panics \in Panics : tree' = LaidOut(Measured(tree, size, panics), size)
    /\ Turn("laid out") /\ UNCHANGED hovered

\* The part of render_surface that builds and paints a scene.
Render ==
    /\ stage = "laid out"
    /\ \E panics \in Panics : scene' = Frame(tree, hovered, panics) /\ lost' = panics
    /\ stage' = "rendered" /\ UNCHANGED <<tree, hovered>>

\* The pointer moves: the host asks what it is on.
Point(p) ==
    /\ stage # "changed"
    /\ hovered' = HitTest(tree, p)
    /\ hovered' # hovered
    /\ Turn("laid out") /\ UNCHANGED tree

\* The host scrolls a widget, or the content of one changes.
Change(s, node) ==
    /\ node # tree[s]
    /\ tree' = [tree EXCEPT ![s] = node]
    /\ Turn("changed") /\ UNCHANGED hovered

ScrollTo(s, offset) == tree[s].scrolls /\ Change(s, [tree[s] EXCEPT !.offset = offset])

SetContent(s, size) ==
    tree[s].kind \in {"text", "image"} /\ Change(s, [tree[s] EXCEPT !.natural = size])

\* The corners of what is shown, inside and just outside.
Probes == UNION {LET area == Area(tree[s])
                 IN  {<<x, y>> : x \in {area.at[1], area.at[1] + area.size[1]},
                                 y \in {area.at[2], area.at[2] + area.size[2]}} : s \in DOMAIN tree}

Next ==
    \/ \E size \in Sizes : Layout(size)
    \/ Render
    \/ \E p \in Probes : Point(p)
    \/ \E s \in DOMAIN tree :
           \/ \E offset \in Offsets : ScrollTo(s, offset)
           \/ \E size \in Natural : SetContent(s, size)

Spec == Init /\ [][Next]_vars

-----------------------------------------------------------------------------
(* Properties *)

\* Nothing of a widget that has failed, panicked or has no area is painted, nor
\* of a slider shorter than its thumb or a scrolling widget too low for its
\* scrollbar, where clamp panics; all others are, in the same order as without.
FailuresAreContained ==
    stage = "rendered" =>
        LET on(s) == s \in On(tree, hovered)
            missing == lost \cup {s \in DOMAIN tree :
                            \/ tree[s].failed
                            \/ tree[s].rect.size[1] <= 0 \/ tree[s].rect.size[2] <= 0
                            \/ tree[s].kind = "slider" /\ ~ThumbFits(tree[s], on(s))
                            \/ ~ScrollbarFits(tree, s)}
            gone == UNION {Under(tree, s) : s \in missing}
            whole == Frame(tree, hovered, {})
        IN  /\ {scene[i].widget : i \in DOMAIN scene} = DOMAIN tree \ gone
            /\ scene = SelectSeq(whole, LAMBDA item : item.widget \notin gone)

\* The pointer is on the widget that is seen on top there, when the whole tree is
\* shown and siblings are stacked in their own order: hit_test does not look at
\* z indices, nor at what is painted.
OnTopIsHit ==
    LET ordered == \A s \in DOMAIN tree : FromBehind(tree, tree[s].children) = tree[s].children
        shown == {scene[i].widget : i \in DOMAIN scene} = DOMAIN tree
        top(p) == LET items == SelectSeq(scene, LAMBDA item : item.name = "area" /\ PaintsAt(item, p))
                  IN  IF items = <<>> THEN None ELSE Last(items).widget
    IN  stage = "rendered" /\ ordered /\ shown => \A p \in Probes : HitTest(tree, p) = top(p)

\* Whatever the host scrolled to and however the content has shrunk since: no gap
\* opens above the first or below the last child of a column that scrolls.
ScrollStaysInRange ==
    stage # "changed" =>
        \A s \in DOMAIN tree :
            LET node == tree[s]
                content == Content(node)
                first == tree[node.children[1]].rect
                last == tree[Last(node.children)].rect
            IN  node.scrolls /\ node.mode = "column" /\ node.children # <<>> /\ node.justify = "start" =>
                    /\ node.offset >= 0 /\ first.at[2] <= content.at[2]
                    /\ node.offset > 0 =>
                           last.at[2] + last.size[2] >= content.at[2] + content.size[2]

\* Siblings of a row, a column or a grid do not cover each other, and those of a
\* row end where its content ends, or have no width left.
SiblingsKeepApart ==
    stage # "changed" =>
        \A s \in DOMAIN tree :
            LET node == tree[s]
                content == Content(node)
                end(rect, axis) == rect.at[axis] + rect.size[axis]
                rects == [i \in DOMAIN node.children |-> tree[node.children[i]].rect]
                axes == IF node.mode = "grid" THEN 1 .. 2 ELSE {Axis(node)}
            IN  Flows(node) \/ node.mode = "grid" =>
                    /\ \A i, j \in DOMAIN rects : i < j =>
                           \E axis \in axes : end(rects[i], axis) <= rects[j].at[axis]
                    /\ node.mode = "row" =>
                           \A i \in DOMAIN rects : \/ rects[i].size[1] = 0
                                                   \/ end(rects[i], 1) <= end(content, 1)

\* The thumb of a slider stays on its track and reaches the end of the fill.
ThumbIsOnTrack ==
    \A i \in DOMAIN scene :
        LET node == tree[scene[i].widget]
            axis == node.flow.axis
            thumb == scene[i].area
            fill == Fill(node)
            end == IF node.flow.back THEN fill.at[axis] ELSE fill.at[axis] + fill.size[axis]
        IN  scene[i].name = "thumb" =>
                /\ thumb.at[axis] >= Area(node).at[axis]
                /\ thumb.at[axis] + thumb.size[axis] <= Area(node).at[axis] + Area(node).size[axis]
                /\ end \in thumb.at[axis] .. thumb.at[axis] + thumb.size[axis]

\* The five together.
WhatIsSeenIsSound ==
    /\ FailuresAreContained /\ OnTopIsHit
    /\ ScrollStaysInRange /\ SiblingsKeepApart /\ ThumbIsOnTrack
=============================================================================
