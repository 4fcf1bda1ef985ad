------------------------------ MODULE GpuFrame ------------------------------
(***************************************************************************)
(* One frame on the GPU: GpuRenderer (wyrd-graphics, render/gpu.rs) turns  *)
(* the nodes of a scene into draw instances, looks up or loads their       *)
(* textures, packs their data into shared buffers and encodes passes that  *)
(* are split at every blur; WaylandGpuSurface (wyrd-wayland,               *)
(* wayland/gpu_surface.rs) lends the frame a persistent backbuffer.  What  *)
(* glyphs do to their atlas is in GlyphAtlas.                              *)
(*                                                                         *)
(* Of a scene node only what decides how it is encoded is kept: how many   *)
(* instances it becomes, the file it samples, and how many gradient stops, *)
(* path segments and clip regions its instances carry.                     *)
(***************************************************************************)
EXTENDS Integers, Sequences, FiniteSets, Functions

CONSTANTS
    Nodes,        \* the visible nodes a scene can be made of
    MaxInstances, \* bound on the instances of a frame
    Files,        \* images and drawings on disk
    MaxMtime,     \* bound on the times a file is written
    MaxTextures,  \* texture_cache_capacity (256)
    Sizes,        \* sizes of the surface
    MaxFrames,    \* bound on the frames submitted
    InitialCapacity, \* buffer -> entries it is made for
    None          \* no file, no texture, no buffer

\* A node: kind is "shape" (all kinds drawn with plain blending), "tint"
\* (multiplied), "image" or "blur"; it has parts instances, each with its own
\* stops, segments and clips.

Buffers == {"instances", "stops", "segments", "clips"}

VARIABLES
    mtime,           \* file -> time of its last write
    instances,       \* [kind, key, radius, stops, segments, clips], in paint order
    texture_assets,  \* keys <<file, mtime>>, oldest access first
    capacity,        \* buffer -> entries it can hold
    bind_group,      \* the capacities of the buffers the shaders are bound to
    blur_intermediate, \* the size of the second texture of a blur, or None
    config,          \* size the surface is configured for
    backbuffer,      \* [size, filled]: filled once a whole frame was drawn; None
    initialized,     \* preserves_contents of the target
    stage,           \* "idle", "collect", "encoded", "presented"
    frame_id,        \* frames submitted
    ops              \* the passes of the frame, with what they were encoded from

caches  == <<texture_assets, capacity, bind_group, blur_intermediate>>
target  == <<config, backbuffer, initialized>>
vars == <<mtime, instances, caches, target, stage, frame_id, ops>>

NoOps == [passes |-> <<>>, slices |-> <<>>, data |-> [b \in Buffers |-> <<>>],
          params |-> <<>>, damaged |-> FALSE]

TypeOK ==
    /\ mtime \in [Files -> 1 .. MaxMtime]
    /\ Len(instances) <= MaxInstances
    /\ texture_assets \in Seq(Files \X (1 .. MaxMtime))
    /\ Len(texture_assets) <= MaxTextures /\ IsInjective(texture_assets)
    /\ capacity \in [Buffers -> Nat] /\ bind_group \in [Buffers -> Nat]
    /\ blur_intermediate \in Sizes \cup {None}
    /\ config \in Sizes /\ initialized \in BOOLEAN
    /\ backbuffer \in [size : Sizes, filled : BOOLEAN] \cup {None}
    /\ stage \in {"idle", "collect", "encoded", "presented"}
    /\ frame_id \in 0 .. MaxFrames

Init ==
    /\ mtime = [f \in Files |-> 1]
    /\ instances = <<>>
    /\ texture_assets = <<>>
    /\ capacity = InitialCapacity /\ bind_group = capacity
    /\ blur_intermediate = None
    /\ config = CHOOSE z \in Sizes : TRUE
    /\ backbuffer = None /\ initialized = FALSE
    /\ stage = "idle" /\ frame_id = 0 /\ ops = NoOps

-----------------------------------------------------------------------------
(* Files, and the target *)

\* A file is written.  (One that is missing makes the frame fail.)
ChangeFile(f) ==
    /\ stage \in {"idle", "collect"}
    /\ mtime[f] < MaxMtime
    /\ mtime' = [mtime EXCEPT ![f] = @ + 1]
    /\ UNCHANGED <<instances, caches, target, stage, frame_id, ops>>

\* No frame is under way.
Dropped == stage' = "idle" /\ instances' = <<>> /\ ops' = NoOps

\* resize: the backbuffer of the old size is dropped.
Resize(size) ==
    /\ stage = "idle" /\ size # config
    /\ config' = size /\ backbuffer' = None /\ initialized' = FALSE
    /\ Dropped
    /\ UNCHANGED <<mtime, caches, frame_id>>

\* acquire_frame: a lost or outdated surface is configured again and asked once
\* more; the backbuffer is made when there is none.
Acquire ==
    /\ stage = "idle" /\ frame_id < MaxFrames
    /\ backbuffer' = IF backbuffer = None THEN [size |-> config, filled |-> FALSE] ELSE backbuffer
    /\ instances' = <<>> /\ ops' = NoOps
    /\ stage' = "collect"
    /\ UNCHANGED <<mtime, caches, config, initialized, frame_id>>

\* The end of a frame, also when a step of it returns an error: then nothing is
\* submitted, but the caches keep what was put into them.
Leave ==
    /\ Dropped
    /\ UNCHANGED <<mtime, caches, target, frame_id>>

\* GpuPresented::present: the surface texture goes to the compositor.
Present == stage = "presented" /\ Leave

-----------------------------------------------------------------------------
(* collect_instances *)

\* ensure_texture_asset on a hit: the access makes the i-th entry the newest.
Touch(i) ==
    [k \in DOMAIN texture_assets |->
        IF k < i THEN texture_assets[k]
        ELSE IF k = Len(texture_assets) THEN texture_assets[i] ELSE texture_assets[k + 1]]

\* ensure_texture_asset on a miss: a full cache loses its oldest entry.
Insert(key) ==
    Append(IF Len(texture_assets) >= MaxTextures THEN Tail(texture_assets) ELSE texture_assets, key)

\* image_texture and svg_texture: the time of the last write is in the key.
Key(node) == IF node.kind = "image" THEN <<node.file, mtime[node.file]>> ELSE None

\* The instances of a node share its texture and its clip regions.
InstancesOf(node) ==
    [p \in 1 .. node.parts |->
        [kind |-> node.kind, key |-> Key(node), radius |-> node.radius,
         stops |-> node.stops, segments |-> node.segments, clips |-> node.clips]]

\* The next node of the scene.  (One without an extent or outside the surface is
\* passed over and leaves no trace.)
Collect(node) ==
    /\ stage = "collect" /\ Len(instances) + node.parts <= MaxInstances
    /\ instances' = instances \o InstancesOf(node)
    /\ UNCHANGED <<mtime, target, stage, frame_id, ops, capacity, bind_group, blur_intermediate>>

CollectPlain ==
    \E node \in Nodes : node.kind # "image" /\ Collect(node) /\ UNCHANGED texture_assets

CollectImage ==
    \E node \in Nodes :
        /\ node.kind = "image"
        /\ \/ \E i \in DOMAIN texture_assets :
                  texture_assets[i] = Key(node) /\ texture_assets' = Touch(i)
           \/ Key(node) \notin Range(texture_assets) /\ texture_assets' = Insert(Key(node))
        /\ Collect(node)

\* The file is missing or does not decode: the frame fails, and the caller
\* draws it on the CPU.
CollectFails ==
    /\ stage = "collect"
    /\ \E node \in Nodes : node.kind = "image"
    /\ Leave

-----------------------------------------------------------------------------
(* render_scene: packing, batching, encoding *)

Blurs == {i \in DOMAIN instances : instances[i].kind = "blur"}

\* The owners of the entries that the first n instances write to a shared buffer.
Written(b, n) ==
    LET count(i) == IF b = "instances" THEN 1 ELSE instances[i][b]
        written[i \in 0 .. n] ==
            IF i = 0 THEN <<>> ELSE written[i - 1] \o [k \in 1 .. count(i) |-> i]
    IN  written[n]

Packed(b) == Written(b, Len(instances))

\* Offset and length by which the shader finds the entries of instance i.
Slice(b, i) == <<Len(Written(b, i - 1)), instances[i][b]>>

\* next_power_of_two
PowerOfTwo(n) ==
    LET power[k \in 0 .. n] ==
            IF k = 0 THEN 1 ELSE IF power[k - 1] >= n THEN power[k - 1] ELSE 2 * power[k - 1]
    IN  power[n]

\* ensure_*_capacity: a buffer that is too small is replaced and all are bound anew.
Grown ==
    [b \in Buffers |-> LET required == IF Packed(b) = <<>> THEN 1 ELSE Len(Packed(b))
                       IN  IF required <= capacity[b] THEN capacity[b] ELSE PowerOfTwo(required)]

Binding == IF Grown # capacity THEN Grown ELSE bind_group

\* The texture a key is drawn with: an entry evicted since is drawn white.
Texture(key) == IF key \in Range(texture_assets) THEN key ELSE None

\* Neighbours with the same key and blending share a draw call: [from, to, key,
\* tint], to excluded.  Blurs leave gaps.
Batch(batches, i) ==
    LET tint == instances[i].kind = "tint"
        last == Len(batches)
        joins == last > 0 /\ batches[last].to = i /\ batches[last].key = instances[i].key
                 /\ batches[last].tint = tint
    IN  IF i \in Blurs THEN batches
        ELSE IF joins THEN [batches EXCEPT ![last].to = i + 1]
        ELSE Append(batches, [from |-> i, to |-> i + 1, key |-> instances[i].key, tint |-> tint])

Batches ==
    LET batches[i \in 0 .. Len(instances)] == IF i = 0 THEN <<>> ELSE Batch(batches[i - 1], i)
    IN  batches[Len(instances)]

\* encode_scene_segment: the parts of the batches that lie in start .. end - 1,
\* one draw for the number of each batch that has some there.
Segment(start, end, clear) ==
    LET most(a, b) == IF a > b THEN a ELSE b
        least(a, b) == IF a < b THEN a ELSE b
    IN  [pass |-> "scene", clear |-> clear,
         draws |-> [k \in {k \in DOMAIN Batches : Batches[k].to > start /\ Batches[k].from < end} |->
             [from |-> most(Batches[k].from, start), to |-> least(Batches[k].to, end),
              texture |-> Texture(Batches[k].key), tint |-> Batches[k].tint]]]

\* encode_blur with the n-th parameter buffer, over the bounds of the blur i; one
\* without a radius is no pass.
BlurPass(i, n) ==
    IF instances[i].radius > 0 THEN <<[pass |-> "blur", bounds |-> i, params |-> n]>> ELSE <<>>

\* Mutant: the segment after a blur starts with the blur's predecessor.
AfterBlurOffByOne(acc, i, damaged) ==
    [passes |-> Append(acc.passes, Segment(acc.start, i, acc.passes = <<>> /\ ~damaged))
                \o BlurPass(i, Len(acc.params) + 1),
     params |-> Append(acc.params, instances[i].radius), start |-> i - 1]

\* The segment before the blur i, and the blur with its own parameter buffers.
AfterBlur(acc, i, damaged) ==
    [passes |-> Append(acc.passes, Segment(acc.start, i, acc.passes = <<>> /\ ~damaged))
                \o BlurPass(i, Len(acc.params) + 1),
     params |-> Append(acc.params, instances[i].radius), start |-> i + 1]

\* The passes and the parameters of the blurs; what is left after the last blur is
\* a segment of its own, and so is a scene without any.
Passes(damaged) ==
    LET n == Len(instances)
        split[i \in 0 .. n] ==
            IF i = 0 THEN [passes |-> <<>>, params |-> <<>>, start |-> 1]
            ELSE IF i \in Blurs THEN AfterBlur(split[i - 1], i, damaged) ELSE split[i - 1]
        end == split[n]
    IN  IF end.passes # <<>> /\ end.start > n THEN end
        ELSE [end EXCEPT !.passes =
                 Append(@, Segment(end.start, n + 1, end.passes = <<>> /\ ~damaged))]

\* A frame with a blur, or on a target without contents, is drawn in full,
\* whatever regions the caller found damaged.
Encode ==
    /\ stage = "collect"
    /\ \E regions \in BOOLEAN :
           LET damaged == regions /\ Blurs = {} /\ initialized
           IN  ops' = [passes |-> Passes(damaged).passes,
                       params |-> Passes(damaged).params,
                       slices |-> [i \in DOMAIN instances |->
                                      [b \in Buffers \ {"instances"} |-> Slice(b, i)]],
                       data   |-> [b \in Buffers |-> Packed(b)],
                       damaged |-> damaged]
    /\ capacity' = Grown
    /\ bind_group' = Binding
    /\ blur_intermediate' = IF Blurs = {} THEN blur_intermediate ELSE backbuffer.size
    /\ stage' = "encoded"
    /\ UNCHANGED <<mtime, instances, texture_assets, target, frame_id>>

\* encode_present, queue.submit and mark_rendered.
Submit ==
    /\ stage = "encoded"
    /\ initialized' = TRUE
    /\ backbuffer' = [backbuffer EXCEPT !.filled = @ \/ ~ops.damaged]
    /\ stage' = "presented" /\ frame_id' = frame_id + 1
    /\ UNCHANGED <<mtime, instances, caches, config, ops>>

PresentFails == stage = "encoded" /\ Leave

Next ==
    \/ \E f \in Files : ChangeFile(f)
    \/ \E z \in Sizes : Resize(z)
    \/ Acquire \/ Present
    \/ CollectPlain \/ CollectImage \/ CollectFails
    \/ Encode \/ Submit \/ PresentFails

Spec == Init /\ [][Next]_vars

-----------------------------------------------------------------------------
(* Properties *)

Visible == {i \in DOMAIN instances : i \in Blurs => instances[i].radius > 0}

\* The draw calls of a pass and the instances each of them paints; a blur is one.
Draws(pass) == IF pass.pass = "blur" THEN {1} ELSE DOMAIN pass.draws
Covers(pass, k) ==
    IF pass.pass = "blur" THEN {pass.bounds} ELSE pass.draws[k].from .. pass.draws[k].to - 1

\* With its own radius, or its own blending.
AsMeant(pass, k, i) ==
    IF i \in Blurs THEN pass.pass = "blur" /\ ops.params[pass.params] = instances[i].radius
    ELSE pass.pass = "scene" /\ (pass.draws[k].tint <=> instances[i].kind = "tint")

EveryoneIsPainted ==
    \A i \in Visible : \E p \in DOMAIN ops.passes :
        \E k \in Draws(ops.passes[p]) : i \in Covers(ops.passes[p], k)

PaintedAsMeant ==
    \A p \in DOMAIN ops.passes : \A k \in Draws(ops.passes[p]) :
        \A i \in Covers(ops.passes[p], k) : i \in Visible /\ AsMeant(ops.passes[p], k, i)

\* That an instance is painted no more than once follows for i = j.
PaintedInOrder ==
    \A p, q \in DOMAIN ops.passes :
        \A k \in Draws(ops.passes[p]), l \in Draws(ops.passes[q]) :
            \A i \in Covers(ops.passes[p], k), j \in Covers(ops.passes[q], l) :
                i <= j => p < q \/ (p = q /\ k <= l)

ClearedFirst ==
    \A p \in DOMAIN ops.passes :
        ops.passes[p].pass = "scene" => (ops.passes[p].clear <=> p = 1 /\ ~ops.damaged)

Encoded == stage \in {"encoded", "presented"}

\* The passes paint every visible instance once, as it is meant, and in the order of
\* the scene: every blur comes between what lies under and over it.  The target is
\* cleared first and only first, unless the frame only repaints damage.
PassesPaintTheScene ==
    Encoded => EveryoneIsPainted /\ PaintedAsMeant /\ PaintedInOrder /\ ClearedFirst

\* The shader finds an instance's own stops, segments and clip regions in the
\* buffers it is bound to, and these hold what was written.
SlicesAreOwn ==
    Encoded =>
        /\ bind_group = capacity
        /\ \A b \in Buffers : Len(ops.data[b]) <= capacity[b]
        /\ \A i \in DOMAIN instances, b \in Buffers \ {"instances"} :
               LET s == ops.slices[i][b]
               IN  /\ s[2] = instances[i][b]
                   /\ \A k \in 1 .. s[2] : s[1] + k \in DOMAIN ops.data[b] /\ ops.data[b][s[1] + k] = i

Images == {instances[i].key : i \in DOMAIN instances} \ {None}

\* An image is drawn from its file as it was when the frame looked it up, unless
\* the frame has more images than the cache.
ImagesAreDrawn ==
    Encoded /\ Cardinality(Images) <= MaxTextures =>
        \A p \in DOMAIN ops.passes : ops.passes[p].pass = "scene" =>
            \A k \in Draws(ops.passes[p]) : \A i \in Covers(ops.passes[p], k) :
                ops.passes[p].draws[k].texture = instances[i].key

\* Only a target that holds a whole frame of its present size is repainted in
\* parts, and a blur works on a copy of that size.
DamageNeedsAFrame ==
    Encoded =>
        /\ ops.damaged => backbuffer.filled
        /\ backbuffer.size = config
        /\ Blurs # {} => blur_intermediate = config
=============================================================================
