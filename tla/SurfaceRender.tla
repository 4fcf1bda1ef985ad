--------------------------- MODULE SurfaceRender ---------------------------
(***************************************************************************)
(* render_surface_impl (wyrd-widgets, widgets/render_bridge.rs) with the   *)
(* per-surface caches of RenderContext (wyrd-graphics, render/context.rs): *)
(* prev_scenes, the scene graph of the last full pass over a surface, and  *)
(* cached_surface_pixmaps, the untransformed pixmap a fade or slide reuses.*)
(* The image fetcher is one global flag, set when a download has finished  *)
(* and consumed by the first surface rendered afterwards.                  *)
(*                                                                         *)
(* A scene is abstracted to what decides whether a pixmap may be reused:   *)
(* the version of the widget tree, and its look (hover, focus, widget      *)
(* animation values), which changes without the tree becoming dirty.       *)
(***************************************************************************)
EXTENDS Naturals

CONSTANTS
    Surfaces,     \* surface indices
    Sizes,        \* physical sizes a surface can have
    Looks,        \* hover, focus and animation states of a tree
    MaxVersion,   \* bound on the changes to a tree
    MaxImages,    \* bound on the downloads that finish
    HasGpu,       \* built with gpu-render and a GPU target is passed
    None,         \* an absent cache entry or frame
    Blank         \* the pixels of a frame on which nothing is drawn

ASSUME BoundsAreNaturals == MaxVersion \in Nat /\ MaxImages \in Nat
ASSUME HasGpu \in BOOLEAN

VARIABLES
    tree,       \* surface -> version of its widget tree
    treeDirty,  \* surface -> some node of the tree has its dirty field set
    size,       \* surface -> physical size
    images,     \* downloads finished so far: what images look like when drawn
    completed,  \* the fetcher's completion flag
    prev_scenes,
    cached_surface_pixmaps,
    frame,      \* the frame the last step returned, or None
    bypassed,   \* history: prev_scenes moved on and left the cached pixmap behind
    overtaken   \* history: another surface consumed the completion flag

caches == <<prev_scenes, cached_surface_pixmaps>>
ghosts == <<bypassed, overtaken>>
vars == <<tree, treeDirty, size, images, completed, caches, frame, ghosts>>

Scenes  == [tree : 0 .. MaxVersion, look : Looks]
Pixmaps == [scene : Scenes, size : Sizes, images : 0 .. MaxImages]

\* A frame: the surface, the scene and size the caller asked for, the pixels it
\* got, and whether they went without a surface transform.
Frames == [surface : Surfaces, wanted : Scenes, size : Sizes, plain : BOOLEAN, pixels : Pixmaps \cup {Blank}]

TypeOK ==
    /\ tree \in [Surfaces -> 0 .. MaxVersion]
    /\ treeDirty \in [Surfaces -> BOOLEAN]
    /\ size \in [Surfaces -> Sizes]
    /\ images \in 0 .. MaxImages
    /\ completed \in BOOLEAN
    /\ prev_scenes \in [Surfaces -> Scenes \cup {None}]
    /\ cached_surface_pixmaps \in [Surfaces -> Pixmaps \cup {None}]
    /\ frame \in Frames \cup {None}
    /\ bypassed \in [Surfaces -> BOOLEAN]
    /\ overtaken \in [Surfaces -> BOOLEAN]

Init ==
    /\ tree = [s \in Surfaces |-> 0]
    /\ treeDirty = [s \in Surfaces |-> TRUE]
    /\ size \in [Surfaces -> Sizes]
    /\ images = 0
    /\ completed = FALSE
    /\ prev_scenes = [s \in Surfaces |-> None]
    /\ cached_surface_pixmaps = [s \in Surfaces |-> None]
    /\ frame = None
    /\ bypassed = [s \in Surfaces |-> FALSE]
    /\ overtaken = [s \in Surfaces |-> FALSE]

-----------------------------------------------------------------------------
(* What happens around the renderer *)

\* A tree update marks the nodes it touches dirty.
ChangeTree(s) ==
    /\ tree[s] < MaxVersion
    /\ tree' = [tree EXCEPT ![s] = @ + 1]
    /\ treeDirty' = [treeDirty EXCEPT ![s] = TRUE]
    /\ frame' = None
    /\ UNCHANGED <<size, images, completed, caches, ghosts>>

\* The host clears the dirty fields of a tree it has rendered.
SettleTree(s) ==
    /\ prev_scenes[s] # None
    /\ prev_scenes[s].tree = tree[s]
    /\ treeDirty' = [treeDirty EXCEPT ![s] = FALSE]
    /\ frame' = None
    /\ UNCHANGED <<tree, size, images, completed, caches, ghosts>>

Resize(s) ==
    /\ \E z \in Sizes : size' = [size EXCEPT ![s] = z]
    /\ frame' = None
    /\ UNCHANGED <<tree, treeDirty, images, completed, caches, ghosts>>

\* A background download is renamed into place and the flag is set.
ImageArrives ==
    /\ images < MaxImages
    /\ images' = images + 1
    /\ completed' = TRUE
    /\ frame' = None
    /\ UNCHANGED <<tree, treeDirty, size, caches, ghosts>>

-----------------------------------------------------------------------------
(* render_surface_impl *)

\* execute_scene_render: the pixels of a scene as it is now.
Draw(s, scene) == [scene |-> scene, size |-> size[s], images |-> images]

\* Mutant: only the presence of the cached pixmap is tested, not its size.
FitsAnySize(s, pixmap) == pixmap # None

Fits(s, pixmap) == pixmap # None /\ pixmap.size = size[s]

\* Mutant: the pixmap survives a finished download.
CacheKeptOverDownload(s) == cached_surface_pixmaps[s]

\* is_completed: the flag is consumed, and the caches of this surface dropped.
Prev(s)  == IF completed THEN None ELSE prev_scenes[s]
Cache(s) == IF completed THEN None ELSE cached_surface_pixmaps[s]

\* Mutant: prev_scenes is kept under the index of every surface.
ReturnToAll(s, scene, plain, pixels, prev, cache, behind) ==
    /\ frame' = [surface |-> s, wanted |-> scene, size |-> size[s],
                 plain |-> plain, pixels |-> pixels]
    /\ prev_scenes' = prev
    /\ cached_surface_pixmaps' = [cached_surface_pixmaps EXCEPT ![s] = cache]
    /\ completed' = FALSE
    /\ UNCHANGED <<ghosts, tree, treeDirty, size, images>>

\* The frame handed back, and what the caches hold afterwards.  behind says that
\* the scene moved on without the cached pixmap.
Return(s, scene, plain, pixels, prev, cache, behind) ==
    LET kept == cache # None /\ cache = Cache(s)
    IN  /\ frame' = [surface |-> s, wanted |-> scene, size |-> size[s],
                     plain |-> plain, pixels |-> pixels]
        /\ prev_scenes' = [prev_scenes EXCEPT ![s] = prev]
        /\ cached_surface_pixmaps' = [cached_surface_pixmaps EXCEPT ![s] = cache]
        /\ completed' = FALSE
        /\ bypassed' = [bypassed EXCEPT ![s] = kept /\ (@ \/ behind)]
        /\ overtaken' = [r \in Surfaces |->
               IF r = s THEN kept /\ overtaken[s]
               ELSE overtaken[r] \/ (completed /\ cached_surface_pixmaps[r] # None)]
        /\ UNCHANGED <<tree, treeDirty, size, images>>

\* A transformed frame of a clean tree reuses the pixmap without a look at the
\* scene; at an opacity near zero nothing is drawn.
QuickTransform(s, scene, visible, animating) ==
    /\ ~treeDirty[s] /\ ~animating /\ Fits(s, Cache(s))
    /\ Return(s, scene, FALSE, IF visible THEN Cache(s) ELSE Blank,
              Prev(s), Cache(s), FALSE)

\* A transformed frame that builds the scene: the raw pixmap is redrawn when
\* the scene changed or the pixmap does not fit.
FullTransform(s, scene, animating) ==
    LET raw == IF Prev(s) = scene /\ Fits(s, Cache(s)) THEN Cache(s) ELSE Draw(s, scene)
    IN  /\ treeDirty[s] \/ animating \/ ~Fits(s, Cache(s))
        /\ Return(s, scene, FALSE, raw, scene, raw, FALSE)

\* The same at an opacity near zero: the pixmap stays as it is, the scene is
\* recorded all the same.
HiddenTransform(s, scene, animating) ==
    /\ treeDirty[s] \/ animating \/ ~Fits(s, Cache(s))
    /\ Return(s, scene, FALSE, Blank, scene, Cache(s), Prev(s) # scene)

\* No transform, GPU target: the frame is presented, the cached pixmap stays.
GpuFrame(s, scene) ==
    /\ HasGpu
    /\ Return(s, scene, TRUE, Draw(s, scene), scene, Cache(s), Prev(s) # scene)

\* Mutant: a pixmap that fits is taken for current.
CpuFrameWithoutDiff(s, scene) ==
    LET pixels == IF Fits(s, Cache(s)) THEN Cache(s) ELSE Draw(s, scene)
    IN  Return(s, scene, TRUE, pixels, scene, None, FALSE)

\* No transform on the CPU (no GPU, or it failed): the pixmap of a finished
\* transform becomes the frame when the scene is unchanged, and is dropped.
CpuFrame(s, scene) ==
    LET pixels == IF Prev(s) = scene /\ Fits(s, Cache(s)) THEN Cache(s) ELSE Draw(s, scene)
    IN  Return(s, scene, TRUE, pixels, scene, None, FALSE)

\* wanted says that the host asked for a frame or that an animation is active.
\* A widget animation is active only when some animation is.
Render(s) ==
    \E wanted, animating \in BOOLEAN, look \in Looks :
        LET scene == [tree |-> tree[s], look |-> look]
        IN  /\ wanted \/ completed
            /\ animating => wanted
            /\ \/ \E visible \in BOOLEAN : QuickTransform(s, scene, visible, animating)
               \/ FullTransform(s, scene, animating)
               \/ HiddenTransform(s, scene, animating)
               \/ GpuFrame(s, scene)
               \/ CpuFrame(s, scene)

Next ==
    \/ \E s \in Surfaces : ChangeTree(s) \/ SettleTree(s) \/ Resize(s) \/ Render(s)
    \/ ImageArrives

Spec == Init /\ [][Next]_vars

-----------------------------------------------------------------------------
(* Properties *)

\* Whatever path produced it, a frame that shows anything has the size of the
\* surface at the time: a pixmap cached before a resize is never presented.
FrameFitsSurface == frame # None /\ frame.pixels # Blank => frame.pixels.size = frame.size

\* A frame without a transform shows the scene it was asked for, unless the
\* cached pixmap was left behind by a hidden or GPU frame.  (The step that shows
\* the stale pixmap drops it, so the exception is read in the state before.)
PlainFramesAreCurrent ==
    [][frame' # None /\ frame'.plain =>
           frame'.pixels.scene = frame'.wanted \/ bypassed[frame'.surface]]_vars

\* A transformed frame may show an old look, but never an old widget tree,
\* under the same exception.
TransformedFramesShowTheTree ==
    [][frame' # None /\ ~frame'.plain /\ frame'.pixels # Blank =>
           frame'.pixels.scene.tree = frame'.wanted.tree \/ bypassed[frame'.surface]]_vars

\* What a frame shows of the scene is current, with and without a transform.
FramesAreCurrent == PlainFramesAreCurrent /\ TransformedFramesShowTheTree

\* Frames show the images downloaded so far, unless another surface was
\* rendered first and took the completion flag.
ImagesAreCurrent ==
    [][frame' # None /\ frame'.pixels # Blank =>
           frame'.pixels.images = images \/ overtaken[frame'.surface]]_vars

\* The changelog's promise, "Prevented stale scene-cache reuse when widgets are
\* removed": a frame without a transform shows the widgets the tree has.
NoStaleReuse ==
    frame # None /\ frame.plain => frame.pixels.scene.tree = frame.wanted.tree
=============================================================================
