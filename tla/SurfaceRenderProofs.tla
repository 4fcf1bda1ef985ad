------------------------ MODULE SurfaceRenderProofs ------------------------
(***************************************************************************)
(* Proofs about what is drawn.                                             *)
(*   SurfaceRender: what the two caches of a surface say about each other  *)
(* (CachesAgree) is the inductive invariant, and the frame properties      *)
(* follow from it step by step.                                            *)
(*   SceneDamage, GlyphAtlas, GpuFrame, in the instances of MCDrawing: what *)
(* is kept from frame to frame (KeptInv), and what a frame is encoded to   *)
(* (WholeInv).  Their recursive functions are reached by CountingUp, which *)
(* counts over a set of numbers, and Steps, which says that a function     *)
(* defined by steps exists.                                                *)
(***************************************************************************)
EXTENDS MCDrawing, SequenceTheorems, FiniteSetTheorems, WellFoundedInduction, TLAPS

\* A cached pixmap that was not left behind shows the recorded scene; a settled
\* tree is the one recorded; a pixmap holds the images of the last download
\* unless the flag is pending or was taken by another surface.
CachesAgree ==
    \A s \in Surfaces :
        /\ cached_surface_pixmaps[s] # None /\ ~bypassed[s] =>
               prev_scenes[s] = cached_surface_pixmaps[s].scene
        /\ ~treeDirty[s] => prev_scenes[s].tree = tree[s]
        /\ cached_surface_pixmaps[s] # None /\ ~overtaken[s] /\ ~completed =>
               cached_surface_pixmaps[s].images = images

\* What every path of render_surface_impl has in common: where the pixels come
\* from, and how the caches may move.
PathEffect(s, scene, plain, pixels, prev, cache, behind) ==
    /\ scene \in Scenes /\ scene.tree = tree[s]
    /\ plain \in BOOLEAN
    /\ behind \in BOOLEAN
    /\ \/ pixels = Blank /\ ~plain
       \/ pixels = Draw(s, scene)
       \/ /\ pixels = Cache(s) /\ Fits(s, Cache(s))
          /\ Prev(s) = scene \/ (~plain /\ ~treeDirty[s])
    /\ \/ prev = scene
       \/ prev = Prev(s) /\ ~treeDirty[s] /\ Cache(s) # None
    /\ \/ cache = None
       \/ cache = Cache(s) /\ (behind \/ prev = Prev(s))
       \/ cache = Draw(s, scene) /\ prev = scene /\ ~behind
    /\ Return(s, scene, plain, pixels, prev, cache, behind)

LEMMA RenderEffect ==
    ASSUME TypeOK, NEW s \in Surfaces, Render(s)
    PROVE  \E scene, plain, pixels, prev, cache, behind :
               PathEffect(s, scene, plain, pixels, prev, cache, behind)
<1>1. PICK asked \in BOOLEAN, animating \in BOOLEAN, look \in Looks :
        LET scene == [tree |-> tree[s], look |-> look]
        IN  \/ \E visible \in BOOLEAN : QuickTransform(s, scene, visible, animating)
            \/ FullTransform(s, scene, animating)
            \/ HiddenTransform(s, scene, animating)
            \/ GpuFrame(s, scene)
            \/ CpuFrame(s, scene)
  BY DEF Render
<1> DEFINE scene == [tree |-> tree[s], look |-> look]
<1>2. scene \in Scenes /\ scene.tree = tree[s]
  BY DEF TypeOK, Scenes
<1> HIDE DEF scene
<1>3. ASSUME NEW visible \in BOOLEAN, QuickTransform(s, scene, visible, animating)
      PROVE  \E plain, pixels, prev, cache, behind :
                 PathEffect(s, scene, plain, pixels, prev, cache, behind)
  <2>1. PathEffect(s, scene, FALSE, IF visible THEN Cache(s) ELSE Blank, Prev(s), Cache(s), FALSE)
    BY <1>2, <1>3 DEF QuickTransform, PathEffect, Fits
  <2> QED
    BY <2>1
<1>4. CASE FullTransform(s, scene, animating)
  <2> DEFINE raw == IF Prev(s) = scene /\ Fits(s, Cache(s)) THEN Cache(s) ELSE Draw(s, scene)
  <2>1. PathEffect(s, scene, FALSE, raw, scene, raw, FALSE)
    BY <1>2, <1>4 DEF FullTransform, PathEffect
  <2> QED
    BY <2>1
<1>5. CASE HiddenTransform(s, scene, animating)
  <2>1. PathEffect(s, scene, FALSE, Blank, scene, Cache(s), Prev(s) # scene)
    BY <1>2, <1>5 DEF HiddenTransform, PathEffect
  <2> QED
    BY <2>1
<1>6. CASE GpuFrame(s, scene)
  <2>1. PathEffect(s, scene, TRUE, Draw(s, scene), scene, Cache(s), Prev(s) # scene)
    BY <1>2, <1>6 DEF GpuFrame, PathEffect
  <2> QED
    BY <2>1
<1>7. CASE CpuFrame(s, scene)
  <2> DEFINE pixels == IF Prev(s) = scene /\ Fits(s, Cache(s)) THEN Cache(s) ELSE Draw(s, scene)
  <2>1. PathEffect(s, scene, TRUE, pixels, scene, None, FALSE)
    BY <1>2, <1>7 DEF CpuFrame, PathEffect
  <2> QED
    BY <2>1
<1> QED
  BY <1>1, <1>3, <1>4, <1>5, <1>6, <1>7 DEF scene

-----------------------------------------------------------------------------
(* Types *)

\* The variables of every reachable state have their types.
THEOREM TypeCorrect == Spec => []TypeOK
<1> USE BoundsAreNaturals
<1>1. Init => TypeOK
  <2> SUFFICES ASSUME Init PROVE TypeOK
    OBVIOUS
  <2>1. 0 \in 0 .. MaxVersion /\ 0 \in 0 .. MaxImages
    OBVIOUS
  <2>2. /\ tree \in [Surfaces -> 0 .. MaxVersion] /\ images \in 0 .. MaxImages
        /\ treeDirty \in [Surfaces -> BOOLEAN] /\ size \in [Surfaces -> Sizes]
        /\ completed \in BOOLEAN
    BY <2>1 DEF Init
  <2>3. /\ prev_scenes \in [Surfaces -> Scenes \cup {None}]
        /\ cached_surface_pixmaps \in [Surfaces -> Pixmaps \cup {None}]
        /\ frame \in Frames \cup {None}
    BY DEF Init
  <2>4. bypassed \in [Surfaces -> BOOLEAN] /\ overtaken \in [Surfaces -> BOOLEAN]
    BY DEF Init
  <2> QED
    BY <2>2, <2>3, <2>4 DEF TypeOK
<1>2. TypeOK /\ [Next]_vars => TypeOK'
  <2> SUFFICES ASSUME TypeOK, [Next]_vars PROVE TypeOK'
    OBVIOUS
  <2>1. ASSUME NEW s \in Surfaces, ChangeTree(s) PROVE TypeOK'
    BY <2>1 DEF ChangeTree, TypeOK, caches, ghosts
  <2>2. ASSUME NEW s \in Surfaces, SettleTree(s) PROVE TypeOK'
    BY <2>2 DEF SettleTree, TypeOK, caches, ghosts
  <2>3. ASSUME NEW s \in Surfaces, Resize(s) PROVE TypeOK'
    BY <2>3 DEF Resize, TypeOK, caches, ghosts
  <2>4. CASE ImageArrives
    BY <2>4 DEF ImageArrives, TypeOK, caches, ghosts
  <2>5. ASSUME NEW s \in Surfaces, Render(s) PROVE TypeOK'
    <3>1. PICK scene, plain, pixels, prev, cache, behind :
            PathEffect(s, scene, plain, pixels, prev, cache, behind)
      BY <2>5, RenderEffect
    <3>2. Prev(s) \in Scenes \cup {None} /\ Cache(s) \in Pixmaps \cup {None}
      BY DEF Prev, Cache, TypeOK
    <3>3. Draw(s, scene) \in Pixmaps
      BY <3>1 DEF PathEffect, Draw, Pixmaps, TypeOK
    <3>4. /\ scene \in Scenes /\ pixels \in Pixmaps \cup {Blank} /\ plain \in BOOLEAN
          /\ prev \in Scenes \cup {None} /\ cache \in Pixmaps \cup {None}
      BY <3>1, <3>2, <3>3 DEF PathEffect, Fits
    <3>5. frame' \in Frames
      BY <3>1, <3>4 DEF PathEffect, Return, Frames, TypeOK
    <3> QED
      BY <3>1, <3>4, <3>5 DEF PathEffect, Return, TypeOK
  <2>6. CASE UNCHANGED vars
    BY <2>6 DEF vars, TypeOK, caches, ghosts
  <2> QED
    BY <2>1, <2>2, <2>3, <2>4, <2>5, <2>6 DEF Next
<1> QED
  BY <1>1, <1>2, PTL DEF Spec

-----------------------------------------------------------------------------
(* The caches *)

LEMMA CachesAgreeStep == TypeOK /\ CachesAgree /\ [Next]_vars => CachesAgree'
<1> SUFFICES ASSUME TypeOK, CachesAgree, [Next]_vars PROVE CachesAgree'
  OBVIOUS
<1> USE DEF CachesAgree
<1>1. ASSUME NEW s \in Surfaces, ChangeTree(s) PROVE CachesAgree'
  BY <1>1 DEF ChangeTree, TypeOK, caches, ghosts
<1>2. ASSUME NEW s \in Surfaces, SettleTree(s) PROVE CachesAgree'
  BY <1>2 DEF SettleTree, TypeOK, caches, ghosts
<1>3. ASSUME NEW s \in Surfaces, Resize(s) PROVE CachesAgree'
  BY <1>3 DEF Resize, TypeOK, caches, ghosts
<1>4. CASE ImageArrives
  BY <1>4 DEF ImageArrives, TypeOK, caches, ghosts
<1>5. ASSUME NEW s \in Surfaces, Render(s) PROVE CachesAgree'
  <2>1. PICK scene, plain, pixels, prev, cache, behind :
          PathEffect(s, scene, plain, pixels, prev, cache, behind)
    BY <1>5, RenderEffect
  <2> DEFINE kept == cache # None /\ cache = Cache(s)
  <2>2. /\ prev_scenes'[s] = prev /\ cached_surface_pixmaps'[s] = cache
        /\ bypassed'[s] = (kept /\ (bypassed[s] \/ behind))
        /\ overtaken'[s] = (kept /\ overtaken[s])
        /\ completed' = FALSE /\ images' = images /\ tree' = tree /\ treeDirty' = treeDirty
        /\ \A r \in Surfaces \ {s} :
             /\ prev_scenes'[r] = prev_scenes[r] /\ bypassed'[r] = bypassed[r]
             /\ cached_surface_pixmaps'[r] = cached_surface_pixmaps[r]
             /\ overtaken'[r] = (overtaken[r] \/ (completed /\ cached_surface_pixmaps[r] # None))
    BY <2>1 DEF PathEffect, Return, TypeOK
  <2>3. Draw(s, scene).scene = scene /\ Draw(s, scene).images = images
    BY DEF Draw
  <2>4. kept => ~completed /\ Cache(s) = cached_surface_pixmaps[s] /\ Prev(s) = prev_scenes[s]
    BY DEF Cache, Prev
  <2>5. prev.tree = tree[s] \/ treeDirty[s]
    BY <2>1 DEF PathEffect, Prev, Cache
  <2>6. cache # None /\ ~bypassed'[s] => prev = cache.scene
    <3>1. CASE kept
      BY <3>1, <2>1, <2>2, <2>3, <2>4 DEF PathEffect
    <3>2. CASE ~kept
      BY <3>2, <2>1, <2>3 DEF PathEffect
    <3> QED
      BY <3>1, <3>2
  <2>7. cache # None /\ ~overtaken'[s] => cache.images = images
    <3>1. CASE kept
      BY <3>1, <2>2, <2>4
    <3>2. CASE ~kept
      BY <3>2, <2>1, <2>3 DEF PathEffect
    <3> QED
      BY <3>1, <3>2
  <2> QED
    BY <2>2, <2>5, <2>6, <2>7
<1>6. CASE UNCHANGED vars
  BY <1>6 DEF vars, caches, ghosts
<1> QED
  BY <1>1, <1>2, <1>3, <1>4, <1>5, <1>6 DEF Next

LEMMA CachesAlwaysAgree == Spec => []CachesAgree
<1>1. Init => CachesAgree
  BY DEF Init, CachesAgree
<1> QED
  BY <1>1, CachesAgreeStep, TypeCorrect, PTL DEF Spec

-----------------------------------------------------------------------------
(* The frames *)

\* A frame that shows anything fits its surface, for any number of surfaces,
\* sizes and changes.
THEOREM FramesFit == Spec => []FrameFitsSurface
<1>1. Init => FrameFitsSurface
  BY DEF Init, FrameFitsSurface
<1>2. TypeOK /\ FrameFitsSurface /\ [Next]_vars => FrameFitsSurface'
  <2> SUFFICES ASSUME TypeOK, FrameFitsSurface, [Next]_vars PROVE FrameFitsSurface'
    OBVIOUS
  <2>1. ASSUME NEW s \in Surfaces, Render(s) PROVE FrameFitsSurface'
    <3>1. PICK scene, plain, pixels, prev, cache, behind :
            PathEffect(s, scene, plain, pixels, prev, cache, behind)
      BY <2>1, RenderEffect
    <3>2. pixels # Blank => pixels.size = size[s]
      BY <3>1 DEF PathEffect, Fits, Draw
    <3>3. frame'.pixels = pixels /\ frame'.size = size[s]
      BY <3>1 DEF PathEffect, Return
    <3> QED
      BY <3>2, <3>3 DEF FrameFitsSurface
  <2>2. CASE frame' = None
    BY <2>2 DEF FrameFitsSurface
  <2>3. CASE UNCHANGED vars
    BY <2>3 DEF vars, FrameFitsSurface
  <2> QED
    BY <2>1, <2>2, <2>3 DEF Next, ChangeTree, SettleTree, Resize, ImageArrives
<1> QED
  BY <1>1, <1>2, TypeCorrect, PTL DEF Spec

LEMMA FramesShowWhatIsWanted ==
    ASSUME TypeOK, CachesAgree, Next, frame' # None
    PROVE  /\ frame'.plain =>
                  frame'.pixels.scene = frame'.wanted \/ bypassed[frame'.surface]
           /\ frame'.pixels # Blank =>
                  /\ frame'.pixels.scene.tree = frame'.wanted.tree \/ bypassed[frame'.surface]
                  /\ frame'.pixels.images = images \/ overtaken[frame'.surface]
<1>1. PICK s \in Surfaces : Render(s)
  BY DEF Next, ChangeTree, SettleTree, Resize, ImageArrives
<1>2. PICK scene, plain, pixels, prev, cache, behind :
        PathEffect(s, scene, plain, pixels, prev, cache, behind)
  BY <1>1, RenderEffect
<1>3. frame' = [surface |-> s, wanted |-> scene, size |-> size[s], plain |-> plain, pixels |-> pixels]
  BY <1>2 DEF PathEffect, Return
<1>4. /\ frame'.surface = s /\ frame'.wanted = scene
      /\ frame'.plain = plain /\ frame'.pixels = pixels
  BY <1>3
<1>5. CASE pixels = Blank /\ ~plain
  BY <1>4, <1>5
<1>6. CASE pixels = Draw(s, scene)
  BY <1>4, <1>6 DEF Draw
<1>7. CASE pixels = Cache(s) /\ Fits(s, Cache(s)) /\ (Prev(s) = scene \/ (~plain /\ ~treeDirty[s]))
  <2>1. /\ ~completed /\ pixels = cached_surface_pixmaps[s] /\ cached_surface_pixmaps[s] # None
        /\ Prev(s) = prev_scenes[s]
    BY <1>7 DEF Fits, Cache, Prev
  <2>2. bypassed[s] \/ pixels.scene = prev_scenes[s]
    BY <2>1 DEF CachesAgree
  <2>3. overtaken[s] \/ pixels.images = images
    BY <2>1 DEF CachesAgree
  <2>4. ~treeDirty[s] => prev_scenes[s].tree = tree[s]
    BY DEF CachesAgree
  <2>5. scene.tree = tree[s]
    BY <1>2 DEF PathEffect
  <2> QED
    BY <1>4, <1>7, <2>1, <2>2, <2>3, <2>4, <2>5
<1> QED
  BY <1>2, <1>5, <1>6, <1>7 DEF PathEffect

\* Without a surface transform a frame is current, unless a hidden or GPU frame
\* left the cached pixmap behind: for any number of surfaces and changes.
THEOREM PlainFramesAlwaysCurrent == Spec => PlainFramesAreCurrent
<1>1. TypeOK /\ CachesAgree /\ [Next]_vars =>
        [frame' # None /\ frame'.plain =>
            frame'.pixels.scene = frame'.wanted \/ bypassed[frame'.surface]]_vars
  BY FramesShowWhatIsWanted
<1> QED
  BY <1>1, TypeCorrect, CachesAlwaysAgree, PTL DEF Spec, PlainFramesAreCurrent

\* A transformed frame never shows a widget tree that has changed since, under
\* the same exception.
THEOREM TransformedFramesAlwaysShowTheTree == Spec => TransformedFramesShowTheTree
<1>1. TypeOK /\ CachesAgree /\ [Next]_vars =>
        [frame' # None /\ ~frame'.plain /\ frame'.pixels # Blank =>
            frame'.pixels.scene.tree = frame'.wanted.tree \/ bypassed[frame'.surface]]_vars
  BY FramesShowWhatIsWanted
<1> QED
  BY <1>1, TypeCorrect, CachesAlwaysAgree, PTL DEF Spec, TransformedFramesShowTheTree

\* Both together.
THEOREM FramesAlwaysCurrent == Spec => FramesAreCurrent
  BY PlainFramesAlwaysCurrent, TransformedFramesAlwaysShowTheTree DEF FramesAreCurrent

\* A finished download is visible in every later frame, unless another surface
\* consumed the completion flag.
THEOREM ImagesAlwaysCurrent == Spec => ImagesAreCurrent
<1>1. TypeOK /\ CachesAgree /\ [Next]_vars =>
        [frame' # None /\ frame'.pixels # Blank =>
            frame'.pixels.images = images \/ overtaken[frame'.surface]]_vars
  BY FramesShowWhatIsWanted
<1> QED
  BY <1>1, TypeCorrect, CachesAlwaysAgree, PTL DEF Spec, ImagesAreCurrent

-----------------------------------------------------------------------------
(* Repainting from damage: what holds between two frames *)

LEMMA FirstPlace ==
    ASSUME NEW places \in SUBSET Nat, places # {}
    PROVE  \E i \in places : \A j \in places : ~(j < i)
<1> DEFINE less == {ss \in Nat \X Nat : ss[1] < ss[2]}
<1>1. IsWellFoundedOn(less, Nat)
  BY NatLessThanWellFounded DEF OpToRel
<1>2. PICK i \in places : \A j \in places : <<j, i>> \notin less
  <2> HIDE DEF less
  <2> QED
    BY <1>1, WFMin
<1> QED
  BY <1>2

\* Counting up from 0 reaches every number of a range.
LEMMA CountingUp ==
    ASSUME NEW n \in Nat, NEW P, 0 \in P,
           \A k \in 0 .. n - 1 : k \in P => k + 1 \in P
    PROVE  \A k \in 0 .. n : k \in P
<1>1. SUFFICES ASSUME NEW bad \in 0 .. n, bad \notin P PROVE FALSE
  OBVIOUS
<1> DEFINE left == {k \in 0 .. n : k \notin P}
<1>2. left \in SUBSET Nat /\ left # {}
  <2>1. bad \in left
    BY <1>1
  <2>2. \A k \in left : k \in Nat
    OBVIOUS
  <2> HIDE DEF left
  <2> QED
    BY <2>1, <2>2
<1>3. PICK k \in left : \A j \in left : ~(j < k)
  <2> HIDE DEF left
  <2> QED
    BY <1>2, FirstPlace
<1>4. k \in 0 .. n /\ k \notin P
  OBVIOUS
<1>5. k \in 1 .. n /\ k - 1 \in 0 .. n - 1 /\ (k - 1) + 1 = k /\ k - 1 < k
  BY <1>4
<1>6. k - 1 \notin left
  BY <1>3, <1>5
<1>7. k - 1 \in P
  BY <1>5, <1>6
<1> QED
  BY <1>4, <1>5, <1>7

\* A function on 0 .. n may be defined by its first value and by steps.
StepsFrom(f, S, a, n, step) ==
    /\ f \in [0 .. n -> S] /\ f[0] = a
    /\ \A k \in 1 .. n : f[k] = step[<<k, f[k - 1]>>]

LEMMA Steps ==
    ASSUME NEW S, NEW a \in S, NEW n \in Nat, NEW step \in [(1 .. n) \X S -> S]
    PROVE  \E f : StepsFrom(f, S, a, n, step)
<1> DEFINE P == {m \in Nat : \E f \in [0 .. m -> S] :
                    f[0] = a /\ \A k \in 1 .. m : f[k] = step[<<k, f[k - 1]>>]}
<1>1. 0 \in P
  <2> DEFINE f == [k \in 0 .. 0 |-> a]
  <2>1. f \in [0 .. 0 -> S] /\ f[0] = a /\ 1 .. 0 = {}
    OBVIOUS
  <2> HIDE DEF f
  <2> QED
    BY <2>1
<1>2. ASSUME NEW m \in 0 .. n - 1, m \in P PROVE m + 1 \in P
  <2>1. PICK f \in [0 .. m -> S] : f[0] = a /\ \A k \in 1 .. m : f[k] = step[<<k, f[k - 1]>>]
    BY <1>2
  <2>2. m + 1 \in 1 .. n /\ f[m] \in S /\ m \in Nat /\ m + 1 \in Nat
    OBVIOUS
  <2>3. <<m + 1, f[m]>> \in (1 .. n) \X S
    BY <2>2
  <2>4. PICK next \in S : next = step[<<m + 1, f[m]>>]
    BY <2>3
  <2>5. PICK g : g = [k \in 0 .. m + 1 |-> IF k <= m THEN f[k] ELSE next]
    OBVIOUS
  <2>6. \A k \in 0 .. m : k \in 0 .. m + 1 /\ g[k] = f[k]
    BY <2>2, <2>5
  <2>7. g[m + 1] = next /\ m + 1 \in 0 .. m + 1
    BY <2>2, <2>5
  <2>8. g \in [0 .. m + 1 -> S]
    BY <2>2, <2>4, <2>5
  <2>9. ASSUME NEW k \in 1 .. m + 1 PROVE g[k] = step[<<k, g[k - 1]>>]
    <3>1. k - 1 \in 0 .. m
      BY <2>2
    <3>2. g[k - 1] = f[k - 1]
      BY <2>6, <3>1
    <3>3. CASE k = m + 1
      <4>1. k - 1 = m
        BY <2>2, <3>3
      <4> QED
        BY <2>4, <2>7, <3>2, <3>3, <4>1
    <3>4. CASE k # m + 1
      <4>1. k \in 1 .. m /\ k \in 0 .. m
        BY <2>2, <3>4
      <4>2. g[k] = f[k]
        BY <2>6, <4>1
      <4>3. f[k] = step[<<k, f[k - 1]>>]
        BY <2>1, <4>1
      <4> QED
        BY <3>2, <4>2, <4>3
    <3> QED
      BY <3>3, <3>4
  <2>10. g[0] = a
    BY <2>1, <2>2, <2>6
  <2> QED
    BY <2>2, <2>8, <2>9, <2>10
<1> HIDE DEF P
<1>3. n \in P
  BY <1>1, <1>2, CountingUp
<1> QED
  BY <1>3 DEF P, StepsFrom

Region == [left : Int, right : Int]
Scans  == [rect : Region, rest : Seq(Region)]

Inside(q, r)    == r.left <= q.left /\ q.right <= r.right
CoveredBy(q, m) == \E k \in DOMAIN m : Inside(q, m[k])
Holds(q, scan)  == Inside(q, scan.rect) \/ CoveredBy(q, scan.rest)

\* One step of Absorb.
Scanned(scan, x) ==
    IF Damage!Touch(x, scan.rect)
    THEN [rect |-> Damage!Union(x, scan.rect), rest |-> scan.rest]
    ELSE [rect |-> scan.rect, rest |-> Append(scan.rest, x)]

LEMMA AppendedCover ==
    ASSUME NEW m \in Seq(Region), NEW x \in Region
    PROVE  /\ Append(m, x) \in Seq(Region)
           /\ CoveredBy(x, Append(m, x))
           /\ \A q : CoveredBy(q, m) => CoveredBy(q, Append(m, x))
<1>1. PICK n \in Nat : n = Len(m) /\ DOMAIN m = 1 .. n
  BY LenProperties
<1>2. PICK a : a = Append(m, x)
  OBVIOUS
<1>3. a \in Seq(Region) /\ DOMAIN a = 1 .. n + 1 /\ a[n + 1] = x /\ \A k \in 1 .. n : a[k] = m[k]
  BY <1>1, <1>2, AppendProperties
<1>4. n + 1 \in 1 .. n + 1 /\ \A k \in 1 .. n : k \in 1 .. n + 1
  BY <1>1
<1>5. Inside(x, x)
  BY DEF Inside, Region
<1>6. CoveredBy(x, a)
  BY <1>3, <1>4, <1>5 DEF CoveredBy
<1>7. ASSUME NEW q, CoveredBy(q, m) PROVE CoveredBy(q, a)
  BY <1>1, <1>3, <1>4, <1>7 DEF CoveredBy
<1> QED
  BY <1>2, <1>3, <1>6, <1>7

LEMMA ScannedHolds ==
    ASSUME NEW scan \in Scans, NEW x \in Region
    PROVE  /\ Scanned(scan, x) \in Scans /\ Holds(x, Scanned(scan, x))
           /\ \A q \in Region : Holds(q, scan) => Holds(q, Scanned(scan, x))
<1>1. PICK r \in Region, rest \in Seq(Region) : scan = [rect |-> r, rest |-> rest]
  BY DEF Scans
<1>2. CASE Damage!Touch(x, r)
  <2>1. PICK u \in Region : u = Damage!Union(x, r)
    BY DEF Damage!Union, Region
  <2>2. Inside(x, u) /\ \A q \in Region : Inside(q, r) => Inside(q, u)
    BY <2>1 DEF Damage!Union, Region, Inside
  <2>3. Scanned(scan, x) = [rect |-> u, rest |-> rest]
    BY <1>1, <1>2, <2>1 DEF Scanned
  <2> QED
    BY <1>1, <2>2, <2>3 DEF Holds, Scans
<1>3. CASE ~Damage!Touch(x, r)
  <2>1. PICK a \in Seq(Region) : a = Append(rest, x)
    BY AppendedCover
  <2>2. CoveredBy(x, a) /\ \A q : CoveredBy(q, rest) => CoveredBy(q, a)
    BY <2>1, AppendedCover
  <2>3. Scanned(scan, x) = [rect |-> r, rest |-> a]
    BY <1>1, <1>3, <2>1 DEF Scanned
  <2> QED
    BY <1>1, <2>2, <2>3 DEF Holds, Scans
<1> QED
  BY <1>2, <1>3

LEMMA ScanExists ==
    ASSUME NEW m \in Seq(Region), NEW r \in Region
    PROVE  \E scan :
               /\ DOMAIN scan = 0 .. Len(m) /\ scan[0] = [rect |-> r, rest |-> <<>>]
               /\ \A k \in 1 .. Len(m) : scan[k] = Scanned(scan[k - 1], m[k])
               /\ Damage!Absorb(m, r) = Append(scan[Len(m)].rest, scan[Len(m)].rect)
<1>1. PICK n \in Nat : n = Len(m)
  BY LenProperties
<1>2. PICK first \in Scans : first = [rect |-> r, rest |-> <<>>]
  BY EmptySeq DEF Scans
<1> DEFINE Scan(f) == f = [k \in 0 .. n |-> IF k = 0 THEN first ELSE Scanned(f[k - 1], m[k])]
<1>3. \E f : Scan(f)
  <2>1. PICK step : step = [p \in (1 .. n) \X Scans |-> Scanned(p[2], m[p[1]])]
    OBVIOUS
  <2>2. \A k \in 1 .. n : m[k] \in Region
    BY <1>1, ElementOfSeq
  <2>3. step \in [(1 .. n) \X Scans -> Scans]
    BY <2>1, <2>2, ScannedHolds
  <2>4. PICK f \in [0 .. n -> Scans] :
            f[0] = first /\ \A k \in 1 .. n : f[k] = step[<<k, f[k - 1]>>]
    <3>1. \E f : StepsFrom(f, Scans, first, n, step)
      BY <2>3, Steps
    <3> QED
      BY <3>1 DEF StepsFrom
  <2>5. ASSUME NEW k \in 1 .. n PROVE f[k] = Scanned(f[k - 1], m[k])
    <3>1. PICK s \in Scans : s = f[k - 1]
      OBVIOUS
    <3>2. f[k] = step[<<k, s>>] /\ <<k, s>> \in (1 .. n) \X Scans
      BY <2>4, <3>1
    <3> QED
      BY <2>1, <3>1, <3>2
  <2>6. \A k \in 0 .. n : k # 0 => k \in 1 .. n
    OBVIOUS
  <2>7. Scan(f)
    BY <2>4, <2>5, <2>6
  <2> QED
    BY <2>7
<1>4. PICK f : f = CHOOSE g : Scan(g)
  OBVIOUS
<1>5. Scan(f)
  <2> HIDE DEF Scan
  <2> QED
    BY <1>3, <1>4
<1>6. Damage!Absorb(m, r) = Append(f[n].rest, f[n].rect)
  BY <1>1, <1>2, <1>4 DEF Damage!Absorb, Scanned
<1>7. DOMAIN f = 0 .. n /\ f[0] = first /\ \A k \in 1 .. n : f[k] = Scanned(f[k - 1], m[k])
  <2>1. \A k \in 1 .. n : k \in 0 .. n /\ k # 0
    OBVIOUS
  <2> QED
    BY <1>1, <1>5, <2>1
<1> QED
  BY <1>1, <1>2, <1>6, <1>7

\* The new rectangle and whatever was covered lie within a region afterwards.
LEMMA AbsorbCovers ==
    ASSUME NEW m \in Seq(Region), NEW r \in Region
    PROVE  /\ Damage!Absorb(m, r) \in Seq(Region)
           /\ CoveredBy(r, Damage!Absorb(m, r))
           /\ \A q \in Region : CoveredBy(q, m) => CoveredBy(q, Damage!Absorb(m, r))
<1>1. PICK n \in Nat : n = Len(m) /\ DOMAIN m = 1 .. n
  BY LenProperties
<1>2. PICK scan :
          /\ DOMAIN scan = 0 .. n /\ scan[0] = [rect |-> r, rest |-> <<>>]
          /\ \A k \in 1 .. n : scan[k] = Scanned(scan[k - 1], m[k])
          /\ Damage!Absorb(m, r) = Append(scan[n].rest, scan[n].rect)
  BY <1>1, ScanExists
<1> DEFINE Good(k) == /\ scan[k] \in Scans /\ Holds(r, scan[k])
                      /\ \A j \in 1 .. k : Holds(m[j], scan[k])
           P == {k \in 0 .. n : Good(k)}
<1>3. 0 \in P
  <2>1. scan[0] \in Scans
    BY <1>2, EmptySeq DEF Scans
  <2>2. Inside(r, scan[0].rect)
    BY <1>2 DEF Inside, Region
  <2> QED
    BY <2>1, <2>2 DEF Holds
<1>4. ASSUME NEW k \in 0 .. n - 1, k \in P PROVE k + 1 \in P
  <2>1. PICK l : l = k + 1 /\ l \in 1 .. n /\ l - 1 = k /\ l \in 0 .. n
    BY <1>1
  <2>2. PICK s \in Scans : s = scan[k] /\ Holds(r, s) /\ \A j \in 1 .. k : Holds(m[j], s)
    BY <1>4
  <2>3. m[l] \in Region
    BY <1>1, <2>1, ElementOfSeq
  <2>4. scan[l] = Scanned(s, m[l])
    BY <1>2, <2>1, <2>2
  <2>5. /\ scan[l] \in Scans /\ Holds(m[l], scan[l])
        /\ \A q \in Region : Holds(q, s) => Holds(q, scan[l])
    BY <2>3, <2>4, ScannedHolds
  <2>6. ASSUME NEW j \in 1 .. l PROVE Holds(m[j], scan[l])
    <3>1. CASE j = l
      BY <2>5, <3>1
    <3>2. CASE j # l
      <4>1. j \in 1 .. k /\ j \in 1 .. n
        BY <1>1, <2>1, <3>2
      <4>2. m[j] \in Region
        BY <1>1, <4>1, ElementOfSeq
      <4> QED
        BY <2>2, <2>5, <4>1, <4>2
    <3> QED
      BY <3>1, <3>2
  <2>7. Good(l)
    BY <2>2, <2>5, <2>6
  <2> QED
    BY <2>1, <2>7
<1>5. Good(n)
  <2> HIDE DEF Good
  <2>1. n \in P
    <3> HIDE DEF P
    <3>1. \A k \in 0 .. n : k \in P
      BY <1>1, <1>3, <1>4, CountingUp
    <3> QED
      BY <1>1, <3>1
  <2> QED
    BY <2>1
<1>6. PICK rest \in Seq(Region), last \in Region : scan[n] = [rect |-> last, rest |-> rest]
  BY <1>5 DEF Scans
<1>7. PICK a : a = Append(rest, last) /\ a = Damage!Absorb(m, r)
  BY <1>2, <1>6
<1>8. a \in Seq(Region) /\ CoveredBy(last, a) /\ \A q : CoveredBy(q, rest) => CoveredBy(q, a)
  BY <1>7, AppendedCover
<1>9. ASSUME NEW q \in Region, Inside(q, last) PROVE CoveredBy(q, a)
  <2>1. PICK k \in DOMAIN a : Inside(last, a[k])
    BY <1>8 DEF CoveredBy
  <2>2. a[k] \in Region
    BY <1>8, <2>1, ElementOfSeq, LenProperties
  <2>3. Inside(q, a[k])
    BY <1>9, <2>1, <2>2 DEF Inside, Region
  <2> QED
    BY <2>3 DEF CoveredBy
<1>10. \A q \in Region : Holds(q, scan[n]) => CoveredBy(q, a)
  BY <1>6, <1>8, <1>9 DEF Holds
<1>11. ASSUME NEW q \in Region, CoveredBy(q, m) PROVE CoveredBy(q, a)
  <2>1. PICK k \in 1 .. n : Inside(q, m[k])
    BY <1>1, <1>11 DEF CoveredBy
  <2>2. m[k] \in Region
    BY <1>1, ElementOfSeq
  <2>3. CoveredBy(m[k], a)
    BY <1>5, <1>10, <2>2
  <2>4. PICK j \in DOMAIN a : Inside(m[k], a[j])
    BY <2>3 DEF CoveredBy
  <2>5. a[j] \in Region
    BY <1>8, <2>4, ElementOfSeq, LenProperties
  <2>6. Inside(q, a[j])
    BY <2>1, <2>2, <2>4, <2>5 DEF Inside, Region
  <2> QED
    BY <2>6 DEF CoveredBy
<1> QED
  BY <1>5, <1>7, <1>8, <1>10, <1>11

LEMMA RectIsRegion ==
    ASSUME NEW node \in DamageNodes PROVE Damage!Rect(node) \in Region
<1>1. PICK x \in Int, w \in Nat, pad \in Nat : node.x = x /\ node.w = w /\ node.pad = pad
  BY NodesAreNodes
<1>2. x \div 2 \in Int /\ Damage!Ceil(w) \in Int
  BY DEF Damage!Ceil
<1> QED
  BY <1>1, <1>2 DEF Damage!Rect, Region

LEMMA SceneLength ==
    ASSUME NEW n \in Nat, NEW scene \in [1 .. n -> DamageNodes]
    PROVE  Len(scene) = n /\ DOMAIN scene = 1 .. n
<1>1. scene \in Seq(DamageNodes)
  BY SeqDef
<1>2. PICK l \in Nat : l = Len(scene) /\ DOMAIN scene = 1 .. l
  BY <1>1, LenProperties
<1>3. 1 .. l = 1 .. n
  BY <1>2
<1>4. l = n
  BY <1>3
<1> QED
  BY <1>2, <1>4

\* One place of the scene in Merged.
Taken(regions, scene, places, i) ==
    IF i \in places THEN Damage!Absorb(regions, Damage!Rect(scene[i])) ELSE regions

LEMMA MergedExists ==
    ASSUME NEW n \in Nat, NEW scene \in [1 .. n -> DamageNodes], NEW places
    PROVE  \E merged :
               /\ DOMAIN merged = 0 .. n /\ merged[0] = <<>>
               /\ \A k \in 1 .. n : merged[k] = Taken(merged[k - 1], scene, places, k)
               /\ Damage!Merged(scene, places) = merged[n]
<1> DEFINE Build(f) ==
               f = [k \in 0 .. n |-> IF k = 0 THEN <<>> ELSE Taken(f[k - 1], scene, places, k)]
<1>1. Len(scene) = n
  BY SceneLength
<1>2. PICK none \in Seq(Region) : none = <<>>
  BY EmptySeq
<1>3. \E f : Build(f)
  <2>1. PICK step : step = [p \in (1 .. n) \X Seq(Region) |-> Taken(p[2], scene, places, p[1])]
    OBVIOUS
  <2>2. ASSUME NEW k \in 1 .. n, NEW regions \in Seq(Region)
        PROVE  Taken(regions, scene, places, k) \in Seq(Region)
    <3>1. Damage!Rect(scene[k]) \in Region
      BY RectIsRegion
    <3> QED
      BY <3>1, AbsorbCovers DEF Taken
  <2>3. step \in [(1 .. n) \X Seq(Region) -> Seq(Region)]
    BY <2>1, <2>2
  <2>4. PICK f : StepsFrom(f, Seq(Region), none, n, step)
    BY <2>3, Steps
  <2>5. f \in [0 .. n -> Seq(Region)] /\ f[0] = none /\ \A k \in 1 .. n : f[k] = step[<<k, f[k - 1]>>]
    BY <2>4 DEF StepsFrom
  <2>6. ASSUME NEW k \in 1 .. n PROVE f[k] = Taken(f[k - 1], scene, places, k)
    <3>1. PICK s \in Seq(Region) : s = f[k - 1]
      BY <2>5
    <3>2. f[k] = step[<<k, s>>] /\ <<k, s>> \in (1 .. n) \X Seq(Region)
      BY <2>5, <3>1
    <3> QED
      BY <2>1, <3>1, <3>2
  <2>7. \A k \in 0 .. n : k # 0 => k \in 1 .. n
    OBVIOUS
  <2>8. Build(f)
    BY <1>2, <2>5, <2>6, <2>7
  <2> QED
    BY <2>8
<1>4. PICK f : f = CHOOSE g : Build(g)
  OBVIOUS
<1>5. Build(f)
  <2> HIDE DEF Build
  <2> QED
    BY <1>3, <1>4
<1>6. Damage!Merged(scene, places) = f[n]
  BY <1>1, <1>4 DEF Damage!Merged, Taken
<1>7. DOMAIN f = 0 .. n /\ f[0] = <<>> /\ \A k \in 1 .. n : f[k] = Taken(f[k - 1], scene, places, k)
  <2>1. \A k \in 1 .. n : k \in 0 .. n /\ k # 0
    OBVIOUS
  <2> QED
    BY <1>5, <2>1
<1> QED
  BY <1>6, <1>7

\* Every rectangle that is merged lies within a region that comes out.
LEMMA MergedCovers ==
    ASSUME NEW n \in Nat, NEW scene \in [1 .. n -> DamageNodes], NEW places
    PROVE  /\ Damage!Merged(scene, places) \in Seq(Region)
           /\ \A i \in 1 .. n : i \in places =>
                  CoveredBy(Damage!Rect(scene[i]), Damage!Merged(scene, places))
<1>1. PICK merged :
          /\ DOMAIN merged = 0 .. n /\ merged[0] = <<>>
          /\ \A k \in 1 .. n : merged[k] = Taken(merged[k - 1], scene, places, k)
          /\ Damage!Merged(scene, places) = merged[n]
  BY MergedExists
<1> DEFINE Good(k) ==
               /\ merged[k] \in Seq(Region)
               /\ \A i \in 1 .. k : i \in places => CoveredBy(Damage!Rect(scene[i]), merged[k])
           P == {k \in 0 .. n : Good(k)}
<1>2. 0 \in P
  BY <1>1, EmptySeq
<1>3. ASSUME NEW k \in 0 .. n - 1, k \in P PROVE k + 1 \in P
  <2>1. PICK l : l = k + 1 /\ l \in 1 .. n /\ l - 1 = k /\ l \in 0 .. n
    OBVIOUS
  <2>2. PICK m \in Seq(Region) :
            m = merged[k] /\ \A i \in 1 .. k : i \in places => CoveredBy(Damage!Rect(scene[i]), m)
    BY <1>3
  <2>3. merged[l] = Taken(m, scene, places, l)
    BY <1>1, <2>1, <2>2
  <2>4. PICK r \in Region : r = Damage!Rect(scene[l])
    BY <2>1, RectIsRegion
  <2>5. /\ merged[l] \in Seq(Region) /\ (l \in places => CoveredBy(r, merged[l]))
        /\ \A q \in Region : CoveredBy(q, m) => CoveredBy(q, merged[l])
    BY <2>3, <2>4, AbsorbCovers DEF Taken
  <2>6. ASSUME NEW i \in 1 .. l, i \in places PROVE CoveredBy(Damage!Rect(scene[i]), merged[l])
    <3>1. CASE i = l
      BY <2>4, <2>5, <2>6, <3>1
    <3>2. CASE i # l
      <4>1. i \in 1 .. k /\ i \in 1 .. n
        BY <2>1, <3>2
      <4>2. Damage!Rect(scene[i]) \in Region
        BY <4>1, RectIsRegion
      <4> QED
        BY <2>2, <2>5, <2>6, <4>1, <4>2
    <3> QED
      BY <3>1, <3>2
  <2>7. Good(l)
    BY <2>5, <2>6
  <2> QED
    BY <2>1, <2>7
<1>4. Good(n)
  <2> HIDE DEF Good
  <2>1. n \in P
    <3> HIDE DEF P
    <3>1. \A k \in 0 .. n : k \in P
      BY <1>2, <1>3, CountingUp
    <3> QED
      BY <3>1
  <2> QED
    BY <2>1
<1> QED
  BY <1>1, <1>4

-----------------------------------------------------------------------------
\* Two scenes have the same nodes on a column, in the same order.
Alike(c, s, t) ==
    /\ \A i \in Damage!On(c, s) : \E j \in Damage!On(c, t) : s[i] = t[j]
    /\ \A j \in Damage!On(c, t) : \E i \in Damage!On(c, s) : s[i] = t[j]
    /\ \A i, k \in Damage!On(c, s), j, l \in Damage!On(c, t) :
           s[i] = t[j] /\ s[k] = t[l] => (i < k <=> j < l)

NewOn(c, s) == {s[i] : i \in Damage!Seen(c, s)}
OrderOn(c, s) ==
    {p \in NewOn(c, s) \X NewOn(c, s) :
        \E i, k \in Damage!Seen(c, s) : i < k /\ p = <<s[i], s[k]>>}

LEMMA SeenAlike ==
    ASSUME NEW c, NEW m \in Nat, NEW n \in Nat,
           NEW s \in [1 .. m -> DamageNodes], NEW t \in [1 .. n -> DamageNodes], Alike(c, s, t)
    PROVE  NewOn(c, s) \subseteq NewOn(c, t) /\ OrderOn(c, s) \subseteq OrderOn(c, t)
<1>1. /\ Damage!On(c, s) \subseteq 1 .. m /\ Damage!On(c, t) \subseteq 1 .. n
      /\ Damage!Seen(c, s) \subseteq Damage!On(c, s)
  BY DEF Damage!On, Damage!Seen
<1>2. ASSUME NEW i \in Damage!Seen(c, s)
      PROVE  \E j \in Damage!Seen(c, t) : j \in Damage!On(c, t) /\ s[i] = t[j]
  <2>1. i \in Damage!On(c, s)
    BY <1>1
  <2>2. PICK j \in Damage!On(c, t) : s[i] = t[j]
    BY <2>1 DEF Alike
  <2>3. ASSUME NEW l \in Damage!On(c, t), l > j PROVE ~Damage!Hides(t[l], c)
    <3>1. PICK k \in Damage!On(c, s) : s[k] = t[l]
      BY DEF Alike
    <3>2. i < k <=> j < l
      BY <2>1, <2>2, <3>1 DEF Alike
    <3>3. k > i
      BY <1>1, <2>1, <2>3, <3>2
    <3> QED
      BY <3>1, <3>3 DEF Damage!Seen
  <2> QED
    BY <2>2, <2>3 DEF Damage!Seen
<1>3. NewOn(c, s) \subseteq NewOn(c, t)
  BY <1>2 DEF NewOn
<1>4. ASSUME NEW p \in OrderOn(c, s) PROVE p \in OrderOn(c, t)
  <2>1. PICK i \in Damage!Seen(c, s), k \in Damage!Seen(c, s) : i < k /\ p = <<s[i], s[k]>>
    BY DEF OrderOn
  <2>2. PICK j \in Damage!Seen(c, t) : j \in Damage!On(c, t) /\ s[i] = t[j]
    BY <1>2
  <2>3. PICK l \in Damage!Seen(c, t) : l \in Damage!On(c, t) /\ s[k] = t[l]
    BY <1>2
  <2>4. j < l
    BY <1>1, <2>1, <2>2, <2>3 DEF Alike
  <2>5. p = <<t[j], t[l]>> /\ t[j] \in NewOn(c, t) /\ t[l] \in NewOn(c, t)
    BY <2>1, <2>2, <2>3 DEF NewOn
  <2> QED
    BY <2>4, <2>5 DEF OrderOn
<1> QED
  BY <1>3, <1>4

LEMMA PaintIs ==
    ASSUME NEW c, NEW s, NEW under
    PROVE  /\ Damage!IsOpaque(c, s) => Damage!Paint(under, s, c) = Damage!Paint(Damage!Bare, s, c)
           /\ Damage!Paint(Damage!Bare, s, c) = [nodes |-> NewOn(c, s), order |-> OrderOn(c, s)]
<1>1. PICK new : new = NewOn(c, s)
  OBVIOUS
<1>2. Damage!IsOpaque(c, s) => Damage!Paint(under, s, c) = Damage!Paint(Damage!Bare, s, c)
  BY DEF Damage!Paint
<1>3. Damage!Bare.nodes = {} /\ Damage!Bare.order = {}
  BY DEF Damage!Bare
<1>4. Damage!Paint(Damage!Bare, s, c) =
          [nodes |-> {} \cup new, order |-> {} \cup ({} \X new) \cup OrderOn(c, s)]
  BY <1>1, <1>3 DEF Damage!Paint, NewOn, OrderOn
<1>5. {} \cup new = new /\ {} \cup ({} \X new) \cup OrderOn(c, s) = OrderOn(c, s)
  OBVIOUS
<1> QED
  BY <1>1, <1>2, <1>4, <1>5

LEMMA SamePicture ==
    ASSUME NEW c, NEW m \in Nat, NEW n \in Nat,
           NEW s \in [1 .. m -> DamageNodes], NEW t \in [1 .. n -> DamageNodes], Alike(c, s, t)
    PROVE  Damage!Paint(Damage!Bare, s, c) = Damage!Paint(Damage!Bare, t, c)
<1>1. Alike(c, t, s)
  BY DEF Alike
<1>2. NewOn(c, s) \subseteq NewOn(c, t) /\ OrderOn(c, s) \subseteq OrderOn(c, t)
  BY SeenAlike
<1>3. NewOn(c, t) \subseteq NewOn(c, s) /\ OrderOn(c, t) \subseteq OrderOn(c, s)
  BY <1>1, SeenAlike
<1>4. NewOn(c, s) = NewOn(c, t) /\ OrderOn(c, s) = OrderOn(c, t)
  BY <1>2, <1>3
<1>5. /\ Damage!Paint(Damage!Bare, s, c) = [nodes |-> NewOn(c, s), order |-> OrderOn(c, s)]
      /\ Damage!Paint(Damage!Bare, t, c) = [nodes |-> NewOn(c, t), order |-> OrderOn(c, t)]
  BY PaintIs
<1> QED
  BY <1>4, <1>5

\* Where no node is, nothing is painted.
LEMMA NothingOn ==
    ASSUME NEW c, NEW s, NEW under \in Damage!Layers, Damage!On(c, s) = {}
    PROVE  /\ Damage!Paint(under, s, c) = under
           /\ Damage!Paint(Damage!Bare, s, c) = Damage!Bare
<1>1. Damage!Seen(c, s) = {} /\ ~Damage!IsOpaque(c, s)
  BY DEF Damage!Seen, Damage!IsOpaque
<1>2. NewOn(c, s) = {} /\ OrderOn(c, s) = {}
  BY <1>1 DEF NewOn, OrderOn
<1>3. PICK a, b : under = [nodes |-> a, order |-> b]
  BY DEF Damage!Layers
<1>4. Damage!Paint(under, s, c) =
          [nodes |-> a \cup NewOn(c, s), order |-> b \cup (a \X NewOn(c, s)) \cup OrderOn(c, s)]
  BY <1>1, <1>3 DEF Damage!Paint, NewOn, OrderOn
<1>5. a \cup {} = a /\ b \cup (a \X {}) \cup {} = b
  OBVIOUS
<1> QED
  BY <1>2, <1>3, <1>4, <1>5, PaintIs DEF Damage!Bare

\* A dirty node on a column has a rectangle that reaches it, unless the change
\* is one that goes unseen.
LEMMA DirtyIsReached ==
    ASSUME NEW c, NEW scene, NEW prev, prev # None, ~Damage!Invisible(scene, prev),
           NEW i \in Damage!On(c, scene), i \in Damage!Dirty(scene, prev), scene[i] \in DamageNodes
    PROVE  i \in Damage!Damaged(scene, prev) /\ c \in Damage!Area(Damage!Rect(scene[i]))
<1>1. c \in Damage!Covers(scene[i]) /\ i \in DOMAIN scene
  BY DEF Damage!On
<1>2. ~(c >= Damage!Rect(scene[i]).right)
  BY <1>1 DEF Damage!Invisible
<1>3. PICK r \in Region : r = Damage!Rect(scene[i])
  BY RectIsRegion
<1>4. c \in Damage!Screen /\ scene[i].w > 0 /\ r.left <= c
  BY <1>1, <1>3 DEF Damage!Covers, Damage!Rect
<1>5. c \in Int /\ r.left \in Int /\ r.right \in Int
  BY <1>3, <1>4, DamageBoundsAreNatural DEF Damage!Screen, Region
<1>6. c < r.right
  BY <1>2, <1>3, <1>5
<1> QED
  BY <1>3, <1>4, <1>6 DEF Damage!Damaged, Damage!Area

\* What was on a column still is, or the column is dirty.
LEMMA StillThere ==
    ASSUME NEW c, NEW scene, NEW prev, prev # None, ~Damage!Invisible(scene, prev),
           NEW j \in Damage!On(c, prev), prev[j] \in DamageNodes,
           \A i \in DOMAIN scene : scene[i] \in DamageNodes
    PROVE  \E i \in Damage!On(c, scene) : scene[i] = prev[j] \/ i \in Damage!Dirty(scene, prev)
<1>1. c \in Damage!Covers(prev[j]) /\ j \in DOMAIN prev
  BY DEF Damage!On
<1>2. ~Damage!Vanished(j, scene, prev)
  BY <1>1 DEF Damage!Invisible
<1>3. CASE \E i \in DOMAIN scene : scene[i] = prev[j]
  BY <1>1, <1>3 DEF Damage!On
<1>4. CASE \A i \in DOMAIN scene : scene[i] # prev[j]
  <2>1. PICK i \in DOMAIN scene :
            /\ <<scene[i].x, scene[i].w>> = <<prev[j].x, prev[j].w>>
            /\ i \in Damage!Dirty(scene, prev) /\ ~(scene[i].pad < prev[j].pad)
    BY <1>2, <1>4 DEF Damage!Vanished, Damage!Same
  <2>2. PICK x \in Int, w \in Nat, p \in Nat, q \in Nat :
            /\ scene[i].x = x /\ scene[i].w = w /\ scene[i].pad = p
            /\ prev[j].x = x /\ prev[j].w = w /\ prev[j].pad = q
    BY <2>1, NodesAreNodes
  <2>3. PICK l \in Int, r \in Int : l = x \div 2 /\ r = Damage!Ceil(x + w)
    BY DEF Damage!Ceil
  <2>4. c \in Damage!Screen /\ w > 0 /\ c >= l - q /\ c < r + q
    BY <1>1, <2>2, <2>3 DEF Damage!Covers
  <2>5. c \in Int
    BY <2>4, DamageBoundsAreNatural DEF Damage!Screen
  <2>6. c >= l - p /\ c < r + p
    BY <2>1, <2>2, <2>4, <2>5
  <2>7. c \in Damage!Covers(scene[i])
    BY <2>2, <2>3, <2>4, <2>6 DEF Damage!Covers
  <2> QED
    BY <2>1, <2>7 DEF Damage!On
<1> QED
  BY <1>3, <1>4

\* A column no rectangle reaches looks in both scenes alike.
LEMMA UntouchedIsAlike ==
    ASSUME NEW c, NEW m \in Nat, NEW n \in Nat, NEW scene \in [1 .. m -> DamageNodes],
           NEW prev \in [1 .. n -> DamageNodes], IsInjective(scene), IsInjective(prev),
           prev # None, ~Damage!Invisible(scene, prev),
           \A i \in Damage!Damaged(scene, prev) : c \notin Damage!Area(Damage!Rect(scene[i]))
    PROVE  Alike(c, scene, prev)
<1>1. Damage!On(c, scene) \subseteq 1 .. m /\ Damage!On(c, prev) \subseteq 1 .. n
  BY DEF Damage!On
<1>2. ASSUME NEW i \in Damage!On(c, scene) PROVE i \notin Damage!Dirty(scene, prev)
  <2>1. scene[i] \in DamageNodes
    BY <1>1
  <2> QED
    BY <2>1, DirtyIsReached
<1>3. ASSUME NEW i \in Damage!On(c, scene) PROVE \E j \in Damage!On(c, prev) : scene[i] = prev[j]
  <2>1. PICK j \in DOMAIN prev : scene[i] = prev[j]
    BY <1>1, <1>2 DEF Damage!Dirty, Damage!Same
  <2>2. j \in Damage!On(c, prev)
    BY <1>3, <2>1 DEF Damage!On
  <2> QED
    BY <2>1, <2>2
<1>4. ASSUME NEW j \in Damage!On(c, prev) PROVE \E i \in Damage!On(c, scene) : scene[i] = prev[j]
  <2>1. prev[j] \in DamageNodes /\ \A i \in DOMAIN scene : scene[i] \in DamageNodes
    BY <1>1
  <2>2. PICK i \in Damage!On(c, scene) : scene[i] = prev[j] \/ i \in Damage!Dirty(scene, prev)
    BY <2>1, StillThere
  <2> QED
    BY <1>2, <2>2
<1>5. ASSUME NEW i \in Damage!On(c, scene), NEW k \in Damage!On(c, scene),
             NEW j \in Damage!On(c, prev), NEW l \in Damage!On(c, prev),
             scene[i] = prev[j], scene[k] = prev[l]
      PROVE  i < k <=> j < l
  <2>1. i \in 1 .. m /\ k \in 1 .. m /\ j \in 1 .. n /\ l \in 1 .. n
    BY <1>1
  <2>2. ~(i < k /\ l < j) /\ ~(k < i /\ j < l)
    BY <1>5, <2>1 DEF Damage!Invisible, Damage!Same
  <2>3. i = k <=> j = l
    BY <1>5, <2>1 DEF IsInjective
  <2>4. PICK a \in Nat, b \in Nat, x \in Nat, y \in Nat : a = i /\ b = k /\ x = j /\ y = l
    BY <2>1
  <2> QED
    BY <2>2, <2>3, <2>4
<1> QED
  BY <1>3, <1>4, <1>5 DEF Alike

LEMMA SceneIs ==
    ASSUME NEW scene \in Damage!Scenes
    PROVE  /\ scene # None
           /\ \E n \in Nat : scene \in [1 .. n -> DamageNodes] /\ IsInjective(scene)
<1>1. scene # None
  BY NoneIsNoScene
<1>2. PICK n \in 0 .. MaxNodes : scene \in [1 .. n -> DamageNodes]
  BY DEF Damage!Scenes
<1>3. n \in Nat
  BY DamageBoundsAreNatural
<1>4. IsInjective(scene)
  BY DEF Damage!Scenes, Damage!IsInjective, IsInjective
<1> QED
  BY <1>1, <1>2, <1>3, <1>4

LEMMA ClearedTyped == Damage!Cleared \in [Damage!Screen -> Damage!Layers]
BY DEF Damage!Cleared, Damage!Bare, Damage!Layers

LEMMA PictureTyped ==
    ASSUME NEW scene \in Damage!Scenes
    PROVE  Damage!PaintAll(scene) \in [Damage!Screen -> Damage!Layers]
<1>1. PICK n \in Nat : scene \in [1 .. n -> DamageNodes]
  BY SceneIs
<1>2. ASSUME NEW c \in Damage!Screen PROVE Damage!Paint(Damage!Bare, scene, c) \in Damage!Layers
  <2>1. Damage!Seen(c, scene) \subseteq 1 .. n
    BY <1>1 DEF Damage!Seen, Damage!On
  <2>2. NewOn(c, scene) \subseteq DamageNodes
    BY <1>1, <2>1 DEF NewOn
  <2>3. OrderOn(c, scene) \subseteq DamageNodes \X DamageNodes
    BY <2>2 DEF OrderOn
  <2>4. PICK a, b : a = NewOn(c, scene) /\ b = OrderOn(c, scene)
    OBVIOUS
  <2> QED
    BY <2>2, <2>3, <2>4, PaintIs DEF Damage!Layers
<1> QED
  BY <1>2 DEF Damage!PaintAll

\* What the damage of a scene covers.
LEMMA DamageCovers ==
    ASSUME NEW scene \in Damage!Scenes, NEW prev, prev # None,
           NEW damage, damage = Damage!Damage(scene, prev), ~damage.full
    PROVE  /\ damage.regions \in Seq(Region)
           /\ \A i \in Damage!Damaged(scene, prev) :
                  CoveredBy(Damage!Rect(scene[i]), damage.regions)
<1>1. PICK n \in Nat : scene \in [1 .. n -> DamageNodes]
  BY SceneIs
<1>2. PICK places : places = Damage!Damaged(scene, prev)
  OBVIOUS
<1>3. damage = [full |-> FALSE, regions |-> Damage!Merged(scene, places)]
  BY <1>2 DEF Damage!Damage, Damage!Optimize
<1>4. places \subseteq 1 .. n
  BY <1>1, <1>2 DEF Damage!Damaged, Damage!Dirty
<1> QED
  BY <1>1, <1>2, <1>3, <1>4, MergedCovers

\* Repainting the damaged regions of the last picture yields the new one.
LEMMA RepaintShowsScene ==
    ASSUME NEW scene \in Damage!Scenes, prev_scene \in Damage!Scenes,
           columns = Damage!PaintAll(prev_scene), ~Damage!Invisible(scene, prev_scene),
           NEW damage, damage = Damage!Damage(scene, prev_scene), ~damage.full,
           \A k \in DOMAIN damage.regions : ~Damage!Smears(scene, Damage!Area(damage.regions[k]))
    PROVE  Damage!Repaint(scene, damage.regions) = Damage!PaintAll(scene)
<1>1. PICK prev \in Damage!Scenes : prev = prev_scene
  OBVIOUS
<1>2. PICK m \in Nat : scene \in [1 .. m -> DamageNodes] /\ IsInjective(scene)
  BY SceneIs
<1>3. PICK n \in Nat : prev \in [1 .. n -> DamageNodes] /\ IsInjective(prev)
  BY SceneIs
<1>4. prev # None /\ ~Damage!Invisible(scene, prev)
  BY <1>1, SceneIs
<1>5. PICK regions \in Seq(Region) :
          /\ regions = damage.regions
          /\ \A i \in Damage!Damaged(scene, prev) : CoveredBy(Damage!Rect(scene[i]), regions)
  BY <1>1, <1>4, DamageCovers
<1>6. ASSUME NEW c \in Damage!Screen
      PROVE  Damage!Repaint(scene, regions)[c] = Damage!Paint(Damage!Bare, scene, c)
  <2>1. PICK under \in Damage!Layers : under = columns[c] /\ under = Damage!Paint(Damage!Bare, prev, c)
    <3>1. columns \in [Damage!Screen -> Damage!Layers]
      BY PictureTyped
    <3> QED
      BY <1>1, <3>1 DEF Damage!PaintAll
  <2>2. PICK hit : hit = {k \in DOMAIN regions : c \in Damage!Area(regions[k])}
    OBVIOUS
  <2>3. Damage!Repaint(scene, regions)[c] =
            CASE hit = {} -> under
              [] \E k \in hit : hit = {k} -> Damage!Paint(under, scene, c)
              [] OTHER -> Damage!Paint(Damage!Paint(under, scene, c), scene, c)
    BY <2>1, <2>2 DEF Damage!Repaint
  <2>4. CASE hit = {}
    <3>1. ASSUME NEW i \in Damage!Damaged(scene, prev), c \in Damage!Area(Damage!Rect(scene[i]))
          PROVE  FALSE
      <4>1. i \in 1 .. m
        BY <1>2 DEF Damage!Damaged, Damage!Dirty
      <4>2. PICK r \in Region : r = Damage!Rect(scene[i])
        BY <1>2, <4>1, RectIsRegion
      <4>3. PICK k \in DOMAIN regions : Inside(r, regions[k])
        BY <1>5, <4>2 DEF CoveredBy
      <4>4. regions[k] \in Region
        BY <4>3, ElementOfSeq, LenProperties
      <4>5. c \in Int
        BY DamageBoundsAreNatural DEF Damage!Screen
      <4>6. r.left <= c /\ c < r.right
        BY <3>1, <4>2 DEF Damage!Area
      <4>7. c \in Damage!Area(regions[k])
        BY <4>3, <4>4, <4>5, <4>6 DEF Damage!Area, Inside, Region
      <4> QED
        BY <2>2, <2>4, <4>3, <4>7
    <3>2. Alike(c, scene, prev)
      BY <1>2, <1>3, <1>4, <3>1, UntouchedIsAlike
    <3>3. Damage!Paint(Damage!Bare, scene, c) = under
      BY <1>2, <1>3, <2>1, <3>2, SamePicture
    <3> QED
      BY <2>3, <2>4, <3>3
  <2>5. CASE hit # {}
    <3>1. PICK k \in DOMAIN regions : c \in Damage!Area(regions[k])
      BY <2>2, <2>5
    <3>2. Damage!On(c, scene) = {} \/ Damage!IsOpaque(c, scene)
      BY <1>5, <3>1 DEF Damage!Smears
    <3>3. CASE Damage!IsOpaque(c, scene)
      <4>1. /\ Damage!Paint(under, scene, c) = Damage!Paint(Damage!Bare, scene, c)
            /\ Damage!Paint(Damage!Paint(under, scene, c), scene, c) =
                   Damage!Paint(Damage!Bare, scene, c)
        BY <3>3, PaintIs
      <4> QED
        BY <2>3, <2>5, <4>1
    <3>4. CASE Damage!On(c, scene) = {}
      <4>1. Damage!On(c, prev) = {}
        <5>1. SUFFICES ASSUME NEW j \in Damage!On(c, prev) PROVE FALSE
          OBVIOUS
        <5>2. prev[j] \in DamageNodes /\ \A i \in DOMAIN scene : scene[i] \in DamageNodes
          BY <1>2, <1>3 DEF Damage!On
        <5>3. \E i \in Damage!On(c, scene) : scene[i] = prev[j] \/ i \in Damage!Dirty(scene, prev)
          BY <1>4, <5>2, StillThere
        <5> QED
          BY <3>4, <5>3
      <4>2. Damage!Paint(under, scene, c) = under /\ Damage!Paint(Damage!Bare, scene, c) = Damage!Bare
        BY <3>4, NothingOn
      <4>3. under = Damage!Bare
        BY <2>1, <4>1, NothingOn
      <4> QED
        BY <2>3, <2>5, <4>2, <4>3
    <3> QED
      BY <3>2, <3>3, <3>4
  <2> QED
    BY <2>4, <2>5
<1>7. PICK f : f = Damage!Repaint(scene, regions)
  OBVIOUS
<1>8. f = [c \in Damage!Screen |-> f[c]]
  BY <1>7 DEF Damage!Repaint
<1> QED
  BY <1>5, <1>6, <1>7, <1>8 DEF Damage!PaintAll

-----------------------------------------------------------------------------
\* While it can be followed, the backbuffer holds the last scene, whole.
DamageInv == Damage!TypeOK /\ Damage!FollowsScene /\ Damage!FrameIsKept

LEMMA DamageStarts == Damage!Init => DamageInv
BY ClearedTyped
   DEF Damage!Init, DamageInv, Damage!TypeOK, Damage!FollowsScene, Damage!FrameIsKept

LEMMA GpuFrameKeeps ==
    ASSUME DamageInv, NEW scene \in Damage!Scenes, Damage!GpuFrame(scene)
    PROVE  DamageInv'
<1>1. PICK damage : damage = Damage!Damage(scene, prev_scene)
  OBVIOUS
<1>2. PICK partly \in BOOLEAN : partly = (initialized /\ ~damage.full /\ damage.regions # <<>>)
  OBVIOUS
<1>3. PICK astray \in BOOLEAN :
          astray = (unseen \/ Damage!Invisible(scene, prev_scene)
                    \/ \E k \in DOMAIN damage.regions :
                           Damage!Smears(scene, Damage!Area(damage.regions[k])))
  OBVIOUS
<1>4. /\ columns' = IF ~partly THEN Damage!PaintAll(scene)
                    ELSE IF astray THEN Damage!Cleared ELSE Damage!Repaint(scene, damage.regions)
      /\ initialized' = TRUE /\ prev_scene' = scene
      /\ drawn' = (IF partly THEN "damage" ELSE "all") /\ unseen' = (partly /\ astray)
  BY <1>1, <1>2, <1>3 DEF Damage!GpuFrame
<1>5. scene # None
  BY SceneIs
<1>6. CASE ~partly \/ ~astray
  <2>1. columns' = Damage!PaintAll(scene)
    <3>1. CASE ~partly
      BY <1>4, <3>1
    <3>2. CASE partly /\ ~astray
      <4>1. initialized /\ ~unseen /\ ~damage.full
        BY <1>2, <1>3, <3>2
      <4>2. prev_scene \in Damage!Scenes /\ columns = Damage!PaintAll(prev_scene)
        BY <4>1 DEF DamageInv, Damage!FollowsScene, Damage!TypeOK
      <4>3. /\ ~Damage!Invisible(scene, prev_scene)
            /\ \A k \in DOMAIN damage.regions :
                   ~Damage!Smears(scene, Damage!Area(damage.regions[k]))
        BY <1>3, <3>2
      <4>4. Damage!Repaint(scene, damage.regions) = Damage!PaintAll(scene)
        BY <1>1, <4>1, <4>2, <4>3, RepaintShowsScene
      <4> QED
        BY <1>4, <3>2, <4>4
    <3> QED
      BY <1>6, <3>1, <3>2
  <2> QED
    BY <1>4, <1>5, <2>1, PictureTyped
       DEF DamageInv, Damage!TypeOK, Damage!FollowsScene, Damage!FrameIsKept
<1>7. CASE partly /\ astray
  BY <1>4, <1>7, ClearedTyped
     DEF DamageInv, Damage!TypeOK, Damage!FollowsScene, Damage!FrameIsKept
<1> QED
  BY <1>6, <1>7

LEMMA DamageStep ==
    ASSUME DamageInv, Damage!Next \/ UNCHANGED damageVars PROVE DamageInv'
<1>1. ASSUME NEW scene \in Damage!Scenes, Damage!CpuFrame(scene) PROVE DamageInv'
  <2>1. CASE unseen'
    BY <1>1, <2>1, ClearedTyped
       DEF Damage!CpuFrame, DamageInv, Damage!TypeOK, Damage!FollowsScene, Damage!FrameIsKept
  <2>2. CASE ~unseen'
    BY <1>1, <2>2
       DEF Damage!CpuFrame, DamageInv, Damage!TypeOK, Damage!FollowsScene, Damage!FrameIsKept
  <2> QED
    BY <2>1, <2>2
<1>2. CASE Damage!Resize
  BY <1>2, ClearedTyped
     DEF Damage!Resize, DamageInv, Damage!TypeOK, Damage!FollowsScene, Damage!FrameIsKept
<1>3. CASE Damage!ImageReady
  BY <1>3, ClearedTyped
     DEF Damage!ImageReady, DamageInv, Damage!TypeOK, Damage!FollowsScene, Damage!FrameIsKept
<1>4. CASE UNCHANGED damageVars
  BY <1>4 DEF damageVars, DamageInv, Damage!TypeOK, Damage!FollowsScene, Damage!FrameIsKept
<1> QED
  BY <1>1, <1>2, <1>3, <1>4, GpuFrameKeeps DEF Damage!Next

-----------------------------------------------------------------------------
(* The glyph atlas: rows above the pen *)

\* Behind, for a pen at x and y in a row of height r.
BehindPen(p, x, y, r) ==
    \/ p.y + Glyph!H(p.glyph) < y
    \/ p.x + Glyph!W(p.glyph) < x /\ p.y + Glyph!H(p.glyph) < y + r

InAtlas(p) == p.x + Glyph!W(p.glyph) <= AtlasWidth /\ p.y + Glyph!H(p.glyph) <= AtlasHeight

GlyphInv == Glyph!TypeOK /\ Glyph!GlyphsKeepTheirTexels /\ Glyph!UploadsAreBehind

Instances == [at : Glyph!Placement, color : Colors, wanted : Colors]

LEMMA ExtentTyped ==
    ASSUME NEW g \in Glyphs PROVE Glyph!W(g) \in Nat /\ Glyph!H(g) \in Nat
BY AtlasConstants DEF Glyph!W, Glyph!H

LEMMA TouchMoves ==
    ASSUME NEW S, NEW used \in Seq(S), NEW i \in DOMAIN used
    PROVE  /\ Glyph!Touch(used, i) \in Seq(S)
           /\ \A k \in DOMAIN Glyph!Touch(used, i) :
                  \E j \in DOMAIN used : Glyph!Touch(used, i)[k] = used[j]
<1>1. PICK n \in Nat : n = Len(used) /\ DOMAIN used = 1 .. n
  BY LenProperties
<1>2. \A k \in 1 .. n : k # n => k + 1 \in 1 .. n
  OBVIOUS
<1>3. \A k \in 1 .. n : used[k] \in S
  BY <1>1, ElementOfSeq
<1>4. PICK t : t = Glyph!Touch(used, i)
  OBVIOUS
<1>5. t = [k \in 1 .. n |-> IF k < i THEN used[k] ELSE IF k = n THEN used[i] ELSE used[k + 1]]
  BY <1>1, <1>4 DEF Glyph!Touch
<1>6. t \in [1 .. n -> S] /\ \A k \in 1 .. n : \E j \in 1 .. n : t[k] = used[j]
  BY <1>1, <1>2, <1>3, <1>5
<1>7. t \in Seq(S)
  BY <1>6, SeqDef
<1> QED
  BY <1>1, <1>4, <1>6, <1>7

\* The index after the eviction or the clearing before an upload.
LEMMA KeptIs ==
    ASSUME glyphs \in Seq(Glyph!Placement), NEW g
    PROVE  /\ Glyph!Kept(g) \in Seq(Glyph!Placement)
           /\ \A k \in DOMAIN Glyph!Kept(g) :
                  ~Glyph!Overflows(g) /\ \E i \in DOMAIN glyphs : Glyph!Kept(g)[k] = glyphs[i]
<1>1. CASE Glyph!Overflows(g)
  BY <1>1, EmptySeq DEF Glyph!Kept
<1>2. CASE ~Glyph!Overflows(g) /\ Len(glyphs) >= MaxGlyphs
  <2>1. glyphs # <<>>
    BY <1>2, AtlasConstants, EmptySeq
  <2>2. PICK t : t = Tail(glyphs)
    OBVIOUS
  <2>3. PICK n \in Nat : n = Len(glyphs) /\ DOMAIN glyphs = 1 .. n
    BY LenProperties
  <2>4. /\ t \in Seq(Glyph!Placement) /\ Len(t) = n - 1
        /\ \A k \in 1 .. Len(t) : t[k] = glyphs[k + 1]
    BY <2>1, <2>2, <2>3, HeadTailProperties
  <2>5. DOMAIN t = 1 .. n - 1
    BY <2>4, LenProperties
  <2>6. \A k \in DOMAIN t : \E i \in DOMAIN glyphs : t[k] = glyphs[i]
    BY <2>3, <2>4, <2>5
  <2>7. Glyph!Kept(g) = t
    BY <1>2, <2>2 DEF Glyph!Kept, Glyph!Evict
  <2> QED
    BY <1>2, <2>4, <2>6, <2>7
<1>3. CASE ~Glyph!Overflows(g) /\ ~(Len(glyphs) >= MaxGlyphs)
  BY <1>3 DEF Glyph!Kept, Glyph!Evict
<1> QED
  BY <1>1, <1>2, <1>3

\* Where the next glyph goes: what was behind the pen is behind that, and a glyph
\* that is not too large fits there.
LEMMA CornerIs ==
    ASSUME NEW g \in Glyphs, pen_x \in Nat, pen_y \in Nat, row_height \in Nat
    PROVE  \E x, y, r \in Nat :
               /\ Glyph!Corner(g) = [x |-> x, y |-> y, row |-> r]
               /\ \A p \in Glyph!Placement :
                      ~Glyph!Overflows(g) /\ Glyph!Behind(p) => BehindPen(p, x, y, r)
               /\ ~Glyph!TooLarge(g) =>
                      x + Glyph!W(g) + 2 <= AtlasWidth /\ y + Glyph!H(g) + 2 <= AtlasHeight
<1>1. PICK w \in Nat, h \in Nat : w = Glyph!W(g) /\ h = Glyph!H(g)
  BY ExtentTyped
<1>2. PICK a \in Nat, b \in Nat, c \in Nat : pen_x = a /\ pen_y = b /\ row_height = c
  OBVIOUS
<1>3. PICK aw \in Nat, ah \in Nat : AtlasWidth = aw /\ AtlasHeight = ah
  BY AtlasConstants
<1>4. PICK x \in Nat, y \in Nat, r \in Nat :
          /\ Glyph!Pen(g) = [x |-> x, y |-> y, row |-> r]
          /\ \/ a + w + 2 > aw /\ x = 1 /\ y = b + c /\ r = 0
             \/ ~(a + w + 2 > aw) /\ x = a /\ y = b /\ r = c
  <2>1. Glyph!Pen(g) = IF a + w + 2 > aw THEN [x |-> 1, y |-> b + c, row |-> 0]
                       ELSE [x |-> a, y |-> b, row |-> c]
    BY <1>1, <1>2, <1>3 DEF Glyph!Pen
  <2>2. PICK low \in Nat : low = b + c
    OBVIOUS
  <2>3. CASE a + w + 2 > aw
    BY <2>1, <2>2, <2>3
  <2>4. CASE ~(a + w + 2 > aw)
    BY <2>1, <2>4
  <2> QED
    BY <2>3, <2>4
<1>5. Glyph!Overflows(g) <=> y + h + 2 > ah
  BY <1>1, <1>3, <1>4 DEF Glyph!Overflows
<1>6. Glyph!TooLarge(g) <=> w + 3 >= aw \/ h + 3 >= ah
  BY <1>1, <1>3 DEF Glyph!TooLarge
<1>7. CASE Glyph!Overflows(g)
  <2>1. Glyph!Corner(g) = [x |-> 1, y |-> 1, row |-> 0]
    BY <1>7 DEF Glyph!Corner
  <2>2. ~Glyph!TooLarge(g) => 1 + w + 2 <= aw /\ 1 + h + 2 <= ah
    BY <1>6
  <2> QED
    BY <1>1, <1>3, <1>7, <2>1, <2>2
<1>8. CASE ~Glyph!Overflows(g)
  <2>1. Glyph!Corner(g) = [x |-> x, y |-> y, row |-> r]
    BY <1>4, <1>8 DEF Glyph!Corner
  <2>2. ~Glyph!TooLarge(g) => x + w + 2 <= aw /\ y + h + 2 <= ah
    BY <1>4, <1>5, <1>6, <1>8
  <2>3. ASSUME NEW p \in Glyph!Placement, Glyph!Behind(p) PROVE BehindPen(p, x, y, r)
    <3>1. PICK s \in Nat, t \in Nat : s = p.x + Glyph!W(p.glyph) /\ t = p.y + Glyph!H(p.glyph)
      BY ExtentTyped DEF Glyph!Placement
    <3>2. t < b \/ (s < a /\ t < b + c)
      BY <1>2, <2>3, <3>1 DEF Glyph!Behind
    <3>3. t < y \/ (s < x /\ t < y + r)
      BY <1>4, <3>2
    <3> QED
      BY <3>1, <3>3 DEF BehindPen
  <2> QED
    BY <1>1, <1>3, <2>1, <2>2, <2>3
<1> QED
  BY <1>7, <1>8

LEMMA PendingIs ==
    ASSUME pending \in Seq(Glyphs), pending # <<>>
    PROVE  Head(pending) \in Glyphs /\ Tail(pending) \in Seq(Glyphs)
BY HeadTailProperties

\* A glyph is drawn from a placement that is in the texture.
LEMMA EmitKeeps ==
    ASSUME Glyph!TypeOK, pending # <<>>, NEW p \in Glyph!Placement, Glyph!Emit(p)
    PROVE  /\ pending' \in Seq(Glyphs) /\ text_instances' \in Seq(Instances)
           /\ text_layout_cache' = text_layout_cache /\ color' = color /\ wanted' = wanted
           /\ text_frame' = text_frame
           /\ \A i \in DOMAIN text_instances' :
                  \/ text_instances'[i].at = p
                  \/ i \in DOMAIN text_instances /\ text_instances'[i] = text_instances[i]
<1>1. text_instances \in Seq(Instances) /\ pending \in Seq(Glyphs) /\ color \in Colors /\ wanted \in Colors
  BY DEF Glyph!TypeOK, Instances
<1>2. PICK n \in Nat : n = Len(text_instances) /\ DOMAIN text_instances = 1 .. n
  BY <1>1, LenProperties
<1>3. PICK e \in Instances : e = [at |-> p, color |-> color, wanted |-> wanted]
  BY <1>1 DEF Instances
<1>4. PICK a : a = Append(text_instances, e)
  OBVIOUS
<1>5. a \in Seq(Instances) /\ Len(a) = n + 1 /\ a[n + 1] = e /\ \A i \in 1 .. n : a[i] = text_instances[i]
  BY <1>1, <1>2, <1>4, AppendProperties
<1>6. DOMAIN a = 1 .. n + 1
  BY <1>5, LenProperties
<1>7. \A i \in 1 .. n + 1 : a[i].at = p \/ (i \in 1 .. n /\ a[i] = text_instances[i])
  <2>1. \A i \in 1 .. n + 1 : i = n + 1 \/ i \in 1 .. n
    BY <1>2
  <2>2. e.at = p
    BY <1>3
  <2> QED
    BY <1>5, <2>1, <2>2
<1>8. text_instances' = a \/ text_instances' = text_instances
  BY <1>3, <1>4 DEF Glyph!Emit
<1>9. pending' \in Seq(Glyphs)
  BY <1>1, PendingIs DEF Glyph!Emit
<1>10. /\ text_layout_cache' = text_layout_cache /\ color' = color /\ wanted' = wanted
       /\ text_frame' = text_frame
  BY DEF Glyph!Emit
<1>11. CASE text_instances' = a
  BY <1>2, <1>5, <1>6, <1>7, <1>9, <1>10, <1>11
<1>12. CASE text_instances' = text_instances
  BY <1>1, <1>9, <1>10, <1>12
<1> QED
  BY <1>8, <1>11, <1>12

\* What the parts of the invariant say of one placement.
LEMMA PlacementsAre ==
    ASSUME GlyphInv
    PROVE  /\ glyphs \in Seq(Glyph!Placement)
           /\ \A i \in DOMAIN glyphs :
                  /\ glyphs[i] \in Glyph!Placement /\ glyphs[i] \in texels /\ InAtlas(glyphs[i])
                  /\ Glyph!Behind(glyphs[i])
                  /\ \A k \in DOMAIN glyphs : glyphs[k] # glyphs[i] => ~Glyph!Overlap(glyphs[k], glyphs[i])
           /\ \A i \in DOMAIN text_instances : text_instances[i].at \in Glyph!Placement
<1>1. glyphs \in Seq(Glyph!Placement) /\ text_instances \in Seq(Instances)
  BY DEF GlyphInv, Glyph!TypeOK, Instances
<1>2. \A i \in DOMAIN glyphs : glyphs[i] \in Glyph!Placement
  BY <1>1, ElementOfSeq, LenProperties
<1>3. \A i \in DOMAIN text_instances : text_instances[i] \in Instances
  BY <1>1, ElementOfSeq, LenProperties
<1>4. \A i \in DOMAIN text_instances : text_instances[i].at \in Glyph!Placement
  BY <1>3 DEF Instances
<1> QED
  BY <1>1, <1>2, <1>4 DEF GlyphInv, Glyph!GlyphsKeepTheirTexels, Glyph!UploadsAreBehind, InAtlas

LEMMA GlyphHitKeeps ==
    ASSUME GlyphInv, Glyph!GlyphHit PROVE GlyphInv'
<1>1. PICK i \in DOMAIN glyphs : glyphs' = Glyph!Touch(glyphs, i) /\ Glyph!Emit(glyphs[i])
  BY DEF Glyph!GlyphHit
<1>2. pending # <<>> /\ UNCHANGED <<pen_x, pen_y, row_height, texels, recycled>>
  BY DEF Glyph!GlyphHit
<1>3. glyphs' \in Seq(Glyph!Placement) /\ \A k \in DOMAIN glyphs' : \E j \in DOMAIN glyphs : glyphs'[k] = glyphs[j]
  BY <1>1, PlacementsAre, TouchMoves
<1>4. glyphs[i] \in Glyph!Placement /\ Glyph!TypeOK
  BY PlacementsAre DEF GlyphInv
<1>5. /\ pending' \in Seq(Glyphs) /\ text_instances' \in Seq(Instances)
      /\ text_layout_cache' = text_layout_cache /\ color' = color /\ wanted' = wanted
      /\ text_frame' = text_frame
      /\ \A m \in DOMAIN text_instances' :
             \/ text_instances'[m].at = glyphs[i]
             \/ m \in DOMAIN text_instances /\ text_instances'[m] = text_instances[m]
  BY <1>1, <1>2, <1>4, EmitKeeps
<1>6. Glyph!TypeOK'
  BY <1>2, <1>3, <1>4, <1>5 DEF Glyph!TypeOK, Instances
<1>7. \A p : Glyph!Behind(p)' <=> Glyph!Behind(p)
  BY <1>2 DEF Glyph!Behind
<1>8. Glyph!GlyphsKeepTheirTexels'
  <2>1. ASSUME NEW k \in DOMAIN glyphs'
        PROVE  /\ glyphs'[k] \in texels /\ InAtlas(glyphs'[k])
               /\ \A m \in DOMAIN glyphs' : glyphs'[m] # glyphs'[k] => ~Glyph!Overlap(glyphs'[m], glyphs'[k])
    BY <1>3, PlacementsAre
  <2> QED
    BY <1>2, <2>1 DEF Glyph!GlyphsKeepTheirTexels, InAtlas
<1>9. Glyph!UploadsAreBehind'
  <2>1. \A k \in DOMAIN glyphs' : Glyph!Behind(glyphs'[k])
    BY <1>3, PlacementsAre
  <2>2. ~recycled => \A m \in DOMAIN text_instances' :
            text_instances'[m].at \in texels /\ Glyph!Behind(text_instances'[m].at)
    BY <1>5, PlacementsAre DEF GlyphInv, Glyph!UploadsAreBehind
  <2> QED
    BY <1>2, <1>7, <2>1, <2>2 DEF Glyph!UploadsAreBehind
<1> QED
  BY <1>6, <1>8, <1>9 DEF GlyphInv

LEMMA NewGlyphIsApart ==
    ASSUME NEW p \in Glyph!Placement, NEW g \in Glyphs, NEW x \in Nat, NEW y \in Nat, NEW r \in Nat,
           BehindPen(p, x, y, r), NEW new, new = [glyph |-> g, x |-> x + 1, y |-> y + 1]
    PROVE  /\ ~Glyph!Overlap(p, new) /\ ~Glyph!Overlap(new, p)
           /\ BehindPen(p, x + Glyph!W(g) + 2, y,
                        IF r > Glyph!H(g) + 2 THEN r ELSE Glyph!H(g) + 2)
<1>1. PICK w \in Nat, h \in Nat : w = Glyph!W(g) /\ h = Glyph!H(g)
  BY ExtentTyped
<1>2. PICK px \in Nat, py \in Nat, pw \in Nat, ph \in Nat :
          p.x = px /\ p.y = py /\ Glyph!W(p.glyph) = pw /\ Glyph!H(p.glyph) = ph
  BY ExtentTyped DEF Glyph!Placement
<1>3. new.x = x + 1 /\ new.y = y + 1 /\ new.glyph = g
  OBVIOUS
<1>4. py + ph < y \/ (px + pw < x /\ py + ph < y + r)
  BY <1>2 DEF BehindPen
<1>5. ~(x + 1 < px + pw /\ y + 1 < py + ph)
  BY <1>4
<1>6. ~Glyph!Overlap(p, new) /\ ~Glyph!Overlap(new, p)
  BY <1>1, <1>2, <1>3, <1>5 DEF Glyph!Overlap
<1>7. PICK row \in Nat : row = (IF r > h + 2 THEN r ELSE h + 2) /\ row >= r
  OBVIOUS
<1>8. py + ph < y \/ (px + pw < x + w + 2 /\ py + ph < y + row)
  BY <1>4, <1>7
<1> QED
  BY <1>1, <1>2, <1>6, <1>7, <1>8 DEF BehindPen

LEMMA GlyphRasterizedKeeps ==
    ASSUME GlyphInv, Glyph!GlyphRasterized PROVE GlyphInv'
<1>1. pending # <<>> /\ Glyph!TypeOK
  BY DEF Glyph!GlyphRasterized, Glyph!Uncached, GlyphInv
<1>2. PICK g \in Glyphs : g = Head(pending)
  BY <1>1, PendingIs DEF Glyph!TypeOK
<1>3. PICK x \in Nat, y \in Nat, r \in Nat :
          /\ Glyph!Corner(g) = [x |-> x, y |-> y, row |-> r]
          /\ \A p \in Glyph!Placement : ~Glyph!Overflows(g) /\ Glyph!Behind(p) => BehindPen(p, x, y, r)
          /\ ~Glyph!TooLarge(g) =>
                 x + Glyph!W(g) + 2 <= AtlasWidth /\ y + Glyph!H(g) + 2 <= AtlasHeight
  BY <1>1, CornerIs DEF Glyph!TypeOK
<1>4. PICK w \in Nat, h \in Nat : w = Glyph!W(g) /\ h = Glyph!H(g)
  BY ExtentTyped
<1>5. PICK new \in Glyph!Placement : new = [glyph |-> g, x |-> x + 1, y |-> y + 1]
  <2>1. x + 1 \in Nat /\ y + 1 \in Nat
    OBVIOUS
  <2> QED
    BY <2>1 DEF Glyph!Placement
<1>6. PICK kept \in Seq(Glyph!Placement) :
          /\ kept = Glyph!Kept(g)
          /\ \A k \in DOMAIN kept : ~Glyph!Overflows(g) /\ \E i \in DOMAIN glyphs : kept[k] = glyphs[i]
  BY <1>1, KeptIs DEF Glyph!TypeOK
<1>7. PICK row \in Nat : row = (IF r > h + 2 THEN r ELSE h + 2) /\ row >= h + 2
  OBVIOUS
<1>8. /\ ~Glyph!TooLarge(g) /\ glyphs' = Append(kept, new)
      /\ pen_x' = x + w + 2 /\ pen_y' = y /\ row_height' = row
      /\ texels' = {p \in texels : ~Glyph!Overlap(p, new)} \cup {new}
      /\ recycled' = (recycled \/ Glyph!Overflows(g)) /\ Glyph!Emit(new)
  <2>1. Glyph!Corner(g).x = x /\ Glyph!Corner(g).y = y /\ Glyph!Corner(g).row = r
    BY <1>3
  <2> QED
    BY <1>2, <1>4, <1>5, <1>6, <1>7, <2>1 DEF Glyph!GlyphRasterized
<1>9. /\ pending' \in Seq(Glyphs) /\ text_instances' \in Seq(Instances)
      /\ text_layout_cache' = text_layout_cache /\ color' = color /\ wanted' = wanted
      /\ text_frame' = text_frame
      /\ \A m \in DOMAIN text_instances' :
             \/ text_instances'[m].at = new
             \/ m \in DOMAIN text_instances /\ text_instances'[m] = text_instances[m]
  BY <1>1, <1>8, EmitKeeps
<1>10. PICK n \in Nat : n = Len(kept) /\ DOMAIN kept = 1 .. n
  BY LenProperties
<1>11. /\ glyphs' \in Seq(Glyph!Placement) /\ Len(glyphs') = n + 1 /\ glyphs'[n + 1] = new
       /\ \A k \in 1 .. n : glyphs'[k] = kept[k]
  BY <1>8, <1>10, AppendProperties
<1>12. DOMAIN glyphs' = 1 .. n + 1
  BY <1>11, LenProperties
<1>13. ASSUME NEW k \in DOMAIN glyphs'
       PROVE  \/ glyphs'[k] = new
              \/ ~Glyph!Overflows(g) /\ \E i \in DOMAIN glyphs : glyphs'[k] = glyphs[i]
  <2>1. k = n + 1 \/ k \in 1 .. n
    BY <1>12
  <2> QED
    BY <1>6, <1>10, <1>11, <2>1
<1>14. Glyph!TypeOK'
  <2>1. texels' \subseteq Glyph!Placement
    BY <1>1, <1>8 DEF Glyph!TypeOK
  <2>2. pen_x' \in Nat /\ pen_y' \in Nat /\ row_height' \in Nat /\ recycled' \in BOOLEAN
    BY <1>1, <1>8 DEF Glyph!TypeOK
  <2> QED
    BY <1>1, <1>9, <1>11, <2>1, <2>2 DEF Glyph!TypeOK, Instances
<1>15. \A p : Glyph!Behind(p)' <=> BehindPen(p, x + w + 2, y, row)
  BY <1>8 DEF Glyph!Behind, BehindPen
<1>16. BehindPen(new, x + w + 2, y, row) /\ InAtlas(new) /\ new \in texels'
  <2>1. new.x = x + 1 /\ new.y = y + 1 /\ new.glyph = g
    BY <1>5
  <2>2. x + w + 2 <= AtlasWidth /\ y + h + 2 <= AtlasHeight
    BY <1>3, <1>4, <1>8
  <2>3. x + 1 + w < x + w + 2 /\ y + 1 + h < y + row
    BY <1>7
  <2>4. PICK aw \in Nat, ah \in Nat : AtlasWidth = aw /\ AtlasHeight = ah
    BY AtlasConstants
  <2>5. x + 1 + w <= aw /\ y + 1 + h <= ah
    BY <2>2, <2>4
  <2> QED
    BY <1>4, <1>8, <2>1, <2>3, <2>4, <2>5 DEF BehindPen, InAtlas
<1>17. ASSUME NEW p \in Glyph!Placement, ~Glyph!Overflows(g), Glyph!Behind(p)
       PROVE  /\ ~Glyph!Overlap(p, new) /\ ~Glyph!Overlap(new, p)
              /\ BehindPen(p, x + w + 2, y, row)
  <2>1. BehindPen(p, x, y, r)
    BY <1>3, <1>17
  <2> QED
    BY <1>4, <1>5, <1>7, <2>1, NewGlyphIsApart
<1>18. ASSUME NEW i \in DOMAIN glyphs, ~Glyph!Overflows(g)
       PROVE  /\ glyphs[i] \in texels' /\ BehindPen(glyphs[i], x + w + 2, y, row)
              /\ ~Glyph!Overlap(glyphs[i], new) /\ ~Glyph!Overlap(new, glyphs[i])
              /\ InAtlas(glyphs[i])
  BY <1>8, <1>17, <1>18, PlacementsAre
<1>19. Glyph!GlyphsKeepTheirTexels'
  <2>1. ASSUME NEW k \in DOMAIN glyphs'
        PROVE  /\ glyphs'[k] \in texels' /\ InAtlas(glyphs'[k])
               /\ \A m \in DOMAIN glyphs' : glyphs'[m] # glyphs'[k] => ~Glyph!Overlap(glyphs'[m], glyphs'[k])
    <3>1. glyphs'[k] \in texels' /\ InAtlas(glyphs'[k])
      BY <1>13, <1>16, <1>18
    <3>2. ASSUME NEW m \in DOMAIN glyphs', glyphs'[m] # glyphs'[k]
          PROVE  ~Glyph!Overlap(glyphs'[m], glyphs'[k])
      BY <1>13, <1>18, <3>2, PlacementsAre
    <3> QED
      BY <3>1, <3>2
  <2> QED
    BY <2>1 DEF Glyph!GlyphsKeepTheirTexels, InAtlas
<1>20. Glyph!UploadsAreBehind'
  <2>1. \A k \in DOMAIN glyphs' : BehindPen(glyphs'[k], x + w + 2, y, row)
    BY <1>13, <1>16, <1>18
  <2>2. ASSUME ~recycled', NEW m \in DOMAIN text_instances'
        PROVE  text_instances'[m].at \in texels' /\ BehindPen(text_instances'[m].at, x + w + 2, y, row)
    <3>1. ~recycled /\ ~Glyph!Overflows(g)
      BY <1>1, <1>8, <2>2 DEF Glyph!TypeOK
    <3>2. CASE text_instances'[m].at = new
      BY <1>16, <3>2
    <3>3. CASE m \in DOMAIN text_instances /\ text_instances'[m] = text_instances[m]
      <4>1. PICK p \in Glyph!Placement : p = text_instances[m].at
        BY <3>3, PlacementsAre
      <4>2. p \in texels /\ Glyph!Behind(p)
        BY <3>1, <3>3, <4>1 DEF GlyphInv, Glyph!UploadsAreBehind
      <4> QED
        BY <1>8, <1>17, <3>1, <3>3, <4>1, <4>2
    <3> QED
      BY <1>9, <3>2, <3>3
  <2> QED
    BY <1>15, <2>1, <2>2 DEF Glyph!UploadsAreBehind
<1> QED
  BY <1>14, <1>19, <1>20 DEF GlyphInv

LEMMA GlyphTooLargeKeeps ==
    ASSUME GlyphInv, Glyph!GlyphTooLarge PROVE GlyphInv'
<1>1. pending # <<>> /\ Glyph!TypeOK
  BY DEF Glyph!GlyphTooLarge, Glyph!Uncached, GlyphInv
<1>2. PICK g \in Glyphs : g = Head(pending)
  BY <1>1, PendingIs DEF Glyph!TypeOK
<1>3. PICK x \in Nat, y \in Nat, r \in Nat :
          /\ Glyph!Corner(g) = [x |-> x, y |-> y, row |-> r]
          /\ \A p \in Glyph!Placement : ~Glyph!Overflows(g) /\ Glyph!Behind(p) => BehindPen(p, x, y, r)
  BY <1>1, CornerIs DEF Glyph!TypeOK
<1>4. PICK kept \in Seq(Glyph!Placement) :
          /\ kept = Glyph!Kept(g)
          /\ \A k \in DOMAIN kept : ~Glyph!Overflows(g) /\ \E i \in DOMAIN glyphs : kept[k] = glyphs[i]
  BY <1>1, KeptIs DEF Glyph!TypeOK
<1>5. /\ glyphs' = kept /\ pen_x' = x /\ pen_y' = y /\ row_height' = r
      /\ pending' = <<>> /\ text_frame' = "idle" /\ text_instances' = <<>>
      /\ UNCHANGED <<texels, text_layout_cache, color, wanted, recycled>>
  <2>1. Glyph!Corner(g).x = x /\ Glyph!Corner(g).y = y /\ Glyph!Corner(g).row = r
    BY <1>3
  <2> QED
    BY <1>2, <1>4, <2>1 DEF Glyph!GlyphTooLarge
<1>6. Glyph!TypeOK'
  BY <1>1, <1>5, EmptySeq DEF Glyph!TypeOK
<1>7. \A p : Glyph!Behind(p)' <=> BehindPen(p, x, y, r)
  BY <1>5 DEF Glyph!Behind, BehindPen
<1>8. Glyph!GlyphsKeepTheirTexels'
  <2>1. ASSUME NEW k \in DOMAIN kept
        PROVE  /\ kept[k] \in texels /\ InAtlas(kept[k])
               /\ \A m \in DOMAIN kept : kept[m] # kept[k] => ~Glyph!Overlap(kept[m], kept[k])
    BY <1>4, PlacementsAre
  <2> QED
    BY <1>5, <2>1 DEF Glyph!GlyphsKeepTheirTexels, InAtlas
<1>9. Glyph!UploadsAreBehind'
  <2>1. ASSUME NEW k \in DOMAIN kept PROVE BehindPen(kept[k], x, y, r)
    BY <1>3, <1>4, PlacementsAre
  <2>2. DOMAIN text_instances' = {}
    BY <1>5
  <2> QED
    BY <1>5, <1>7, <2>1, <2>2 DEF Glyph!UploadsAreBehind
<1> QED
  BY <1>6, <1>8, <1>9 DEF GlyphInv

\* Steps that leave the atlas alone, and draw nothing or start over.
LEMMA AtlasStays ==
    ASSUME GlyphInv, Glyph!TypeOK', UNCHANGED <<glyphs, pen_x, pen_y, row_height, texels>>,
           text_instances' = <<>> \/ UNCHANGED <<text_instances, recycled>>
    PROVE  GlyphInv'
<1>1. \A p : Glyph!Behind(p)' <=> Glyph!Behind(p)
  BY DEF Glyph!Behind
<1>2. Glyph!GlyphsKeepTheirTexels'
  BY DEF GlyphInv, Glyph!GlyphsKeepTheirTexels
<1>3. text_instances' = <<>> => DOMAIN text_instances' = {}
  OBVIOUS
<1>4. Glyph!UploadsAreBehind'
  BY <1>1, <1>3 DEF GlyphInv, Glyph!UploadsAreBehind
<1> QED
  BY <1>2, <1>4 DEF GlyphInv

LEMMA LayoutTextKeeps ==
    ASSUME GlyphInv, Glyph!LayoutText PROVE GlyphInv'
<1> DEFINE Layouts == (DOMAIN Texts) \X Colors
<1>1. text_layout_cache \in Seq(Layouts) /\ Glyph!TypeOK
  BY DEF GlyphInv, Glyph!TypeOK
<1>2. PICK t \in DOMAIN Texts, c \in Colors :
          /\ Glyph!LayoutHit(t, c) \/ Glyph!LayoutMiss(t, c)
          /\ pending' = Texts[t] /\ wanted' = c
  BY DEF Glyph!LayoutText
<1>3. UNCHANGED <<glyphs, pen_x, pen_y, row_height, texels, text_frame, text_instances, recycled>>
  BY DEF Glyph!LayoutText, Glyph!atlas
<1>4. color' \in Colors /\ text_layout_cache' \in Seq(Layouts)
  <2>1. CASE Glyph!LayoutHit(t, c)
    <3>1. PICK i \in DOMAIN text_layout_cache :
              color' = text_layout_cache[i][2] /\ text_layout_cache' = Glyph!Touch(text_layout_cache, i)
      BY <2>1 DEF Glyph!LayoutHit
    <3>2. text_layout_cache[i] \in Layouts
      <4> HIDE DEF Layouts
      <4> QED
        BY <1>1, <3>1, ElementOfSeq, LenProperties
    <3>3. text_layout_cache' \in Seq(Layouts)
      <4> HIDE DEF Layouts
      <4> QED
        BY <1>1, <3>1, TouchMoves
    <3> QED
      BY <3>1, <3>2, <3>3
  <2>2. CASE Glyph!LayoutMiss(t, c)
    <3>1. PICK rest : /\ rest = IF Len(text_layout_cache) >= MaxLayouts THEN Tail(text_layout_cache)
                                ELSE text_layout_cache
                      /\ text_layout_cache' = Append(rest, <<t, c>>)
      BY <2>2 DEF Glyph!LayoutMiss
    <3>2. PICK l \in Layouts : l = <<t, c>>
      OBVIOUS
    <3> HIDE DEF Layouts
    <3>3. rest \in Seq(Layouts)
      <4>1. CASE Len(text_layout_cache) >= MaxLayouts
        <5>1. text_layout_cache # <<>>
          BY <4>1, AtlasConstants, EmptySeq
        <5> QED
          BY <1>1, <3>1, <4>1, <5>1, HeadTailProperties
      <4>2. CASE ~(Len(text_layout_cache) >= MaxLayouts)
        BY <1>1, <3>1, <4>2
      <4> QED
        BY <4>1, <4>2
    <3>4. text_layout_cache' \in Seq(Layouts)
      BY <3>1, <3>2, <3>3, AppendProperties
    <3>5. color' = c
      BY <2>2 DEF Glyph!LayoutMiss
    <3> QED
      BY <3>4, <3>5
  <2> QED
    BY <1>2, <2>1, <2>2
<1>5. pending' \in Seq(Glyphs)
  BY <1>2, AtlasConstants
<1>6. Glyph!TypeOK'
  BY <1>1, <1>2, <1>3, <1>4, <1>5 DEF Glyph!TypeOK
<1> QED
  BY <1>3, <1>6, AtlasStays

LEMMA GlyphStep ==
    ASSUME GlyphInv, Glyph!Next \/ UNCHANGED glyphVars PROVE GlyphInv'
<1>1. CASE Glyph!BeginFrame
  <2>1. Glyph!TypeOK'
    BY <1>1, EmptySeq DEF GlyphInv, Glyph!BeginFrame, Glyph!TypeOK, Glyph!atlas
  <2> QED
    BY <1>1, <2>1, AtlasStays DEF Glyph!BeginFrame, Glyph!atlas
<1>2. CASE Glyph!Submit
  <2>1. Glyph!TypeOK'
    BY <1>2 DEF GlyphInv, Glyph!Submit, Glyph!TypeOK, Glyph!atlas
  <2> QED
    BY <1>2, <2>1, AtlasStays DEF Glyph!Submit, Glyph!atlas
<1>3. CASE Glyph!GlyphBlank
  <2>1. pending' \in Seq(Glyphs)
    BY <1>3, PendingIs DEF GlyphInv, Glyph!GlyphBlank, Glyph!Uncached, Glyph!TypeOK
  <2>2. Glyph!TypeOK'
    BY <1>3, <2>1 DEF GlyphInv, Glyph!GlyphBlank, Glyph!TypeOK, Glyph!atlas
  <2> QED
    BY <1>3, <2>2, AtlasStays DEF Glyph!GlyphBlank, Glyph!atlas
<1>4. CASE UNCHANGED glyphVars
  <2>1. Glyph!TypeOK'
    BY <1>4 DEF glyphVars, GlyphInv, Glyph!TypeOK
  <2> QED
    BY <1>4, <2>1, AtlasStays DEF glyphVars
<1> QED
  BY <1>1, <1>2, <1>3, <1>4, GlyphHitKeeps, GlyphRasterizedKeeps, GlyphTooLargeKeeps,
     LayoutTextKeeps DEF Glyph!Next

LEMMA GlyphStarts == Glyph!Init => GlyphInv
<1> SUFFICES ASSUME Glyph!Init PROVE GlyphInv
  OBVIOUS
<1>1. DOMAIN glyphs = {} /\ DOMAIN text_instances = {}
  BY DEF Glyph!Init
<1>2. color \in Colors
  BY AtlasConstants DEF Glyph!Init
<1>3. Glyph!TypeOK
  BY <1>2, EmptySeq DEF Glyph!Init, Glyph!TypeOK
<1> QED
  BY <1>1, <1>3 DEF GlyphInv, Glyph!GlyphsKeepTheirTexels, Glyph!UploadsAreBehind

-----------------------------------------------------------------------------
(* The target of a frame *)

Targets == [size : {config}, filled : BOOLEAN]

\* The target has the size of the surface, and holds a whole frame when it is said
\* to; so does the texture of the blurs once a frame that has some is encoded.
TargetInv ==
    /\ config \in TargetSizes
    /\ backbuffer \in Targets \cup {None}
    /\ stage # "idle" => backbuffer \in Targets
    /\ gpu_initialized \in BOOLEAN
    /\ gpu_initialized => backbuffer \in Targets /\ backbuffer.filled
    /\ stage \in {"encoded", "presented"} =>
           /\ ops.damaged \in BOOLEAN /\ (ops.damaged => backbuffer.filled)
           /\ Gpu!Blurs # {} => blur_intermediate = config

LEMMA TargetStarts == Gpu!Init => TargetInv
  BY GpuConstants DEF Gpu!Init, TargetInv

LEMMA EncodeKeeps ==
    ASSUME TargetInv, Gpu!Encode PROVE TargetInv'
<1>1. PICK damaged \in BOOLEAN :
          ops'.damaged = damaged /\ (damaged => Gpu!Blurs = {} /\ gpu_initialized)
  <2>1. PICK regions \in BOOLEAN :
            \E a, b, c, d :
                ops' = [passes |-> a, slices |-> b, data |-> c, params |-> d,
                        damaged |-> regions /\ Gpu!Blurs = {} /\ gpu_initialized]
    BY ZenonT(30) DEF Gpu!Encode
  <2>2. PICK damaged \in BOOLEAN : damaged = (regions /\ Gpu!Blurs = {} /\ gpu_initialized)
    OBVIOUS
  <2>3. PICK a, b, c, d :
            ops' = [passes |-> a, slices |-> b, data |-> c, params |-> d, damaged |-> damaged]
    BY <2>1, <2>2
  <2>4. ops'.damaged = damaged
    BY <2>3
  <2> QED
    BY <2>2, <2>4
<1>2. /\ stage = "collect" /\ stage' = "encoded"
      /\ blur_intermediate' = IF Gpu!Blurs = {} THEN blur_intermediate ELSE backbuffer.size
      /\ UNCHANGED <<instances, config, backbuffer, gpu_initialized>>
  BY DEF Gpu!Encode, Gpu!target
<1>3. backbuffer \in Targets /\ backbuffer.size = config
  BY <1>2 DEF TargetInv, Targets
<1>4. Gpu!Blurs' = Gpu!Blurs
  BY <1>2 DEF Gpu!Blurs
<1>5. Targets' = Targets
  BY <1>2 DEF Targets
<1> QED
  BY <1>1, <1>2, <1>3, <1>4, <1>5 DEF TargetInv

LEMMA SubmitKeeps ==
    ASSUME TargetInv, Gpu!Submit PROVE TargetInv'
<1>1. /\ stage = "encoded" /\ stage' = "presented" /\ gpu_initialized' = TRUE
      /\ backbuffer' = [backbuffer EXCEPT !.filled = @ \/ ~ops.damaged]
      /\ UNCHANGED <<instances, config, ops, blur_intermediate>>
  BY DEF Gpu!Submit, Gpu!caches
<1>2. PICK filled \in BOOLEAN : backbuffer = [size |-> config, filled |-> filled]
  BY <1>1 DEF TargetInv, Targets
<1>3. ops.damaged \in BOOLEAN /\ (ops.damaged => filled)
  BY <1>1, <1>2 DEF TargetInv
<1>4. backbuffer' = [size |-> config, filled |-> TRUE]
  BY <1>1, <1>2, <1>3
<1>5. Gpu!Blurs' = Gpu!Blurs /\ (Gpu!Blurs # {} => blur_intermediate = config)
  BY <1>1 DEF Gpu!Blurs, TargetInv
<1>6. backbuffer' \in Targets'
  <2>1. [size |-> config, filled |-> TRUE] \in [size : {config}, filled : BOOLEAN]
    OBVIOUS
  <2> QED
    BY <1>1, <1>4, <2>1 DEF Targets
<1> QED
  BY <1>1, <1>3, <1>4, <1>5, <1>6 DEF TargetInv

LEMMA TargetStep ==
    ASSUME TargetInv, Gpu!Next PROVE TargetInv'
<1>1. CASE Gpu!Leave
  BY <1>1 DEF Gpu!Leave, Gpu!Dropped, Gpu!target, TargetInv, Targets
<1>2. ASSUME NEW f, Gpu!ChangeFile(f) PROVE TargetInv'
  BY <1>2 DEF Gpu!ChangeFile, Gpu!caches, Gpu!target, TargetInv, Targets
<1>3. ASSUME NEW z \in TargetSizes, Gpu!Resize(z) PROVE TargetInv'
  BY <1>3 DEF Gpu!Resize, Gpu!Dropped, TargetInv, Targets
<1>4. CASE Gpu!Acquire
  <2>1. /\ backbuffer' = IF backbuffer = None THEN [size |-> config, filled |-> FALSE] ELSE backbuffer
        /\ stage' = "collect" /\ UNCHANGED <<config, gpu_initialized>>
    BY <1>4 DEF Gpu!Acquire
  <2>2. Targets' = Targets /\ None \notin Targets
    BY <2>1, NoneIsNoTarget DEF Targets, TargetInv
  <2>3. backbuffer' \in Targets
    BY <2>1 DEF TargetInv, Targets
  <2>4. gpu_initialized => backbuffer' = backbuffer
    BY <2>1, <2>2 DEF TargetInv
  <2> QED
    BY <2>1, <2>2, <2>3, <2>4 DEF TargetInv
<1>5. CASE Gpu!CollectPlain \/ Gpu!CollectImage
  <2>1. stage = "collect" /\ UNCHANGED <<stage, config, backbuffer, gpu_initialized>>
    BY <1>5 DEF Gpu!CollectPlain, Gpu!CollectImage, Gpu!Collect, Gpu!target
  <2> QED
    BY <2>1 DEF TargetInv, Targets
<1> QED
  BY <1>1, <1>2, <1>3, <1>4, <1>5, EncodeKeeps, SubmitKeeps
     DEF Gpu!Next, Gpu!Present, Gpu!CollectFails, Gpu!PresentFails

-----------------------------------------------------------------------------
(* Encoding a frame: the batches *)

TextureKeys == Files \X (1 .. MaxMtime)
Instance ==
    [kind : {"shape", "tint", "image", "blur"}, key : TextureKeys \cup {None},
     radius : Nat, stops : Nat, segments : Nat, clips : Nat]

Bunch == [from : Nat, to : Nat, key : TextureKeys \cup {None}, tint : BOOLEAN]

\* The instances a batch holds are alike, none of them is a blur, and there are
\* only the first m.
OfAKind(b, m) ==
    /\ 1 <= b.from /\ b.from < b.to /\ b.to <= m + 1
    /\ \A i \in b.from .. b.to - 1 :
           /\ i \notin Gpu!Blurs /\ b.key = instances[i].key
           /\ b.tint <=> instances[i].kind = "tint"

BatchesTo(batches, m) ==
    /\ batches \in Seq(Bunch)
    /\ \A k \in DOMAIN batches : OfAKind(batches[k], m)
    /\ \A i \in 1 .. m : i \notin Gpu!Blurs =>
           \E k \in DOMAIN batches : batches[k].from <= i /\ i < batches[k].to
    /\ \A k, l \in DOMAIN batches : k < l => batches[k].to <= batches[l].from

LEMMA InstanceIs ==
    ASSUME NEW n \in Nat, instances \in [1 .. n -> Instance], NEW i \in 1 .. n
    PROVE  /\ instances[i] \in Instance
           /\ instances[i].kind \in {"shape", "tint", "image", "blur"}
           /\ instances[i].key \in TextureKeys \cup {None}
           /\ i \in Gpu!Blurs <=> instances[i].kind = "blur"
<1>1. instances[i] \in Instance /\ DOMAIN instances = 1 .. n
  OBVIOUS
<1> QED
  BY <1>1 DEF Instance, Gpu!Blurs

LEMMA BatchStep ==
    ASSUME NEW n \in Nat, instances \in [1 .. n -> Instance], NEW m \in 0 .. n - 1,
           NEW batches, BatchesTo(batches, m)
    PROVE  BatchesTo(Gpu!Batch(batches, m + 1), m + 1)
<1>1. PICK i : i = m + 1 /\ i \in 1 .. n /\ i \in Nat /\ i + 1 \in Nat /\ m \in Nat
  OBVIOUS
<1>2. PICK key \in TextureKeys \cup {None} : key = instances[i].key
  BY <1>1, InstanceIs
<1>3. PICK tint \in BOOLEAN : tint <=> instances[i].kind = "tint"
  OBVIOUS
<1>4. PICK len \in Nat : len = Len(batches) /\ DOMAIN batches = 1 .. len
  BY LenProperties DEF BatchesTo
<1>5. batches \in Seq(Bunch) /\ \A k \in 1 .. len : batches[k] \in Bunch /\ OfAKind(batches[k], m)
  BY <1>4, ElementOfSeq DEF BatchesTo
<1>6. ASSUME NEW b \in Bunch, OfAKind(b, m) PROVE OfAKind(b, i)
  BY <1>1, <1>6 DEF OfAKind, Bunch
<1>7. CASE i \in Gpu!Blurs
  <2>1. Gpu!Batch(batches, i) = batches
    BY <1>7 DEF Gpu!Batch
  <2>2. \A k \in 1 .. len : OfAKind(batches[k], i)
    BY <1>5, <1>6
  <2>3. \A j \in 1 .. i : j \notin Gpu!Blurs => j \in 1 .. m
    BY <1>1, <1>7
  <2> QED
    BY <1>1, <1>4, <2>1, <2>2, <2>3 DEF BatchesTo
<1>8. CASE i \notin Gpu!Blurs /\ len > 0 /\ batches[len].to = i /\ batches[len].key = key
           /\ batches[len].tint = tint
  <2>1. PICK b \in Bunch : b = batches[len] /\ OfAKind(b, m) /\ b.to = i /\ b.key = key /\ b.tint = tint
    BY <1>5, <1>8
  <2>2. PICK new : new = [b EXCEPT !.to = i + 1]
    OBVIOUS
  <2>3. /\ new \in Bunch /\ new.from = b.from /\ new.to = i + 1
        /\ new.key = key /\ new.tint = tint
    BY <1>1, <2>1, <2>2 DEF Bunch
  <2>4. OfAKind(new, i)
    <3>1. 1 <= new.from /\ new.from < new.to /\ new.to <= i + 1
      BY <1>1, <2>1, <2>3 DEF OfAKind, Bunch
    <3>2. ASSUME NEW j \in new.from .. new.to - 1
          PROVE  j \notin Gpu!Blurs /\ new.key = instances[j].key /\ (new.tint <=> instances[j].kind = "tint")
      <4>1. CASE j = i
        BY <1>2, <1>3, <1>8, <2>3, <4>1
      <4>2. CASE j # i
        <5>1. j \in b.from .. b.to - 1
          BY <1>1, <2>1, <2>3, <4>2 DEF Bunch
        <5> QED
          BY <2>1, <2>3, <5>1 DEF OfAKind
      <4> QED
        BY <4>1, <4>2
    <3> QED
      BY <3>1, <3>2 DEF OfAKind
  <2>5. PICK after : after = [batches EXCEPT ![len] = new]
    OBVIOUS
  <2>6. Gpu!Batch(batches, i) = after
    BY <1>2, <1>3, <1>4, <1>8, <2>1, <2>2, <2>5 DEF Gpu!Batch
  <2>7. /\ after \in Seq(Bunch) /\ DOMAIN after = 1 .. len
        /\ after[len] = new /\ \A k \in 1 .. len : k # len => after[k] = batches[k]
    <3>1. batches \in [1 .. len -> Bunch]
      BY <1>4, <1>5
    <3>2. after \in [1 .. len -> Bunch]
      BY <2>3, <2>5, <3>1
    <3>3. after \in Seq(Bunch)
      BY <3>2, SeqDef
    <3> QED
      BY <1>8, <2>5, <3>1, <3>2, <3>3
  <2>8. \A k \in 1 .. len : OfAKind(after[k], i)
    BY <1>5, <1>6, <2>4, <2>7
  <2>9. ASSUME NEW j \in 1 .. i, j \notin Gpu!Blurs
        PROVE  \E k \in 1 .. len : after[k].from <= j /\ j < after[k].to
    <3>1. CASE j = i
      BY <1>1, <1>8, <2>1, <2>3, <2>7, <3>1 DEF OfAKind, Bunch
    <3>2. CASE j # i
      <4>1. PICK k \in 1 .. len : batches[k].from <= j /\ j < batches[k].to
        BY <1>1, <1>4, <2>9, <3>2 DEF BatchesTo
      <4>2. CASE k = len
        BY <1>1, <1>8, <2>1, <2>3, <2>7, <4>1, <4>2 DEF Bunch
      <4>3. CASE k # len
        BY <2>7, <4>1, <4>3
      <4> QED
        BY <4>2, <4>3
    <3> QED
      BY <3>1, <3>2
  <2>10. ASSUME NEW k \in 1 .. len, NEW l \in 1 .. len, k < l
         PROVE  after[k].to <= after[l].from
    <3>1. batches[k].to <= batches[l].from /\ k # len
      BY <1>4, <2>10 DEF BatchesTo
    <3>2. after[k] = batches[k] /\ after[l].from = batches[l].from
      BY <2>1, <2>3, <2>7, <3>1
    <3> QED
      BY <3>1, <3>2
  <2> QED
    BY <1>1, <2>6, <2>7, <2>8, <2>9, <2>10 DEF BatchesTo
<1>9. CASE i \notin Gpu!Blurs
           /\ ~(len > 0 /\ batches[len].to = i /\ batches[len].key = key /\ batches[len].tint = tint)
  <2>1. PICK new : new = [from |-> i, to |-> i + 1, key |-> key, tint |-> tint]
    OBVIOUS
  <2>2. new \in Bunch /\ new.from = i /\ new.to = i + 1 /\ new.key = key /\ new.tint = tint
    BY <1>1, <2>1 DEF Bunch
  <2>3. OfAKind(new, i)
    <3>1. \A j \in new.from .. new.to - 1 : j = i
      BY <1>1, <2>2
    <3> QED
      BY <1>1, <1>2, <1>3, <1>9, <2>2, <3>1 DEF OfAKind
  <2>4. PICK after : after = Append(batches, new)
    OBVIOUS
  <2>5. Gpu!Batch(batches, i) = after
    BY <1>2, <1>3, <1>4, <1>9, <2>1, <2>4 DEF Gpu!Batch
  <2>6. /\ after \in Seq(Bunch) /\ DOMAIN after = 1 .. len + 1
        /\ after[len + 1] = new /\ \A k \in 1 .. len : after[k] = batches[k]
    BY <1>4, <1>5, <2>2, <2>4, AppendProperties
  <2>7. \A k \in 1 .. len + 1 : k = len + 1 \/ k \in 1 .. len
    OBVIOUS
  <2>8. \A k \in 1 .. len + 1 : OfAKind(after[k], i)
    BY <1>5, <1>6, <2>3, <2>6, <2>7
  <2>9. ASSUME NEW j \in 1 .. i, j \notin Gpu!Blurs
        PROVE  \E k \in 1 .. len + 1 : after[k].from <= j /\ j < after[k].to
    <3>1. CASE j = i
      BY <1>1, <2>2, <2>6, <3>1
    <3>2. CASE j # i
      <4>1. PICK k \in 1 .. len : batches[k].from <= j /\ j < batches[k].to
        BY <1>1, <1>4, <2>9, <3>2 DEF BatchesTo
      <4> QED
        BY <2>6, <4>1
    <3> QED
      BY <3>1, <3>2
  <2>10. ASSUME NEW k \in 1 .. len + 1, NEW l \in 1 .. len + 1, k < l
         PROVE  after[k].to <= after[l].from
    <3>1. k \in 1 .. len /\ after[k] = batches[k]
      BY <2>6, <2>10
    <3>2. CASE l = len + 1
      BY <1>1, <1>5, <2>2, <2>6, <3>1, <3>2 DEF OfAKind, Bunch
    <3>3. CASE l # len + 1
      BY <1>4, <2>6, <2>7, <2>10, <3>1, <3>3 DEF BatchesTo
    <3> QED
      BY <3>2, <3>3
  <2> QED
    BY <1>1, <2>5, <2>6, <2>8, <2>9, <2>10 DEF BatchesTo
<1> QED
  BY <1>1, <1>7, <1>8, <1>9

LEMMA BatchTyped ==
    ASSUME NEW n \in Nat, instances \in [1 .. n -> Instance], NEW i \in 1 .. n,
           NEW batches \in Seq(Bunch)
    PROVE  Gpu!Batch(batches, i) \in Seq(Bunch)
<1>1. PICK key \in TextureKeys \cup {None} : key = instances[i].key
  BY InstanceIs
<1>2. PICK tint \in BOOLEAN : tint <=> instances[i].kind = "tint"
  OBVIOUS
<1>3. PICK len \in Nat : len = Len(batches) /\ DOMAIN batches = 1 .. len
  BY LenProperties
<1>4. CASE len > 0
  <2>1. batches \in [1 .. len -> Bunch] /\ batches[len] \in Bunch
    BY <1>3, <1>4, ElementOfSeq
  <2>2. PICK new : new = [batches[len] EXCEPT !.to = i + 1]
    OBVIOUS
  <2>3. new \in Bunch
    BY <2>1, <2>2 DEF Bunch
  <2>4. [batches EXCEPT ![len] = new] \in [1 .. len -> Bunch]
    BY <2>1, <2>3
  <2>5. [batches EXCEPT ![len] = new] \in Seq(Bunch)
    BY <2>4, SeqDef
  <2>6. [batches EXCEPT ![len].to = i + 1] \in Seq(Bunch)
    BY <2>2, <2>5
  <2>7. [from |-> i, to |-> i + 1, key |-> key, tint |-> tint] \in Bunch
    BY DEF Bunch
  <2>8. Append(batches, [from |-> i, to |-> i + 1, key |-> key, tint |-> tint]) \in Seq(Bunch)
    BY <2>7, AppendProperties
  <2> QED
    BY <1>1, <1>2, <1>3, <2>6, <2>8 DEF Gpu!Batch
<1>5. CASE ~(len > 0)
  <2>1. [from |-> i, to |-> i + 1, key |-> key, tint |-> tint] \in Bunch
    BY DEF Bunch
  <2>2. Append(batches, [from |-> i, to |-> i + 1, key |-> key, tint |-> tint]) \in Seq(Bunch)
    BY <2>1, AppendProperties
  <2> QED
    BY <1>1, <1>2, <1>3, <1>5, <2>2 DEF Gpu!Batch
<1> QED
  BY <1>4, <1>5

LEMMA BatchesExist ==
    ASSUME NEW n \in Nat, instances \in [1 .. n -> Instance]
    PROVE  \E batches :
               /\ DOMAIN batches = 0 .. n /\ batches[0] = <<>>
               /\ \A i \in 1 .. n : batches[i] = Gpu!Batch(batches[i - 1], i)
               /\ Gpu!Batches = batches[n]
<1> DEFINE Build(f) ==
               f = [i \in 0 .. n |-> IF i = 0 THEN <<>> ELSE Gpu!Batch(f[i - 1], i)]
<1>1. Len(instances) = n
  BY SeqDef, LenProperties
<1>2. PICK none \in Seq(Bunch) : none = <<>>
  BY EmptySeq
<1>3. \E f : Build(f)
  <2>1. PICK step : step = [p \in (1 .. n) \X Seq(Bunch) |-> Gpu!Batch(p[2], p[1])]
    OBVIOUS
  <2>2. step \in [(1 .. n) \X Seq(Bunch) -> Seq(Bunch)]
    BY <2>1, BatchTyped
  <2>3. PICK f : StepsFrom(f, Seq(Bunch), none, n, step)
    BY <2>2, Steps
  <2>4. f \in [0 .. n -> Seq(Bunch)] /\ f[0] = none /\ \A k \in 1 .. n : f[k] = step[<<k, f[k - 1]>>]
    BY <2>3 DEF StepsFrom
  <2>5. ASSUME NEW k \in 1 .. n PROVE f[k] = Gpu!Batch(f[k - 1], k)
    <3>1. PICK b \in Seq(Bunch) : b = f[k - 1]
      BY <2>4
    <3>2. f[k] = step[<<k, b>>] /\ <<k, b>> \in (1 .. n) \X Seq(Bunch)
      BY <2>4, <3>1
    <3> QED
      BY <2>1, <3>1, <3>2
  <2>6. \A k \in 0 .. n : k # 0 => k \in 1 .. n
    OBVIOUS
  <2>7. Build(f)
    BY <1>2, <2>4, <2>5, <2>6
  <2> QED
    BY <2>7
<1>4. PICK f : f = CHOOSE g : Build(g)
  OBVIOUS
<1>5. Build(f)
  <2> HIDE DEF Build
  <2> QED
    BY <1>3, <1>4
<1>6. Gpu!Batches = f[n]
  BY <1>1, <1>4 DEF Gpu!Batches
<1>7. DOMAIN f = 0 .. n /\ f[0] = <<>> /\ \A i \in 1 .. n : f[i] = Gpu!Batch(f[i - 1], i)
  <2>1. \A i \in 1 .. n : i \in 0 .. n /\ i # 0
    OBVIOUS
  <2> QED
    BY <1>5, <2>1
<1> QED
  BY <1>6, <1>7

LEMMA BatchesAre ==
    ASSUME NEW n \in Nat, instances \in [1 .. n -> Instance]
    PROVE  BatchesTo(Gpu!Batches, n)
<1>1. PICK batches :
          /\ DOMAIN batches = 0 .. n /\ batches[0] = <<>>
          /\ \A i \in 1 .. n : batches[i] = Gpu!Batch(batches[i - 1], i)
          /\ Gpu!Batches = batches[n]
  BY BatchesExist
<1> DEFINE P == {k \in 0 .. n : BatchesTo(batches[k], k)}
<1>2. 0 \in P
  BY <1>1, EmptySeq DEF BatchesTo
<1>3. ASSUME NEW k \in 0 .. n - 1, k \in P PROVE k + 1 \in P
  <2>1. k + 1 \in 1 .. n /\ (k + 1) - 1 = k /\ k + 1 \in 0 .. n
    OBVIOUS
  <2>2. BatchesTo(batches[k], k) /\ batches[k + 1] = Gpu!Batch(batches[k], k + 1)
    BY <1>1, <1>3, <2>1
  <2>3. BatchesTo(batches[k + 1], k + 1)
    BY <2>2, BatchStep
  <2> QED
    BY <2>1, <2>3
<1>4. n \in P
  <2> HIDE DEF P
  <2>1. \A k \in 0 .. n : k \in P
    BY <1>2, <1>3, CountingUp
  <2> QED
    BY <2>1
<1> QED
  BY <1>1, <1>4

(* Encoding a frame: the passes *)

MeantBy(pass, params, k, i) ==
    IF i \in Gpu!Blurs
    THEN pass.pass = "blur" /\ pass.params \in DOMAIN params /\ params[pass.params] = instances[i].radius
    ELSE /\ pass.pass = "scene"
         /\ pass.draws[k].tint <=> instances[i].kind = "tint"
         /\ pass.draws[k].texture = Gpu!Texture(instances[i].key)

\* A pass that paints all that is visible of start .. end - 1, and nothing else.
PassIs(pass, params, start, end) ==
    /\ \A i \in Gpu!Visible : start <= i /\ i < end => \E k \in Gpu!Draws(pass) : i \in Gpu!Covers(pass, k)
    /\ \A k \in Gpu!Draws(pass) : \A i \in Gpu!Covers(pass, k) :
           i \in Gpu!Visible /\ start <= i /\ i < end /\ MeantBy(pass, params, k, i)
    /\ \A k, l \in Gpu!Draws(pass) : \A i \in Gpu!Covers(pass, k), j \in Gpu!Covers(pass, l) :
           i <= j => k <= l

LEMMA SegmentIs ==
    ASSUME NEW n \in Nat, instances \in [1 .. n -> Instance],
           NEW start \in 1 .. n + 1, NEW end \in 1 .. n + 1, NEW clear \in BOOLEAN, NEW params,
           \A i \in 1 .. n : start <= i /\ i < end => i \notin Gpu!Blurs
    PROVE  /\ PassIs(Gpu!Segment(start, end, clear), params, start, end)
           /\ Gpu!Segment(start, end, clear).pass = "scene"
           /\ Gpu!Segment(start, end, clear).clear <=> clear
<1>1. PICK batches : batches = Gpu!Batches /\ BatchesTo(batches, n)
  BY BatchesAre
<1>2. batches \in Seq(Bunch) /\ DOMAIN instances = 1 .. n
  BY <1>1 DEF BatchesTo
<1>3. ASSUME NEW k \in DOMAIN batches PROVE batches[k] \in Bunch /\ OfAKind(batches[k], n) /\ k \in Nat
  BY <1>1, <1>2, ElementOfSeq, LenProperties DEF BatchesTo
<1>4. PICK inside : inside = {k \in DOMAIN batches : batches[k].to > start /\ batches[k].from < end}
  OBVIOUS
<1>5. PICK seg : seg = Gpu!Segment(start, end, clear)
  OBVIOUS
<1>6. PICK draws :
          draws = [k \in inside |->
             [from |-> IF batches[k].from > start THEN batches[k].from ELSE start,
              to |-> IF batches[k].to < end THEN batches[k].to ELSE end,
              texture |-> Gpu!Texture(batches[k].key), tint |-> batches[k].tint]]
  OBVIOUS
<1>7. seg = [pass |-> "scene", clear |-> clear, draws |-> draws]
  BY <1>1, <1>4, <1>5, <1>6 DEF Gpu!Segment
<1>8. seg.pass = "scene" /\ seg.clear = clear /\ seg.draws = draws
  BY <1>7
<1>9. Gpu!Draws(seg) = inside
  BY <1>6, <1>8 DEF Gpu!Draws
<1>10. ASSUME NEW k \in inside, NEW i
       PROVE  /\ draws[k].tint = batches[k].tint /\ draws[k].texture = Gpu!Texture(batches[k].key)
              /\ i \in Gpu!Covers(seg, k) <=>
                     i \in Int /\ batches[k].from <= i /\ i < batches[k].to /\ start <= i /\ i < end
  <2>1. PICK b \in Bunch : b = batches[k]
    BY <1>3, <1>4
  <2>2. PICK from \in Int : from = IF b.from > start THEN b.from ELSE start
    BY DEF Bunch
  <2>3. PICK to \in Int : to = IF b.to < end THEN b.to ELSE end
    BY DEF Bunch
  <2>4. draws[k] = [from |-> from, to |-> to, texture |-> Gpu!Texture(b.key), tint |-> b.tint]
    BY <1>6, <2>1, <2>2, <2>3
  <2>5. draws[k].from = from /\ draws[k].to = to /\ draws[k].texture = Gpu!Texture(b.key)
        /\ draws[k].tint = b.tint
    BY <2>4
  <2>6. Gpu!Covers(seg, k) = from .. to - 1
    BY <1>8, <2>5 DEF Gpu!Covers
  <2>7. b.from \in Int /\ b.to \in Int
    BY DEF Bunch
  <2>8. i \in from .. to - 1 <=> i \in Int /\ b.from <= i /\ i < b.to /\ start <= i /\ i < end
    BY <2>2, <2>3, <2>7
  <2> QED
    BY <2>1, <2>5, <2>6, <2>8
<1>11. ASSUME NEW i \in Gpu!Visible, start <= i, i < end
       PROVE  \E k \in inside : i \in Gpu!Covers(seg, k)
  <2>1. i \in 1 .. n /\ i \notin Gpu!Blurs
    BY <1>2, <1>11 DEF Gpu!Visible
  <2>2. PICK k \in DOMAIN batches : batches[k].from <= i /\ i < batches[k].to
    BY <1>1, <2>1 DEF BatchesTo
  <2>3. k \in inside
    BY <1>3, <1>4, <1>11, <2>1, <2>2 DEF Bunch
  <2> QED
    BY <1>10, <1>11, <2>1, <2>2, <2>3
<1>12. ASSUME NEW k \in inside, NEW i \in Gpu!Covers(seg, k)
       PROVE  i \in Gpu!Visible /\ start <= i /\ i < end /\ MeantBy(seg, params, k, i)
  <2>1. i \in Int /\ batches[k].from <= i /\ i < batches[k].to /\ start <= i /\ i < end
    BY <1>10
  <2>2. PICK b \in Bunch : b = batches[k] /\ OfAKind(b, n)
    BY <1>3, <1>4
  <2>3. b.from \in Int /\ b.to \in Int /\ i \in b.from .. b.to - 1
    BY <2>1, <2>2 DEF Bunch
  <2>4. i \notin Gpu!Blurs /\ b.key = instances[i].key /\ (b.tint <=> instances[i].kind = "tint")
    BY <2>2, <2>3 DEF OfAKind
  <2>5. i \in 1 .. n
    BY <2>2, <2>3 DEF OfAKind
  <2>6. i \in Gpu!Visible
    BY <1>2, <2>4, <2>5 DEF Gpu!Visible
  <2>7. MeantBy(seg, params, k, i)
    BY <1>8, <1>10, <2>2, <2>4 DEF MeantBy
  <2> QED
    BY <2>1, <2>6, <2>7
<1>13. ASSUME NEW k \in inside, NEW l \in inside,
              NEW i \in Gpu!Covers(seg, k), NEW j \in Gpu!Covers(seg, l), i <= j
       PROVE  k <= l
  <2>1. i \in Int /\ batches[k].from <= i /\ j \in Int /\ j < batches[l].to
    BY <1>10
  <2>2. k \in DOMAIN batches /\ l \in DOMAIN batches /\ k \in Nat /\ l \in Nat
    BY <1>3, <1>4
  <2>3. l < k => batches[l].to <= batches[k].from
    BY <1>1, <2>2 DEF BatchesTo
  <2>4. batches[l].to \in Int /\ batches[k].from \in Int
    BY <1>3, <2>2 DEF Bunch
  <2> QED
    BY <1>13, <2>1, <2>2, <2>3, <2>4
<1>14. PassIs(seg, params, start, end)
  BY <1>9, <1>11, <1>12, <1>13 DEF PassIs
<1> QED
  BY <1>5, <1>8, <1>14

LEMMA BlurIs ==
    ASSUME NEW n \in Nat, instances \in [1 .. n -> Instance], NEW i \in 1 .. n,
           i \in Gpu!Blurs, instances[i].radius > 0,
           NEW params, NEW m \in DOMAIN params, params[m] = instances[i].radius,
           NEW pass, pass = [pass |-> "blur", bounds |-> i, params |-> m]
    PROVE  PassIs(pass, params, i, i + 1)
<1>1. pass.pass = "blur" /\ pass.bounds = i /\ pass.params = m
  OBVIOUS
<1>2. Gpu!Draws(pass) = {1} /\ \A k : Gpu!Covers(pass, k) = {i}
  BY <1>1 DEF Gpu!Draws, Gpu!Covers
<1>3. i \in Gpu!Visible /\ i \in Nat /\ i < i + 1
  BY DEF Gpu!Visible
<1>4. \A k : MeantBy(pass, params, k, i)
  BY <1>1 DEF MeantBy
<1>5. \A j \in Gpu!Visible : i <= j /\ j < i + 1 => j = i
  BY DEF Gpu!Visible
<1> QED
  BY <1>2, <1>3, <1>4, <1>5 DEF PassIs

\* The passes so far paint all that is visible before start, in order.
PaintedTo(passes, params, start, damaged) ==
    /\ \A i \in Gpu!Visible : i < start =>
           \E p \in DOMAIN passes : \E k \in Gpu!Draws(passes[p]) : i \in Gpu!Covers(passes[p], k)
    /\ \A p \in DOMAIN passes : \A k \in Gpu!Draws(passes[p]) : \A i \in Gpu!Covers(passes[p], k) :
           i \in Gpu!Visible /\ i < start /\ MeantBy(passes[p], params, k, i)
    /\ \A p, q \in DOMAIN passes : \A k \in Gpu!Draws(passes[p]), l \in Gpu!Draws(passes[q]) :
           \A i \in Gpu!Covers(passes[p], k), j \in Gpu!Covers(passes[q], l) :
               i <= j => p < q \/ (p = q /\ k <= l)
    /\ \A p \in DOMAIN passes : passes[p].pass = "scene" => (passes[p].clear <=> p = 1 /\ ~damaged)

MoreParams(params, more) == \A m \in DOMAIN params : m \in DOMAIN more /\ more[m] = params[m]

LEMMA StillMeant ==
    ASSUME NEW pass, NEW params, NEW more, NEW k, NEW i,
           MoreParams(params, more), MeantBy(pass, params, k, i)
    PROVE  MeantBy(pass, more, k, i)
  BY DEF MoreParams, MeantBy

LEMMA PassAdded ==
    ASSUME NEW n \in Nat, instances \in [1 .. n -> Instance],
           NEW S, NEW passes \in Seq(S), NEW pass \in S, NEW params, NEW more, MoreParams(params, more),
           NEW start \in Int, NEW end \in Int, start <= end, NEW damaged,
           PaintedTo(passes, params, start, damaged), PassIs(pass, more, start, end),
           pass.pass = "scene" => (pass.clear <=> passes = <<>> /\ ~damaged)
    PROVE  PaintedTo(Append(passes, pass), more, end, damaged)
<1>1. PICK len \in Nat : len = Len(passes) /\ DOMAIN passes = 1 .. len
  BY LenProperties
<1>2. PICK all : all = Append(passes, pass)
  OBVIOUS
<1>3. /\ DOMAIN all = 1 .. len + 1 /\ all[len + 1] = pass /\ \A p \in 1 .. len : all[p] = passes[p]
      /\ len + 1 \in 1 .. len + 1 /\ \A p \in 1 .. len : p \in 1 .. len + 1 /\ p < len + 1
      /\ \A p \in 1 .. len + 1 : p = len + 1 \/ p \in 1 .. len
  BY <1>1, <1>2, AppendProperties
<1>4. Gpu!Visible \subseteq 1 .. n
  BY DEF Gpu!Visible
<1>5. ASSUME NEW i \in Gpu!Visible, i < end
      PROVE  \E p \in 1 .. len + 1 : \E k \in Gpu!Draws(all[p]) : i \in Gpu!Covers(all[p], k)
  <2>1. CASE i < start
    BY <1>1, <1>3, <2>1 DEF PaintedTo
  <2>2. CASE ~(i < start)
    <3>1. start <= i
      BY <1>4, <2>2
    <3> QED
      BY <1>3, <1>5, <3>1 DEF PassIs
  <2> QED
    BY <2>1, <2>2
<1>6. ASSUME NEW p \in 1 .. len + 1, NEW k \in Gpu!Draws(all[p]), NEW i \in Gpu!Covers(all[p], k)
      PROVE  i \in Gpu!Visible /\ i < end /\ MeantBy(all[p], more, k, i)
  <2>1. CASE p = len + 1
    BY <1>3, <1>6, <2>1 DEF PassIs
  <2>2. CASE p \in 1 .. len
    <3>1. i \in Gpu!Visible /\ i < start /\ MeantBy(passes[p], params, k, i) /\ all[p] = passes[p]
      BY <1>1, <1>3, <1>6, <2>2 DEF PaintedTo
    <3>2. MeantBy(passes[p], more, k, i)
      BY <3>1, StillMeant
    <3>3. i < end
      BY <1>4, <3>1
    <3> QED
      BY <3>1, <3>2, <3>3
  <2> QED
    BY <1>3, <2>1, <2>2
<1>7. ASSUME NEW p \in 1 .. len + 1, NEW q \in 1 .. len + 1,
             NEW k \in Gpu!Draws(all[p]), NEW l \in Gpu!Draws(all[q]),
             NEW i \in Gpu!Covers(all[p], k), NEW j \in Gpu!Covers(all[q], l), i <= j
      PROVE  p < q \/ (p = q /\ k <= l)
  <2>1. CASE p \in 1 .. len /\ q \in 1 .. len
    BY <1>1, <1>3, <1>7, <2>1 DEF PaintedTo
  <2>2. CASE p \in 1 .. len /\ q = len + 1
    BY <1>3, <2>2
  <2>3. CASE p = len + 1 /\ q \in 1 .. len
    <3>1. start <= i /\ i \in Gpu!Visible
      BY <1>3, <1>7, <2>3 DEF PassIs
    <3>2. j < start /\ j \in Gpu!Visible
      BY <1>1, <1>3, <1>7, <2>3 DEF PaintedTo
    <3> QED
      BY <1>4, <1>7, <3>1, <3>2
  <2>4. CASE p = len + 1 /\ q = len + 1
    <3>1. k \in Gpu!Draws(pass) /\ l \in Gpu!Draws(pass)
          /\ i \in Gpu!Covers(pass, k) /\ j \in Gpu!Covers(pass, l)
      BY <1>3, <1>7, <2>4
    <3>2. k <= l
      BY <1>7, <3>1 DEF PassIs
    <3> QED
      BY <2>4, <3>2
  <2> QED
    BY <1>3, <2>1, <2>2, <2>3, <2>4
<1>8. ASSUME NEW p \in 1 .. len + 1, all[p].pass = "scene"
      PROVE  all[p].clear <=> p = 1 /\ ~damaged
  <2>1. CASE p \in 1 .. len
    BY <1>1, <1>3, <1>8, <2>1 DEF PaintedTo
  <2>2. CASE p = len + 1
    <3>1. passes = <<>> <=> len = 0
      BY <1>1, EmptySeq
    <3>2. p = 1 <=> len = 0
      BY <1>1, <2>2
    <3> QED
      BY <1>3, <1>8, <2>2, <3>1, <3>2
  <2> QED
    BY <1>3, <2>1, <2>2
<1> QED
  BY <1>2, <1>3, <1>5, <1>6, <1>7, <1>8 DEF PaintedTo

ScenePasses(n) ==
    {Gpu!Segment(p[1], p[2], p[3]) : p \in (1 .. n + 1) \X (1 .. n + 1) \X BOOLEAN}
BlurPasses == [pass : {"blur"}, bounds : Nat, params : Nat]
PassesOf(n) == ScenePasses(n) \cup BlurPasses
Splits(n) == [passes : Seq(PassesOf(n)), params : Seq(Nat), start : 1 .. n + 1]

Split(acc, i, damaged) == IF i \in Gpu!Blurs THEN Gpu!AfterBlur(acc, i, damaged) ELSE acc

\* What the passes hold before instance m + 1 is looked at.
SplitTo(acc, n, m, damaged) ==
    /\ acc \in Splits(n)
    /\ acc.start <= m + 1
    /\ \A i \in 1 .. n : acc.start <= i /\ i <= m => i \notin Gpu!Blurs
    /\ PaintedTo(acc.passes, acc.params, acc.start, damaged)

LEMMA SegmentTyped ==
    ASSUME NEW n \in Nat, NEW start \in 1 .. n + 1, NEW end \in 1 .. n + 1, NEW clear \in BOOLEAN
    PROVE  Gpu!Segment(start, end, clear) \in PassesOf(n)
<1>1. PICK p \in (1 .. n + 1) \X (1 .. n + 1) \X BOOLEAN : p = <<start, end, clear>>
  OBVIOUS
<1>2. p[1] = start /\ p[2] = end /\ p[3] = clear
  BY <1>1
<1>3. Gpu!Segment(p[1], p[2], p[3]) \in ScenePasses(n)
  BY DEF ScenePasses
<1> QED
  BY <1>2, <1>3 DEF PassesOf

\* What a blur adds: the segment before it, and a pass of its own if it has a radius.
BlurAdds(acc, i, damaged, seg, blur, more, m) ==
    /\ m \in DOMAIN more
    /\ seg = Gpu!Segment(acc.start, i, acc.passes = <<>> /\ ~damaged)
    /\ blur = [pass |-> "blur", bounds |-> i, params |-> m]
    /\ MoreParams(acc.params, more) /\ more[m] = instances[i].radius
    /\ Gpu!AfterBlur(acc, i, damaged) =
           [passes |-> IF instances[i].radius > 0 THEN Append(Append(acc.passes, seg), blur)
                       ELSE Append(acc.passes, seg),
            params |-> more, start |-> i + 1]

LEMMA AfterBlurIs ==
    ASSUME NEW n \in Nat, instances \in [1 .. n -> Instance], NEW i \in 1 .. n,
           NEW acc \in Splits(n), NEW damaged \in BOOLEAN
    PROVE  \E seg \in PassesOf(n), blur \in PassesOf(n), more \in Seq(Nat), m \in Nat :
               BlurAdds(acc, i, damaged, seg, blur, more, m)
<1>1. PICK passes \in Seq(PassesOf(n)), params \in Seq(Nat), start \in 1 .. n + 1 :
          acc = [passes |-> passes, params |-> params, start |-> start]
  BY DEF Splits
<1>2. acc.passes = passes /\ acc.params = params /\ acc.start = start
  BY <1>1
<1>3. PICK clear \in BOOLEAN : clear = (passes = <<>> /\ ~damaged)
  OBVIOUS
<1>4. PICK seg \in PassesOf(n) : seg = Gpu!Segment(start, i, clear)
  <2>1. Gpu!Segment(start, i, clear) \in PassesOf(n)
    BY SegmentTyped
  <2> QED
    BY <2>1
<1>5. PICK radius \in Nat : radius = instances[i].radius
  BY InstanceIs DEF Instance
<1>6. PICK more \in Seq(Nat) : more = Append(params, radius)
  BY AppendProperties
<1>7. PICK m \in Nat : m = Len(params) + 1
  BY LenProperties
<1>8. m \in DOMAIN more /\ more[m] = radius /\ MoreParams(params, more)
  BY <1>6, <1>7, AppendProperties, LenProperties DEF MoreParams
<1>9. PICK blur \in PassesOf(n) : blur = [pass |-> "blur", bounds |-> i, params |-> m]
  <2>1. i \in Nat
    OBVIOUS
  <2>2. [pass |-> "blur", bounds |-> i, params |-> m] \in BlurPasses
    BY <2>1 DEF BlurPasses
  <2> QED
    BY <2>2 DEF PassesOf
<1>10. PICK some \in Seq(PassesOf(n)) : some = Append(passes, seg)
  BY AppendProperties
<1>11. some \o Gpu!BlurPass(i, m) = IF radius > 0 THEN Append(some, blur) ELSE some
  <2>1. CASE radius > 0
    <3>1. Gpu!BlurPass(i, m) = <<blur>>
      BY <1>5, <1>9, <2>1 DEF Gpu!BlurPass
    <3> QED
      BY <2>1, <3>1, AppendIsConcat
  <2>2. CASE ~(radius > 0)
    <3>1. Gpu!BlurPass(i, m) = <<>>
      BY <1>5, <2>2 DEF Gpu!BlurPass
    <3> QED
      BY <2>2, <3>1, ConcatEmptySeq
  <2> QED
    BY <2>1, <2>2
<1>12. Gpu!AfterBlur(acc, i, damaged) =
           [passes |-> some \o Gpu!BlurPass(i, m), params |-> more, start |-> i + 1]
  BY <1>2, <1>3, <1>4, <1>5, <1>6, <1>7, <1>10 DEF Gpu!AfterBlur
<1>13. BlurAdds(acc, i, damaged, seg, blur, more, m)
  BY <1>2, <1>3, <1>4, <1>5, <1>8, <1>9, <1>10, <1>11, <1>12 DEF BlurAdds
<1> QED
  BY <1>13

LEMMA SplitStep ==
    ASSUME NEW n \in Nat, instances \in [1 .. n -> Instance], NEW m \in 0 .. n - 1,
           NEW acc, NEW damaged \in BOOLEAN, SplitTo(acc, n, m, damaged)
    PROVE  SplitTo(Split(acc, m + 1, damaged), n, m + 1, damaged)
<1>1. PICK i : i = m + 1 /\ i \in 1 .. n /\ i \in Nat /\ i + 1 \in 1 .. n + 1 /\ i + 1 \in Nat /\ m \in Nat
               /\ i <= i + 1
  OBVIOUS
<1>2. acc \in Splits(n) /\ acc.start \in 1 .. n + 1 /\ acc.passes \in Seq(PassesOf(n))
  BY DEF SplitTo, Splits
<1>3. PICK start \in 1 .. n + 1 : start = acc.start /\ start <= i /\ start \in Int
  BY <1>1, <1>2 DEF SplitTo
<1>4. PICK passes \in Seq(PassesOf(n)) : passes = acc.passes
  BY <1>2
<1>5. CASE i \notin Gpu!Blurs
  <2>1. \A j \in 1 .. n : start <= j /\ j <= i => j \notin Gpu!Blurs
    BY <1>1, <1>3, <1>5 DEF SplitTo
  <2> QED
    BY <1>1, <1>3, <1>5, <2>1 DEF Split, SplitTo
<1>6. CASE i \in Gpu!Blurs
  <2>1. PICK seg \in PassesOf(n), blur \in PassesOf(n), more \in Seq(Nat), k \in Nat :
          BlurAdds(acc, i, damaged, seg, blur, more, k)
    BY <1>1, <1>2, AfterBlurIs
  <2>11. PICK clear \in BOOLEAN : clear = (passes = <<>> /\ ~damaged)
    OBVIOUS
  <2>12. PICK params : params = acc.params
    OBVIOUS
  <2>13. k \in DOMAIN more /\ MoreParams(params, more) /\ more[k] = instances[i].radius
    BY <2>1, <2>12 DEF BlurAdds
  <2>14. seg = Gpu!Segment(start, i, clear)
    BY <1>3, <1>4, <2>1, <2>11 DEF BlurAdds
  <2>15. blur = [pass |-> "blur", bounds |-> i, params |-> k]
    BY <2>1 DEF BlurAdds
  <2>2. PICK some \in Seq(PassesOf(n)) : some = Append(passes, seg) /\ some # <<>>
    <3>1. Append(passes, seg) \in Seq(PassesOf(n)) /\ Append(passes, seg) # <<>>
      BY AppendProperties
    <3> QED
      BY <3>1
  <2>3. \A j \in 1 .. n : start <= j /\ j < i => j \notin Gpu!Blurs
    BY <1>1, <1>3 DEF SplitTo
  <2>4. i \in 1 .. n + 1
    BY <1>1
  <2>5. PassIs(seg, more, start, i) /\ seg.pass = "scene" /\ (seg.clear <=> clear)
    <3>1. /\ PassIs(Gpu!Segment(start, i, clear), more, start, i)
          /\ Gpu!Segment(start, i, clear).pass = "scene"
          /\ Gpu!Segment(start, i, clear).clear <=> clear
      BY <2>3, <2>4, SegmentIs
    <3> QED
      BY <2>14, <3>1
  <2>6. PaintedTo(passes, params, start, damaged)
    BY <1>3, <1>4, <2>12 DEF SplitTo
  <2>7. PaintedTo(some, more, i, damaged)
    <3>1. i \in Int
      BY <1>1
    <3>2. PaintedTo(Append(passes, seg), more, i, damaged)
      BY <1>3, <2>5, <2>6, <2>11, <2>13, <3>1, PassAdded
    <3> QED
      BY <2>2, <3>2
  <2>8. PICK new : new = Split(acc, i, damaged)
    OBVIOUS
  <2>9. CASE instances[i].radius > 0
    <3>1. PICK all \in Seq(PassesOf(n)) : all = Append(some, blur)
      BY AppendProperties
    <3>2. PassIs(blur, more, i, i + 1)
      BY <1>1, <1>6, <2>9, <2>13, <2>15, BlurIs
    <3>3. blur.pass = "blur"
      BY <2>15
    <3>4. MoreParams(more, more)
      BY DEF MoreParams
    <3>5. PaintedTo(all, more, i + 1, damaged)
      <4>1. i \in Int /\ i + 1 \in Int /\ i <= i + 1
        BY <1>1
      <4>2. "blur" # "scene"
        OBVIOUS
      <4>3. PaintedTo(Append(some, blur), more, i + 1, damaged)
        BY <2>7, <3>2, <3>3, <3>4, <4>1, <4>2, PassAdded
      <4> QED
        BY <3>1, <4>3
    <3>6. new = [passes |-> all, params |-> more, start |-> i + 1]
      BY <1>4, <1>6, <2>1, <2>2, <2>8, <2>9, <3>1 DEF Split, BlurAdds
    <3>7. new \in Splits(n) /\ new.passes = all /\ new.params = more /\ new.start = i + 1
      BY <1>1, <3>6 DEF Splits
    <3>8. \A j \in 1 .. n : ~(i + 1 <= j /\ j <= i)
      BY <1>1
    <3> QED
      BY <1>1, <2>8, <3>5, <3>7, <3>8 DEF SplitTo
  <2>10. CASE ~(instances[i].radius > 0)
    <3>1. PaintedTo(some, more, i + 1, damaged)
      <4>1. i \notin Gpu!Visible
        BY <1>6, <2>10 DEF Gpu!Visible
      <4>2. \A j \in Gpu!Visible : (j < i + 1 <=> j < i)
        BY <1>1, <4>1 DEF Gpu!Visible
      <4> QED
        <5>1. \A p \in DOMAIN some : \A q \in Gpu!Draws(some[p]) : \A j \in Gpu!Covers(some[p], q) :
                  j \in Gpu!Visible /\ j < i + 1 /\ MeantBy(some[p], more, q, j)
          BY <2>7, <4>2 DEF PaintedTo
        <5>2. \A j \in Gpu!Visible : j < i + 1 =>
                  \E p \in DOMAIN some : \E q \in Gpu!Draws(some[p]) : j \in Gpu!Covers(some[p], q)
          BY <2>7, <4>2 DEF PaintedTo
        <5> QED
          BY <2>7, <5>1, <5>2 DEF PaintedTo
    <3>2. new = [passes |-> some, params |-> more, start |-> i + 1]
      BY <1>4, <1>6, <2>1, <2>2, <2>8, <2>10 DEF Split, BlurAdds
    <3>3. new \in Splits(n) /\ new.passes = some /\ new.params = more /\ new.start = i + 1
      BY <1>1, <3>2 DEF Splits
    <3>4. \A j \in 1 .. n : ~(i + 1 <= j /\ j <= i)
      BY <1>1
    <3> QED
      BY <1>1, <2>8, <3>1, <3>3, <3>4 DEF SplitTo
  <2> QED
    BY <2>9, <2>10
<1> QED
  BY <1>5, <1>6

LEMMA SplitTyped ==
    ASSUME NEW n \in Nat, instances \in [1 .. n -> Instance], NEW i \in 1 .. n,
           NEW acc \in Splits(n), NEW damaged \in BOOLEAN
    PROVE  Split(acc, i, damaged) \in Splits(n)
<1>1. CASE i \in Gpu!Blurs
  <2>1. PICK seg \in PassesOf(n), blur \in PassesOf(n), more \in Seq(Nat), m \in Nat :
            BlurAdds(acc, i, damaged, seg, blur, more, m)
    BY AfterBlurIs
  <2>2. PICK passes \in Seq(PassesOf(n)) : passes = acc.passes
    BY DEF Splits
  <2>3. PICK some \in Seq(PassesOf(n)) : some = Append(passes, seg)
    BY AppendProperties
  <2>4. PICK all \in Seq(PassesOf(n)) : all = Append(some, blur)
    BY AppendProperties
  <2>5. PICK result \in Seq(PassesOf(n)) : result = IF instances[i].radius > 0 THEN all ELSE some
    BY <2>3, <2>4
  <2>6. Split(acc, i, damaged) = [passes |-> result, params |-> more, start |-> i + 1]
    BY <1>1, <2>1, <2>2, <2>3, <2>4, <2>5 DEF Split, BlurAdds
  <2>7. i + 1 \in 1 .. n + 1
    OBVIOUS
  <2> QED
    BY <2>6, <2>7 DEF Splits
<1>2. CASE i \notin Gpu!Blurs
  BY <1>2 DEF Split
<1> QED
  BY <1>1, <1>2

\* The splitting before the last segment.
SplitsExist(split, n, damaged) ==
    /\ DOMAIN split = 0 .. n
    /\ split[0] = [passes |-> <<>>, params |-> <<>>, start |-> 1]
    /\ \A i \in 1 .. n : split[i] = Split(split[i - 1], i, damaged)
    /\ Gpu!Passes(damaged) =
           IF split[n].passes # <<>> /\ split[n].start > n THEN split[n]
           ELSE [split[n] EXCEPT !.passes =
                    Append(@, Gpu!Segment(split[n].start, n + 1, split[n].passes = <<>> /\ ~damaged))]

LEMMA PassesAre ==
    ASSUME NEW n \in Nat, instances \in [1 .. n -> Instance], NEW damaged \in BOOLEAN
    PROVE  \E split : SplitsExist(split, n, damaged)
<1> DEFINE Build(f) ==
               f = [i \in 0 .. n |->
                       IF i = 0 THEN [passes |-> <<>>, params |-> <<>>, start |-> 1]
                       ELSE IF i \in Gpu!Blurs THEN Gpu!AfterBlur(f[i - 1], i, damaged) ELSE f[i - 1]]
<1>1. Len(instances) = n
  BY SeqDef, LenProperties
<1>2. PICK none \in Splits(n) : none = [passes |-> <<>>, params |-> <<>>, start |-> 1]
  <2>1. <<>> \in Seq(PassesOf(n)) /\ <<>> \in Seq(Nat) /\ 1 \in 1 .. n + 1
    BY EmptySeq
  <2>2. [passes |-> <<>>, params |-> <<>>, start |-> 1] \in Splits(n)
    BY <2>1 DEF Splits
  <2> QED
    BY <2>2
<1>3. \E f : Build(f)
  <2>1. PICK step : step = [p \in (1 .. n) \X Splits(n) |-> Split(p[2], p[1], damaged)]
    OBVIOUS
  <2>2. step \in [(1 .. n) \X Splits(n) -> Splits(n)]
    BY <2>1, SplitTyped
  <2>3. PICK f : StepsFrom(f, Splits(n), none, n, step)
    BY <2>2, Steps
  <2>4. f \in [0 .. n -> Splits(n)] /\ f[0] = none /\ \A k \in 1 .. n : f[k] = step[<<k, f[k - 1]>>]
    BY <2>3 DEF StepsFrom
  <2>5. ASSUME NEW k \in 1 .. n PROVE f[k] = Split(f[k - 1], k, damaged)
    <3>1. k - 1 \in 0 .. n
      OBVIOUS
    <3>2. PICK b \in Splits(n) : b = f[k - 1]
      BY <2>4, <3>1
    <3>3. f[k] = step[<<k, b>>] /\ <<k, b>> \in (1 .. n) \X Splits(n)
      BY <2>4, <3>2
    <3> QED
      BY <2>1, <3>2, <3>3
  <2>6. ASSUME NEW k \in 1 .. n
        PROVE  f[k] = IF k \in Gpu!Blurs THEN Gpu!AfterBlur(f[k - 1], k, damaged) ELSE f[k - 1]
    BY <2>5 DEF Split
  <2>7. \A k \in 0 .. n : k # 0 => k \in 1 .. n
    OBVIOUS
  <2>8. Build(f)
    BY <1>2, <2>4, <2>6, <2>7
  <2> QED
    BY <2>8
<1>4. PICK f : f = CHOOSE g : Build(g)
  OBVIOUS
<1>5. Build(f)
  <2> HIDE DEF Build
  <2> QED
    BY <1>3, <1>4
<1>6. DOMAIN f = 0 .. n /\ f[0] = [passes |-> <<>>, params |-> <<>>, start |-> 1]
      /\ \A i \in 1 .. n : f[i] = Split(f[i - 1], i, damaged)
  <2>1. \A i \in 1 .. n : i \in 0 .. n /\ i # 0
    OBVIOUS
  <2> QED
    BY <1>5, <2>1 DEF Split
<1>7. Gpu!Passes(damaged) =
          IF f[n].passes # <<>> /\ f[n].start > n THEN f[n]
          ELSE [f[n] EXCEPT !.passes =
                   Append(@, Gpu!Segment(f[n].start, n + 1, f[n].passes = <<>> /\ ~damaged))]
  BY <1>1, <1>4 DEF Gpu!Passes
<1>8. SplitsExist(f, n, damaged)
  BY <1>6, <1>7 DEF SplitsExist
<1> QED
  BY <1>8

LEMMA SplitIs ==
    ASSUME NEW n \in Nat, instances \in [1 .. n -> Instance], NEW damaged \in BOOLEAN,
           NEW split, SplitsExist(split, n, damaged)
    PROVE  SplitTo(split[n], n, n, damaged)
<1> DEFINE P == {k \in 0 .. n : SplitTo(split[k], n, k, damaged)}
<1>1. 0 \in P
  <2>1. PICK none : none = [passes |-> <<>>, params |-> <<>>, start |-> 1]
    OBVIOUS
  <2>2. <<>> \in Seq(PassesOf(n)) /\ <<>> \in Seq(Nat) /\ 1 \in 1 .. n + 1 /\ DOMAIN <<>> = {}
    BY EmptySeq
  <2>3. none \in Splits(n) /\ none.passes = <<>> /\ none.start = 1
    BY <2>1, <2>2 DEF Splits
  <2>4. \A i \in Gpu!Visible : ~(i < 1)
    BY DEF Gpu!Visible
  <2>5. \A params : PaintedTo(<<>>, params, 1, damaged)
    BY <2>2, <2>4 DEF PaintedTo
  <2>6. \A i \in 1 .. n : ~(1 <= i /\ i <= 0)
    OBVIOUS
  <2>7. SplitTo(none, n, 0, damaged)
    BY <2>3, <2>5, <2>6 DEF SplitTo
  <2> QED
    BY <2>1, <2>7 DEF SplitsExist
<1>2. ASSUME NEW k \in 0 .. n - 1, k \in P PROVE k + 1 \in P
  <2>1. k + 1 \in 1 .. n /\ (k + 1) - 1 = k /\ k + 1 \in 0 .. n
    OBVIOUS
  <2>2. PICK acc : acc = split[k] /\ SplitTo(acc, n, k, damaged)
    BY <1>2
  <2>3. split[k + 1] = Split(acc, k + 1, damaged)
    BY <2>1, <2>2 DEF SplitsExist
  <2>4. SplitTo(Split(acc, k + 1, damaged), n, k + 1, damaged)
    BY <2>2, SplitStep
  <2> QED
    BY <2>1, <2>3, <2>4
<1>3. n \in P
  <2> HIDE DEF P
  <2>1. \A k \in 0 .. n : k \in P
    BY <1>1, <1>2, CountingUp
  <2> QED
    BY <2>1
<1> QED
  BY <1>3

\* The passes of a frame paint its scene (see GpuFrame), with the textures its
\* instances ask for.
LEMMA PassesPaint ==
    ASSUME NEW n \in Nat, instances \in [1 .. n -> Instance], NEW damaged \in BOOLEAN
    PROVE  PaintedTo(Gpu!Passes(damaged).passes, Gpu!Passes(damaged).params, n + 1, damaged)
<1>1. PICK split : SplitsExist(split, n, damaged)
  BY PassesAre
<1>2. PICK end : end = split[n] /\ SplitTo(end, n, n, damaged)
  BY <1>1, SplitIs
<1>3. PICK passes \in Seq(PassesOf(n)), params \in Seq(Nat), start \in 1 .. n + 1 :
          end = [passes |-> passes, params |-> params, start |-> start]
  BY <1>2 DEF SplitTo, Splits
<1>4. end.passes = passes /\ end.params = params /\ end.start = start
  BY <1>3
<1>5. PaintedTo(passes, params, start, damaged) /\ start \in Int
  BY <1>2, <1>4 DEF SplitTo
<1>6. CASE passes # <<>> /\ start > n
  <2>1. start = n + 1
    BY <1>6
  <2>2. Gpu!Passes(damaged) = end
    BY <1>1, <1>2, <1>4, <1>6 DEF SplitsExist
  <2> QED
    BY <1>4, <1>5, <2>1, <2>2
<1>7. CASE ~(passes # <<>> /\ start > n)
  <2>1. PICK clear \in BOOLEAN : clear = (passes = <<>> /\ ~damaged)
    OBVIOUS
  <2>2. PICK seg : seg = Gpu!Segment(start, n + 1, clear)
    OBVIOUS
  <2>3. n + 1 \in 1 .. n + 1 /\ n + 1 \in Int /\ start <= n + 1
    OBVIOUS
  <2>4. seg \in PassesOf(n)
    BY <2>2, <2>3, SegmentTyped
  <2>5. \A i \in 1 .. n : start <= i /\ i < n + 1 => i \notin Gpu!Blurs
    BY <1>2, <1>4 DEF SplitTo
  <2>6. PassIs(seg, params, start, n + 1) /\ (seg.clear <=> clear)
    <3>1. /\ PassIs(Gpu!Segment(start, n + 1, clear), params, start, n + 1)
          /\ Gpu!Segment(start, n + 1, clear).clear <=> clear
      BY <2>3, <2>5, SegmentIs
    <3> QED
      BY <2>2, <3>1
  <2>7. MoreParams(params, params)
    BY DEF MoreParams
  <2>8. PaintedTo(Append(passes, seg), params, n + 1, damaged)
    BY <1>5, <2>1, <2>3, <2>4, <2>6, <2>7, PassAdded
  <2>9. Gpu!Passes(damaged) = [end EXCEPT !.passes = Append(passes, seg)]
    BY <1>1, <1>2, <1>4, <1>7, <2>1, <2>2 DEF SplitsExist
  <2>10. Gpu!Passes(damaged).passes = Append(passes, seg) /\ Gpu!Passes(damaged).params = params
    BY <1>3, <2>9
  <2> QED
    BY <2>8, <2>10
<1> QED
  BY <1>6, <1>7

-----------------------------------------------------------------------------
(* Encoding a frame: the shared buffers *)

\* The entries an instance writes to a shared buffer.
Entries(b, i) == IF b = "instances" THEN 1 ELSE instances[i][b]
Block(b, i) == [k \in 1 .. Entries(b, i) |-> i]

LEMMA EntriesAre ==
    ASSUME NEW n \in Nat, instances \in [1 .. n -> Instance], NEW i \in 1 .. n,
           NEW b \in Gpu!Buffers
    PROVE  /\ Entries(b, i) \in Nat
           /\ Block(b, i) \in Seq(Nat) /\ Len(Block(b, i)) = Entries(b, i)
           /\ \A k \in 1 .. Entries(b, i) : Block(b, i)[k] = i
<1>1. instances[i] \in Instance
  OBVIOUS
<1>2. Entries(b, i) \in Nat
  BY <1>1 DEF Instance, Entries, Gpu!Buffers
<1>3. PICK c \in Nat : c = Entries(b, i)
  BY <1>2
<1>4. [k \in 1 .. c |-> i] \in [1 .. c -> Nat]
  OBVIOUS
<1>5. [k \in 1 .. c |-> i] \in Seq(Nat) /\ Len([k \in 1 .. c |-> i]) = c
  BY <1>4, SeqDef, LenProperties
<1> QED
  BY <1>3, <1>5 DEF Block

WritesOf(f, b, m) ==
    f = [i \in 0 .. m |-> IF i = 0 THEN <<>> ELSE f[i - 1] \o Block(b, i)]

LEMMA WritesAre ==
    ASSUME NEW b, NEW m \in Nat, NEW f, WritesOf(f, b, m)
    PROVE  /\ DOMAIN f = 0 .. m /\ f[0] = <<>>
           /\ \A k \in 1 .. m : f[k] = f[k - 1] \o Block(b, k)
<1>1. 0 \in 0 .. m /\ \A k \in 1 .. m : k \in 0 .. m /\ k # 0
  OBVIOUS
<1> QED
  BY <1>1 DEF WritesOf

LEMMA WritesExist ==
    ASSUME NEW n \in Nat, instances \in [1 .. n -> Instance], NEW b \in Gpu!Buffers,
           NEW m \in 0 .. n
    PROVE  \E f \in [0 .. m -> Seq(Nat)] : WritesOf(f, b, m) /\ Gpu!Written(b, m) = f[m]
<1>1. \E f \in [0 .. m -> Seq(Nat)] : WritesOf(f, b, m)
  <2>1. PICK step : step = [p \in (1 .. m) \X Seq(Nat) |-> p[2] \o Block(b, p[1])]
    OBVIOUS
  <2>2. step \in [(1 .. m) \X Seq(Nat) -> Seq(Nat)]
    <3>1. ASSUME NEW p \in (1 .. m) \X Seq(Nat) PROVE p[2] \o Block(b, p[1]) \in Seq(Nat)
      <4>1. p[1] \in 1 .. n /\ p[2] \in Seq(Nat)
        OBVIOUS
      <4>2. Block(b, p[1]) \in Seq(Nat)
        BY <4>1, EntriesAre
      <4> QED
        BY <4>1, <4>2, ConcatProperties
    <3> QED
      BY <2>1, <3>1
  <2>3. PICK none \in Seq(Nat) : none = <<>>
    BY EmptySeq
  <2>4. m \in Nat
    OBVIOUS
  <2>5. PICK f : StepsFrom(f, Seq(Nat), none, m, step)
    BY <2>2, <2>4, Steps
  <2>6. f \in [0 .. m -> Seq(Nat)] /\ f[0] = none /\ \A k \in 1 .. m : f[k] = step[<<k, f[k - 1]>>]
    BY <2>5 DEF StepsFrom
  <2>7. ASSUME NEW k \in 1 .. m PROVE f[k] = f[k - 1] \o Block(b, k)
    <3>1. k - 1 \in 0 .. m
      OBVIOUS
    <3>2. PICK s \in Seq(Nat) : s = f[k - 1]
      BY <2>6, <3>1
    <3>3. f[k] = step[<<k, s>>] /\ <<k, s>> \in (1 .. m) \X Seq(Nat)
      BY <2>6, <3>2
    <3> QED
      BY <2>1, <3>2, <3>3
  <2>8. \A k \in 0 .. m : k # 0 => k \in 1 .. m
    OBVIOUS
  <2>9. WritesOf(f, b, m)
    BY <2>3, <2>6, <2>7, <2>8 DEF WritesOf
  <2> QED
    BY <2>6, <2>9
<1>2. PICK g : g = CHOOSE f : WritesOf(f, b, m)
  OBVIOUS
<1>3. WritesOf(g, b, m)
  BY <1>1, <1>2
<1>4. Gpu!Written(b, m) = g[m]
  BY <1>2 DEF Gpu!Written, WritesOf, Block, Entries
<1>5. g \in [0 .. m -> Seq(Nat)]
  <2> DEFINE P == {k \in 0 .. m : g[k] \in Seq(Nat)}
  <2>1. /\ m \in Nat /\ DOMAIN g = 0 .. m /\ g[0] = <<>>
        /\ \A k \in 1 .. m : g[k] = g[k - 1] \o Block(b, k)
    <3>1. m \in Nat
      OBVIOUS
    <3> HIDE DEF P
    <3> QED
      BY <1>3, <3>1, WritesAre
  <2>2. 0 \in P
    <3>1. <<>> \in Seq(Nat) /\ 0 \in 0 .. m
      BY <2>1, EmptySeq
    <3> QED
      BY <2>1, <3>1
  <2>3. ASSUME NEW k \in 0 .. m - 1, k \in P PROVE k + 1 \in P
    <3>1. k + 1 \in 1 .. n /\ k + 1 \in 1 .. m /\ k + 1 \in 0 .. m /\ (k + 1) - 1 = k
      OBVIOUS
    <3>2. g[k + 1] = g[k] \o Block(b, k + 1)
      BY <2>1, <3>1
    <3>3. g[k] \in Seq(Nat) /\ Block(b, k + 1) \in Seq(Nat)
      BY <2>3, <3>1, EntriesAre
    <3> QED
      BY <3>1, <3>2, <3>3, ConcatProperties
  <2>4. \A k \in 0 .. m : k \in P
    <3> HIDE DEF P
    <3> QED
      BY <2>1, <2>2, <2>3, CountingUp
  <2> QED
    BY <1>3, <2>4 DEF WritesOf
<1> QED
  BY <1>3, <1>4, <1>5

LEMMA WritesAgree ==
    ASSUME NEW b, NEW m \in Nat, NEW f, NEW g, WritesOf(f, b, m), WritesOf(g, b, m + 1)
    PROVE  g[m] = f[m] /\ g[m + 1] = f[m] \o Block(b, m + 1)
<1>1. /\ f[0] = <<>> /\ \A k \in 1 .. m : f[k] = f[k - 1] \o Block(b, k)
      /\ g[0] = <<>> /\ \A k \in 1 .. m + 1 : g[k] = g[k - 1] \o Block(b, k)
  <2>1. m + 1 \in Nat
    OBVIOUS
  <2>2. g[0] = <<>> /\ \A k \in 1 .. m + 1 : g[k] = g[k - 1] \o Block(b, k)
    BY <2>1, WritesAre
  <2>3. f[0] = <<>> /\ \A k \in 1 .. m : f[k] = f[k - 1] \o Block(b, k)
    BY WritesAre
  <2> QED
    BY <2>2, <2>3
<1> DEFINE P == {k \in 0 .. m : g[k] = f[k]}
<1>2. 0 \in P
  BY <1>1
<1>3. ASSUME NEW k \in 0 .. m - 1, k \in P PROVE k + 1 \in P
  <2>1. k + 1 \in 0 .. m /\ k + 1 \in 1 .. m /\ k + 1 \in 1 .. m + 1 /\ (k + 1) - 1 = k
    OBVIOUS
  <2> QED
    BY <1>1, <1>3, <2>1
<1>4. \A k \in 0 .. m : k \in P
  <2> HIDE DEF P
  <2> QED
    BY <1>2, <1>3, CountingUp
<1>5. m + 1 \in 1 .. m + 1 /\ (m + 1) - 1 = m /\ m \in 0 .. m
  OBVIOUS
<1>6. g[m] = f[m]
  BY <1>4, <1>5
<1>7. g[m + 1] = g[m] \o Block(b, m + 1)
  BY <1>1, <1>5
<1> QED
  BY <1>6, <1>7

LEMMA WrittenStep ==
    ASSUME NEW n \in Nat, instances \in [1 .. n -> Instance], NEW b \in Gpu!Buffers
    PROVE  /\ Gpu!Written(b, 0) = <<>>
           /\ \A m \in 0 .. n : Gpu!Written(b, m) \in Seq(Nat)
           /\ \A m \in 0 .. n - 1 : Gpu!Written(b, m + 1) = Gpu!Written(b, m) \o Block(b, m + 1)
<1>1. ASSUME NEW m \in 0 .. n PROVE Gpu!Written(b, m) \in Seq(Nat)
  <2>1. PICK f \in [0 .. m -> Seq(Nat)] : Gpu!Written(b, m) = f[m]
    BY WritesExist
  <2> QED
    BY <2>1
<1>2. Gpu!Written(b, 0) = <<>>
  <2>1. 0 \in 0 .. n
    OBVIOUS
  <2>2. PICK f : WritesOf(f, b, 0) /\ Gpu!Written(b, 0) = f[0]
    BY <2>1, WritesExist
  <2> QED
    BY <2>2 DEF WritesOf
<1>3. ASSUME NEW m \in 0 .. n - 1 PROVE Gpu!Written(b, m + 1) = Gpu!Written(b, m) \o Block(b, m + 1)
  <2>1. m \in 0 .. n /\ m + 1 \in 0 .. n /\ m \in Nat
    OBVIOUS
  <2>2. PICK f : WritesOf(f, b, m) /\ Gpu!Written(b, m) = f[m]
    BY <2>1, WritesExist
  <2>3. PICK g : WritesOf(g, b, m + 1) /\ Gpu!Written(b, m + 1) = g[m + 1]
    BY <2>1, WritesExist
  <2> QED
    <3>1. g[m + 1] = f[m] \o Block(b, m + 1)
      BY <2>1, <2>2, <2>3, WritesAgree
    <3> QED
      BY <2>2, <2>3, <3>1
<1> QED
  BY <1>1, <1>2, <1>3

\* Instance i finds its entries from where it began to write.
SlicesTo(b, m) ==
    \A i \in 1 .. m : \A k \in 1 .. Entries(b, i) :
        /\ Len(Gpu!Written(b, i - 1)) + k \in DOMAIN Gpu!Written(b, m)
        /\ Gpu!Written(b, m)[Len(Gpu!Written(b, i - 1)) + k] = i

LEMMA SlicesHold ==
    ASSUME NEW n \in Nat, instances \in [1 .. n -> Instance], NEW b \in Gpu!Buffers
    PROVE  SlicesTo(b, n)
<1> DEFINE P == {m \in 0 .. n : SlicesTo(b, m)}
<1>1. 0 \in P
  BY DEF SlicesTo
<1>2. ASSUME NEW m \in 0 .. n - 1, m \in P PROVE m + 1 \in P
  <2>1. m \in 0 .. n /\ m + 1 \in 1 .. n /\ m + 1 \in 0 .. n /\ (m + 1) - 1 = m
    OBVIOUS
  <2>2. PICK old \in Seq(Nat) : old = Gpu!Written(b, m)
    BY <2>1, WrittenStep
  <2>3. PICK block \in Seq(Nat) : block = Block(b, m + 1)
    BY <2>1, EntriesAre
  <2>4. PICK c \in Nat : c = Entries(b, m + 1) /\ Len(block) = c /\ \A k \in 1 .. c : block[k] = m + 1
    BY <2>1, <2>3, EntriesAre
  <2>5. PICK new \in Seq(Nat) : new = Gpu!Written(b, m + 1)
    BY <2>1, WrittenStep
  <2>6. new = old \o block
    BY <2>2, <2>3, <2>5, WrittenStep
  <2>7. PICK len \in Nat : len = Len(old) /\ DOMAIN old = 1 .. len
    BY LenProperties
  <2>8. /\ DOMAIN new = 1 .. len + c
        /\ \A j \in 1 .. len : new[j] = old[j]
        /\ \A k \in 1 .. c : new[len + k] = m + 1
    BY <2>4, <2>6, <2>7, ConcatProperties, LenProperties
  <2>9. ASSUME NEW i \in 1 .. m + 1, NEW k \in 1 .. Entries(b, i)
        PROVE  /\ Len(Gpu!Written(b, i - 1)) + k \in DOMAIN new
               /\ new[Len(Gpu!Written(b, i - 1)) + k] = i
    <3>1. CASE i = m + 1
      <4>1. Len(Gpu!Written(b, i - 1)) = len
        BY <2>1, <2>2, <2>7, <3>1
      <4>2. k \in 1 .. c
        BY <2>4, <3>1
      <4>3. len + k \in 1 .. len + c
        BY <4>2
      <4> QED
        BY <2>8, <3>1, <4>1, <4>2, <4>3
    <3>2. CASE i # m + 1
      <4>1. i \in 1 .. m
        BY <3>2
      <4>2. PICK at : at = Len(Gpu!Written(b, i - 1)) + k
        OBVIOUS
      <4>3. at \in DOMAIN old /\ old[at] = i
        BY <1>2, <2>2, <4>1, <4>2 DEF SlicesTo
      <4> QED
        BY <2>7, <2>8, <4>2, <4>3
    <3> QED
      BY <3>1, <3>2
  <2>10. SlicesTo(b, m + 1)
    BY <2>5, <2>9 DEF SlicesTo
  <2> QED
    BY <2>1, <2>10
<1>3. n \in P
  <2> HIDE DEF P
  <2>1. \A k \in 0 .. n : k \in P
    BY <1>1, <1>2, CountingUp
  <2> QED
    BY <2>1
<1> QED
  BY <1>3

LEMMA PowerIs ==
    ASSUME NEW n \in Nat
    PROVE  Gpu!PowerOfTwo(n) \in Nat /\ Gpu!PowerOfTwo(n) >= n
<1> DEFINE Build(f) ==
               f = [k \in 0 .. n |->
                       IF k = 0 THEN 1 ELSE IF f[k - 1] >= n THEN f[k - 1] ELSE 2 * f[k - 1]]
<1>1. \E f : Build(f)
  <2>1. PICK step : step = [p \in (1 .. n) \X Nat |-> IF p[2] >= n THEN p[2] ELSE 2 * p[2]]
    OBVIOUS
  <2>2. step \in [(1 .. n) \X Nat -> Nat]
    <3>1. ASSUME NEW p \in (1 .. n) \X Nat PROVE (IF p[2] >= n THEN p[2] ELSE 2 * p[2]) \in Nat
      <4>1. PICK v \in Nat : v = p[2]
        OBVIOUS
      <4>2. 2 * v \in Nat
        OBVIOUS
      <4> QED
        BY <4>1, <4>2
    <3> QED
      BY <2>1, <3>1
  <2>3. PICK f : StepsFrom(f, Nat, 1, n, step)
    BY <2>2, Steps
  <2>4. f \in [0 .. n -> Nat] /\ f[0] = 1 /\ \A k \in 1 .. n : f[k] = step[<<k, f[k - 1]>>]
    BY <2>3 DEF StepsFrom
  <2>5. ASSUME NEW k \in 1 .. n PROVE f[k] = IF f[k - 1] >= n THEN f[k - 1] ELSE 2 * f[k - 1]
    <3>1. k - 1 \in 0 .. n
      OBVIOUS
    <3>2. PICK v \in Nat : v = f[k - 1]
      BY <2>4, <3>1
    <3>3. f[k] = step[<<k, v>>] /\ <<k, v>> \in (1 .. n) \X Nat
      BY <2>4, <3>2
    <3> QED
      BY <2>1, <3>2, <3>3
  <2>6. \A k \in 0 .. n : k # 0 => k \in 1 .. n
    OBVIOUS
  <2>7. Build(f)
    BY <2>4, <2>5, <2>6
  <2> QED
    BY <2>7
<1>2. PICK f : f = CHOOSE g : Build(g)
  OBVIOUS
<1>3. Build(f)
  <2> HIDE DEF Build
  <2> QED
    BY <1>1, <1>2
<1>4. Gpu!PowerOfTwo(n) = f[n]
  BY <1>2 DEF Gpu!PowerOfTwo
<1>5. f[0] = 1 /\ \A k \in 1 .. n : f[k] = IF f[k - 1] >= n THEN f[k - 1] ELSE 2 * f[k - 1]
  <2>1. 0 \in 0 .. n /\ \A k \in 1 .. n : k \in 0 .. n /\ k # 0
    OBVIOUS
  <2> QED
    BY <1>3, <2>1
<1> HIDE DEF Build
<1> DEFINE P == {k \in 0 .. n : f[k] \in Nat /\ (f[k] >= n \/ f[k] > k)}
<1>6. 0 \in P
  BY <1>5
<1>7. ASSUME NEW k \in 0 .. n - 1, k \in P PROVE k + 1 \in P
  <2>1. k + 1 \in 1 .. n /\ k + 1 \in 0 .. n /\ (k + 1) - 1 = k
    OBVIOUS
  <2>2. PICK v \in Nat : v = f[k] /\ (v >= n \/ v > k)
    BY <1>7
  <2>3. f[k + 1] = IF v >= n THEN v ELSE 2 * v
    BY <1>5, <2>1, <2>2
  <2>4. 2 * v \in Nat /\ (v > k => 2 * v > k + 1)
    BY <2>2
  <2> QED
    BY <2>1, <2>2, <2>3, <2>4
<1>8. n \in P
  <2> HIDE DEF P
  <2>1. \A k \in 0 .. n : k \in P
    BY <1>6, <1>7, CountingUp
  <2> QED
    BY <2>1
<1>9. f[n] \in Nat /\ (f[n] >= n \/ f[n] > n)
  BY <1>8
<1> QED
  BY <1>4, <1>9

LEMMA GrownHolds ==
    ASSUME NEW n \in Nat, instances \in [1 .. n -> Instance], capacity \in [Gpu!Buffers -> Nat]
    PROVE  /\ Gpu!Grown \in [Gpu!Buffers -> Nat]
           /\ \A b \in Gpu!Buffers :
                  /\ Gpu!Packed(b) = Gpu!Written(b, n)
                  /\ Len(Gpu!Packed(b)) \in Nat /\ Len(Gpu!Packed(b)) <= Gpu!Grown[b]
<1>1. Len(instances) = n
  BY SeqDef, LenProperties
<1>2. ASSUME NEW b \in Gpu!Buffers
      PROVE  /\ Gpu!Packed(b) = Gpu!Written(b, n) /\ Len(Gpu!Packed(b)) \in Nat
             /\ LET required == IF Gpu!Packed(b) = <<>> THEN 1 ELSE Len(Gpu!Packed(b))
                IN  /\ required \in Nat /\ Len(Gpu!Packed(b)) <= required
                    /\ Gpu!PowerOfTwo(required) \in Nat /\ Gpu!PowerOfTwo(required) >= required
  <2>1. n \in 0 .. n /\ Gpu!Packed(b) = Gpu!Written(b, n)
    BY <1>1 DEF Gpu!Packed
  <2>2. PICK s \in Seq(Nat) : s = Gpu!Packed(b)
    BY <2>1, WrittenStep
  <2>3. PICK len \in Nat : len = Len(s) /\ (s = <<>> => len = 0)
    BY LenProperties, EmptySeq
  <2>4. PICK required \in Nat : required = (IF s = <<>> THEN 1 ELSE len) /\ len <= required
    BY <2>3
  <2>5. Gpu!PowerOfTwo(required) \in Nat /\ Gpu!PowerOfTwo(required) >= required
    BY PowerIs
  <2> QED
    BY <2>1, <2>2, <2>3, <2>4, <2>5
<1>3. ASSUME NEW b \in Gpu!Buffers
      PROVE  Gpu!Grown[b] \in Nat /\ Len(Gpu!Packed(b)) <= Gpu!Grown[b]
  <2>1. PICK required \in Nat :
            /\ required = (IF Gpu!Packed(b) = <<>> THEN 1 ELSE Len(Gpu!Packed(b)))
            /\ Len(Gpu!Packed(b)) \in Nat /\ Len(Gpu!Packed(b)) <= required
            /\ Gpu!PowerOfTwo(required) \in Nat /\ Gpu!PowerOfTwo(required) >= required
    BY <1>2
  <2>2. Gpu!Grown[b] = IF required <= capacity[b] THEN capacity[b] ELSE Gpu!PowerOfTwo(required)
    BY <2>1 DEF Gpu!Grown
  <2>3. capacity[b] \in Nat
    OBVIOUS
  <2> QED
    BY <2>1, <2>2, <2>3
<1>4. Gpu!Grown \in [Gpu!Buffers -> Nat]
  <2>1. DOMAIN Gpu!Grown = Gpu!Buffers /\ Gpu!Grown = [b \in Gpu!Buffers |-> Gpu!Grown[b]]
    BY DEF Gpu!Grown
  <2> QED
    BY <1>3, <2>1
<1> QED
  BY <1>2, <1>3, <1>4

-----------------------------------------------------------------------------
(* Encoding a frame: its textures *)

\* The keys behind the first m entries of the cache.
Since(cache, m) == {cache[j] : j \in m + 1 .. Len(cache)}
Recent(used, cache) == \E m \in 0 .. Len(cache) : used = Since(cache, m)

Touched(cache, len, i, after) ==
    after = [k \in 1 .. len |->
                IF k < i THEN cache[k] ELSE IF k = len THEN cache[i] ELSE cache[k + 1]]

LEMMA TouchKeeps ==
    ASSUME NEW K, NEW len \in Nat, NEW cache \in [1 .. len -> K], IsInjective(cache),
           NEW i \in 1 .. len, NEW after, Touched(cache, len, i, after)
    PROVE  /\ after \in [1 .. len -> K] /\ IsInjective(after)
           /\ \A used : Recent(used, cache) => Recent(used \cup {cache[i]}, after)
<1>1. i \in Nat /\ i <= len
  OBVIOUS
<1>2. PICK from \in [1 .. len -> 1 .. len] :
          from = [k \in 1 .. len |-> IF k < i THEN k ELSE IF k = len THEN i ELSE k + 1]
  <2>1. \A k \in 1 .. len : (IF k < i THEN k ELSE IF k = len THEN i ELSE k + 1) \in 1 .. len
    BY <1>1
  <2> QED
    BY <2>1
<1>3. after = [k \in 1 .. len |-> cache[from[k]]]
  BY <1>2 DEF Touched
<1>4. after \in [1 .. len -> K]
  BY <1>2, <1>3
<1>5. \A a, b \in 1 .. len : from[a] = from[b] => a = b
  BY <1>1, <1>2
<1>6. IsInjective(after)
  BY <1>2, <1>3, <1>4, <1>5 DEF IsInjective
<1>7. Len(cache) = len /\ Len(after) = len
  <2>1. cache \in Seq(K) /\ after \in Seq(K)
    BY <1>4, SeqDef
  <2> QED
    BY <1>4, <2>1, LenProperties
<1>8. ASSUME NEW m \in 0 .. len, m >= i
      PROVE  Since(cache, m) \cup {cache[i]} = Since(after, m - 1)
  <2>1. m - 1 \in 0 .. len /\ m \in Nat
    BY <1>1, <1>8
  <2> QED
    <3>1. ASSUME NEW j \in m + 1 .. len PROVE cache[j] \in Since(after, m - 1)
      <4>1. j - 1 \in m - 1 + 1 .. len /\ j - 1 \in 1 .. len /\ from[j - 1] = j
        BY <1>1, <1>2, <1>8, <2>1
      <4>2. cache[j] = after[j - 1]
        BY <1>3, <4>1
      <4> QED
        BY <1>7, <4>1, <4>2 DEF Since
    <3>2. cache[i] \in Since(after, m - 1)
      <4>1. len \in m - 1 + 1 .. len /\ len \in 1 .. len /\ from[len] = i
        BY <1>1, <1>2, <1>8, <2>1
      <4>2. cache[i] = after[len]
        BY <1>3, <4>1
      <4> QED
        BY <1>7, <4>1, <4>2 DEF Since
    <3>3. ASSUME NEW j \in m - 1 + 1 .. len PROVE after[j] \in Since(cache, m) \cup {cache[i]}
      <4>1. j \in 1 .. len /\ (from[j] = i \/ from[j] \in m + 1 .. len)
        BY <1>1, <1>2, <1>8, <2>1
      <4>2. after[j] = cache[from[j]]
        BY <1>3, <4>1
      <4> QED
        BY <1>7, <4>1, <4>2 DEF Since
    <3>4. Since(cache, m) \subseteq Since(after, m - 1)
      BY <1>7, <3>1 DEF Since
    <3>5. Since(after, m - 1) \subseteq Since(cache, m) \cup {cache[i]}
      BY <1>7, <3>3 DEF Since
    <3> QED
      BY <3>2, <3>4, <3>5
<1>9. ASSUME NEW m \in 0 .. len, m < i
      PROVE  Since(cache, m) \cup {cache[i]} = Since(after, m)
  <2>1. m \in Nat /\ i \in m + 1 .. len
    BY <1>1, <1>9
  <2>2. ASSUME NEW j \in m + 1 .. len PROVE cache[j] \in Since(after, m)
    <3>1. PICK k \in m + 1 .. len : from[k] = j
      <4>1. PICK k : k = IF j < i THEN j ELSE IF j = i THEN len ELSE j - 1
        OBVIOUS
      <4>2. k \in m + 1 .. len /\ from[k] = j
        BY <1>1, <1>2, <2>1, <4>1
      <4> QED
        BY <4>2
    <3>2. k \in 1 .. len /\ cache[j] = after[k]
      BY <1>3, <2>1, <3>1
    <3> QED
      BY <1>7, <3>1, <3>2 DEF Since
  <2>3. ASSUME NEW j \in m + 1 .. len PROVE after[j] \in Since(cache, m)
    <3>1. j \in 1 .. len /\ from[j] \in m + 1 .. len
      BY <1>1, <1>2, <2>1
    <3>2. after[j] = cache[from[j]]
      BY <1>3, <3>1
    <3> QED
      BY <1>7, <3>1, <3>2 DEF Since
  <2>4. Since(cache, m) \subseteq Since(after, m)
    BY <1>7, <2>2 DEF Since
  <2>5. Since(after, m) \subseteq Since(cache, m)
    BY <1>7, <2>3 DEF Since
  <2>6. cache[i] \in Since(cache, m)
    BY <1>7, <2>1 DEF Since
  <2> QED
    BY <2>4, <2>5, <2>6
<1>10. ASSUME NEW used, Recent(used, cache) PROVE Recent(used \cup {cache[i]}, after)
  <2>1. PICK m \in 0 .. len : used = Since(cache, m)
    BY <1>7, <1>10 DEF Recent
  <2>2. CASE m >= i
    <3>1. m - 1 \in 0 .. len
      BY <1>1, <2>2
    <3> QED
      BY <1>7, <1>8, <2>1, <2>2, <3>1 DEF Recent
  <2>3. CASE m < i
    BY <1>7, <1>9, <2>1, <2>3 DEF Recent
  <2> QED
    BY <1>1, <2>2, <2>3
<1> QED
  BY <1>4, <1>6, <1>10

LEMMA AppendKeeps ==
    ASSUME NEW K, NEW cache \in Seq(K), IsInjective(cache), NEW key \in K, key \notin Range(cache)
    PROVE  /\ Append(cache, key) \in Seq(K) /\ IsInjective(Append(cache, key))
           /\ \A used : Recent(used, cache) => Recent(used \cup {key}, Append(cache, key))
<1>1. PICK len \in Nat : len = Len(cache) /\ DOMAIN cache = 1 .. len
  BY LenProperties
<1>2. PICK after \in Seq(K) : after = Append(cache, key)
  BY AppendProperties
<1>3. /\ Len(after) = len + 1 /\ DOMAIN after = 1 .. len + 1
      /\ after[len + 1] = key /\ \A j \in 1 .. len : after[j] = cache[j]
  BY <1>1, <1>2, AppendProperties, LenProperties
<1>4. \A j \in 1 .. len : cache[j] # key
  BY <1>1 DEF Range
<1>5. IsInjective(after)
  <2>1. \A j \in 1 .. len + 1 : j = len + 1 \/ j \in 1 .. len
    OBVIOUS
  <2> QED
    BY <1>1, <1>3, <1>4, <2>1 DEF IsInjective
<1>6. ASSUME NEW used, Recent(used, cache) PROVE Recent(used \cup {key}, after)
  <2>1. PICK m \in 0 .. len : used = Since(cache, m)
    BY <1>1, <1>6 DEF Recent
  <2>2. m \in 0 .. len + 1
    OBVIOUS
  <2>3. Since(after, m) = {after[j] : j \in m + 1 .. len + 1}
    BY <1>3 DEF Since
  <2>4. Since(cache, m) = {cache[j] : j \in m + 1 .. len}
    BY <1>1 DEF Since
  <2>5. \A j \in m + 1 .. len + 1 : j = len + 1 \/ (j \in m + 1 .. len /\ j \in 1 .. len)
    OBVIOUS
  <2>6. \A j \in m + 1 .. len : j \in m + 1 .. len + 1 /\ j \in 1 .. len
    OBVIOUS
  <2>7. len + 1 \in m + 1 .. len + 1
    OBVIOUS
  <2>8. Since(after, m) \subseteq Since(cache, m) \cup {key}
    BY <1>3, <2>3, <2>4, <2>5
  <2>9. Since(cache, m) \cup {key} \subseteq Since(after, m)
    BY <1>3, <2>3, <2>4, <2>6, <2>7
  <2> QED
    BY <1>3, <2>1, <2>2, <2>8, <2>9 DEF Recent
<1> QED
  BY <1>2, <1>5, <1>6

\* What was used since the oldest entry came is still there when that one goes.
LEMMA TailKeeps ==
    ASSUME NEW K, NEW cache \in Seq(K), IsInjective(cache), cache # <<>>
    PROVE  /\ Tail(cache) \in Seq(K) /\ IsInjective(Tail(cache))
           /\ Len(Tail(cache)) = Len(cache) - 1
           /\ Range(Tail(cache)) \subseteq Range(cache)
           /\ \A used : Recent(used, cache) /\ used # Range(cache) => Recent(used, Tail(cache))
<1>1. PICK len \in Nat : len = Len(cache) /\ DOMAIN cache = 1 .. len
  BY LenProperties
<1>2. len > 0
  BY <1>1, EmptySeq
<1>3. PICK after \in Seq(K) : after = Tail(cache)
  BY HeadTailProperties
<1>4. Len(after) = len - 1 /\ DOMAIN after = 1 .. len - 1 /\ \A j \in 1 .. len - 1 : after[j] = cache[j + 1]
  BY <1>1, <1>3, HeadTailProperties, LenProperties
<1>5. \A j \in 1 .. len - 1 : j + 1 \in 1 .. len
  BY <1>2
<1>6. IsInjective(after)
  BY <1>1, <1>4, <1>5 DEF IsInjective
<1>7. Range(after) \subseteq Range(cache)
  BY <1>1, <1>4, <1>5 DEF Range
<1>8. ASSUME NEW used, Recent(used, cache), used # Range(cache) PROVE Recent(used, after)
  <2>1. PICK m \in 0 .. len : used = Since(cache, m)
    BY <1>1, <1>8 DEF Recent
  <2>2. Since(cache, m) = {cache[j] : j \in m + 1 .. len}
    BY <1>1 DEF Since
  <2>3. m # 0
    <3>1. ASSUME m = 0 PROVE Since(cache, m) = {cache[j] : j \in 1 .. len}
      <4>1. m + 1 = 1
        BY <3>1
      <4> QED
        BY <2>2, <4>1
    <3> QED
      BY <1>1, <1>8, <2>1, <3>1 DEF Range
  <2>4. m - 1 \in 0 .. len - 1
    BY <2>3
  <2>5. Since(after, m - 1) = {after[j] : j \in m .. len - 1}
    BY <1>4 DEF Since
  <2>6. \A j \in m .. len - 1 : j \in 1 .. len - 1 /\ j + 1 \in m + 1 .. len
    BY <2>3
  <2>7. \A j \in m + 1 .. len : j - 1 \in m .. len - 1 /\ j - 1 \in 1 .. len - 1 /\ (j - 1) + 1 = j
    BY <2>3
  <2>8. Since(after, m - 1) \subseteq Since(cache, m)
    BY <1>4, <2>2, <2>5, <2>6
  <2>9. Since(cache, m) \subseteq Since(after, m - 1)
    BY <1>4, <2>2, <2>5, <2>7
  <2>10. used = Since(after, m - 1)
    BY <2>1, <2>8, <2>9
  <2>11. m - 1 \in 0 .. Len(after)
    BY <1>4, <2>4
  <2> QED
    BY <2>10, <2>11 DEF Recent
<1> QED
  BY <1>1, <1>3, <1>4, <1>6, <1>7, <1>8

LEMMA RangeIsFinite ==
    ASSUME NEW K, NEW cache \in Seq(K)
    PROVE  /\ IsFiniteSet(Range(cache))
           /\ IsInjective(cache) => Cardinality(Range(cache)) = Len(cache)
<1>1. PICK len \in Nat : len = Len(cache) /\ DOMAIN cache = 1 .. len /\ cache \in [1 .. len -> K]
  BY LenProperties
<1>2. IsFiniteSet(1 .. len) /\ Cardinality(1 .. len) = len
  BY FS_Interval
<1>3. cache \in Surjection(1 .. len, Range(cache))
  BY <1>1 DEF Surjection, Range
<1>4. IsFiniteSet(Range(cache))
  BY <1>2, <1>3, FS_Surjection
<1>5. ASSUME IsInjective(cache) PROVE cache \in Injection(1 .. len, Range(cache))
  BY <1>1, <1>3, <1>5 DEF Injection, Surjection, IsInjective
<1>6. IsInjective(cache) => Cardinality(Range(cache)) = Cardinality(1 .. len)
  BY <1>2, <1>3, <1>5, FS_Surjection
<1> QED
  BY <1>1, <1>2, <1>4, <1>6

\* What is known of the caches, and that every image of the frame under way is
\* among the keys used last.
GpuTyped ==
    /\ mtime \in [Files -> 1 .. MaxMtime]
    /\ instances \in Seq(Instance) /\ Len(instances) <= MaxInstances
    /\ texture_assets \in Seq(TextureKeys) /\ IsInjective(texture_assets)
    /\ Len(texture_assets) <= MaxTextures
    /\ capacity \in [Gpu!Buffers -> Nat] /\ bind_group = capacity
    /\ blur_intermediate \in TargetSizes \cup {None}
    /\ stage \in {"idle", "collect", "encoded", "presented"}
    /\ frame_id \in 0 .. MaxFrames /\ (stage \in {"collect", "encoded"} => frame_id < MaxFrames)

ImagesAreRecent ==
    Cardinality(Gpu!Images) <= MaxTextures => Recent(Gpu!Images, texture_assets)

LEMMA InstancesAre ==
    ASSUME instances \in Seq(Instance)
    PROVE  \E n \in Nat : /\ n = Len(instances) /\ DOMAIN instances = 1 .. n
                          /\ instances \in [1 .. n -> Instance]
  BY LenProperties

LEMMA NothingIsRecent ==
    ASSUME texture_assets \in Seq(TextureKeys)
    PROVE  Recent({}, texture_assets)
<1>1. PICK len \in Nat : len = Len(texture_assets)
  BY LenProperties
<1>2. len \in 0 .. len /\ len + 1 .. len = {}
  OBVIOUS
<1> QED
  BY <1>1, <1>2 DEF Recent, Since

LEMMA NoImages == instances = <<>> => Gpu!Images = {}
<1>1. DOMAIN <<>> = {}
  OBVIOUS
<1> QED
  BY <1>1 DEF Gpu!Images

\* What a node adds to the frame.
LEMMA NodeIs ==
    ASSUME GpuTyped, NEW node \in GpuNodes
    PROVE  /\ node.parts \in Nat /\ (node.kind = "image" => node.parts > 0)
           /\ Gpu!Key(node) \in TextureKeys \cup {None}
           /\ node.kind = "image" => Gpu!Key(node) \in TextureKeys
           /\ node.kind # "image" => Gpu!Key(node) = None
           /\ Gpu!InstancesOf(node) \in Seq(Instance)
           /\ Len(Gpu!InstancesOf(node)) = node.parts
           /\ \A p \in 1 .. node.parts : Gpu!InstancesOf(node)[p].key = Gpu!Key(node)
<1>1. /\ node.kind \in {"shape", "tint", "image", "blur"}
      /\ node.kind = "image" => node.file \in Files /\ node.parts > 0
      /\ node.parts \in Nat /\ node.radius \in Nat /\ node.stops \in Nat
      /\ node.segments \in Nat /\ node.clips \in Nat
  BY GpuNodesAreNodes
<1>2. ASSUME node.kind = "image" PROVE Gpu!Key(node) \in TextureKeys
  <2>1. node.file \in Files /\ mtime[node.file] \in 1 .. MaxMtime
    BY <1>1, <1>2 DEF GpuTyped
  <2> QED
    BY <1>2, <2>1 DEF Gpu!Key, TextureKeys
<1>3. node.kind # "image" => Gpu!Key(node) = None
  BY DEF Gpu!Key
<1>4. PICK key \in TextureKeys \cup {None} : key = Gpu!Key(node)
  BY <1>2, <1>3
<1>5. PICK one \in Instance :
          /\ one = [kind |-> node.kind, key |-> key, radius |-> node.radius,
                    stops |-> node.stops, segments |-> node.segments, clips |-> node.clips]
          /\ one.key = key
  <2>1. PICK one : one = [kind |-> node.kind, key |-> key, radius |-> node.radius,
                          stops |-> node.stops, segments |-> node.segments, clips |-> node.clips]
    OBVIOUS
  <2>2. one \in Instance /\ one.key = key
    BY <1>1, <2>1 DEF Instance
  <2> QED
    BY <2>1, <2>2
<1>6. PICK parts \in Nat : parts = node.parts
  BY <1>1
<1>7. Gpu!InstancesOf(node) = [p \in 1 .. parts |-> one]
  BY <1>4, <1>5, <1>6 DEF Gpu!InstancesOf
<1>8. [p \in 1 .. parts |-> one] \in [1 .. parts -> Instance]
  OBVIOUS
<1>9. [p \in 1 .. parts |-> one] \in Seq(Instance) /\ Len([p \in 1 .. parts |-> one]) = parts
  BY <1>8, SeqDef, LenProperties
<1> QED
  BY <1>1, <1>2, <1>3, <1>4, <1>5, <1>6, <1>7, <1>9

LEMMA CollectAdds ==
    ASSUME GpuTyped, NEW node \in GpuNodes, Gpu!Collect(node)
    PROVE  /\ instances' \in Seq(Instance) /\ Len(instances') <= MaxInstances
           /\ node.kind = "image" => Gpu!Images' = Gpu!Images \cup {Gpu!Key(node)}
           /\ node.kind # "image" => Gpu!Images' = Gpu!Images
<1>1. PICK n \in Nat : n = Len(instances) /\ DOMAIN instances = 1 .. n
  BY InstancesAre DEF GpuTyped
<1>2. PICK added \in Seq(Instance) : added = Gpu!InstancesOf(node)
  BY NodeIs
<1>3. PICK parts \in Nat : parts = node.parts /\ Len(added) = parts /\ (node.kind = "image" => parts > 0)
  BY <1>2, NodeIs
<1>4. PICK key \in TextureKeys \cup {None} : key = Gpu!Key(node)
  BY NodeIs
<1>5. /\ node.kind = "image" => key # None
      /\ node.kind # "image" => key = None
      /\ \A p \in 1 .. parts : added[p].key = key
  <2>1. None \notin TextureKeys
    BY GpuConstants DEF TextureKeys
  <2> QED
    BY <1>2, <1>3, <1>4, <2>1, NodeIs
<1>6. instances' = instances \o added /\ n + parts <= MaxInstances
  BY <1>1, <1>2, <1>3 DEF Gpu!Collect
<1>7. PICK before \in Seq(Instance) : before = instances
  BY DEF GpuTyped
<1>8. PICK all \in Seq(Instance) : all = before \o added
  BY ConcatProperties
<1>9. /\ Len(all) = n + parts /\ DOMAIN all = 1 .. n + parts
      /\ \A i \in 1 .. n : all[i] = before[i]
      /\ \A p \in 1 .. parts : all[n + p] = added[p]
  <2>1. /\ Len(all) = n + parts
        /\ \A i \in 1 .. n + parts : all[i] = IF i <= n THEN before[i] ELSE added[i - n]
    BY <1>1, <1>3, <1>7, <1>8, ConcatProperties
  <2>2. DOMAIN all = 1 .. n + parts
    BY <2>1, LenProperties
  <2>3. \A i \in 1 .. n : i \in 1 .. n + parts /\ i <= n
    OBVIOUS
  <2>4. \A p \in 1 .. parts : n + p \in 1 .. n + parts /\ ~(n + p <= n) /\ (n + p) - n = p
    OBVIOUS
  <2> QED
    BY <2>1, <2>2, <2>3, <2>4
<1>10. Gpu!Images = {before[i].key : i \in 1 .. n} \ {None}
  BY <1>1, <1>7 DEF Gpu!Images
<1>11. Gpu!Images' = {all[i].key : i \in 1 .. n + parts} \ {None}
  BY <1>6, <1>7, <1>8, <1>9 DEF Gpu!Images
<1>12. {before[i].key : i \in 1 .. n} \subseteq {all[i].key : i \in 1 .. n + parts}
  <2>1. \A i \in 1 .. n : i \in 1 .. n + parts
    OBVIOUS
  <2> QED
    BY <1>9, <2>1
<1>13. ASSUME NEW i \in 1 .. n + parts PROVE all[i].key \in {before[j].key : j \in 1 .. n} \cup {key}
  <2>1. CASE i \in 1 .. n
    BY <1>9, <2>1
  <2>2. CASE i \notin 1 .. n
    <3>1. PICK p \in 1 .. parts : i = n + p
      <4>1. i - n \in 1 .. parts /\ i = n + (i - n)
        BY <2>2
      <4> QED
        BY <4>1
    <3> QED
      BY <1>5, <1>9, <3>1
  <2> QED
    BY <2>1, <2>2
<1>14. ASSUME node.kind = "image" PROVE key \in {all[i].key : i \in 1 .. n + parts}
  <2>1. 1 \in 1 .. parts /\ n + 1 \in 1 .. n + parts
    BY <1>3, <1>14
  <2>2. all[n + 1].key = key
    BY <1>5, <1>9, <2>1
  <2> QED
    BY <2>1, <2>2
<1>15. node.kind = "image" => Gpu!Images' = Gpu!Images \cup {key}
  <2>1. PICK old : old = {before[i].key : i \in 1 .. n}
    OBVIOUS
  <2>2. PICK new : new = {all[i].key : i \in 1 .. n + parts}
    OBVIOUS
  <2>3. old \subseteq new /\ new \subseteq old \cup {key} /\ (node.kind = "image" => key \in new)
    BY <1>12, <1>13, <1>14, <2>1, <2>2
  <2> QED
    BY <1>5, <1>10, <1>11, <2>1, <2>2, <2>3
<1>16. node.kind # "image" => Gpu!Images' = Gpu!Images
  <2>1. PICK old : old = {before[i].key : i \in 1 .. n}
    OBVIOUS
  <2>2. PICK new : new = {all[i].key : i \in 1 .. n + parts}
    OBVIOUS
  <2>3. old \subseteq new /\ new \subseteq old \cup {key}
    BY <1>12, <1>13, <2>1, <2>2
  <2> QED
    BY <1>5, <1>10, <1>11, <2>1, <2>2, <2>3
<1> QED
  BY <1>4, <1>6, <1>7, <1>8, <1>9, <1>15, <1>16

LEMMA ImagesAreFinite ==
    ASSUME instances \in Seq(Instance)
    PROVE  IsFiniteSet(Gpu!Images)
<1>1. PICK n \in Nat : n = Len(instances) /\ DOMAIN instances = 1 .. n
  BY InstancesAre
<1>2. PICK f : f = [i \in 1 .. n |-> instances[i].key]
  OBVIOUS
<1>3. f \in Surjection(1 .. n, Range(f)) /\ Range(f) = {instances[i].key : i \in 1 .. n}
  BY <1>2 DEF Surjection, Range
<1>4. IsFiniteSet(1 .. n)
  BY FS_Interval
<1>5. IsFiniteSet(Range(f))
  BY <1>3, <1>4, FS_Surjection
<1>6. Gpu!Images \in SUBSET Range(f)
  BY <1>1, <1>3 DEF Gpu!Images
<1> QED
  BY <1>5, <1>6, FS_Subset

\* The key of an image is looked up or put in: it is the newest of the cache then.
CacheUsed(key, used) ==
    /\ texture_assets' \in Seq(TextureKeys) /\ IsInjective(texture_assets')
    /\ Len(texture_assets') <= MaxTextures
    /\ Cardinality(used \cup {key}) <= MaxTextures => Recent(used \cup {key}, texture_assets')

LEMMA HitKeeps ==
    ASSUME GpuTyped, NEW i \in DOMAIN texture_assets, texture_assets' = Gpu!Touch(i),
           NEW used, IsFiniteSet(used), Cardinality(used) <= MaxTextures => Recent(used, texture_assets)
    PROVE  CacheUsed(texture_assets[i], used)
<1>1. PICK len \in Nat : len = Len(texture_assets) /\ DOMAIN texture_assets = 1 .. len
  BY LenProperties DEF GpuTyped
<1>2. PICK cache \in [1 .. len -> TextureKeys] :
          cache = texture_assets /\ IsInjective(cache) /\ len <= MaxTextures
  BY <1>1, LenProperties DEF GpuTyped
<1>3. PICK after : Touched(cache, len, i, after)
  BY DEF Touched
<1>4. texture_assets' = after
  BY <1>1, <1>2, <1>3 DEF Gpu!Touch, Touched
<1>5. i \in 1 .. len
  BY <1>1
<1>6. after \in [1 .. len -> TextureKeys] /\ IsInjective(after)
      /\ (Recent(used, cache) => Recent(used \cup {cache[i]}, after))
  <2>1. /\ after \in [1 .. len -> TextureKeys] /\ IsInjective(after)
        /\ \A any : Recent(any, cache) => Recent(any \cup {cache[i]}, after)
    BY <1>2, <1>3, <1>5, TouchKeeps
  <2> QED
    BY <2>1
<1>7. after \in Seq(TextureKeys) /\ Len(after) = len
  BY <1>6, SeqDef, LenProperties
<1>8. Cardinality(used \cup {cache[i]}) <= MaxTextures => Cardinality(used) <= MaxTextures
  <2>1. PICK c \in Nat : c = Cardinality(used)
    BY FS_CardinalityType
  <2>2. PICK d \in Nat : d = Cardinality(used \cup {cache[i]}) /\ c <= d
    <3>1. Cardinality(used \cup {cache[i]}) = IF cache[i] \in used THEN c ELSE c + 1
      BY <2>1, FS_AddElement
    <3> QED
      BY <3>1
  <2> QED
    BY <2>1, <2>2, GpuConstants
<1> QED
  BY <1>2, <1>4, <1>6, <1>7, <1>8 DEF CacheUsed

LEMMA MissKeeps ==
    ASSUME GpuTyped, NEW key \in TextureKeys, key \notin Range(texture_assets),
           texture_assets' = Gpu!Insert(key),
           NEW used, IsFiniteSet(used), Cardinality(used) <= MaxTextures => Recent(used, texture_assets)
    PROVE  CacheUsed(key, used)
<1>1. PICK cache \in Seq(TextureKeys) : cache = texture_assets
  BY DEF GpuTyped
<1>2. IsInjective(cache) /\ Len(cache) <= MaxTextures /\ key \notin Range(cache)
  BY <1>1 DEF GpuTyped
<1>3. PICK len \in Nat : len = Len(cache)
  BY LenProperties
<1>4. PICK c \in Nat : c = Cardinality(used)
  BY FS_CardinalityType
<1>5. Cardinality(used \cup {key}) = IF key \in used THEN c ELSE c + 1
  BY <1>4, FS_AddElement
<1>6. MaxTextures \in Nat /\ MaxTextures > 0
  BY GpuConstants
<1>7. Cardinality(used \cup {key}) <= MaxTextures => Recent(used, cache)
  BY <1>1, <1>4, <1>5, <1>6
<1>8. CASE len < MaxTextures
  <2>1. texture_assets' = Append(cache, key)
    BY <1>1, <1>3, <1>6, <1>8 DEF Gpu!Insert
  <2>2. /\ Append(cache, key) \in Seq(TextureKeys) /\ IsInjective(Append(cache, key))
        /\ Recent(used, cache) => Recent(used \cup {key}, Append(cache, key))
    BY <1>2, AppendKeeps
  <2>3. Len(Append(cache, key)) <= MaxTextures
    BY <1>3, <1>6, <1>8, AppendProperties
  <2> QED
    BY <1>7, <2>1, <2>2, <2>3 DEF CacheUsed
<1>9. CASE ~(len < MaxTextures)
  <2>1. len = MaxTextures /\ cache # <<>>
    BY <1>2, <1>3, <1>6, <1>9, EmptySeq
  <2>2. PICK rest \in Seq(TextureKeys) :
            /\ rest = Tail(cache) /\ IsInjective(rest) /\ Len(rest) = len - 1
            /\ Range(rest) \subseteq Range(cache)
            /\ Recent(used, cache) /\ used # Range(cache) => Recent(used, rest)
    <3>1. /\ Tail(cache) \in Seq(TextureKeys) /\ IsInjective(Tail(cache))
          /\ Len(Tail(cache)) = Len(cache) - 1 /\ Range(Tail(cache)) \subseteq Range(cache)
          /\ Recent(used, cache) /\ used # Range(cache) => Recent(used, Tail(cache))
      BY <1>2, <2>1, TailKeeps
    <3> QED
      BY <1>3, <3>1
  <2>3. texture_assets' = Append(rest, key)
    BY <1>1, <1>3, <1>9, <2>1, <2>2 DEF Gpu!Insert
  <2>4. /\ Append(rest, key) \in Seq(TextureKeys) /\ IsInjective(Append(rest, key))
        /\ Recent(used, rest) => Recent(used \cup {key}, Append(rest, key))
    <3>1. key \notin Range(rest)
      BY <1>2, <2>2
    <3> QED
      BY <2>2, <3>1, AppendKeeps
  <2>5. Len(Append(rest, key)) <= MaxTextures
    BY <1>6, <2>1, <2>2, AppendProperties
  <2>6. Cardinality(used \cup {key}) <= MaxTextures => used # Range(cache)
    <3>1. Cardinality(Range(cache)) = len
      BY <1>2, <1>3, RangeIsFinite
    <3>2. ASSUME used = Range(cache) PROVE ~(Cardinality(used \cup {key}) <= MaxTextures)
      <4>1. c = len /\ key \notin used
        BY <1>2, <1>4, <3>1, <3>2
      <4> QED
        BY <1>5, <2>1, <4>1
    <3> QED
      BY <3>2
  <2> QED
    BY <1>7, <2>2, <2>3, <2>4, <2>5, <2>6 DEF CacheUsed
<1> QED
  BY <1>8, <1>9

LEMMA CollectImageKeeps ==
    ASSUME GpuTyped, ImagesAreRecent, Gpu!CollectImage
    PROVE  GpuTyped' /\ ImagesAreRecent'
<1>1. PICK node \in GpuNodes :
          /\ node.kind = "image"
          /\ \/ \E i \in DOMAIN texture_assets :
                    texture_assets[i] = Gpu!Key(node) /\ texture_assets' = Gpu!Touch(i)
             \/ Gpu!Key(node) \notin Gpu!Range(texture_assets) /\ texture_assets' = Gpu!Insert(Gpu!Key(node))
          /\ Gpu!Collect(node)
  BY ZenonT(30) DEF Gpu!CollectImage
<1>2. PICK key \in TextureKeys : key = Gpu!Key(node)
  BY <1>1, NodeIs
<1>3. PICK used : used = Gpu!Images
  OBVIOUS
<1>4. IsFiniteSet(used) /\ (Cardinality(used) <= MaxTextures => Recent(used, texture_assets))
  BY <1>3, ImagesAreFinite DEF GpuTyped, ImagesAreRecent
<1>5. CacheUsed(key, used)
  <2>1. ASSUME NEW i \in DOMAIN texture_assets, texture_assets[i] = key, texture_assets' = Gpu!Touch(i)
        PROVE  CacheUsed(key, used)
    <3>1. CacheUsed(texture_assets[i], used)
      BY <1>4, <2>1, HitKeeps
    <3> QED
      BY <2>1, <3>1
  <2>2. ASSUME key \notin Range(texture_assets), texture_assets' = Gpu!Insert(key)
        PROVE  CacheUsed(key, used)
    BY <1>4, <2>2, MissKeeps
  <2> QED
    BY <1>1, <1>2, <2>1, <2>2 DEF Range, Gpu!Range
<1>6. instances' \in Seq(Instance) /\ Len(instances') <= MaxInstances /\ Gpu!Images' = used \cup {key}
  BY <1>1, <1>2, <1>3, CollectAdds
<1>7. UNCHANGED <<mtime, capacity, bind_group, blur_intermediate, stage, frame_id>>
  BY <1>1 DEF Gpu!Collect
<1>8. GpuTyped'
  BY <1>5, <1>6, <1>7 DEF GpuTyped, CacheUsed
<1>9. ImagesAreRecent'
  BY <1>5, <1>6 DEF ImagesAreRecent, CacheUsed
<1> QED
  BY <1>8, <1>9

-----------------------------------------------------------------------------
(* Encoding a frame: the invariant *)

IsPainted ==
    Gpu!Encoded => PaintedTo(ops.passes, ops.params, Len(instances) + 1, ops.damaged)

WholeInv == TargetInv /\ GpuTyped /\ ImagesAreRecent /\ IsPainted /\ Gpu!SlicesAreOwn

\* What a pass is meant to paint depends on the frame's instances and textures only.
LEMMA PaintedStays ==
    ASSUME UNCHANGED <<instances, texture_assets>>,
           NEW passes, NEW params, NEW start, NEW damaged,
           PaintedTo(passes, params, start, damaged)
    PROVE  PaintedTo(passes, params, start, damaged)'
<1>1. Gpu!Blurs' = Gpu!Blurs
  BY DEF Gpu!Blurs
<1>2. Gpu!Visible' = Gpu!Visible
  BY <1>1 DEF Gpu!Visible
<1>3. ASSUME NEW key PROVE Gpu!Texture(key)' = Gpu!Texture(key)
  BY DEF Gpu!Texture, Gpu!Range
<1>4. ASSUME NEW pass, NEW k, NEW i, MeantBy(pass, params, k, i) PROVE MeantBy(pass, params, k, i)'
  <2>1. Gpu!Texture(instances[i].key)' = Gpu!Texture(instances[i].key)
    BY DEF Gpu!Texture, Gpu!Range
  <2> QED
    BY <1>1, <1>4, <2>1 DEF MeantBy
<1>5. ASSUME NEW p \in DOMAIN passes, NEW k \in Gpu!Draws(passes[p]), NEW i \in Gpu!Covers(passes[p], k)
      PROVE  i \in Gpu!Visible' /\ i < start /\ MeantBy(passes[p], params, k, i)'
  <2>1. i \in Gpu!Visible /\ i < start /\ MeantBy(passes[p], params, k, i)
    BY DEF PaintedTo
  <2>2. MeantBy(passes[p], params, k, i)'
    BY <1>4, <2>1
  <2> QED
    BY <1>2, <2>1, <2>2
<1>6. (\A i \in Gpu!Visible : i < start =>
           \E p \in DOMAIN passes : \E k \in Gpu!Draws(passes[p]) : i \in Gpu!Covers(passes[p], k))'
  BY <1>2 DEF PaintedTo, Gpu!Draws, Gpu!Covers
<1>7. (\A p \in DOMAIN passes : \A k \in Gpu!Draws(passes[p]) : \A i \in Gpu!Covers(passes[p], k) :
           i \in Gpu!Visible /\ i < start /\ MeantBy(passes[p], params, k, i))'
  BY <1>5 DEF Gpu!Draws, Gpu!Covers
<1>8. (\A p, q \in DOMAIN passes : \A k \in Gpu!Draws(passes[p]), l \in Gpu!Draws(passes[q]) :
           \A i \in Gpu!Covers(passes[p], k), j \in Gpu!Covers(passes[q], l) :
               i <= j => p < q \/ (p = q /\ k <= l))'
  BY DEF PaintedTo, Gpu!Draws, Gpu!Covers
<1>9. \A p \in DOMAIN passes : passes[p].pass = "scene" => (passes[p].clear <=> p = 1 /\ ~damaged)
  BY DEF PaintedTo
<1> QED
  BY <1>6, <1>7, <1>8, <1>9 DEF PaintedTo

\* What a frame is encoded to.
EncodedTo(n, damaged) ==
    /\ ops'.passes = Gpu!Passes(damaged).passes /\ ops'.params = Gpu!Passes(damaged).params
    /\ ops'.damaged = damaged
    /\ \A b \in Gpu!Buffers : ops'.data[b] = Gpu!Packed(b)
    /\ \A i \in 1 .. n : \A b \in Gpu!Buffers \ {"instances"} : ops'.slices[i][b] = Gpu!Slice(b, i)

LEMMA EncodeRecords ==
    ASSUME Gpu!Encode, NEW n \in Nat, DOMAIN instances = 1 .. n
    PROVE  \E damaged \in BOOLEAN : EncodedTo(n, damaged)
<1>1. PICK regions \in BOOLEAN :
          ops' = [passes |-> Gpu!Passes(regions /\ Gpu!Blurs = {} /\ gpu_initialized).passes,
                  params |-> Gpu!Passes(regions /\ Gpu!Blurs = {} /\ gpu_initialized).params,
                  slices |-> [i \in DOMAIN instances |->
                                 [b \in Gpu!Buffers \ {"instances"} |-> Gpu!Slice(b, i)]],
                  data   |-> [b \in Gpu!Buffers |-> Gpu!Packed(b)],
                  damaged |-> regions /\ Gpu!Blurs = {} /\ gpu_initialized]
  BY ZenonT(30) DEF Gpu!Encode
<1>2. PICK damaged \in BOOLEAN : damaged = (regions /\ Gpu!Blurs = {} /\ gpu_initialized)
  OBVIOUS
<1>3. PICK slices : slices = [i \in DOMAIN instances |->
                                 [b \in Gpu!Buffers \ {"instances"} |-> Gpu!Slice(b, i)]]
  OBVIOUS
<1>4. PICK data : data = [b \in Gpu!Buffers |-> Gpu!Packed(b)]
  OBVIOUS
<1>5. ops' = [passes |-> Gpu!Passes(damaged).passes, params |-> Gpu!Passes(damaged).params,
              slices |-> slices, data |-> data, damaged |-> damaged]
  BY <1>1, <1>2, <1>3, <1>4
<1>6. /\ ops'.passes = Gpu!Passes(damaged).passes /\ ops'.params = Gpu!Passes(damaged).params
      /\ ops'.damaged = damaged /\ ops'.data = data /\ ops'.slices = slices
  BY <1>5
<1>7. EncodedTo(n, damaged)
  BY <1>3, <1>4, <1>6 DEF EncodedTo
<1> QED
  BY <1>7

LEMMA EncodeMakesWhole ==
    ASSUME WholeInv, Gpu!Encode
    PROVE  GpuTyped' /\ IsPainted' /\ Gpu!SlicesAreOwn'
<1>1. PICK n \in Nat : n = Len(instances) /\ DOMAIN instances = 1 .. n /\ instances \in [1 .. n -> Instance]
  BY InstancesAre DEF WholeInv, GpuTyped
<1>2. PICK damaged \in BOOLEAN : EncodedTo(n, damaged)
  BY <1>1, EncodeRecords
<1>3. /\ stage = "collect" /\ stage' = "encoded"
      /\ capacity' = Gpu!Grown /\ bind_group' = Gpu!Binding
      /\ blur_intermediate' = IF Gpu!Blurs = {} THEN blur_intermediate ELSE backbuffer.size
      /\ UNCHANGED <<mtime, instances, texture_assets, frame_id>>
  BY DEF Gpu!Encode
<1>4. /\ Gpu!Grown \in [Gpu!Buffers -> Nat]
      /\ \A b \in Gpu!Buffers :
             /\ Gpu!Packed(b) = Gpu!Written(b, n)
             /\ Len(Gpu!Packed(b)) \in Nat /\ Len(Gpu!Packed(b)) <= Gpu!Grown[b]
  BY <1>1, GrownHolds DEF WholeInv, GpuTyped
<1>5. bind_group' = capacity'
  BY <1>3 DEF Gpu!Binding, WholeInv, GpuTyped
<1>6. GpuTyped'
  <2>1. blur_intermediate' \in TargetSizes \cup {None}
    <3>1. backbuffer.size = config /\ config \in TargetSizes
      BY <1>3 DEF WholeInv, TargetInv, Targets
    <3> QED
      BY <1>3, <3>1 DEF WholeInv, GpuTyped
  <2> QED
    BY <1>3, <1>4, <1>5, <2>1 DEF WholeInv, GpuTyped, Gpu!Buffers
<1>7. IsPainted'
  <2>1. PICK passes, params : /\ passes = Gpu!Passes(damaged).passes
                              /\ params = Gpu!Passes(damaged).params
    OBVIOUS
  <2>2. PaintedTo(passes, params, n + 1, damaged)
    BY <1>1, <2>1, PassesPaint
  <2>3. PaintedTo(passes, params, n + 1, damaged)'
    BY <1>3, <2>2, PaintedStays
  <2>4. ops'.passes = passes /\ ops'.params = params /\ ops'.damaged = damaged
    BY <1>2, <2>1 DEF EncodedTo
  <2>5. Len(instances') + 1 = n + 1
    BY <1>1, <1>3
  <2> QED
    BY <2>3, <2>4, <2>5 DEF IsPainted
<1>8. Gpu!SlicesAreOwn'
  <2>1. \A b \in Gpu!Buffers : Len(ops'.data[b]) <= capacity'[b]
    BY <1>2, <1>3, <1>4 DEF EncodedTo
  <2>2. ASSUME NEW i \in 1 .. n, NEW b \in Gpu!Buffers \ {"instances"}
        PROVE  LET s == ops'.slices[i][b]
               IN  /\ s[2] = instances[i][b]
                   /\ \A k \in 1 .. s[2] : /\ s[1] + k \in DOMAIN ops'.data[b]
                                           /\ ops'.data[b][s[1] + k] = i
    <3>1. ops'.slices[i][b] = <<Len(Gpu!Written(b, i - 1)), instances[i][b]>>
      BY <1>2 DEF EncodedTo, Gpu!Slice
    <3>2. PICK data : data = ops'.data[b] /\ data = Gpu!Written(b, n)
      BY <1>2, <1>4 DEF EncodedTo
    <3>3. Entries(b, i) = instances[i][b]
      BY DEF Entries
    <3>4. ASSUME NEW k \in 1 .. Entries(b, i)
          PROVE  Len(Gpu!Written(b, i - 1)) + k \in DOMAIN data /\ data[Len(Gpu!Written(b, i - 1)) + k] = i
      <4>1. SlicesTo(b, n)
        BY <1>1, SlicesHold
      <4> QED
        BY <3>2, <4>1 DEF SlicesTo
    <3> QED
      BY <3>1, <3>2, <3>3, <3>4
  <2>3. DOMAIN instances' = 1 .. n /\ instances' = instances
    BY <1>1, <1>3
  <2> QED
    BY <1>5, <2>1, <2>2, <2>3 DEF Gpu!SlicesAreOwn
<1> QED
  BY <1>6, <1>7, <1>8

LEMMA WholeStarts == Gpu!Init => WholeInv
<1> SUFFICES ASSUME Gpu!Init PROVE WholeInv
  OBVIOUS
<1>1. /\ mtime = [f \in Files |-> 1] /\ instances = <<>> /\ texture_assets = <<>>
      /\ capacity = InitialCapacity /\ bind_group = capacity /\ blur_intermediate = None
      /\ stage = "idle" /\ frame_id = 0
  BY DEF Gpu!Init
<1>2. /\ <<>> \in Seq(Instance) /\ <<>> \in Seq(TextureKeys) /\ Len(<<>>) = 0
      /\ IsInjective(<<>>)
  BY EmptySeq DEF IsInjective
<1>3. GpuTyped
  BY <1>1, <1>2, GpuConstants DEF GpuTyped, Gpu!Buffers
<1>4. ImagesAreRecent
  BY <1>1, <1>2, NoImages, NothingIsRecent DEF ImagesAreRecent
<1>5. IsPainted /\ Gpu!SlicesAreOwn
  BY <1>1 DEF IsPainted, Gpu!SlicesAreOwn, Gpu!Encoded
<1> QED
  BY <1>3, <1>4, <1>5, TargetStarts DEF WholeInv

LEMMA DroppedKeeps ==
    ASSUME GpuTyped, Gpu!Dropped, frame_id' = frame_id,
           UNCHANGED <<mtime, texture_assets, capacity, bind_group, blur_intermediate>>
    PROVE  GpuTyped' /\ ImagesAreRecent' /\ IsPainted' /\ Gpu!SlicesAreOwn'
<1>1. stage' = "idle" /\ instances' = <<>>
  BY DEF Gpu!Dropped
<1>2. instances' \in Seq(Instance) /\ Len(instances') <= MaxInstances
  <2>1. <<>> \in Seq(Instance) /\ Len(<<>>) = 0
    BY EmptySeq
  <2> QED
    BY <1>1, <2>1, GpuConstants
<1>3. GpuTyped'
  BY <1>1, <1>2 DEF GpuTyped
<1>4. Gpu!Images' = {}
  <2>1. DOMAIN <<>> = {}
    OBVIOUS
  <2> QED
    BY <1>1, <2>1 DEF Gpu!Images
<1>5. Recent({}, texture_assets')
  BY NothingIsRecent DEF GpuTyped
<1> QED
  BY <1>1, <1>3, <1>4, <1>5 DEF ImagesAreRecent, IsPainted, Gpu!SlicesAreOwn, Gpu!Encoded

LEMMA SameFrameKeeps ==
    ASSUME WholeInv, GpuTyped', Gpu!Encoded' => Gpu!Encoded,
           UNCHANGED <<instances, texture_assets, capacity, bind_group, ops>>
    PROVE  ImagesAreRecent' /\ IsPainted' /\ Gpu!SlicesAreOwn'
<1>1. Gpu!Images' = Gpu!Images
  BY DEF Gpu!Images
<1>2. ImagesAreRecent'
  BY <1>1 DEF WholeInv, ImagesAreRecent
<1>3. IsPainted'
  <2> SUFFICES ASSUME Gpu!Encoded'
               PROVE  PaintedTo(ops.passes, ops.params, Len(instances) + 1, ops.damaged)'
    BY DEF IsPainted
  <2>1. PICK passes, params, start, damaged :
            /\ passes = ops.passes /\ params = ops.params
            /\ start = Len(instances) + 1 /\ damaged = ops.damaged
    OBVIOUS
  <2>2. PaintedTo(passes, params, start, damaged)
    BY <2>1 DEF WholeInv, IsPainted
  <2>3. PaintedTo(passes, params, start, damaged)'
    BY <2>2, PaintedStays
  <2> QED
    BY <2>1, <2>3
<1>4. Gpu!SlicesAreOwn'
  BY DEF WholeInv, Gpu!SlicesAreOwn
<1> QED
  BY <1>2, <1>3, <1>4

LEMMA WholeStep ==
    ASSUME WholeInv, Gpu!Next \/ UNCHANGED gpuVars, TargetInv' PROVE WholeInv'
<1>1. CASE Gpu!Leave
  BY <1>1, DroppedKeeps DEF Gpu!Leave, Gpu!caches, WholeInv
<1>2. ASSUME NEW f \in Files, Gpu!ChangeFile(f) PROVE WholeInv'
  <2>1. /\ stage \in {"idle", "collect"} /\ mtime[f] < MaxMtime
        /\ mtime' = [mtime EXCEPT ![f] = @ + 1]
        /\ UNCHANGED <<instances, texture_assets, capacity, bind_group, blur_intermediate,
                       stage, frame_id, ops>>
    BY <1>2 DEF Gpu!ChangeFile, Gpu!caches
  <2>2. mtime' \in [Files -> 1 .. MaxMtime]
    BY <2>1, GpuConstants DEF WholeInv, GpuTyped
  <2>3. GpuTyped'
    BY <2>1, <2>2 DEF WholeInv, GpuTyped
  <2> QED
    BY <2>1, <2>3, SameFrameKeeps DEF WholeInv, Gpu!Encoded
<1>3. ASSUME NEW z \in TargetSizes, Gpu!Resize(z) PROVE WholeInv'
  BY <1>3, DroppedKeeps DEF Gpu!Resize, Gpu!caches, WholeInv
<1>4. CASE Gpu!Acquire
  <2>1. /\ instances' = <<>> /\ stage' = "collect"
        /\ UNCHANGED <<mtime, texture_assets, capacity, bind_group, blur_intermediate, frame_id>>
    BY <1>4 DEF Gpu!Acquire, Gpu!caches
  <2>2. instances' \in Seq(Instance) /\ Len(instances') <= MaxInstances
    <3>1. <<>> \in Seq(Instance) /\ Len(<<>>) = 0
      BY EmptySeq
    <3> QED
      BY <2>1, <3>1, GpuConstants
  <2>5. frame_id < MaxFrames
    BY <1>4 DEF Gpu!Acquire
  <2>3. GpuTyped'
    BY <2>1, <2>2, <2>5 DEF WholeInv, GpuTyped
  <2>4. Gpu!Images' = {} /\ Recent({}, texture_assets')
    <3>1. DOMAIN <<>> = {}
      OBVIOUS
    <3>2. Gpu!Images' = {}
      BY <2>1, <3>1 DEF Gpu!Images
    <3> QED
      BY <2>1, <3>2, NothingIsRecent DEF WholeInv, GpuTyped
  <2> QED
    BY <2>1, <2>3, <2>4 DEF WholeInv, ImagesAreRecent, IsPainted, Gpu!SlicesAreOwn, Gpu!Encoded
<1>5. CASE Gpu!CollectPlain
  <2>1. PICK node \in GpuNodes :
            node.kind # "image" /\ Gpu!Collect(node) /\ UNCHANGED texture_assets
    BY <1>5 DEF Gpu!CollectPlain
  <2>2. instances' \in Seq(Instance) /\ Len(instances') <= MaxInstances /\ Gpu!Images' = Gpu!Images
    BY <2>1, CollectAdds DEF WholeInv
  <2>3. /\ stage = "collect"
        /\ UNCHANGED <<mtime, capacity, bind_group, blur_intermediate, stage, frame_id>>
    BY <2>1 DEF Gpu!Collect
  <2>4. GpuTyped' /\ ImagesAreRecent'
    BY <2>1, <2>2, <2>3 DEF WholeInv, GpuTyped, ImagesAreRecent
  <2> QED
    BY <2>3, <2>4 DEF WholeInv, IsPainted, Gpu!SlicesAreOwn, Gpu!Encoded
<1>6. CASE Gpu!CollectImage
  <2>1. GpuTyped' /\ ImagesAreRecent'
    BY <1>6, CollectImageKeeps DEF WholeInv
  <2>2. stage' = "collect"
    BY <1>6 DEF Gpu!CollectImage, Gpu!Collect
  <2> QED
    BY <2>1, <2>2 DEF WholeInv, IsPainted, Gpu!SlicesAreOwn, Gpu!Encoded
<1>7. CASE Gpu!Encode
  <2>1. UNCHANGED <<instances, texture_assets>>
    BY <1>7 DEF Gpu!Encode
  <2>2. Gpu!Images' = Gpu!Images
    BY <2>1 DEF Gpu!Images
  <2> QED
    BY <1>7, <2>1, <2>2, EncodeMakesWhole DEF WholeInv, ImagesAreRecent
<1>8. CASE Gpu!Submit
  <2>1. /\ stage = "encoded" /\ stage' = "presented" /\ frame_id' = frame_id + 1
        /\ UNCHANGED <<mtime, instances, texture_assets, capacity, bind_group, blur_intermediate, ops>>
    BY <1>8 DEF Gpu!Submit, Gpu!caches
  <2>2. frame_id' \in 0 .. MaxFrames
    BY <2>1, GpuConstants DEF WholeInv, GpuTyped
  <2>3. GpuTyped'
    BY <2>1, <2>2 DEF WholeInv, GpuTyped
  <2> QED
    BY <2>1, <2>3, SameFrameKeeps DEF WholeInv, Gpu!Encoded
<1>9. CASE UNCHANGED gpuVars
  <2>1. GpuTyped' /\ (Gpu!Encoded' => Gpu!Encoded)
    BY <1>9 DEF gpuVars, WholeInv, GpuTyped, Gpu!Encoded
  <2> QED
    BY <1>9, <2>1, SameFrameKeeps DEF gpuVars, WholeInv
<1> QED
  BY <1>1, <1>2, <1>3, <1>4, <1>5, <1>6, <1>7, <1>8, <1>9
     DEF Gpu!Next, Gpu!Present, Gpu!CollectFails, Gpu!PresentFails

LEMMA SameCardinality == ASSUME NEW S PROVE Gpu!Cardinality(S) = Cardinality(S)
  BY DEF Gpu!Cardinality, Cardinality

LEMMA WholeFrames == WholeInv => FramesAreWhole
<1> SUFFICES ASSUME WholeInv PROVE FramesAreWhole
  OBVIOUS
<1>1. Gpu!TypeOK
  <2>1. backbuffer \in [size : TargetSizes, filled : BOOLEAN] \cup {None}
        /\ config \in TargetSizes /\ gpu_initialized \in BOOLEAN
    BY DEF WholeInv, TargetInv, Targets
  <2>2. Gpu!IsInjective(texture_assets)
    BY DEF WholeInv, GpuTyped, IsInjective, Gpu!IsInjective
  <2> QED
    BY <2>1, <2>2 DEF WholeInv, GpuTyped, TextureKeys, Gpu!TypeOK
<1>2. PICK n \in Nat : n = Len(instances) /\ DOMAIN instances = 1 .. n /\ instances \in [1 .. n -> Instance]
  BY InstancesAre DEF WholeInv, GpuTyped
<1>3. Gpu!Visible \subseteq 1 .. n
  BY <1>2 DEF Gpu!Visible
<1>4. PICK passes, params, damaged : passes = ops.passes /\ params = ops.params /\ damaged = ops.damaged
  OBVIOUS
<1>5. Gpu!Encoded => PaintedTo(passes, params, n + 1, damaged)
  BY <1>2, <1>4 DEF WholeInv, IsPainted
<1>6. Gpu!PassesPaintTheScene
  <2> SUFFICES ASSUME Gpu!Encoded
               PROVE  /\ Gpu!EveryoneIsPainted /\ Gpu!PaintedAsMeant
                      /\ Gpu!PaintedInOrder /\ Gpu!ClearedFirst
    BY DEF Gpu!PassesPaintTheScene
  <2>1. \A i \in Gpu!Visible : i < n + 1
    BY <1>3
  <2>2. Gpu!EveryoneIsPainted
    BY <1>4, <1>5, <2>1 DEF PaintedTo, Gpu!EveryoneIsPainted
  <2>3. Gpu!PaintedAsMeant
    <3> SUFFICES ASSUME NEW p \in DOMAIN passes, NEW k \in Gpu!Draws(passes[p]),
                        NEW i \in Gpu!Covers(passes[p], k)
                 PROVE  i \in Gpu!Visible /\ Gpu!AsMeant(passes[p], k, i)
      BY <1>4 DEF Gpu!PaintedAsMeant
    <3>1. i \in Gpu!Visible /\ MeantBy(passes[p], params, k, i)
      BY <1>5 DEF PaintedTo
    <3> QED
      BY <1>4, <3>1 DEF MeantBy, Gpu!AsMeant
  <2>4. Gpu!PaintedInOrder
    BY <1>4, <1>5 DEF PaintedTo, Gpu!PaintedInOrder
  <2>5. Gpu!ClearedFirst
    BY <1>4, <1>5 DEF PaintedTo, Gpu!ClearedFirst
  <2> QED
    BY <2>2, <2>3, <2>4, <2>5
<1>7. Gpu!ImagesAreDrawn
  <2> SUFFICES ASSUME Gpu!Encoded, Cardinality(Gpu!Images) <= MaxTextures,
                      NEW p \in DOMAIN passes, passes[p].pass = "scene",
                      NEW k \in Gpu!Draws(passes[p]), NEW i \in Gpu!Covers(passes[p], k)
               PROVE  passes[p].draws[k].texture = instances[i].key
    BY <1>4, SameCardinality DEF Gpu!ImagesAreDrawn
  <2>1. i \in 1 .. n /\ MeantBy(passes[p], params, k, i)
    BY <1>3, <1>5 DEF PaintedTo
  <2>2. passes[p].draws[k].texture = Gpu!Texture(instances[i].key)
    <3>1. passes[p].pass # "blur"
      OBVIOUS
    <3> QED
      BY <2>1, <3>1 DEF MeantBy
  <2>3. PICK key : key = instances[i].key
    OBVIOUS
  <2>4. CASE key = None
    BY <2>2, <2>3, <2>4 DEF Gpu!Texture
  <2>5. CASE key # None
    <3>1. key \in Gpu!Images
      BY <1>2, <2>1, <2>3, <2>5 DEF Gpu!Images
    <3>2. PICK m \in 0 .. Len(texture_assets) : Gpu!Images = Since(texture_assets, m)
      BY DEF WholeInv, ImagesAreRecent, Recent
    <3>3. PICK j \in m + 1 .. Len(texture_assets) : key = texture_assets[j]
      BY <3>1, <3>2 DEF Since
    <3>4. j \in DOMAIN texture_assets
      <4>1. PICK len \in Nat : len = Len(texture_assets) /\ DOMAIN texture_assets = 1 .. len
        BY LenProperties DEF WholeInv, GpuTyped
      <4> QED
        BY <4>1
    <3>5. key \in Gpu!Range(texture_assets)
      BY <3>3, <3>4 DEF Gpu!Range
    <3> QED
      BY <2>2, <2>3, <3>5 DEF Gpu!Texture
  <2> QED
    BY <2>4, <2>5
<1> QED
  BY <1>1, <1>6, <1>7 DEF WholeInv, FramesAreWhole

\* However a scene is split at its blurs and joined into batches, its passes paint
\* every visible instance once, as it is meant and in its place; each instance finds
\* its own data in the buffers, and its own image unless the frame has more images
\* than the cache: for any nodes, files and sizes of the cache.
THEOREM FramesAreAlwaysWhole == MCSpec => []FramesAreWhole
<1>1. MCInit => WholeInv
  BY WholeStarts DEF MCInit
<1>2. WholeInv /\ [MCNext]_<<part, vars, glyphVars, gpuVars, damageVars>> => WholeInv'
  <2> SUFFICES ASSUME WholeInv, [MCNext]_<<part, vars, glyphVars, gpuVars, damageVars>>
               PROVE  WholeInv'
    OBVIOUS
  <2>1. Gpu!Next \/ UNCHANGED gpuVars
    BY DEF MCNext, GpuNext
  <2>2. TargetInv /\ UNCHANGED gpuVars => TargetInv'
    BY DEF gpuVars, TargetInv, Targets, Gpu!Blurs
  <2>3. TargetInv'
    BY <2>1, <2>2, TargetStep DEF WholeInv
  <2> QED
    BY <2>1, <2>3, WholeStep
<1> QED
  BY <1>1, <1>2, WholeFrames, PTL DEF MCSpec

-----------------------------------------------------------------------------
(* Both *)

KeptInv == GlyphInv /\ DamageInv /\ TargetInv

\* What is kept from frame to frame is what it is taken for, for any glyphs, texts
\* and sizes of the atlas, and for any scenes: no upload takes the texels of a glyph
\* that is still drawn from them; and a backbuffer that is repainted where the
\* scene changed looks as if all of it had been, however the regions were merged.
THEOREM PixelsAreAlwaysKept == MCSpec => []PixelsAreKept
<1>1. MCInit => KeptInv
  <2>1. MCInit => GlyphInv /\ DamageInv
    BY GlyphStarts, DamageStarts DEF MCInit
  <2>2. MCInit => TargetInv
    BY TargetStarts DEF MCInit
  <2> QED
    BY <2>1, <2>2 DEF KeptInv
<1>2. KeptInv /\ [MCNext]_<<part, vars, glyphVars, gpuVars, damageVars>> => KeptInv'
  <2> SUFFICES ASSUME KeptInv, [MCNext]_<<part, vars, glyphVars, gpuVars, damageVars>>
               PROVE  KeptInv'
    OBVIOUS
  <2>1. Damage!Next \/ UNCHANGED damageVars
    BY DEF MCNext
  <2>2. Glyph!Next \/ UNCHANGED glyphVars
    BY DEF MCNext
  <2>3. Gpu!Next \/ UNCHANGED gpuVars
    BY DEF MCNext, GpuNext
  <2>4. TargetInv /\ UNCHANGED gpuVars => TargetInv'
    BY DEF gpuVars, TargetInv, Targets, Gpu!Blurs
  <2> QED
    BY <2>1, <2>2, <2>3, <2>4, DamageStep, GlyphStep, TargetStep DEF KeptInv
<1>3. KeptInv => PixelsAreKept
  <2> SUFFICES ASSUME KeptInv PROVE PixelsAreKept
    OBVIOUS
  <2>1. Glyph!TypeOK /\ Glyph!GlyphsKeepTheirTexels /\ Glyph!TextIsLegible /\ Glyph!UploadsAreBehind
    BY DEF KeptInv, GlyphInv, Glyph!TextIsLegible, Glyph!UploadsAreBehind
  <2>2. Damage!TypeOK /\ Damage!DamageSuffices /\ Damage!FollowsScene /\ Damage!FrameIsKept
    BY DEF KeptInv, DamageInv, Damage!DamageSuffices, Damage!FollowsScene, Damage!FrameIsKept
  <2>3. TargetInv => Gpu!DamageNeedsAFrame
    BY DEF TargetInv, Targets, Gpu!DamageNeedsAFrame, Gpu!Encoded
  <2> QED
    BY <2>1, <2>2, <2>3 DEF KeptInv, PixelsAreKept
<1> QED
  BY <1>1, <1>2, <1>3, PTL DEF MCSpec

=============================================================================
