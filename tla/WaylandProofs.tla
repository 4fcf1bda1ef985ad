---------------------------- MODULE WaylandProofs ----------------------------
(***************************************************************************)
(* Proofs about the Wayland layer.  The stages of a buffer are disjoint    *)
(* (OneStage in TypeOK) and the pools share no buffer (Owned); together    *)
(* they show that a frame is never written into a buffer the compositor    *)
(* holds, that no buffer of a pool is lost, and that a pool keeps one      *)
(* spare.  What InputDevicesProofs proves for any devices is then applied  *)
(* to the three instances of InputDevices in MCWayland.  Last, the outputs *)
(* and the registry: what settles an output is the last events about it    *)
(* that are in flight; a surface's id counts up.                           *)
(***************************************************************************)
EXTENDS MCWayland, FiniteSetTheorems, SequenceTheorems, TLAPS

\* Ids in use were handed out, and a buffer belongs to one pool at most.
Owned ==
    /\ \A s \in Surfaces : \A b \in shm_buffers[s] : b <= made
    /\ \A b \in held \cup releasing \cup released_buffers : b <= made
    /\ \A r, s \in Surfaces : r # s => shm_buffers[r] \cap shm_buffers[s] = {}

IInv == TypeOK /\ Owned /\ NoBufferLost

LEMMA DroppedAreReleased ==
    ASSUME NEW s \in Surfaces, NEW z \in Sizes
    PROVE  Dropped(s, z) \subseteq shm_buffers[s] \cap released_buffers
BY DEF Dropped

LEMMA InductiveStep ==
    ASSUME IInv, [Next]_vars PROVE IInv' /\ (written' \notin held \/ UNCHANGED vars)
<1> USE MaxBuffersIsNatural DEF IInv, TypeOK, OneStage, Owned, NoBufferLost, Buffers, NoBuffer,
        pools, compositor
<1>1. ASSUME NEW s \in Surfaces, NEW z \in Sizes, SubmitFrame(s, z)
      PROVE  IInv' /\ written' \notin held
  <2>1. PICK b \in Buffers :
          /\ Acquired(s, z, b)
          /\ shm_buffers' = [shm_buffers EXCEPT ![s] = (@ \ Dropped(s, z)) \cup {b}]
          /\ released_buffers' = released_buffers \ (Dropped(s, z) \cup {b})
          /\ Commit(b)
    BY <1>1 DEF SubmitFrame
  <2>2. destroyed' = destroyed
    BY <1>1 DEF SubmitFrame
  <2> DEFINE gone == Dropped(s, z)
  <2>3. gone \subseteq shm_buffers[s] \cap released_buffers
    BY DroppedAreReleased
  <2> HIDE DEF gone
  <2>4. /\ shm_buffers' = [shm_buffers EXCEPT ![s] = (@ \ gone) \cup {b}]
        /\ released_buffers' = released_buffers \ (gone \cup {b})
        /\ held' = held \cup {b} /\ releasing' = releasing /\ written' = b
    BY <2>1 DEF Commit, gone
  <2>5. CASE b \in Reusable(s, z) /\ UNCHANGED <<made, dims>>
    <3>1. b \in shm_buffers[s] \cap released_buffers
      BY <2>5 DEF Reusable
    <3>2. b \notin held \cup releasing
      BY <3>1
    <3>3. TypeOK'
      BY <2>2, <2>4, <2>5, <3>2
    <3>4. Owned'
      BY <2>4, <2>5, <3>1
    <3>5. NoBufferLost'
      BY <2>3, <2>4, <3>1
    <3> QED
      BY <2>4, <3>2, <3>3, <3>4, <3>5
  <2>6. CASE /\ made < MaxBuffers /\ b = made + 1 /\ made' = b
             /\ dims' = [dims EXCEPT ![b] = z]
    <3>1. b \notin held \cup releasing \cup released_buffers
      BY <2>6
    <3>2. \A r \in Surfaces : b \notin shm_buffers[r]
      BY <2>6
    <3>3. TypeOK'
      <4>1. shm_buffers' \in [Surfaces -> SUBSET Buffers]
        BY <2>4
      <4>2. made' \in 0 .. MaxBuffers /\ dims' \in [Buffers -> Sizes \cup {NoSize}]
        BY <2>6
      <4>3. /\ written' \in Buffers \cup {NoBuffer} /\ destroyed' \subseteq Surfaces
            /\ held' \subseteq Buffers /\ releasing' \subseteq Buffers
            /\ released_buffers' \subseteq Buffers
        BY <2>2, <2>4
      <4>4. OneStage'
        BY <2>4, <3>1
      <4> QED
        BY <4>1, <4>2, <4>3, <4>4
    <3>4. Owned'
      BY <2>4, <2>6, <3>2
    <3>5. NoBufferLost'
      BY <2>3, <2>4, <3>1, <3>2
    <3> QED
      BY <2>4, <3>1, <3>3, <3>4, <3>5
  <2> QED
    BY <2>1, <2>5, <2>6 DEF Acquired
<1>2. ASSUME NEW s \in Surfaces, NEW z \in Sizes, SubmitFails(s, z)
      PROVE  IInv' /\ written' \notin held
  <2> DEFINE gone == Dropped(s, z)
  <2>1. gone \subseteq shm_buffers[s] \cap released_buffers
    BY DroppedAreReleased
  <2>2. /\ shm_buffers' = [shm_buffers EXCEPT ![s] = @ \ gone]
        /\ released_buffers' = released_buffers \ gone
        /\ written' = NoBuffer
        /\ UNCHANGED <<made, dims, destroyed, held, releasing>>
    BY <1>2 DEF SubmitFails
  <2> HIDE DEF gone
  <2> QED
    BY <2>1, <2>2
<1>3. ASSUME NEW s \in Surfaces, NEW z \in Sizes, AttachSolidBuffer(s, z)
      PROVE  IInv' /\ written' \notin held
  BY <1>3 DEF AttachSolidBuffer, Commit
<1>4. ASSUME NEW s \in Surfaces, DestroySurface(s)
      PROVE  IInv' /\ written' \notin held
  <2>1. /\ shm_buffers' = [shm_buffers EXCEPT ![s] = {}]
        /\ releasing' = releasing \ shm_buffers[s] /\ held' = held \ shm_buffers[s]
        /\ released_buffers' = released_buffers /\ written' = NoBuffer
        /\ destroyed' = destroyed \cup {s} /\ made' = made /\ dims' = dims
    BY <1>4 DEF DestroySurface
  <2>2. TypeOK'
    BY <2>1
  <2>3. Owned'
    BY <2>1
  <2>4. ASSUME NEW r \in Surfaces, NEW b \in shm_buffers'[r]
        PROVE  b \in held' \cup releasing' \cup released_buffers'
    <3>1. r # s /\ b \in shm_buffers[r] /\ b \notin shm_buffers[s]
      BY <2>1, <2>4
    <3> QED
      BY <2>1, <3>1
  <2> QED
    BY <2>1, <2>2, <2>3, <2>4
<1>5. ASSUME NEW b \in Buffers, Release(b)
      PROVE  IInv' /\ written' \notin held
  BY <1>5 DEF Release
<1>6. ASSUME NEW b \in Buffers, DispatchRelease(b)
      PROVE  IInv' /\ written' \notin held
  BY <1>6 DEF DispatchRelease
<1>7. CASE UNCHANGED vars
  BY <1>7 DEF vars
<1> QED
  BY <1>1, <1>2, <1>3, <1>4, <1>5, <1>6, <1>7 DEF Next

\* The inductive invariant holds for any number of surfaces, sizes and buffers.
THEOREM BuffersAreTracked == Spec => []IInv
<1>1. Init => IInv
  BY MaxBuffersIsNatural DEF Init, IInv, TypeOK, OneStage, Owned, NoBufferLost, Buffers, NoBuffer
<1>2. IInv /\ [Next]_vars => IInv'
  BY InductiveStep
<1> QED
  BY <1>1, <1>2, PTL DEF Spec

\* The variables keep their types, and a buffer is in one stage at a time.
THEOREM TypeCorrect == Spec => []TypeOK
BY BuffersAreTracked, PTL DEF IInv

\* No buffer of a pool is out of reach of a later frame for good.
THEOREM NoBufferIsLost == Spec => []NoBufferLost
BY BuffersAreTracked, PTL DEF IInv

\* No frame is copied into a buffer that the compositor may be reading.
THEOREM FramesAreNeverTorn == Spec => HeldBuffersKeepTheirFrame
<1>1. IInv /\ [Next]_vars => [written' \notin held]_vars
  BY InductiveStep
<1> QED
  BY <1>1, BuffersAreTracked, PTL DEF Spec, HeldBuffersKeepTheirFrame

\* At most one element of a set is neither its least nor comes after two of it.
LEMMA OneSpare ==
    ASSUME NEW R \in SUBSET Buffers, NEW spare \in SUBSET R,
           \A c \in spare : Cardinality({d \in R : d < c}) < 2,
           NEW b \in R, \A c \in R : b <= c, b \notin spare
    PROVE  Cardinality(spare) <= 1
<1> USE MaxBuffersIsNatural DEF Buffers
<1>1. ASSUME NEW c \in spare, NEW d \in spare, c < d PROVE FALSE
  <2> DEFINE below == {x \in R : x < d}
  <2>1. b # c /\ {b, c} \subseteq below
    BY <1>1
  <2>2. IsFiniteSet(below)
    <3>1. IsFiniteSet(1 .. MaxBuffers)
      BY FS_Interval
    <3> QED
      BY <3>1, FS_Subset
  <2>3. Cardinality({b, c}) = 2
    <3>1. IsFiniteSet({c}) /\ Cardinality({c}) = 1
      BY FS_Singleton
    <3>2. {b, c} = {c} \cup {b}
      OBVIOUS
    <3> QED
      BY <2>1, <3>1, <3>2, FS_AddElement
  <2>4. Cardinality({b, c}) <= Cardinality(below) /\ Cardinality(below) \in Nat
    BY <2>1, <2>2, FS_Subset, FS_CardinalityType
  <2>5. Cardinality(below) < 2
    BY <1>1
  <2> HIDE DEF below
  <2> QED
    BY <2>3, <2>4, <2>5
<1>2. \A c, d \in spare : c = d
  BY <1>1
<1>3. CASE spare = {}
  BY <1>3, FS_EmptySet
<1>4. ASSUME NEW c \in spare PROVE Cardinality(spare) <= 1
  <2>1. spare = {c}
    BY <1>2, <1>4
  <2> QED
    BY <2>1, FS_Singleton
<1> QED
  BY <1>3, <1>4

\* After every frame at most one released buffer remains in the pool, and it has the size
\* of the frame, whatever was released or resized between two frames.
THEOREM PoolsAreDoubleBuffered == Spec => DoubleBuffered
<1>1. ASSUME IInv, NEW s \in Surfaces, NEW z \in Sizes, SubmitFrame(s, z),
             NEW spare, spare = shm_buffers'[s] \cap released_buffers'
      PROVE  Cardinality(spare) <= 1 /\ \A b \in spare : dims'[b] = z
  <2>1. PICK b \in Buffers :
          /\ Acquired(s, z, b)
          /\ shm_buffers' = [shm_buffers EXCEPT ![s] = (@ \ Dropped(s, z)) \cup {b}]
          /\ released_buffers' = released_buffers \ (Dropped(s, z) \cup {b})
    BY <1>1 DEF SubmitFrame
  <2>2. shm_buffers'[s] = (shm_buffers[s] \ Dropped(s, z)) \cup {b}
    BY <1>1, <2>1 DEF IInv, TypeOK
  <2>3. spare \subseteq (shm_buffers[s] \cap released_buffers) \ (Dropped(s, z) \cup {b})
    BY <1>1, <2>1, <2>2
  <2>4. \A c \in spare : /\ c \in Reusable(s, z) /\ dims[c] = z /\ c # b
                         /\ ~(Cardinality({d \in Reusable(s, z) : d < c}) >= 2)
    BY <2>3 DEF Dropped, Reusable
  <2>5. Reusable(s, z) \in SUBSET Buffers
    BY <1>1 DEF Reusable, IInv, TypeOK
  <2>6. \A c \in spare : Cardinality({d \in Reusable(s, z) : d < c}) < 2
    <3> SUFFICES ASSUME NEW c \in spare PROVE Cardinality({d \in Reusable(s, z) : d < c}) < 2
      OBVIOUS
    <3> DEFINE below == {d \in Reusable(s, z) : d < c}
    <3>1. IsFiniteSet(1 .. MaxBuffers)
      BY MaxBuffersIsNatural, FS_Interval
    <3>2. IsFiniteSet(below)
      BY <2>5, <3>1, FS_Subset DEF Buffers
    <3>3. Cardinality(below) \in Nat
      BY <3>2, FS_CardinalityType
    <3>4. ~(Cardinality(below) >= 2)
      BY <2>4
    <3> HIDE DEF below
    <3>5. Cardinality(below) < 2
      BY <3>3, <3>4
    <3> QED
      BY <3>5 DEF below
  <2>7. \A c \in spare : dims'[c] = z
    BY <1>1, <2>1, <2>4 DEF Acquired, IInv, TypeOK
  <2>8. Cardinality(spare) <= 1
    <3>1. CASE b \in Reusable(s, z) /\ \A c \in Reusable(s, z) : b <= c
      <4>1. spare \in SUBSET Reusable(s, z) /\ b \notin spare
        BY <2>4
      <4> QED
        BY <2>5, <2>6, <3>1, <4>1, OneSpare
    <3>2. CASE Reusable(s, z) = {}
      <4>1. spare = {}
        BY <2>4, <3>2
      <4> QED
        BY <4>1, FS_EmptySet
    <3> QED
      BY <2>1, <3>1, <3>2 DEF Acquired
  <2> QED
    BY <2>7, <2>8
<1>2. IInv /\ [Next]_vars =>
          [\A s \in Surfaces, z \in Sizes : SubmitFrame(s, z) =>
               LET spare == shm_buffers'[s] \cap released_buffers'
               IN  Cardinality(spare) <= 1 /\ \A b \in spare : dims'[b] = z]_vars
  BY <1>1
<1> QED
  BY <1>2, BuffersAreTracked, PTL DEF Spec, DoubleBuffered

-----------------------------------------------------------------------------
(* The instances of InputDevices *)

KeyboardProofs == INSTANCE InputDevicesProofs WITH
    Surfaces <- {"panel"}, Devices <- {"keyboard"}, HasCursorShape <- TRUE,
    Keys <- {"q", "s"}, Keymaps <- {"us", "swapped"}, Keysym <- Layouts, ModifierSyms <- {"Shift"},
    Rates <- {-1, 50, 200}, Second <- 100, Delay <- 3, Buttons <- {}, Scenes <- {<<>>},
    MaxScopes <- 1, MaxEvents <- 1, MaxLate <- 3, compositor <- compositor_input

PointerProofs == INSTANCE InputDevicesProofs WITH
    Surfaces <- {"panel", "menu"}, Devices <- {"pointer"}, HasCursorShape <- TRUE,
    Keys <- {}, Keymaps <- {}, Keysym <- <<>>, ModifierSyms <- {}, Rates <- {},
    Second <- 100, Delay <- 3, Buttons <- {"left"}, Scenes <- {<<Node(1, "ok")>>},
    MaxScopes <- 1, MaxEvents <- 3, MaxLate <- 0, compositor <- compositor_input

FocusProofs == INSTANCE InputDevicesProofs WITH
    Surfaces <- {"panel"}, Devices <- {"keyboard"}, HasCursorShape <- FALSE,
    Keys <- {"esc"}, Keymaps <- {"us"}, Keysym <- Layouts, ModifierSyms <- {"Shift"},
    Rates <- {}, Second <- 100, Delay <- 3, Buttons <- {},
    Scenes <- {<<Node(1, "ok"), Node(2, None)>>, <<Node(2, None), Node(3, "ok")>>, <<>>},
    MaxScopes <- 2, MaxEvents <- 1, MaxLate <- 0, compositor <- compositor_input

LEMMA ConstantsOfKeyboard == KeyboardProofs!ConstantsAreMeant
BY NoneIsNoLayout DEF KeyboardProofs!ConstantsAreMeant, KeyboardProofs!ToSet

LEMMA ConstantsOfPointer == PointerProofs!ConstantsAreMeant
BY DEF PointerProofs!ConstantsAreMeant, PointerProofs!ToSet, Node

LEMMA ConstantsOfFocus == FocusProofs!ConstantsAreMeant
BY NoneIsNoLayout DEF FocusProofs!ConstantsAreMeant, FocusProofs!ToSet, Node

\* The instances here and those of the proofs have the same starts and the same steps.
LEMMA KeyboardStarts ==
    ASSUME Keyboard!Init PROVE KeyboardProofs!Init
BY DEF Keyboard!Init, Keyboard!BlankScope, KeyboardProofs!Init, KeyboardProofs!BlankScope

LEMMA KeyboardSteps ==
    ASSUME Keyboard!Next PROVE KeyboardProofs!Next
BY DEF
   Keyboard!Next, Keyboard!Capabilities, Keyboard!PointerEnter, Keyboard!KeyboardEnter,
   Keyboard!KeyboardLeave, Keyboard!Tick, Keyboard!PollRepeat, Keyboard!RepeatInfo,
   Keyboard!Keymap, Keyboard!KeyPressed, Keyboard!KeyReleased, Keyboard!PointerMotion,
   Keyboard!PointerLeave, Keyboard!PointerAxis, Keyboard!PointerButton, Keyboard!Drain,
   Keyboard!ResolveFocus, Keyboard!PushScope, Keyboard!PopScope, Keyboard!SetFocus,
   Keyboard!SetFocusWithMeta, Keyboard!ClearFocus, Keyboard!TakeFocusEvents, Keyboard!Rebuild,
   Keyboard!Synced, Keyboard!Room, Keyboard!Push, Keyboard!Interval, Keyboard!Dispatch,
   Keyboard!StopsRepeating, Keyboard!NextWait, Keyboard!Places, Keyboard!Least, Keyboard!NodeAt,
   Keyboard!Resolved, Keyboard!SetTop, Keyboard!BlankScope, Keyboard!Widgets, Keyboard!Names,
   Keyboard!keyboardVars, Keyboard!pointerVars, Keyboard!queueVars, Keyboard!focusVars,
   Keyboard!vars, Keyboard!Last, Keyboard!Front, Keyboard!ToSet, Keyboard!Max,
   KeyboardProofs!Next, KeyboardProofs!Capabilities, KeyboardProofs!PointerEnter,
   KeyboardProofs!KeyboardEnter, KeyboardProofs!KeyboardLeave, KeyboardProofs!Tick,
   KeyboardProofs!PollRepeat, KeyboardProofs!RepeatInfo, KeyboardProofs!Keymap,
   KeyboardProofs!KeyPressed, KeyboardProofs!KeyReleased, KeyboardProofs!PointerMotion,
   KeyboardProofs!PointerLeave, KeyboardProofs!PointerAxis, KeyboardProofs!PointerButton,
   KeyboardProofs!Drain, KeyboardProofs!ResolveFocus, KeyboardProofs!PushScope,
   KeyboardProofs!PopScope, KeyboardProofs!SetFocus, KeyboardProofs!SetFocusWithMeta,
   KeyboardProofs!ClearFocus, KeyboardProofs!TakeFocusEvents, KeyboardProofs!Rebuild,
   KeyboardProofs!Synced, KeyboardProofs!Room, KeyboardProofs!Push, KeyboardProofs!Interval,
   KeyboardProofs!Dispatch, KeyboardProofs!StopsRepeating, KeyboardProofs!NextWait,
   KeyboardProofs!Places, KeyboardProofs!Least, KeyboardProofs!NodeAt, KeyboardProofs!Resolved,
   KeyboardProofs!SetTop, KeyboardProofs!BlankScope, KeyboardProofs!Widgets,
   KeyboardProofs!Names, KeyboardProofs!keyboardVars, KeyboardProofs!pointerVars,
   KeyboardProofs!queueVars, KeyboardProofs!focusVars, KeyboardProofs!vars, KeyboardProofs!Last,
   KeyboardProofs!Front, KeyboardProofs!ToSet, KeyboardProofs!Max

LEMMA KeyboardMeans ==
    ASSUME KeyboardProofs!TypeOK, KeyboardProofs!DevicesAreTracked
    PROVE  Keyboard!TypeOK /\ Keyboard!DevicesAreTracked
BY DEF
   Keyboard!TypeOK, Keyboard!Scopes, Keyboard!Widgets, Keyboard!Names,
   Keyboard!DevicesAreTracked, Keyboard!KeysRepeatWhileHeld, Keyboard!RepeatsDoNotPile,
   Keyboard!PointerIsTracked, Keyboard!InputIsAnnounced, Keyboard!ToSet, KeyboardProofs!TypeOK,
   KeyboardProofs!Scopes, KeyboardProofs!Widgets, KeyboardProofs!Names,
   KeyboardProofs!DevicesAreTracked, KeyboardProofs!KeysRepeatWhileHeld,
   KeyboardProofs!RepeatsDoNotPile, KeyboardProofs!PointerIsTracked,
   KeyboardProofs!InputIsAnnounced, KeyboardProofs!ToSet

LEMMA PointerStarts ==
    ASSUME Pointer!Init PROVE PointerProofs!Init
BY DEF Pointer!Init, Pointer!BlankScope, PointerProofs!Init, PointerProofs!BlankScope

LEMMA PointerSteps ==
    ASSUME Pointer!Next PROVE PointerProofs!Next
BY DEF
   Pointer!Next, Pointer!Capabilities, Pointer!PointerEnter, Pointer!KeyboardEnter,
   Pointer!KeyboardLeave, Pointer!Tick, Pointer!PollRepeat, Pointer!RepeatInfo, Pointer!Keymap,
   Pointer!KeyPressed, Pointer!KeyReleased, Pointer!PointerMotion, Pointer!PointerLeave,
   Pointer!PointerAxis, Pointer!PointerButton, Pointer!Drain, Pointer!ResolveFocus,
   Pointer!PushScope, Pointer!PopScope, Pointer!SetFocus, Pointer!SetFocusWithMeta,
   Pointer!ClearFocus, Pointer!TakeFocusEvents, Pointer!Rebuild, Pointer!Synced, Pointer!Room,
   Pointer!Push, Pointer!Interval, Pointer!Dispatch, Pointer!StopsRepeating, Pointer!NextWait,
   Pointer!Places, Pointer!Least, Pointer!NodeAt, Pointer!Resolved, Pointer!SetTop,
   Pointer!BlankScope, Pointer!Widgets, Pointer!Names, Pointer!keyboardVars,
   Pointer!pointerVars, Pointer!queueVars, Pointer!focusVars, Pointer!vars, Pointer!Last,
   Pointer!Front, Pointer!ToSet, Pointer!Max, PointerProofs!Next, PointerProofs!Capabilities,
   PointerProofs!PointerEnter, PointerProofs!KeyboardEnter, PointerProofs!KeyboardLeave,
   PointerProofs!Tick, PointerProofs!PollRepeat, PointerProofs!RepeatInfo, PointerProofs!Keymap,
   PointerProofs!KeyPressed, PointerProofs!KeyReleased, PointerProofs!PointerMotion,
   PointerProofs!PointerLeave, PointerProofs!PointerAxis, PointerProofs!PointerButton,
   PointerProofs!Drain, PointerProofs!ResolveFocus, PointerProofs!PushScope,
   PointerProofs!PopScope, PointerProofs!SetFocus, PointerProofs!SetFocusWithMeta,
   PointerProofs!ClearFocus, PointerProofs!TakeFocusEvents, PointerProofs!Rebuild,
   PointerProofs!Synced, PointerProofs!Room, PointerProofs!Push, PointerProofs!Interval,
   PointerProofs!Dispatch, PointerProofs!StopsRepeating, PointerProofs!NextWait,
   PointerProofs!Places, PointerProofs!Least, PointerProofs!NodeAt, PointerProofs!Resolved,
   PointerProofs!SetTop, PointerProofs!BlankScope, PointerProofs!Widgets, PointerProofs!Names,
   PointerProofs!keyboardVars, PointerProofs!pointerVars, PointerProofs!queueVars,
   PointerProofs!focusVars, PointerProofs!vars, PointerProofs!Last, PointerProofs!Front,
   PointerProofs!ToSet, PointerProofs!Max

LEMMA PointerMeans ==
    ASSUME PointerProofs!TypeOK, PointerProofs!DevicesAreTracked
    PROVE  Pointer!TypeOK /\ Pointer!DevicesAreTracked
BY DEF
   Pointer!TypeOK, Pointer!Scopes, Pointer!Widgets, Pointer!Names, Pointer!DevicesAreTracked,
   Pointer!KeysRepeatWhileHeld, Pointer!RepeatsDoNotPile, Pointer!PointerIsTracked,
   Pointer!InputIsAnnounced, Pointer!ToSet, PointerProofs!TypeOK, PointerProofs!Scopes,
   PointerProofs!Widgets, PointerProofs!Names, PointerProofs!DevicesAreTracked,
   PointerProofs!KeysRepeatWhileHeld, PointerProofs!RepeatsDoNotPile,
   PointerProofs!PointerIsTracked, PointerProofs!InputIsAnnounced, PointerProofs!ToSet

LEMMA FocusStarts ==
    ASSUME Focus!Init PROVE FocusProofs!Init
BY DEF Focus!Init, Focus!BlankScope, FocusProofs!Init, FocusProofs!BlankScope

LEMMA FocusSteps ==
    ASSUME Focus!Next PROVE FocusProofs!Next
BY DEF
   Focus!Next, Focus!Capabilities, Focus!PointerEnter, Focus!KeyboardEnter, Focus!KeyboardLeave,
   Focus!Tick, Focus!PollRepeat, Focus!RepeatInfo, Focus!Keymap, Focus!KeyPressed,
   Focus!KeyReleased, Focus!PointerMotion, Focus!PointerLeave, Focus!PointerAxis,
   Focus!PointerButton, Focus!Drain, Focus!ResolveFocus, Focus!PushScope, Focus!PopScope,
   Focus!SetFocus, Focus!SetFocusWithMeta, Focus!ClearFocus, Focus!TakeFocusEvents,
   Focus!Rebuild, Focus!Synced, Focus!Room, Focus!Push, Focus!Interval, Focus!Dispatch,
   Focus!StopsRepeating, Focus!NextWait, Focus!Places, Focus!Least, Focus!NodeAt,
   Focus!Resolved, Focus!SetTop, Focus!BlankScope, Focus!Widgets, Focus!Names,
   Focus!keyboardVars, Focus!pointerVars, Focus!queueVars, Focus!focusVars, Focus!vars,
   Focus!Last, Focus!Front, Focus!ToSet, Focus!Max, FocusProofs!Next, FocusProofs!Capabilities,
   FocusProofs!PointerEnter, FocusProofs!KeyboardEnter, FocusProofs!KeyboardLeave,
   FocusProofs!Tick, FocusProofs!PollRepeat, FocusProofs!RepeatInfo, FocusProofs!Keymap,
   FocusProofs!KeyPressed, FocusProofs!KeyReleased, FocusProofs!PointerMotion,
   FocusProofs!PointerLeave, FocusProofs!PointerAxis, FocusProofs!PointerButton,
   FocusProofs!Drain, FocusProofs!ResolveFocus, FocusProofs!PushScope, FocusProofs!PopScope,
   FocusProofs!SetFocus, FocusProofs!SetFocusWithMeta, FocusProofs!ClearFocus,
   FocusProofs!TakeFocusEvents, FocusProofs!Rebuild, FocusProofs!Synced, FocusProofs!Room,
   FocusProofs!Push, FocusProofs!Interval, FocusProofs!Dispatch, FocusProofs!StopsRepeating,
   FocusProofs!NextWait, FocusProofs!Places, FocusProofs!Least, FocusProofs!NodeAt,
   FocusProofs!Resolved, FocusProofs!SetTop, FocusProofs!BlankScope, FocusProofs!Widgets,
   FocusProofs!Names, FocusProofs!keyboardVars, FocusProofs!pointerVars, FocusProofs!queueVars,
   FocusProofs!focusVars, FocusProofs!vars, FocusProofs!Last, FocusProofs!Front,
   FocusProofs!ToSet, FocusProofs!Max

LEMMA FocusMeans ==
    ASSUME FocusProofs!TypeOK, FocusProofs!DevicesAreTracked
    PROVE  Focus!TypeOK /\ Focus!DevicesAreTracked
BY DEF
   Focus!TypeOK, Focus!Scopes, Focus!Widgets, Focus!Names, Focus!DevicesAreTracked,
   Focus!KeysRepeatWhileHeld, Focus!RepeatsDoNotPile, Focus!PointerIsTracked,
   Focus!InputIsAnnounced, Focus!ToSet, FocusProofs!TypeOK, FocusProofs!Scopes,
   FocusProofs!Widgets, FocusProofs!Names, FocusProofs!DevicesAreTracked,
   FocusProofs!KeysRepeatWhileHeld, FocusProofs!RepeatsDoNotPile, FocusProofs!PointerIsTracked,
   FocusProofs!InputIsAnnounced, FocusProofs!ToSet

\* The invariants of the instances that move.
InputsInv ==
    /\ part \in Parts
    /\ part = "keyboard" => KeyboardProofs!InputInv
    /\ part = "pointer" => PointerProofs!InputInv
    /\ part = "focus" => FocusProofs!InputInv

LEMMA InputsStart == MCInit => InputsInv
<1> SUFFICES ASSUME MCInit PROVE InputsInv
  OBVIOUS
<1>1. /\ part = "keyboard" => Keyboard!Init
      /\ part = "pointer" => Pointer!Init
      /\ part = "focus" => Focus!Init
  BY DEF MCInit
<1>2. ASSUME Keyboard!Init PROVE KeyboardProofs!InputInv
  BY <1>2, KeyboardStarts, ConstantsOfKeyboard, KeyboardProofs!InputStart
<1>3. ASSUME Pointer!Init PROVE PointerProofs!InputInv
  BY <1>3, PointerStarts, ConstantsOfPointer, PointerProofs!InputStart
<1>4. ASSUME Focus!Init PROVE FocusProofs!InputInv
  BY <1>4, FocusStarts, ConstantsOfFocus, FocusProofs!InputStart
<1> QED
  BY <1>1, <1>2, <1>3, <1>4 DEF MCInit, InputsInv

LEMMA KeyboardKeeps ==
    ASSUME KeyboardProofs!InputInv, Keyboard!Next \/ UNCHANGED inputVars
    PROVE  KeyboardProofs!InputInv'
<1>1. [KeyboardProofs!Next]_(KeyboardProofs!vars)
  BY KeyboardSteps DEF inputVars, KeyboardProofs!vars, KeyboardProofs!keyboardVars, KeyboardProofs!pointerVars,
     KeyboardProofs!queueVars, KeyboardProofs!focusVars
<1> QED
  BY <1>1, ConstantsOfKeyboard, KeyboardProofs!InputStep

LEMMA PointerKeeps ==
    ASSUME PointerProofs!InputInv, Pointer!Next \/ UNCHANGED inputVars
    PROVE  PointerProofs!InputInv'
<1>1. [PointerProofs!Next]_(PointerProofs!vars)
  BY PointerSteps DEF inputVars, PointerProofs!vars, PointerProofs!keyboardVars, PointerProofs!pointerVars,
     PointerProofs!queueVars, PointerProofs!focusVars
<1> QED
  BY <1>1, ConstantsOfPointer, PointerProofs!InputStep

LEMMA FocusKeeps ==
    ASSUME FocusProofs!InputInv, Focus!Next \/ UNCHANGED inputVars
    PROVE  FocusProofs!InputInv'
<1>1. [FocusProofs!Next]_(FocusProofs!vars)
  BY FocusSteps DEF inputVars, FocusProofs!vars, FocusProofs!keyboardVars, FocusProofs!pointerVars,
     FocusProofs!queueVars, FocusProofs!focusVars
<1> QED
  BY <1>1, ConstantsOfFocus, FocusProofs!InputStep

LEMMA InputsStep ==
    ASSUME InputsInv, [MCNext]_<<part, vars, inputVars, outputVars, registryVars>>
    PROVE  InputsInv'
<1>1. part' = part
  BY DEF MCNext
<1>2. /\ part = "keyboard" => Keyboard!Next \/ UNCHANGED inputVars
      /\ part = "pointer" => Pointer!Next \/ UNCHANGED inputVars
      /\ part = "focus" => Focus!Next \/ UNCHANGED inputVars
  BY DEF MCNext
<1> QED
  BY <1>1, <1>2, KeyboardKeeps, PointerKeeps, FocusKeeps DEF InputsInv

\* The handlers of keyboard and pointer know what the compositor has said of them, in each
\* of the instances: only what is held repeats, and input is announced.
THEOREM DevicesAlwaysTracked == MCSpec => []DevicesAreTracked
<1>1. ASSUME InputsInv PROVE DevicesAreTracked
  <2>1. ASSUME KeyboardProofs!InputInv PROVE Keyboard!TypeOK /\ Keyboard!DevicesAreTracked
    <3>1. KeyboardProofs!TypeOK
      BY <2>1, KeyboardProofs!InputIsTyped
    <3>2. KeyboardProofs!DevicesAreTracked
      BY <2>1, KeyboardProofs!DevicesFollow DEF KeyboardProofs!InputInv
    <3> QED
      BY <3>1, <3>2, KeyboardMeans
  <2>2. ASSUME PointerProofs!InputInv PROVE Pointer!TypeOK /\ Pointer!DevicesAreTracked
    <3>1. PointerProofs!TypeOK
      BY <2>2, PointerProofs!InputIsTyped
    <3>2. PointerProofs!DevicesAreTracked
      BY <2>2, PointerProofs!DevicesFollow DEF PointerProofs!InputInv
    <3> QED
      BY <3>1, <3>2, PointerMeans
  <2>3. ASSUME FocusProofs!InputInv PROVE Focus!TypeOK /\ Focus!DevicesAreTracked
    <3>1. FocusProofs!TypeOK
      BY <2>3, FocusProofs!InputIsTyped
    <3>2. FocusProofs!DevicesAreTracked
      BY <2>3, FocusProofs!DevicesFollow DEF FocusProofs!InputInv
    <3> QED
      BY <3>1, <3>2, FocusMeans
  <2> QED
    BY <1>1, <2>1, <2>2, <2>3 DEF InputsInv, DevicesAreTracked
<1> QED
  BY <1>1, InputsStart, InputsStep, PTL DEF MCSpec

\* Resolving the focus of a scope finds its widget, or the one of its name, and the scopes
\* under it keep theirs.
THEOREM FocusAlwaysReturns == MCSpec => FocusReturns
<1>1. InputsInv /\ [MCNext]_<<part, vars, inputVars, outputVars, registryVars>>
          => [part = "focus" => Focus!FocusIsKept]_<<part, inputVars>>
  <2> SUFFICES ASSUME InputsInv, MCNext, part = "focus" PROVE Focus!FocusIsKept \/ UNCHANGED <<part, inputVars>>
    OBVIOUS
  <2>1. CASE Focus!Next
    <3>1. [FocusProofs!Next]_(FocusProofs!vars)
      BY <2>1, FocusSteps
    <3>2. FocusProofs!FocusInv
      BY DEF InputsInv, FocusProofs!InputInv
    <3>3. FocusProofs!FocusIsKept
      BY <3>1, <3>2, ConstantsOfFocus, FocusProofs!FocusStepKeeps
    <3> QED
      BY <3>3 DEF
         Focus!FocusIsKept, Focus!ResolveFocus, Focus!Resolved, Focus!Places, Focus!Least,
         Focus!NodeAt, Focus!Last, Focus!ToSet, Focus!keyboardVars, Focus!pointerVars,
         Focus!queueVars, FocusProofs!FocusIsKept, FocusProofs!ResolveFocus, FocusProofs!Resolved,
         FocusProofs!Places, FocusProofs!Least, FocusProofs!NodeAt, FocusProofs!Last,
         FocusProofs!ToSet, FocusProofs!keyboardVars, FocusProofs!pointerVars, FocusProofs!queueVars
  <2>2. CASE UNCHANGED <<part, inputVars>>
    BY <2>2
  <2> QED
    BY <2>1, <2>2 DEF MCNext
<1> QED
  BY <1>1, InputsStart, InputsStep, PTL DEF MCSpec, FocusReturns

-----------------------------------------------------------------------------
(* Outputs.  What the client will know of an output is settled by the last   *)
(* events about it that are in flight, and by what it knows where there are  *)
(* none; so the invariant speaks of places in InFlight, and its steps of how *)
(* they shift when the first event is handled and others are sent.           *)

InFlight == Output!InFlight
IsOf(event, kinds, g) == event.kind \in kinds /\ event.global = g

\* The last event of the kinds about g in flight.
Last(i, kinds, g) ==
    /\ i \in DOMAIN InFlight /\ IsOf(InFlight[i], kinds, g)
    /\ \A j \in DOMAIN InFlight : j > i => ~IsOf(InFlight[j], kinds, g)
NoneOf(kinds, g) == \A i \in DOMAIN InFlight : ~IsOf(InFlight[i], kinds, g)
Sizing == {"mode", "logical"}
OutputKinds == {"global", "remove", "mode", "logical", "name"}

\* A name whose output is gone and whose removal was dispatched is unheard of.
UnheardOf(g) == NoneOf(OutputKinds, g) /\ g \notin DOMAIN outputs

\* An output that is plugged in and not bound yet is announced by the only event of it.
Announced(g) ==
    /\ g \notin DOMAIN outputs
    /\ \E i \in DOMAIN InFlight :
          /\ IsOf(InFlight[i], {"global"}, g)
          /\ \A j \in DOMAIN InFlight : j # i => ~IsOf(InFlight[j], OutputKinds, g)

\* What is in flight, and what is known where nothing is, is what was said last.
Followed(g) ==
    /\ g \in DOMAIN outputs /\ g \in DOMAIN said
    /\ NoneOf({"global", "remove"}, g)
    /\ NoneOf({"name"}, g) => outputs[g].name = g
    /\ NoneOf({"mode"}, g) => outputs[g].mode = plugged[g]
    /\ \A i \in DOMAIN InFlight : Last(i, {"mode"}, g) => InFlight[i].mode = plugged[g]
    /\ NoneOf(Sizing, g) => outputs[g].size = said[g]
    /\ \A i \in DOMAIN InFlight : Last(i, Sizing, g) =>
           said[g] = Output!Size(InFlight[i].kind, InFlight[i].mode)
    /\ g \in xdg_output_bound <=> g \in xdg_live

OutputInv(g) ==
    /\ g \notin DOMAIN plugged /\ NoneOf({"remove"}, g) => UnheardOf(g)
    /\ \A i \in DOMAIN InFlight : IsOf(InFlight[i], {"remove"}, g) =>
           /\ g \notin DOMAIN plugged
           /\ \A j \in DOMAIN InFlight : j > i => ~IsOf(InFlight[j], OutputKinds, g)
    /\ g \in DOMAIN plugged \ live => Announced(g)
    /\ g \in live => Followed(g)

RoundtripInv ==
    \A i, j \in DOMAIN InFlight : IsOf(InFlight[i], {"synced"}, None) =>
        /\ pending_roundtrip
        /\ IsOf(InFlight[j], {"synced"}, None) => i = j

OutputsInv ==
    /\ Output!TypeOK
    /\ \A g \in Globals : OutputInv(g)
    /\ RoundtripInv
    /\ Output!BindingsFollowOutputs

\* What is sent comes behind what is in flight.
LEMMA SentBehind ==
    ASSUME NEW R \in Seq(Output!Events), queue \in Seq(Output!Events), wire \in Seq(Output!Events),
           queue' = queue, wire' = wire \o R
    PROVE  /\ InFlight \in Seq(Output!Events) /\ InFlight' \in Seq(Output!Events)
           /\ wire' \in Seq(Output!Events)
           /\ Len(InFlight') = Len(InFlight) + Len(R)
           /\ \A i \in DOMAIN InFlight : InFlight'[i] = InFlight[i]
           /\ \A k \in DOMAIN R : InFlight'[Len(InFlight) + k] = R[k]
BY DEF InFlight, Output!InFlight

\* Handling an event takes the first, and the answers come behind the others.
LEMMA FirstGone ==
    ASSUME NEW R \in Seq(Output!Events), queue \in Seq(Output!Events), wire \in Seq(Output!Events),
           queue # <<>>, queue' = Tail(queue), wire' = wire \o R
    PROVE  /\ InFlight \in Seq(Output!Events) /\ InFlight' \in Seq(Output!Events)
           /\ wire' \in Seq(Output!Events) /\ queue' \in Seq(Output!Events)
           /\ Len(InFlight) \in Nat \ {0} /\ Len(InFlight') = Len(InFlight) - 1 + Len(R)
           /\ InFlight[1] = Head(queue) /\ Head(queue) \in Output!Events
           /\ \A i \in DOMAIN InFlight : i > 1 => InFlight'[i - 1] = InFlight[i]
           /\ \A k \in DOMAIN R : InFlight'[Len(InFlight) - 1 + k] = R[k]
<1>1. /\ queue' \in Seq(Output!Events) /\ Len(queue') = Len(queue) - 1
      /\ \A i \in 1 .. Len(queue) - 1 : queue'[i] = queue[i + 1]
      /\ Len(queue) \in Nat \ {0} /\ Head(queue) = queue[1] /\ Head(queue) \in Output!Events
  OBVIOUS
<1>2. /\ wire' \in Seq(Output!Events) /\ Len(wire') = Len(wire) + Len(R)
      /\ \A i \in 1 .. Len(wire) : wire'[i] = wire[i]
      /\ \A i \in 1 .. Len(R) : wire'[Len(wire) + i] = R[i]
      /\ Len(wire) \in Nat /\ Len(R) \in Nat
  OBVIOUS
<1>3. /\ InFlight \in Seq(Output!Events) /\ Len(InFlight) = Len(queue) + Len(wire)
      /\ \A i \in 1 .. Len(queue) : InFlight[i] = queue[i]
      /\ \A i \in 1 .. Len(wire) : InFlight[Len(queue) + i] = wire[i]
  BY DEF InFlight, Output!InFlight
<1>4. /\ InFlight' \in Seq(Output!Events) /\ Len(InFlight') = Len(queue') + Len(wire')
      /\ \A i \in 1 .. Len(queue') : InFlight'[i] = queue'[i]
      /\ \A i \in 1 .. Len(wire') : InFlight'[Len(queue') + i] = wire'[i]
  BY <1>1, <1>2 DEF InFlight, Output!InFlight
<1>5. ASSUME NEW i \in DOMAIN InFlight, i > 1 PROVE InFlight'[i - 1] = InFlight[i]
  <2>1. i \in Nat /\ i <= Len(queue) + Len(wire)
    BY <1>3
  <2>2. CASE i <= Len(queue)
    <3>1. InFlight'[i - 1] = queue'[i - 1] /\ queue'[i - 1] = queue[i]
      BY <1>1, <1>4, <1>5, <2>1, <2>2
    <3> QED
      BY <1>3, <1>5, <2>1, <2>2, <3>1
  <2>3. CASE i > Len(queue)
    <3> DEFINE k == i - Len(queue)
    <3>1. k \in 1 .. Len(wire) /\ i = Len(queue) + k
      BY <1>1, <1>2, <2>1, <2>3
    <3> HIDE DEF k
    <3>2. InFlight'[i - 1] = wire'[k]
      BY <1>1, <1>2, <1>4, <3>1
    <3> QED
      BY <1>2, <1>3, <3>1, <3>2
  <2> QED
    BY <1>1, <2>1, <2>2, <2>3
<1>6. ASSUME NEW k \in DOMAIN R PROVE InFlight'[Len(InFlight) - 1 + k] = R[k]
  <2>1. k \in 1 .. Len(R)
    OBVIOUS
  <2>2. Len(InFlight) - 1 + k = Len(queue') + (Len(wire) + k)
    BY <1>1, <1>2, <1>3, <2>1
  <2>3. Len(wire) + k \in 1 .. Len(wire')
    BY <1>2, <2>1
  <2> QED
    BY <1>2, <1>4, <2>1, <2>2, <2>3
<1>7. Len(InFlight) \in Nat \ {0} /\ Len(InFlight') = Len(InFlight) - 1 + Len(R)
  BY <1>1, <1>2, <1>3, <1>4
<1>8. InFlight[1] = Head(queue)
  BY <1>1, <1>3
<1> QED
  BY <1>1, <1>2, <1>3, <1>4, <1>5, <1>6, <1>7, <1>8

\* V is W without its first d events and with others behind, and none of those is of g.
Shifted(W, V, d, g) ==
    /\ W \in Seq(Output!Events) /\ V \in Seq(Output!Events)
    /\ d <= Len(W) /\ Len(V) >= Len(W) - d
    /\ \A i \in DOMAIN W : i > d => V[i - d] = W[i]
    /\ \A i \in DOMAIN W : i <= d => ~IsOf(W[i], OutputKinds, g)
    /\ \A j \in DOMAIN V : j > Len(W) - d => ~IsOf(V[j], OutputKinds, g)

\* Events about g alone keep their order when others are handled and sent: d is 1 when the
\* first was handled.
LEMMA SameKinds ==
    ASSUME NEW g \in Globals, NEW K, K \subseteq OutputKinds,
           NEW d \in {0, 1}, NEW W, NEW V, W = InFlight, V = InFlight',
           Shifted(W, V, d, g)
    PROVE  /\ NoneOf(K, g)' <=> NoneOf(K, g)
           /\ \A j \in DOMAIN V : IsOf(V[j], K, g) => j + d \in DOMAIN W /\ V[j] = W[j + d]
           /\ \A j \in DOMAIN V : Last(j, K, g)' =>
                  j + d \in DOMAIN W /\ V[j] = W[j + d] /\ Last(j + d, K, g)
<1>0. /\ W \in Seq(Output!Events) /\ V \in Seq(Output!Events)
      /\ d <= Len(W) /\ Len(V) >= Len(W) - d
      /\ \A i \in DOMAIN W : i > d => V[i - d] = W[i]
      /\ \A i \in DOMAIN W : i <= d => ~IsOf(W[i], OutputKinds, g)
      /\ \A j \in DOMAIN V : j > Len(W) - d => ~IsOf(V[j], OutputKinds, g)
  BY DEF Shifted
<1>1. /\ DOMAIN W = 1 .. Len(W) /\ DOMAIN V = 1 .. Len(V) /\ Len(W) \in Nat /\ Len(V) \in Nat
  BY <1>0
<1>2. ASSUME NEW e, IsOf(e, K, g) PROVE IsOf(e, OutputKinds, g)
  BY <1>2 DEF IsOf
<1>3. ASSUME NEW j \in DOMAIN V, IsOf(V[j], K, g) PROVE j + d \in DOMAIN W /\ V[j] = W[j + d]
  <2>1. j <= Len(W) - d
    BY <1>0, <1>1, <1>2, <1>3
  <2>2. j + d \in DOMAIN W /\ j + d > d
    BY <1>0, <1>1, <2>1
  <2>3. V[(j + d) - d] = W[j + d]
    BY <1>0, <2>2
  <2> QED
    BY <1>0, <1>1, <2>2, <2>3
<1>4. ASSUME NEW i \in DOMAIN W, IsOf(W[i], K, g) PROVE i - d \in DOMAIN V /\ V[i - d] = W[i]
  <2>1. i > d
    BY <1>0, <1>1, <1>2, <1>4
  <2> QED
    BY <1>0, <1>1, <2>1
<1>5. NoneOf(K, g)' <=> NoneOf(K, g)
  <2>1. NoneOf(K, g)' <=> \A j \in DOMAIN V : ~IsOf(V[j], K, g)
    BY DEF NoneOf, IsOf
  <2>2. NoneOf(K, g) <=> \A i \in DOMAIN W : ~IsOf(W[i], K, g)
    BY DEF NoneOf
  <2> QED
    BY <1>3, <1>4, <2>1, <2>2
<1>6. ASSUME NEW j \in DOMAIN V, Last(j, K, g)'
      PROVE  j + d \in DOMAIN W /\ V[j] = W[j + d] /\ Last(j + d, K, g)
  <2>1. IsOf(V[j], K, g) /\ \A k \in DOMAIN V : k > j => ~IsOf(V[k], K, g)
    BY <1>6 DEF Last, IsOf
  <2>2. j + d \in DOMAIN W /\ V[j] = W[j + d]
    BY <1>3, <2>1
  <2>3. ASSUME NEW i \in DOMAIN W, i > j + d, IsOf(W[i], K, g) PROVE FALSE
    <3>1. i - d \in DOMAIN V /\ V[i - d] = W[i] /\ i - d > j
      BY <1>0, <1>1, <1>4, <2>3
    <3> QED
      BY <2>1, <2>3, <3>1
  <2> QED
    BY <2>1, <2>2, <2>3 DEF Last
<1> QED
  BY <1>3, <1>5, <1>6

\* What is known of g, and said of it.
SameOf(g) ==
    /\ (g \in DOMAIN plugged') <=> (g \in DOMAIN plugged)
    /\ (g \in live') <=> (g \in live)
    /\ (g \in xdg_live') <=> (g \in xdg_live)
    /\ (g \in DOMAIN outputs') <=> (g \in DOMAIN outputs)
    /\ (g \in xdg_output_bound') <=> (g \in xdg_output_bound)
    /\ (g \in DOMAIN said') <=> (g \in DOMAIN said)
    /\ g \in live => plugged'[g] = plugged[g] /\ said'[g] = said[g] /\ outputs'[g] = outputs[g]

LEMMA Elsewhere ==
    ASSUME NEW g \in Globals, OutputInv(g), SameOf(g),
           NEW d \in {0, 1}, NEW W, NEW V, W = InFlight, V = InFlight',
           Shifted(W, V, d, g)
    PROVE  OutputInv(g)'
<1>1. ASSUME NEW K, K \subseteq OutputKinds
      PROVE  /\ NoneOf(K, g)' <=> NoneOf(K, g)
             /\ \A j \in DOMAIN V : IsOf(V[j], K, g) => j + d \in DOMAIN W /\ V[j] = W[j + d]
             /\ \A j \in DOMAIN V : Last(j, K, g)' =>
                    j + d \in DOMAIN W /\ V[j] = W[j + d] /\ Last(j + d, K, g)
  BY <1>1, SameKinds
<1>2. /\ {"remove"} \subseteq OutputKinds /\ {"global", "remove"} \subseteq OutputKinds
      /\ {"name"} \subseteq OutputKinds /\ {"mode"} \subseteq OutputKinds
      /\ Sizing \subseteq OutputKinds /\ OutputKinds \subseteq OutputKinds
      /\ {"global"} \subseteq OutputKinds
  BY DEF OutputKinds, Sizing
<1>3. /\ DOMAIN W = 1 .. Len(W) /\ DOMAIN V = 1 .. Len(V) /\ Len(W) \in Nat /\ Len(V) \in Nat
      /\ \A i \in DOMAIN W : i > d => V[i - d] = W[i]
      /\ \A i \in DOMAIN W : i <= d => ~IsOf(W[i], OutputKinds, g)
      /\ d <= Len(W) /\ Len(V) >= Len(W) - d
  BY DEF Shifted
<1>4. UnheardOf(g) => UnheardOf(g)'
  BY <1>1, <1>2 DEF UnheardOf, SameOf
<1>5. ASSUME NEW j \in DOMAIN V, IsOf(V[j], {"remove"}, g)
      PROVE  /\ g \notin DOMAIN plugged'
             /\ \A k \in DOMAIN V : k > j => ~IsOf(V[k], OutputKinds, g)
  <2>1. j + d \in DOMAIN W /\ IsOf(W[j + d], {"remove"}, g)
    BY <1>1, <1>2, <1>5
  <2>2. /\ g \notin DOMAIN plugged
        /\ \A i \in DOMAIN W : i > j + d => ~IsOf(W[i], OutputKinds, g)
    BY <2>1 DEF OutputInv
  <2>3. ASSUME NEW k \in DOMAIN V, k > j, IsOf(V[k], OutputKinds, g) PROVE FALSE
    <3>1. k + d \in DOMAIN W /\ V[k] = W[k + d]
      BY <1>1, <1>2, <2>3
    <3>2. k + d > j + d
      BY <1>3, <2>3
    <3> QED
      BY <2>2, <2>3, <3>1, <3>2
  <2> QED
    BY <2>2, <2>3 DEF SameOf
<1>6. ASSUME Announced(g) PROVE Announced(g)'
  <2>1. PICK i \in DOMAIN W :
          /\ IsOf(W[i], {"global"}, g)
          /\ \A j \in DOMAIN W : j # i => ~IsOf(W[j], OutputKinds, g)
    BY <1>6 DEF Announced
  <2>2. IsOf(W[i], OutputKinds, g)
    BY <2>1 DEF IsOf, OutputKinds
  <2>3. i > d /\ i - d \in DOMAIN V /\ V[i - d] = W[i]
    BY <1>3, <2>2
  <2>4. ASSUME NEW j \in DOMAIN V, j # i - d, IsOf(V[j], OutputKinds, g) PROVE FALSE
    <3>1. j + d \in DOMAIN W /\ V[j] = W[j + d]
      BY <1>1, <1>2, <2>4
    <3>2. j + d # i
      BY <1>3, <2>4
    <3> QED
      BY <2>1, <2>4, <3>1, <3>2
  <2>5. g \notin DOMAIN outputs'
    BY <1>6 DEF Announced, SameOf
  <2> QED
    BY <2>1, <2>3, <2>4, <2>5 DEF Announced, IsOf
<1>7. ASSUME Followed(g), g \in live PROVE Followed(g)'
  <2>1. /\ g \in DOMAIN outputs' /\ g \in DOMAIN said'
        /\ g \in xdg_output_bound' <=> g \in xdg_live'
        /\ plugged'[g] = plugged[g] /\ said'[g] = said[g] /\ outputs'[g] = outputs[g]
    BY <1>7 DEF Followed, SameOf
  <2>2. /\ NoneOf({"global", "remove"}, g)'
        /\ NoneOf({"name"}, g)' => outputs'[g].name = g
        /\ NoneOf({"mode"}, g)' => outputs'[g].mode = plugged'[g]
        /\ NoneOf(Sizing, g)' => outputs'[g].size = said'[g]
    BY <1>1, <1>2, <1>7, <2>1 DEF Followed
  <2>3. ASSUME NEW j \in DOMAIN V, Last(j, {"mode"}, g)' PROVE V[j].mode = plugged'[g]
    <3>1. j + d \in DOMAIN W /\ V[j] = W[j + d] /\ Last(j + d, {"mode"}, g)
      BY <1>1, <1>2, <2>3
    <3> QED
      BY <1>7, <2>1, <3>1 DEF Followed
  <2>4. ASSUME NEW j \in DOMAIN V, Last(j, Sizing, g)'
        PROVE  said'[g] = Output!Size(V[j].kind, V[j].mode)
    <3>1. j + d \in DOMAIN W /\ V[j] = W[j + d] /\ Last(j + d, Sizing, g)
      BY <1>1, <1>2, <2>4
    <3> QED
      BY <1>7, <2>1, <3>1 DEF Followed
  <2> QED
    BY <2>1, <2>2, <2>3, <2>4 DEF Followed, Output!Size
<1>8. g \notin DOMAIN plugged' /\ NoneOf({"remove"}, g)' => UnheardOf(g)'
  BY <1>1, <1>2, <1>4 DEF OutputInv, SameOf
<1>9. g \in DOMAIN plugged' \ live' => Announced(g)'
  BY <1>6 DEF OutputInv, SameOf
<1>10. g \in live' => Followed(g)'
  BY <1>7 DEF OutputInv, SameOf
<1> QED
  BY <1>5, <1>8, <1>9, <1>10 DEF OutputInv, IsOf

LEMMA SentOfOthers ==
    ASSUME NEW h \in Globals, OutputInv(h), SameOf(h), NEW R \in Seq(Output!Events),
           queue \in Seq(Output!Events), wire \in Seq(Output!Events),
           queue' = queue, wire' = wire \o R,
           \A k \in DOMAIN R : ~IsOf(R[k], OutputKinds, h)
    PROVE  OutputInv(h)'
<1> DEFINE W == InFlight
           V == InFlight'
<1>1. /\ W \in Seq(Output!Events) /\ V \in Seq(Output!Events) /\ Len(V) = Len(W) + Len(R)
      /\ \A i \in DOMAIN W : V[i] = W[i]
      /\ \A k \in DOMAIN R : V[Len(W) + k] = R[k]
  BY SentBehind
<1> HIDE DEF W, V
<1>2. /\ DOMAIN W = 1 .. Len(W) /\ DOMAIN V = 1 .. Len(V) /\ DOMAIN R = 1 .. Len(R)
      /\ Len(W) \in Nat /\ Len(R) \in Nat
  BY <1>1
<1>3. ASSUME NEW j \in DOMAIN V, j > Len(W) PROVE ~IsOf(V[j], OutputKinds, h)
  <2>1. j - Len(W) \in DOMAIN R /\ j = Len(W) + (j - Len(W))
    BY <1>1, <1>2, <1>3
  <2> QED
    BY <1>1, <2>1
<1>4. Shifted(W, V, 0, h)
  BY <1>1, <1>2, <1>3 DEF Shifted
<1> QED
  BY <1>4, Elsewhere DEF W, V

LEMMA HandledOfOthers ==
    ASSUME NEW h \in Globals, OutputInv(h), SameOf(h), NEW R \in Seq(Output!Events),
           queue \in Seq(Output!Events), wire \in Seq(Output!Events), queue # <<>>,
           queue' = Tail(queue), wire' = wire \o R,
           ~IsOf(Head(queue), OutputKinds, h), \A k \in DOMAIN R : ~IsOf(R[k], OutputKinds, h)
    PROVE  OutputInv(h)'
<1> DEFINE W == InFlight
           V == InFlight'
<1>1. /\ W \in Seq(Output!Events) /\ V \in Seq(Output!Events) /\ Len(W) \in Nat \ {0}
      /\ Len(V) = Len(W) - 1 + Len(R) /\ W[1] = Head(queue)
      /\ \A i \in DOMAIN W : i > 1 => V[i - 1] = W[i]
      /\ \A k \in DOMAIN R : V[Len(W) - 1 + k] = R[k]
  BY FirstGone
<1> HIDE DEF W, V
<1>2. /\ DOMAIN W = 1 .. Len(W) /\ DOMAIN V = 1 .. Len(V) /\ DOMAIN R = 1 .. Len(R)
      /\ Len(W) \in Nat /\ Len(R) \in Nat
  BY <1>1
<1>3. ASSUME NEW j \in DOMAIN V, j > Len(W) - 1 PROVE ~IsOf(V[j], OutputKinds, h)
  <2>1. j - (Len(W) - 1) \in DOMAIN R /\ j = Len(W) - 1 + (j - (Len(W) - 1))
    BY <1>1, <1>2, <1>3
  <2> QED
    BY <1>1, <2>1
<1>4. /\ 1 <= Len(W) /\ Len(V) >= Len(W) - 1
      /\ \A i \in DOMAIN W : i <= 1 => ~IsOf(W[i], OutputKinds, h)
  <2>1. ASSUME NEW i \in DOMAIN W, i <= 1 PROVE ~IsOf(W[i], OutputKinds, h)
    <3>1. i = 1
      BY <1>2, <2>1
    <3> QED
      BY <1>1, <3>1
  <2> QED
    BY <1>1, <1>2, <2>1
<1>5. Shifted(W, V, 1, h)
  BY <1>1, <1>3, <1>4 DEF Shifted
<1> QED
  BY <1>5, Elsewhere DEF W, V

LEMMA OthersStay ==
    ASSUME NEW h \in Globals, OutputInv(h), SameOf(h),
           queue \in Seq(Output!Events), wire \in Seq(Output!Events), InFlight' = InFlight
    PROVE  OutputInv(h)'
<1> DEFINE W == InFlight
           V == InFlight'
<1>1. W \in Seq(Output!Events) /\ V = W
  BY DEF InFlight, Output!InFlight
<1> HIDE DEF W, V
<1>2. DOMAIN W = 1 .. Len(W) /\ Len(W) \in Nat
  BY <1>1
<1>3. Shifted(W, V, 0, h)
  BY <1>1, <1>2 DEF Shifted
<1> QED
  BY <1>3, Elsewhere DEF W, V

-----------------------------------------------------------------------------
(* The compositor's steps *)

LEMMA PlugKeeps ==
    ASSUME Output!TypeOK, \A h \in Globals : OutputInv(h),
           NEW g \in Globals, NEW mode \in Modes, Output!Plug(g, mode)
    PROVE  \A h \in Globals : OutputInv(h)'
<1> DEFINE R == <<Output!Event("global", g)>>
           W == InFlight
           V == InFlight'
<1>1. R \in Seq(Output!Events) /\ Len(R) = 1 /\ R[1] = Output!Event("global", g)
  BY DEF Output!Event, Output!Events
<1>2. queue' = queue /\ wire' = wire \o R /\ g \notin DOMAIN plugged
  BY DEF Output!Plug, Output!Send
<1>3. queue \in Seq(Output!Events) /\ wire \in Seq(Output!Events)
  BY DEF Output!TypeOK
<1>4. /\ W \in Seq(Output!Events) /\ V \in Seq(Output!Events) /\ Len(V) = Len(W) + Len(R)
      /\ \A i \in DOMAIN W : V[i] = W[i]
      /\ \A k \in DOMAIN R : V[Len(W) + k] = R[k]
  BY <1>1, <1>2, <1>3, SentBehind
<1>5. NoneOf({"remove"}, g)
  BY DEF Output!Plug, Output!Sent, NoneOf, IsOf, InFlight
<1> HIDE DEF R, W, V
<1>6. ASSUME NEW h \in Globals, h # g PROVE OutputInv(h)'
  <2>1. SameOf(h)
    BY <1>6 DEF SameOf, Output!Plug, Output!With, Output!clientVars, Output!TypeOK
  <2>2. \A k \in DOMAIN R : ~IsOf(R[k], OutputKinds, h)
    BY <1>1, <1>6 DEF IsOf, Output!Event
  <2> QED
    BY <1>1, <1>2, <1>3, <2>1, <2>2, SentOfOthers
<1>7. OutputInv(g)'
  <2>1. UnheardOf(g)
    BY <1>2, <1>5 DEF OutputInv
  <2>2. DOMAIN W = 1 .. Len(W) /\ DOMAIN V = 1 .. (Len(W) + 1) /\ Len(W) \in Nat
    BY <1>1, <1>4
  <2>3. V[Len(W) + 1] = Output!Event("global", g)
    BY <1>1, <1>4
  <2>4. \A j \in DOMAIN V : j # Len(W) + 1 => ~IsOf(V[j], OutputKinds, g)
    BY <1>4, <2>1, <2>2 DEF UnheardOf, NoneOf, W
  <2>5. /\ outputs' = outputs /\ live' = live /\ g \in DOMAIN plugged' /\ g \notin live
    BY <1>2 DEF Output!Plug, Output!With, Output!clientVars, Output!TypeOK
  <2>6. Announced(g)'
    <3>1. Len(W) + 1 \in DOMAIN V /\ IsOf(V[Len(W) + 1], {"global"}, g)
      BY <2>2, <2>3 DEF IsOf, Output!Event
    <3>2. g \notin DOMAIN outputs'
      BY <2>1, <2>5 DEF UnheardOf
    <3> QED
      BY <2>4, <3>1, <3>2 DEF Announced, IsOf, V
  <2>7. \A i \in DOMAIN V : ~IsOf(V[i], {"remove"}, g)
    <3>1. ~IsOf(V[Len(W) + 1], {"remove"}, g)
      BY <2>3 DEF IsOf, Output!Event
    <3> QED
      BY <2>4, <3>1 DEF IsOf, OutputKinds
  <2> QED
    BY <2>5, <2>6, <2>7 DEF OutputInv, IsOf, V
<1> QED
  BY <1>6, <1>7

LEMMA UnplugKeeps ==
    ASSUME Output!TypeOK, \A h \in Globals : OutputInv(h), NEW g \in Globals, Output!Unplug(g)
    PROVE  \A h \in Globals : OutputInv(h)'
<1> DEFINE R == <<Output!Event("remove", g)>>
           W == InFlight
           V == InFlight'
<1>1. R \in Seq(Output!Events) /\ Len(R) = 1 /\ R[1] = Output!Event("remove", g)
  BY DEF Output!Event, Output!Events
<1>2. queue' = queue /\ wire' = wire \o R /\ g \in DOMAIN plugged
  BY DEF Output!Unplug, Output!Send
<1>3. queue \in Seq(Output!Events) /\ wire \in Seq(Output!Events)
  BY DEF Output!TypeOK
<1>4. /\ W \in Seq(Output!Events) /\ V \in Seq(Output!Events) /\ Len(V) = Len(W) + Len(R)
      /\ \A i \in DOMAIN W : V[i] = W[i]
      /\ \A k \in DOMAIN R : V[Len(W) + k] = R[k]
  BY <1>1, <1>2, <1>3, SentBehind
<1> HIDE DEF R, W, V
<1>5. ASSUME NEW h \in Globals, h # g PROVE OutputInv(h)'
  <2>1. SameOf(h)
    BY <1>5 DEF SameOf, Output!Unplug, Output!Without, Output!clientVars, Output!TypeOK
  <2>2. \A k \in DOMAIN R : ~IsOf(R[k], OutputKinds, h)
    BY <1>1, <1>5 DEF IsOf, Output!Event
  <2> QED
    BY <1>1, <1>2, <1>3, <2>1, <2>2, SentOfOthers
<1>6. OutputInv(g)'
  <2>1. DOMAIN W = 1 .. Len(W) /\ DOMAIN V = 1 .. (Len(W) + 1) /\ Len(W) \in Nat
    BY <1>1, <1>4
  <2>2. V[Len(W) + 1] = Output!Event("remove", g)
    BY <1>1, <1>4
  <2>3. g \notin DOMAIN plugged' /\ g \notin live'
    BY DEF Output!Unplug, Output!Without
  <2>4. IsOf(V[Len(W) + 1], {"remove"}, g) /\ Len(W) + 1 \in DOMAIN V
    BY <2>1, <2>2 DEF IsOf, Output!Event
  <2>5. ASSUME NEW i \in DOMAIN V, IsOf(V[i], {"remove"}, g)
        PROVE  i = Len(W) + 1
    <3>1. CASE i \in DOMAIN W
      BY <1>2, <1>4, <2>5, <3>1 DEF OutputInv, W
    <3> QED
      BY <2>1, <3>1
  <2>6. ASSUME NEW i \in DOMAIN V, IsOf(V[i], {"remove"}, g), NEW j \in DOMAIN V, j > i
        PROVE  FALSE
    BY <2>1, <2>5, <2>6
  <2> QED
    BY <2>3, <2>4, <2>6 DEF OutputInv, NoneOf, IsOf, V
<1> QED
  BY <1>5, <1>6

\* An output that is told of again is followed: what is sent last is what was said last.
LEMMA ToldAgain ==
    ASSUME NEW g \in Globals, OutputInv(g), g \in live,
           NEW R \in Seq(Output!Events), queue \in Seq(Output!Events), wire \in Seq(Output!Events),
           queue' = queue, wire' = wire \o R,
           \A k \in DOMAIN R : R[k].kind \in {"mode", "logical", "name"} /\ R[k].global = g,
           \A k \in DOMAIN R : R[k].kind = "mode" => R[k].mode = plugged'[g],
           (\A k \in DOMAIN R : R[k].kind # "mode") => plugged'[g] = plugged[g],
           \E k \in DOMAIN R : R[k].kind \in Sizing,
           \A k \in DOMAIN R :
               R[k].kind \in Sizing /\ (\A l \in DOMAIN R : l > k => R[l].kind \notin Sizing)
                   => said'[g] = Output!Size(R[k].kind, R[k].mode),
           outputs' = outputs, g \in live', g \in DOMAIN plugged, g \in DOMAIN plugged', g \in DOMAIN said',
           (g \in xdg_output_bound') <=> (g \in xdg_live')
    PROVE  OutputInv(g)'
<1> DEFINE W == InFlight
           V == InFlight'
<1>1. /\ W \in Seq(Output!Events) /\ V \in Seq(Output!Events) /\ Len(V) = Len(W) + Len(R)
      /\ \A i \in DOMAIN W : V[i] = W[i]
      /\ \A k \in DOMAIN R : V[Len(W) + k] = R[k]
  BY SentBehind
<1> HIDE DEF W, V
<1>2. /\ DOMAIN W = 1 .. Len(W) /\ DOMAIN V = 1 .. Len(V) /\ DOMAIN R = 1 .. Len(R)
      /\ Len(W) \in Nat /\ Len(R) \in Nat
  BY <1>1
<1>3. Followed(g)
  BY DEF OutputInv
<1>4. ASSUME NEW j \in DOMAIN V
      PROVE  \/ j \in DOMAIN W /\ V[j] = W[j]
             \/ j > Len(W) /\ \E k \in DOMAIN R : j = Len(W) + k /\ V[j] = R[k]
  <2>1. CASE j <= Len(W)
    BY <1>1, <1>2, <2>1
  <2>2. CASE j > Len(W)
    <3>1. j - Len(W) \in DOMAIN R /\ j = Len(W) + (j - Len(W))
      BY <1>1, <1>2, <2>2
    <3>2. V[j] = R[j - Len(W)]
      BY <1>1, <3>1
    <3> QED
      BY <2>2, <3>1, <3>2
  <2> QED
    BY <1>2, <2>1, <2>2
<1>5. ASSUME NEW i \in DOMAIN V PROVE ~IsOf(V[i], {"global", "remove"}, g)
  <2>1. i \in DOMAIN W => ~IsOf(W[i], {"global", "remove"}, g)
    BY <1>3 DEF Followed, NoneOf, W
  <2>2. \A k \in DOMAIN R : ~IsOf(R[k], {"global", "remove"}, g)
    BY DEF IsOf
  <2> QED
    BY <1>4, <2>1, <2>2
<1>6. ASSUME NEW i \in DOMAIN W PROVE i \in DOMAIN V /\ V[i] = W[i]
  BY <1>1, <1>2
<1>7. (\A i \in DOMAIN V : ~IsOf(V[i], {"name"}, g)) => outputs'[g].name = g
  BY <1>3, <1>6 DEF Followed, NoneOf, W
<1>8. ASSUME NEW k \in DOMAIN R
      PROVE  Len(W) + k \in DOMAIN V /\ V[Len(W) + k] = R[k]
  BY <1>1, <1>2
<1>9. (\A i \in DOMAIN V : ~IsOf(V[i], {"mode"}, g)) => outputs'[g].mode = plugged'[g]
  <2> SUFFICES ASSUME \A i \in DOMAIN V : ~IsOf(V[i], {"mode"}, g) PROVE outputs'[g].mode = plugged'[g]
    OBVIOUS
  <2>1. \A k \in DOMAIN R : R[k].kind # "mode"
    BY <1>8 DEF IsOf
  <2>2. \A i \in DOMAIN W : ~IsOf(W[i], {"mode"}, g)
    BY <1>6
  <2> QED
    BY <1>3, <2>1, <2>2 DEF Followed, NoneOf, W
<1>10. ASSUME NEW i \in DOMAIN V, IsOf(V[i], {"mode"}, g),
              \A j \in DOMAIN V : j > i => ~IsOf(V[j], {"mode"}, g)
       PROVE  V[i].mode = plugged'[g]
  <2>1. CASE i \in DOMAIN W /\ V[i] = W[i]
    <3>1. \A k \in DOMAIN R : R[k].kind # "mode"
      <4> SUFFICES ASSUME NEW k \in DOMAIN R, R[k].kind = "mode" PROVE FALSE
        OBVIOUS
      <4>1. Len(W) + k > i
        BY <1>2, <2>1
      <4> QED
        BY <1>8, <1>10, <4>1 DEF IsOf
    <3>2. \A j \in DOMAIN W : j > i => ~IsOf(W[j], {"mode"}, g)
      BY <1>6, <1>10
    <3>3. Last(i, {"mode"}, g)
      BY <1>10, <2>1, <3>2 DEF Last, W
    <3> QED
      BY <1>3, <2>1, <3>1, <3>3 DEF Followed, W
  <2>2. CASE \E k \in DOMAIN R : i = Len(W) + k /\ V[i] = R[k]
    BY <1>10, <2>2 DEF IsOf
  <2> QED
    BY <1>4, <2>1, <2>2
<1>11. ASSUME \A i \in DOMAIN V : ~IsOf(V[i], Sizing, g) PROVE FALSE
  BY <1>8, <1>11 DEF IsOf
<1>12. ASSUME NEW i \in DOMAIN V, IsOf(V[i], Sizing, g),
              \A j \in DOMAIN V : j > i => ~IsOf(V[j], Sizing, g)
       PROVE  said'[g] = Output!Size(V[i].kind, V[i].mode)
  <2>1. PICK l \in DOMAIN R : R[l].kind \in Sizing
    OBVIOUS
  <2>2. Len(W) + l \in DOMAIN V /\ IsOf(V[Len(W) + l], Sizing, g)
    BY <1>8, <2>1 DEF IsOf
  <2>3. i >= Len(W) + l
    BY <1>2, <1>12, <2>2
  <2>4. PICK k \in DOMAIN R : i = Len(W) + k /\ V[i] = R[k]
    BY <1>2, <1>4, <2>3
  <2>5. ASSUME NEW m \in DOMAIN R, m > k, R[m].kind \in Sizing PROVE FALSE
    <3>1. Len(W) + m > i
      BY <1>2, <2>4, <2>5
    <3> QED
      BY <1>8, <1>12, <2>5, <3>1 DEF IsOf
  <2>6. R[k].kind \in Sizing
    BY <1>12, <2>4 DEF IsOf
  <2> QED
    BY <2>4, <2>5, <2>6
<1>13. Followed(g)'
  BY <1>3, <1>5, <1>7, <1>9, <1>10, <1>11, <1>12
     DEF Followed, NoneOf, Last, IsOf, Sizing, Output!Size, V
<1>14. \A i \in DOMAIN V : ~IsOf(V[i], {"remove"}, g)
  BY <1>5 DEF IsOf
<1> QED
  BY <1>13, <1>14 DEF OutputInv, IsOf, V

LEMMA ChangeModeKeeps ==
    ASSUME Output!TypeOK, \A h \in Globals : OutputInv(h), NEW g \in Globals, NEW mode \in Modes,
           NEW logicalFirst \in BOOLEAN, Output!ChangeMode(g, mode, logicalFirst)
    PROVE  \A h \in Globals : OutputInv(h)'
<1> DEFINE first == IF logicalFirst THEN "logical" ELSE "mode"
           last == IF logicalFirst THEN "mode" ELSE "logical"
           both == <<Output!SizeEvent(first, g, mode), Output!SizeEvent(last, g, mode)>>
           one == <<Output!SizeEvent("mode", g, mode)>>
<1>1. PICK R \in {both, one} :
          /\ queue' = queue /\ wire' = wire \o R
          /\ R = both => said' = [said EXCEPT ![g] = Output!Size(last, mode)]
          /\ R = one => said' = [said EXCEPT ![g] = Output!Size("mode", mode)]
  <2>1. Len(both) = 2 /\ Len(one) = 1
    OBVIOUS
  <2>2. CASE g \in xdg_live /\ mode # plugged[g]
    BY <2>1, <2>2 DEF Output!ChangeMode, Output!Send
  <2>3. CASE ~(g \in xdg_live /\ mode # plugged[g])
    BY <2>1, <2>3 DEF Output!ChangeMode, Output!Send
  <2> QED
    BY <2>2, <2>3
<1>2. /\ queue \in Seq(Output!Events) /\ wire \in Seq(Output!Events)
      /\ g \in DOMAIN plugged /\ g \in live /\ DOMAIN said = live
  BY DEF Output!TypeOK, Output!ChangeMode
<1>3. /\ plugged' = [plugged EXCEPT ![g] = mode] /\ live' = live /\ xdg_live' = xdg_live
      /\ outputs' = outputs /\ xdg_output_bound' = xdg_output_bound
  BY DEF Output!ChangeMode, Output!clientVars
<1>4. /\ R \in Seq(Output!Events)
      /\ \A k \in DOMAIN R : R[k].kind \in Sizing /\ R[k].global = g /\ R[k].mode = mode
  <2>1. /\ both \in Seq(Output!Events) /\ DOMAIN both = {1, 2} /\ one \in Seq(Output!Events)
        /\ DOMAIN one = {1}
    BY DEF Output!SizeEvent, Output!Events
  <2>2. \A k \in DOMAIN both : both[k].kind \in Sizing /\ both[k].global = g /\ both[k].mode = mode
    BY <2>1 DEF Output!SizeEvent, Sizing
  <2>3. \A k \in DOMAIN one : one[k].kind \in Sizing /\ one[k].global = g /\ one[k].mode = mode
    BY <2>1 DEF Output!SizeEvent, Sizing
  <2> QED
    BY <1>1, <2>1, <2>2, <2>3
<1>5. ASSUME NEW k \in DOMAIN R, \A l \in DOMAIN R : l > k => R[l].kind \notin Sizing
      PROVE  said'[g] = Output!Size(R[k].kind, R[k].mode)
  <2>1. CASE R = both
    <3>1. DOMAIN R = {1, 2}
      BY <2>1
    <3>2. k = 2
      BY <1>4, <1>5, <3>1
    <3> QED
      BY <1>1, <1>2, <2>1, <3>2 DEF Output!SizeEvent
  <2>2. CASE R = one
    <3>1. DOMAIN R = {1} /\ k = 1
      BY <2>2
    <3> QED
      BY <1>1, <1>2, <2>2, <3>1 DEF Output!SizeEvent
  <2> QED
    BY <1>1, <2>1, <2>2
<1>6. /\ \E k \in DOMAIN R : R[k].kind \in Sizing
      /\ \E k \in DOMAIN R : R[k].kind = "mode"
  <2>1. CASE R = both
    <3>1. R[1] = Output!SizeEvent(first, g, mode) /\ R[2] = Output!SizeEvent(last, g, mode)
          /\ 1 \in DOMAIN R /\ 2 \in DOMAIN R
      BY <2>1
    <3> QED
      BY <3>1 DEF Output!SizeEvent, Sizing
  <2>2. CASE R = one
    <3>1. R[1] = Output!SizeEvent("mode", g, mode) /\ 1 \in DOMAIN R
      BY <2>2
    <3> QED
      BY <3>1 DEF Output!SizeEvent, Sizing
  <2> QED
    BY <1>1, <2>1, <2>2
<1>7. DOMAIN said' = live /\ \A h \in live : h # g => said'[h] = said[h]
  BY <1>1, <1>2
<1> HIDE DEF first, last, both, one
<1>8. ASSUME NEW h \in Globals, h # g PROVE OutputInv(h)'
  <2>1. SameOf(h)
    BY <1>2, <1>3, <1>7, <1>8 DEF SameOf
  <2>2. \A k \in DOMAIN R : ~IsOf(R[k], OutputKinds, h)
    BY <1>4, <1>8 DEF IsOf
  <2> QED
    BY <1>1, <1>2, <1>4, <2>1, <2>2, SentOfOthers
<1>9. OutputInv(g)'
  <2>1. (g \in xdg_output_bound') <=> (g \in xdg_live')
    BY <1>2, <1>3 DEF OutputInv, Followed
  <2>2. plugged'[g] = mode /\ g \in DOMAIN plugged' /\ g \in live' /\ g \in DOMAIN said'
    BY <1>2, <1>3, <1>7
  <2>3. \A k \in DOMAIN R : R[k].kind \in {"mode", "logical", "name"} /\ R[k].global = g
    BY <1>4 DEF Sizing
  <2> QED
    BY <1>1, <1>2, <1>3, <1>4, <1>5, <1>6, <2>1, <2>2, <2>3, ToldAgain
<1> QED
  BY <1>8, <1>9

-----------------------------------------------------------------------------
(* The client's steps *)

\* What the first event in flight tells of the state of its output.
LEMMA FirstOf ==
    ASSUME Output!TypeOK, NEW g \in Globals, OutputInv(g), queue # <<>>,
           Head(queue).global = g, Head(queue).kind \in OutputKinds
    PROVE  /\ Head(queue) = InFlight[1] /\ 1 \in DOMAIN InFlight
           /\ ~UnheardOf(g)
           /\ Head(queue).kind = "global" /\ g \in DOMAIN plugged =>
                  /\ g \notin live /\ g \notin xdg_output_bound
                  /\ \A j \in DOMAIN InFlight : j > 1 => ~IsOf(InFlight[j], OutputKinds, g)
           /\ Head(queue).kind = "remove" =>
                  /\ g \notin DOMAIN plugged
                  /\ \A j \in DOMAIN InFlight : j > 1 => ~IsOf(InFlight[j], OutputKinds, g)
           /\ Head(queue).kind \notin {"global", "remove"} /\ g \in DOMAIN plugged => g \in live
<1>1. queue \in Seq(Output!Events) /\ wire \in Seq(Output!Events)
  BY DEF Output!TypeOK
<1>2. /\ InFlight \in Seq(Output!Events) /\ InFlight[1] = Head(queue) /\ 1 \in DOMAIN InFlight
      /\ DOMAIN InFlight = 1 .. Len(InFlight) /\ Len(InFlight) \in Nat
  BY <1>1 DEF InFlight, Output!InFlight
<1>3. IsOf(InFlight[1], OutputKinds, g) /\ IsOf(InFlight[1], {Head(queue).kind}, g)
  BY <1>2 DEF IsOf
<1>4. ~UnheardOf(g)
  BY <1>2, <1>3 DEF UnheardOf, NoneOf
<1>5. ASSUME g \in DOMAIN plugged \ live
      PROVE  /\ Head(queue).kind = "global" /\ g \notin xdg_output_bound
             /\ \A j \in DOMAIN InFlight : j > 1 => ~IsOf(InFlight[j], OutputKinds, g)
  <2>1. PICK i \in DOMAIN InFlight :
          /\ IsOf(InFlight[i], {"global"}, g)
          /\ \A j \in DOMAIN InFlight : j # i => ~IsOf(InFlight[j], OutputKinds, g)
    BY <1>5 DEF OutputInv, Announced
  <2>2. i = 1
    BY <1>2, <1>3, <2>1
  <2>3. g \notin DOMAIN outputs
    BY <1>5 DEF OutputInv, Announced
  <2> QED
    BY <1>2, <2>1, <2>2, <2>3 DEF IsOf, Output!TypeOK
<1>6. ASSUME Head(queue).kind = "global" PROVE g \notin live
  <2>1. IsOf(InFlight[1], {"global", "remove"}, g)
    BY <1>2, <1>3, <1>6 DEF IsOf
  <2> QED
    BY <1>2, <2>1 DEF OutputInv, Followed, NoneOf
<1>7. ASSUME Head(queue).kind = "remove"
      PROVE  /\ g \notin DOMAIN plugged
             /\ \A j \in DOMAIN InFlight : j > 1 => ~IsOf(InFlight[j], OutputKinds, g)
  BY <1>2, <1>3, <1>7 DEF OutputInv
<1> QED
  BY <1>2, <1>4, <1>5, <1>6, <1>7

LEMMA OutputAppearsKeeps ==
    ASSUME Output!TypeOK, \A h \in Globals : OutputInv(h), Output!OutputAppears
    PROVE  \A h \in Globals : OutputInv(h)'
<1>0. PICK g : g = Head(queue).global
  OBVIOUS
<1> DEFINE R == IF g \in DOMAIN plugged
                THEN <<Output!SizeEvent("mode", g, plugged[g]), Output!Event("name", g)>> ELSE <<>>
           W == InFlight
           V == InFlight'
           blank == [name |-> None, size |-> None, mode |-> None]
<1>1. /\ queue # <<>> /\ queue \in Seq(Output!Events) /\ wire \in Seq(Output!Events)
      /\ Head(queue).kind = "global"
  BY DEF Output!OutputAppears, Output!Handles, Output!TypeOK
<1>2. Head(queue) \in Output!Events
  BY <1>1
<1>3. g \in Globals /\ Head(queue).kind \in OutputKinds
  BY <1>0, <1>1, <1>2 DEF Output!Events, OutputKinds
<1>4. queue' = Tail(queue) /\ wire' = wire \o R
  BY <1>0 DEF Output!OutputAppears, Output!Answered
<1>5. /\ outputs' = Output!With(outputs, g, blank) /\ xdg_output_bound' = xdg_output_bound
      /\ plugged' = plugged /\ xdg_live' = xdg_live
      /\ g \in DOMAIN plugged => live' = live \cup {g} /\ said' = Output!With(said, g, Output!Size("mode", plugged[g]))
      /\ g \notin DOMAIN plugged => live' = live /\ said' = said
  BY <1>0 DEF Output!OutputAppears
<1>6. R \in Seq(Output!Events) /\ \A k \in DOMAIN R : R[k].global = g /\ R[k].kind \in {"mode", "name"}
  <2>1. CASE g \in DOMAIN plugged
    <3>1. R \in Seq(Output!Events)
      BY <1>3, <2>1 DEF Output!Events, Output!Event, Output!SizeEvent, Output!TypeOK
    <3>2. DOMAIN R = {1, 2}
      BY <2>1
    <3> QED
      BY <2>1, <3>1, <3>2 DEF Output!Event, Output!SizeEvent
  <2>2. CASE g \notin DOMAIN plugged
    BY <2>2
  <2> QED
    BY <2>1, <2>2
<1>7. /\ W \in Seq(Output!Events) /\ V \in Seq(Output!Events) /\ Len(W) \in Nat \ {0}
      /\ Len(V) = Len(W) - 1 + Len(R) /\ W[1] = Head(queue)
      /\ \A i \in DOMAIN W : i > 1 => V[i - 1] = W[i]
      /\ \A k \in DOMAIN R : V[Len(W) - 1 + k] = R[k]
  BY <1>1, <1>4, <1>6, FirstGone
<1>8. OutputInv(g)
  BY <1>3
<1>9. /\ ~UnheardOf(g)
      /\ g \in DOMAIN plugged =>
             /\ g \notin live /\ g \notin xdg_output_bound
             /\ \A j \in DOMAIN W : j > 1 => ~IsOf(W[j], OutputKinds, g)
  BY <1>0, <1>1, <1>3, <1>8, FirstOf
<1>10. DOMAIN said = live /\ xdg_live \subseteq live /\ live \subseteq DOMAIN plugged
  BY DEF Output!TypeOK
<1>11. R = <<>> \/ (g \in DOMAIN plugged /\ R = <<Output!SizeEvent("mode", g, plugged[g]), Output!Event("name", g)>>)
  OBVIOUS
<1>12. g \notin DOMAIN plugged => R = <<>>
  OBVIOUS
<1> HIDE DEF R, W, V
<1>13. DOMAIN W = 1 .. Len(W) /\ DOMAIN V = 1 .. Len(V) /\ Len(V) \in Nat
  BY <1>7
<1>14. ASSUME NEW h \in Globals, h # g PROVE OutputInv(h)'
  <2>1. SameOf(h)
    <3>1. h \in live => h \in DOMAIN outputs
      BY DEF OutputInv, Followed
    <3>2. /\ (h \in DOMAIN outputs') <=> (h \in DOMAIN outputs)
          /\ h \in DOMAIN outputs => outputs'[h] = outputs[h]
      BY <1>5, <1>14 DEF Output!With
    <3>3. /\ (h \in live') <=> (h \in live)
          /\ (h \in DOMAIN said') <=> (h \in DOMAIN said)
          /\ h \in live => said'[h] = said[h]
      BY <1>5, <1>10, <1>14 DEF Output!With
    <3> QED
      BY <1>5, <3>1, <3>2, <3>3 DEF SameOf
  <2>2. ~IsOf(Head(queue), OutputKinds, h)
    BY <1>0, <1>14 DEF IsOf
  <2>3. \A k \in DOMAIN R : ~IsOf(R[k], OutputKinds, h)
    BY <1>6, <1>14 DEF IsOf
  <2> QED
    BY <1>1, <1>4, <1>6, <2>1, <2>2, <2>3, HandledOfOthers
<1>15. CASE g \in DOMAIN plugged
  <2>1. R = <<Output!SizeEvent("mode", g, plugged[g]), Output!Event("name", g)>>
    BY <1>15 DEF R
  <2>2. /\ V[Len(W)] = Output!SizeEvent("mode", g, plugged[g])
        /\ V[Len(W) + 1] = Output!Event("name", g) /\ Len(V) = Len(W) + 1
    BY <1>7, <2>1
  <2>3. ASSUME NEW i \in DOMAIN V, i < Len(W) PROVE ~IsOf(V[i], OutputKinds, g)
    <3>1. i + 1 \in DOMAIN W /\ i + 1 > 1 /\ (i + 1) - 1 = i
      BY <1>13, <2>3
    <3> QED
      BY <1>7, <1>9, <1>15, <3>1
  <2>4. ASSUME NEW i \in DOMAIN V
        PROVE  \/ ~IsOf(V[i], OutputKinds, g)
               \/ i = Len(W) /\ V[i] = Output!SizeEvent("mode", g, plugged[g])
               \/ i = Len(W) + 1 /\ V[i] = Output!Event("name", g)
    BY <1>7, <1>13, <2>2, <2>3
  <2>5. /\ g \in DOMAIN outputs' /\ g \in DOMAIN said' /\ g \in live'
        /\ said'[g] = Output!Size("mode", plugged[g]) /\ plugged'[g] = plugged[g]
        /\ ~(g \in xdg_output_bound') /\ ~(g \in xdg_live') /\ g \in DOMAIN plugged'
    BY <1>5, <1>9, <1>10, <1>15 DEF Output!With
  <2>6. Len(W) \in DOMAIN V /\ Len(W) + 1 \in DOMAIN V
    BY <1>7, <1>13, <2>2
  <2>7. \A i \in DOMAIN V : ~IsOf(V[i], {"global", "remove"}, g)
    BY <2>4 DEF IsOf, Output!SizeEvent, Output!Event, OutputKinds
  <2>8. ~\A i \in DOMAIN V : ~IsOf(V[i], {"name"}, g)
    BY <2>2, <2>6 DEF IsOf, Output!Event
  <2>9. /\ ~\A i \in DOMAIN V : ~IsOf(V[i], {"mode"}, g)
        /\ ~\A i \in DOMAIN V : ~IsOf(V[i], Sizing, g)
    BY <2>2, <2>6 DEF IsOf, Output!SizeEvent, Sizing
  <2>10. ASSUME NEW i \in DOMAIN V, IsOf(V[i], Sizing, g)
         PROVE  V[i].kind = "mode" /\ V[i].mode = plugged[g]
    BY <2>4, <2>10 DEF IsOf, Output!SizeEvent, Output!Event, Sizing, OutputKinds
  <2>11. ASSUME NEW i \in DOMAIN V, IsOf(V[i], {"mode"}, g) PROVE V[i].mode = plugged[g]
    BY <2>10, <2>11 DEF IsOf, Sizing
  <2>12. Followed(g)'
    BY <2>5, <2>7, <2>8, <2>9, <2>10, <2>11 DEF Followed, NoneOf, Last, IsOf, Sizing, Output!Size, V
  <2>13. \A i \in DOMAIN V : ~IsOf(V[i], {"remove"}, g)
    BY <2>7 DEF IsOf
  <2>14. OutputInv(g)'
    BY <2>5, <2>12, <2>13 DEF OutputInv, IsOf, V
  <2> QED
    BY <1>14, <2>14
<1>16. CASE g \notin DOMAIN plugged
  <2>1. PICK i \in DOMAIN W : IsOf(W[i], {"remove"}, g)
    BY <1>8, <1>9, <1>16 DEF OutputInv, NoneOf, W
  <2>2. /\ \A j \in DOMAIN W : j > i => ~IsOf(W[j], OutputKinds, g)
        /\ \A k \in DOMAIN W : IsOf(W[k], {"remove"}, g) =>
               \A j \in DOMAIN W : j > k => ~IsOf(W[j], OutputKinds, g)
    BY <1>8, <2>1 DEF OutputInv, W
  <2>3. i > 1
    <3>1. ~IsOf(W[1], {"remove"}, g)
      BY <1>1, <1>7 DEF IsOf
    <3> QED
      BY <1>13, <2>1, <3>1
  <2>4. Len(V) = Len(W) - 1
    BY <1>7, <1>12, <1>16
  <2>5. i - 1 \in DOMAIN V /\ IsOf(V[i - 1], {"remove"}, g)
    BY <1>7, <1>13, <2>1, <2>3, <2>4
  <2>6. ASSUME NEW k \in DOMAIN V, IsOf(V[k], {"remove"}, g), NEW j \in DOMAIN V, j > k,
               IsOf(V[j], OutputKinds, g)
        PROVE  FALSE
    <3>1. /\ k + 1 \in DOMAIN W /\ j + 1 \in DOMAIN W /\ k + 1 > 1 /\ j + 1 > 1 /\ j + 1 > k + 1
          /\ (k + 1) - 1 = k /\ (j + 1) - 1 = j
      BY <1>7, <1>13, <2>4, <2>6
    <3>2. V[k] = W[k + 1] /\ V[j] = W[j + 1]
      BY <1>7, <3>1
    <3> QED
      BY <2>2, <2>6, <3>1, <3>2
  <2>7. g \notin DOMAIN plugged' /\ g \notin live'
    BY <1>5, <1>10, <1>16
  <2>8. OutputInv(g)'
    BY <2>5, <2>6, <2>7 DEF OutputInv, NoneOf, IsOf, V
  <2> QED
    BY <1>14, <2>8
<1> QED
  BY <1>15, <1>16

LEMMA OutputGoesKeeps ==
    ASSUME Output!TypeOK, \A h \in Globals : OutputInv(h), Output!OutputGoes
    PROVE  \A h \in Globals : OutputInv(h)'
<1>0. PICK g : g = Head(queue).global
  OBVIOUS
<1> DEFINE W == InFlight
           V == InFlight'
<1>1. /\ queue # <<>> /\ queue \in Seq(Output!Events) /\ wire \in Seq(Output!Events)
      /\ Head(queue).kind = "remove"
  BY DEF Output!OutputGoes, Output!Handles, Output!TypeOK
<1>2. Head(queue) \in Output!Events
  BY <1>1
<1>3. g \in Globals /\ Head(queue).kind \in OutputKinds
  BY <1>0, <1>1, <1>2 DEF Output!Events, OutputKinds
<1>4. queue' = Tail(queue) /\ wire' = wire \o <<>> /\ <<>> \in Seq(Output!Events)
  BY DEF Output!OutputGoes, Output!Answered
<1>5. /\ outputs' = Output!Without(outputs, g) /\ xdg_output_bound' = xdg_output_bound \ {g}
      /\ plugged' = plugged /\ live' = live /\ xdg_live' = xdg_live /\ said' = said
  BY <1>0 DEF Output!OutputGoes, Output!compositorVars
<1>6. /\ W \in Seq(Output!Events) /\ V \in Seq(Output!Events) /\ Len(W) \in Nat \ {0}
      /\ Len(V) = Len(W) - 1
      /\ \A i \in DOMAIN W : i > 1 => V[i - 1] = W[i]
  <2>1. /\ W \in Seq(Output!Events) /\ V \in Seq(Output!Events) /\ Len(W) \in Nat \ {0}
        /\ Len(V) = Len(W) - 1 + Len(<<>>) /\ W[1] = Head(queue)
        /\ \A i \in DOMAIN W : i > 1 => V[i - 1] = W[i]
    BY <1>1, <1>4, FirstGone
  <2> HIDE DEF W, V
  <2> QED
    BY <2>1
<1>7. /\ g \notin DOMAIN plugged
      /\ \A j \in DOMAIN W : j > 1 => ~IsOf(W[j], OutputKinds, g)
  BY <1>0, <1>1, <1>3, FirstOf
<1>8. live \subseteq DOMAIN plugged
  BY DEF Output!TypeOK
<1> HIDE DEF W, V
<1>9. ASSUME NEW h \in Globals, h # g PROVE OutputInv(h)'
  <2>1. SameOf(h)
    <3>1. h \in live => h \in DOMAIN outputs
      BY DEF OutputInv, Followed
    <3>2. /\ (h \in DOMAIN outputs') <=> (h \in DOMAIN outputs)
          /\ h \in DOMAIN outputs => outputs'[h] = outputs[h]
      BY <1>5, <1>9 DEF Output!Without
    <3> QED
      BY <1>5, <1>9, <3>1, <3>2 DEF SameOf
  <2>2. ~IsOf(Head(queue), OutputKinds, h)
    BY <1>0, <1>9 DEF IsOf
  <2>3. \A k \in DOMAIN <<>> : ~IsOf(<<>>[k], OutputKinds, h)
    OBVIOUS
  <2> QED
    BY <1>1, <1>4, <2>1, <2>2, <2>3, HandledOfOthers
<1>10. OutputInv(g)'
  <2>1. ASSUME NEW i \in DOMAIN V PROVE ~IsOf(V[i], OutputKinds, g)
    <3>1. i + 1 \in DOMAIN W /\ i + 1 > 1 /\ (i + 1) - 1 = i
      BY <1>6
    <3> QED
      BY <1>6, <1>7, <3>1
  <2>2. g \notin DOMAIN outputs' /\ g \notin DOMAIN plugged' /\ g \notin live'
    BY <1>5, <1>7, <1>8 DEF Output!Without
  <2>3. \A i \in DOMAIN V : ~IsOf(V[i], {"remove"}, g)
    BY <2>1 DEF IsOf, OutputKinds
  <2> QED
    BY <2>1, <2>2, <2>3 DEF OutputInv, UnheardOf, NoneOf, IsOf, V
<1> QED
  BY <1>9, <1>10

LEMMA OutputToldKeeps ==
    ASSUME Output!TypeOK, \A h \in Globals : OutputInv(h), Output!OutputTold
    PROVE  \A h \in Globals : OutputInv(h)'
<1>0. PICK e, g : e = Head(queue) /\ g = e.global
  OBVIOUS
<1> DEFINE W == InFlight
           V == InFlight'
<1>1. /\ queue # <<>> /\ queue \in Seq(Output!Events) /\ wire \in Seq(Output!Events)
      /\ e.kind \in {"name", "mode", "logical"}
  BY <1>0 DEF Output!OutputTold, Output!Handles, Output!TypeOK
<1>2. e \in Output!Events
  BY <1>0, <1>1
<1>3. g \in Globals /\ e.kind \in OutputKinds /\ e.kind \notin {"global", "remove"}
  BY <1>0, <1>1, <1>2 DEF Output!Events, OutputKinds
<1>4. queue' = Tail(queue) /\ wire' = wire \o <<>> /\ <<>> \in Seq(Output!Events)
  BY DEF Output!OutputTold, Output!Answered
<1>5. /\ outputs' = [h \in DOMAIN outputs |-> IF h = g THEN Output!Told(outputs[h], e) ELSE outputs[h]]
      /\ xdg_output_bound' = xdg_output_bound
      /\ plugged' = plugged /\ live' = live /\ xdg_live' = xdg_live /\ said' = said
  BY <1>0 DEF Output!OutputTold, Output!compositorVars
<1>6. /\ W \in Seq(Output!Events) /\ V \in Seq(Output!Events) /\ Len(W) \in Nat \ {0}
      /\ Len(V) = Len(W) - 1 /\ W[1] = e
      /\ \A i \in DOMAIN W : i > 1 => V[i - 1] = W[i]
  <2>1. /\ W \in Seq(Output!Events) /\ V \in Seq(Output!Events) /\ Len(W) \in Nat \ {0}
        /\ Len(V) = Len(W) - 1 + Len(<<>>) /\ W[1] = Head(queue)
        /\ \A i \in DOMAIN W : i > 1 => V[i - 1] = W[i]
    BY <1>0, <1>1, <1>4, FirstGone
  <2> HIDE DEF W, V
  <2> QED
    BY <1>0, <2>1
<1>7. OutputInv(g)
  BY <1>3
<1>8. ~UnheardOf(g) /\ (g \in DOMAIN plugged => g \in live)
  BY <1>0, <1>1, <1>3, <1>7, FirstOf
<1>9. /\ \A h \in DOMAIN outputs :
            outputs[h] \in [name : {h, None}, size : Output!OutputSizes, mode : Modes \cup {None}]
      /\ live \subseteq DOMAIN plugged
  BY DEF Output!TypeOK
<1>10. e.global = g
  BY <1>0
<1> HIDE DEF W, V
<1>11. /\ DOMAIN W = 1 .. Len(W) /\ DOMAIN V = 1 .. Len(V) /\ Len(V) \in Nat
       /\ \A i \in DOMAIN V : i + 1 \in DOMAIN W /\ V[i] = W[i + 1]
  <2>1. DOMAIN W = 1 .. Len(W) /\ DOMAIN V = 1 .. Len(V) /\ Len(V) \in Nat
    BY <1>6
  <2>2. ASSUME NEW i \in DOMAIN V PROVE i + 1 \in DOMAIN W /\ V[i] = W[i + 1]
    <3>1. i + 1 \in DOMAIN W /\ i + 1 > 1 /\ (i + 1) - 1 = i
      BY <1>6, <2>1
    <3> QED
      BY <1>6, <3>1
  <2> QED
    BY <2>1, <2>2
<1>12. ASSUME NEW h \in Globals, h # g PROVE OutputInv(h)'
  <2>1. SameOf(h)
    <3>1. DOMAIN outputs' = DOMAIN outputs
      BY <1>5
    <3>2. h \in DOMAIN outputs => outputs'[h] = outputs[h]
      BY <1>5, <1>12
    <3>3. h \in live => h \in DOMAIN outputs
      BY DEF OutputInv, Followed
    <3> QED
      BY <1>5, <3>1, <3>2, <3>3 DEF SameOf
  <2>2. ~IsOf(Head(queue), OutputKinds, h)
    BY <1>0, <1>12 DEF IsOf
  <2>3. \A k \in DOMAIN <<>> : ~IsOf(<<>>[k], OutputKinds, h)
    OBVIOUS
  <2> QED
    BY <1>1, <1>4, <2>1, <2>2, <2>3, HandledOfOthers
<1>13. ASSUME NEW j \in DOMAIN V, IsOf(V[j], {"remove"}, g)
       PROVE  /\ g \notin DOMAIN plugged'
              /\ \A k \in DOMAIN V : k > j => ~IsOf(V[k], OutputKinds, g)
  <2>1. j + 1 \in DOMAIN W /\ IsOf(W[j + 1], {"remove"}, g)
    BY <1>11, <1>13
  <2>2. g \notin DOMAIN plugged /\ \A i \in DOMAIN W : i > j + 1 => ~IsOf(W[i], OutputKinds, g)
    BY <1>7, <2>1 DEF OutputInv, W
  <2>3. ASSUME NEW k \in DOMAIN V, k > j PROVE ~IsOf(V[k], OutputKinds, g)
    <3>1. k + 1 \in DOMAIN W /\ V[k] = W[k + 1] /\ k + 1 > j + 1
      BY <1>11, <2>3
    <3> QED
      BY <2>2, <3>1
  <2> QED
    BY <1>5, <2>2, <2>3
<1>14. ASSUME g \notin DOMAIN plugged PROVE \E i \in DOMAIN V : IsOf(V[i], {"remove"}, g)
  <2>1. PICK i \in DOMAIN W : IsOf(W[i], {"remove"}, g)
    BY <1>7, <1>8, <1>14 DEF OutputInv, NoneOf, W
  <2>2. i > 1
    <3>1. ~IsOf(W[1], {"remove"}, g)
      BY <1>3, <1>6 DEF IsOf
    <3> QED
      BY <1>11, <2>1, <3>1
  <2>3. i - 1 \in DOMAIN V /\ V[i - 1] = W[i]
    BY <1>6, <1>11, <2>2
  <2> QED
    BY <2>1, <2>3
<1>15. ASSUME g \in live PROVE Followed(g)'
  <2>1. Followed(g)
    BY <1>7, <1>15 DEF OutputInv
  <2>2. g \in DOMAIN outputs /\ outputs'[g] = Output!Told(outputs[g], e) /\ g \in DOMAIN outputs'
    BY <1>5, <2>1 DEF Followed
  <2>3. /\ e.kind = "name" => /\ outputs'[g].name = g /\ outputs'[g].mode = outputs[g].mode
                              /\ outputs'[g].size = outputs[g].size
        /\ e.kind = "mode" => /\ outputs'[g].name = outputs[g].name /\ outputs'[g].mode = e.mode
                              /\ outputs'[g].size = Output!Size("mode", e.mode)
        /\ e.kind = "logical" => /\ outputs'[g].name = outputs[g].name
                                 /\ outputs'[g].mode = outputs[g].mode
                                 /\ outputs'[g].size = Output!Size("logical", e.mode)
    BY <1>1, <1>9, <1>10, <2>2 DEF Output!Told
  <2>4. ASSUME NEW i \in DOMAIN W, i # 1 PROVE i - 1 \in DOMAIN V /\ V[i - 1] = W[i]
    BY <1>6, <1>11, <2>4
  <2>5. \A i \in DOMAIN V : ~IsOf(V[i], {"global", "remove"}, g)
    BY <1>11, <2>1 DEF Followed, NoneOf, W
  <2>6. ASSUME NEW K, \A i \in DOMAIN V : ~IsOf(V[i], K, g)
        PROVE  /\ e.kind \notin K => \A i \in DOMAIN W : ~IsOf(W[i], K, g)
               /\ \A i \in DOMAIN W : i > 1 => ~IsOf(W[i], K, g)
    <3>1. ASSUME NEW i \in DOMAIN W, i > 1 PROVE ~IsOf(W[i], K, g)
      BY <1>11, <2>4, <2>6, <3>1
    <3>2. e.kind \notin K => ~IsOf(W[1], K, g)
      BY <1>6 DEF IsOf
    <3> QED
      BY <1>11, <3>1, <3>2
  <2>7. IsOf(W[1], {e.kind}, g) /\ 1 \in DOMAIN W
    BY <1>6, <1>10, <1>11 DEF IsOf
  <2>8. (\A i \in DOMAIN V : ~IsOf(V[i], {"name"}, g)) => outputs'[g].name = g
    <3> SUFFICES ASSUME \A i \in DOMAIN V : ~IsOf(V[i], {"name"}, g) PROVE outputs'[g].name = g
      OBVIOUS
    <3>1. CASE e.kind = "name"
      BY <2>3, <3>1
    <3>2. CASE e.kind # "name"
      BY <1>1, <2>1, <2>3, <2>6, <3>2 DEF Followed, NoneOf, W
    <3> QED
      BY <3>1, <3>2
  <2>9. (\A i \in DOMAIN V : ~IsOf(V[i], {"mode"}, g)) => outputs'[g].mode = plugged[g]
    <3> SUFFICES ASSUME \A i \in DOMAIN V : ~IsOf(V[i], {"mode"}, g) PROVE outputs'[g].mode = plugged[g]
      OBVIOUS
    <3>1. CASE e.kind = "mode"
      <4>1. Last(1, {"mode"}, g)
        BY <1>11, <2>6, <2>7, <3>1 DEF Last, W
      <4> QED
        BY <1>6, <2>1, <2>3, <2>7, <3>1, <4>1 DEF Followed, W
    <3>2. CASE e.kind # "mode"
      BY <1>1, <2>1, <2>3, <2>6, <3>2 DEF Followed, NoneOf, W
    <3> QED
      BY <3>1, <3>2
  <2>10. (\A i \in DOMAIN V : ~IsOf(V[i], Sizing, g)) => outputs'[g].size = said[g]
    <3> SUFFICES ASSUME \A i \in DOMAIN V : ~IsOf(V[i], Sizing, g) PROVE outputs'[g].size = said[g]
      OBVIOUS
    <3>1. CASE e.kind \in Sizing
      <4>1. IsOf(W[1], Sizing, g)
        BY <2>7, <3>1 DEF IsOf
      <4>2. Last(1, Sizing, g)
        BY <1>11, <2>6, <2>7, <4>1 DEF Last, W
      <4>3. said[g] = Output!Size(e.kind, e.mode)
        BY <1>6, <2>1, <2>7, <4>2 DEF Followed, W
      <4> QED
        BY <2>3, <3>1, <4>3 DEF Sizing
    <3>2. CASE e.kind \notin Sizing
      BY <1>1, <2>1, <2>3, <2>6, <3>2 DEF Followed, NoneOf, Sizing, W
    <3> QED
      BY <3>1, <3>2
  <2>11. ASSUME NEW K, NEW j \in DOMAIN V, IsOf(V[j], K, g),
                \A k \in DOMAIN V : k > j => ~IsOf(V[k], K, g)
         PROVE  j + 1 \in DOMAIN W /\ V[j] = W[j + 1] /\ Last(j + 1, K, g)
    <3>1. j + 1 \in DOMAIN W /\ V[j] = W[j + 1]
      BY <1>11
    <3>2. ASSUME NEW i \in DOMAIN W, i > j + 1 PROVE ~IsOf(W[i], K, g)
      <4>1. i - 1 \in DOMAIN V /\ V[i - 1] = W[i] /\ i - 1 > j
        BY <1>11, <2>4, <3>2
      <4> QED
        BY <2>11, <4>1
    <3> QED
      BY <2>11, <3>1, <3>2 DEF Last, W
  <2>12. ASSUME NEW j \in DOMAIN V, IsOf(V[j], {"mode"}, g),
                \A k \in DOMAIN V : k > j => ~IsOf(V[k], {"mode"}, g)
         PROVE  V[j].mode = plugged[g]
    <3>1. j + 1 \in DOMAIN W /\ V[j] = W[j + 1] /\ Last(j + 1, {"mode"}, g)
      BY <2>11, <2>12
    <3> QED
      BY <2>1, <3>1 DEF Followed, W
  <2>13. ASSUME NEW j \in DOMAIN V, IsOf(V[j], Sizing, g),
                \A k \in DOMAIN V : k > j => ~IsOf(V[k], Sizing, g)
         PROVE  said[g] = Output!Size(V[j].kind, V[j].mode)
    <3>1. j + 1 \in DOMAIN W /\ V[j] = W[j + 1] /\ Last(j + 1, Sizing, g)
      BY <2>11, <2>13
    <3> QED
      BY <2>1, <3>1 DEF Followed, W
  <2>14. g \in DOMAIN said' /\ (g \in xdg_output_bound' <=> g \in xdg_live')
    BY <1>5, <2>1 DEF Followed
  <2> QED
    BY <1>5, <2>2, <2>5, <2>8, <2>9, <2>10, <2>12, <2>13, <2>14
       DEF Followed, NoneOf, Last, IsOf, Sizing, Output!Size, V
<1>16. OutputInv(g)'
  <2>1. g \notin DOMAIN plugged' => ~NoneOf({"remove"}, g)'
    BY <1>5, <1>14 DEF NoneOf, IsOf, V
  <2>2. g \in DOMAIN plugged' => g \in live'
    BY <1>5, <1>8
  <2>3. g \in live' => Followed(g)'
    BY <1>5, <1>15
  <2> QED
    BY <1>13, <2>1, <2>2, <2>3 DEF OutputInv, IsOf, V
<1> QED
  BY <1>12, <1>16

LEMMA EnsureXdgOutputKeeps ==
    ASSUME Output!TypeOK, \A h \in Globals : OutputInv(h), NEW g \in Globals, Output!EnsureXdgOutput(g)
    PROVE  \A h \in Globals : OutputInv(h)'
<1> DEFINE R == <<Output!SizeEvent("logical", g, plugged[g]), Output!Event("name", g)>>
<1>1. /\ queue \in Seq(Output!Events) /\ wire \in Seq(Output!Events)
      /\ DOMAIN said = live /\ live \subseteq DOMAIN plugged
      /\ \A h \in DOMAIN plugged : plugged[h] \in Modes
  BY DEF Output!TypeOK
<1>2. /\ queue' = queue /\ plugged' = plugged /\ live' = live /\ outputs' = outputs
      /\ xdg_output_bound' = xdg_output_bound \cup {g}
      /\ g \in DOMAIN outputs /\ g \notin xdg_output_bound
  BY DEF Output!EnsureXdgOutput
<1>3. CASE g \in live
  <2>1. /\ wire' = wire \o R /\ xdg_live' = xdg_live \cup {g}
        /\ said' = [said EXCEPT ![g] = Output!Size("logical", plugged[g])]
    BY <1>3 DEF Output!EnsureXdgOutput, Output!Send
  <2>2. R \in Seq(Output!Events) /\ DOMAIN R = {1, 2}
    BY <1>1, <1>3 DEF Output!Event, Output!SizeEvent, Output!Events
  <2>3. /\ R[1].kind = "logical" /\ R[1].global = g /\ R[1].mode = plugged[g]
        /\ R[2].kind = "name" /\ R[2].global = g
    BY DEF Output!Event, Output!SizeEvent
  <2> HIDE DEF R
  <2>4. ASSUME NEW h \in Globals, h # g PROVE OutputInv(h)'
    <3>1. SameOf(h)
      BY <1>1, <1>2, <2>1, <2>4 DEF SameOf
    <3>2. \A k \in DOMAIN R : ~IsOf(R[k], OutputKinds, h)
      BY <2>2, <2>3, <2>4 DEF IsOf
    <3> QED
      BY <1>1, <1>2, <2>1, <2>2, <3>1, <3>2, SentOfOthers
  <2>5. OutputInv(g)'
    <3>1. /\ \A k \in DOMAIN R : R[k].kind \in {"mode", "logical", "name"} /\ R[k].global = g
          /\ \A k \in DOMAIN R : R[k].kind = "mode" => R[k].mode = plugged'[g]
          /\ \E k \in DOMAIN R : R[k].kind \in Sizing
      BY <2>2, <2>3 DEF Sizing
    <3>2. ASSUME NEW k \in DOMAIN R, R[k].kind \in Sizing
          PROVE  said'[g] = Output!Size(R[k].kind, R[k].mode)
      <4>1. k = 1
        BY <2>2, <2>3, <3>2 DEF Sizing
      <4> QED
        BY <1>1, <1>3, <2>1, <2>3, <4>1
    <3>3. /\ g \in DOMAIN plugged' /\ g \in DOMAIN said' /\ g \in DOMAIN plugged
          /\ (g \in xdg_output_bound') <=> (g \in xdg_live')
      BY <1>1, <1>2, <1>3, <2>1
    <3> QED
      BY <1>1, <1>2, <1>3, <2>1, <2>2, <3>1, <3>2, <3>3, ToldAgain
  <2> QED
    BY <2>4, <2>5
<1>4. CASE g \notin live
  <2>1. wire' = wire /\ xdg_live' = xdg_live /\ said' = said
    BY <1>4 DEF Output!EnsureXdgOutput
  <2>2. InFlight' = InFlight
    BY <1>2, <2>1 DEF InFlight, Output!InFlight
  <2>3. ASSUME NEW h \in Globals, h # g PROVE OutputInv(h)'
    <3>1. SameOf(h)
      BY <1>2, <2>1, <2>3 DEF SameOf
    <3> QED
      BY <1>1, <2>2, <3>1, OthersStay
  <2>4. g \notin DOMAIN plugged /\ ~NoneOf({"remove"}, g)
    BY <1>2, <1>4 DEF OutputInv, Announced, UnheardOf
  <2>5. OutputInv(g)'
    <3>1. \A i \in DOMAIN InFlight : IsOf(InFlight[i], {"remove"}, g) =>
              \A j \in DOMAIN InFlight : j > i => ~IsOf(InFlight[j], OutputKinds, g)
      BY DEF OutputInv
    <3> QED
      BY <1>2, <1>4, <2>1, <2>2, <2>4, <3>1 DEF OutputInv, NoneOf, IsOf
  <2> QED
    BY <2>3, <2>5
<1> QED
  BY <1>3, <1>4

\* The steps that are of no output.
LEMMA OtherStepsKeep ==
    ASSUME Output!TypeOK, \A h \in Globals : OutputInv(h),
           \/ Output!FrameDone \/ Output!Read \/ Output!DispatchOnce \/ Output!StartRoundtrip
           \/ Output!DispatchInLoop \/ Output!CallbackDone \/ Output!Dispatched \/ Output!Ensured
           \/ \E config \in Configurations : Output!OnOutputsChanged(config)
           \/ UNCHANGED outputVars
    PROVE  \A h \in Globals : OutputInv(h)'
<1> SUFFICES ASSUME NEW h \in Globals PROVE OutputInv(h)'
  OBVIOUS
<1>1. queue \in Seq(Output!Events) /\ wire \in Seq(Output!Events)
  BY DEF Output!TypeOK
<1>2. SameOf(h)
  BY DEF SameOf, outputVars, Output!FrameDone, Output!Read, Output!DispatchOnce, Output!StartRoundtrip,
     Output!DispatchInLoop, Output!CallbackDone, Output!Dispatched, Output!Ensured,
     Output!OnOutputsChanged, Output!compositorVars, Output!clientVars
<1>3. ASSUME NEW kind \in {"done", "synced"}, queue' = queue,
             wire' = wire \o <<Output!Event(kind, None)>>
      PROVE  OutputInv(h)'
  <2> DEFINE R == <<Output!Event(kind, None)>>
  <2>1. R \in Seq(Output!Events) /\ DOMAIN R = {1} /\ R[1].kind = kind
    BY DEF Output!Event, Output!Events
  <2> HIDE DEF R
  <2>2. \A k \in DOMAIN R : ~IsOf(R[k], OutputKinds, h)
    BY <2>1 DEF IsOf, OutputKinds
  <2> QED
    BY <1>1, <1>2, <1>3, <2>1, <2>2, SentOfOthers DEF R
<1>4. CASE Output!FrameDone
  BY <1>3, <1>4 DEF Output!FrameDone, Output!Send
<1>5. CASE Output!StartRoundtrip
  BY <1>3, <1>5 DEF Output!StartRoundtrip, Output!Send
<1>6. ASSUME InFlight' = InFlight PROVE OutputInv(h)'
  BY <1>1, <1>2, <1>6, OthersStay
<1>7. CASE Output!CallbackDone
  <2>1. /\ queue # <<>> /\ queue' = Tail(queue) /\ wire' = wire \o <<>>
        /\ Head(queue).kind \in {"done", "synced"}
    BY <1>7 DEF Output!CallbackDone, Output!Handles, Output!Answered
  <2>2. ~IsOf(Head(queue), OutputKinds, h)
    BY <2>1 DEF IsOf, OutputKinds
  <2>3. /\ <<>> \in Seq(Output!Events)
        /\ \A k \in DOMAIN <<>> : ~IsOf(<<>>[k], OutputKinds, h)
    OBVIOUS
  <2> QED
    BY <1>1, <1>2, <2>1, <2>2, <2>3, HandledOfOthers
<1>8. CASE Output!Read
  <2>1. queue' = InFlight /\ wire' = <<>>
    BY <1>8 DEF Output!Read, InFlight
  <2>2. InFlight \in Seq(Output!Events)
    BY <1>1 DEF InFlight, Output!InFlight
  <2>3. InFlight' = InFlight \o <<>>
    BY <2>1 DEF InFlight, Output!InFlight
  <2>4. InFlight' = InFlight
    BY <2>2, <2>3
  <2> QED
    BY <1>6, <2>4
<1>9. ASSUME \/ queue' = queue /\ wire' = wire
             \/ queue = <<>> /\ queue' = wire /\ wire' = <<>>
      PROVE  OutputInv(h)'
  <2>1. CASE queue' = queue /\ wire' = wire
    BY <1>6, <2>1 DEF InFlight, Output!InFlight
  <2>2. CASE queue = <<>> /\ queue' = wire /\ wire' = <<>>
    <3>1. <<>> \o wire = wire /\ wire \o <<>> = wire
      BY <1>1
    <3>2. InFlight' = wire \o <<>> /\ InFlight = <<>> \o wire
      BY <2>2 DEF InFlight, Output!InFlight
    <3> QED
      BY <1>6, <3>1, <3>2
  <2> QED
    BY <1>9, <2>1, <2>2
<1>10. CASE Output!DispatchOnce \/ Output!DispatchInLoop
  BY <1>9, <1>10 DEF Output!DispatchOnce, Output!DispatchInLoop
<1>11. CASE \/ Output!Dispatched \/ Output!Ensured
            \/ \E config \in Configurations : Output!OnOutputsChanged(config)
            \/ UNCHANGED outputVars
  BY <1>9, <1>11 DEF Output!Dispatched, Output!Ensured, Output!OnOutputsChanged, outputVars
<1> QED
  BY <1>4, <1>5, <1>7, <1>8, <1>10, <1>11

-----------------------------------------------------------------------------
(* Types, the roundtrip and the bindings *)

NoneSynced(R) == \A k \in DOMAIN R : R[k].kind # "synced"

\* Each step sends, or handles the first event, or moves what is read.
Sends == \E R \in Seq(Output!Events) : NoneSynced(R) /\ queue' = queue /\ wire' = wire \o R
Starts ==
    /\ ~pending_roundtrip /\ pending_roundtrip' = TRUE
    /\ queue' = queue /\ wire' = wire \o <<Output!Event("synced", None)>>
HandlesOne ==
    /\ queue # <<>> /\ queue' = Tail(queue)
    /\ \E R \in Seq(Output!Events) : NoneSynced(R) /\ wire' = wire \o R
    /\ IF Head(queue).kind = "synced" THEN pending_roundtrip' = FALSE
       ELSE pending_roundtrip' = pending_roundtrip
Moves == InFlight' = InFlight /\ queue' \in Seq(Output!Events) /\ wire' \in Seq(Output!Events)

LEMMA EventsFlow ==
    ASSUME Output!TypeOK, Output!Next \/ UNCHANGED outputVars
    PROVE  \/ Sends /\ pending_roundtrip' = pending_roundtrip
           \/ Starts
           \/ HandlesOne
           \/ Moves /\ pending_roundtrip' = pending_roundtrip
<1>1. /\ queue \in Seq(Output!Events) /\ wire \in Seq(Output!Events)
      /\ \A g \in DOMAIN plugged : g \in Globals /\ plugged[g] \in Modes
      /\ live \subseteq DOMAIN plugged /\ pending_roundtrip \in BOOLEAN
  BY DEF Output!TypeOK
<1>2. ASSUME NEW kind \in {"global", "remove", "name"}, NEW g \in Globals
      PROVE  Output!Event(kind, g) \in Output!Events /\ Output!Event(kind, g).kind = kind
  BY <1>2 DEF Output!Event, Output!Events
<1>3. ASSUME NEW of \in {"mode", "logical"}, NEW g \in Globals, NEW mode \in Modes
      PROVE  Output!SizeEvent(of, g, mode) \in Output!Events /\ Output!SizeEvent(of, g, mode).kind = of
  BY <1>3 DEF Output!SizeEvent, Output!Events
<1>4. ASSUME NEW e \in Output!Events, e.kind # "synced"
      PROVE  <<e>> \in Seq(Output!Events) /\ NoneSynced(<<e>>)
  BY <1>4 DEF NoneSynced
<1>5. ASSUME NEW e \in Output!Events, e.kind # "synced", NEW f \in Output!Events, f.kind # "synced"
      PROVE  <<e, f>> \in Seq(Output!Events) /\ NoneSynced(<<e, f>>)
  <2>1. DOMAIN <<e, f>> = {1, 2}
    OBVIOUS
  <2> QED
    BY <1>5, <2>1 DEF NoneSynced
<1>6. <<>> \in Seq(Output!Events) /\ NoneSynced(<<>>) /\ wire = wire \o <<>>
  BY <1>1 DEF NoneSynced
<1>7. ASSUME NEW g \in Globals, NEW mode \in Modes, Output!Plug(g, mode)
      PROVE  Sends /\ pending_roundtrip' = pending_roundtrip
  <2>1. <<Output!Event("global", g)>> \in Seq(Output!Events) /\ NoneSynced(<<Output!Event("global", g)>>)
    BY <1>2, <1>4
  <2> QED
    BY <1>7, <2>1 DEF Sends, Output!Plug, Output!Send, Output!clientVars
<1>8. ASSUME NEW g \in Globals, Output!Unplug(g)
      PROVE  Sends /\ pending_roundtrip' = pending_roundtrip
  <2>1. <<Output!Event("remove", g)>> \in Seq(Output!Events) /\ NoneSynced(<<Output!Event("remove", g)>>)
    BY <1>2, <1>4
  <2> QED
    BY <1>8, <2>1 DEF Sends, Output!Unplug, Output!Send, Output!clientVars
<1>9. ASSUME NEW g \in Globals, NEW mode \in Modes, NEW logicalFirst \in BOOLEAN,
             Output!ChangeMode(g, mode, logicalFirst)
      PROVE  Sends /\ pending_roundtrip' = pending_roundtrip
  <2> DEFINE first == IF logicalFirst THEN "logical" ELSE "mode"
             last == IF logicalFirst THEN "mode" ELSE "logical"
             both == <<Output!SizeEvent(first, g, mode), Output!SizeEvent(last, g, mode)>>
             one == <<Output!SizeEvent("mode", g, mode)>>
  <2>1. both \in Seq(Output!Events) /\ NoneSynced(both)
    <3>1. first \in {"mode", "logical"} /\ last \in {"mode", "logical"}
      OBVIOUS
    <3> QED
      BY <1>3, <1>5, <3>1
  <2>2. one \in Seq(Output!Events) /\ NoneSynced(one)
    BY <1>3, <1>4
  <2>3. wire' = wire \o both \/ wire' = wire \o one
    BY <1>9 DEF Output!ChangeMode, Output!Send
  <2>4. queue' = queue /\ pending_roundtrip' = pending_roundtrip
    BY <1>9 DEF Output!ChangeMode, Output!clientVars
  <2> HIDE DEF both, one
  <2> QED
    BY <2>1, <2>2, <2>3, <2>4 DEF Sends
<1>10. CASE Output!FrameDone
  <2>1. Output!Event("done", None) \in Output!Events /\ Output!Event("done", None).kind = "done"
    BY DEF Output!Event, Output!Events
  <2>2. <<Output!Event("done", None)>> \in Seq(Output!Events) /\ NoneSynced(<<Output!Event("done", None)>>)
    BY <1>4, <2>1
  <2> QED
    BY <1>10, <2>2 DEF Sends, Output!FrameDone, Output!Send, Output!clientVars
<1>11. CASE Output!StartRoundtrip
  BY <1>11 DEF Starts, Output!StartRoundtrip, Output!Send
<1>12. ASSUME NEW g \in Globals, Output!EnsureXdgOutput(g)
       PROVE  Sends /\ pending_roundtrip' = pending_roundtrip
  <2> DEFINE R == <<Output!SizeEvent("logical", g, plugged[g]), Output!Event("name", g)>>
  <2>1. queue' = queue /\ pending_roundtrip' = pending_roundtrip
    BY <1>12 DEF Output!EnsureXdgOutput
  <2>2. CASE g \in live
    <3>1. R \in Seq(Output!Events) /\ NoneSynced(R)
      BY <1>1, <1>2, <1>3, <1>5, <2>2
    <3>2. wire' = wire \o R
      BY <1>12, <2>2 DEF Output!EnsureXdgOutput, Output!Send
    <3> HIDE DEF R
    <3> QED
      BY <2>1, <3>1, <3>2 DEF Sends
  <2>3. CASE g \notin live
    <3>1. wire' = wire
      BY <1>12, <2>3 DEF Output!EnsureXdgOutput
    <3> QED
      BY <1>6, <2>1, <3>1 DEF Sends
  <2> QED
    BY <2>2, <2>3
<1>13. CASE Output!OutputAppears
  <2> DEFINE g == Head(queue).global
             R == <<Output!SizeEvent("mode", g, plugged[g]), Output!Event("name", g)>>
  <2>1. /\ queue # <<>> /\ queue' = Tail(queue) /\ pending_roundtrip' = pending_roundtrip
        /\ Head(queue).kind = "global"
    BY <1>13 DEF Output!OutputAppears, Output!Handles, Output!Answered
  <2>2. CASE g \in DOMAIN plugged
    <3>1. R \in Seq(Output!Events) /\ NoneSynced(R)
      BY <1>1, <1>2, <1>3, <1>5, <2>2
    <3>2. wire' = wire \o R
      BY <1>13, <2>2 DEF Output!OutputAppears, Output!Answered
    <3> HIDE DEF R
    <3> QED
      BY <2>1, <3>1, <3>2 DEF HandlesOne
  <2>3. CASE g \notin DOMAIN plugged
    <3>1. wire' = wire \o <<>>
      BY <1>13, <2>3 DEF Output!OutputAppears, Output!Answered
    <3> QED
      BY <1>6, <2>1, <3>1 DEF HandlesOne
  <2> QED
    BY <2>2, <2>3
<1>14. CASE Output!OutputGoes \/ Output!CallbackDone \/ Output!OutputTold
  <2>1. /\ queue # <<>> /\ queue' = Tail(queue) /\ wire' = wire \o <<>>
        /\ IF Head(queue).kind = "synced" THEN pending_roundtrip' = FALSE
           ELSE pending_roundtrip' = pending_roundtrip
    BY <1>1, <1>14 DEF Output!OutputGoes, Output!CallbackDone, Output!OutputTold, Output!Handles, Output!Answered
  <2> QED
    BY <1>6, <2>1 DEF HandlesOne
<1>15. CASE Output!Read
  <2>1. queue' = InFlight /\ wire' = <<>> /\ pending_roundtrip' = pending_roundtrip
    BY <1>15 DEF Output!Read, InFlight, Output!clientVars
  <2>2. InFlight \in Seq(Output!Events)
    BY <1>1 DEF InFlight, Output!InFlight
  <2>3. InFlight' = InFlight \o <<>>
    BY <2>1 DEF InFlight, Output!InFlight
  <2>4. InFlight' = InFlight
    BY <2>2, <2>3
  <2> QED
    BY <1>6, <2>1, <2>2, <2>4 DEF Moves
<1>16. ASSUME \/ queue' = queue /\ wire' = wire
              \/ queue = <<>> /\ queue' = wire /\ wire' = <<>>
       PROVE  Moves
  <2>1. CASE queue' = queue /\ wire' = wire
    BY <1>1, <2>1 DEF Moves, InFlight, Output!InFlight
  <2>2. CASE queue = <<>> /\ queue' = wire /\ wire' = <<>>
    <3>1. <<>> \o wire = wire /\ wire \o <<>> = wire
      BY <1>1
    <3>2. InFlight' = wire \o <<>> /\ InFlight = <<>> \o wire
      BY <2>2 DEF InFlight, Output!InFlight
    <3> QED
      BY <1>1, <1>6, <2>2, <3>1, <3>2 DEF Moves
  <2> QED
    BY <1>16, <2>1, <2>2
<1>17. CASE \/ Output!DispatchOnce \/ Output!DispatchInLoop \/ Output!Dispatched \/ Output!Ensured
            \/ \E config \in Configurations : Output!OnOutputsChanged(config)
            \/ UNCHANGED outputVars
  BY <1>16, <1>17 DEF Output!DispatchOnce, Output!DispatchInLoop, Output!Dispatched, Output!Ensured,
     Output!OnOutputsChanged, Output!clientVars, outputVars
<1> QED
  BY <1>7, <1>8, <1>9, <1>10, <1>11, <1>12, <1>13, <1>14, <1>15, <1>17 DEF Output!Next

LEMMA RoundtripKept ==
    ASSUME Output!TypeOK, RoundtripInv, Output!Next \/ UNCHANGED outputVars
    PROVE  RoundtripInv' /\ wire' \in Seq(Output!Events) /\ queue' \in Seq(Output!Events)
<1> DEFINE W == InFlight
           V == InFlight'
           synced(X, i) == i \in DOMAIN X /\ X[i].kind = "synced" /\ X[i].global = None
<1>1. queue \in Seq(Output!Events) /\ wire \in Seq(Output!Events)
  BY DEF Output!TypeOK
<1>2. /\ \A i : synced(W, i) => pending_roundtrip
      /\ \A i, j : synced(W, i) /\ synced(W, j) => i = j
  BY DEF RoundtripInv, IsOf
<1>3. ASSUME \A i : synced(V, i) => pending_roundtrip',
             \A i, j : synced(V, i) /\ synced(V, j) => i = j
      PROVE  RoundtripInv'
  BY <1>3 DEF RoundtripInv, IsOf
<1>4. ASSUME Sends, pending_roundtrip' = pending_roundtrip
      PROVE  RoundtripInv' /\ wire' \in Seq(Output!Events) /\ queue' \in Seq(Output!Events)
  <2>1. PICK R \in Seq(Output!Events) : NoneSynced(R) /\ queue' = queue /\ wire' = wire \o R
    BY <1>4 DEF Sends
  <2>2. /\ W \in Seq(Output!Events) /\ V \in Seq(Output!Events) /\ Len(V) = Len(W) + Len(R)
        /\ wire' \in Seq(Output!Events)
        /\ \A i \in DOMAIN W : V[i] = W[i]
        /\ \A k \in DOMAIN R : V[Len(W) + k] = R[k]
    BY <1>1, <2>1, SentBehind
  <2> HIDE DEF W, V
  <2>3. ASSUME NEW i, synced(V, i) PROVE synced(W, i)
    <3>1. i \in 1 .. Len(V) /\ DOMAIN W = 1 .. Len(W) /\ DOMAIN R = 1 .. Len(R)
          /\ Len(W) \in Nat /\ Len(R) \in Nat
      BY <2>2, <2>3
    <3>2. CASE i > Len(W)
      <4>1. i - Len(W) \in DOMAIN R /\ i = Len(W) + (i - Len(W))
        BY <2>2, <3>1, <3>2
      <4> QED
        BY <2>1, <2>2, <2>3, <4>1 DEF NoneSynced
    <3>3. CASE i <= Len(W)
      BY <2>2, <2>3, <3>1, <3>3
    <3> QED
      BY <3>1, <3>2, <3>3
  <2> QED
    BY <1>1, <1>2, <1>3, <1>4, <2>1, <2>2, <2>3
<1>5. ASSUME Starts
      PROVE  RoundtripInv' /\ wire' \in Seq(Output!Events) /\ queue' \in Seq(Output!Events)
  <2> DEFINE R == <<Output!Event("synced", None)>>
  <2>1. R \in Seq(Output!Events) /\ Len(R) = 1 /\ queue' = queue /\ wire' = wire \o R
    BY <1>5 DEF Starts, Output!Event, Output!Events
  <2> HIDE DEF R
  <2>2. /\ W \in Seq(Output!Events) /\ V \in Seq(Output!Events) /\ Len(V) = Len(W) + Len(R)
        /\ wire' \in Seq(Output!Events)
        /\ \A i \in DOMAIN W : V[i] = W[i]
    BY <1>1, <2>1, SentBehind
  <2>3. \A i : ~synced(W, i)
    BY <1>2, <1>5 DEF Starts
  <2> HIDE DEF W, V
  <2>4. ASSUME NEW i, synced(V, i) PROVE i = Len(W) + 1
    <3>1. i \in 1 .. Len(W) + 1 /\ DOMAIN W = 1 .. Len(W) /\ Len(W) \in Nat
      BY <2>1, <2>2, <2>4
    <3> QED
      BY <2>2, <2>3, <2>4, <3>1
  <2> QED
    BY <1>1, <1>3, <1>5, <2>1, <2>2, <2>4 DEF Starts
<1>6. ASSUME HandlesOne
      PROVE  RoundtripInv' /\ wire' \in Seq(Output!Events) /\ queue' \in Seq(Output!Events)
  <2>1. PICK R \in Seq(Output!Events) : NoneSynced(R) /\ wire' = wire \o R
    BY <1>6 DEF HandlesOne
  <2>2. queue # <<>> /\ queue' = Tail(queue)
    BY <1>6 DEF HandlesOne
  <2>3. /\ W \in Seq(Output!Events) /\ V \in Seq(Output!Events) /\ Len(W) \in Nat \ {0}
        /\ wire' \in Seq(Output!Events) /\ queue' \in Seq(Output!Events)
        /\ Len(V) = Len(W) - 1 + Len(R) /\ W[1] = Head(queue) /\ Head(queue) \in Output!Events
        /\ \A i \in DOMAIN W : i > 1 => V[i - 1] = W[i]
        /\ \A k \in DOMAIN R : V[Len(W) - 1 + k] = R[k]
    BY <1>1, <2>1, <2>2, FirstGone
  <2> HIDE DEF W, V
  <2>4. DOMAIN W = 1 .. Len(W) /\ DOMAIN R = 1 .. Len(R) /\ Len(R) \in Nat /\ DOMAIN V = 1 .. Len(V)
    BY <2>3
  <2>5. ASSUME NEW i, synced(V, i) PROVE i \in Nat /\ synced(W, i + 1)
    <3>1. i \in 1 .. Len(V)
      BY <2>4, <2>5
    <3>2. CASE i > Len(W) - 1
      <4>1. i - (Len(W) - 1) \in DOMAIN R /\ i = Len(W) - 1 + (i - (Len(W) - 1))
        BY <2>3, <2>4, <3>1, <3>2
      <4> QED
        BY <2>1, <2>3, <2>5, <4>1 DEF NoneSynced
    <3>3. CASE i <= Len(W) - 1
      <4>1. i + 1 \in DOMAIN W /\ i + 1 > 1 /\ (i + 1) - 1 = i
        BY <2>3, <2>4, <3>1, <3>3
      <4> QED
        BY <2>3, <2>5, <3>1, <4>1
    <3> QED
      BY <2>3, <3>1, <3>2, <3>3
  <2>6. ASSUME NEW i, synced(V, i) PROVE pending_roundtrip'
    <3>1. synced(W, i + 1) /\ i + 1 # 1
      <4>1. i # 0
        BY <2>4, <2>6
      <4> QED
        BY <2>5, <2>6, <4>1
    <3>2. ~(Head(queue).kind = "synced")
      <4>1. Head(queue).kind = "synced" => Head(queue).global = None
        BY <2>3 DEF Output!Events
      <4>2. 1 \in DOMAIN W
        BY <2>3, <2>4
      <4> QED
        BY <1>2, <2>3, <3>1, <4>1, <4>2
    <3>3. pending_roundtrip' = pending_roundtrip
      BY <1>6, <3>2 DEF HandlesOne
    <3> QED
      BY <1>2, <3>1, <3>3
  <2>7. ASSUME NEW i, NEW j, synced(V, i), synced(V, j) PROVE i = j
    <3>1. i \in Nat /\ j \in Nat /\ i + 1 = j + 1
      BY <1>2, <2>5, <2>7
    <3> QED
      BY <3>1
  <2> QED
    BY <1>3, <2>3, <2>6, <2>7
<1>7. ASSUME Moves, pending_roundtrip' = pending_roundtrip
      PROVE  RoundtripInv' /\ wire' \in Seq(Output!Events) /\ queue' \in Seq(Output!Events)
  BY <1>7 DEF Moves, RoundtripInv, IsOf
<1> QED
  BY <1>4, <1>5, <1>6, <1>7, EventsFlow

LEMMA WireIsBounded ==
    ASSUME Output!TypeOK, Output!Next \/ UNCHANGED outputVars
    PROVE  Len(wire') + Len(queue') <= MaxWire
<1>1. queue \in Seq(Output!Events) /\ wire \in Seq(Output!Events) /\ Len(wire) + Len(queue) <= MaxWire
  BY DEF Output!TypeOK
<1>2. Len(queue) \in Nat /\ Len(wire) \in Nat /\ Len(InFlight) = Len(queue) + Len(wire)
  BY <1>1 DEF InFlight, Output!InFlight
<1>3. ASSUME NEW R, Len(R) \in Nat, Len(wire \o R) = Len(wire) + Len(R),
             queue' = queue, wire' = wire \o R, Len(InFlight) + Len(R) <= MaxWire
      PROVE  Len(wire') + Len(queue') <= MaxWire
  BY <1>2, <1>3
<1>4. ASSUME NEW R, Len(R) \in Nat, Len(wire \o R) = Len(wire) + Len(R),
             queue # <<>>, queue' = Tail(queue), wire' = wire \o R,
             Len(InFlight) - 1 + Len(R) <= MaxWire
      PROVE  Len(wire') + Len(queue') <= MaxWire
  <2>1. Len(queue') = Len(queue) - 1
    BY <1>1, <1>4
  <2> QED
    BY <1>2, <1>4, <2>1
<1>5. /\ \A e : Len(<<e>>) = 1 /\ Len(wire \o <<e>>) = Len(wire) + 1
      /\ \A e, f : Len(<<e, f>>) = 2 /\ Len(wire \o <<e, f>>) = Len(wire) + 2
      /\ Len(<<>>) = 0 /\ Len(wire \o <<>>) = Len(wire) + 0
  <2>1. wire \in Seq(Output!Events \cup {x : x \in Output!Events})
    BY <1>1
  <2>2. ASSUME NEW e PROVE Len(<<e>>) = 1 /\ Len(wire \o <<e>>) = Len(wire) + 1
    <3>1. wire \in Seq(Output!Events \cup {e}) /\ <<e>> \in Seq(Output!Events \cup {e})
      BY <1>1
    <3> QED
      BY <3>1
  <2>3. ASSUME NEW e, NEW f PROVE Len(<<e, f>>) = 2 /\ Len(wire \o <<e, f>>) = Len(wire) + 2
    <3>1. wire \in Seq(Output!Events \cup {e, f}) /\ <<e, f>> \in Seq(Output!Events \cup {e, f})
      BY <1>1
    <3> QED
      BY <3>1
  <2>4. Len(<<>>) = 0 /\ Len(wire \o <<>>) = Len(wire) + 0
    BY <1>1
  <2> QED
    BY <2>2, <2>3, <2>4
<1>6. ASSUME NEW R, Output!Send(R), queue' = queue, Len(R) \in Nat, Len(wire \o R) = Len(wire) + Len(R)
      PROVE  Len(wire') + Len(queue') <= MaxWire
  BY <1>3, <1>6 DEF Output!Send, InFlight
<1>7. ASSUME NEW R, Output!Answered(R), queue # <<>>, Len(R) \in Nat,
             Len(wire \o R) = Len(wire) + Len(R)
      PROVE  Len(wire') + Len(queue') <= MaxWire
  BY <1>4, <1>7 DEF Output!Answered, InFlight
<1>8. ASSUME NEW g \in Globals, NEW mode \in Modes, Output!Plug(g, mode)
      PROVE  Len(wire') + Len(queue') <= MaxWire
  BY <1>5, <1>6, <1>8 DEF Output!Plug
<1>9. ASSUME NEW g \in Globals, Output!Unplug(g)
      PROVE  Len(wire') + Len(queue') <= MaxWire
  BY <1>5, <1>6, <1>9 DEF Output!Unplug
<1>10. ASSUME NEW g \in Globals, NEW mode \in Modes, NEW first \in BOOLEAN, Output!ChangeMode(g, mode, first)
       PROVE  Len(wire') + Len(queue') <= MaxWire
  BY <1>5, <1>6, <1>10 DEF Output!ChangeMode
<1>11. ASSUME NEW g \in Globals, Output!EnsureXdgOutput(g)
       PROVE  Len(wire') + Len(queue') <= MaxWire
  BY <1>1, <1>5, <1>6, <1>11 DEF Output!EnsureXdgOutput
<1>12. CASE Output!FrameDone \/ Output!StartRoundtrip
  BY <1>5, <1>6, <1>12 DEF Output!FrameDone, Output!StartRoundtrip
<1>13. CASE Output!OutputAppears \/ Output!OutputGoes \/ Output!CallbackDone \/ Output!OutputTold
  BY <1>5, <1>7, <1>13 DEF Output!OutputAppears, Output!OutputGoes, Output!CallbackDone, Output!OutputTold,
     Output!Handles
<1>14. CASE Output!Read
  BY <1>1, <1>2, <1>14 DEF Output!Read, InFlight
<1>15. CASE \/ Output!DispatchOnce \/ Output!DispatchInLoop \/ Output!Dispatched \/ Output!Ensured
            \/ \E config \in Configurations : Output!OnOutputsChanged(config)
            \/ UNCHANGED outputVars
  BY <1>1, <1>2, <1>15 DEF Output!DispatchOnce, Output!DispatchInLoop, Output!Dispatched, Output!Ensured,
     Output!OnOutputsChanged, outputVars
<1> QED
  BY <1>8, <1>9, <1>10, <1>11, <1>12, <1>13, <1>14, <1>15 DEF Output!Next

LEMMA OutputsTyped ==
    ASSUME OutputsInv, Output!Next \/ UNCHANGED outputVars
    PROVE  Output!TypeOK'
<1> USE DEF Output!TypeOK, Output!compositorVars, Output!clientVars, Output!managerVars
<1>1. Output!TypeOK
  BY DEF OutputsInv
<1>2. /\ wire' \in Seq(Output!Events) /\ queue' \in Seq(Output!Events)
      /\ Len(wire') + Len(queue') <= MaxWire
  BY <1>1, RoundtripKept, WireIsBounded DEF OutputsInv
<1>3. ASSUME NEW of \in {"mode", "logical"}, NEW mode \in Modes
      PROVE  Output!Size(of, mode) \in Output!OutputSizes
  BY <1>3 DEF Output!Size, Output!OutputSizes
<1>4. ASSUME NEW g \in Globals, NEW mode \in Modes, Output!Plug(g, mode) PROVE Output!TypeOK'
  BY <1>1, <1>2, <1>4 DEF Output!Plug, Output!With
<1>5. ASSUME NEW g \in Globals, Output!Unplug(g) PROVE Output!TypeOK'
  BY <1>1, <1>2, <1>5 DEF Output!Unplug, Output!Without
<1>6. ASSUME NEW g \in Globals, NEW mode \in Modes, NEW first \in BOOLEAN, Output!ChangeMode(g, mode, first)
      PROVE  Output!TypeOK'
  <2>1. PICK of \in {"mode", "logical"} : said' = [said EXCEPT ![g] = Output!Size(of, mode)]
    BY <1>6 DEF Output!ChangeMode
  <2>2. g \in live /\ plugged' = [plugged EXCEPT ![g] = mode] /\ live' = live /\ xdg_live' = xdg_live
    BY <1>6 DEF Output!ChangeMode
  <2>3. /\ DOMAIN said' = live' /\ \A h \in live' : said'[h] \in Output!OutputSizes
        /\ DOMAIN plugged' = DOMAIN plugged /\ \A h \in DOMAIN plugged' : plugged'[h] \in Modes
    BY <1>1, <1>3, <2>1, <2>2
  <2>4. UNCHANGED <<turn, outputs, xdg_output_bound, pending_roundtrip, bindings>>
    BY <1>6 DEF Output!ChangeMode
  <2> QED
    BY <1>1, <1>2, <2>2, <2>3, <2>4
<1>7. CASE Output!OutputAppears
  <2>0. PICK g : g = Head(queue).global
    OBVIOUS
  <2> DEFINE blank == [name |-> None, size |-> None, mode |-> None]
  <2>1. g \in Globals
    <3>1. queue # <<>> /\ Head(queue).kind = "global"
      BY <1>7 DEF Output!OutputAppears, Output!Handles
    <3>2. Head(queue) \in Output!Events
      BY <1>1, <3>1
    <3> QED
      BY <2>0, <3>1, <3>2 DEF Output!Events
  <2>2. /\ outputs' = Output!With(outputs, g, blank) /\ xdg_output_bound' = xdg_output_bound
        /\ plugged' = plugged /\ xdg_live' = xdg_live /\ turn' = turn
        /\ pending_roundtrip' = pending_roundtrip /\ bindings' = bindings
        /\ g \in DOMAIN plugged => live' = live \cup {g} /\ said' = Output!With(said, g, Output!Size("mode", plugged[g]))
        /\ g \notin DOMAIN plugged => live' = live /\ said' = said
    BY <1>7, <2>0 DEF Output!OutputAppears
  <2>3. DOMAIN said' = live' /\ \A h \in live' : said'[h] \in Output!OutputSizes
    BY <1>1, <1>3, <2>2 DEF Output!With
  <2>4. /\ DOMAIN outputs' \subseteq Globals
        /\ \A h \in DOMAIN outputs' :
              outputs'[h] \in [name : {h, None}, size : Output!OutputSizes, mode : Modes \cup {None}]
    BY <1>1, <2>1, <2>2 DEF Output!With, Output!OutputSizes
  <2>5. xdg_output_bound' \subseteq DOMAIN outputs' /\ xdg_live' \subseteq live' /\ live' \subseteq DOMAIN plugged'
    BY <1>1, <2>2 DEF Output!With
  <2> QED
    BY <1>1, <1>2, <2>2, <2>3, <2>4, <2>5
<1>8. CASE Output!OutputGoes
  BY <1>1, <1>2, <1>8 DEF Output!OutputGoes, Output!Without
<1>9. CASE Output!CallbackDone
  BY <1>1, <1>2, <1>9 DEF Output!CallbackDone
<1>10. CASE Output!OutputTold
  <2>0. PICK e : e = Head(queue)
    OBVIOUS
  <2>1. /\ e \in Output!Events /\ e.kind \in {"name", "mode", "logical"}
    <3>1. queue # <<>> /\ e.kind \in {"name", "mode", "logical"}
      BY <1>10, <2>0 DEF Output!OutputTold, Output!Handles
    <3> QED
      BY <1>1, <2>0, <3>1
  <2>2. /\ outputs' = [h \in DOMAIN outputs |-> IF h = e.global THEN Output!Told(outputs[h], e) ELSE outputs[h]]
        /\ UNCHANGED <<plugged, live, xdg_live, said, turn, xdg_output_bound, pending_roundtrip, bindings>>
    BY <1>10, <2>0 DEF Output!OutputTold
  <2>3. e.kind \in {"mode", "logical"} => e.mode \in Modes
    BY <2>1 DEF Output!Events
  <2>4. ASSUME NEW h, h = e.global,
               NEW o \in [name : {h, None}, size : Output!OutputSizes, mode : Modes \cup {None}]
        PROVE  Output!Told(o, e) \in [name : {h, None}, size : Output!OutputSizes, mode : Modes \cup {None}]
    BY <1>3, <2>1, <2>3, <2>4 DEF Output!Told
  <2>5. \A h \in DOMAIN outputs' :
            outputs'[h] \in [name : {h, None}, size : Output!OutputSizes, mode : Modes \cup {None}]
    BY <1>1, <2>2, <2>4
  <2>6. DOMAIN outputs' = DOMAIN outputs
    BY <2>2
  <2> QED
    BY <1>1, <1>2, <2>2, <2>5, <2>6
<1>11. ASSUME NEW g \in Globals, Output!EnsureXdgOutput(g) PROVE Output!TypeOK'
  <2>1. /\ xdg_output_bound' = xdg_output_bound \cup {g} /\ g \in DOMAIN outputs
        /\ UNCHANGED <<plugged, live, turn, outputs, pending_roundtrip, bindings>>
    BY <1>11 DEF Output!EnsureXdgOutput
  <2>2. /\ DOMAIN said' = live' /\ \A h \in live' : said'[h] \in Output!OutputSizes
        /\ xdg_live' \subseteq live'
    <3>1. CASE g \in live
      <4>1. said' = [said EXCEPT ![g] = Output!Size("logical", plugged[g])] /\ xdg_live' = xdg_live \cup {g}
        BY <1>11, <3>1 DEF Output!EnsureXdgOutput
      <4>2. Output!Size("logical", plugged[g]) \in Output!OutputSizes
        BY <1>1, <1>3, <3>1
      <4> QED
        BY <1>1, <2>1, <3>1, <4>1, <4>2
    <3>2. CASE g \notin live
      BY <1>1, <1>11, <2>1, <3>2 DEF Output!EnsureXdgOutput
    <3> QED
      BY <3>1, <3>2
  <2> QED
    BY <1>1, <1>2, <2>1, <2>2
<1>12. ASSUME NEW config \in Configurations, Output!OnOutputsChanged(config) PROVE Output!TypeOK'
  <2>1. Output!Names \subseteq Globals
    BY <1>1 DEF Output!Names
  <2>2. Output!Reconciled(config, Output!Names)
            \subseteq [name : {c.name : c \in Output!ConfiguredSurfaces}, output : Globals]
    <3>1. config \subseteq Output!ConfiguredSurfaces
      BY DEF Output!ConfiguredSurfaces
    <3> QED
      BY <1>1, <2>1, <3>1 DEF Output!Reconciled, Output!Wanted
  <2> QED
    BY <1>1, <1>2, <1>12, <2>2 DEF Output!OnOutputsChanged
<1>13. CASE \/ Output!FrameDone \/ Output!StartRoundtrip \/ Output!Read \/ Output!DispatchOnce
            \/ Output!DispatchInLoop \/ Output!Dispatched \/ Output!Ensured \/ UNCHANGED outputVars
  BY <1>1, <1>2, <1>13 DEF Output!FrameDone, Output!StartRoundtrip, Output!Read, Output!DispatchOnce,
     Output!DispatchInLoop, Output!Dispatched, Output!Ensured, outputVars
<1> QED
  BY <1>4, <1>5, <1>6, <1>7, <1>8, <1>9, <1>10, <1>11, <1>12, <1>13 DEF Output!Next

LEMMA BindingsFollow ==
    ASSUME Output!BindingsFollowOutputs, Output!Next \/ UNCHANGED outputVars
    PROVE  Output!BindingsFollowOutputs'
<1>1. ASSUME NEW config \in Configurations, Output!OnOutputsChanged(config)
      PROVE  Output!BindingsFollowOutputs'
  <2> DEFINE names == Output!Names
  <2>1. reconciled' = [names |-> names, config |-> config] /\ bindings' = Output!Reconciled(config, names)
    BY <1>1 DEF Output!OnOutputsChanged
  <2> HIDE DEF names
  <2>2. reconciled'.names = names /\ reconciled'.config = config
    BY <2>1
  <2>3. Output!Wanted(config, names) \subseteq Output!Reconciled(config, names)
    BY DEF Output!Wanted, Output!Reconciled
  <2>4. \A b \in Output!Reconciled(config, names) : b.output \in names
    BY DEF Output!Reconciled
  <2> QED
    BY <2>1, <2>2, <2>3, <2>4 DEF Output!BindingsFollowOutputs, Output!Wanted
<1>2. ASSUME UNCHANGED <<bindings, reconciled>> PROVE Output!BindingsFollowOutputs'
  BY <1>2 DEF Output!BindingsFollowOutputs, Output!Wanted
<1> QED
  BY <1>1, <1>2 DEF Output!Next, Output!Plug, Output!Unplug, Output!ChangeMode, Output!FrameDone,
     Output!Read, Output!DispatchOnce, Output!StartRoundtrip, Output!DispatchInLoop,
     Output!OutputAppears, Output!OutputGoes, Output!CallbackDone, Output!OutputTold,
     Output!Dispatched, Output!Ensured, Output!EnsureXdgOutput, Output!managerVars, outputVars

LEMMA OutputsStart ==
    ASSUME Output!Init PROVE OutputsInv
<1>1. InFlight = <<>> /\ DOMAIN InFlight = {} /\ DOMAIN plugged = {} /\ live = {} /\ DOMAIN outputs = {}
  BY DEF Output!Init, InFlight, Output!InFlight
<1>2. Output!TypeOK
  <2>1. <<>> \in Seq(Output!Events) /\ Len(<<>>) + Len(<<>>) = 0 /\ DOMAIN <<>> = {}
    OBVIOUS
  <2>2. /\ plugged = <<>> /\ live = {} /\ xdg_live = {} /\ said = <<>> /\ wire = <<>>
        /\ queue = <<>> /\ turn = "none" /\ outputs = <<>> /\ xdg_output_bound = {}
        /\ pending_roundtrip = FALSE /\ bindings = {}
    BY DEF Output!Init
  <2>3. /\ DOMAIN plugged = {} /\ DOMAIN said = {} /\ DOMAIN outputs = {}
        /\ wire \in Seq(Output!Events) /\ queue \in Seq(Output!Events)
    BY <2>1, <2>2
  <2>4. Len(wire) = 0 /\ Len(queue) = 0
    BY <2>2
  <2>5. Len(wire) + Len(queue) <= MaxWire
    BY <2>4, BoundsAreNatural
  <2>6. pending_roundtrip \in BOOLEAN
    BY <2>2
  <2> QED
    BY <2>2, <2>3, <2>5, <2>6 DEF Output!TypeOK
<1>3. \A g \in Globals : OutputInv(g)
  BY <1>1 DEF OutputInv, UnheardOf, NoneOf
<1>4. RoundtripInv /\ Output!BindingsFollowOutputs
  BY <1>1 DEF RoundtripInv, Output!BindingsFollowOutputs, Output!Wanted, Output!Init
<1> QED
  BY <1>2, <1>3, <1>4 DEF OutputsInv

LEMMA OutputsStep ==
    ASSUME OutputsInv, Output!Next \/ UNCHANGED outputVars
    PROVE  OutputsInv'
<1>1. Output!TypeOK /\ (\A g \in Globals : OutputInv(g)) /\ RoundtripInv /\ Output!BindingsFollowOutputs
  BY DEF OutputsInv
<1>2. Output!TypeOK'
  BY OutputsTyped
<1>3. \A h \in Globals : OutputInv(h)'
  BY <1>1, PlugKeeps, UnplugKeeps, ChangeModeKeeps, OutputAppearsKeeps, OutputGoesKeeps,
     OutputToldKeeps, EnsureXdgOutputKeeps, OtherStepsKeep DEF Output!Next
<1>4. RoundtripInv' /\ Output!BindingsFollowOutputs'
  BY <1>1, RoundtripKept, BindingsFollow
<1> QED
  BY <1>2, <1>3, <1>4 DEF OutputsInv

\* When nothing is in flight, what is known is what was said.
LEMMA OutputsMeant ==
    ASSUME OutputsInv PROVE Output!OutputsAreFollowed
<1>1. ASSUME InFlight = <<>>
      PROVE  /\ DOMAIN outputs = DOMAIN plugged /\ xdg_output_bound = xdg_live
             /\ \A g \in DOMAIN outputs :
                    outputs[g] = [name |-> g, mode |-> plugged[g], size |-> said[g]]
  <2>1. DOMAIN InFlight = {}
    BY <1>1
  <2>2. ASSUME NEW g \in Globals
        PROVE  /\ g \in DOMAIN plugged <=> g \in DOMAIN outputs
               /\ g \in DOMAIN plugged => g \in live /\ Followed(g)
    BY <2>1 DEF OutputsInv, OutputInv, UnheardOf, NoneOf, Announced, Followed
  <2>3. /\ DOMAIN outputs \subseteq Globals /\ DOMAIN plugged \subseteq Globals
        /\ xdg_output_bound \subseteq DOMAIN outputs /\ xdg_live \subseteq DOMAIN plugged
        /\ \A g \in DOMAIN outputs :
              outputs[g] \in [name : {g, None}, size : Output!OutputSizes, mode : Modes \cup {None}]
    BY DEF OutputsInv, Output!TypeOK
  <2>4. ASSUME NEW g \in DOMAIN outputs
        PROVE  /\ outputs[g] = [name |-> g, mode |-> plugged[g], size |-> said[g]]
               /\ g \in xdg_output_bound <=> g \in xdg_live
    <3>1. Followed(g)
      BY <2>2, <2>3
    <3>2. /\ outputs[g].name = g /\ outputs[g].mode = plugged[g] /\ outputs[g].size = said[g]
          /\ g \in xdg_output_bound <=> g \in xdg_live
      BY <2>1, <3>1 DEF Followed, NoneOf
    <3> QED
      BY <2>3, <3>2
  <2> QED
    BY <2>2, <2>3, <2>4
<1>2. Output!OutputsAreKnown
  BY <1>1 DEF Output!OutputsAreKnown, InFlight
<1>3. Output!RoundtripIsWhole
  BY DEF OutputsInv, RoundtripInv, IsOf, Output!RoundtripIsWhole, Output!Sent, InFlight
<1> QED
  BY <1>2, <1>3 DEF OutputsInv, Output!OutputsAreFollowed

-----------------------------------------------------------------------------
(* The registry of surfaces.  Ids are given once and count up, so a surface  *)
(* has an entry of its own in handles and asked; a surface is as dynamic as  *)
(* its handle says.                                                          *)

SurfaceRecords ==
    [id : Registry!Ids, name : SurfaceNames, dynamic : BOOLEAN, backend : Registry!Kinds, size : Nat]
Requests == [pending : Nat \cup {None}, committed : Nat \cup {None}]

RegistryInv ==
    /\ Registry!TypeOK
    /\ handles \in Seq([place : Nat, dynamic : BOOLEAN])
    /\ asked \in Seq(Requests)
    /\ active_backend \in protocol \cup {None}
    /\ \A i \in DOMAIN surfaces :
          /\ surfaces[i].id <= created
          /\ surfaces[i].dynamic = handles[surfaces[i].id].dynamic
          /\ \A j \in DOMAIN surfaces : surfaces[j].id = surfaces[i].id => i = j
    /\ Registry!RegistryIsSound

\* The parts of the invariant, as the steps below use them.
LEMMA RegistryParts ==
    ASSUME RegistryInv
    PROVE  /\ protocol \subseteq {"layer", "xdg"} /\ forced \in Forced
           /\ active_backend \in Registry!Kinds \cup {None} /\ active_backend \in protocol \cup {None}
           /\ surfaces \in Seq(SurfaceRecords) /\ created \in 0 .. MaxCreated
           /\ handles \in Seq([place : Nat, dynamic : BOOLEAN]) /\ DOMAIN handles = 1 .. created
           /\ asked \in Seq(Requests) /\ DOMAIN asked = 1 .. created
           /\ moved \subseteq 1 .. created /\ layer_surface_sizes \subseteq Registry!Ids
           /\ \A i \in DOMAIN surfaces :
                 /\ surfaces[i] \in SurfaceRecords /\ surfaces[i].id \in 1 .. created
                 /\ surfaces[i].dynamic = handles[surfaces[i].id].dynamic
                 /\ \A j \in DOMAIN surfaces : surfaces[j].id = surfaces[i].id => i = j
<1>1. /\ protocol \subseteq {"layer", "xdg"} /\ forced \in Forced
      /\ active_backend \in Registry!Kinds \cup {None} /\ active_backend \in protocol \cup {None}
      /\ surfaces \in Seq(SurfaceRecords) /\ created \in 0 .. MaxCreated
      /\ handles \in Seq([place : Nat, dynamic : BOOLEAN]) /\ DOMAIN handles = 1 .. created
      /\ asked \in Seq(Requests)
      /\ moved \subseteq 1 .. created /\ layer_surface_sizes \subseteq Registry!Ids
  BY DEF RegistryInv, Registry!TypeOK, SurfaceRecords
<1>2. asked \in [1 .. created -> Requests]
  BY DEF RegistryInv, Registry!TypeOK, Requests
<1>3. created \in Int /\ MaxCreated \in Nat
  BY <1>1, BoundsAreNatural
<1>4. ASSUME NEW i \in DOMAIN surfaces
      PROVE  surfaces[i] \in SurfaceRecords /\ surfaces[i].id \in 1 .. created
  <2>1. surfaces[i] \in SurfaceRecords
    BY <1>1
  <2>2. surfaces[i].id \in 1 .. MaxCreated
    BY <2>1 DEF SurfaceRecords, Registry!Ids
  <2>3. surfaces[i].id <= created
    BY DEF RegistryInv
  <2> QED
    BY <1>3, <2>1, <2>2, <2>3
<1>5. \A i \in DOMAIN surfaces :
          /\ surfaces[i].dynamic = handles[surfaces[i].id].dynamic
          /\ \A j \in DOMAIN surfaces : surfaces[j].id = surfaces[i].id => i = j
  BY DEF RegistryInv
<1> QED
  BY <1>1, <1>2, <1>4, <1>5

\* A request for every surface created.
LEMMA RequestsTyped ==
    ASSUME NEW s \in Seq(Requests), NEW n, DOMAIN s = 1 .. n
    PROVE  s \in [1 .. n -> Requests]
<1>1. s \in [1 .. Len(s) -> Requests] /\ DOMAIN s = 1 .. Len(s)
  BY LenProperties
<1> QED
  BY <1>1

\* What a step has to show of the surfaces, the handles and the requests.
LEMMA RegistryTyped ==
    ASSUME protocol' \subseteq {"layer", "xdg"} /\ forced' \in Forced,
           active_backend' \in Registry!Kinds \cup {None},
           surfaces' \in Seq(SurfaceRecords), created' \in 0 .. MaxCreated,
           DOMAIN handles' = 1 .. created', moved' \subseteq 1 .. created',
           asked' \in [1 .. created' -> Requests], layer_surface_sizes' \subseteq Registry!Ids
    PROVE  Registry!TypeOK'
BY DEF Registry!TypeOK, SurfaceRecords, Requests, Registry!Ids, Registry!Kinds

\* A surface is drawn at a size it asks for: what it had asked for is replaced.
LEMMA ResizedKeeps ==
    ASSUME RegistryInv, NEW i \in DOMAIN surfaces, NEW size \in Nat, NEW a \in Requests,
           surfaces' = [surfaces EXCEPT ![i].size = size],
           asked' = [asked EXCEPT ![surfaces[i].id] = a],
           surfaces[i].backend # "nothing" /\ size # 0 => a.pending = size,
           UNCHANGED <<protocol, forced, active_backend, created, handles, moved, layer_surface_sizes>>
    PROVE  RegistryInv'
<1> DEFINE S == surfaces
           T == surfaces'
<1>1. /\ S \in Seq(SurfaceRecords) /\ created \in 0 .. MaxCreated
      /\ asked \in Seq(Requests) /\ DOMAIN asked = 1 .. created
      /\ \A j \in DOMAIN S : S[j] \in SurfaceRecords /\ S[j].id \in 1 .. created
      /\ \A j \in DOMAIN S : S[j].id = S[i].id => j = i
  BY RegistryParts
<1>2. T = [S EXCEPT ![i] = [S[i] EXCEPT !.size = size]]
  OBVIOUS
<1> HIDE DEF S, T
<1>3. i \in DOMAIN S
  BY DEF S
<1>4. [S[i] EXCEPT !.size = size] \in SurfaceRecords
  BY <1>1, <1>3 DEF SurfaceRecords
<1>5. T \in Seq(SurfaceRecords) /\ DOMAIN T = DOMAIN S
  BY <1>1, <1>2, <1>3, <1>4
<1>6. ASSUME NEW j \in DOMAIN S
      PROVE  /\ T[j].id = S[j].id /\ T[j].dynamic = S[j].dynamic /\ T[j].backend = S[j].backend
             /\ T[j].name = S[j].name
             /\ j # i => T[j].size = S[j].size
  BY <1>1, <1>2, <1>3, <1>4, <1>6 DEF SurfaceRecords
<1>7. T[i].size = size
  BY <1>1, <1>2, <1>3 DEF SurfaceRecords
<1>8. asked' \in Seq(Requests) /\ DOMAIN asked' = 1 .. created
  BY <1>1, <1>3 DEF S
<1>9. /\ asked'[S[i].id] = a
      /\ \A j \in DOMAIN S : j # i => asked'[S[j].id] = asked[S[j].id]
  BY <1>1, <1>3 DEF S
<1>10. Registry!TypeOK'
  <2>1. surfaces' \in Seq(SurfaceRecords)
    BY <1>5 DEF T
  <2>2. asked' \in [1 .. created -> Requests]
    BY <1>8, RequestsTyped
  <2> QED
    BY <2>1, <2>2, RegistryParts, RegistryTyped
<1>11. ASSUME NEW j \in DOMAIN T, T[j].backend # "nothing", T[j].size # 0
       PROVE  asked'[T[j].id].pending = T[j].size
  <2>1. CASE j = i
    <3>1. S[i].backend # "nothing" /\ size # 0
      BY <1>3, <1>6, <1>7, <1>11, <2>1
    <3>2. a.pending = size
      BY <3>1 DEF S
    <3>3. T[j].id = S[i].id /\ T[j].size = size
      BY <1>3, <1>6, <1>7, <2>1
    <3> QED
      BY <1>9, <3>2, <3>3
  <2>2. CASE j # i
    <3>1. S[j].backend # "nothing" /\ S[j].size # 0 /\ j \in DOMAIN S
      BY <1>5, <1>6, <1>11, <2>2
    <3>2. asked[S[j].id].pending = S[j].size
      BY <3>1 DEF RegistryInv, Registry!RegistryIsSound, Registry!SizesAreAsked, S
    <3>3. T[j].id = S[j].id /\ T[j].size = S[j].size
      BY <1>6, <2>2, <3>1
    <3>4. asked'[S[j].id] = asked[S[j].id]
      BY <1>9, <2>2, <3>1
    <3> QED
      BY <3>2, <3>3, <3>4
  <2> QED
    BY <2>1, <2>2
<1>12. \A id : id \in Registry!SurfaceIds => id \in Registry!SurfaceIds'
  BY <1>5, <1>6 DEF Registry!SurfaceIds, S, T
<1>13. Registry!RegistryIsSound'
  <2>1. Registry!BackendsAreBound'
    BY <1>5, <1>6 DEF RegistryInv, Registry!RegistryIsSound, Registry!BackendsAreBound, S, T
  <2>2. Registry!HandlesHold'
    BY <1>5, <1>6 DEF RegistryInv, Registry!RegistryIsSound, Registry!HandlesHold, S, T
  <2>3. Registry!SizesAreAsked'
    BY <1>11 DEF Registry!SizesAreAsked, T
  <2>4. Registry!DynamicSurfacesStay'
    BY <1>12 DEF RegistryInv, Registry!RegistryIsSound, Registry!DynamicSurfacesStay
  <2> QED
    BY <2>1, <2>2, <2>3, <2>4 DEF Registry!RegistryIsSound
<1>14. \A j \in DOMAIN T :
          /\ T[j].id <= created
          /\ T[j].dynamic = handles[T[j].id].dynamic
          /\ \A k \in DOMAIN T : T[k].id = T[j].id => j = k
  BY <1>5, <1>6 DEF RegistryInv, S
<1> QED
  BY <1>8, <1>10, <1>13, <1>14 DEF RegistryInv, T

LEMMA CreateKeeps ==
    ASSUME RegistryInv, NEW name \in SurfaceNames, NEW dynamic \in BOOLEAN, NEW size \in SurfaceSizes,
           NEW override \in Overrides, Registry!Create(name, dynamic, size, override)
    PROVE  RegistryInv'
<1> DEFINE S == surfaces
           T == surfaces'
           new == created + 1
           surface == [id |-> new, name |-> name, dynamic |-> dynamic,
                       backend |-> Registry!Chosen(override), size |-> size]
           handle == [place |-> Len(S) + 1, dynamic |-> dynamic]
           request == Registry!Configured(Registry!Chosen(override), size, [pending |-> None, committed |-> None])
<1>1. /\ S \in Seq(SurfaceRecords) /\ created \in 0 .. MaxCreated
      /\ protocol \subseteq {"layer", "xdg"} /\ active_backend \in protocol \cup {None}
      /\ handles \in Seq([place : Nat, dynamic : BOOLEAN]) /\ DOMAIN handles = 1 .. created
      /\ asked \in Seq(Requests) /\ DOMAIN asked = 1 .. created
      /\ moved \subseteq 1 .. created
      /\ \A i \in DOMAIN S :
            /\ S[i] \in SurfaceRecords /\ S[i].id \in 1 .. created
            /\ S[i].dynamic = handles[S[i].id].dynamic
            /\ \A j \in DOMAIN S : S[j].id = S[i].id => i = j
  BY RegistryParts
<1>2. /\ active_backend # None /\ created < MaxCreated /\ created' = new
      /\ T = Append(S, surface) /\ handles' = Append(handles, handle) /\ asked' = Append(asked, request)
      /\ UNCHANGED <<protocol, forced, active_backend, moved, layer_surface_sizes>>
  BY DEF Registry!Create
<1>3. Registry!Chosen(override) \in protocol \cup {"nothing"} /\ Registry!Chosen(override) \in Registry!Kinds
  BY <1>1, <1>2 DEF Registry!Chosen, Registry!Kinds
<1>4. size \in Nat /\ new \in 1 .. MaxCreated /\ new \in Nat
  BY <1>1, <1>2, BoundsAreNatural
<1>5. surface \in SurfaceRecords
  BY <1>3, <1>4 DEF SurfaceRecords, Registry!Ids
<1>6. request \in Requests /\ (Registry!Chosen(override) # "nothing" /\ size # 0 => request.pending = size)
  BY <1>4 DEF Registry!Configured, Requests
<1>7. /\ surface.id = new /\ surface.dynamic = dynamic /\ surface.backend = Registry!Chosen(override)
      /\ surface.size = size /\ handle.place = Len(S) + 1 /\ handle.dynamic = dynamic
      /\ handle \in [place : Nat, dynamic : BOOLEAN]
  BY <1>1
<1> HIDE DEF S, T, surface, handle, request
<1>8. /\ T \in Seq(SurfaceRecords) /\ Len(S) \in Nat /\ DOMAIN S = 1 .. Len(S)
      /\ DOMAIN T = 1 .. (Len(S) + 1)
      /\ T[Len(S) + 1] = surface /\ \A i \in DOMAIN S : T[i] = S[i]
  BY <1>1, <1>2, <1>5
<1>9. /\ handles' \in Seq([place : Nat, dynamic : BOOLEAN]) /\ DOMAIN handles' = 1 .. new
      /\ handles'[new] = handle /\ \A id \in 1 .. created : handles'[id] = handles[id]
  <2>1. Len(handles) = created
    BY <1>1
  <2> QED
    BY <1>1, <1>2, <1>7, <2>1
<1>10. /\ asked' \in Seq(Requests) /\ DOMAIN asked' = 1 .. new
       /\ asked'[new] = request /\ \A id \in 1 .. created : asked'[id] = asked[id]
  <2>1. Len(asked) = created
    BY <1>1
  <2> QED
    BY <1>1, <1>2, <1>6, <2>1
<1>11. ASSUME NEW i \in DOMAIN T
       PROVE  \/ i \in DOMAIN S /\ T[i] = S[i] /\ S[i].id \in 1 .. created
              \/ i = Len(S) + 1 /\ T[i] = surface
  BY <1>1, <1>8
<1>12. Registry!TypeOK'
  <2>1. asked' \in [1 .. new -> Requests]
    BY <1>10, RequestsTyped
  <2>2. moved' \subseteq 1 .. new
    BY <1>1, <1>2, <1>4
  <2>3. created' \in 0 .. MaxCreated
    BY <1>2, <1>4
  <2>4. surfaces' \in Seq(SurfaceRecords)
    BY <1>8 DEF T
  <2> QED
    BY <1>2, <1>9, <2>1, <2>2, <2>3, <2>4, RegistryParts, RegistryTyped
<1>13. \A i \in DOMAIN T : T[i].backend \in protocol' \cup {"nothing"}
  <2>1. \A i \in DOMAIN S : S[i].backend \in protocol \cup {"nothing"}
    BY DEF RegistryInv, Registry!RegistryIsSound, Registry!BackendsAreBound, S
  <2> QED
    BY <1>2, <1>3, <1>7, <1>11, <2>1
<1>14. \A i \in DOMAIN T : T[i].id \notin moved' => handles'[T[i].id].place = i
  <2>1. \A i \in DOMAIN S : S[i].id \notin moved => handles[S[i].id].place = i
    BY DEF RegistryInv, Registry!RegistryIsSound, Registry!HandlesHold, S
  <2> QED
    BY <1>2, <1>7, <1>9, <1>11, <2>1
<1>15. ASSUME NEW i \in DOMAIN T, T[i].backend # "nothing", T[i].size # 0
       PROVE  asked'[T[i].id].pending = T[i].size
  <2>1. \A j \in DOMAIN S : S[j].backend # "nothing" /\ S[j].size # 0 => asked[S[j].id].pending = S[j].size
    BY DEF RegistryInv, Registry!RegistryIsSound, Registry!SizesAreAsked, S
  <2> QED
    BY <1>6, <1>7, <1>10, <1>11, <1>15, <2>1
<1>16. ASSUME NEW id \in 1 .. new, handles'[id].dynamic PROVE \E i \in DOMAIN T : T[i].id = id
  <2>1. CASE id = new
    BY <1>7, <1>8, <2>1
  <2>2. CASE id \in 1 .. created
    <3>1. id \in Registry!SurfaceIds
      BY <1>9, <1>16, <2>2 DEF RegistryInv, Registry!RegistryIsSound, Registry!DynamicSurfacesStay
    <3>2. PICK i \in DOMAIN S : S[i].id = id
      BY <3>1 DEF Registry!SurfaceIds, S
    <3> QED
      BY <1>8, <3>2
  <2> QED
    BY <1>1, <1>4, <2>1, <2>2
<1>17. ASSUME NEW i \in DOMAIN T
       PROVE  /\ T[i].id <= new
              /\ T[i].dynamic = handles'[T[i].id].dynamic
  BY <1>1, <1>4, <1>7, <1>9, <1>11
<1>18. ASSUME NEW i \in DOMAIN T, NEW j \in DOMAIN T, T[j].id = T[i].id PROVE i = j
  <2>1. ~(new \in 1 .. created)
    BY <1>1
  <2>2. CASE i \in DOMAIN S /\ T[i] = S[i] /\ S[i].id \in 1 .. created
    <3>1. T[j].id # new
      BY <1>18, <2>1, <2>2
    <3>2. j \in DOMAIN S /\ T[j] = S[j]
      BY <1>7, <1>11, <3>1
    <3> QED
      BY <1>1, <1>18, <2>2, <3>2
  <2>3. CASE i = Len(S) + 1 /\ T[i] = surface
    <3>1. T[j].id = new
      BY <1>7, <1>18, <2>3
    <3>2. j = Len(S) + 1
      BY <1>11, <2>1, <3>1
    <3> QED
      BY <2>3, <3>2
  <2> QED
    BY <1>11, <2>2, <2>3
<1>19. Registry!RegistryIsSound'
  <2>1. Registry!BackendsAreBound'
    BY <1>2, <1>13 DEF RegistryInv, Registry!RegistryIsSound, Registry!BackendsAreBound, T
  <2>2. Registry!HandlesHold'
    BY <1>14 DEF Registry!HandlesHold, T
  <2>3. Registry!SizesAreAsked'
    BY <1>15 DEF Registry!SizesAreAsked, T
  <2>4. Registry!DynamicSurfacesStay'
    BY <1>2, <1>16 DEF Registry!DynamicSurfacesStay, Registry!SurfaceIds, T
  <2> QED
    BY <2>1, <2>2, <2>3, <2>4 DEF Registry!RegistryIsSound
<1> QED
  BY <1>2, <1>9, <1>10, <1>12, <1>17, <1>18, <1>19 DEF RegistryInv, T

\* Connect and the compositor's configure touch nothing that a surface is known by.
LEMMA ConnectKeeps ==
    ASSUME RegistryInv, Registry!Connect
    PROVE  RegistryInv'
<1>1. protocol \subseteq {"layer", "xdg"}
  BY RegistryParts
<1>2. Registry!Selected(forced) # None
  BY DEF Registry!Connect
<1>3. /\ active_backend' = Registry!Selected(forced)
      /\ UNCHANGED <<protocol, forced, surfaces, created, handles, moved, asked, layer_surface_sizes>>
  BY DEF Registry!Connect
<1>4. active_backend' \in protocol /\ (forced # "auto" => active_backend' = forced)
  BY <1>1, <1>2, <1>3 DEF Registry!Selected
<1>5. active_backend' \in Registry!Kinds \cup {None}
  BY <1>1, <1>4 DEF Registry!Kinds
<1>6. Registry!TypeOK'
  BY <1>3, <1>5 DEF RegistryInv, Registry!TypeOK
<1>7. Registry!BackendsAreBound'
  BY <1>3, <1>4 DEF RegistryInv, Registry!RegistryIsSound, Registry!BackendsAreBound
<1>8. Registry!HandlesHold' /\ Registry!SizesAreAsked' /\ Registry!DynamicSurfacesStay'
  BY <1>3 DEF RegistryInv, Registry!RegistryIsSound, Registry!HandlesHold, Registry!SizesAreAsked,
     Registry!DynamicSurfacesStay, Registry!SurfaceIds
<1> QED
  BY <1>3, <1>4, <1>6, <1>7, <1>8 DEF RegistryInv, Registry!RegistryIsSound

LEMMA ConfigureEventKeeps ==
    ASSUME RegistryInv, NEW i \in DOMAIN surfaces, Registry!ConfigureEvent(i)
    PROVE  RegistryInv'
<1>1. /\ layer_surface_sizes' = layer_surface_sizes \cup {surfaces[i].id}
      /\ UNCHANGED <<protocol, forced, active_backend, surfaces, created, handles, moved, asked>>
  BY DEF Registry!ConfigureEvent
<1>2. surfaces[i] \in SurfaceRecords /\ layer_surface_sizes \subseteq Registry!Ids
  BY RegistryParts
<1>3. layer_surface_sizes' \subseteq Registry!Ids
  BY <1>1, <1>2 DEF SurfaceRecords
<1>4. Registry!TypeOK'
  BY <1>1, <1>3 DEF RegistryInv, Registry!TypeOK
<1>5. Registry!RegistryIsSound'
  BY <1>1 DEF RegistryInv, Registry!RegistryIsSound, Registry!BackendsAreBound, Registry!HandlesHold,
     Registry!SizesAreAsked, Registry!DynamicSurfacesStay, Registry!SurfaceIds
<1> QED
  BY <1>1, <1>4, <1>5 DEF RegistryInv

\* A commit applies what was asked, and asks for nothing new.
LEMMA CommitKeeps ==
    ASSUME RegistryInv, NEW i \in DOMAIN surfaces, Registry!Commit(i)
    PROVE  RegistryInv'
<1>1. /\ asked' = [asked EXCEPT ![surfaces[i].id] =
                       [asked[surfaces[i].id] EXCEPT !.committed = asked[surfaces[i].id].pending]]
      /\ UNCHANGED <<protocol, forced, active_backend, surfaces, created, handles, moved,
                     layer_surface_sizes>>
  BY DEF Registry!Commit
<1>2. /\ asked \in Seq(Requests) /\ DOMAIN asked = 1 .. created
      /\ \A j \in DOMAIN surfaces : surfaces[j].id \in 1 .. created
  BY RegistryParts
<1>3. PICK id \in 1 .. created : id = surfaces[i].id
  BY <1>2
<1>4. PICK a \in Requests : a = asked[id]
  BY <1>2, RequestsTyped
<1>5. PICK b \in Requests : b = [a EXCEPT !.committed = a.pending]
  BY DEF Requests
<1>6. asked' = [asked EXCEPT ![id] = b]
  BY <1>1, <1>3, <1>4, <1>5
<1>7. asked' \in Seq(Requests) /\ DOMAIN asked' = 1 .. created
  <2>1. 1 .. Len(asked) = 1 .. created
    BY <1>2
  <2> QED
    BY <1>2, <1>6, <2>1, ExceptSeq
<1>8. b.pending = a.pending
  BY <1>5 DEF Requests
<1>9. \A k \in 1 .. created : asked'[k].pending = asked[k].pending
  BY <1>2, <1>4, <1>6, <1>8
<1>10. Registry!TypeOK'
  <2>1. asked' \in [1 .. created -> Requests]
    BY <1>7, RequestsTyped
  <2> QED
    BY <1>1, <2>1, RegistryParts, RegistryTyped
<1>11. Registry!SizesAreAsked'
  BY <1>1, <1>2, <1>9 DEF RegistryInv, Registry!RegistryIsSound, Registry!SizesAreAsked
<1>12. Registry!BackendsAreBound' /\ Registry!HandlesHold' /\ Registry!DynamicSurfacesStay'
  BY <1>1 DEF RegistryInv, Registry!RegistryIsSound, Registry!BackendsAreBound, Registry!HandlesHold,
     Registry!DynamicSurfacesStay, Registry!SurfaceIds
<1> QED
  BY <1>1, <1>7, <1>10, <1>11, <1>12 DEF RegistryInv, Registry!RegistryIsSound

LEMMA ConfigureKeeps ==
    ASSUME RegistryInv, NEW i \in DOMAIN surfaces, NEW size \in SurfaceSizes, Registry!Configure(i, size)
    PROVE  RegistryInv'
<1>1. size \in Nat
  BY BoundsAreNatural
<1>2. asked[surfaces[i].id] \in Requests
  BY RegistryParts
<1>3. PICK a \in Requests : a = Registry!Configured(surfaces[i].backend, size, asked[surfaces[i].id])
  BY <1>1, <1>2 DEF Registry!Configured, Requests
<1>4. surfaces[i].backend # "nothing" /\ size # 0 => a.pending = size
  BY <1>3 DEF Registry!Configured
<1>5. asked' = [asked EXCEPT ![surfaces[i].id] = a]
  BY <1>3 DEF Registry!Configure
<1> QED
  BY <1>1, <1>4, <1>5, ResizedKeeps DEF Registry!Configure

LEMMA ResizeKeeps ==
    ASSUME RegistryInv, NEW i \in DOMAIN surfaces, NEW size \in SurfaceSizes,
           Registry!Resized(i, size), NEW a \in Requests, asked' = [asked EXCEPT ![surfaces[i].id] = a],
           a.pending = Registry!Asking(i, size).pending,
           UNCHANGED <<protocol, forced, active_backend, created, handles, moved, layer_surface_sizes>>
    PROVE  RegistryInv'
<1>1. size \in Nat
  BY BoundsAreNatural
<1>2. PICK least \in Nat : least = Registry!AtLeastOne(size)
  BY <1>1 DEF Registry!AtLeastOne
<1>3. asked[surfaces[i].id] \in Requests
  BY RegistryParts
<1>4. surfaces[i].backend # "nothing" => a.pending = least
  BY <1>2, <1>3 DEF Registry!Asking, Requests
<1>5. surfaces' = [surfaces EXCEPT ![i].size = least]
  BY <1>2 DEF Registry!Resized
<1> QED
  BY <1>4, <1>5, ResizedKeeps

LEMMA AskingTyped ==
    ASSUME RegistryInv, NEW i \in DOMAIN surfaces, NEW size \in SurfaceSizes
    PROVE  Registry!Asking(i, size) \in Requests
<1>1. asked[surfaces[i].id] \in Requests
  BY RegistryParts
<1>2. Registry!AtLeastOne(size) \in Nat
  BY BoundsAreNatural DEF Registry!AtLeastOne
<1> QED
  BY <1>1, <1>2 DEF Registry!Asking, Requests

\* Among places there is a first one.
LEMMA FirstPlace ==
    ASSUME NEW places \in SUBSET Nat, places # {}
    PROVE  \E i \in places : \A j \in places : i <= j
<1> DEFINE less == {ss \in Nat \X Nat : ss[1] < ss[2]}
<1>1. IsWellFoundedOn(less, Nat)
  BY NatLessThanWellFounded DEF OpToRel
<1>2. PICK i \in places : \A j \in places : <<j, i>> \notin less
  <2> HIDE DEF less
  <2> QED
    BY <1>1, WFMin
<1>3. \A j \in places : ~(j < i)
  BY <1>2
<1> QED
  BY <1>3

\* A dynamic surface of the name: the first one is resized.
LEMMA UpdateSurfaceSizeKeeps ==
    ASSUME RegistryInv, NEW name \in SurfaceNames, NEW size \in SurfaceSizes,
           Registry!UpdateSurfaceSize(name, size)
    PROVE  RegistryInv'
<1> DEFINE D == Registry!DynamicNamed(name)
<1>1. D # {} /\ D \subseteq DOMAIN surfaces
  BY DEF Registry!UpdateSurfaceSize, Registry!DynamicNamed
<1>2. D \in SUBSET Nat
  <2>1. surfaces \in Seq(SurfaceRecords)
    BY RegistryParts
  <2> QED
    BY <1>1, <2>1
<1>3. \E j \in D : \A k \in D : j <= k
  BY <1>1, <1>2, FirstPlace
<1>4. PICK i \in D : i = CHOOSE j \in D : \A k \in D : j <= k
  BY <1>3
<1>5. i \in DOMAIN surfaces
  BY <1>1
<1>6. PICK next \in Requests : next = Registry!Asking(i, size)
  BY <1>5, AskingTyped
<1>7. PICK a \in Requests : a = [next EXCEPT !.committed = next.pending]
  BY DEF Requests
<1>8. a.pending = next.pending
  BY <1>7 DEF Requests
<1>9. /\ Registry!Resized(i, size) /\ asked' = [asked EXCEPT ![surfaces[i].id] = a]
      /\ UNCHANGED <<protocol, forced, active_backend, created, handles, moved, layer_surface_sizes>>
  BY <1>4, <1>6, <1>7 DEF Registry!UpdateSurfaceSize
<1> QED
  BY <1>5, <1>6, <1>8, <1>9, ResizeKeeps

\* The places of what is kept, counted: in order, and each once.
LEMMA KeptPlacesAre ==
    ASSUME NEW kept \in SUBSET Nat, NEW c \in Nat, c = Cardinality(kept),
           NEW place \in Registry!KeptPlaces(kept)
    PROVE  /\ place \in [1 .. c -> kept] /\ DOMAIN place = 1 .. c
           /\ \A m, n \in 1 .. c : m < n => place[m] < place[n]
           /\ \A k \in kept : \E n \in 1 .. c : place[n] = k
           /\ \A m, n \in 1 .. c : place[m] = place[n] => m = n
<1>1. /\ place \in [1 .. c -> kept]
      /\ \A m, n \in DOMAIN place : m < n => place[m] < place[n]
      /\ \A k \in kept : \E n \in DOMAIN place : place[n] = k
  <2>1. Registry!Cardinality(kept) = Cardinality(kept)
    BY DEF Registry!Cardinality, Cardinality
  <2> QED
    BY <2>1 DEF Registry!KeptPlaces
<1>2. DOMAIN place = 1 .. c
  BY <1>1
<1>3. \A m \in 1 .. c : place[m] \in Nat
  BY <1>1
<1>4. \A m, n \in 1 .. c : m < n => place[m] < place[n]
  BY <1>1, <1>2
<1>5. ASSUME NEW m \in 1 .. c, NEW n \in 1 .. c, place[m] = place[n] PROVE m = n
  <2>1. ~(m < n) /\ ~(n < m)
    BY <1>3, <1>4, <1>5
  <2> QED
    BY <2>1
<1> QED
  BY <1>1, <1>2, <1>4, <1>5

\* What is kept in its order stays in its place as far as everything is kept.
LEMMA KeptPrefix ==
    ASSUME NEW kept \in SUBSET Nat, 0 \notin kept, NEW c \in Nat, c = Cardinality(kept),
           NEW place \in Registry!KeptPlaces(kept), NEW K \in Nat, 1 .. K \subseteq kept
    PROVE  \A k \in 1 .. K : k \in 1 .. c /\ place[k] = k
<1>1. /\ place \in [1 .. c -> kept]
      /\ \A m, n \in 1 .. c : m < n => place[m] < place[n]
      /\ \A k \in kept : \E n \in 1 .. c : place[n] = k
  BY KeptPlacesAre
<1> DEFINE bad == {k \in 1 .. K : ~(k \in 1 .. c /\ place[k] = k)}
<1>2. SUFFICES ASSUME bad # {} PROVE FALSE
  OBVIOUS
<1>3. bad \in SUBSET Nat
  OBVIOUS
<1>4. PICK k \in bad : \A j \in bad : k <= j
  BY <1>2, <1>3, FirstPlace
<1>5. k \in 1 .. K /\ k \in kept /\ ~(k \in 1 .. c /\ place[k] = k)
  OBVIOUS
<1>6. ASSUME NEW j \in 1 .. K, j < k PROVE j \in 1 .. c /\ place[j] = j
  BY <1>4, <1>6
<1>7. PICK m \in 1 .. c : place[m] = k
  BY <1>5, <1>1
<1> HIDE DEF bad
<1>8. CASE m < k
  <2>1. m \in 1 .. K
    BY <1>5, <1>8
  <2> QED
    BY <1>5, <1>6, <1>7, <1>8, <2>1
<1>9. CASE m = k
  BY <1>5, <1>7, <1>9
<1>10. CASE m > k
  <2>1. k \in 1 .. c
    BY <1>5, <1>10
  <2>2. place[k] < k /\ place[k] \in kept
    BY <1>7, <1>10, <2>1, <1>1
  <2>3. PICK j \in Nat : j = place[k]
    BY <2>2
  <2>4. j \in 1 .. K /\ j < k
    BY <1>5, <2>2, <2>3
  <2>5. j \in 1 .. c /\ place[j] = j
    BY <1>6, <2>4
  <2>6. place[j] < place[k]
    BY <2>1, <2>4, <2>5, <1>1
  <2> QED
    BY <2>3, <2>4, <2>5, <2>6
<1> QED
  BY <1>5, <1>8, <1>9, <1>10

\* The configured surfaces of a name go: the others keep their order, the dynamic ones among
\* them, and a surface that nothing before it left keeps its place.
LEMMA DestroyKeeps ==
    ASSUME RegistryInv, NEW name \in SurfaceNames, Registry!DestroyConfiguredSurfaces(name)
    PROVE  RegistryInv'
<1> DEFINE S == surfaces
           T == surfaces'
           K(s) == Registry!Kept(s, name)
<1>1. /\ S \in Seq(SurfaceRecords) /\ created \in 0 .. MaxCreated
      /\ moved \subseteq 1 .. created
      /\ \A i \in DOMAIN S :
            /\ S[i] \in SurfaceRecords /\ S[i].id \in 1 .. created
            /\ S[i].dynamic = handles[S[i].id].dynamic
            /\ \A j \in DOMAIN S : S[j].id = S[i].id => i = j
  BY RegistryParts
<1>2. PICK kept : kept = {i \in DOMAIN S : K(S[i])}
  OBVIOUS
<1>3. PICK place \in Registry!KeptPlaces(kept) : T = [n \in DOMAIN place |-> S[place[n]]]
  BY <1>2 DEF Registry!DestroyConfiguredSurfaces
<1>4. PICK gone : gone = {S[j].id : j \in {k \in DOMAIN S : \E i \in 1 .. k : ~K(S[i])}}
  OBVIOUS
<1>5. /\ moved' = moved \cup gone
      /\ UNCHANGED <<protocol, forced, active_backend, created, handles, asked, layer_surface_sizes>>
  BY <1>4 DEF Registry!DestroyConfiguredSurfaces
<1>6. \A s \in SurfaceRecords : s.dynamic => K(s)
  BY DEF Registry!Kept
<1> HIDE DEF S, T, K
<1>7. kept \subseteq DOMAIN S /\ DOMAIN S = 1 .. Len(S) /\ Len(S) \in Nat
  BY <1>1, <1>2
<1>8. PICK c \in Nat : c = Cardinality(kept)
  <2>1. IsFiniteSet(1 .. Len(S))
    BY <1>7, FS_Interval
  <2>2. IsFiniteSet(kept)
    BY <1>7, <2>1, FS_Subset
  <2> QED
    BY <2>2, FS_CardinalityType
<1>9. /\ place \in [1 .. c -> kept] /\ DOMAIN place = 1 .. c
      /\ \A m, n \in 1 .. c : m < n => place[m] < place[n]
      /\ \A k \in kept : \E n \in 1 .. c : place[n] = k
      /\ \A m, n \in 1 .. c : place[m] = place[n] => m = n
  <2>1. kept \in SUBSET Nat
    BY <1>7
  <2> QED
    BY <1>8, <2>1, KeptPlacesAre
<1>10. /\ T \in Seq(SurfaceRecords) /\ DOMAIN T = 1 .. c
       /\ \A n \in 1 .. c : place[n] \in DOMAIN S /\ place[n] \in kept /\ T[n] = S[place[n]]
  <2>1. \A n \in 1 .. c : place[n] \in DOMAIN S /\ place[n] \in kept /\ S[place[n]] \in SurfaceRecords
    BY <1>1, <1>7, <1>9
  <2>2. T = [n \in 1 .. c |-> S[place[n]]]
    BY <1>3, <1>9
  <2>3. T \in [1 .. c -> SurfaceRecords]
    BY <2>1, <2>2
  <2>4. T \in Seq(SurfaceRecords)
    BY <1>8, <2>3, SeqDef
  <2>5. \A n \in 1 .. c : T[n] = S[place[n]]
    BY <2>2
  <2> QED
    BY <2>1, <2>3, <2>4, <2>5
<1>11. moved' \subseteq 1 .. created
  <2>1. \A j \in DOMAIN S : S[j].id \in 1 .. created
    BY <1>1
  <2>2. gone \subseteq 1 .. created
    BY <1>4, <2>1
  <2> QED
    BY <1>1, <1>5, <2>2
<1>12. Registry!TypeOK'
  <2>1. surfaces' \in Seq(SurfaceRecords)
    BY <1>10 DEF T
  <2>2. asked' \in [1 .. created -> Requests]
    BY <1>5, RegistryParts, RequestsTyped
  <2> QED
    BY <1>5, <1>11, <2>1, <2>2, RegistryParts, RegistryTyped
<1>13. ASSUME NEW n \in 1 .. c, T[n].id \notin moved'
       PROVE  handles[T[n].id].place = n
  <2>1. PICK k \in DOMAIN S : k = place[n] /\ T[n] = S[k] /\ k \in kept /\ k \in Nat
    BY <1>7, <1>10
  <2>2. S[k].id \notin moved /\ S[k].id \notin gone
    BY <1>5, <1>13, <2>1
  <2>3. \A i \in 1 .. k : K(S[i])
    BY <1>4, <2>2
  <2>4. 1 .. k \subseteq kept
    BY <1>2, <1>7, <2>1, <2>3
  <2>5. k \in 1 .. c /\ place[k] = k
    <3>1. kept \in SUBSET Nat /\ 0 \notin kept
      BY <1>7
    <3>2. \A j \in 1 .. k : j \in 1 .. c /\ place[j] = j
      BY <1>8, <2>1, <2>4, <3>1, KeptPrefix
    <3> QED
      BY <1>7, <2>1, <3>2
  <2>6. k = n
    BY <1>9, <2>1, <2>5
  <2>7. handles[S[k].id].place = k
    BY <2>2 DEF RegistryInv, Registry!RegistryIsSound, Registry!HandlesHold, S
  <2> QED
    BY <2>1, <2>6, <2>7
<1>14. ASSUME NEW n \in 1 .. c, T[n].backend # "nothing", T[n].size # 0
       PROVE  asked[T[n].id].pending = T[n].size
  <2>1. PICK k \in DOMAIN S : T[n] = S[k]
    BY <1>10
  <2> QED
    BY <1>14, <2>1 DEF RegistryInv, Registry!RegistryIsSound, Registry!SizesAreAsked, S
<1>15. ASSUME NEW id \in 1 .. created, handles[id].dynamic
       PROVE  \E n \in 1 .. c : T[n].id = id
  <2>1. id \in Registry!SurfaceIds
    BY <1>15 DEF RegistryInv, Registry!RegistryIsSound, Registry!DynamicSurfacesStay
  <2>2. PICK i \in DOMAIN S : S[i].id = id
    BY <2>1 DEF Registry!SurfaceIds, S
  <2>3. S[i].dynamic
    BY <1>1, <1>15, <2>2
  <2>4. i \in kept
    BY <1>1, <1>2, <1>6, <2>3
  <2> QED
    BY <1>9, <1>10, <2>2, <2>4
<1>16. \A n \in 1 .. c : T[n].backend \in protocol \cup {"nothing"}
  <2>1. \A k \in DOMAIN S : S[k].backend \in protocol \cup {"nothing"}
    BY DEF RegistryInv, Registry!RegistryIsSound, Registry!BackendsAreBound, S
  <2> QED
    BY <1>10, <2>1
<1>17. ASSUME NEW m \in 1 .. c
       PROVE  /\ T[m].id <= created /\ T[m].dynamic = handles[T[m].id].dynamic
              /\ \A n \in 1 .. c : T[n].id = T[m].id => m = n
  <2>1. PICK k \in DOMAIN S : k = place[m] /\ T[m] = S[k] /\ k \in Nat
    BY <1>7, <1>10
  <2>2. S[k].id \in 1 .. created /\ S[k].dynamic = handles[S[k].id].dynamic
    BY <1>1
  <2>3. T[m].id <= created /\ T[m].dynamic = handles[T[m].id].dynamic
    BY <1>1, <2>1, <2>2
  <2>4. ASSUME NEW n \in 1 .. c, T[n].id = T[m].id PROVE m = n
    <3>1. PICK j \in DOMAIN S : j = place[n] /\ T[n] = S[j]
      BY <1>10
    <3>2. j = k
      BY <1>1, <2>1, <2>4, <3>1
    <3> QED
      BY <1>9, <2>1, <3>1, <3>2
  <2> QED
    BY <2>3, <2>4
<1>18. Registry!RegistryIsSound'
  <2>1. Registry!BackendsAreBound'
    BY <1>5, <1>10, <1>16 DEF RegistryInv, Registry!RegistryIsSound, Registry!BackendsAreBound, T
  <2>2. Registry!HandlesHold'
    BY <1>5, <1>10, <1>13 DEF Registry!HandlesHold, T
  <2>3. Registry!SizesAreAsked'
    BY <1>5, <1>10, <1>14 DEF Registry!SizesAreAsked, T
  <2>4. Registry!DynamicSurfacesStay'
    BY <1>5, <1>10, <1>15 DEF Registry!DynamicSurfacesStay, Registry!SurfaceIds, T
  <2> QED
    BY <2>1, <2>2, <2>3, <2>4 DEF Registry!RegistryIsSound
<1> QED
  BY <1>5, <1>10, <1>12, <1>17, <1>18 DEF RegistryInv, T

LEMMA RegistryStart ==
    ASSUME Registry!Init PROVE RegistryInv
<1>1. /\ protocol \in SUBSET {"layer", "xdg"} /\ forced \in Forced /\ active_backend = None
      /\ surfaces = <<>> /\ created = 0 /\ handles = <<>> /\ moved = {}
      /\ asked = <<>> /\ layer_surface_sizes = {}
  BY DEF Registry!Init
<1>2. /\ \A R : <<>> \in Seq(R)
      /\ DOMAIN surfaces = {} /\ DOMAIN handles = {} /\ DOMAIN asked = {} /\ 1 .. created = {}
  BY <1>1
<1>3. asked \in [1 .. created -> Requests]
  BY <1>1, <1>2, RequestsTyped
<1>4. created \in 0 .. MaxCreated
  BY <1>1, BoundsAreNatural
<1>5. surfaces \in Seq([id : Registry!Ids, name : SurfaceNames, dynamic : BOOLEAN,
                        backend : Registry!Kinds, size : Nat])
  BY <1>1, <1>2
<1>6. Registry!TypeOK
  BY <1>1, <1>2, <1>3, <1>4, <1>5 DEF Registry!TypeOK, Requests
<1>7. Registry!RegistryIsSound
  BY <1>1, <1>2 DEF Registry!RegistryIsSound, Registry!BackendsAreBound, Registry!HandlesHold,
     Registry!SizesAreAsked, Registry!DynamicSurfacesStay
<1> QED
  BY <1>1, <1>2, <1>6, <1>7 DEF RegistryInv

LEMMA RegistryStep ==
    ASSUME RegistryInv, Registry!Next \/ UNCHANGED registryVars
    PROVE  RegistryInv'
<1>1. CASE Registry!Connect
  BY <1>1, ConnectKeeps
<1>2. ASSUME NEW name \in SurfaceNames, NEW dynamic \in BOOLEAN, NEW size \in SurfaceSizes,
             NEW override \in Overrides, Registry!Create(name, dynamic, size, override)
      PROVE  RegistryInv'
  BY <1>2, CreateKeeps
<1>3. ASSUME NEW i \in DOMAIN surfaces, Registry!Commit(i) \/ Registry!ConfigureEvent(i)
      PROVE  RegistryInv'
  BY <1>3, CommitKeeps, ConfigureEventKeeps
<1>4. ASSUME NEW i \in DOMAIN surfaces, NEW size \in SurfaceSizes,
             Registry!Configure(i, size) \/ Registry!Resize(i, size)
      PROVE  RegistryInv'
  <2>1. CASE Registry!Configure(i, size)
    BY <2>1, ConfigureKeeps
  <2>2. CASE Registry!Resize(i, size)
    <3>1. PICK a \in Requests : a = Registry!Asking(i, size)
      BY AskingTyped
    <3> QED
      BY <2>2, <3>1, ResizeKeeps DEF Registry!Resize
  <2> QED
    BY <1>4, <2>1, <2>2
<1>5. ASSUME NEW name \in SurfaceNames, NEW size \in SurfaceSizes, Registry!UpdateSurfaceSize(name, size)
      PROVE  RegistryInv'
  BY <1>5, UpdateSurfaceSizeKeeps
<1>6. ASSUME NEW name \in SurfaceNames, Registry!DestroyConfiguredSurfaces(name)
      PROVE  RegistryInv'
  BY <1>6, DestroyKeeps
<1>7. CASE UNCHANGED registryVars
  BY <1>7 DEF registryVars, RegistryInv, Registry!TypeOK, Registry!RegistryIsSound,
     Registry!BackendsAreBound, Registry!HandlesHold, Registry!SizesAreAsked,
     Registry!DynamicSurfacesStay, Registry!SurfaceIds
<1> QED
  BY <1>1, <1>2, <1>3, <1>4, <1>5, <1>6, <1>7 DEF Registry!Next

KnownInv ==
    /\ part = "outputs" => OutputsInv
    /\ part = "registry" => RegistryInv

\* When nothing is in flight every output has its last mode, size and name, and a closed one
\* is forgotten; a surface is bound to a shell the compositor has, at the place its handle
\* says and at the size it asked for, and destroying configured surfaces by name never takes
\* a dynamic one (handle_event, dispatch_once and destroy_configured_surfaces).
THEOREM SurfacesAreAlwaysKnown == MCSpec => []SurfacesAreKnown
<1>1. MCInit => KnownInv
  BY OutputsStart, RegistryStart DEF MCInit, KnownInv
<1>2. KnownInv /\ [MCNext]_<<part, vars, inputVars, outputVars, registryVars>> => KnownInv'
  <2> SUFFICES ASSUME KnownInv, [MCNext]_<<part, vars, inputVars, outputVars, registryVars>>
               PROVE  KnownInv'
    OBVIOUS
  <2>1. part' = part
    BY DEF MCNext
  <2>2. CASE part = "outputs"
    <3>1. Output!Next \/ UNCHANGED outputVars
      BY <2>2 DEF MCNext
    <3>2. OutputsInv'
      BY <2>2, <3>1, OutputsStep DEF KnownInv
    <3> QED
      BY <2>1, <2>2, <3>2 DEF KnownInv
  <2>3. CASE part = "registry"
    <3>1. Registry!Next \/ UNCHANGED registryVars
      BY <2>3 DEF MCNext
    <3>2. RegistryInv'
      BY <2>3, <3>1, RegistryStep DEF KnownInv
    <3> QED
      BY <2>1, <2>3, <3>2 DEF KnownInv
  <2> QED
    BY <2>1, <2>2, <2>3 DEF KnownInv
<1>3. KnownInv => SurfacesAreKnown
  BY OutputsMeant DEF KnownInv, SurfacesAreKnown, OutputsInv, RegistryInv
<1> QED
  BY <1>1, <1>2, <1>3, PTL DEF MCSpec

=============================================================================
