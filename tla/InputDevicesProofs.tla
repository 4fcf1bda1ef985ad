------------------------- MODULE InputDevicesProofs -------------------------
(***************************************************************************)
(* Proofs about InputDevices: what the handlers keep of the devices is     *)
(* what the compositor has said of them, and the focus of a scope is found *)
(* again.  KeyboardFollows is the invariant of the key that repeats,       *)
(* ClockIsAhead the one of its repeats, ScopesRemember the one of focus.   *)
(***************************************************************************)
EXTENDS InputDevices, SequenceTheorems, WellFoundedInduction, TLAPS

\* None is no layout, times, rates and bounds are whole numbers, scenes are sequences.
ConstantsAreMeant ==
    /\ None \notin Keymaps
    /\ Second \in Nat /\ Delay \in Int /\ Rates \subseteq Int
    /\ MaxEvents \in Nat /\ MaxScopes \in Nat \ {0}
    /\ \A sc \in Scenes : sc \in Seq(ToSet(sc))

Said == [caps : SUBSET Devices, pointer : Surfaces \cup {None}, keyboard : Surfaces \cup {None},
         held : SUBSET Keys, buttons : SUBSET Buttons]
Repeating == [key : Keys, keysym : {Keysym[layout][key] : layout \in Keymaps, key \in Keys},
              wait : Int, interval : Nat \ {0}]
Kinds == {"KeyPress", "KeyRelease", "KeyboardLeave", "PointerMove", "PointerButton",
          "PointerLeave", "PointerScroll"}
Queued == [kind : Kinds, surface : Surfaces \cup {None}]
          \cup [kind : {"PointerButton"}, surface : Surfaces \cup {None},
                button : Buttons, pressed : BOOLEAN]

Typed ==
    /\ compositor \in Said
    /\ keymap \in Keymaps \cup {None} /\ repeat_rate \in Nat
    /\ repeating_key \in Repeating \cup {None} /\ burst \in Nat
    /\ pending_input_events \in Seq(Queued)

\* A focus the compositor has given is on a keyboard that is there; only then, and with
\* a layout, does a key repeat.
KeyboardFollows ==
    /\ proxies = Synced(compositor.caps)
    /\ compositor.keyboard # None =>
           "keyboard" \in compositor.caps /\ focused_surface_id = compositor.keyboard
    /\ repeating_key # None =>
           compositor.keyboard # None /\ keymap # None /\ repeating_key.key \in compositor.held

\* After a repeat the next is not overdue, and after two it is yet to come.
ClockIsAhead ==
    /\ burst <= 2
    /\ repeating_key # None /\ burst >= 1 => repeating_key.wait >= 0
    /\ repeating_key # None /\ burst = 2 => repeating_key.wait >= 1

DevicesInv == Typed /\ KeyboardFollows /\ ClockIsAhead /\ PointerIsTracked /\ InputIsAnnounced

-----------------------------------------------------------------------------
\* What is pushed is announced.
LEMMA Pushed ==
    ASSUME pending_input_events \in Seq(Queued), NEW kind \in Kinds,
           NEW surface \in Surfaces \cup {None}, Push(kind, surface)
    PROVE  pending_input_events' \in Seq(Queued) /\ InputIsAnnounced'
<1>1. [kind |-> kind, surface |-> surface] \in Queued
  BY DEF Queued
<1> QED
  BY <1>1 DEF Push, InputIsAnnounced

\* An interval is never none.
LEMMA IntervalsArePositive ==
    ASSUME ConstantsAreMeant, NEW rate \in Nat, rate > 0
    PROVE  Interval(rate) \in Nat \ {0}
<1>1. Second \div rate \in Int
  BY DEF ConstantsAreMeant
<1> QED
  BY <1>1 DEF Interval

\* A key press, and a key release, move the state of the keyboard as it must be.
LEMMA KeyStep ==
    ASSUME ConstantsAreMeant, DevicesInv, NEW key \in Keys, KeyPressed(key) \/ KeyReleased(key)
    PROVE  DevicesInv'
<1> USE DEF DevicesInv, Typed
<1>1. CASE KeyPressed(key)
  <2>1. /\ compositor.keyboard # None /\ compositor' = [compositor EXCEPT !.held = @ \cup {key}]
        /\ UNCHANGED <<proxies, keymap, repeat_rate, focused_surface_id, pointerVars>>
    BY <1>1 DEF KeyPressed
  <2>2. CASE keymap = None
    <3>1. UNCHANGED <<repeating_key, burst, pending_input_events, frame_ready>> /\ repeating_key = None
      BY <1>1, <2>2 DEF KeyPressed, queueVars, KeyboardFollows
    <3>2. compositor' \in Said
      BY <2>1 DEF Said
    <3> QED
      BY <2>1, <3>1, <3>2 DEF Said, KeyboardFollows, ClockIsAhead, PointerIsTracked,
         InputIsAnnounced, pointerVars
  <2>3. CASE keymap # None
    <3>1. /\ Push("KeyPress", None)
          /\ \/ UNCHANGED <<repeating_key, burst>>
             \/ /\ repeat_rate > 0 /\ burst' = 0
                /\ repeating_key' = [key |-> key, keysym |-> Keysym[keymap][key], wait |-> Delay,
                                     interval |-> Interval(repeat_rate)]
      BY <1>1, <2>3 DEF KeyPressed
    <3>2. repeating_key' \in Repeating \cup {None} /\ burst' \in Nat
      BY <2>3, <3>1, IntervalsArePositive DEF Repeating, ConstantsAreMeant
    <3>3. compositor' \in Said /\ compositor'.held = compositor.held \cup {key}
          /\ compositor'.caps = compositor.caps /\ compositor'.keyboard = compositor.keyboard
          /\ compositor'.pointer = compositor.pointer
      BY <2>1 DEF Said
    <3>4. pending_input_events' \in Seq(Queued) /\ InputIsAnnounced'
      BY <3>1, Pushed DEF Kinds
    <3>5. KeyboardFollows'
      BY <2>1, <2>3, <3>1, <3>3 DEF KeyboardFollows
    <3>6. ClockIsAhead'
      BY <3>1 DEF ClockIsAhead
    <3> QED
      BY <2>1, <3>2, <3>3, <3>4, <3>5, <3>6 DEF PointerIsTracked, pointerVars
  <2> QED
    BY <2>2, <2>3
<1>2. CASE KeyReleased(key)
  <2>1. /\ compositor.keyboard # None /\ compositor' = [compositor EXCEPT !.held = @ \ {key}]
        /\ UNCHANGED <<proxies, keymap, repeat_rate, focused_surface_id, pointerVars>>
    BY <1>2 DEF KeyReleased
  <2>2. compositor' \in Said /\ compositor'.held = compositor.held \ {key}
        /\ compositor'.caps = compositor.caps /\ compositor'.keyboard = compositor.keyboard
        /\ compositor'.pointer = compositor.pointer
    BY <2>1 DEF Said
  <2>3. CASE keymap = None
    <3>1. UNCHANGED <<repeating_key, burst, pending_input_events, frame_ready>> /\ repeating_key = None
      BY <1>2, <2>3 DEF KeyReleased, queueVars, KeyboardFollows
    <3> QED
      BY <2>1, <2>2, <3>1 DEF KeyboardFollows, ClockIsAhead, PointerIsTracked,
         InputIsAnnounced, pointerVars
  <2>4. CASE keymap # None
    <3>1. /\ Push("KeyRelease", None)
          /\ repeating_key' = IF StopsRepeating(key) THEN None ELSE repeating_key
          /\ burst' = IF StopsRepeating(key) THEN 0 ELSE burst
      BY <1>2, <2>4 DEF KeyReleased
    <3>2. pending_input_events' \in Seq(Queued) /\ InputIsAnnounced'
      BY <3>1, Pushed DEF Kinds
    <3>3. KeyboardFollows'
      BY <2>1, <2>2, <3>1 DEF KeyboardFollows, StopsRepeating
    <3>4. ClockIsAhead'
      BY <3>1 DEF ClockIsAhead
    <3> QED
      BY <2>1, <2>2, <3>1, <3>2, <3>3, <3>4 DEF PointerIsTracked, pointerVars
  <2> QED
    BY <2>3, <2>4
<1> QED
  BY <1>1, <1>2

\* A repeat leaves the next ahead.
LEMMA RepeatStep ==
    ASSUME DevicesInv, Tick \/ PollRepeat PROVE DevicesInv'
<1> USE DEF DevicesInv, Typed
<1>1. /\ repeating_key # None /\ repeating_key \in Repeating
      /\ UNCHANGED <<compositor, proxies, keymap, repeat_rate, focused_surface_id, pointerVars, queueVars>>
  BY DEF Tick, PollRepeat
<1>2. /\ repeating_key' \in Repeating /\ repeating_key'.key = repeating_key.key /\ burst' \in Nat
      /\ ClockIsAhead'
  <2>1. CASE Tick
    BY <1>1, <2>1 DEF Tick, Repeating, ClockIsAhead
  <2>2. CASE PollRepeat
    <3>1. repeating_key' = [repeating_key EXCEPT !.wait = NextWait(repeating_key)] /\ burst' = burst + 1
          /\ repeating_key.wait <= 0
      BY <2>2 DEF PollRepeat
    <3>2. /\ NextWait(repeating_key) \in Int /\ NextWait(repeating_key) >= 0
          /\ repeating_key.wait >= 0 => NextWait(repeating_key) >= 1
      BY <1>1 DEF NextWait, Repeating
    <3>3. repeating_key' \in Repeating /\ repeating_key'.wait = NextWait(repeating_key)
          /\ repeating_key'.key = repeating_key.key
      BY <1>1, <3>1, <3>2 DEF Repeating
    <3>4. repeating_key.wait \in Int
      BY <1>1 DEF Repeating
    <3>5. burst <= 1 /\ (burst = 1 => repeating_key.wait >= 0)
      BY <1>1, <3>1, <3>4 DEF ClockIsAhead
    <3>6. ClockIsAhead'
      BY <3>1, <3>2, <3>3, <3>5 DEF ClockIsAhead
    <3> QED
      BY <3>1, <3>3, <3>6
  <2> QED
    BY <2>1, <2>2
<1>3. KeyboardFollows'
  BY <1>1, <1>2 DEF KeyboardFollows
<1> QED
  BY <1>1, <1>2, <1>3 DEF PointerIsTracked, InputIsAnnounced, pointerVars, queueVars

\* The other steps of the keyboard.
LEMMA KeyboardStep ==
    ASSUME ConstantsAreMeant, DevicesInv,
           \/ \E s \in Surfaces, held \in SUBSET Keys : KeyboardEnter(s, held)
           \/ KeyboardLeave
           \/ \E rate \in Rates : RepeatInfo(rate)
           \/ \E layout \in Keymaps : Keymap(layout)
    PROVE  DevicesInv'
<1> USE DEF DevicesInv, Typed
<1>1. ASSUME NEW s \in Surfaces, NEW held \in SUBSET Keys, KeyboardEnter(s, held)
      PROVE  DevicesInv'
  <2>1. compositor.keyboard = None /\ repeating_key = None
    BY <1>1 DEF KeyboardEnter, KeyboardFollows
  <2>2. /\ "keyboard" \in compositor.caps /\ focused_surface_id' = s /\ frame_ready' = TRUE
        /\ UNCHANGED <<proxies, keymap, repeat_rate, repeating_key, burst, pending_input_events,
                       pointerVars>>
    BY <1>1 DEF KeyboardEnter, KeyboardFollows, Synced
  <2>3. /\ compositor' \in Said /\ compositor'.keyboard = s
        /\ compositor'.caps = compositor.caps /\ compositor'.pointer = compositor.pointer
    BY <1>1 DEF KeyboardEnter, Said
  <2> QED
    BY <2>1, <2>2, <2>3 DEF KeyboardFollows, ClockIsAhead, PointerIsTracked, InputIsAnnounced,
       pointerVars
<1>2. CASE KeyboardLeave
  <2>1. /\ repeating_key' = None /\ burst' = 0 /\ Push("KeyboardLeave", compositor.keyboard)
        /\ UNCHANGED <<proxies, keymap, repeat_rate, pointerVars>>
    BY <1>2 DEF KeyboardLeave
  <2>2. /\ compositor' \in Said /\ compositor'.keyboard = None
        /\ compositor'.caps = compositor.caps /\ compositor'.pointer = compositor.pointer
    BY <1>2 DEF KeyboardLeave, Said
  <2>3. compositor.keyboard \in Surfaces \cup {None}
    BY DEF Said
  <2>4. pending_input_events' \in Seq(Queued) /\ InputIsAnnounced'
    BY <2>1, <2>3, Pushed DEF Kinds
  <2> QED
    BY <2>1, <2>2, <2>4 DEF KeyboardFollows, ClockIsAhead, PointerIsTracked, pointerVars
<1>3. ASSUME NEW rate \in Rates, RepeatInfo(rate) PROVE DevicesInv'
  <2>1. repeat_rate' \in Nat
    BY <1>3 DEF RepeatInfo, ConstantsAreMeant
  <2> QED
    BY <1>3, <2>1 DEF RepeatInfo, KeyboardFollows, ClockIsAhead, PointerIsTracked,
       InputIsAnnounced, pointerVars, queueVars
<1>4. ASSUME NEW layout \in Keymaps, Keymap(layout) PROVE DevicesInv'
  BY <1>4 DEF Keymap, ConstantsAreMeant, KeyboardFollows, ClockIsAhead, PointerIsTracked,
     InputIsAnnounced, pointerVars, queueVars
<1> QED
  BY <1>1, <1>2, <1>3, <1>4

\* A device that is unplugged takes with it what was said of it.
LEMMA CapabilitiesStep ==
    ASSUME DevicesInv, NEW caps \in SUBSET Devices, Capabilities(caps) PROVE DevicesInv'
<1> USE DEF DevicesInv, Typed
<1>1. /\ compositor' \in Said /\ compositor'.caps = caps
      /\ compositor'.pointer = IF "pointer" \in caps THEN compositor.pointer ELSE None
      /\ compositor'.keyboard = IF "keyboard" \in caps THEN compositor.keyboard ELSE None
      /\ compositor'.held = IF "keyboard" \in caps THEN compositor.held ELSE {}
  BY DEF Capabilities, Said
<1>2. /\ proxies' = Synced(caps) /\ burst' = 0
      /\ repeating_key' = IF "keyboard" \in caps THEN repeating_key ELSE None
      /\ UNCHANGED <<keymap, repeat_rate, focused_surface_id, queueVars>>
  BY DEF Capabilities
<1>3. PointerIsTracked'
  BY <1>1 DEF Capabilities, PointerIsTracked, pointerVars
<1>4. KeyboardFollows'
  BY <1>1, <1>2 DEF KeyboardFollows
<1> QED
  BY <1>1, <1>2, <1>3, <1>4 DEF ClockIsAhead, InputIsAnnounced, queueVars

\* The pointer.
LEMMA PointerStep ==
    ASSUME DevicesInv,
           \/ \E s \in Surfaces : PointerEnter(s)
           \/ PointerMotion \/ PointerLeave \/ PointerAxis
           \/ \E button \in Buttons : PointerButton(button)
           \/ \E hit \in Widgets \cup {None} : Drain(hit)
    PROVE  DevicesInv'
<1> USE DEF DevicesInv, Typed
<1>1. ASSUME compositor' \in Said, compositor'.caps = compositor.caps,
             compositor'.keyboard = compositor.keyboard, compositor'.held = compositor.held,
             compositor'.pointer = pointer_surface_id', UNCHANGED <<proxies, keyboardVars>>,
             pending_input_events' \in Seq(Queued), InputIsAnnounced'
      PROVE  DevicesInv'
  BY <1>1 DEF KeyboardFollows, ClockIsAhead, PointerIsTracked, keyboardVars
<1>2. compositor.pointer \in Surfaces \cup {None} /\ pointer_surface_id = compositor.pointer
  BY DEF Said, PointerIsTracked
<1>3. ASSUME NEW s \in Surfaces, PointerEnter(s) PROVE DevicesInv'
  <2>1. pending_input_events' \in Seq(Queued) /\ InputIsAnnounced'
    BY <1>3, Pushed DEF PointerEnter, Kinds
  <2> QED
    BY <1>1, <1>3, <2>1 DEF PointerEnter, Said
<1>4. CASE PointerMotion
  <2>1. pending_input_events' \in Seq(Queued) /\ InputIsAnnounced'
    BY <1>4, Pushed DEF PointerMotion, Kinds
  <2> QED
    BY <1>1, <1>2, <1>4, <2>1 DEF PointerMotion, pointerVars
<1>5. CASE PointerLeave
  <2>1. pending_input_events' \in Seq(Queued) /\ InputIsAnnounced'
    BY <1>2, <1>5, Pushed DEF PointerLeave, Kinds
  <2> QED
    BY <1>1, <1>5, <2>1 DEF PointerLeave, Said
<1>6. CASE PointerAxis
  <2>1. pending_input_events' \in Seq(Queued) /\ InputIsAnnounced'
    BY <1>2, <1>6, Pushed DEF PointerAxis, Kinds
  <2> QED
    BY <1>1, <1>2, <1>6, <2>1 DEF PointerAxis, pointerVars
<1>7. ASSUME NEW button \in Buttons, PointerButton(button) PROVE DevicesInv'
  <2>1. /\ compositor' \in Said /\ compositor'.caps = compositor.caps
        /\ compositor'.keyboard = compositor.keyboard /\ compositor'.held = compositor.held
        /\ compositor'.pointer = compositor.pointer
    BY <1>7 DEF PointerButton, Said
  <2>2. /\ UNCHANGED <<proxies, keyboardVars, pointer_surface_id, frame_ready>>
        /\ \/ UNCHANGED pending_input_events
           \/ \E pressed \in BOOLEAN :
                  pending_input_events' = Append(pending_input_events,
                      [kind |-> "PointerButton", surface |-> pointer_surface_id,
                       button |-> button, pressed |-> pressed])
    BY <1>7 DEF PointerButton
  <2>3. pending_input_events' \in Seq(Queued) /\ InputIsAnnounced'
    <3>1. ASSUME NEW pressed \in BOOLEAN,
                 pending_input_events' = Append(pending_input_events,
                     [kind |-> "PointerButton", surface |-> pointer_surface_id,
                      button |-> button, pressed |-> pressed])
          PROVE  pending_input_events' \in Seq(Queued) /\ InputIsAnnounced'
      <4>1. [kind |-> "PointerButton", surface |-> pointer_surface_id,
             button |-> button, pressed |-> pressed] \in Queued
        BY <1>2 DEF Queued
      <4> QED
        BY <2>2, <3>1, <4>1 DEF InputIsAnnounced
    <3>2. CASE UNCHANGED pending_input_events
      BY <2>2, <3>2 DEF InputIsAnnounced
    <3> QED
      BY <2>2, <3>1, <3>2
  <2> QED
    BY <1>1, <1>2, <2>1, <2>2, <2>3
<1>8. ASSUME NEW hit \in Widgets \cup {None}, Drain(hit) PROVE DevicesInv'
  <2>1. pending_input_events' = <<>> /\ UNCHANGED <<compositor, proxies, keyboardVars, pointer_surface_id>>
    BY <1>8 DEF Drain
  <2>2. pending_input_events' \in Seq(Queued) /\ InputIsAnnounced'
    BY <2>1 DEF InputIsAnnounced
  <2> QED
    BY <1>1, <1>2, <2>1, <2>2
<1> QED
  BY <1>3, <1>4, <1>5, <1>6, <1>7, <1>8

\* Moving the focus between widgets concerns no device.
LEMMA FocusStep ==
    ASSUME DevicesInv, UNCHANGED <<compositor, proxies, keyboardVars, pointerVars, queueVars>>
    PROVE  DevicesInv'
BY DEF DevicesInv, Typed, KeyboardFollows, ClockIsAhead, PointerIsTracked, InputIsAnnounced,
   keyboardVars, pointerVars, queueVars

LEMMA DevicesStart == Init => DevicesInv
<1> SUFFICES ASSUME Init PROVE DevicesInv
  OBVIOUS
<1>1. compositor \in Said /\ pending_input_events \in Seq(Queued)
  BY DEF Init, Said
<1> QED
  BY <1>1 DEF Init, DevicesInv, Typed, KeyboardFollows, ClockIsAhead, Synced, PointerIsTracked,
     InputIsAnnounced

LEMMA DevicesStep ==
    ASSUME ConstantsAreMeant, DevicesInv, [Next]_vars PROVE DevicesInv'
<1>1. ASSUME NEW caps \in SUBSET Devices, Capabilities(caps) PROVE DevicesInv'
  BY <1>1, CapabilitiesStep
<1>2. CASE \/ \E s \in Surfaces, held \in SUBSET Keys : KeyboardEnter(s, held)
           \/ KeyboardLeave
           \/ \E rate \in Rates : RepeatInfo(rate)
           \/ \E layout \in Keymaps : Keymap(layout)
  BY <1>2, KeyboardStep
<1>3. ASSUME NEW key \in Keys, KeyPressed(key) \/ KeyReleased(key) PROVE DevicesInv'
  BY <1>3, KeyStep
<1>4. CASE Tick \/ PollRepeat
  BY <1>4, RepeatStep
<1>5. CASE \/ \E s \in Surfaces : PointerEnter(s)
           \/ PointerMotion \/ PointerLeave \/ PointerAxis
           \/ \E button \in Buttons : PointerButton(button)
           \/ \E hit \in Widgets \cup {None} : Drain(hit)
  BY <1>5, PointerStep
<1>6. CASE ResolveFocus \/ PushScope \/ PopScope \/ SetFocus \/ SetFocusWithMeta
            \/ ClearFocus \/ TakeFocusEvents \/ Rebuild
  BY <1>6, FocusStep DEF ResolveFocus, PushScope, PopScope, SetFocus, SetFocusWithMeta,
     ClearFocus, SetTop, TakeFocusEvents, Rebuild
<1>7. CASE UNCHANGED vars
  BY <1>7, FocusStep DEF vars
<1> QED
  <2>1. {} \in SUBSET Keys /\ \A k \in Keys : {k} \in SUBSET Keys
    OBVIOUS
  <2> QED
    BY <1>1, <1>2, <1>3, <1>4, <1>5, <1>6, <1>7, <2>1 DEF Next

LEMMA DevicesFollow == DevicesInv => DevicesAreTracked
BY DEF DevicesInv, KeyboardFollows, ClockIsAhead, Synced, DevicesAreTracked, KeysRepeatWhileHeld,
   RepeatsDoNotPile

\* For any surfaces, keys, layouts and rates: only a key that is down on a surface of ours
\* repeats, repeats do not pile up, clicks go to the surface the pointer is on, and input
\* asks for a frame, whatever devices come and go.
THEOREM DevicesAlwaysTracked ==
    ASSUME ConstantsAreMeant PROVE Spec => []DevicesAreTracked
BY DevicesStart, DevicesStep, DevicesFollow, PTL DEF Spec

-----------------------------------------------------------------------------
(* Focus *)

Memories == [widget : Widgets \cup {None}, name : Names \cup {None}]

\* What the host is to find again of a scope is what the scope knows: its widget, and a
\* name only if it is that of this widget.
ScopesRemember ==
    \A i \in DOMAIN stack :
        /\ remembered[i].widget = stack[i].widget
        /\ remembered[i].name # None => remembered[i].name = stack[i].name

FocusInv ==
    /\ scene \in Scenes /\ stack \in Seq(Scopes) /\ remembered \in Seq(Memories)
    /\ Len(stack) \in 1 .. MaxScopes /\ Len(remembered) = Len(stack)
    /\ ScopesRemember

LowerScopesStay == \A i \in 1 .. Len(stack) - 1 : i <= Len(stack') => stack'[i] = stack[i]

\* Nodes of a scene.
LEMMA NodesAreNamed ==
    ASSUME ConstantsAreMeant, scene \in Scenes
    PROVE  /\ Len(scene) \in Nat /\ DOMAIN scene = 1 .. Len(scene)
           /\ \A i \in DOMAIN scene : scene[i].id \in Widgets /\ scene[i].name \in Names
<1>1. scene \in Seq(ToSet(scene))
  BY DEF ConstantsAreMeant
<1>2. ToSet(scene) \in {ToSet(sc) : sc \in Scenes}
  OBVIOUS
<1>3. \A i \in DOMAIN scene : scene[i] \in UNION {ToSet(sc) : sc \in Scenes}
  BY <1>2 DEF ToSet
<1> QED
  BY <1>1, <1>3 DEF Widgets, Names

\* The top scope goes, and the host forgets it.
LEMMA ScopePopped ==
    ASSUME FocusInv, Len(stack) > 1, MaxScopes \in Nat,
           stack' = Front(stack), remembered' = Front(remembered), UNCHANGED scene
    PROVE  FocusInv' /\ LowerScopesStay
<1>1. /\ Front(stack) \in Seq(Scopes) /\ Len(Front(stack)) = Len(stack) - 1
      /\ \A i \in 1 .. Len(stack) - 1 : Front(stack)[i] = stack[i]
  BY SubSeqProperties DEF Front, FocusInv
<1>2. /\ Front(remembered) \in Seq(Memories) /\ Len(Front(remembered)) = Len(stack) - 1
      /\ \A i \in 1 .. Len(stack) - 1 : Front(remembered)[i] = remembered[i]
  BY SubSeqProperties DEF Front, FocusInv
<1>3. DOMAIN Front(stack) = 1 .. Len(stack) - 1 /\ 1 .. Len(stack) - 1 \subseteq DOMAIN stack
      /\ Len(stack) \in Nat
  BY <1>1, LenProperties DEF FocusInv
<1>4. ScopesRemember'
  BY <1>1, <1>2, <1>3 DEF ScopesRemember, FocusInv
<1>5. Len(stack)' \in 1 .. MaxScopes
  BY <1>1, <1>3 DEF FocusInv
<1> QED
  BY <1>1, <1>2, <1>4, <1>5 DEF FocusInv, LowerScopesStay

\* The last element of a sequence is replaced.
LEMMA LastReplaced ==
    ASSUME NEW S, NEW q \in Seq(S), NEW x \in S, NEW n \in Nat \ {0}, n = Len(q),
           NEW r, r = [q EXCEPT ![n] = x]
    PROVE  /\ r \in Seq(S) /\ Len(r) = n /\ r[n] = x
           /\ \A i \in 1 .. n - 1 : r[i] = q[i]
<1>1. q \in [1 .. n -> S] /\ n \in 1 .. n
  BY LenProperties
<1>2. r \in [1 .. n -> S] /\ r[n] = x
  BY <1>1
<1>3. \A i \in 1 .. n - 1 : i \in 1 .. n /\ i # n
  OBVIOUS
<1> QED
  BY <1>1, <1>2, <1>3, LenProperties

\* The top scope gets a focus, and the host knows of it.
LEMMA TopScopeSet ==
    ASSUME FocusInv, NEW scope \in Scopes, NEW memory \in Memories, MaxScopes \in Nat,
           memory.widget = scope.widget, memory.name # None => memory.name = scope.name,
           stack' = [stack EXCEPT ![Len(stack)] = scope],
           remembered' = [remembered EXCEPT ![Len(stack)] = memory], UNCHANGED scene
    PROVE  FocusInv' /\ LowerScopesStay
<1>1. PICK n \in Nat \ {0} : n = Len(stack) /\ n = Len(remembered)
  BY LenProperties DEF FocusInv
<1>2. stack' \in Seq(Scopes) /\ Len(stack') = n /\ stack'[n] = scope
      /\ \A i \in 1 .. n - 1 : stack'[i] = stack[i]
  BY <1>1, LastReplaced DEF FocusInv
<1>3. remembered' \in Seq(Memories) /\ Len(remembered') = n /\ remembered'[n] = memory
      /\ \A i \in 1 .. n - 1 : remembered'[i] = remembered[i]
  BY <1>1, LastReplaced DEF FocusInv
<1>4. DOMAIN stack = 1 .. n /\ DOMAIN stack' = 1 .. n
  BY <1>1, <1>2, LenProperties DEF FocusInv
<1>5. \A i \in 1 .. n : i = n \/ i \in 1 .. n - 1
  OBVIOUS
<1>6. ScopesRemember'
  BY <1>2, <1>3, <1>4, <1>5 DEF ScopesRemember, FocusInv
<1> QED
  BY <1>1, <1>2, <1>3, <1>6 DEF FocusInv, LowerScopesStay

LEMMA ScopePushed ==
    ASSUME ConstantsAreMeant, FocusInv, PushScope
    PROVE  FocusInv' /\ LowerScopesStay
<1> DEFINE scope == [BlankScope EXCEPT !.index = 0]
           memory == [widget |-> None, name |-> None]
<1>1. scope \in Scopes /\ memory \in Memories /\ scope.widget = None
  BY DEF Scopes, Memories, BlankScope
<1>2. /\ stack' = Append(stack, scope) /\ remembered' = Append(remembered, memory)
      /\ UNCHANGED scene /\ Len(stack) < MaxScopes
  BY DEF PushScope
<1>3. memory.widget = None /\ memory.name = None
  OBVIOUS
<1> HIDE DEF scope, memory
<1>4. /\ stack' \in Seq(Scopes) /\ Len(stack') = Len(stack) + 1
      /\ stack'[Len(stack) + 1] = scope /\ \A i \in 1 .. Len(stack) : stack'[i] = stack[i]
  BY <1>1, <1>2, AppendProperties, SMTT(60) DEF FocusInv
<1>5. /\ remembered' \in Seq(Memories) /\ Len(remembered') = Len(stack) + 1
      /\ remembered'[Len(stack) + 1] = memory
      /\ \A i \in 1 .. Len(stack) : remembered'[i] = remembered[i]
  BY <1>1, <1>2, AppendProperties DEF FocusInv
<1>6. Len(stack) \in Nat /\ DOMAIN stack = 1 .. Len(stack) /\ DOMAIN stack' = 1 .. Len(stack) + 1
  BY <1>4, LenProperties DEF FocusInv
<1>7. ScopesRemember'
  <2> SUFFICES ASSUME NEW i \in 1 .. Len(stack) + 1
               PROVE  /\ remembered'[i].widget = stack'[i].widget
                      /\ remembered'[i].name # None => remembered'[i].name = stack'[i].name
    BY <1>6 DEF ScopesRemember
  <2>1. CASE i = Len(stack) + 1
    BY <1>1, <1>3, <1>4, <1>5, <2>1
  <2>2. CASE i # Len(stack) + 1
    <3>1. i \in 1 .. Len(stack)
      BY <1>6, <2>2
    <3> QED
      BY <1>4, <1>5, <1>6, <3>1 DEF FocusInv, ScopesRemember
  <2> QED
    BY <2>1, <2>2
<1>8. Len(stack') \in 1 .. MaxScopes
  BY <1>2, <1>4, <1>6 DEF ConstantsAreMeant
<1> QED
  BY <1>2, <1>4, <1>5, <1>6, <1>7, <1>8 DEF FocusInv, LowerScopesStay

\* Among places there is a first one.
LEMMA LeastIsThere ==
    ASSUME NEW places \in SUBSET Nat, places # {}
    PROVE  Least(places) \in places
<1> DEFINE less == {ss \in Nat \X Nat : ss[1] < ss[2]}
<1>1. IsWellFoundedOn(less, Nat)
  BY NatLessThanWellFounded DEF OpToRel
<1>2. PICK i \in places : \A j \in places : <<j, i>> \notin less
  <2> HIDE DEF less
  <2> QED
    BY <1>1, WFMin
<1>3. \A j \in places : ~(j < i)
  BY <1>2
<1>4. \A j \in places : i <= j
  BY <1>3
<1> QED
  BY <1>4 DEF Least

\* The places of nodes with this id, and with this name.
PlacesOfId(id) == {i - 1 : i \in {j \in DOMAIN scene : scene[j].id = id}}
PlacesOfName(name) == {i - 1 : i \in {j \in DOMAIN scene : name # None /\ scene[j].name = name}}

LEMMA PlacesAreInScene ==
    ASSUME ConstantsAreMeant, scene \in Scenes, NEW x, NEW place,
           place \in PlacesOfId(x) \/ place \in PlacesOfName(x)
    PROVE  /\ place \in Nat /\ place + 1 \in DOMAIN scene
           /\ place \in PlacesOfId(x) => NodeAt(place).id = x
           /\ place \in PlacesOfName(x) => NodeAt(place).name = x
<1>1. DOMAIN scene = 1 .. Len(scene) /\ Len(scene) \in Nat
  BY NodesAreNamed
<1>2. \A i \in DOMAIN scene : i - 1 \in Nat /\ i - 1 + 1 = i
  BY <1>1
<1> QED
  BY <1>2 DEF PlacesOfId, PlacesOfName, NodeAt

\* The focus resolved is a node of the scene: that of the widget if it is there, else one
\* of the name if there is one.
LEMMA ResolvedInScene ==
    ASSUME ConstantsAreMeant, scene \in Scenes, scene # <<>>, NEW scope \in Scopes
    PROVE  /\ Resolved(scope) \in Nat /\ Resolved(scope) + 1 \in DOMAIN scene
           /\ scope.widget \in {n.id : n \in ToSet(scene)} =>
                  NodeAt(Resolved(scope)).id = scope.widget
           /\ scope.widget \notin {n.id : n \in ToSet(scene)}
              /\ scope.name # None /\ scope.name \in {n.name : n \in ToSet(scene)} =>
                  NodeAt(Resolved(scope)).name = scope.name
<1> DEFINE byId == PlacesOfId(scope.widget)
           byName == PlacesOfName(scope.name)
           index == IF scope.index = None THEN 0 ELSE scope.index
           place == Resolved(scope)
<1>1. place = IF byId # {} THEN Least(byId)
              ELSE IF byName # {} THEN Least(byName)
              ELSE IF index < Len(scene) THEN index ELSE Len(scene) - 1
  BY DEF Resolved, Places, PlacesOfId, PlacesOfName
<1>2. DOMAIN scene = 1 .. Len(scene) /\ Len(scene) \in Nat /\ Len(scene) # 0
  <2>1. scene \in Seq(ToSet(scene))
    BY DEF ConstantsAreMeant
  <2> QED
    BY <2>1, EmptySeq, LenProperties
<1>3. index \in Nat
  BY DEF Scopes
<1>4. byId \in SUBSET Nat /\ byName \in SUBSET Nat
  BY PlacesAreInScene
<1>5. scope.widget \in {n.id : n \in ToSet(scene)} => byId # {}
  BY DEF ToSet, PlacesOfId
<1>6. scope.name # None /\ scope.name \in {n.name : n \in ToSet(scene)} => byName # {}
  BY DEF ToSet, PlacesOfName
<1>7. byId # {} => scope.widget \in {n.id : n \in ToSet(scene)}
  BY DEF ToSet, PlacesOfId
<1> HIDE DEF byId, byName, place, index
<1>8. byId # {} => place \in byId
  BY <1>1, <1>4, LeastIsThere
<1>9. byId = {} /\ byName # {} => place \in byName
  BY <1>1, <1>4, LeastIsThere
<1>10. byId = {} /\ byName = {} => place \in Nat /\ place + 1 \in DOMAIN scene
  BY <1>1, <1>2, <1>3
<1>11. place \in byId => place \in Nat /\ place + 1 \in DOMAIN scene /\ NodeAt(place).id = scope.widget
  BY PlacesAreInScene DEF byId
<1>12. place \in byName => place \in Nat /\ place + 1 \in DOMAIN scene /\ NodeAt(place).name = scope.name
  BY PlacesAreInScene DEF byName
<1>13. place \in Nat /\ place + 1 \in DOMAIN scene
  BY <1>8, <1>9, <1>10, <1>11, <1>12
<1>14. scope.widget \in {n.id : n \in ToSet(scene)} => NodeAt(place).id = scope.widget
  BY <1>5, <1>8, <1>11
<1>15. scope.widget \notin {n.id : n \in ToSet(scene)}
       /\ scope.name # None /\ scope.name \in {n.name : n \in ToSet(scene)} =>
           NodeAt(place).name = scope.name
  BY <1>6, <1>7, <1>9, <1>12
<1> QED
  BY <1>13, <1>14, <1>15 DEF place

\* The focus is resolved: it is on the node, and on the node the host expects.
LEMMA FocusResolved ==
    ASSUME ConstantsAreMeant, FocusInv, ResolveFocus
    PROVE  FocusInv' /\ FocusIsKept
<1> DEFINE top == Last(stack)
           was == Last(remembered)
           place == Resolved(top)
           node == NodeAt(place)
           scope == [widget |-> node.id, index |-> place,
                     name |-> IF node.id = top.widget /\ top.name # None THEN top.name
                              ELSE node.name]
           memory == [widget |-> node.id,
                      name |-> IF was.widget = node.id THEN was.name ELSE node.name]
<1>1. PICK n \in Nat \ {0} : n = Len(stack) /\ n = Len(remembered)
  BY LenProperties DEF FocusInv
<1>2. /\ n \in DOMAIN stack /\ n \in DOMAIN remembered
      /\ top = stack[n] /\ was = remembered[n] /\ top \in Scopes /\ was \in Memories
      /\ was.widget = top.widget /\ (was.name # None => was.name = top.name)
  BY <1>1, LenProperties DEF FocusInv, ScopesRemember, Last
<1>3. scene # <<>> /\ UNCHANGED scene /\ stack' = [stack EXCEPT ![Len(stack)] = scope]
  BY DEF ResolveFocus
<1>4. remembered' = [remembered EXCEPT ![Len(stack)] = memory]
  BY <1>1, <1>2 DEF ResolveFocus, Last
<1>5. /\ place \in Nat /\ place + 1 \in DOMAIN scene
      /\ top.widget \in {m.id : m \in ToSet(scene)} => node.id = top.widget
      /\ top.widget \notin {m.id : m \in ToSet(scene)}
         /\ top.name # None /\ top.name \in {m.name : m \in ToSet(scene)} => node.name = top.name
  BY <1>2, <1>3, ResolvedInScene DEF FocusInv
<1>6. node.id \in Widgets /\ node.name \in Names
  BY <1>5, NodesAreNamed DEF NodeAt, FocusInv
<1>7. scope \in Scopes /\ memory \in Memories /\ memory.widget = scope.widget
      /\ (memory.name # None => memory.name = scope.name)
      /\ scope.index = place /\ scope.widget = node.id
  <2> HIDE DEF top, was, place, node
  <2> QED
    BY <1>2, <1>5, <1>6 DEF Scopes, Memories
<1>8. Last(stack') = scope
  <2> HIDE DEF scope
  <2>1. stack' \in Seq(Scopes) /\ Len(stack') = n /\ stack'[n] = scope
    BY <1>1, <1>3, <1>7, LastReplaced DEF FocusInv
  <2> QED
    BY <2>1 DEF Last
<1>9. FocusInv' /\ LowerScopesStay
  <2> HIDE DEF scope, memory
  <2> QED
    BY <1>3, <1>4, <1>7, TopScopeSet DEF ConstantsAreMeant
<1>10. /\ node.id = scope.widget
       /\ \/ node.id = was.widget
          \/ /\ was.widget \notin {m.id : m \in ToSet(scene)}
             /\ was.name # None /\ was.name \in {m.name : m \in ToSet(scene)} => node.name = was.name
  BY <1>2, <1>5
<1> HIDE DEF top, was, place, scope, memory
<1>11. NodeAt(Last(stack').index) = node
  BY <1>7, <1>8
<1> QED
  BY <1>8, <1>9, <1>10, <1>11 DEF FocusIsKept, LowerScopesStay, was, node

\* The host sets the focus of the top scope.
LEMMA FocusSet ==
    ASSUME ConstantsAreMeant, FocusInv, SetFocus \/ SetFocusWithMeta \/ ClearFocus
    PROVE  FocusInv' /\ LowerScopesStay
<1>1. ASSUME NEW scope \in Scopes, NEW memory \in Memories, SetTop(scope, memory),
             memory.widget = scope.widget, memory.name # None => memory.name = scope.name
      PROVE  FocusInv' /\ LowerScopesStay
  BY <1>1, TopScopeSet DEF SetTop, ConstantsAreMeant
<1>2. scene \in Scenes /\ Last(stack) \in Scopes
  BY LenProperties DEF FocusInv, Last
<1>3. /\ Len(scene) \in Nat /\ DOMAIN scene = 1 .. Len(scene)
      /\ \A i \in DOMAIN scene : scene[i].id \in Widgets /\ scene[i].name \in Names
  BY <1>2, NodesAreNamed
<1>4. CASE SetFocus
  <2>1. PICK node \in ToSet(scene) :
            SetTop([Last(stack) EXCEPT !.widget = node.id], [widget |-> node.id, name |-> None])
    BY <1>4 DEF SetFocus
  <2>2. node.id \in Widgets
    BY <1>3 DEF ToSet
  <2>3. [Last(stack) EXCEPT !.widget = node.id] \in Scopes
        /\ [Last(stack) EXCEPT !.widget = node.id].widget = node.id
    BY <1>2, <2>2 DEF Scopes
  <2>4. [widget |-> node.id, name |-> None] \in Memories
    BY <2>2 DEF Memories
  <2> QED
    BY <1>1, <2>1, <2>3, <2>4
<1>5. CASE SetFocusWithMeta
  <2>1. PICK i \in DOMAIN scene :
            SetTop([widget |-> scene[i].id, name |-> scene[i].name, index |-> i - 1],
                   [widget |-> scene[i].id, name |-> scene[i].name])
    BY <1>5 DEF SetFocusWithMeta
  <2>2. scene[i].id \in Widgets /\ scene[i].name \in Names /\ i - 1 \in Nat
    BY <1>3
  <2>3. [widget |-> scene[i].id, name |-> scene[i].name, index |-> i - 1] \in Scopes
        /\ [widget |-> scene[i].id, name |-> scene[i].name] \in Memories
    BY <2>2 DEF Scopes, Memories
  <2> QED
    BY <1>1, <2>1, <2>3
<1>6. CASE ClearFocus
  <2>1. BlankScope \in Scopes /\ BlankScope.widget = None
        /\ [widget |-> None, name |-> None] \in Memories
    BY DEF BlankScope, Scopes, Memories
  <2> QED
    BY <1>1, <1>6, <2>1 DEF ClearFocus
<1> QED
  BY <1>4, <1>5, <1>6

\* A key may close a scope; everything else of the devices leaves them alone.
LEMMA FocusUnderDevices ==
    ASSUME ConstantsAreMeant, FocusInv,
           \/ UNCHANGED <<stack, scene, remembered>>
           \/ \E keysym, pressed : Dispatch(keysym, pressed)
           \/ PopScope
    PROVE  FocusInv' /\ LowerScopesStay
<1>1. \/ UNCHANGED <<stack, scene, remembered>>
      \/ Len(stack) > 1 /\ stack' = Front(stack) /\ remembered' = Front(remembered) /\ UNCHANGED scene
  BY DEF Dispatch, PopScope
<1>2. CASE UNCHANGED <<stack, scene, remembered>>
  BY <1>2 DEF FocusInv, ScopesRemember, LowerScopesStay
<1>3. CASE /\ Len(stack) > 1 /\ stack' = Front(stack) /\ remembered' = Front(remembered)
           /\ UNCHANGED scene
  BY <1>3, ScopePopped DEF ConstantsAreMeant
<1> QED
  BY <1>1, <1>2, <1>3

LEMMA FocusStart == ConstantsAreMeant /\ Init => FocusInv
<1> SUFFICES ASSUME ConstantsAreMeant, Init PROVE FocusInv
  OBVIOUS
<1>1. /\ BlankScope \in Scopes /\ [widget |-> None, name |-> None] \in Memories
      /\ BlankScope.widget = None
  BY DEF BlankScope, Scopes, Memories
<1>2. stack = <<BlankScope>> /\ remembered = <<[widget |-> None, name |-> None]>> /\ scene \in Scenes
  BY DEF Init
<1>3. Len(stack) = 1 /\ Len(remembered) = 1 /\ DOMAIN stack = {1}
      /\ stack[1] = BlankScope /\ remembered[1] = [widget |-> None, name |-> None]
  BY <1>2
<1> QED
  BY <1>1, <1>2, <1>3 DEF FocusInv, ScopesRemember, ConstantsAreMeant

LEMMA FocusStepKeeps ==
    ASSUME ConstantsAreMeant, FocusInv, [Next]_vars PROVE FocusInv' /\ FocusIsKept
<1>1. CASE ResolveFocus
  BY <1>1, FocusResolved
<1>2. CASE ~ResolveFocus
  <2> SUFFICES FocusInv' /\ LowerScopesStay
    BY <1>2 DEF FocusIsKept, LowerScopesStay
  <2>1. CASE SetFocus \/ SetFocusWithMeta \/ ClearFocus
    BY <2>1, FocusSet
  <2>2. CASE PushScope
    BY <2>2, ScopePushed
  <2>3. CASE PopScope
    BY <2>3, FocusUnderDevices
  <2>4. CASE Rebuild
    BY <2>4 DEF Rebuild, FocusInv, ScopesRemember, LowerScopesStay
  <2>5. ASSUME NEW key \in Keys, KeyPressed(key) \/ KeyReleased(key)
        PROVE  FocusInv' /\ LowerScopesStay
    <3>1. \/ UNCHANGED focusVars
          \/ \E keysym, pressed : Dispatch(keysym, pressed)
      BY <2>5 DEF KeyPressed, KeyReleased
    <3> QED
      BY <3>1, FocusUnderDevices DEF focusVars
  <2>6. CASE UNCHANGED <<stack, scene, remembered>>
    BY <2>6, FocusUnderDevices
  <2>7. ASSUME NEW caps \in SUBSET Devices, Capabilities(caps)
        PROVE  UNCHANGED <<stack, scene, remembered>>
    BY <2>7 DEF Capabilities, focusVars
  <2>8. ASSUME NEW s \in Surfaces, NEW held,
               PointerEnter(s) \/ KeyboardEnter(s, held) \/ KeyboardLeave \/ Tick \/ PollRepeat
        PROVE  UNCHANGED <<stack, scene, remembered>>
    BY <2>8 DEF PointerEnter, KeyboardEnter, KeyboardLeave, Tick, PollRepeat, focusVars
  <2>9. ASSUME KeyboardLeave \/ Tick \/ PollRepeat \/ PointerMotion \/ PointerLeave \/ PointerAxis
               \/ TakeFocusEvents
        PROVE  UNCHANGED <<stack, scene, remembered>>
    BY <2>9 DEF KeyboardLeave, Tick, PollRepeat, PointerMotion, PointerLeave, PointerAxis,
       TakeFocusEvents, focusVars
  <2>10. ASSUME NEW x, RepeatInfo(x) \/ Keymap(x) \/ PointerButton(x) \/ Drain(x)
         PROVE  UNCHANGED <<stack, scene, remembered>>
    BY <2>10 DEF RepeatInfo, Keymap, PointerButton, Drain, focusVars
  <2>11. CASE UNCHANGED vars
    BY <2>6, <2>11 DEF vars, focusVars
  <2> QED
    BY <1>2, <2>1, <2>2, <2>3, <2>4, <2>5, <2>6, <2>7, <2>8, <2>9, <2>10, <2>11 DEF Next
<1> QED
  BY <1>1, <1>2

\* However the scene is rebuilt and scopes are opened and closed, resolving the focus of a
\* scope finds its widget, or the one of its name, for any scenes and any depth of scopes.
THEOREM FocusAlwaysReturns ==
    ASSUME ConstantsAreMeant PROVE Spec => FocusReturns
<1>1. Init => FocusInv
  BY FocusStart
<1>2. FocusInv /\ [Next]_vars => FocusInv' /\ [FocusIsKept]_vars
  BY FocusStepKeeps
<1> QED
  BY <1>1, <1>2, PTL DEF Spec, FocusReturns

-----------------------------------------------------------------------------
(* Types *)

\* What of TypeOK DevicesInv and FocusInv do not say.
Ranged ==
    /\ repeat_rate \in Rates \cup {0}
    /\ focused_surface_id \in Surfaces \cup {None} /\ pointer_surface_id \in Surfaces \cup {None}
    /\ hovered_widget \in Widgets \cup {None} /\ pressed_buttons \subseteq Buttons
    /\ Len(pending_input_events) <= MaxEvents
    /\ frame_ready \in BOOLEAN /\ escape_requested \in BOOLEAN

InputInv == DevicesInv /\ FocusInv /\ Ranged

LEMMA InputStart == ConstantsAreMeant /\ Init => InputInv
<1> SUFFICES ASSUME ConstantsAreMeant, Init PROVE InputInv
  OBVIOUS
<1>1. Len(pending_input_events) <= MaxEvents
  BY DEF Init, ConstantsAreMeant
<1> QED
  BY <1>1, DevicesStart, FocusStart DEF Init, InputInv, Ranged

\* An event is pushed only where there is room.
LEMMA PushedInRoom ==
    ASSUME pending_input_events \in Seq(Queued), NEW event, Room, MaxEvents \in Nat,
           pending_input_events' = Append(pending_input_events, event)
    PROVE  Len(pending_input_events') <= MaxEvents
<1> DEFINE n == Len(pending_input_events)
<1>1. n \in Nat /\ n < MaxEvents
  BY LenProperties DEF Room
<1>2. Len(pending_input_events') = n + 1
  OBVIOUS
<1> HIDE DEF n
<1> QED
  BY <1>1, <1>2

LEMMA InputStep ==
    ASSUME ConstantsAreMeant, InputInv, [Next]_vars PROVE InputInv'
<1>1. DevicesInv' /\ FocusInv'
  BY DevicesStep, FocusStepKeeps DEF InputInv
<1> USE DEF InputInv, Ranged, keyboardVars, pointerVars, queueVars, focusVars
<1>2. ASSUME NEW kind, NEW surface, Push(kind, surface)
      PROVE  Len(pending_input_events') <= MaxEvents /\ frame_ready' = TRUE
  BY <1>2, PushedInRoom DEF Push, ConstantsAreMeant, DevicesInv, Typed
<1>3. ASSUME NEW keysym, NEW pressed \in BOOLEAN, Dispatch(keysym, pressed)
      PROVE  escape_requested' \in BOOLEAN
  BY <1>3 DEF Dispatch
<1>4. pointer_surface_id \in Surfaces \cup {None} /\ compositor.keyboard \in Surfaces \cup {None}
  BY DEF DevicesInv, Typed, Said
<1>5. ASSUME NEW caps \in SUBSET Devices, Capabilities(caps) PROVE Ranged'
  BY <1>5 DEF Capabilities
<1>6. ASSUME NEW s \in Surfaces, NEW held, KeyboardEnter(s, held) PROVE Ranged'
  BY <1>6 DEF KeyboardEnter
<1>7. ASSUME KeyboardLeave PROVE Ranged'
  BY <1>2, <1>7 DEF KeyboardLeave
<1>8. ASSUME Tick \/ PollRepeat PROVE Ranged'
  BY <1>8 DEF Tick, PollRepeat
<1>9. ASSUME NEW rate \in Rates, RepeatInfo(rate) PROVE Ranged'
  BY <1>9 DEF RepeatInfo
<1>10. ASSUME NEW layout \in Keymaps, Keymap(layout) PROVE Ranged'
  BY <1>10 DEF Keymap
<1>11. ASSUME NEW key \in Keys, KeyPressed(key) \/ KeyReleased(key) PROVE Ranged'
  <2>1. UNCHANGED <<repeat_rate, focused_surface_id, pointerVars>>
    BY <1>11 DEF KeyPressed, KeyReleased
  <2>2. \/ UNCHANGED <<pending_input_events, frame_ready, escape_requested>>
        \/ /\ \E kind, surface : Push(kind, surface)
           /\ \E keysym : \E pressed \in BOOLEAN : Dispatch(keysym, pressed)
    <3>1. CASE keymap = None
      BY <1>11, <3>1 DEF KeyPressed, KeyReleased
    <3>2. CASE keymap # None /\ KeyPressed(key)
      <4>1. Push("KeyPress", None) /\ Dispatch(Keysym[keymap][key], TRUE)
        BY <3>2 DEF KeyPressed
      <4> QED
        BY <4>1
    <3>3. CASE keymap # None /\ KeyReleased(key)
      <4>1. Push("KeyRelease", None) /\ Dispatch(Keysym[keymap][key], FALSE)
        BY <3>3 DEF KeyReleased
      <4> QED
        BY <4>1
    <3> QED
      BY <1>11, <3>1, <3>2, <3>3
  <2> QED
    BY <1>2, <1>3, <2>1, <2>2
<1>12. ASSUME NEW s \in Surfaces, PointerEnter(s) PROVE Ranged'
  BY <1>2, <1>12 DEF PointerEnter
<1>13. ASSUME PointerMotion \/ PointerLeave \/ PointerAxis PROVE Ranged'
  BY <1>2, <1>13 DEF PointerMotion, PointerLeave, PointerAxis
<1>14. ASSUME NEW button \in Buttons, PointerButton(button) PROVE Ranged'
  <2>1. /\ UNCHANGED <<keyboardVars, pointer_surface_id, hovered_widget, frame_ready, escape_requested>>
        /\ pressed_buttons' \subseteq Buttons
    BY <1>14 DEF PointerButton
  <2>2. Len(pending_input_events') <= MaxEvents
    BY <1>14, PushedInRoom DEF PointerButton, ConstantsAreMeant, DevicesInv, Typed
  <2> QED
    BY <2>1, <2>2
<1>15. ASSUME NEW hit \in Widgets \cup {None}, Drain(hit) PROVE Ranged'
  <2>1. /\ UNCHANGED <<keyboardVars, pointer_surface_id, escape_requested>>
        /\ pressed_buttons' \subseteq Buttons /\ hovered_widget' = hit
        /\ pending_input_events' = <<>> /\ frame_ready' = FALSE
    BY <1>15 DEF Drain
  <2>2. Len(pending_input_events') <= MaxEvents
    BY <2>1 DEF ConstantsAreMeant
  <2> QED
    BY <2>1, <2>2
<1>16. ASSUME \/ ResolveFocus \/ PushScope \/ PopScope \/ Rebuild
              \/ SetFocus \/ SetFocusWithMeta \/ ClearFocus
       PROVE  Ranged'
  BY <1>16 DEF ResolveFocus, PushScope, PopScope, SetFocus, SetFocusWithMeta, ClearFocus, SetTop,
     Rebuild
<1>17. ASSUME TakeFocusEvents PROVE Ranged'
  BY <1>17 DEF TakeFocusEvents
<1>18. ASSUME UNCHANGED vars PROVE Ranged'
  BY <1>18 DEF vars
<1>19. Ranged'
  <2> HIDE DEF Ranged, InputInv
  <2> QED
    BY <1>5, <1>6, <1>7, <1>8, <1>9, <1>10, <1>11, <1>12, <1>13, <1>14, <1>15, <1>16, <1>17, <1>18
       DEF Next
<1> QED
  BY <1>1, <1>19

LEMMA InputIsTyped == InputInv => TypeOK
<1> SUFFICES ASSUME InputInv PROVE TypeOK
  OBVIOUS
<1> USE DEF InputInv, DevicesInv, FocusInv, Ranged, Typed
<1>1. proxies \subseteq Devices \cup {"cursor"}
  BY DEF KeyboardFollows, Synced, Said
<1>2. repeating_key = None \/ repeating_key.key \in Keys
  BY DEF Repeating
<1> QED
  BY <1>1, <1>2 DEF TypeOK, Said

\* The variables keep their types, and queues and scopes their bounds.
THEOREM TypeCorrect ==
    ASSUME ConstantsAreMeant PROVE Spec => []TypeOK
BY InputStart, InputStep, InputIsTyped, PTL DEF Spec

=============================================================================
