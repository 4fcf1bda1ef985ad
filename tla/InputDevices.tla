---------------------------- MODULE InputDevices ----------------------------
(***************************************************************************)
(* Keyboard, pointer and focus of the Wayland layer (wyrd-wayland:         *)
(* input/keyboard.rs, pointer.rs, focus.rs and wayland/seat.rs).           *)
(* The compositor plugs devices in and out, moves their focus between      *)
(* surfaces and reports keys and buttons; the handlers keep what was said  *)
(* last and queue input events; the host drains the queue, polls the key   *)
(* that repeats, opens and closes modal scopes and resolves the focus      *)
(* against a scene that it rebuilds.                                       *)
(*                                                                         *)
(* Time is the wait for the next repeat, in units of the shortest interval *)
(* the code allows; a tick passes one of them.                             *)
(***************************************************************************)
EXTENDS Integers, Sequences, SequencesExt, FiniteSets

CONSTANTS
    Surfaces,       \* surfaces devices may be on
    Devices,        \* what the seat may have: of "pointer" and "keyboard"
    HasCursorShape, \* cursor_shape_manager.is_some()
    Keys, Keymaps,  \* key codes, and layouts
    Keysym,         \* layout -> key -> keysym
    ModifierSyms,   \* is_modifier_keysym
    Rates,          \* repeats a second; a negative one counts as none
    Second, Delay,  \* in units of the shortest interval
    Buttons,
    Scenes,         \* sequences of focusable nodes [id, name]
    MaxScopes, MaxEvents, MaxLate, \* bounds: scopes, queued events, ticks a repeat is overdue
    None

VARIABLES
    compositor,  \* what it has said: [caps, pointer, keyboard, held, buttons]
    proxies,     \* the proxies made: of Devices and "cursor"
    keymap, repeat_rate, repeating_key,
    burst,       \* history: repeats polled since the last tick
    focused_surface_id, pointer_surface_id, hovered_widget, pressed_buttons,
    pending_input_events, frame_ready,
    stack, events, escape_requested,
    scene,       \* the navigable nodes, in order
    remembered   \* history: per scope the focus the host last gave it or got from it

keyboardVars == <<keymap, repeat_rate, repeating_key, burst, focused_surface_id>>
pointerVars == <<pointer_surface_id, hovered_widget, pressed_buttons>>
queueVars == <<pending_input_events, frame_ready>>
focusVars == <<stack, events, escape_requested, scene, remembered>>
vars == <<compositor, proxies, keyboardVars, pointerVars, queueVars, focusVars>>

Widgets == {node.id : node \in UNION {ToSet(sc) : sc \in Scenes}}
Names == {node.name : node \in UNION {ToSet(sc) : sc \in Scenes}}

Scopes == [widget : Widgets \cup {None}, name : Names \cup {None}, index : Nat \cup {None}]
BlankScope == [widget |-> None, name |-> None, index |-> None]

TypeOK ==
    /\ compositor \in [caps : SUBSET Devices, pointer : Surfaces \cup {None},
                       keyboard : Surfaces \cup {None}, held : SUBSET Keys, buttons : SUBSET Buttons]
    /\ proxies \subseteq Devices \cup {"cursor"}
    /\ keymap \in Keymaps \cup {None} /\ repeat_rate \in Rates \cup {0}
    /\ repeating_key = None \/ repeating_key.key \in Keys
    /\ burst \in Nat
    /\ {focused_surface_id, pointer_surface_id} \subseteq Surfaces \cup {None}
    /\ hovered_widget \in Widgets \cup {None} /\ pressed_buttons \subseteq Buttons
    /\ Len(pending_input_events) <= MaxEvents
    /\ {frame_ready, escape_requested} \subseteq BOOLEAN
    /\ stack \in Seq(Scopes) /\ Len(stack) \in 1 .. MaxScopes
    /\ Len(remembered) = Len(stack) /\ scene \in Scenes

Init ==
    /\ compositor = [caps |-> {}, pointer |-> None, keyboard |-> None, held |-> {}, buttons |-> {}]
    /\ proxies = {}
    /\ keymap = None /\ repeat_rate = 0 /\ repeating_key = None /\ burst = 0
    /\ focused_surface_id = None /\ pointer_surface_id = None
    /\ hovered_widget = None /\ pressed_buttons = {}
    /\ pending_input_events = <<>> /\ frame_ready = TRUE
    /\ stack = <<BlankScope>> /\ events = <<>> /\ escape_requested = FALSE
    /\ scene \in Scenes
    /\ remembered = <<[widget |-> None, name |-> None]>>

Room == Len(pending_input_events) < MaxEvents

\* Queue an event; all but a button ask for a frame.
Push(kind, surface) ==
    /\ Room
    /\ pending_input_events' = Append(pending_input_events, [kind |-> kind, surface |-> surface])
    /\ frame_ready' = TRUE

-----------------------------------------------------------------------------
(* The seat *)

\* sync_proxy: a proxy is made once for a device that is there.
Synced(caps) ==
    caps \cup (IF HasCursorShape /\ "pointer" \in caps THEN {"cursor"} ELSE {})

Capabilities(caps) ==
    /\ caps # compositor.caps
    /\ compositor' = [compositor EXCEPT
           !.caps = caps,
           !.pointer = IF "pointer" \in caps THEN @ ELSE None,
           !.buttons = IF "pointer" \in caps THEN @ ELSE {},
           !.keyboard = IF "keyboard" \in caps THEN @ ELSE None,
           !.held = IF "keyboard" \in caps THEN @ ELSE {}]
    /\ proxies' = Synced(caps)
    /\ IF "pointer" \in caps THEN UNCHANGED pointerVars
       ELSE pressed_buttons' = {} /\ hovered_widget' = None /\ pointer_surface_id' = None
    /\ repeating_key' = IF "keyboard" \in caps THEN repeating_key ELSE None
    /\ burst' = 0
    /\ UNCHANGED <<keymap, repeat_rate, focused_surface_id, queueVars, focusVars>>

-----------------------------------------------------------------------------
(* The keyboard *)

KeyboardEnter(s, held) ==
    /\ "keyboard" \in proxies /\ compositor.keyboard = None
    /\ compositor' = [compositor EXCEPT !.keyboard = s, !.held = held]
    /\ focused_surface_id' = s
    /\ frame_ready' = TRUE
    /\ UNCHANGED <<proxies, keymap, repeat_rate, repeating_key, burst, pointerVars,
                   pending_input_events, focusVars>>

KeyboardLeave ==
    /\ compositor.keyboard # None
    /\ compositor' = [compositor EXCEPT !.keyboard = None, !.held = {}]
    /\ focused_surface_id' =
           IF focused_surface_id = compositor.keyboard THEN None ELSE focused_surface_id
    /\ repeating_key' = None
    /\ burst' = 0
    /\ Push("KeyboardLeave", compositor.keyboard)
    /\ UNCHANGED <<proxies, keymap, repeat_rate, pointerVars, focusVars>>

RepeatInfo(rate) ==
    /\ "keyboard" \in proxies
    /\ repeat_rate' = IF rate < 0 THEN 0 ELSE rate
    /\ UNCHANGED <<compositor, proxies, keymap, repeating_key, burst, focused_surface_id,
                   pointerVars, queueVars, focusVars>>

\* load_keymap; a format or a file it cannot use leaves the one there was.
Keymap(layout) ==
    /\ "keyboard" \in proxies
    /\ keymap' = layout
    /\ UNCHANGED <<compositor, proxies, repeat_rate, repeating_key, burst, focused_surface_id,
                   pointerVars, queueVars, focusVars>>

\* The interval at a rate; one of none would repeat without end.
Interval(rate) ==
    LET interval == Second \div rate IN IF interval < 1 THEN 1 ELSE interval

\* FocusManager::dispatch: Escape closes the top scope, if it is not the last, and any
\* other key goes to the widget that has the focus.
Dispatch(keysym, pressed) ==
    LET top == Last(stack)
        dismisses == pressed /\ keysym = "Escape" /\ Len(stack) > 1
    IN
    /\ stack' = IF dismisses THEN Front(stack) ELSE stack
    /\ remembered' = IF dismisses THEN Front(remembered) ELSE remembered
    /\ escape_requested' = (escape_requested \/ dismisses)
    /\ events' = IF dismisses \/ top.widget = None THEN events
                 ELSE Append(events, <<top.widget, keysym, pressed>>)
    /\ Len(events') <= MaxEvents
    /\ UNCHANGED scene

\* No keymap, and process_key knows no key.
KeyPressed(key) ==
    /\ compositor.keyboard # None /\ key \notin compositor.held
    /\ compositor' = [compositor EXCEPT !.held = @ \cup {key}]
    /\ IF keymap = None THEN UNCHANGED <<repeating_key, burst, queueVars, focusVars>>
       ELSE
         LET keysym == Keysym[keymap][key]
             repeats == repeat_rate > 0 /\ keysym \notin ModifierSyms
         IN
         /\ Dispatch(keysym, TRUE)
         /\ repeating_key' =
                IF repeats THEN [key |-> key, keysym |-> keysym, wait |-> Delay,
                                 interval |-> Interval(repeat_rate)]
                ELSE repeating_key
         /\ burst' = IF repeats THEN 0 ELSE burst
         /\ Push("KeyPress", None)
    /\ UNCHANGED <<proxies, keymap, repeat_rate, focused_surface_id, pointerVars>>

StopsRepeatingSym(key) == repeating_key # None /\ repeating_key.keysym = Keysym[keymap][key]

\* The repeating key stops when its key is released.
StopsRepeating(key) == repeating_key # None /\ repeating_key.key = key

KeyReleased(key) ==
    /\ compositor.keyboard # None /\ key \in compositor.held
    /\ compositor' = [compositor EXCEPT !.held = @ \ {key}]
    /\ IF keymap = None THEN UNCHANGED <<repeating_key, burst, queueVars, focusVars>>
       ELSE
         /\ Dispatch(Keysym[keymap][key], FALSE)
         /\ repeating_key' = IF StopsRepeating(key) THEN None ELSE repeating_key
         /\ burst' = IF StopsRepeating(key) THEN 0 ELSE burst
         /\ Push("KeyRelease", None)
    /\ UNCHANGED <<proxies, keymap, repeat_rate, focused_surface_id, pointerVars>>

Tick ==
    /\ repeating_key # None /\ repeating_key.wait > -MaxLate
    /\ repeating_key' = [repeating_key EXCEPT !.wait = @ - 1]
    /\ burst' = 0
    /\ UNCHANGED <<compositor, proxies, keymap, repeat_rate, focused_surface_id, pointerVars,
                   queueVars, focusVars>>

\* The next repeat is an interval after this one, or after now when that has passed.
NextWait(rep) == IF rep.wait + rep.interval < 0 THEN rep.interval ELSE rep.wait + rep.interval

PollRepeat ==
    /\ repeating_key # None /\ repeating_key.wait <= 0
    /\ repeating_key' = [repeating_key EXCEPT !.wait = NextWait(repeating_key)]
    /\ burst' = burst + 1
    /\ UNCHANGED <<compositor, proxies, keymap, repeat_rate, focused_surface_id, pointerVars,
                   queueVars, focusVars>>

-----------------------------------------------------------------------------
(* The pointer *)

PointerEnter(s) ==
    /\ "pointer" \in proxies /\ compositor.pointer = None
    /\ compositor' = [compositor EXCEPT !.pointer = s]
    /\ pointer_surface_id' = s
    /\ Push("PointerMove", None)
    /\ UNCHANGED <<proxies, keyboardVars, hovered_widget, pressed_buttons, focusVars>>

PointerMotion ==
    /\ compositor.pointer # None
    /\ Push("PointerMove", None)
    /\ UNCHANGED <<compositor, proxies, keyboardVars, pointerVars, focusVars>>

\* A button is queued with the widget the pointer was last found over.
PointerButton(button) ==
    /\ compositor.pointer # None
    /\ LET pressed == button \notin compositor.buttons IN
       /\ compositor' = [compositor EXCEPT
              !.buttons = IF pressed THEN @ \cup {button} ELSE @ \ {button}]
       /\ pressed_buttons' = IF pressed THEN pressed_buttons \cup {button}
                             ELSE pressed_buttons \ {button}
       /\ IF pointer_surface_id = None THEN UNCHANGED pending_input_events
          ELSE /\ Room
               /\ pending_input_events' = Append(pending_input_events,
                      [kind |-> "PointerButton", surface |-> pointer_surface_id,
                       button |-> button, pressed |-> pressed])
    /\ UNCHANGED <<proxies, keyboardVars, pointer_surface_id, hovered_widget, frame_ready, focusVars>>

PointerLeave ==
    /\ compositor.pointer # None
    /\ compositor' = [compositor EXCEPT !.pointer = None, !.buttons = {}]
    /\ pointer_surface_id' = None
    /\ pressed_buttons' = {}
    /\ Push("PointerLeave", compositor.pointer)
    /\ UNCHANGED <<proxies, keyboardVars, hovered_widget, focusVars>>

PointerAxis ==
    /\ compositor.pointer # None
    /\ hovered_widget # None /\ pointer_surface_id # None
    /\ Push("PointerScroll", pointer_surface_id)
    /\ UNCHANGED <<compositor, proxies, keyboardVars, pointerVars, focusVars>>

\* The host takes the events and gives the pointer's to dispatch_event: what was said last
\* of a button holds.
Drain(hit) ==
    /\ pending_input_events # <<>> \/ frame_ready
    /\ pending_input_events' = <<>> /\ frame_ready' = FALSE
    /\ LET OfKind(kind) == {i \in DOMAIN pending_input_events : pending_input_events[i].kind = kind}
           Clicks(button) ==
               {i \in OfKind("PointerButton") : pending_input_events[i].button = button}
       IN
       /\ OfKind("PointerMove") # {} \/ hit = hovered_widget
       /\ hovered_widget' = hit
       /\ pressed_buttons' = {button \in Buttons :
              IF Clicks(button) = {} THEN button \in pressed_buttons
              ELSE pending_input_events[Max(Clicks(button))].pressed}
    /\ UNCHANGED <<compositor, proxies, keyboardVars, pointer_surface_id, focusVars>>

-----------------------------------------------------------------------------
(* Focus *)

\* Of the sequence of nodes, the places, counted from 0, of those that satisfy a test.
Places(Test(_)) == {i - 1 : i \in {j \in DOMAIN scene : Test(scene[j])}}

Least(places) == CHOOSE i \in places : \A j \in places : i <= j

NodeAt(place) == scene[place + 1]

ResolvedByPlace(scope) ==
    LET byId == Places(LAMBDA node : node.id = scope.widget)
        index == IF scope.index = None THEN 0 ELSE scope.index
    IN IF byId # {} THEN Least(byId)
       ELSE IF index < Len(scene) THEN index ELSE Len(scene) - 1

\* The place of the focus of a scope: of its widget, else of its name, else its own place.
Resolved(scope) ==
    LET byId == Places(LAMBDA node : node.id = scope.widget)
        byName == Places(LAMBDA node : scope.name # None /\ node.name = scope.name)
        index == IF scope.index = None THEN 0 ELSE scope.index
    IN IF byId # {} THEN Least(byId)
       ELSE IF byName # {} THEN Least(byName)
       ELSE IF index < Len(scene) THEN index ELSE Len(scene) - 1

\* A focus by name or by place takes the name of what it finds or has it already; one by
\* id takes a name only when it has none.
ResolveFocus ==
    /\ scene # <<>>
    /\ LET top == Last(stack)
           node == NodeAt(Resolved(top))
           kept == node.id = top.widget
       IN
       /\ stack' = [stack EXCEPT ![Len(stack)] =
              [widget |-> node.id, index |-> Resolved(top),
               name |-> IF kept /\ top.name # None THEN top.name ELSE node.name]]
       /\ remembered' = [remembered EXCEPT ![Len(stack)] =
              [widget |-> node.id, name |-> IF @.widget = node.id THEN @.name ELSE node.name]]
    /\ UNCHANGED <<compositor, proxies, keyboardVars, pointerVars, queueVars, events,
                   escape_requested, scene>>

PushScope ==
    /\ Len(stack) < MaxScopes
    /\ stack' = Append(stack, [BlankScope EXCEPT !.index = 0])
    /\ remembered' = Append(remembered, [widget |-> None, name |-> None])
    /\ UNCHANGED <<compositor, proxies, keyboardVars, pointerVars, queueVars, events,
                   escape_requested, scene>>

PopScope ==
    /\ Len(stack) > 1
    /\ stack' = Front(stack) /\ remembered' = Front(remembered)
    /\ UNCHANGED <<compositor, proxies, keyboardVars, pointerVars, queueVars, events,
                   escape_requested, scene>>

SetTop(scope, focus) ==
    /\ stack' = [stack EXCEPT ![Len(stack)] = scope]
    /\ remembered' = [remembered EXCEPT ![Len(stack)] = focus]
    /\ UNCHANGED <<compositor, proxies, keyboardVars, pointerVars, queueVars, events,
                   escape_requested, scene>>

\* set_focus leaves the name and the place of the widget before.
SetFocus ==
    \E node \in ToSet(scene) :
        SetTop([Last(stack) EXCEPT !.widget = node.id], [widget |-> node.id, name |-> None])

SetFocusWithMeta ==
    \E i \in DOMAIN scene :
        SetTop([widget |-> scene[i].id, name |-> scene[i].name, index |-> i - 1],
               [widget |-> scene[i].id, name |-> scene[i].name])

ClearFocus == SetTop(BlankScope, [widget |-> None, name |-> None])

\* The host takes what the focus manager has for it.
TakeFocusEvents ==
    /\ events # <<>> \/ escape_requested
    /\ events' = <<>> /\ escape_requested' = FALSE
    /\ UNCHANGED <<compositor, proxies, keyboardVars, pointerVars, queueVars, stack, scene, remembered>>

Rebuild ==
    /\ scene' \in Scenes
    /\ UNCHANGED <<compositor, proxies, keyboardVars, pointerVars, queueVars, stack, events,
                   escape_requested, remembered>>

-----------------------------------------------------------------------------
Next ==
    \/ \E caps \in SUBSET Devices : Capabilities(caps)
    \/ \E s \in Surfaces : PointerEnter(s) \/ \E k \in Keys : KeyboardEnter(s, {k})
    \/ \E s \in Surfaces : KeyboardEnter(s, {})
    \/ KeyboardLeave \/ Tick \/ PollRepeat
    \/ \E rate \in Rates : RepeatInfo(rate)
    \/ \E layout \in Keymaps : Keymap(layout)
    \/ \E key \in Keys : KeyPressed(key) \/ KeyReleased(key)
    \/ PointerMotion \/ PointerLeave \/ PointerAxis
    \/ \E button \in Buttons : PointerButton(button)
    \/ \E hit \in Widgets \cup {None} : Drain(hit)
    \/ ResolveFocus \/ PushScope \/ PopScope \/ SetFocus \/ SetFocusWithMeta \/ ClearFocus
    \/ TakeFocusEvents \/ Rebuild

Spec == Init /\ [][Next]_vars

-----------------------------------------------------------------------------
\* A key repeats only while the compositor has said that it is down, on a surface of
\* ours, of a keyboard that is there, whatever layouts, rates and focus came between.
KeysRepeatWhileHeld ==
    repeating_key # None =>
        /\ "keyboard" \in proxies /\ compositor.keyboard = focused_surface_id
        /\ repeating_key.key \in compositor.held

\* A host that polls late gets what is due and then at most one more: repeats never pile
\* up, at any rate the compositor asks for.
RepeatsDoNotPile == burst <= 2

\* The surface that scrolls and clicks are queued for is the one the pointer is on.
PointerIsTracked == pointer_surface_id = compositor.pointer

\* Whatever was queued, but for clicks, has asked for a frame the host did not draw yet.
InputIsAnnounced ==
    (\E i \in DOMAIN pending_input_events : pending_input_events[i].kind # "PointerButton")
        => frame_ready

DevicesAreTracked == KeysRepeatWhileHeld /\ RepeatsDoNotPile /\ PointerIsTracked /\ InputIsAnnounced

\* However often the scene is rebuilt and modal scopes are opened, dismissed and closed,
\* resolving the focus of a scope finds the widget that had it, if it is still there, or
\* the one with its name; and the scopes under the top one keep theirs.
FocusIsKept ==
    /\ \A i \in 1 .. Len(stack) - 1 : i <= Len(stack') => stack'[i] = stack[i]
    /\ ResolveFocus =>
           LET was == Last(remembered)
               node == NodeAt(Last(stack').index)
           IN /\ node.id = Last(stack').widget
              /\ \/ node.id = was.widget
                 \/ /\ was.widget \notin {n.id : n \in ToSet(scene)}
                    /\ was.name # None /\ was.name \in {n.name : n \in ToSet(scene)}
                           => node.name = was.name

FocusReturns == [][FocusIsKept]_vars
=============================================================================
