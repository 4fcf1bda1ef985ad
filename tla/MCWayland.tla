----------------------------- MODULE MCWayland -----------------------------
(* The Wayland layer: instances of ShmBuffers and of the modules beside it.  *)
(* They share no state, so one run checks each on its own: part says which   *)
(* of them moves.                                                            *)
EXTENDS ShmBuffers, Integers, TLC

CONSTANTS
    None,
    Globals, Modes, Configurations, MaxWire,                          \* of Outputs
    SurfaceNames, SurfaceSizes, Forced, Overrides, MaxCreated         \* of SurfaceRegistry

\* None is none of the layouts below, and no output.
ASSUME NoneIsNoLayout == None \notin {"us", "swapped"}
ASSUME NoneIsNoOutput == None \notin Globals
ASSUME BoundsAreNatural == MaxWire \in Nat /\ MaxCreated \in Nat /\ SurfaceSizes \subseteq Nat

VARIABLES
    part,
    compositor_input, proxies, keymap, repeat_rate, repeating_key, burst, focused_surface_id,
    pointer_surface_id, hovered_widget, pressed_buttons, pending_input_events, frame_ready,
    stack, events, escape_requested, scene, remembered,
    plugged, live, xdg_live, said, wire, queue, turn, outputs, xdg_output_bound, pending_roundtrip,
    bindings, reconciled,
    protocol, forced, active_backend, surfaces, created, handles, moved, asked, layer_surface_sizes

inputVars == <<compositor_input, proxies, keymap, repeat_rate, repeating_key, burst,
               focused_surface_id, pointer_surface_id, hovered_widget, pressed_buttons,
               pending_input_events, frame_ready, stack, events, escape_requested, scene, remembered>>
outputVars == <<plugged, live, xdg_live, said, wire, queue, turn, outputs, xdg_output_bound,
                pending_roundtrip, bindings, reconciled>>
registryVars == <<protocol, forced, active_backend, surfaces, created, handles, moved, asked,
                  layer_surface_sizes>>

Symmetric == Permutations(Surfaces) \cup Permutations(Sizes)

-----------------------------------------------------------------------------
(* A keyboard with two layouts; a pointer over two surfaces; scenes that are *)
(* rebuilt under a modal scope.                                              *)

Node(id, name) == [id |-> id, name |-> name]
Layouts == [us |-> [q |-> "Q", s |-> "Shift", esc |-> "Escape"],
            swapped |-> [q |-> "Shift", s |-> "Q", esc |-> "Escape"]]

Keyboard == INSTANCE InputDevices WITH
    Surfaces <- {"panel"}, Devices <- {"keyboard"}, HasCursorShape <- TRUE,
    Keys <- {"q", "s"}, Keymaps <- {"us", "swapped"}, Keysym <- Layouts, ModifierSyms <- {"Shift"},
    Rates <- {-1, 50, 200}, Second <- 100, Delay <- 3, Buttons <- {}, Scenes <- {<<>>},
    MaxScopes <- 1, MaxEvents <- 1, MaxLate <- 3, compositor <- compositor_input

Pointer == INSTANCE InputDevices WITH
    Surfaces <- {"panel", "menu"}, Devices <- {"pointer"}, HasCursorShape <- TRUE,
    Keys <- {}, Keymaps <- {}, Keysym <- <<>>, ModifierSyms <- {}, Rates <- {},
    Second <- 100, Delay <- 3, Buttons <- {"left"}, Scenes <- {<<Node(1, "ok")>>},
    MaxScopes <- 1, MaxEvents <- 3, MaxLate <- 0, compositor <- compositor_input

Focus == INSTANCE InputDevices WITH
    Surfaces <- {"panel"}, Devices <- {"keyboard"}, HasCursorShape <- FALSE,
    Keys <- {"esc"}, Keymaps <- {"us"}, Keysym <- Layouts, ModifierSyms <- {"Shift"},
    Rates <- {}, Second <- 100, Delay <- 3, Buttons <- {},
    Scenes <- {<<Node(1, "ok"), Node(2, None)>>, <<Node(2, None), Node(3, "ok")>>, <<>>},
    MaxScopes <- 2, MaxEvents <- 1, MaxLate <- 0, compositor <- compositor_input

\* (See InputDevices.)
DevicesAreTracked ==
    /\ part = "keyboard" => Keyboard!TypeOK /\ Keyboard!DevicesAreTracked
    /\ part = "pointer" => Pointer!TypeOK /\ Pointer!DevicesAreTracked
    /\ part = "focus" => Focus!TypeOK /\ Focus!DevicesAreTracked

FocusReturns == [][part = "focus" => Focus!FocusIsKept]_<<part, inputVars>>

-----------------------------------------------------------------------------
(* Surfaces on one output and on all of them *)

Output == INSTANCE Outputs WITH surfaces <- bindings

MCConfigurations ==
    {{[name |-> "bar", output |-> None]},
     {[name |-> "bar", output |-> 1], [name |-> "dock", output |-> None]}}

-----------------------------------------------------------------------------
Registry == INSTANCE SurfaceRegistry WITH Names <- SurfaceNames, Sizes <- SurfaceSizes

\* Surfaces are where their output is, and what handles and names say they are (see
\* Outputs and SurfaceRegistry).
SurfacesAreKnown ==
    /\ part = "outputs" => Output!TypeOK /\ Output!OutputsAreFollowed
    /\ part = "registry" => Registry!TypeOK /\ Registry!RegistryIsSound

-----------------------------------------------------------------------------
Parts == {"buffers", "keyboard", "pointer", "focus", "outputs", "registry"}

MCInit ==
    /\ part \in Parts
    /\ Init /\ Output!Init
    /\ IF part = "registry" THEN Registry!Init
       ELSE Registry!Init /\ protocol = {} /\ forced = "auto"
    /\ IF part = "pointer" THEN Pointer!Init
       ELSE IF part = "focus" THEN Focus!Init ELSE Keyboard!Init

MCNext ==
    /\ UNCHANGED part
    /\ \/ part = "buffers" /\ Next /\ UNCHANGED <<inputVars, outputVars, registryVars>>
       \/ part = "keyboard" /\ Keyboard!Next /\ UNCHANGED <<vars, outputVars, registryVars>>
       \/ part = "pointer" /\ Pointer!Next /\ UNCHANGED <<vars, outputVars, registryVars>>
       \/ part = "focus" /\ Focus!Next /\ UNCHANGED <<vars, outputVars, registryVars>>
       \/ part = "outputs" /\ Output!Next /\ UNCHANGED <<vars, inputVars, registryVars>>
       \/ part = "registry" /\ Registry!Next /\ UNCHANGED <<vars, inputVars, outputVars>>

MCSpec == MCInit /\ [][MCNext]_<<part, vars, inputVars, outputVars, registryVars>>
=============================================================================
