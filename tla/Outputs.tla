------------------------------ MODULE Outputs ------------------------------
(***************************************************************************)
(* What the Wayland layer knows of the outputs (wyrd-wayland: lib.rs,      *)
(* wayland/output.rs, wayland/backend.rs, surface_manager.rs).  The        *)
(* compositor plugs outputs in and out and changes their mode; its events  *)
(* cross the socket in order, are read into the event queue by whoever     *)
(* reads the socket first (another queue of the connection, the GPU's, may *)
(* do it) and are dispatched from there.  Handlers bind what appears, and  *)
(* ensure_xdg_outputs asks for the logical side of each output once.  The  *)
(* host reconciles the bindings of surfaces with the outputs it knows.     *)
(* A turn of dispatch_pending handles one event at a time until the queue  *)
(* is empty, while the compositor goes on and the socket is read.          *)
(*                                                                         *)
(* A size is [of, mode]: "mode" for the size of a wl_output mode,          *)
(* "logical" for what zxdg_output makes of it.  The compositor uses the    *)
(* name of a global again only when its removal was dispatched.            *)
(***************************************************************************)
EXTENDS Integers, Sequences

CONSTANTS
    Globals,         \* global names of outputs
    Modes,
    Configurations,  \* sets of configured surfaces [name, output]
    MaxWire,         \* bound on the events in flight
    None

VARIABLES
    plugged,             \* global -> mode, in the compositor
    live, xdg_live,      \* globals with a proxy of ours for what is plugged now
    said,                \* history: global -> the last size said of it
    wire, queue,         \* events on the socket, and read
    turn,                \* of the dispatch: "none", "dispatching", or "reading" and "ensuring"
    outputs,             \* global -> [name, size, mode]
    xdg_output_bound,
    pending_roundtrip,   \* roundtrip_async waits
    surfaces,            \* bindings [name, output]
    reconciled           \* history: [names, config] of the last on_outputs_changed

compositorVars == <<plugged, live, xdg_live, said>>
clientVars == <<outputs, xdg_output_bound, pending_roundtrip>>
managerVars == <<surfaces, reconciled>>
vars == <<compositorVars, wire, queue, turn, clientVars, managerVars>>

ConfiguredSurfaces == UNION Configurations
OutputSizes == [of : {"mode", "logical"}, mode : Modes] \cup {None}

\* What the compositor says; a frame callback and that of a roundtrip are of no output.
Events ==
    [kind : {"global", "remove", "name"}, global : Globals]
    \cup [kind : {"mode", "logical"}, global : Globals, mode : Modes]
    \cup [kind : {"done", "synced"}, global : {None}]

\* An output is known as output-N until its name arrives, and None stands for that.
TypeOK ==
    /\ DOMAIN plugged \subseteq Globals /\ \A g \in DOMAIN plugged : plugged[g] \in Modes
    /\ xdg_live \subseteq live /\ live \subseteq DOMAIN plugged
    /\ DOMAIN said = live /\ \A g \in live : said[g] \in OutputSizes
    /\ wire \in Seq(Events) /\ queue \in Seq(Events) /\ Len(wire) + Len(queue) <= MaxWire
    /\ turn \in {"none", "dispatching", "reading", "ensuring"}
    /\ DOMAIN outputs \subseteq Globals
    /\ \A g \in DOMAIN outputs :
           outputs[g] \in [name : {g, None}, size : OutputSizes, mode : Modes \cup {None}]
    /\ xdg_output_bound \subseteq DOMAIN outputs
    /\ pending_roundtrip \in BOOLEAN
    /\ surfaces \subseteq [name : {c.name : c \in ConfiguredSurfaces}, output : Globals]

Init ==
    /\ plugged = <<>> /\ live = {} /\ xdg_live = {} /\ said = <<>>
    /\ wire = <<>> /\ queue = <<>> /\ turn = "none"
    /\ outputs = <<>> /\ xdg_output_bound = {} /\ pending_roundtrip = FALSE
    /\ surfaces = {} /\ reconciled = [names |-> {}, config |-> {}]

Event(kind, g) == [kind |-> kind, global |-> g]
Size(of, mode) == [of |-> of, mode |-> mode]
SizeEvent(of, g, mode) == [kind |-> of, global |-> g, mode |-> mode]

InFlight == queue \o wire
Sent(kind, g) == \E i \in DOMAIN InFlight : InFlight[i].kind = kind /\ InFlight[i].global = g

Send(events) ==
    /\ Len(InFlight) + Len(events) <= MaxWire
    /\ wire' = wire \o events

With(f, g, value) == [h \in DOMAIN f \cup {g} |-> IF h = g THEN value ELSE f[h]]
Without(f, g) == [h \in DOMAIN f \ {g} |-> f[h]]

-----------------------------------------------------------------------------
(* The compositor *)

Plug(g, mode) ==
    /\ g \notin DOMAIN plugged /\ ~Sent("remove", g)
    /\ plugged' = With(plugged, g, mode)
    /\ Send(<<Event("global", g)>>)
    /\ UNCHANGED <<live, xdg_live, said, queue, turn, clientVars, managerVars>>

Unplug(g) ==
    /\ g \in DOMAIN plugged
    /\ plugged' = Without(plugged, g) /\ said' = Without(said, g)
    /\ live' = live \ {g} /\ xdg_live' = xdg_live \ {g}
    /\ Send(<<Event("remove", g)>>)
    /\ UNCHANGED <<queue, turn, clientVars, managerVars>>

\* A mode that differs changes the logical size too, told before or after it; one of
\* another refresh rate does not.
ChangeMode(g, mode, logicalFirst) ==
    /\ g \in live
    /\ IF g \in xdg_live /\ mode # plugged[g]
       THEN LET first == IF logicalFirst THEN "logical" ELSE "mode"
                last == IF logicalFirst THEN "mode" ELSE "logical"
            IN /\ Send(<<SizeEvent(first, g, mode), SizeEvent(last, g, mode)>>)
               /\ said' = [said EXCEPT ![g] = Size(last, mode)]
       ELSE /\ Send(<<SizeEvent("mode", g, mode)>>)
            /\ said' = [said EXCEPT ![g] = Size("mode", mode)]
    /\ plugged' = [plugged EXCEPT ![g] = mode]
    /\ UNCHANGED <<live, xdg_live, queue, turn, clientVars, managerVars>>

\* A frame callback of a surface is done.
FrameDone ==
    /\ Send(<<Event("done", None)>>)
    /\ UNCHANGED <<compositorVars, queue, turn, clientVars, managerVars>>

-----------------------------------------------------------------------------
(* The connection *)

\* Somebody reads the socket for all queues.
Read ==
    /\ wire # <<>>
    /\ queue' = InFlight /\ wire' = <<>>
    /\ UNCHANGED <<compositorVars, turn, clientVars, managerVars>>

\* dispatch_once: with events in the queue it stops at those, and otherwise reads some and
\* looks after the xdg outputs.
DispatchOnce ==
    /\ turn = "none" /\ ~pending_roundtrip
    /\ \/ queue # <<>> /\ turn' = "dispatching" /\ UNCHANGED <<queue, wire>>
       \/ /\ queue = <<>> /\ wire # <<>>
          /\ turn' = "reading" /\ queue' = wire /\ wire' = <<>>
    /\ UNCHANGED <<compositorVars, clientVars, managerVars>>

\* roundtrip_async, and the turns of its loop; run_dispatch_loop dispatches the same way.
StartRoundtrip ==
    /\ turn = "none" /\ ~pending_roundtrip
    /\ pending_roundtrip' = TRUE
    /\ Send(<<Event("synced", None)>>)
    /\ UNCHANGED <<compositorVars, queue, turn, outputs, xdg_output_bound, managerVars>>

DispatchInLoop ==
    /\ turn = "none" /\ turn' = "dispatching"
    /\ \/ queue # <<>> /\ UNCHANGED <<queue, wire>>
       \/ queue = <<>> /\ wire # <<>> /\ queue' = wire /\ wire' = <<>>
    /\ UNCHANGED <<compositorVars, clientVars, managerVars>>

-----------------------------------------------------------------------------
(* A turn.  What a handler asks of the compositor is answered behind what is *)
(* in flight, when the output is still there.                                *)

Handles(kinds) ==
    turn \in {"dispatching", "reading"} /\ queue # <<>> /\ Head(queue).kind \in kinds

Answered(replies) ==
    /\ Len(InFlight) - 1 + Len(replies) <= MaxWire
    /\ queue' = Tail(queue) /\ wire' = wire \o replies

\* Dispatch<WlRegistry> and connect: an output appears, with nothing known of it; bound, it
\* is told of with its mode and name.
OutputAppears ==
    /\ Handles({"global"})
    /\ LET g == Head(queue).global IN
       /\ outputs' = With(outputs, g, [name |-> None, size |-> None, mode |-> None])
       /\ IF g \in DOMAIN plugged
          THEN /\ Answered(<<SizeEvent("mode", g, plugged[g]), Event("name", g)>>)
               /\ live' = live \cup {g} /\ said' = With(said, g, Size("mode", plugged[g]))
          ELSE Answered(<<>>) /\ UNCHANGED <<live, said>>
    /\ UNCHANGED <<plugged, xdg_live, turn, xdg_output_bound, pending_roundtrip, managerVars>>

\* GlobalRemove.
OutputGoes ==
    /\ Handles({"remove"})
    /\ LET g == Head(queue).global IN
       outputs' = Without(outputs, g) /\ xdg_output_bound' = xdg_output_bound \ {g}
    /\ Answered(<<>>)
    /\ UNCHANGED <<compositorVars, turn, pending_roundtrip, managerVars>>

\* Dispatch<WlCallback>: only the callback waited for ends a roundtrip.
CallbackDone ==
    /\ Handles({"done", "synced"})
    /\ pending_roundtrip' = (pending_roundtrip /\ Head(queue).kind # "synced")
    /\ Answered(<<>>)
    /\ UNCHANGED <<compositorVars, turn, outputs, xdg_output_bound, managerVars>>

\* Dispatch<WlOutput> and Dispatch<ZxdgOutputV1>: the last event has the last word on the
\* logical size, a mode too; what is not known is ignored.
Told(output, event) ==
    IF event.kind = "name" THEN [output EXCEPT !.name = event.global]
    ELSE IF event.kind = "mode" THEN [output EXCEPT !.mode = event.mode,
                                                    !.size = Size("mode", event.mode)]
    ELSE [output EXCEPT !.size = Size("logical", event.mode)]

OutputTold ==
    /\ Handles({"name", "mode", "logical"})
    /\ LET event == Head(queue) IN
       outputs' = [g \in DOMAIN outputs |->
                      IF g = event.global THEN Told(outputs[g], event) ELSE outputs[g]]
    /\ Answered(<<>>)
    /\ UNCHANGED <<compositorVars, turn, xdg_output_bound, pending_roundtrip, managerVars>>

\* The queue is empty, and the events that are read from now on wait.
Dispatched ==
    /\ turn \in {"dispatching", "reading"} /\ queue = <<>>
    /\ turn' = IF turn = "reading" THEN "ensuring" ELSE "none"
    /\ UNCHANGED <<compositorVars, wire, queue, clientVars, managerVars>>

\* ensure_xdg_outputs, for one of the outputs that have none.
EnsureXdgOutput(g) ==
    /\ turn = "ensuring"
    /\ g \in DOMAIN outputs \ xdg_output_bound
    /\ xdg_output_bound' = xdg_output_bound \cup {g}
    /\ IF g \in live
       THEN /\ Send(<<SizeEvent("logical", g, plugged[g]), Event("name", g)>>)
            /\ xdg_live' = xdg_live \cup {g}
            /\ said' = [said EXCEPT ![g] = Size("logical", plugged[g])]
       ELSE UNCHANGED <<wire, xdg_live, said>>
    /\ UNCHANGED <<plugged, live, queue, turn, outputs, pending_roundtrip, managerVars>>

Ensured ==
    /\ turn = "ensuring" /\ DOMAIN outputs \subseteq xdg_output_bound
    /\ turn' = "none"
    /\ UNCHANGED <<compositorVars, wire, queue, clientVars, managerVars>>

-----------------------------------------------------------------------------
(* SurfaceManager *)

Names == {outputs[g].name : g \in DOMAIN outputs} \ {None}

\* The bindings a configuration asks for: a surface on its output, or on every one.
Wanted(config, names) ==
    {b \in [name : {c.name : c \in config}, output : names] :
        \E c \in config : c.name = b.name /\ c.output \in {None, b.output}}

\* on_outputs_changed: the bindings of missing outputs go.
Reconciled(config, names) ==
    {b \in surfaces \cup Wanted(config, names) : b.output \in names}

OnOutputsChanged(config) ==
    /\ turn = "none"
    /\ reconciled' = [names |-> Names, config |-> config]
    /\ surfaces' = Reconciled(config, Names)
    /\ UNCHANGED <<compositorVars, wire, queue, turn, clientVars>>

-----------------------------------------------------------------------------
Next ==
    \/ \E g \in Globals, mode \in Modes : Plug(g, mode) \/ \E first \in BOOLEAN : ChangeMode(g, mode, first)
    \/ \E g \in Globals : Unplug(g)
    \/ FrameDone \/ Read \/ DispatchOnce \/ StartRoundtrip \/ DispatchInLoop
    \/ OutputAppears \/ OutputGoes \/ CallbackDone \/ OutputTold
    \/ Dispatched \/ Ensured
    \/ \E g \in Globals : EnsureXdgOutput(g)
    \/ \E config \in Configurations : OnOutputsChanged(config)

Spec == Init /\ [][Next]_vars

-----------------------------------------------------------------------------
\* When nothing is in flight, the client knows the outputs that are plugged, each by its
\* name and with the size said last, however often one was plugged out and in or changed
\* its mode while it was told; and the xdg outputs it counts on are those of these lives.
OutputsAreKnown ==
    InFlight = <<>> =>
        /\ DOMAIN outputs = DOMAIN plugged
        /\ xdg_output_bound = xdg_live
        /\ \A g \in DOMAIN outputs :
               outputs[g] = [name |-> g, mode |-> plugged[g], size |-> said[g]]

\* A roundtrip ends when all that was sent before it was handled, whatever frame
\* callbacks are done meanwhile.
RoundtripIsWhole == Sent("synced", None) => pending_roundtrip

\* Every surface configured has its bindings on the outputs there are, and no binding is
\* on another.
BindingsFollowOutputs ==
    /\ Wanted(reconciled.config, reconciled.names) \subseteq surfaces
    /\ \A b \in surfaces : b.output \in reconciled.names

OutputsAreFollowed == OutputsAreKnown /\ RoundtripIsWhole /\ BindingsFollowOutputs
=============================================================================
