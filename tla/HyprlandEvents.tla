--------------------------- MODULE HyprlandEvents ---------------------------
(***************************************************************************)
(* The Hyprland integration (wyrd-compositor, compositor/hyprland.rs): the *)
(* blocking event loop, which re-registers the keybinds after a reload of  *)
(* the compositor's configuration, beside other threads that call          *)
(* register_keybind.  The threads share the mutex registered_binds; every  *)
(* exchange with the compositor is a request of its own, which may time    *)
(* out before or after it took effect.                                     *)
(***************************************************************************)
EXTENDS Naturals, Sequences, FiniteSets

CONSTANTS
    Callers,   \* threads of the host that register keybinds
    Loop,      \* the thread inside run_event_loop
    Keys,      \* keybinds: a combination of modifiers and key with its action
    NoKey,     \* no keybind
    MaxWorld,  \* bound on the changes of windows, workspaces and layout
    MaxReload, \* bound on the reloads of the compositor's configuration
    MaxLines   \* event lines the socket holds

ASSUME LoopIsNoCaller == Loop \notin Callers
ASSUME BoundsAreNatural == MaxWorld \in Nat /\ MaxReload \in Nat /\ MaxLines \in Nat

Threads == Callers \cup {Loop}
Nobody  == "nobody"

ASSUME NobodyIsNoThread == Nobody \notin Threads

VARIABLES
    registered_binds,  \* the keybinds to restore after a reload
    holder,            \* the thread that holds the mutex, or Nobody
    pc,                \* where a thread stands
    binding,           \* the keybind a thread is registering
    restore,           \* keybinds the resync has still to register
    bound,             \* keybind -> how often the compositor has it
    connected,         \* the event socket is connected
    lines,             \* event lines on their way
    world,             \* version of the compositor's state
    reloads,           \* reloads so far
    seen,              \* version the host last queried
    gap                \* history: the state changed while nobody listened

compositor == <<bound, connected, lines, world, reloads>>
host == <<seen, gap>>
vars == <<registered_binds, holder, pc, binding, restore, compositor, host>>

Lines == {"reloaded", "changed"}

TypeOK ==
    /\ registered_binds \subseteq Keys
    /\ holder \in Threads \cup {Nobody}
    /\ pc \in [Threads -> {"idle", "query", "eval", "legacy", "record", "resync"}]
    /\ binding \in [Threads -> Keys \cup {NoKey}]
    /\ restore \subseteq registered_binds
    /\ bound \in [Keys -> 0 .. 2]
    /\ connected \in BOOLEAN
    /\ lines \in Seq(Lines) /\ Len(lines) <= MaxLines
    /\ world \in 0 .. MaxWorld
    /\ reloads \in 0 .. MaxReload
    /\ seen \in 0 .. world
    /\ gap \in BOOLEAN

Init ==
    /\ registered_binds = {}
    /\ holder = Nobody
    /\ pc = [t \in Threads |-> "idle"]
    /\ binding = [t \in Threads |-> NoKey]
    /\ restore = {}
    /\ bound = [k \in Keys |-> 0]
    /\ connected = FALSE
    /\ lines = <<>>
    /\ world = 0
    /\ reloads = 0
    /\ seen = 0
    /\ gap = FALSE

-----------------------------------------------------------------------------
(* register_keybind, by any thread *)

GoTo(t, p) == pc' = [pc EXCEPT ![t] = p]

\* The call returns, to the host or to the resync of the event loop.
Return(t) ==
    /\ binding' = [binding EXCEPT ![t] = NoKey]
    /\ GoTo(t, IF t = Loop THEN "resync" ELSE "idle")

RegisterKeybind(t, k) ==
    /\ t \in Callers
    /\ pc[t] = "idle"
    /\ binding' = [binding EXCEPT ![t] = k]
    /\ GoTo(t, "query")
    /\ UNCHANGED <<registered_binds, holder, restore, compositor, host>>

\* "j/binds": a bound combination is left alone, whoever bound it; without an
\* answer the registration goes on.
QueryBinds(t) ==
    /\ pc[t] = "query"
    /\ \/ bound[binding[t]] > 0 /\ Return(t)
       \/ GoTo(t, "eval") /\ UNCHANGED binding
    /\ UNCHANGED <<registered_binds, holder, restore, compositor, host>>

\* The compositor executes a bind request, or not.
Bound(k) == bound' = [bound EXCEPT ![k] = IF @ < 2 THEN @ + 1 ELSE @]

\* The request "eval hl.bind" and, where it gets no good answer, "keyword bind".
\* A request that times out may have been executed.
RequestBind(t, at, otherwise) ==
    /\ pc[t] = at
    /\ \/ Bound(binding[t]) /\ GoTo(t, "record") /\ UNCHANGED binding
       \/ /\ Bound(binding[t]) \/ UNCHANGED bound
          /\ IF otherwise = "error"
             THEN Return(t)
             ELSE GoTo(t, otherwise) /\ UNCHANGED binding
    /\ UNCHANGED <<registered_binds, holder, restore, connected, lines, world, reloads, host>>

EvalBind(t)   == RequestBind(t, "eval", "legacy")
LegacyBind(t) == RequestBind(t, "legacy", "error")

\* The keybind is recorded under the mutex.  The mutex is not reentrant: the
\* thread that holds it waits for itself.
RecordBind(t) ==
    /\ pc[t] = "record"
    /\ holder = Nobody
    /\ registered_binds' = registered_binds \cup {binding[t]}
    /\ Return(t)
    /\ UNCHANGED <<holder, restore, compositor, host>>

-----------------------------------------------------------------------------
(* run_event_loop *)

Connect ==
    /\ pc[Loop] = "idle"
    /\ ~connected
    /\ lines = <<>>
    /\ connected' = TRUE
    /\ UNCHANGED <<registered_binds, holder, pc, binding, restore, bound, lines,
                   world, reloads, host>>

\* on_change: the host queries the compositor.
OnChange == seen' = world /\ gap' = FALSE

\* Mutant: the lines read so far are dropped with the connection.
HandleChangeOrDrop ==
    /\ pc[Loop] = "idle"
    /\ lines # <<>> /\ Head(lines) = "changed"
    /\ lines' = <<>>
    /\ IF connected THEN OnChange ELSE UNCHANGED host
    /\ UNCHANGED <<registered_binds, holder, pc, binding, restore, bound, connected,
                   world, reloads>>

HandleChange ==
    /\ pc[Loop] = "idle"
    /\ lines # <<>> /\ Head(lines) = "changed"
    /\ lines' = Tail(lines)
    /\ OnChange
    /\ UNCHANGED <<registered_binds, holder, pc, binding, restore, bound, connected,
                   world, reloads>>

\* Mutant: every keybind is restored, registered or not.
HandleReloadOfAllKeys ==
    /\ pc[Loop] = "idle"
    /\ lines # <<>> /\ Head(lines) = "reloaded"
    /\ holder = Nobody
    /\ lines' = Tail(lines)
    /\ holder' = Loop
    /\ restore' = Keys
    /\ GoTo(Loop, "resync")
    /\ UNCHANGED <<registered_binds, binding, bound, connected, world, reloads, host>>

\* "configreloaded": the mutex is taken for the whole of the resync.
HandleReload ==
    /\ pc[Loop] = "idle"
    /\ lines # <<>> /\ Head(lines) = "reloaded"
    /\ holder = Nobody
    /\ lines' = Tail(lines)
    /\ holder' = Loop
    /\ restore' = registered_binds
    /\ GoTo(Loop, "resync")
    /\ UNCHANGED <<registered_binds, binding, bound, connected, world, reloads, host>>

ResyncNext ==
    /\ pc[Loop] = "resync"
    /\ \E k \in restore :
        /\ restore' = restore \ {k}
        /\ binding' = [binding EXCEPT ![Loop] = k]
    /\ GoTo(Loop, "query")
    /\ UNCHANGED <<registered_binds, holder, compositor, host>>

\* Mutant: the guard outlives the resync.
ResyncDoneStillLocked ==
    /\ pc[Loop] = "resync"
    /\ restore = {}
    /\ GoTo(Loop, "idle")
    /\ OnChange
    /\ UNCHANGED <<registered_binds, holder, binding, restore, compositor>>

ResyncDone ==
    /\ pc[Loop] = "resync"
    /\ restore = {}
    /\ holder' = Nobody
    /\ GoTo(Loop, "idle")
    /\ OnChange
    /\ UNCHANGED <<registered_binds, binding, restore, compositor>>

-----------------------------------------------------------------------------
(* The compositor *)

Emit(line) == lines' = IF connected THEN Append(lines, line) ELSE lines

WorldChanges ==
    /\ world < MaxWorld
    /\ Len(lines) < MaxLines
    /\ world' = world + 1
    /\ Emit("changed")
    /\ gap' = (gap \/ ~connected)
    /\ UNCHANGED <<registered_binds, holder, pc, binding, restore, bound, connected,
                   reloads, seen>>

\* A reload forgets the keybinds set over the socket; the new configuration may
\* bind the same combination itself.
Reload ==
    /\ reloads < MaxReload
    /\ Len(lines) < MaxLines
    /\ reloads' = reloads + 1
    /\ bound' \in [Keys -> 0 .. 1]
    /\ Emit("reloaded")
    /\ UNCHANGED <<registered_binds, holder, pc, binding, restore, connected, world, host>>

\* The event socket is closed; what was sent before can still be read.
Disconnect ==
    /\ connected
    /\ connected' = FALSE
    /\ UNCHANGED <<registered_binds, holder, pc, binding, restore, bound, lines,
                   world, reloads, host>>

CallStep(t) == QueryBinds(t) \/ EvalBind(t) \/ LegacyBind(t) \/ RecordBind(t)

LoopStep == Connect \/ HandleChange \/ HandleReload \/ ResyncNext \/ ResyncDone

Next ==
    \/ \E t \in Threads, k \in Keys : RegisterKeybind(t, k)
    \/ \E t \in Threads : CallStep(t)
    \/ LoopStep
    \/ WorldChanges \/ Reload \/ Disconnect

Spec == Init /\ [][Next]_vars

\* Requests have a timeout, so threads get on; a caller that waits for the mutex
\* again and again finds it free gets it in the end.  Nothing is assumed of the
\* host's calls or of the compositor.
Fairness ==
    /\ WF_vars(LoopStep)
    /\ \A t \in Threads : WF_vars(CallStep(t)) /\ SF_vars(RecordBind(t))
    /\ SF_vars(HandleReload)

LiveSpec == Spec /\ Fairness

-----------------------------------------------------------------------------
(* Properties *)

\* The event loop waits for the mutex it holds itself.
Stuck == pc[Loop] = "record" /\ holder = Loop

\* The mutex is held by nobody but the event loop inside a resync.
LockIsForResync == holder = IF pc[Loop] = "idle" THEN Nobody ELSE Loop

\* Only the resync that waits for itself keeps a register_keybind from returning.
CallsReturn ==
    \A t \in Callers : pc[t] # "idle" ~> pc[t] = "idle" \/ Stuck

\* The host sees the last state of the compositor, unless the state changed while
\* the event socket was down (a reconnect is not followed by on_change) or the
\* resync waits for itself.
ViewCatchesUp == <>[](seen = world \/ gap \/ Stuck)

\* "re-syncing environment, rules, and keybinds", as the log has it: the line of a
\* reload is followed by the end of the resync.
ResyncEnds == pc[Loop] = "resync" ~> pc[Loop] = "idle"
=============================================================================
