----------------------------- MODULE Compositors -----------------------------
(***************************************************************************)
(* The integrations of wyrd-compositor beside Hyprland's keybinds: the     *)
(* automatic integration, which looks for a compositor until it finds one  *)
(* (compositor/auto.rs), the event loops of Sway, niri and the generic     *)
(* fallback (sway.rs, niri.rs, none.rs) and the status the host queries    *)
(* when one of them reports a change (query_status), in several requests   *)
(* each of which may stay without an answer.                               *)
(***************************************************************************)
EXTENDS Naturals, Sequences, FiniteSets

CONSTANTS
    Users,      \* threads of the host that register keybinds
    Main,       \* the thread inside run_event_loop
    Binds,      \* keybinds
    MaxFailures,\* bound on the requests that stay without an answer
    MaxEdition, \* bound on the changes of windows, workspaces and layout
    MaxEvents   \* event messages a connection holds

Everyone == Users \cup {Main}
Found == {"hyprland", "niri", "sway"}
Kinds == Found \cup {"none"}

VARIABLES
    choice,     \* the CompositorChoice of the host
    sockets,    \* the compositors whose socket or environment variable is there
    current,    \* the integration in use: its kind and which instance it is
    created,    \* instances made
    recorded,   \* instance -> keybinds it restores after a reload
    asked,      \* history: keybinds registered with Hyprland
    at,         \* where a thread stands
    hand,       \* the integration a thread holds, or the kind it has detected
    link,       \* the connection events come over
    events,     \* event messages on their way
    edition,    \* version of the compositor's state
    status,     \* WindowStatus: the version each part was read at
    missed,     \* history: the state changed while nobody listened
    inside,     \* the event loop of an integration has been entered
    known,      \* version of the keyboard_info of the generic integration
    failures    \* requests without an answer so far

session == <<choice, sockets>>
holding == <<current, created, recorded, asked>>
stream  == <<link, events, missed>>
\* The requests of query_status: the windows, once more for the active one, the
\* workspaces and the keyboard.  Hyprland's workspaces take three: the windows on
\* them, which one is active, and the list.
Requests(kind) ==
    IF kind = "hyprland"
    THEN <<"list", "active", "apps", "marked", "workspaces", "keyboard">>
    ELSE <<"list", "active", "workspaces", "keyboard">>
StatusParts == {"list", "active", "apps", "marked", "workspaces", "keyboard"}
Empty == MaxEdition + 1   \* a part whose request stayed without an answer

Dropped == [kind |-> "none", id |-> 0]

Init ==
    /\ choice \in {"auto", "niri", "sway", "none"}
    /\ sockets \in IF choice = "auto" THEN {{}, {"niri"}} ELSE {{}}
    /\ current = [kind |-> IF choice # "auto" THEN choice
                           ELSE IF sockets # {} THEN "niri" ELSE "none", id |-> 0]
    /\ created = 1
    /\ recorded = [i \in 0 .. Cardinality(Everyone) |-> {}]
    /\ asked = {}
    /\ at = [t \in Everyone |-> "idle"]
    /\ hand = [t \in Everyone |-> Dropped]
    /\ link = FALSE
    /\ events = 0
    /\ edition = 0
    /\ status = [p \in StatusParts |-> 0]
    /\ missed = FALSE
    /\ inside = FALSE
    /\ known \in IF current.kind = "none" THEN {0, Empty} ELSE {Empty}
    /\ failures = 0

TypeOK ==
    /\ sockets \subseteq Found
    /\ current \in [kind : Kinds, id : 0 .. Cardinality(Everyone)]
    /\ created \in 1 .. Cardinality(Everyone) + 1
    /\ \A i \in DOMAIN recorded : recorded[i] \subseteq asked
    /\ asked \subseteq Binds
    /\ at \in [Everyone ->
               {"idle", "probe", "again", "swap", "tell", "use", "loop"} \cup StatusParts]
    /\ \A t \in Everyone : hand[t].kind \in Kinds
    /\ link \in BOOLEAN /\ missed \in BOOLEAN
    /\ events \in 0 .. MaxEvents
    /\ edition \in 0 .. MaxEdition
    /\ status \in [StatusParts -> 0 .. edition \cup {Empty}]
    /\ inside \in BOOLEAN
    /\ known \in 0 .. edition \cup {Empty}
    /\ failures \in 0 .. MaxFailures

Go(t, p) == at' = [at EXCEPT ![t] = p]
Hold(t, i) == hand' = [hand EXCEPT ![t] = i]

-----------------------------------------------------------------------------
(* AutoIntegration: backend and refresh, by any thread *)

\* detect_backend: the first compositor that shows, in this order.
Detected ==
    IF "hyprland" \in sockets THEN "hyprland"
    ELSE IF "niri" \in sockets THEN "niri"
    ELSE IF "sway" \in sockets THEN "sway" ELSE "none"

\* backend: the integration is read and, where it is the generic one of the
\* automatic choice, refresh looks again.
Backend(t) ==
    /\ at[t] = "idle"
    /\ Hold(t, current)
    /\ Go(t, IF current.kind = "none" /\ choice = "auto" THEN "probe" ELSE "use")
    /\ UNCHANGED <<session, holding, stream, edition, status, inside, known, failures>>

\* refresh: current_name, then detect_backend, without the lock between them and
\* the write.  "probe" is refresh inside backend, "again" that of the event loop.
Probe(t) ==
    /\ at[t] \in {"probe", "again"}
    /\ IF current.kind = "none" /\ Detected # "none"
       THEN /\ Hold(t, [kind |-> Detected, id |-> created])
            /\ Go(t, IF at[t] = "again" THEN "tell" ELSE "swap")
       ELSE Go(t, IF at[t] = "again" THEN "idle" ELSE "use") /\ UNCHANGED hand
    /\ UNCHANGED <<session, holding, stream, edition, status, inside, known, failures>>

\* The write.  backend then reads the integration once more; the event loop
\* reports a change before it goes round.
Swap(t) ==
    /\ at[t] \in {"swap", "tell"}
    /\ current' = [kind |-> hand[t].kind, id |-> created]
    /\ created' = created + 1
    /\ Go(t, IF at[t] = "tell" THEN "list" ELSE "idle")
    /\ UNCHANGED <<session, recorded, asked, hand, stream, edition, status, inside, known, failures>>

\* register_keybind with what backend returned.  Only Hyprland takes keybinds at
\* run time; the others say so in the log and return Ok.
Register(t) ==
    /\ t \in Users
    /\ at[t] = "use"
    /\ \E k \in Binds :
        IF hand[t].kind = "hyprland"
        THEN /\ recorded' = [recorded EXCEPT ![hand[t].id] = @ \cup {k}]
             /\ asked' = asked \cup {k}
        ELSE UNCHANGED <<recorded, asked>>
    /\ Hold(t, Dropped)
    /\ Go(t, "idle")
    /\ UNCHANGED <<session, current, created, stream, edition, status, inside, known, failures>>

-----------------------------------------------------------------------------
(* The event loops *)

\* AutoIntegration::run_event_loop: without a compositor it sleeps and looks
\* again; with one it reports a change and stays in that integration's loop.
Delegate ==
    /\ at[Main] = "use"
    /\ inside' = (hand[Main].kind # "none" \/ choice # "auto")
    /\ Go(Main, IF ~inside' THEN "again" ELSE IF choice = "auto" THEN "list" ELSE "loop")
    /\ UNCHANGED <<session, holding, hand, stream, edition, status, known, failures>>

\* A request of the compositors with a socket of their own.  The active window is
\* taken from the first list where the second has none.
Answer(q, answered) ==
    IF answered THEN edition ELSE IF q = "active" THEN status["list"] ELSE Empty

HyprlandAnswer(q, answered) ==
    [status EXCEPT ![q] = Answer(q, answered),
                   !["apps"]   = IF q = "workspaces" /\ ~answered THEN Empty
                                 ELSE IF q = "apps" THEN Answer(q, answered) ELSE @,
                   !["marked"] = IF q = "workspaces" /\ ~answered THEN Empty
                                 ELSE IF q = "marked" THEN Answer(q, answered) ELSE @]

\* Sway and niri: the list of workspaces marks the active one, with no windows.
SwayAnswer(q, answered) ==
    [status EXCEPT ![q] = Answer(q, answered), !["apps"] = Empty,
                   !["marked"] = IF q = "workspaces" THEN Answer(q, answered) ELSE @]
NiriAnswer(q, answered) == SwayAnswer(q, answered)

\* The generic integration asks nobody: it knows the keyboard and no more.
GenericAnswer(q) ==
    [p \in StatusParts |-> IF p = "keyboard" /\ q = p THEN known
                     ELSE IF p = "keyboard" THEN status[p] ELSE Empty]

\* Mutant: a request without an answer leaves what the part showed before.
FilledOrKept(q, answered) ==
    IF answered THEN [status EXCEPT ![q] = edition] ELSE status

\* The status after a request: one without an answer leaves an empty part.
Filled(q, answered) ==
    CASE hand[Main].kind = "hyprland" -> HyprlandAnswer(q, answered)
      [] hand[Main].kind = "sway"     -> SwayAnswer(q, answered)
      [] hand[Main].kind = "niri"     -> NiriAnswer(q, answered)
      [] OTHER                        -> GenericAnswer(q)

\* One request of query_status, which on_change calls.
Query(answered) ==
    \E i \in DOMAIN Requests(hand[Main].kind) :
        LET asks == Requests(hand[Main].kind)
        IN  /\ at[Main] = asks[i]
            /\ answered \/ failures < MaxFailures
            /\ failures' = IF answered THEN failures ELSE failures + 1
            /\ status' = Filled(asks[i], answered)
            /\ Go(Main, IF i < Len(asks) THEN asks[i + 1] ELSE IF inside THEN "loop" ELSE "idle")
            /\ UNCHANGED <<session, holding, hand, stream, edition, inside, known>>

\* on_change every second: niri always, the generic fallback where it gets no
\* connection.
Poll ==
    /\ at[Main] = "loop"
    /\ hand[Main].kind = "niri" \/ (hand[Main].kind = "none" /\ ~link /\ events = 0)
    /\ Go(Main, "list")
    /\ UNCHANGED <<session, holding, hand, stream, edition, status, inside, known, failures>>

\* Connect to the event socket, and again after it was closed.  The answer to Sway's
\* subscription is the first message and taken for an event; a keyboard bound anew
\* is sent its keymap.
Connect ==
    /\ at[Main] = "loop"
    /\ hand[Main].kind # "niri"
    /\ ~link /\ events = 0
    /\ link' = TRUE
    /\ events' = IF hand[Main].kind = "hyprland" THEN 0 ELSE 1
    /\ UNCHANGED <<session, holding, at, hand, missed, edition, status, inside, known, failures>>

\* A message: the generic integration notes the keyboard, the host is told.
ReadEvent ==
    /\ at[Main] = "loop"
    /\ events > 0
    /\ events' = events - 1
    /\ missed' = FALSE
    /\ known' = IF hand[Main].kind = "none" THEN edition ELSE known
    /\ Go(Main, "list")
    /\ UNCHANGED <<session, holding, hand, link, edition, status, inside, failures>>

-----------------------------------------------------------------------------
(* The compositor *)

\* Only the automatic choice looks for it.
CompositorStarts(k) ==
    /\ choice = "auto"
    /\ sockets' = sockets \cup {k} /\ sockets' # sockets
    /\ UNCHANGED <<choice, holding, at, hand, stream, edition, status, inside, known, failures>>

Changes ==
    /\ edition < MaxEdition
    /\ events < MaxEvents
    /\ edition' = edition + 1
    /\ IF link THEN events' = events + 1 /\ UNCHANGED missed
               ELSE missed' = TRUE /\ UNCHANGED events
    /\ UNCHANGED <<session, holding, at, hand, link, status, inside, known, failures>>

Disconnects ==
    /\ link
    /\ link' = FALSE
    /\ UNCHANGED <<session, holding, at, hand, events, missed, edition, status, inside, known, failures>>

MainStep ==
    \/ Backend(Main) \/ Probe(Main) \/ Swap(Main) \/ Delegate
    \/ \E answered \in BOOLEAN : Query(answered)
    \/ Poll \/ Connect \/ ReadEvent

Next ==
    \/ \E t \in Users : Backend(t) \/ Probe(t) \/ Swap(t) \/ Register(t)
    \/ MainStep
    \/ \E k \in Found : CompositorStarts(k)
    \/ Changes \/ Disconnects

-----------------------------------------------------------------------------
(* Properties *)

\* A keybind Hyprland took is known to the integration in use, which restores it
\* after a reload, unless two threads found the compositor at once; each thread
\* makes at most one integration.
KeybindsStay ==
    /\ created <= 2 => asked \subseteq recorded[current.id]
    /\ current.kind # "none" \/ asked = {}

\* The parts of a status are of the moments they were asked for, in this order; a
\* part without an answer is empty, never what an earlier status showed.
StatusIsInOrder ==
    at[Main] = "loop" =>
        LET asks == Requests(hand[Main].kind)
            At(i) == status[asks[i]]
        IN  \A i, j \in DOMAIN asks : i < j /\ At(i) # Empty /\ At(j) # Empty => At(i) <= At(j)

CompositorsAreSound == KeybindsStay /\ StatusIsInOrder

\* What the host has been shown in the end: all of the last state with niri; with an
\* event socket too, unless the state changed while it was down or the last query
\* had no answer; the keyboard with the generic integration.  The automatic choice
\* tells nobody anything only as long as no compositor shows.
Followed ==
    LET kind == hand[Main].kind
        asked_for == {Requests(kind)[i] : i \in DOMAIN Requests(kind)}
        all == \A p \in asked_for : status[p] = edition
        lost == missed \/ failures > 0
    IN  \/ choice = "auto" /\ kind = "none" /\ sockets = {}
        \/ kind = "none" /\ choice = "none" /\ status["keyboard"] = edition
        \/ kind = "niri" /\ all
        \/ kind \in {"sway", "hyprland"} /\ (all \/ lost)
=============================================================================
