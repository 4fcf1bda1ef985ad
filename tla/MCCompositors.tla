---------------------------- MODULE MCCompositors ----------------------------
(* The compositor integrations for TLC: HyprlandEvents, and Compositors beside it. *)
(* They share no state, so one run checks each on its own: part says which moves. *)
EXTENDS HyprlandEvents

CONSTANT Parts

ASSUME CallersAreFinite == IsFiniteSet(Callers)

VARIABLES
    part,
    choice, sockets, current, created, recorded, asked, at, hand, link, events, edition,
    status, missed, inside, known, failures

autoVars == <<choice, sockets, current, created, recorded, asked, at, hand, link, events,
              edition, status, missed, inside, known, failures>>
allVars == <<part, vars, autoVars>>

\* A thread that registers a keybind while the event loop looks for a compositor.
Automatic == INSTANCE Compositors WITH
    Users <- Callers, Main <- Loop, Binds <- {"launcher"}, MaxEdition <- 0,
    MaxEvents <- 1, MaxFailures <- 0

\* The event loop alone, a change and a request without an answer.
Status == INSTANCE Compositors WITH
    Users <- {}, Main <- Loop, Binds <- {}, MaxEdition <- 1, MaxEvents <- 2, MaxFailures <- 1

\* The integrations that do not move start in one state.
AllInit ==
    /\ part \in Parts
    /\ Init
    /\ CASE part = "auto" -> Automatic!Init
         [] part = "status" -> Status!Init
         [] part = "hyprland" -> Automatic!Init /\ choice = "niri"

Hyprland(A) == part = "hyprland" /\ A /\ UNCHANGED <<part, autoVars>>
Beside(p, A) == part = p /\ A /\ UNCHANGED <<part, vars>>

AllNext == Hyprland(Next) \/ Beside("auto", Automatic!Next) \/ Beside("status", Status!Next)

\* Fairness as in HyprlandEvents.  The event loop of the other integrations gets on
\* as well, and in the end a connection is made.
AllFairness ==
    /\ WF_allVars(Hyprland(LoopStep))
    /\ \A t \in Threads : WF_allVars(Hyprland(CallStep(t))) /\ SF_allVars(Hyprland(RecordBind(t)))
    /\ SF_allVars(Hyprland(HandleReload))
    /\ WF_allVars(Beside("status", Status!MainStep))
    /\ SF_allVars(Beside("status", Status!Connect))

AllSpec == AllInit /\ [][AllNext]_allVars /\ AllFairness

-----------------------------------------------------------------------------

\* What an integration is asked to keep, it keeps; statuses are read in order (see
\* Compositors).
CompositorsAreSound ==
    /\ part = "auto" => Automatic!TypeOK /\ Automatic!CompositorsAreSound
    /\ part = "status" => Status!TypeOK /\ Status!CompositorsAreSound

\* The host sees the last state (see HyprlandEvents and Compositors).
ViewsCatchUp ==
    /\ ViewCatchesUp
    /\ part = "status" => <>[]Status!Followed
=============================================================================
