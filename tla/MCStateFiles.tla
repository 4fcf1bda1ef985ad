---------------------------- MODULE MCStateFiles ----------------------------
(* The files of the user for TLC: StateFiles, and beside it LuaRuntime.  They share *)
(* no state, so one run checks each on its own: part says which moves.             *)
EXTENDS StateFiles

CONSTANTS Parts, Surfaces, All, None

VARIABLES
    part,
    disk, script_kind, notified, last_mtimes, watch, loader, read, inner, tx, listening,
    applied, pending_rebuilds, drained, last_error_time, data, shown, unseen, overlap

scriptVars == <<disk, script_kind, notified, last_mtimes, watch, loader, read, inner, tx,
                listening, applied, pending_rebuilds, drained, last_error_time, data, shown,
                unseen, overlap>>
allVars == <<part, vars, scriptVars>>

\* Three saves of the script; a surface it builds, one save, one change of its data.
Script == INSTANCE LuaRuntime WITH
    Surfaces <- {}, MaxSaves <- 3, MaxData <- 0, kind <- script_kind, pc <- loader
Build == INSTANCE LuaRuntime WITH
    MaxSaves <- 1, MaxData <- 1, kind <- script_kind, pc <- loader

\* What does not move starts in one state.
AllInit ==
    /\ part \in Parts
    /\ Init
    /\ part # "files" => wallpaper[CHOOSE l \in Places : TRUE] = 0 /\ Radius = DefaultRadius
    /\ IF part = "build" THEN Build!Init ELSE Script!Init
    /\ part = "files" => script_kind[0] = "runs"

Beside(p, A) == part = p /\ A /\ UNCHANGED <<part, vars>>

AllNext ==
    \/ part = "files" /\ Next /\ UNCHANGED <<part, scriptVars>>
    \/ Beside("script", Script!Next) \/ Beside("build", Build!Next)

\* As in LuaRuntime.
AllFairness ==
    /\ \A l \in Script!Loaders :
           /\ WF_allVars(Beside("script", Script!LoadStep(l)))
           /\ WF_allVars(Beside("build", Build!LoadStep(l)))
    /\ WF_allVars(Beside("script", Script!ScanMtimes))
    /\ WF_allVars(Beside("script", Script!HandleEvents))
    /\ WF_allVars(Beside("script", Script!SendConfig))
    /\ WF_allVars(Beside("script", Script!HostReceives))
    /\ WF_allVars(Beside("build", Build!DrainPendingRebuilds))
    /\ \A s \in Surfaces :
           WF_allVars(Beside("build", Build!BuildsNothing(s) \/ Build!BuildSurface(s)))

AllSpec == AllInit /\ [][AllNext]_allVars /\ AllFairness

-----------------------------------------------------------------------------

\* The last save of the script is applied in the end (see LuaRuntime).
EditsAreApplied == part = "script" => []Script!TypeOK /\ Script!EditsAreApplied

\* A requested rebuild is done in the end (see LuaRuntime).
RequestsAreServed ==
    /\ part = "build" => []Build!TypeOK
    /\ \A s \in Surfaces, d \in 0 .. 1 :
           (part = "build" /\ Build!Requested(s, d)) ~> (part = "build" => Build!Served(s, d))
=============================================================================
