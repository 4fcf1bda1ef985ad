----------------------------- MODULE Supervisor -----------------------------
(***************************************************************************)
(* The module supervisor (wyrd-wasm, modules/supervisor.rs) together with  *)
(* the lifecycle of the runner tasks it spawns (modules/wasm/mod.rs).      *)
(*                                                                         *)
(* An instance is one tokio task running one WASM guest.  The host drives  *)
(* the supervisor (spawn, stop, kill_all, reap) through &mut self, so one  *)
(* supervisor call runs at a time; every runner task, the tasks that       *)
(* emit_down spawns and the consumer of the update channel run             *)
(* concurrently with it.  A step of the model ends where the code awaits,  *)
(* or where it releases the mutex around emitted_down.                     *)
(***************************************************************************)
EXTENDS Naturals, Sequences, FiniteSets

CONSTANTS
    Names,         \* names modules are spawned under
    NoName,        \* not a name
    Labels,        \* strings the emitted_down set may hold
    ManifestName,  \* manifest.name of the module spawned under a name
    MaxInst,       \* bound on the instances ever spawned
    CmdCap,        \* capacity of a command channel (256 in the code)
    UpdCap         \* capacity of the update channel (chosen by the host)

ASSUME NamesAreLabels   == Names \subseteq Labels /\ NoName \notin Labels
ASSUME ManifestNameType == ManifestName \in [Names -> Labels]
ASSUME BoundsArePositive ==
    /\ MaxInst \in Nat \ {0}
    /\ CmdCap \in Nat \ {0}
    /\ UpdCap \in Nat \ {0}

Inst   == 1 .. MaxInst
NoInst == 0

VARIABLES
    command_routes,  \* name -> instance its sender leads to, or NoInst
    wasm_tasks,      \* instances in the task vector (their order is spawn order)
    emitted_down,    \* labels whose Down a runner has announced
    pc,              \* where the supervisor call in progress stands
    target,          \* the name that call is about
    respawn,         \* TRUE when the stop is the first half of a spawn
    joining,         \* the task stop_module removed and awaits
    terminated,      \* instances reap_finished collected and has not reported
    made,            \* instances spawned so far
    name,            \* name an instance was spawned under
    phase,           \* where the runner task stands
    aborted,         \* JoinHandle::abort was called on the task
    cmds,            \* queued commands of an instance
    updates,         \* the update channel
    late,            \* Down messages waiting in tasks spawned by emit_down
    left,            \* history: how an instance left wasm_tasks
    downs,           \* history: Down messages produced about an instance
    heard            \* history: last lifecycle message the consumer received

supVars    == <<command_routes, wasm_tasks, pc, target, respawn, joining, terminated>>
runnerVars == <<made, name, phase, aborted, cmds>>
chanVars   == <<updates, late>>
history    == <<left, downs, heard>>
vars == <<supVars, emitted_down, runnerVars, chanVars, history>>

Phases   == {"unborn", "starting", "running", "downing", "finished"}
Controls == {"idle", "joining", "spawning", "reporting"}
\* "LateDown" is a Down message that went through emit_down's fallback task.
Kinds    == {"Ready", "Update", "Down", "LateDown"}
Messages == [inst : Inst, kind : Kinds]
Downs    == {"Down", "LateDown"}

TypeOK ==
    /\ command_routes \in [Names -> Inst \cup {NoInst}]
    /\ wasm_tasks \subseteq Inst
    /\ emitted_down \subseteq Labels
    /\ pc \in Controls
    /\ target \in Names \cup {NoName}
    /\ respawn \in BOOLEAN
    /\ joining \in Inst \cup {NoInst}
    /\ terminated \subseteq Inst
    /\ made \in 0 .. MaxInst
    /\ name \in [Inst -> Names \cup {NoName}]
    /\ phase \in [Inst -> Phases]
    /\ aborted \in [Inst -> BOOLEAN]
    /\ cmds \in [Inst -> Seq({"Event", "Shutdown"})]
    /\ updates \in Seq(Messages)
    /\ late \subseteq Inst
    /\ left \in [Inst -> {"no", "stopped", "killed", "reaped"}]
    /\ downs \in [Inst -> Nat]
    /\ heard \in [Inst -> {"nothing", "Ready", "Down"}]

Init ==
    /\ command_routes = [n \in Names |-> NoInst]
    /\ wasm_tasks = {}
    /\ emitted_down = {}
    /\ pc = "idle"
    /\ target = NoName
    /\ respawn = FALSE
    /\ joining = NoInst
    /\ terminated = {}
    /\ made = 0
    /\ name = [i \in Inst |-> NoName]
    /\ phase = [i \in Inst |-> "unborn"]
    /\ aborted = [i \in Inst |-> FALSE]
    /\ cmds = [i \in Inst |-> <<>>]
    /\ updates = <<>>
    /\ late = {}
    /\ left = [i \in Inst |-> "no"]
    /\ downs = [i \in Inst |-> 0]
    /\ heard = [i \in Inst |-> "nothing"]

-----------------------------------------------------------------------------
(* The supervisor *)

TasksOf(n) == {i \in wasm_tasks : name[i] = n}

\* position() finds the first entry of the vector, the oldest instance.
FirstTask(n, i) == i \in TasksOf(n) /\ \A j \in TasksOf(n) : i <= j

UpdatesHaveRoom == Len(updates) < UpdCap

\* try_send(Shutdown) on the route of n: lost when the channel is full or the
\* runner has dropped its receiver.
TryShutdown(n) ==
    LET r == command_routes[n]
    IN  IF r # NoInst /\ Len(cmds[r]) < CmdCap /\ phase[r] # "finished"
        THEN cmds' = [cmds EXCEPT ![r] = Append(@, "Shutdown")]
        ELSE UNCHANGED cmds

\* stop_module up to its await; again says whether a spawn waits for it.
RemoveAndSignal(n, again) ==
    \E i \in wasm_tasks :
        /\ FirstTask(n, i)
        /\ TryShutdown(n)
        /\ wasm_tasks' = wasm_tasks \ {i}
        /\ left' = [left EXCEPT ![i] = "stopped"]
        /\ joining' = i
        /\ target' = n
        /\ respawn' = again
        /\ pc' = "joining"
        /\ UNCHANGED <<command_routes, emitted_down, terminated, made, name,
                       phase, aborted, chanVars, downs, heard>>

\* stop_module of a name without a task: forget the route and the flag.
ForgetName(n, again) ==
    /\ TasksOf(n) = {}
    /\ command_routes' = [command_routes EXCEPT ![n] = NoInst]
    /\ emitted_down' = emitted_down \ {n}
    /\ IF again THEN target' = n /\ pc' = "spawning" ELSE UNCHANGED <<target, pc>>
    /\ UNCHANGED <<wasm_tasks, respawn, joining, terminated, runnerVars,
                   chanVars, history>>

StopModule(n) ==
    /\ pc = "idle"
    /\ RemoveAndSignal(n, FALSE) \/ ForgetName(n, FALSE)

\* spawn_module and spawn_wasm_module: stop_existing_module comes first.  It
\* runs again in each callee, where nothing is left for it to stop.
SpawnModule(n) ==
    /\ pc = "idle"
    /\ \/ /\ TasksOf(n) = {}
          /\ command_routes[n] = NoInst
          /\ target' = n
          /\ pc' = "spawning"
          /\ UNCHANGED <<command_routes, wasm_tasks, respawn, joining, terminated,
                         emitted_down, runnerVars, chanVars, history>>
       \/ RemoveAndSignal(n, TRUE)
       \/ command_routes[n] # NoInst /\ ForgetName(n, TRUE)

\* Mutant: the flag of the stopped instance is left set.
StopJoinedKeepsFlag ==
    /\ pc = "joining"
    /\ phase[joining] = "finished"
    /\ command_routes' = [command_routes EXCEPT ![target] = NoInst]
    /\ joining' = NoInst
    /\ respawn' = FALSE
    /\ IF respawn
       THEN pc' = "spawning" /\ UNCHANGED target
       ELSE pc' = "idle" /\ target' = NoName
    /\ UNCHANGED <<emitted_down, wasm_tasks, terminated, runnerVars, chanVars, history>>

\* Mutant: the task is aborted but not awaited.
StopJoinedWithoutWaiting ==
    /\ pc = "joining"
    /\ aborted[joining] \/ phase[joining] = "finished"
    /\ emitted_down' = emitted_down \ {target}
    /\ command_routes' = [command_routes EXCEPT ![target] = NoInst]
    /\ joining' = NoInst
    /\ respawn' = FALSE
    /\ IF respawn
       THEN pc' = "spawning" /\ UNCHANGED target
       ELSE pc' = "idle" /\ target' = NoName
    /\ UNCHANGED <<wasm_tasks, terminated, runnerVars, chanVars, history>>

\* The awaited task ended, in time or after the abort.
StopJoined ==
    /\ pc = "joining"
    /\ phase[joining] = "finished"
    /\ emitted_down' = emitted_down \ {target}
    /\ command_routes' = [command_routes EXCEPT ![target] = NoInst]
    /\ joining' = NoInst
    /\ respawn' = FALSE
    /\ IF respawn
       THEN pc' = "spawning" /\ UNCHANGED target
       ELSE pc' = "idle" /\ target' = NoName
    /\ UNCHANGED <<wasm_tasks, terminated, runnerVars, chanVars, history>>

\* Mutant: the timeout gives up waiting without aborting.
StopTimeoutWithoutAbort ==
    /\ pc = "joining"
    /\ phase[joining] # "finished"
    /\ UNCHANGED vars

\* The 250 ms timeout: abort the task, then await it without a limit.
StopTimeout ==
    /\ pc = "joining"
    /\ phase[joining] # "finished"
    /\ ~aborted[joining]
    /\ aborted' = [aborted EXCEPT ![joining] = TRUE]
    /\ UNCHANGED <<supVars, emitted_down, made, name, phase, cmds, chanVars, history>>

SpawnInstance ==
    /\ pc = "spawning"
    /\ made < MaxInst
    /\ made' = made + 1
    /\ name' = [name EXCEPT ![made + 1] = target]
    /\ phase' = [phase EXCEPT ![made + 1] = "starting"]
    /\ wasm_tasks' = wasm_tasks \cup {made + 1}
    /\ command_routes' = [command_routes EXCEPT ![target] = made + 1]
    /\ pc' = "idle"
    /\ target' = NoName
    /\ UNCHANGED <<emitted_down, respawn, joining, terminated, aborted,
                   cmds, chanVars, history>>

\* A manifest or binary error, or a Native or Lua module: no task is spawned.
SpawnNothing ==
    /\ pc = "spawning"
    /\ pc' = "idle"
    /\ target' = NoName
    /\ UNCHANGED <<command_routes, wasm_tasks, respawn, joining, terminated,
                   emitted_down, runnerVars, chanVars, history>>

\* Mutant: the routes of the killed tasks are kept.
KillAllKeepsRoutes ==
    /\ pc = "idle"
    /\ wasm_tasks # {}
    /\ aborted' = [i \in Inst |-> aborted[i] \/ i \in wasm_tasks]
    /\ left' = [i \in Inst |-> IF i \in wasm_tasks THEN "killed" ELSE left[i]]
    /\ wasm_tasks' = {}
    /\ UNCHANGED <<command_routes, pc, target, respawn, joining, terminated, emitted_down,
                   made, name, phase, cmds, chanVars, downs, heard>>

\* kill_all (also Drop): the tasks are aborted, not awaited, and emitted_down
\* keeps its flags.
KillAll ==
    /\ pc = "idle"
    /\ wasm_tasks # {}
    /\ aborted' = [i \in Inst |-> aborted[i] \/ i \in wasm_tasks]
    /\ left' = [i \in Inst |-> IF i \in wasm_tasks THEN "killed" ELSE left[i]]
    /\ wasm_tasks' = {}
    /\ command_routes' = [n \in Names |-> NoInst]
    /\ UNCHANGED <<pc, target, respawn, joining, terminated, emitted_down, made, name,
                   phase, cmds, chanVars, downs, heard>>

\* reap_finished, the retain pass.
ReapScan ==
    /\ pc = "idle"
    /\ LET dead == {i \in wasm_tasks : phase[i] = "finished"}
       IN  /\ dead # {}
           /\ wasm_tasks' = wasm_tasks \ dead
           /\ terminated' = dead
           /\ left' = [i \in Inst |-> IF i \in dead THEN "reaped" ELSE left[i]]
           /\ command_routes' = [n \in Names |->
                  IF \E i \in dead : name[i] = n THEN NoInst ELSE command_routes[n]]
    /\ pc' = "reporting"
    /\ UNCHANGED <<target, respawn, joining, emitted_down, runnerVars, chanVars,
                   downs, heard>>

\* Mutant: no fallback task, a Down is lost when the channel is full.
EmitDownOrDrop(i) ==
    /\ downs' = [downs EXCEPT ![i] = @ + 1]
    /\ IF UpdatesHaveRoom
       THEN updates' = Append(updates, [inst |-> i, kind |-> "Down"]) /\ UNCHANGED late
       ELSE UNCHANGED chanVars

\* Mutant: the fallback task is keyed by the name instead of the message.
EmitDownByName(i) ==
    /\ downs' = [downs EXCEPT ![i] = @ + 1]
    /\ IF UpdatesHaveRoom
       THEN updates' = Append(updates, [inst |-> i, kind |-> "Down"]) /\ UNCHANGED late
       ELSE late' = late \cup {name[i]} /\ UNCHANGED updates

\* emit_down: try_send, and a task that awaits send when the channel is full.
EmitDown(i) ==
    /\ downs' = [downs EXCEPT ![i] = @ + 1]
    /\ IF UpdatesHaveRoom
       THEN updates' = Append(updates, [inst |-> i, kind |-> "Down"]) /\ UNCHANGED late
       ELSE late' = late \cup {i} /\ UNCHANGED updates

\* reap_finished, one turn of the reporting loop: a flag of the name means the
\* runner has spoken for itself.
ReapReport ==
    /\ pc = "reporting"
    /\ \E i \in terminated :
        /\ \A j \in terminated : i <= j
        /\ terminated' = terminated \ {i}
        /\ pc' = IF terminated = {i} THEN "idle" ELSE "reporting"
        /\ emitted_down' = emitted_down \ {name[i]}
        /\ IF name[i] \in emitted_down
           THEN UNCHANGED <<downs, chanVars>>
           ELSE EmitDown(i)
    /\ UNCHANGED <<command_routes, wasm_tasks, target, respawn, joining, runnerVars,
                   left, heard>>

-----------------------------------------------------------------------------
(* The runner tasks *)

SetPhase(i, p) == phase' = [phase EXCEPT ![i] = p]

\* The task is over; its receiver is dropped with whatever was queued.
Finish(i) == SetPhase(i, "finished") /\ cmds' = [cmds EXCEPT ![i] = <<>>]

\* init returned 0, or the guest has no init: Ready is sent, awaiting room.
RunnerReady(i) ==
    /\ phase[i] = "starting"
    /\ UpdatesHaveRoom
    /\ updates' = Append(updates, [inst |-> i, kind |-> "Ready"])
    /\ SetPhase(i, "running")
    /\ UNCHANGED <<supVars, emitted_down, made, name, aborted, cmds, late, history>>

\* init returned an error code: a warning, no Ready, and the loop is entered.
RunnerInitCode(i) ==
    /\ phase[i] = "starting"
    /\ SetPhase(i, "running")
    /\ UNCHANGED <<supVars, emitted_down, made, name, aborted, cmds, chanVars, history>>

\* Loading, compiling, instantiating or init failed: run returns the error.
RunnerInitFails(i) ==
    /\ phase[i] = "starting"
    /\ Finish(i)
    /\ UNCHANGED <<supVars, emitted_down, made, name, aborted, chanVars, history>>

\* The biased select takes a command first, then a socket, D-Bus, timer, path
\* or tick event.
HasEvent(i) == phase[i] = "running" /\ (cmds[i] # <<>> => Head(cmds[i]) = "Event")

ConsumeCommand(i) ==
    cmds' = IF cmds[i] = <<>> THEN cmds ELSE [cmds EXCEPT ![i] = Tail(@)]

\* The guest handles the event; it may send an update, dropped when the
\* channel is full (host_send_update uses try_send).
RunnerHandles(i) ==
    /\ HasEvent(i)
    /\ ConsumeCommand(i)
    /\ \/ UNCHANGED updates
       \/ /\ UpdatesHaveRoom
          /\ updates' = Append(updates, [inst |-> i, kind |-> "Update"])
    /\ UNCHANGED <<supVars, emitted_down, made, name, phase, aborted, late, history>>

\* Mutant: the runner announces its Down without flagging it first.
RunnerTrapsUnflagged(i) ==
    /\ HasEvent(i)
    /\ ConsumeCommand(i)
    /\ SetPhase(i, "downing")
    /\ UNCHANGED <<supVars, emitted_down, made, name, aborted, chanVars, history>>

\* The guest traps: the runner flags its manifest name, then awaits room for Down.
RunnerTraps(i) ==
    /\ HasEvent(i)
    /\ ConsumeCommand(i)
    /\ emitted_down' = emitted_down \cup {ManifestName[name[i]]}
    /\ SetPhase(i, "downing")
    /\ UNCHANGED <<supVars, made, name, aborted, chanVars, history>>

\* A failed write into guest memory leaves run through `?', without a Down.
RunnerFails(i) ==
    /\ HasEvent(i)
    /\ Finish(i)
    /\ UNCHANGED <<supVars, emitted_down, made, name, aborted, chanVars, history>>

\* Mutant: the loop goes on after the Down was sent.
RunnerSendsDownAndGoesOn(i) ==
    /\ phase[i] = "downing"
    /\ UpdatesHaveRoom
    /\ updates' = Append(updates, [inst |-> i, kind |-> "Down"])
    /\ downs' = [downs EXCEPT ![i] = @ + 1]
    /\ SetPhase(i, "running")
    /\ UNCHANGED <<supVars, emitted_down, made, name, aborted, cmds, late, left, heard>>

RunnerSendsDown(i) ==
    /\ phase[i] = "downing"
    /\ UpdatesHaveRoom
    /\ updates' = Append(updates, [inst |-> i, kind |-> "Down"])
    /\ downs' = [downs EXCEPT ![i] = @ + 1]
    /\ Finish(i)
    /\ UNCHANGED <<supVars, emitted_down, made, name, aborted, late, left, heard>>

\* Shutdown, or None once no sender is left: the loop ends without a Down.
RunnerExits(i) ==
    /\ phase[i] = "running"
    /\ \/ cmds[i] # <<>> /\ Head(cmds[i]) = "Shutdown"
       \/ cmds[i] = <<>> /\ \A n \in Names : command_routes[n] # i
    /\ Finish(i)
    /\ UNCHANGED <<supVars, emitted_down, made, name, aborted, chanVars, history>>

\* An aborted task is cancelled at an await: before its first poll, sending
\* Ready, selecting, or sending Down.
RunnerCancelled(i) ==
    /\ aborted[i]
    /\ phase[i] \in {"starting", "running", "downing"}
    /\ Finish(i)
    /\ UNCHANGED <<supVars, emitted_down, made, name, aborted, chanVars, history>>

-----------------------------------------------------------------------------
(* The host and the channel *)

\* The host sends an event through command_sender.
HostSends(n) ==
    LET r == command_routes[n]
    IN  /\ r # NoInst
        /\ phase[r] # "finished"
        /\ Len(cmds[r]) < CmdCap
        /\ cmds' = [cmds EXCEPT ![r] = Append(@, "Event")]
        /\ UNCHANGED <<supVars, emitted_down, made, name, phase, aborted, chanVars, history>>

\* A task spawned by emit_down gets its message through.
LateDownSent(i) ==
    /\ i \in late
    /\ UpdatesHaveRoom
    /\ updates' = Append(updates, [inst |-> i, kind |-> "LateDown"])
    /\ late' = late \ {i}
    /\ UNCHANGED <<supVars, emitted_down, runnerVars, history>>

\* The consumer receives the oldest update.
Receive ==
    /\ updates # <<>>
    /\ updates' = Tail(updates)
    /\ LET m == Head(updates)
       IN  heard' = [heard EXCEPT ![m.inst] =
               IF m.kind \in Downs THEN "Down" ELSE IF m.kind = "Ready" THEN "Ready" ELSE @]
    /\ UNCHANGED <<supVars, emitted_down, runnerVars, late, left, downs>>

SupervisorStep ==
    \/ \E n \in Names : StopModule(n) \/ SpawnModule(n)
    \/ StopJoined \/ StopTimeout
    \/ SpawnInstance \/ SpawnNothing
    \/ KillAll
    \/ ReapScan \/ ReapReport

RunnerStep(i) ==
    \/ RunnerReady(i) \/ RunnerInitCode(i) \/ RunnerInitFails(i)
    \/ RunnerHandles(i) \/ RunnerTraps(i) \/ RunnerFails(i)
    \/ RunnerSendsDown(i) \/ RunnerExits(i) \/ RunnerCancelled(i)

Next ==
    \/ SupervisorStep
    \/ \E i \in Inst : RunnerStep(i) \/ LateDownSent(i)
    \/ \E n \in Names : HostSends(n)
    \/ Receive

Spec == Init /\ [][Next]_vars

\* Tokio polls every ready task; a guest call is bounded by its fuel and epoch
\* budget, so a runner that can move does.  The senders blocked on a full tokio
\* channel are served in order, so room that keeps coming up reaches each of
\* them.  Nothing forces a guest to trap, a host to send or to stop a module.
RunnerFairness ==
    \A i \in Inst :
        /\ WF_vars(RunnerReady(i) \/ RunnerInitCode(i) \/ RunnerInitFails(i))
        /\ WF_vars(RunnerExits(i))
        /\ WF_vars(RunnerCancelled(i))
        /\ SF_vars(RunnerSendsDown(i))
        /\ SF_vars(LateDownSent(i))

\* An awaited supervisor call is polled to its end.
CallFairness ==
    /\ WF_vars(StopJoined)
    /\ WF_vars(StopTimeout)
    /\ WF_vars(SpawnInstance \/ SpawnNothing)
    /\ WF_vars(ReapReport)

\* run_supervision ticks every 5 s; between ticks the host may use the
\* supervisor for other calls, so the scan is only infinitely often possible.
SupervisionFairness == SF_vars(ReapScan)

LiveSpec == Spec /\ RunnerFairness /\ CallFairness /\ SupervisionFairness

\* The host keeps draining its end of the update channel.  LiveSpec does not
\* assume it: a property that needs it says so.
ConsumerDrains == WF_vars(Receive)

-----------------------------------------------------------------------------
(* Properties *)

\* Instances a supervisor call still answers for.
Managed == wasm_tasks \cup terminated \cup ({joining} \ {NoInst})

\* kill_all gave the instance up without waiting for its task.
Orphan(i) == left[i] = "killed"

\* A name has at most one task, the route of a name leads to that task, and a
\* task that could still be stopped by name has a route: whatever the order of
\* spawns, stops, kills and reaps, no task is lost or reached under another name.
TasksAndRoutesAgree ==
    /\ \A i, j \in Managed : name[i] = name[j] => i = j
    /\ \A i \in wasm_tasks : command_routes[name[i]] = i
    /\ \A n \in Names : command_routes[n] # NoInst =>
           /\ name[command_routes[n]] = n
           /\ command_routes[n] \in wasm_tasks \cup {joining}

\* The runner that traps and the supervisor that reaps it both may report the
\* death; between them they report it at most once (the purpose of emitted_down).
AtMostOneDown == \A i \in Inst : downs[i] <= 1

\* Every instance that was reaped, and not stopped on request, has had its Down
\* produced, by the runner or by the reaper.  The flag an orphan of the same name
\* left behind is the one exception: kill_all does not clear emitted_down, so
\* the reaper takes the stale flag for the word of the new instance.
NoLostDown ==
    \A i \in Inst :
        left[i] = "reaped" /\ i \notin terminated =>
            downs[i] = 1 \/ \E k \in Inst : Orphan(k) /\ name[k] = name[i]

\* The previous instance has ended before its replacement is started (README of
\* wyrd-wasm, "stops the previous instance before starting the replacement");
\* only kill_all leaves instances behind that may still be running.
OldStopsFirst ==
    \A i, j \in Inst :
        i < j /\ name[i] = name[j] /\ phase[i] # "finished" /\ phase[j] # "unborn" => Orphan(i)

\* What the host hears of the instances (ModuleNews), read off the channel.
Of(i, kinds) == {p \in DOMAIN updates : updates[p].inst = i /\ updates[p].kind \in kinds}

News == INSTANCE ModuleNews WITH
    alive      <- {i \in Inst : phase[i] \notin {"unborn", "finished"}},
    abandoned  <- {i \in Inst : Orphan(i)},
    news       <- [i \in Inst |-> Cardinality(Of(i, {"Ready", "Update"}))],
    down       <- [i \in Inst |->
                      IF heard[i] = "Down" THEN "heard"
                      ELSE IF i \in late \/ Of(i, {"LateDown"}) # {} THEN "straggling"
                      ELSE IF Of(i, {"Down"}) # {} THEN "said" ELSE "unsaid"],
    introduced <- {i \in Inst : heard[i] # "nothing"}

\* The supervisor, its runners and the tasks of emit_down implement ModuleNews:
\* whatever way they interleave, Down is the last word about an instance, and one
\* that was put straight into the channel is heard before anything of the
\* instance that replaces the dead one.
NewsInOrder == News!Spec

\* A dead instance in the task vector is reported to a host that drains its
\* channel, unless the host stops it first or an orphan's flag hides it.
DeadAreReported ==
    ConsumerDrains =>
        \A i \in Inst :
            i \in wasm_tasks /\ phase[i] = "finished" ~>
                \/ heard[i] = "Down"
                \/ left[i] \in {"stopped", "killed"}
                \/ \E k \in Inst : Orphan(k) /\ name[k] = name[i]

\* stop_module returns even when nobody drains the update channel and the
\* runner is blocked on sending Ready or Down.
StopReturns == pc = "joining" ~> pc # "joining"
=============================================================================
