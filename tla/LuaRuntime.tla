----------------------------- MODULE LuaRuntime -----------------------------
(***************************************************************************)
(* LuaRuntime (wyrd-script, config/lua/mod.rs) with its watcher            *)
(* (config/lua/watch.rs): loading init.lua, reloading it when it is saved, *)
(* rebuilding surfaces on request, and the pause of five seconds after a   *)
(* build that failed.  The host that embeds the runtime loads the          *)
(* configuration, starts the watcher, takes what it sends, and in its loop *)
(* drains the requests and builds the surfaces they name.                  *)
(***************************************************************************)
EXTENDS Naturals, FiniteSets

CONSTANTS
    Surfaces,   \* surfaces the script creates with a build function
    All,        \* the request to rebuild all of them, "*"
    MaxSaves,   \* bound on the changes of the file
    MaxData,    \* bound on the changes of the module data
    None        \* no version

\* What a version of the file does: it runs (and any of its builds may fail), it does not
\* run, the file is missing, or a build function calls back into the configuration that
\* create has locked.
Kinds == {"runs", "broken", "absent", "reentrant"}

Loaders == {"host", "watcher"}

VARIABLES
    disk,              \* the version of the file
    kind,              \* version -> its kind
    notified,          \* an event of the file waits in the channel of the debouncer
    last_mtimes,       \* the version the watcher has seen
    watch,             \* where watch_config stands
    pc,                \* loader -> where its load_config stands
    read,              \* loader -> the version it has read
    inner,             \* the version whose Lua state is installed
    tx,                \* the configuration on its way to the host
    listening,         \* the host keeps its end of that channel
    applied,           \* the version the host has applied last
    pending_rebuilds,
    drained,           \* surfaces the host has still to build
    last_error_time,   \* surfaces whose build failed less than five seconds ago
    data,              \* version of the module data
    shown,             \* surface -> data it was built from last
    unseen,            \* history: the scan took a version for known that was not loaded
    overlap            \* history: two loads since the last save ran side by side

files == <<disk, kind, notified>>
watcher == <<last_mtimes, watch, unseen>>
loading == <<pc, read, inner, overlap>>
host == <<tx, listening, applied>>
builds == <<pending_rebuilds, drained, last_error_time, data, shown>>
vars == <<files, watcher, loading, host, builds>>

Versions == 0 .. MaxSaves

TypeOK ==
    /\ disk \in Versions
    /\ kind \in [Versions -> Kinds]
    /\ notified \in BOOLEAN
    /\ last_mtimes \in Versions \cup {None}
    /\ watch \in {"off", "scanning", "waiting", "loading", "sending", "ended"}
    /\ pc \in [Loaders -> {"idle", "reading", "running", "stuck"}]
    /\ read \in [Loaders -> Versions]
    /\ inner \in Versions \cup {None}
    /\ tx \in Versions \cup {None}
    /\ listening \in BOOLEAN
    /\ applied \in Versions \cup {None}
    /\ pending_rebuilds \subseteq Surfaces \cup {All}
    /\ drained \subseteq Surfaces
    /\ last_error_time \subseteq Surfaces
    /\ data \in 0 .. MaxData
    /\ shown \in [Surfaces -> 0 .. data]
    /\ unseen \in BOOLEAN /\ overlap \in BOOLEAN

Init ==
    /\ disk = 0 /\ notified = FALSE
    /\ kind \in {[v \in Versions |-> IF v = 0 THEN k ELSE "runs"] : k \in Kinds}
    /\ last_mtimes = None /\ watch = "off"
    /\ pc = [l \in Loaders |-> "idle"]
    /\ read = [l \in Loaders |-> 0]
    /\ inner = None
    /\ tx = None /\ listening = TRUE /\ applied = None
    /\ pending_rebuilds = {} /\ drained = {} /\ last_error_time = {}
    /\ data = 0 /\ shown = [s \in Surfaces |-> 0]
    /\ unseen = FALSE /\ overlap = FALSE

-----------------------------------------------------------------------------
(* The file *)

\* What the metadata of the file tell: its modification time, if it is there.
Mtime == IF kind[disk] = "absent" THEN None ELSE disk

\* Somebody saves or removes the file.  The debouncer tells a watcher.
Save(k) ==
    /\ disk < MaxSaves
    /\ disk' = disk + 1
    /\ kind' = [kind EXCEPT ![disk + 1] = k]
    /\ notified' = (watch \notin {"off", "ended"})
    /\ unseen' = (unseen /\ watch = "scanning")
    /\ overlap' = (overlap /\ \E l \in Loaders : pc[l] # "idle")
    /\ UNCHANGED <<last_mtimes, watch, pc, read, inner, host, builds>>

-----------------------------------------------------------------------------
(* load_config *)

StartLoad(l) ==
    /\ pc' = [pc EXCEPT ![l] = "reading"]
    /\ overlap' = (overlap \/ \E o \in Loaders \ {l} : pc[o] # "idle")
    /\ UNCHANGED <<read, inner>>

LoadConfig ==
    /\ pc["host"] = "idle"
    /\ StartLoad("host")
    /\ UNCHANGED <<files, watcher, host, builds>>

\* The file is read, and the runtime is left to other tasks before the script is run.
LoadReads(l) ==
    /\ pc[l] = "reading" /\ kind[disk] # "absent"
    /\ pc' = [pc EXCEPT ![l] = "running"]
    /\ read' = [read EXCEPT ![l] = disk]
    /\ UNCHANGED <<inner, overlap, files, watcher, host, builds>>

LoadEnds(l) == pc' = [pc EXCEPT ![l] = "idle"]

\* A load without a result: the watcher waits for the next event.
LoadFails(l) ==
    /\ \/ /\ pc[l] = "reading" /\ kind[disk] = "absent"
          /\ UNCHANGED last_error_time
       \/ /\ pc[l] = "running" /\ kind[read[l]] = "broken"
          /\ \E failed \in SUBSET Surfaces : last_error_time' = last_error_time \cup failed
    /\ LoadEnds(l)
    /\ watch' = IF l = "watcher" THEN "waiting" ELSE watch
    /\ UNCHANGED <<read, inner, overlap, last_mtimes, unseen, files, host, pending_rebuilds,
                   drained, data, shown>>

\* create holds the lock its build function asks for.
LoadLocksItself(l) ==
    /\ pc[l] = "running" /\ kind[read[l]] = "reentrant"
    /\ pc' = [pc EXCEPT ![l] = "stuck"]
    /\ \E failed \in SUBSET Surfaces : last_error_time' = last_error_time \cup failed
    /\ UNCHANGED <<read, inner, overlap, files, watcher, host, pending_rebuilds, drained, data,
                   shown>>

\* The host takes a configuration, whose surfaces load_config built from no data.
Apply(version) ==
    /\ applied' = version
    /\ shown' = [s \in Surfaces |-> 0]

\* create notes the builds that fail, and the new Lua state replaces the old one.
LoadSucceeds(l) ==
    /\ pc[l] = "running" /\ kind[read[l]] = "runs"
    /\ LoadEnds(l)
    /\ inner' = read[l]
    /\ \E failed \in SUBSET Surfaces : last_error_time' = last_error_time \cup failed
    /\ IF l = "host"
       THEN Apply(read[l]) /\ UNCHANGED watch
       ELSE watch' = "sending" /\ UNCHANGED <<applied, shown>>
    /\ UNCHANGED <<read, overlap, last_mtimes, unseen, files, tx, listening, pending_rebuilds,
                   drained, data>>

-----------------------------------------------------------------------------
(* watch_config *)

WatchConfig ==
    /\ watch = "off" /\ applied # None
    /\ watch' = "scanning"
    /\ UNCHANGED <<last_mtimes, unseen, files, loading, host, builds>>

\* scan_mtimes: whatever the file holds now is taken for loaded.
ScanMtimes ==
    /\ watch = "scanning"
    /\ watch' = "waiting"
    /\ last_mtimes' = Mtime
    /\ unseen' = (applied # disk)
    /\ UNCHANGED <<files, loading, host, builds>>

\* The events of a file are looked at together: they matter if its time has changed.
HandleEvents ==
    /\ watch = "waiting" /\ notified
    /\ notified' = FALSE
    /\ last_mtimes' = Mtime
    /\ IF Mtime # last_mtimes
       THEN watch' = "loading" /\ StartLoad("watcher")
       ELSE UNCHANGED <<watch, pc, read, inner, overlap>>
    /\ UNCHANGED <<unseen, disk, kind, host, builds>>

\* Mutant: what finds no room is dropped (try_send).
SendConfigOrDrop ==
    /\ watch = "sending"
    /\ watch' = "waiting"
    /\ tx' = IF tx = None THEN read["watcher"] ELSE tx
    /\ UNCHANGED <<last_mtimes, unseen, files, loading, listening, applied, builds>>

\* The watcher waits for room, or ends when the host has dropped the receiver.
SendConfig ==
    /\ watch = "sending"
    /\ \/ /\ listening /\ tx = None
          /\ tx' = read["watcher"]
          /\ watch' = "waiting"
       \/ /\ ~listening
          /\ watch' = "ended"
          /\ UNCHANGED tx
    /\ UNCHANGED <<last_mtimes, unseen, files, loading, listening, applied, builds>>

-----------------------------------------------------------------------------
(* The host *)

HostReceives ==
    /\ tx # None
    /\ Apply(tx)
    /\ tx' = None
    /\ UNCHANGED <<listening, files, watcher, loading, pending_rebuilds, drained,
                   last_error_time, data>>

HostHangsUp ==
    /\ listening
    /\ listening' = FALSE
    /\ tx' = None
    /\ UNCHANGED <<applied, files, watcher, loading, builds>>

DataChanges ==
    /\ data < MaxData
    /\ data' = data + 1
    /\ UNCHANGED <<files, watcher, loading, host, pending_rebuilds, drained, last_error_time,
                   shown>>

\* request_rebuild, request_rebuild_all, and update_accent and update_palette, which
\* ask for all surfaces once a script is loaded.
RequestRebuild(name) ==
    /\ pending_rebuilds' = pending_rebuilds \cup {name}
    /\ UNCHANGED <<files, watcher, loading, host, drained, last_error_time, data, shown>>

Named == IF All \in pending_rebuilds THEN Surfaces ELSE pending_rebuilds

DrainPendingRebuilds ==
    /\ pending_rebuilds # {}
    /\ pending_rebuilds' = {}
    /\ drained' = drained \cup Named
    /\ UNCHANGED <<files, watcher, loading, host, last_error_time, data, shown>>

\* build_surface_with_store gives nothing: within five seconds of an error, without a
\* script, or because the build function fails now.
BuildsNothing(s) ==
    /\ s \in drained
    /\ \/ /\ s \in last_error_time \/ inner = None
          /\ UNCHANGED last_error_time
       \/ /\ s \notin last_error_time /\ inner # None
          /\ last_error_time' = last_error_time \cup {s}
    /\ drained' = drained \ {s}
    /\ UNCHANGED <<files, watcher, loading, host, pending_rebuilds, data, shown>>

\* Mutant: the build function is given no store.
BuildSurfaceWithoutStore(s) ==
    /\ s \in drained /\ s \notin last_error_time /\ inner # None
    /\ shown' = [shown EXCEPT ![s] = 0]
    /\ drained' = drained \ {s}
    /\ UNCHANGED <<files, watcher, loading, host, pending_rebuilds, last_error_time, data>>

\* The build function succeeds; it may ask for another rebuild itself.
BuildSurface(s) ==
    /\ s \in drained /\ s \notin last_error_time /\ inner # None
    /\ shown' = [shown EXCEPT ![s] = data]
    /\ drained' = drained \ {s}
    /\ \E more \in {{}, {s}} : pending_rebuilds' = pending_rebuilds \cup more
    /\ UNCHANGED <<files, watcher, loading, host, last_error_time, data>>

BackoffEnds(s) ==
    /\ s \in last_error_time
    /\ last_error_time' = last_error_time \ {s}
    /\ UNCHANGED <<files, watcher, loading, host, pending_rebuilds, drained, data, shown>>

-----------------------------------------------------------------------------
(* The specification *)

LoadStep(l) == LoadReads(l) \/ LoadFails(l) \/ LoadLocksItself(l) \/ LoadSucceeds(l)

Next ==
    \/ \E k \in Kinds : Save(k)
    \/ LoadConfig
    \/ \E l \in Loaders : LoadStep(l)
    \/ WatchConfig \/ ScanMtimes \/ HandleEvents \/ SendConfig
    \/ HostReceives \/ HostHangsUp
    \/ DataChanges
    \/ \E name \in Surfaces \cup {All} : RequestRebuild(name)
    \/ DrainPendingRebuilds
    \/ \E s \in Surfaces : BuildsNothing(s) \/ BuildSurface(s) \/ BackoffEnds(s)

Spec == Init /\ [][Next]_vars

\* Loads and the watcher are tasks of the executor.  The loop of the host is not in this
\* repository: that it goes on taking configurations and requests is an assumption.
Fairness ==
    /\ \A l \in Loaders : WF_vars(LoadStep(l))
    /\ WF_vars(ScanMtimes) /\ WF_vars(HandleEvents) /\ WF_vars(SendConfig)
    /\ WF_vars(HostReceives) /\ WF_vars(DrainPendingRebuilds)
    /\ \A s \in Surfaces : WF_vars(BuildsNothing(s) \/ BuildSurface(s))

LiveSpec == Spec /\ Fairness

-----------------------------------------------------------------------------
(* Properties *)

\* Nothing the watcher could do would apply the file: nobody watches or listens, the
\* script does not load, or a load blocks on the lock it holds.
CannotApply ==
    \/ watch \in {"off", "ended"} \/ ~listening
    \/ kind[disk] # "runs"
    \/ \E l \in Loaders : pc[l] = "stuck"

\* The last save is applied in the end, its script installed: no event of the watched file
\* is lost however it falls between the loads (watch.rs:62-103).  Two cases are not
\* covered by the code: a save between the host's load and the scan (watch.rs:52), and
\* loads side by side, where the one that read first may install its script last.
EditsAreApplied ==
    <>[](CannotApply \/ unseen \/ overlap \/ (applied = disk /\ inner = disk))

\* A rebuild of s is requested while it has data d, and done, unless its build fails, has
\* just failed, or no script is loaded.
Requested(s, d) == data = d /\ pending_rebuilds \cap {s, All} # {}
Served(s, d) == shown[s] >= d \/ s \in last_error_time \/ inner = None

\* A requested rebuild shows the surface with the data it had when the request was made,
\* or newer: no request is lost between the drain, the build and requests made meanwhile
\* (mod.rs:622-636).
RequestsAreServed == \A s \in Surfaces, d \in 0 .. MaxData : Requested(s, d) ~> Served(s, d)
=============================================================================
