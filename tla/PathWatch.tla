------------------------------ MODULE PathWatch ------------------------------
(***************************************************************************)
(* host_watch_path (wyrd-wasm, modules/wasm/host_api.rs): a module is told *)
(* when a path appears.  The host watches the deepest directory on the way *)
(* to it that exists, without what is below, and moves the watch down as   *)
(* directories appear: a thread of its own looks how far the path reaches  *)
(* and then sets the new watch, while the file system goes on changing.    *)
(***************************************************************************)
EXTENDS Naturals, Sequences, FiniteSets

CONSTANTS
    Depth,       \* the target is this many levels below the directory that stays
    Alike,       \* levels of directories that carry the target's name
    Threads,     \* escalation threads
    Slots,       \* capacity of the channel to the guest
    MaxCreates,  \* bound on the directories and files made
    MaxEvents    \* events inotify holds

Dirs == 0 .. Depth - 1
Nowhere == Depth + 1

VARIABLES
    reach,        \* how many levels of the path exist
    creates,      \* directories and files made so far
    stage,        \* of the watch: not asked for, measured, active, cancelled
    watches,      \* directories with an inotify watch
    watched_dir,  \* the directory the callback takes for the watched one
    fs_events,    \* levels whose creation inotify has still to report
    worker,       \* thread -> what it does, the directory left and the one aimed at
    news,         \* watch events in the channel
    owed,         \* history: the target appeared and the guest was not told since
    raced,        \* history: the path changed between a measurement and the watch set by it
    orphaned,     \* history: a watched directory was removed
    dropped       \* history: the channel was full

fs == <<reach, creates>>
history == <<owed, raced, orphaned>>
pathVars == <<fs, stage, watches, watched_dir, fs_events, worker, news, history, dropped>>

Idle == [does |-> "idle", from |-> Nowhere, to |-> Nowhere]

Init ==
    /\ reach \in 0 .. Depth
    /\ creates = 0
    /\ stage = "none"
    /\ watches = {}
    /\ watched_dir = Nowhere
    /\ fs_events = <<>>
    /\ worker = [t \in Threads |-> Idle]
    /\ news = 0
    /\ owed = FALSE /\ raced = FALSE /\ orphaned = FALSE /\ dropped = FALSE

TypeOK ==
    /\ reach \in 0 .. Depth
    /\ creates \in 0 .. MaxCreates
    /\ stage \in {"none", "measured", "active", "cancelled"}
    /\ watches \subseteq Dirs
    /\ watched_dir \in Dirs \cup {Nowhere}
    /\ Len(fs_events) <= MaxEvents
    /\ worker \in [Threads -> [does : {"idle", "measure", "watch", "look"},
                               from : Dirs \cup {Nowhere}, to : Dirs \cup {Nowhere}]]
    /\ news \in 0 .. Slots
    /\ owed => stage = "active" /\ reach = Depth

\* The deepest directory on the way to the target that exists.
Deepest == IF reach < Depth THEN reach ELSE Depth - 1

\* try_send: a full channel loses the event.
Tell == /\ news' = IF news < Slots THEN news + 1 ELSE news
        /\ dropped' = (dropped \/ news = Slots)

-----------------------------------------------------------------------------
(* The calls of the guest *)

\* host_watch_path looks how far the path reaches ...
WatchPath ==
    /\ stage = "none"
    /\ stage' = "measured"
    /\ watched_dir' = Deepest
    /\ UNCHANGED <<fs, watches, fs_events, worker, news, history, dropped>>

\* ... and sets the watch, which fails when the directory is gone.
StartWatch ==
    /\ stage = "measured"
    /\ IF watched_dir <= reach
       THEN /\ watches' = {watched_dir} /\ stage' = "active"
            /\ raced' = (watched_dir # Deepest)
            /\ UNCHANGED watched_dir
       ELSE stage' = "none" /\ watched_dir' = Nowhere /\ UNCHANGED <<watches, raced>>
    /\ UNCHANGED <<fs, fs_events, worker, news, owed, orphaned, dropped>>

\* host_unwatch_path, and cleanup_watches when the module ends: the flag is set and
\* the watcher dropped.  Threads that run find the flag.
UnwatchPath ==
    /\ stage = "active"
    /\ stage' = "cancelled"
    /\ watches' = {}
    /\ fs_events' = <<>>
    /\ owed' = FALSE
    /\ UNCHANGED <<fs, watched_dir, worker, news, raced, orphaned, dropped>>

\* The event loop hands the guest the event.
TakeNews ==
    /\ news > 0
    /\ news' = news - 1
    /\ owed' = FALSE
    /\ UNCHANGED <<fs, stage, watches, watched_dir, fs_events, worker, raced, orphaned, dropped>>

-----------------------------------------------------------------------------
(* The callback of the watcher *)

\* The target, or whatever carries its name in a directory on the way.
MatchesTarget(level) == level = Depth \/ level \in Alike

\* A thread is spawned for the move to a deeper directory.
Escalate(moves) ==
    IF ~moves THEN UNCHANGED worker
    ELSE \E t \in Threads :
        /\ worker[t] = Idle
        /\ worker' = [worker EXCEPT ![t] =
              [does |-> "measure", from |-> watched_dir, to |-> Deepest]]

HandleEvent ==
    /\ stage = "active"
    /\ fs_events # <<>>
    /\ fs_events' = Tail(fs_events)
    /\ LET level == Head(fs_events)
       IN  IF level < watched_dir
           THEN UNCHANGED <<worker, news, dropped>>
           ELSE IF MatchesTarget(level)
           THEN Tell /\ UNCHANGED worker
           ELSE /\ Escalate(Deepest # watched_dir)
                /\ IF reach = Depth THEN Tell ELSE UNCHANGED <<news, dropped>>
    /\ UNCHANGED <<fs, stage, watches, watched_dir, history>>

\* The thread measures again; a path that has disappeared leaves what the callback saw.
Measure(t) ==
    /\ worker[t].does = "measure"
    /\ worker' = [worker EXCEPT ![t] =
          IF stage = "cancelled" THEN Idle ELSE [@ EXCEPT !.does = "watch", !.to = Deepest]]
    /\ UNCHANGED <<fs, stage, watches, watched_dir, fs_events, news, history, dropped>>

\* The new watch, and only then the old one is taken away.
Moved(from, to) == IF to # from /\ to <= reach THEN (watches \ {from}) \cup {to} ELSE watches

MoveWatch(t) ==
    /\ worker[t].does = "watch"
    /\ LET w == worker[t]
       IN  IF stage = "cancelled"
           THEN /\ worker' = [worker EXCEPT ![t] = Idle]
                /\ UNCHANGED <<watches, watched_dir, raced>>
           ELSE /\ watches' = Moved(w.from, w.to)
                /\ watched_dir' = IF w.to # w.from /\ w.to <= reach THEN w.to ELSE watched_dir
                /\ raced' = (raced \/ w.to # Deepest)
                /\ worker' = [worker EXCEPT ![t].does = "look"]
    /\ UNCHANGED <<fs, stage, fs_events, news, owed, orphaned, dropped>>

\* The target may have appeared before the new watch was set.
Look(t) ==
    /\ worker[t].does = "look"
    /\ worker' = [worker EXCEPT ![t] = Idle]
    /\ IF stage # "cancelled" /\ reach = Depth THEN Tell ELSE UNCHANGED <<news, dropped>>
    /\ UNCHANGED <<fs, stage, watches, watched_dir, fs_events, history>>

-----------------------------------------------------------------------------
(* The file system, and inotify, which reports what is made in a watched     *)
(* directory and forgets a watch whose directory is removed                  *)

Create ==
    /\ reach < Depth
    /\ creates < MaxCreates
    /\ creates' = creates + 1
    /\ reach' = reach + 1
    /\ IF reach \in watches
       THEN Len(fs_events) < MaxEvents /\ fs_events' = Append(fs_events, reach')
       ELSE UNCHANGED fs_events
    /\ owed' = (stage = "active" /\ reach' = Depth)
    /\ UNCHANGED <<stage, watches, watched_dir, worker, news, raced, orphaned, dropped>>

Remove(to) ==
    /\ to < reach
    /\ reach' = to
    /\ watches' = {d \in watches : d <= to}
    /\ orphaned' = (orphaned \/ watches' # watches)
    /\ owed' = FALSE
    /\ UNCHANGED <<creates, stage, watched_dir, fs_events, worker, news, raced, dropped>>

Next ==
    \/ WatchPath \/ StartWatch \/ UnwatchPath \/ TakeNews
    \/ HandleEvent
    \/ \E t \in Threads : Measure(t) \/ MoveWatch(t) \/ Look(t)
    \/ Create
    \/ \E to \in 0 .. Depth : Remove(to)

Spec == Init /\ [][Next]_pathVars

-----------------------------------------------------------------------------
(* Properties *)

Quiet == fs_events = <<>> /\ news = 0 /\ \A t \in Threads : worker[t] = Idle

\* Once all is quiet, the guest has been told of a target that appeared while it
\* watched: whatever directories came at once, whichever thread moved the watch.  It
\* is not told if the path changed between the measurement and the watch set by it,
\* if the watched directory was removed, or if the channel was full.
AppearanceIsTold ==
    Quiet /\ owed /\ Alike = {} => raced \/ orphaned \/ dropped

\* Nothing happens under the flag of a cancelled watch.
CancelledIsQuiet == stage = "cancelled" => watches = {} /\ fs_events = <<>>
=============================================================================
