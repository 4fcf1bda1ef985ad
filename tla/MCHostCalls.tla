----------------------------- MODULE MCHostCalls -----------------------------
(* What modules ask of the host, for TLC: DBusCalls and the other host functions, *)
(* and the widgets that modules fill.  They share no state, so one run checks     *)
(* each on its own: part says which moves.                                        *)
EXTENDS DBusCalls

CONSTANTS Parts, None

VARIABLES
    part,
    reach, creates, stage, watches, watched_dir, fs_events, worker, news, owed, raced,
    orphaned, dropped,
    exec, child, heir, unread, written, captured, reader, late, grace, code,
    kid, reaping, waiter, request, spoken, response, peer, answer,
    tree, changes, candidates, declared, capabilities, step, path, opened, got, changed,
    watched,
    sent, last,
    widgets, root, change,
    laid, pointed, laid_stage, seen, scene_lost

pathVars == <<reach, creates, stage, watches, watched_dir, fs_events, worker, news, owed,
              raced, orphaned, dropped>>
blockingVars == <<exec, child, heir, unread, written, captured, reader, late, grace, code,
                  kid, reaping, waiter, request, spoken, response, peer, answer>>
fileVars == <<tree, changes, candidates, declared, capabilities, step, path, opened, got,
              changed, watched>>
functionVars == <<sent, last>>
widgetVars == <<widgets, root, change>>
sceneVars == <<laid, pointed, laid_stage, seen, scene_lost>>
allVars == <<part, dbusVars, pathVars, blockingVars, fileVars, functionVars, widgetVars, sceneVars>>

\* JSON of every kind, numbers at the limits of the types.
MCArguments ==
    {Null, Bool(1), String("text"), String("/path"), Array(<<>>), Array(<<Number(4)>>),
     Array(<<Number(-1), Number(2)>>), Array(<<String("text"), String("/path")>>),
     Array(<<Array(<<Number(1)>>), Bool(1)>>), Array(<<Object(<<Bool(0)>>)>>),
     Object(<<>>), Object(<<String("text"), Null>>), Object(<<Object(<<Number(1)>>)>>)}
    \cup {Number(n) : n \in {-9, -8, -1, 0, 3, 4, 7, 8, 15, 16, 31}}
MCTypes == {"b", "s", "o", "as", "ao", "ay", "au", "ai", "a{sv}", "a{ss}", "a{sa{sv}}",
            "aa{sv}", "v"} \cup Numeric

\* Two modules that call methods of one service; two that subscribe to its signals.
Pair == INSTANCE DBusCalls WITH
    Threads <- {"bar", "dock"}, Arguments <- {Number(4), String("/path")},
    Types <- {"s", "u"}, MaxFaults <- 2
Signals == INSTANCE DBusCalls WITH
    Threads <- {}, Subscribers <- {"bar", "dock"}, Arguments <- {}, Types <- {"s"}

Watch == INSTANCE PathWatch WITH
    Depth <- 3, Alike <- {}, Threads <- {1, 2}, Slots <- 2, MaxCreates <- 5, MaxEvents <- 2

Exec == INSTANCE BlockingCalls WITH
    Calls <- {"exec"}, Kids <- {}, MaxOutput <- 3, Kept <- 2, MaxLine <- 2
Request == INSTANCE BlockingCalls WITH
    Calls <- {"request"}, Kids <- {}, MaxOutput <- 0, Kept <- 2, MaxLine <- 2
Detached == INSTANCE BlockingCalls WITH
    Calls <- {}, Kids <- {1, 2}, MaxOutput <- 0, Kept <- 2, MaxLine <- 2

\* A path inside the runtime directory, below a file, outside, through "..", relative,
\* in the other directory, and one that does not exist.
Files == INSTANCE ModuleFiles WITH
    Asked <- {<<"in", "x">>, <<"in", "x", "x">>, <<"etc", "x">>, <<"in", "..", "etc", "x">>,
              <<".", "x">>, <<"tmp", "x">>, <<"in", "q", "r">>},
    Grants <- {{}, {<<"*">>}, {<<"fs:read", <<"in">>>>, <<"fs:watch">>},
               {<<"fs:read", <<"tmp">>>>, <<"fs:watch", <<"tmp">>>>, <<"fs:write">>},
               {<<"fs:read", <<"in", "..", "etc">>>>, <<"fs:watch", <<"etc">>>>,
                <<"fs:watch", <<"in", "x">>>>, <<"fs:write", <<"in">>>>}},
    MaxChanges <- 2, raced <- changed

Numbers == INSTANCE HostFunctions WITH
    Functions <- {"host_request_surface", "host_publish", "host_request_capability",
                  "host_focus_request", "host_read_dir", "host_list_dir", "host_file_exists",
                  "host_image_cached", "host_get_env", "host_resolve_icon",
                  "host_exec_process", "host_exec_command", "host_dbus_call",
                  "host_unix_socket_request"},
    Slots <- 1

-----------------------------------------------------------------------------
(* Trees with a module, a popup and an input; payloads that fit the children *)
(* that are there, that fit them in part and that do not.                    *)

Leaf(id, kind, text) ==
    [id |-> id, kind |-> kind, text |-> text, spans |-> 0, style |-> None, valid |-> TRUE,
     children |-> <<>>]
Box(id, children) == [Leaf(id, "container", "") EXCEPT !.children = children]
Plain(name) == [form |-> "", name |-> name]
Popup(name) == [form |-> "popup:", name |-> name]
Player == Leaf(Plain("player"), "module", "player")

Configurations == {
    [Box(None, <<Player, Leaf(Plain("x"), "text", "a")>>) EXCEPT !.style = "large"],
    Box(None, <<Leaf(Plain("x"), "text", "b"), Leaf(None, "text", "c"), Player>>),
    Box(Plain("popup_root"),
        <<Leaf(None, "text", "c"), Leaf(None, "input", "d"), Box(Popup("player"), <<>>)>>),
    [Player EXCEPT !.style = "large"]}

ChildLists == {
    <<>>,
    <<Box(Plain("list"), <<>>), Leaf(Plain("x"), "input", "e")>>,
    <<Leaf(Plain("y"), "text", "f"), Box(Plain("list"), <<>>)>>,
    <<Box(Plain("list"), <<Box(None, <<Leaf(None, "text", "g")>>)>>)>>,
    <<Box(Plain("menu"), <<Box(Plain("list"), <<>>)>>)>>,
    <<[Leaf(Plain("z"), "container", "h") EXCEPT !.valid = FALSE]>>}

Widget == INSTANCE WidgetTree WITH
    Configs <- Configurations, Payloads <- ChildLists, Modules <- {"player"},
    Targets <- {Plain("player"), Plain("list"), Popup("player")},
    DefaultStyle <- "default", MaxSlots <- 9, MaxTouched <- 1,
    tree <- widgets, last <- change

-----------------------------------------------------------------------------
(* A list that scrolls, a bar that is too narrow for what is in it, a grid of *)
(* sliders and a ring, and layers that overlap, in and out of order.          *)

Widget0 == [kind |-> "container", mode |-> "row", children |-> <<>>, fixed |-> <<None, None>>,
            least |-> <<0, 0>>, most |-> <<999, 999>>, weight |-> 0, natural |-> <<30, 15>>,
            pad |-> 0, gap |-> 0, align |-> "start", justify |-> "start", place |-> <<0, 0>>,
            columns |-> <<>>, shift |-> <<0, 0>>, z |-> 0, scrolls |-> FALSE, clips |-> FALSE,
            offset |-> 0, failed |-> FALSE, measured |-> <<0, 0>>,
            rect |-> [at |-> <<0, 0>>, size |-> <<0, 0>>], look |-> {"background"}, thumb |-> 6,
            value |-> [from |-> 0, to |-> 100, now |-> 95], flow |-> [axis |-> 1, back |-> FALSE]]

Label == [Widget0 EXCEPT !.kind = "text", !.look = {}]
Button == [Widget0 EXCEPT !.kind = "button", !.pad = 8, !.look = {"background", "outline", "shadow"}]
Slider == [Widget0 EXCEPT !.kind = "slider", !.natural = <<160, 20>>]

List == <<[Widget0 EXCEPT !.mode = "column", !.children = <<2, 3, 4>>, !.scrolls = TRUE,
                          !.gap = 2, !.pad = 1, !.align = "stretch"],
          Label, Button, [Widget0 EXCEPT !.fixed = <<None, 30>>]>>
Bar == <<[Widget0 EXCEPT !.children = <<2, 3, 4>>, !.align = "center", !.justify = "between", !.gap = 3],
         Label, [Widget0 EXCEPT !.mode = "stack", !.children = <<5, 6>>, !.clips = TRUE],
         [Widget0 EXCEPT !.kind = "progress", !.natural = <<160, 20>>, !.least = <<10, 0>>],
         [Widget0 EXCEPT !.kind = "image"], [Label EXCEPT !.shift = <<5, 3>>]>>
Mixer == <<[Widget0 EXCEPT !.mode = "grid", !.columns = <<40, 0>>, !.children = <<2, 3, 4>>, !.gap = 1],
           [Slider EXCEPT !.value.to = 150, !.value.now = 149, !.look = {"outline"}],
           [Slider EXCEPT !.flow = [axis |-> 2, back |-> TRUE]],
           [Widget0 EXCEPT !.kind = "ring", !.natural = <<80, 80>>]>>
Layers == <<[Widget0 EXCEPT !.mode = "absolute", !.children = <<2, 3>>],
            [Widget0 EXCEPT !.fixed = <<50, 30>>, !.children = <<4, 5>>, !.shift = <<4, 0>>, !.clips = TRUE],
            [Widget0 EXCEPT !.place = <<20, 10>>, !.fixed = <<50, 30>>, !.kind = "module", !.z = 1],
            [Label EXCEPT !.weight = 2], [Widget0 EXCEPT !.weight = 1, !.fixed = <<None, 60>>]>>

Scene == INSTANCE WidgetScene WITH
    Trees <- {List, Bar, Mixer, Layers, [Layers EXCEPT ![2].z = 2]},
    Sizes <- {<<60, 20>>, <<120, 60>>}, Natural <- {<<30, 15>>, <<90, 40>>}, Offsets <- {0, 20, 500},
    MaxPanics <- 1, tree <- laid, hovered <- pointed, stage <- laid_stage, scene <- seen,
    lost <- scene_lost

\* The tree is what it was given, and what is seen of it is where it is pointed at
\* (see WidgetTree and WidgetScene).
TreeShowsWhatItIsGiven ==
    /\ part = "widgets" => Widget!TypeOK /\ Widget!TreeIsSound /\ Widget!TreeShowsWhatItIsGiven
    /\ part = "scene" => Scene!TypeOK /\ Scene!WhatIsSeenIsSound

-----------------------------------------------------------------------------
\* The modules that do not move start in one state.
AllInit ==
    /\ part \in Parts
    /\ CASE part = "types" -> Init
         [] part = "pair" -> Pair!Init
         [] OTHER -> Signals!Init
    /\ Watch!Init
    /\ part # "watch" => reach = 0
    /\ CASE part = "exec" -> Exec!Init
         [] part = "request" -> Request!Init
         [] OTHER -> Detached!Init
    /\ Files!Init
    /\ part # "files" => tree = Files!Tree(Files!Absent) /\ declared = {}
                             /\ candidates = <<"absent", "absent">>
    /\ Numbers!Init /\ Widget!Init
    /\ IF part = "scene" THEN Scene!Init
       ELSE laid = Widget0 /\ pointed = None /\ laid_stage = "changed" /\ seen = <<>> /\ scene_lost = {}

Bus(p, A) ==
    part = p /\ A /\ UNCHANGED <<part, pathVars, blockingVars, fileVars, functionVars, widgetVars, sceneVars>>
Blocking(p, A) ==
    part = p /\ A /\ UNCHANGED <<part, dbusVars, pathVars, fileVars, functionVars, widgetVars, sceneVars>>

Widgets(p, A) ==
    part = p /\ A /\ UNCHANGED <<part, dbusVars, pathVars, blockingVars, fileVars, functionVars>>

AllNext ==
    \/ Bus("types", Next) \/ Bus("pair", Pair!Next) \/ Bus("signals", Signals!Next)
    \/ part = "watch" /\ Watch!Next
           /\ UNCHANGED <<part, dbusVars, blockingVars, fileVars, functionVars, widgetVars, sceneVars>>
    \/ Blocking("exec", Exec!Next) \/ Blocking("request", Request!Next)
    \/ Blocking("detached", Detached!Next)
    \/ part = "files" /\ Files!Next
           /\ UNCHANGED <<part, dbusVars, pathVars, blockingVars, functionVars, widgetVars, sceneVars>>
    \/ part = "numbers" /\ Numbers!Next
           /\ UNCHANGED <<part, dbusVars, pathVars, blockingVars, fileVars, widgetVars, sceneVars>>
    \/ Widgets("widgets", Widget!Next /\ UNCHANGED sceneVars)
    \/ Widgets("scene", Scene!Next /\ UNCHANGED widgetVars)

\* As in BlockingCalls and DBusCalls.
AllFairness ==
    /\ WF_allVars(Blocking("exec", Exec!HostSteps))
    /\ WF_allVars(Blocking("exec", Exec!ReadOutput))
    /\ WF_allVars(Blocking("request", Request!RequestSteps))
    /\ WF_allVars(Blocking("detached", Detached!DispatchChild))
    /\ \A k \in {1, 2} : WF_allVars(Blocking("detached", Detached!Reap(k)))
    /\ \A m \in {"bar", "dock"} :
           /\ WF_allVars(Bus("signals", Signals!OpenStream(m)))
           /\ WF_allVars(Bus("signals", Signals!PassOn(m)))
           /\ WF_allVars(Bus("signals", Signals!HandleSignal(m)))

AllSpec == AllInit /\ [][AllNext]_allVars /\ AllFairness

-----------------------------------------------------------------------------

\* What a call answers is what happened: D-Bus values survive the conversion, signals
\* come in order, the output of programs is whole, the guest is told of a path that
\* appears (see DBusCalls, BlockingCalls, PathWatch, HostFunctions).
HostCallsAreSound ==
    /\ part = "types" => TypeOK /\ DBusIsSound
    /\ part = "pair" => Pair!TypeOK /\ Pair!DBusIsSound
    /\ part = "signals" => Signals!TypeOK /\ Signals!DBusIsSound
    /\ part = "watch" => Watch!TypeOK /\ Watch!AppearanceIsTold /\ Watch!CancelledIsQuiet
    /\ part = "exec" => Exec!TypeOK /\ Exec!BlockingIsSound
    /\ part = "request" => Request!TypeOK /\ Request!BlockingIsSound
    /\ part = "detached" => Detached!TypeOK
    /\ part = "numbers" => Numbers!TypeOK /\ Numbers!NumbersTellTheTruth

\* A module gets at the files it was granted and no others (see ModuleFiles).
FilesStayGranted == part = "files" => Files!TypeOK /\ Files!FilesAreSound

\* Every call returns, every program is reaped, every signal arrives (see BlockingCalls
\* and DBusCalls).
HostCallsReturn ==
    /\ exec = "waiting" ~> exec = "done"
    /\ request = "connecting" ~> request = "done"
    /\ \A k \in {1, 2} :
           (part = "detached" /\ kid[k] = "zombie") ~> (part = "detached" => kid[k] = "reaped")
    /\ \A m \in {"bar", "dock"} :
           (part = "signals" /\ passing[m] # <<>>) ~> (part = "signals" => passing[m] = <<>>)
=============================================================================
