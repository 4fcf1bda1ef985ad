----------------------------- MODULE ModuleHost -----------------------------
(***************************************************************************)
(* What the host does for one running guest module (wyrd-wasm,             *)
(* wasm/host_api.rs and the event loop of wasm/mod.rs): timers, socket     *)
(* subscriptions and widget updates.  The guest runs inside the runner     *)
(* task; each timer is a task of its own, each subscription a reader       *)
(* thread; they meet in bounded channels, in the registries ACTIVE_TIMERS  *)
(* and ACTIVE_SUBSCRIPTIONS of the process, and in the sets of the         *)
(* module's host state.                                                    *)
(***************************************************************************)
EXTENDS Naturals, SequencesExt

CONSTANTS
    Timers,       \* timer ids, numbers
    Sockets,      \* subscription handles, numbers
    Payloads,     \* lines a peer sends
    TooLarge,     \* a line beyond MAX_SOCKET_PAYLOAD_BYTES
    Widgets,      \* widget ids
    Values,       \* payloads of widget updates
    None,         \* no value
    TimerSlots, SocketSlots, UpdateSlots,  \* capacities of the channels
    MaxBatch,     \* socket events the loop takes at a time
    MaxCalls,     \* bound on the timers, subscriptions and updates together
    MaxLines      \* bound on the lines of all peers together

VARIABLES
    alive,            \* the runner: "running", "exiting" (out of its loop) or "gone"
    calls,            \* timers, subscriptions and updates so far
    timer,            \* timer -> where its task stands
    cancelledTimers,  \* timers whose is_cancelled flag is set
    ACTIVE_TIMERS,
    active_timers,
    timer_rx,         \* the channel of due timers
    fired,            \* history: timers handed to the guest
    silenced,         \* history: timers whose cancellation returned 0
    late,             \* history: those cancelled when the task had passed its check
    reader,           \* handle -> where its thread stands
    out,              \* handle -> events the thread has still to send
    shutdown,         \* handles whose is_shutdown flag is set
    closedStreams,    \* handles whose stream is shut down
    ACTIVE_SUBSCRIPTIONS,
    active_sockets,
    socket_rx,        \* the channel of socket events
    batch,            \* the events taken from it and not handled yet
    before,           \* the one of the batch handled last, or None
    inbox,            \* handle -> lines on their way
    hungUp,           \* handles whose peer has closed
    sent,             \* history: handle -> lines the peer sent
    handled,          \* history: handle -> how many of them the loop is through with
    got,              \* history: handle -> lines handed to the guest, [nth, value]
    closed,           \* history: handle -> the close reason the guest was told
    last_updates,     \* widget -> the payload sent last
    updates,          \* the channel to the host
    shown,            \* widget -> the payload the host got last
    accepted,         \* history: widget -> the payload of the last call that returned 0
    refused           \* history: widgets whose last new payload found the channel full

timers == <<timer, cancelledTimers, ACTIVE_TIMERS, active_timers, timer_rx, fired, silenced, late>>
sockets == <<reader, out, shutdown, closedStreams, ACTIVE_SUBSCRIPTIONS, active_sockets,
             socket_rx, batch, before, inbox, hungUp, sent, handled, got, closed>>
loopVars == <<batch, before, handled, got, closed>>
widgets == <<last_updates, updates, shown, accepted, refused>>
vars == <<alive, calls, timers, sockets, widgets>>

Lines == Payloads \cup {TooLarge}
Reasons == {"peer", "error", "shutdown"}
\* The events of readers; nth, which line of its peer one carries, is history.
Data(h, n, line)  == [handle |-> h, kind |-> "data", value |-> line, nth |-> n]
Error(h)          == [handle |-> h, kind |-> "error", value |-> "-1", nth |-> 0]
Closed(h, reason) == [handle |-> h, kind |-> "closed", value |-> reason, nth |-> 0]
Events ==
    [handle : Sockets, kind : {"data"}, value : Payloads, nth : Nat]
    \cup [handle : Sockets, kind : {"error"}, value : {"-1"}, nth : {0}]
    \cup [handle : Sockets, kind : {"closed"}, value : Reasons, nth : {0}]

ASSUME BoundsAreNatural ==
    {TimerSlots, SocketSlots, UpdateSlots, MaxCalls} \subseteq Nat /\ MaxBatch \in Nat \ {0}
ASSUME NoneIsNoReason == None \notin Reasons

TypeOK ==
    /\ alive \in {"running", "exiting", "gone"}
    /\ calls \in 0 .. MaxCalls
    /\ timer \in [Timers -> {"unused", "sleeping", "sending", "sent", "done"}]
    /\ cancelledTimers \subseteq Timers
    /\ ACTIVE_TIMERS \subseteq {t \in Timers : timer[t] \in {"sleeping", "sending", "sent"}}
    /\ active_timers \subseteq Timers
    /\ timer_rx \in Seq(Timers) /\ Len(timer_rx) <= TimerSlots
    /\ fired \subseteq Timers
    /\ silenced \subseteq cancelledTimers
    /\ late \subseteq silenced
    /\ reader \in [Sockets -> {"unused", "reading", "sending", "finished", "done"}]
    /\ out \in [Sockets -> Seq(Events)]
    /\ shutdown \subseteq closedStreams
    /\ closedStreams \subseteq Sockets
    /\ ACTIVE_SUBSCRIPTIONS \subseteq {h \in Sockets : reader[h] \notin {"unused", "done"}}
    /\ active_sockets \subseteq Sockets
    /\ socket_rx \in Seq(Events) /\ Len(socket_rx) <= SocketSlots
    /\ batch \in Seq(Events) /\ before \in Events \cup {None}
    /\ inbox \in [Sockets -> Seq(Lines)]
    /\ hungUp \subseteq Sockets
    /\ sent \in [Sockets -> Seq(Lines)]
    /\ handled \in [Sockets -> Nat]
    /\ got \in [Sockets -> Seq([nth : Nat, value : Payloads])]
    /\ closed \in [Sockets -> Reasons \cup {None}]
    /\ last_updates \in [Widgets -> Values \cup {None}]
    /\ updates \in Seq(Widgets \X Values) /\ Len(updates) <= UpdateSlots
    /\ shown \in [Widgets -> Values \cup {None}]
    /\ accepted \in [Widgets -> Values \cup {None}]
    /\ refused \subseteq Widgets

Init ==
    /\ alive = "running"
    /\ calls = 0
    /\ timer = [t \in Timers |-> "unused"]
    /\ cancelledTimers = {} /\ ACTIVE_TIMERS = {} /\ active_timers = {}
    /\ timer_rx = <<>>
    /\ fired = {} /\ silenced = {} /\ late = {}
    /\ reader = [h \in Sockets |-> "unused"]
    /\ out = [h \in Sockets |-> <<>>]
    /\ shutdown = {} /\ closedStreams = {}
    /\ ACTIVE_SUBSCRIPTIONS = {} /\ active_sockets = {}
    /\ socket_rx = <<>> /\ batch = <<>> /\ before = None
    /\ inbox = [h \in Sockets |-> <<>>]
    /\ hungUp = {}
    /\ sent = [h \in Sockets |-> <<>>]
    /\ handled = [h \in Sockets |-> 0]
    /\ got = [h \in Sockets |-> <<>>]
    /\ closed = [h \in Sockets |-> None]
    /\ last_updates = [w \in Widgets |-> None]
    /\ updates = <<>>
    /\ shown = [w \in Widgets |-> None]
    /\ accepted = [w \in Widgets |-> None]
    /\ refused = {}

\* Host functions are called while the guest runs, inside the runner's loop.
Call ==
    /\ alive = "running"
    /\ calls < MaxCalls
    /\ calls' = calls + 1
    /\ UNCHANGED alive

-----------------------------------------------------------------------------
(* Timers *)

\* Ids and handles are given in order: an unused one is the next if those before are used.
NextUnused(ids, used, i) == i \in ids \ used /\ \A j \in ids : j < i => j \in used

ScheduleTimer(t) ==
    /\ Call
    /\ NextUnused(Timers, {u \in Timers : timer[u] # "unused"}, t)
    /\ timer' = [timer EXCEPT ![t] = "sleeping"]
    /\ ACTIVE_TIMERS' = ACTIVE_TIMERS \cup {t}
    /\ active_timers' = active_timers \cup {t}
    /\ UNCHANGED <<cancelledTimers, timer_rx, fired, silenced, late, sockets, widgets>>

\* The delay is over; a cancelled timer is not sent.
Wake(t) ==
    /\ timer[t] = "sleeping"
    /\ timer' = [timer EXCEPT ![t] = IF t \in cancelledTimers THEN "sent" ELSE "sending"]
    /\ UNCHANGED <<alive, calls, cancelledTimers, ACTIVE_TIMERS, active_timers, timer_rx,
                   fired, silenced, late, sockets, widgets>>

\* The task waits for room in the channel, or finds the receiver gone.
SendTimer(t) ==
    /\ timer[t] = "sending"
    /\ \/ alive = "gone" /\ UNCHANGED timer_rx
       \/ /\ alive # "gone" /\ Len(timer_rx) < TimerSlots
          /\ timer_rx' = Append(timer_rx, t)
    /\ timer' = [timer EXCEPT ![t] = "sent"]
    /\ UNCHANGED <<alive, calls, cancelledTimers, ACTIVE_TIMERS, active_timers,
                   fired, silenced, late, sockets, widgets>>

\* Mutant: the task ends and leaves its entry.
TimerEndsRegistered(t) ==
    /\ timer[t] = "sent"
    /\ timer' = [timer EXCEPT ![t] = "done"]
    /\ UNCHANGED <<alive, calls, cancelledTimers, ACTIVE_TIMERS, active_timers, timer_rx,
                   fired, silenced, late, sockets, widgets>>

TimerEnds(t) ==
    /\ timer[t] = "sent"
    /\ timer' = [timer EXCEPT ![t] = "done"]
    /\ ACTIVE_TIMERS' = ACTIVE_TIMERS \ {t}
    /\ UNCHANGED <<alive, calls, cancelledTimers, active_timers, timer_rx,
                   fired, silenced, late, sockets, widgets>>

\* 0 is returned when the timer is still registered.
CancelTimer(t) ==
    /\ alive = "running" /\ timer[t] # "unused"
    /\ active_timers' = active_timers \ {t}
    /\ ACTIVE_TIMERS' = ACTIVE_TIMERS \ {t}
    /\ IF t \in ACTIVE_TIMERS
       THEN /\ cancelledTimers' = cancelledTimers \cup {t}
            /\ silenced' = silenced \cup {t}
            /\ late' = IF timer[t] = "sleeping" THEN late ELSE late \cup {t}
       ELSE UNCHANGED <<cancelledTimers, silenced, late>>
    /\ UNCHANGED <<alive, calls, timer, timer_rx, fired, sockets, widgets>>

-----------------------------------------------------------------------------
(* Socket subscriptions *)

\* host_unix_socket_subscribe, connected and with its handshake sent.
Subscribe(h) ==
    /\ Call
    /\ NextUnused(Sockets, {k \in Sockets : reader[k] # "unused"}, h)
    /\ reader' = [reader EXCEPT ![h] = "reading"]
    /\ ACTIVE_SUBSCRIPTIONS' = ACTIVE_SUBSCRIPTIONS \cup {h}
    /\ active_sockets' = active_sockets \cup {h}
    /\ UNCHANGED <<out, shutdown, closedStreams, socket_rx, loopVars, inbox, hungUp, sent,
                   timers, widgets>>

LinesSoFar == FoldFunction(LAMBDA lines, n : n + Len(lines), 0, sent)

\* The peer.
PeerSends(h, line) ==
    /\ reader[h] # "unused" /\ h \notin hungUp \cup closedStreams
    /\ LinesSoFar < MaxLines
    /\ sent' = [sent EXCEPT ![h] = Append(@, line)]
    /\ inbox' = [inbox EXCEPT ![h] = Append(@, line)]
    /\ UNCHANGED <<alive, calls, reader, out, shutdown, closedStreams, ACTIVE_SUBSCRIPTIONS,
                   active_sockets, socket_rx, loopVars, hungUp, timers, widgets>>

PeerHangsUp(h) ==
    /\ reader[h] # "unused" /\ h \notin hungUp
    /\ hungUp' = hungUp \cup {h}
    /\ UNCHANGED <<alive, calls, reader, out, shutdown, closedStreams, ACTIVE_SUBSCRIPTIONS,
                   active_sockets, socket_rx, loopVars, inbox, sent, timers, widgets>>

\* run_socket_reader reads a line, or the end of the stream, or fails, and looks at
\* is_shutdown before it makes events of it.
Read(h) ==
    /\ reader[h] = "reading"
    /\ reader' = [reader EXCEPT ![h] = "sending"]
    /\ \/ /\ inbox[h] # <<>>
          /\ inbox' = [inbox EXCEPT ![h] = Tail(@)]
          /\ out' = [out EXCEPT ![h] =
                 IF h \in shutdown THEN <<Closed(h, "shutdown")>>
                 ELSE IF Head(inbox[h]) = TooLarge THEN <<Error(h), Closed(h, "error")>>
                 ELSE <<Data(h, Len(sent[h]) - Len(inbox[h]) + 1, Head(inbox[h]))>>]
       \/ /\ inbox[h] = <<>> /\ h \in hungUp \cup closedStreams
          /\ out' = [out EXCEPT ![h] =
                 <<Closed(h, IF h \in shutdown THEN "shutdown" ELSE "peer")>>]
          /\ UNCHANGED inbox
    /\ UNCHANGED <<alive, calls, shutdown, closedStreams, ACTIVE_SUBSCRIPTIONS, active_sockets,
                   socket_rx, loopVars, hungUp, sent, timers, widgets>>

\* What the thread does once an event is in the channel.
AfterEvent(h) ==
    CASE Head(out[h]).kind = "closed" -> "finished"
      [] Tail(out[h]) # <<>>          -> "sending"
      [] OTHER                        -> "reading"

\* Mutant: the thread reads on after the end it has told of.
SendEventAndReadOn(h) ==
    /\ reader[h] = "sending" /\ alive # "gone" /\ Len(socket_rx) < SocketSlots
    /\ socket_rx' = Append(socket_rx, Head(out[h]))
    /\ out' = [out EXCEPT ![h] = Tail(@)]
    /\ reader' = [reader EXCEPT ![h] = IF Tail(out[h]) # <<>> THEN "sending" ELSE "reading"]
    /\ UNCHANGED <<alive, calls, shutdown, closedStreams, ACTIVE_SUBSCRIPTIONS, active_sockets,
                   loopVars, inbox, hungUp, sent, timers, widgets>>

\* blocking_send waits for room; without a receiver the thread gives up.
SendEvent(h) ==
    /\ reader[h] = "sending"
    /\ \/ /\ alive = "gone"
          /\ out' = [out EXCEPT ![h] = <<>>]
          /\ reader' = [reader EXCEPT ![h] = "finished"]
          /\ UNCHANGED socket_rx
       \/ /\ alive # "gone" /\ Len(socket_rx) < SocketSlots
          /\ socket_rx' = Append(socket_rx, Head(out[h]))
          /\ out' = [out EXCEPT ![h] = Tail(@)]
          /\ reader' = [reader EXCEPT ![h] = AfterEvent(h)]
    /\ UNCHANGED <<alive, calls, shutdown, closedStreams, ACTIVE_SUBSCRIPTIONS, active_sockets,
                   loopVars, inbox, hungUp, sent, timers, widgets>>

ReaderEnds(h) ==
    /\ reader[h] = "finished"
    /\ reader' = [reader EXCEPT ![h] = "done"]
    /\ ACTIVE_SUBSCRIPTIONS' = ACTIVE_SUBSCRIPTIONS \ {h}
    /\ UNCHANGED <<alive, calls, out, shutdown, closedStreams, active_sockets, socket_rx,
                   loopVars, inbox, hungUp, sent, timers, widgets>>

\* close_subscription and shutdown_socket of some handles: the flag is set while the
\* thread is registered.
CloseSubscriptions(hs) ==
    /\ shutdown' = shutdown \cup (hs \cap ACTIVE_SUBSCRIPTIONS)
    /\ closedStreams' = closedStreams \cup hs
    /\ ACTIVE_SUBSCRIPTIONS' = ACTIVE_SUBSCRIPTIONS \ hs
    /\ active_sockets' = active_sockets \ hs

\* host_unix_socket_close.
CloseSocket(h) ==
    /\ alive = "running"
    /\ h \in ACTIVE_SUBSCRIPTIONS \cup active_sockets
    /\ CloseSubscriptions({h})
    /\ UNCHANGED <<alive, calls, reader, out, socket_rx, loopVars, inbox, hungUp, sent,
                   timers, widgets>>

-----------------------------------------------------------------------------
(* Widget updates *)

\* Mutant: whether the channel took the update is not looked at.
OfferIgnoresFull(w, v) ==
    /\ updates' = IF Len(updates) < UpdateSlots THEN Append(updates, <<w, v>>) ELSE updates
    /\ accepted' = [accepted EXCEPT ![w] = v]
    /\ refused' = refused \ {w}

\* The guest's payload is new to the widget: it goes into the channel, if there is room.
Offer(w, v) ==
    IF Len(updates) < UpdateSlots
    THEN /\ updates' = Append(updates, <<w, v>>)
         /\ accepted' = [accepted EXCEPT ![w] = v]
         /\ refused' = refused \ {w}
    ELSE refused' = refused \cup {w} /\ UNCHANGED <<updates, accepted>>

\* host_send_update: the payload sent last is not sent again, 0 is returned; a new one is
\* remembered before the channel is tried.
SendUpdate(w, v) ==
    /\ Call
    /\ \/ /\ last_updates[w] = v
          /\ accepted' = [accepted EXCEPT ![w] = v]
          /\ UNCHANGED <<last_updates, updates, refused>>
       \/ /\ last_updates[w] # v
          /\ last_updates' = [last_updates EXCEPT ![w] = v]
          /\ Offer(w, v)
    /\ UNCHANGED <<shown, timers, sockets>>

\* The host takes an update.
HostReceives ==
    /\ updates # <<>>
    /\ updates' = Tail(updates)
    /\ shown' = [shown EXCEPT ![Head(updates)[1]] = Head(updates)[2]]
    /\ UNCHANGED <<alive, calls, last_updates, accepted, refused, timers, sockets>>

-----------------------------------------------------------------------------
(* The event loop of the runner *)

\* Mutant: data is compared with the data of any socket.
RepeatsOfAnySocket(event) ==
    before # None /\ event.kind = "data" /\ before.kind = "data" /\ event.value = before.value

\* dedup_by: data equal to its predecessor in the batch is dropped.
Repeats(event) ==
    /\ before # None /\ event.kind = "data" /\ before.kind = "data"
    /\ event.handle = before.handle /\ event.value = before.value

\* on_socket_data, on_socket_closed and on_socket_error.
Deliver(event) ==
    /\ got' = IF event.kind = "data"
              THEN [got EXCEPT ![event.handle] = Append(@, [nth |-> event.nth, value |-> event.value])]
              ELSE got
    /\ IF event.kind = "closed"
       THEN /\ closed' = [closed EXCEPT ![event.handle] = event.value]
            /\ active_sockets' = active_sockets \ {event.handle}
       ELSE UNCHANGED <<closed, active_sockets>>

\* Mutant: the timers are cancelled, the registry keeps them.
CleanupTimersFlagsOnly(due) ==
    /\ cancelledTimers' = cancelledTimers \cup ((active_timers \ due) \cap ACTIVE_TIMERS)
    /\ active_timers' = {}
    /\ ACTIVE_TIMERS' = ACTIVE_TIMERS \ due

\* cleanup_timers takes the module's timers out of the registry and cancels them, but for
\* those just unregistered because they are due.
CleanupTimers(due) ==
    /\ cancelledTimers' = cancelledTimers \cup ((active_timers \ due) \cap ACTIVE_TIMERS)
    /\ active_timers' = {}
    /\ ACTIVE_TIMERS' = ACTIVE_TIMERS \ (active_timers \cup due)

\* The events in the channel make a batch.
TakeEvents ==
    /\ alive = "running" /\ batch = <<>> /\ socket_rx # <<>>
    /\ LET n == IF Len(socket_rx) < MaxBatch THEN Len(socket_rx) ELSE MaxBatch
       IN  /\ batch' = SubSeq(socket_rx, 1, n)
           /\ socket_rx' = SubSeq(socket_rx, n + 1, Len(socket_rx))
    /\ UNCHANGED <<before, alive, calls, reader, out, shutdown, closedStreams, ACTIVE_SUBSCRIPTIONS,
                   active_sockets, inbox, hungUp, sent, handled, got, closed, timers, widgets>>

\* The next of the batch.  The guest may trap: the rest is lost and the loop is left.
HandleSocketEvent ==
    /\ batch # <<>>
    /\ LET event == Head(batch)
       IN  /\ handled' = IF event.kind = "data" THEN [handled EXCEPT ![event.handle] = @ + 1]
                         ELSE handled
           /\ IF Repeats(event)
              THEN batch' = Tail(batch) /\ UNCHANGED <<alive, timers, got, closed, active_sockets>>
              ELSE /\ Deliver(event)
                   /\ \/ batch' = Tail(batch) /\ UNCHANGED <<alive, timers>>
                      \/ /\ batch' = <<>>
                         /\ alive' = "exiting" /\ CleanupTimers({})
                         /\ UNCHANGED <<timer, timer_rx, fired, silenced, late>>
           /\ before' = IF batch' = <<>> THEN None ELSE event
    /\ UNCHANGED <<calls, reader, out, shutdown, closedStreams, ACTIVE_SUBSCRIPTIONS, socket_rx,
                   inbox, hungUp, sent, widgets>>

\* on_timer; the guest may trap in it.
HandleTimer ==
    /\ alive = "running" /\ batch = <<>> /\ timer_rx # <<>>
    /\ timer_rx' = Tail(timer_rx)
    /\ LET t == Head(timer_rx)
       IN  /\ fired' = fired \cup {t}
           /\ \/ /\ ACTIVE_TIMERS' = ACTIVE_TIMERS \ {t}
                 /\ active_timers' = active_timers \ {t}
                 /\ UNCHANGED <<alive, cancelledTimers>>
              \/ alive' = "exiting" /\ CleanupTimers({t})
    /\ UNCHANGED <<calls, timer, silenced, late, sockets, widgets>>

\* A shutdown command, or a trap in another handler, ends the loop.
LoopEnds ==
    /\ alive = "running" /\ batch = <<>>
    /\ alive' = "exiting" /\ CleanupTimers({})
    /\ UNCHANGED <<calls, timer, timer_rx, fired, silenced, late, sockets, widgets>>

\* Mutant: the subscriptions are left to themselves.
DropWithoutSockets ==
    /\ alive # "gone" /\ batch = <<>>
    /\ alive' = "gone" /\ CleanupTimers({})
    /\ timer_rx' = <<>> /\ socket_rx' = <<>>
    /\ UNCHANGED <<calls, timer, fired, silenced, late, reader, out, shutdown, closedStreams,
                   ACTIVE_SUBSCRIPTIONS, active_sockets, loopVars, inbox, hungUp, sent, widgets>>

\* The host state and the receivers are dropped, at the end of the runner, once the
\* Down of a trap is sent, or when the task is aborted.
DropState ==
    /\ alive # "gone" /\ batch = <<>>
    /\ alive' = "gone" /\ CleanupTimers({})
    /\ timer_rx' = <<>> /\ socket_rx' = <<>>
    /\ CloseSubscriptions(active_sockets)
    /\ UNCHANGED <<calls, timer, fired, silenced, late, reader, out, loopVars, inbox, hungUp,
                   sent, widgets>>

-----------------------------------------------------------------------------

TimerTask(t) == Wake(t) \/ SendTimer(t) \/ TimerEnds(t)
ReaderThread(h) == Read(h) \/ SendEvent(h) \/ ReaderEnds(h)
Guest ==
    \/ \E t \in Timers : ScheduleTimer(t) \/ CancelTimer(t)
    \/ \E h \in Sockets : Subscribe(h) \/ CloseSocket(h)
    \/ \E w \in Widgets, v \in Values : SendUpdate(w, v)
Peer == \E h \in Sockets : (\E line \in Lines : PeerSends(h, line)) \/ PeerHangsUp(h)

Next ==
    \/ Guest \/ Peer \/ HostReceives
    \/ \E t \in Timers : TimerTask(t)
    \/ \E h \in Sockets : ReaderThread(h)
    \/ TakeEvents \/ HandleSocketEvent \/ HandleTimer \/ LoopEnds \/ DropState

Spec == Init /\ [][Next]_vars

\* Tasks and threads run when they can.  An exiting runner ends when the host takes its
\* Down, which the host is trusted to do; nothing is assumed of guest and peers.
Fairness ==
    /\ \A t \in Timers : WF_vars(TimerTask(t))
    /\ \A h \in Sockets : WF_vars(ReaderThread(h))
    /\ WF_vars(TakeEvents) /\ WF_vars(HandleSocketEvent) /\ WF_vars(HandleTimer)
    /\ WF_vars(alive = "exiting" /\ DropState)

LiveSpec == Spec /\ Fairness

-----------------------------------------------------------------------------
(* Properties *)

\* The lines up to the nth that the guest did not get repeat the one before.
ButForRepetitions(h, nth) ==
    \A n \in 1 .. nth :
        \/ \E i \in DOMAIN got[h] : got[h][i].nth = n
        \/ n > 1 /\ sent[h][n] = sent[h][n - 1]

\* The guest gets the lines of each peer as they were sent, in order and none twice; only
\* immediate repetitions are missing before one that it got, and altogether by the time
\* it is told that the peer has closed.
LinesArriveInOrder ==
    \A h \in Sockets :
        /\ \A i \in DOMAIN got[h] :
               /\ got[h][i].nth \in DOMAIN sent[h] /\ sent[h][got[h][i].nth] = got[h][i].value
               /\ \A j \in 1 .. i - 1 : got[h][j].nth < got[h][i].nth
               /\ ButForRepetitions(h, got[h][i].nth)
        /\ closed[h] = "peer" => ButForRepetitions(h, Len(sent[h]))

\* Nothing of a socket is handed to the guest after its end.
ClosedIsLast ==
    [][\A h \in Sockets : closed[h] # None => UNCHANGED <<got[h], closed[h]>>]_vars

\* A timer whose cancellation returned 0 stays silent, unless its task had passed the
\* look at the flag: then on_timer may follow the cancellation.
CancelledStaySilent == silenced \cap fired \subseteq late

\* Neither what was cancelled nor what belongs to a module that has ended has an effect
\* any more, and the registry of the process holds only timers of a module that lives.
TimersFollowModule ==
    /\ CancelledStaySilent
    /\ ACTIVE_TIMERS \subseteq active_timers
    /\ alive # "running" => ACTIVE_TIMERS = {}

\* Of subscriptions the registry holds those of the module, and readers that are through
\* with their socket.
ReadersFollowModule == \A h \in ACTIVE_SUBSCRIPTIONS \ active_sockets : reader[h] = "finished"

\* What a peer says reaches the guest, and its subscription ends with it or the module.
SocketsAreServed == LinesArriveInOrder /\ ReadersFollowModule

\* The payload of the last call that returned 0 is with the host or the last on its way
\* there, unless a payload of the widget was refused by a full channel: sending that one
\* again returns 0 and sends nothing.
AcceptedIsOnItsWay ==
    \A w \in Widgets \ refused :
        LET mine == {i \in DOMAIN updates : updates[i][1] = w}
        IN  \/ mine = {} /\ accepted[w] = shown[w]
            \/ \E i \in mine : (\A j \in mine : j <= i) /\ accepted[w] = updates[i][2]

\* A timer fires, if it is not cancelled and the module lives.
TimersFire ==
    \A t \in Timers :
        timer[t] = "sleeping" ~> t \in fired \/ t \in cancelledTimers \/ alive # "running"

\* The guest is told of the end of a peer, and of a module that has ended no reader
\* thread remains.
SocketsEnd ==
    \A h \in Sockets :
        /\ h \in hungUp ~> closed[h] # None \/ alive # "running"
        /\ alive # "running" /\ reader[h] # "unused" ~> reader[h] = "done"

\* No timer and no socket is forgotten.
TimersAndSocketsEnd == TimersFire /\ SocketsEnd
=============================================================================
