-------------------------- MODULE ModuleHostProofs --------------------------
(***************************************************************************)
(* Proofs about ModuleHost, each part of the module's state with the       *)
(* inductive invariant it needs: TimersInv (where the task of a timer may  *)
(* stand, and what may be in the channel, once the timer was cancelled),   *)
(* TypesInv, UpdatesInv (what was accepted last was sent last) and         *)
(* SocketsInv (what is on its way from a reader thread to the guest, in    *)
(* which order, and what is lost at its end).                              *)
(***************************************************************************)
EXTENDS ModuleHost, SequenceTheorems, TLAPS

Phases == {"unused", "sleeping", "sending", "sent", "done"}

Typed ==
    /\ timer \in [Timers -> Phases]
    /\ timer_rx \in Seq(Timers)
    /\ ACTIVE_TIMERS \subseteq Timers
    /\ silenced \subseteq Timers

\* t is due: in the channel, or handed to the guest.
Due(t) == t \in fired \/ \E i \in DOMAIN timer_rx : timer_rx[i] = t

\* A timer is due only when its task has sent it, which it never does once the flag is
\* seen set.
Silent ==
    \A t \in Timers :
        /\ timer[t] \in {"unused", "sleeping", "sending"} => ~Due(t)
        /\ t \in silenced \ late =>
               t \in cancelledTimers /\ timer[t] \in {"sleeping", "sent", "done"} /\ ~Due(t)

Registered ==
    /\ ACTIVE_TIMERS \subseteq active_timers
    /\ ACTIVE_TIMERS \subseteq {t \in Timers : timer[t] # "unused"}
    /\ alive # "running" => ACTIVE_TIMERS = {}

TimersInv == Typed /\ Silent /\ Registered

\* What the module's sockets and widgets do leaves its timers alone.
LEMMA TimersUntouched ==
    ASSUME TimersInv, UNCHANGED <<alive, timers>> PROVE TimersInv'
BY DEF TimersInv, Typed, Silent, Due, Registered, timers

\* A module that ends keeps none of its timers in the registry.
LEMMA TimersCleaned ==
    ASSUME TimersInv, NEW due, CleanupTimers(due)
    PROVE  ACTIVE_TIMERS' = {} /\ cancelledTimers \subseteq cancelledTimers'
BY DEF TimersInv, Registered, CleanupTimers

\* Every step keeps the invariant.
LEMMA TimersStep ==
    ASSUME TimersInv, [Next]_vars PROVE TimersInv'
<1> USE DEF TimersInv, Typed, Phases
<1>c. ASSUME Call PROVE alive = "running" /\ alive' = alive
  BY <1>c DEF Call
<1>1. ASSUME NEW t \in Timers, ScheduleTimer(t) PROVE TimersInv'
  <2>1. timer[t] = "unused"
    BY <1>1 DEF ScheduleTimer, NextUnused
  <2>2. Typed'
    BY <1>1 DEF ScheduleTimer
  <2>3. Silent'
    BY <1>1, <2>1 DEF ScheduleTimer, Silent, Due
  <2>4. Registered'
    BY <1>1, <1>c DEF ScheduleTimer, Registered
  <2> QED
    BY <2>2, <2>3, <2>4
<1>2. ASSUME NEW t \in Timers, CancelTimer(t) PROVE TimersInv'
  BY <1>2 DEF CancelTimer, Silent, Due, Registered
<1>3. ASSUME NEW t \in Timers, Wake(t) PROVE TimersInv'
  BY <1>3 DEF Wake, Silent, Due, Registered
<1>4. ASSUME NEW t \in Timers, SendTimer(t) PROVE TimersInv'
  <2>1. /\ timer[t] = "sending" /\ timer' = [timer EXCEPT ![t] = "sent"]
        /\ timer_rx' = timer_rx \/ timer_rx' = Append(timer_rx, t)
        /\ UNCHANGED <<alive, cancelledTimers, ACTIVE_TIMERS, active_timers, fired, silenced, late>>
    BY <1>4 DEF SendTimer
  <2>2. Typed' /\ Registered'
    BY <2>1 DEF Registered
  <2>3. \A u \in Timers : u # t /\ Due(u)' => Due(u)
    BY <2>1 DEF Due
  <2>4. Silent'
    BY <2>1, <2>3 DEF Silent
  <2> QED
    BY <2>2, <2>4
<1>5. ASSUME NEW t \in Timers, TimerEnds(t) PROVE TimersInv'
  BY <1>5 DEF TimerEnds, Silent, Due, Registered
<1>6. CASE HandleTimer
  <2> DEFINE t == Head(timer_rx)
  <2>1. /\ timer_rx # <<>> /\ timer_rx' = Tail(timer_rx) /\ fired' = fired \cup {t}
        /\ UNCHANGED <<timer, silenced, late>>
    BY <1>6 DEF HandleTimer
  <2>2. /\ t \in Timers /\ Due(t) /\ timer_rx' \in Seq(Timers)
        /\ \A i \in DOMAIN timer_rx' : \E j \in DOMAIN timer_rx : timer_rx'[i] = timer_rx[j]
    BY <2>1 DEF Due
  <2>3. \A u \in Timers : Due(u)' => Due(u)
    BY <2>1, <2>2 DEF Due
  <2>4. /\ cancelledTimers \subseteq cancelledTimers' /\ ACTIVE_TIMERS' \subseteq ACTIVE_TIMERS
        /\ Registered'
    <3>1. CASE /\ ACTIVE_TIMERS' = ACTIVE_TIMERS \ {t} /\ active_timers' = active_timers \ {t}
               /\ UNCHANGED <<alive, cancelledTimers>>
      BY <2>1, <3>1 DEF Registered
    <3>2. CASE alive' = "exiting" /\ CleanupTimers({t})
      BY <3>2, TimersCleaned DEF Registered
    <3> QED
      BY <1>6, <3>1, <3>2 DEF HandleTimer
  <2>5. Silent'
    BY <2>1, <2>3, <2>4 DEF Silent
  <2> QED
    BY <2>1, <2>2, <2>4, <2>5
<1>7. ASSUME CleanupTimers({}), timer_rx' = timer_rx \/ timer_rx' = <<>>,
             UNCHANGED <<timer, fired, silenced, late>>
      PROVE  TimersInv'
  <2>1. \A u \in Timers : Due(u)' => Due(u)
    BY <1>7 DEF Due
  <2>2. Silent'
    BY <1>7, <2>1, TimersCleaned DEF Silent
  <2>3. ACTIVE_TIMERS' = {}
    BY <1>7, TimersCleaned
  <2>4. Typed'
    <3>1. timer_rx' \in Seq(Timers)
      <4>1. <<>> \in Seq(Timers)
        OBVIOUS
      <4> QED
        BY <1>7, <4>1
    <3> QED
      BY <1>7, <2>3, <3>1
  <2>5. Registered'
    BY <2>3 DEF Registered
  <2> QED
    BY <2>2, <2>4, <2>5
<1>8. CASE HandleSocketEvent
  <2>1. CASE UNCHANGED <<alive, timers>>
    BY <2>1, TimersUntouched
  <2>2. CASE CleanupTimers({}) /\ UNCHANGED <<timer, timer_rx, fired, silenced, late>>
    BY <2>2, <1>7
  <2> QED
    BY <1>8, <2>1, <2>2 DEF HandleSocketEvent
<1>9. CASE LoopEnds \/ DropState
  BY <1>7, <1>9 DEF LoopEnds, DropState
<1>10. CASE HostReceives \/ Peer \/ TakeEvents \/ UNCHANGED vars
  BY <1>10, TimersUntouched DEF HostReceives, TakeEvents, Peer, PeerSends, PeerHangsUp, vars
<1>11. ASSUME NEW h \in Sockets, ReaderThread(h) \/ CloseSocket(h) \/ Subscribe(h) PROVE TimersInv'
  BY <1>11, <1>c, TimersUntouched DEF ReaderThread, Read, SendEvent, ReaderEnds, CloseSocket, Subscribe
<1>12. ASSUME NEW w \in Widgets, NEW v \in Values, SendUpdate(w, v) PROVE TimersInv'
  BY <1>12, <1>c, TimersUntouched DEF SendUpdate
<1> QED
  BY <1>1, <1>2, <1>3, <1>4, <1>5, <1>6, <1>8, <1>9, <1>10, <1>11, <1>12
     DEF Next, Guest, TimerTask

\* For any number of timers, sockets and widgets and any capacity of the channels, a
\* timer whose cancellation returned 0 is not handed to the guest, unless its task had
\* passed the look at the flag, and a module that has ended has none in the registry.
THEOREM TimersAlwaysFollowModule == Spec => []TimersFollowModule
<1>1. Init => TimersInv
  BY DEF Init, TimersInv, Typed, Phases, Silent, Due, Registered
<1>2. TimersInv /\ [Next]_vars => TimersInv'
  BY TimersStep
<1>3. TimersInv => TimersFollowModule
  BY DEF TimersInv, Typed, Silent, Due, Registered, TimersFollowModule, CancelledStaySilent
<1> QED
  BY <1>1, <1>2, <1>3, PTL DEF Spec

-----------------------------------------------------------------------------
(* Types *)

TimersTyped ==
    /\ timer \in [Timers -> Phases]
    /\ cancelledTimers \subseteq Timers
    /\ ACTIVE_TIMERS \subseteq {t \in Timers : timer[t] \in {"sleeping", "sending", "sent"}}
    /\ active_timers \subseteq Timers
    /\ timer_rx \in Seq(Timers) /\ Len(timer_rx) <= TimerSlots
    /\ fired \subseteq Timers
    /\ silenced \subseteq cancelledTimers
    /\ late \subseteq silenced

Places == {"unused", "reading", "sending", "finished", "done"}
Delivery == [nth : Nat, value : Payloads]

SocketsTyped ==
    /\ reader \in [Sockets -> Places]
    /\ out \in [Sockets -> Seq(Events)]
    /\ \A h \in Sockets :
           /\ reader[h] = "sending" => out[h] # <<>>
           /\ Len(inbox[h]) <= Len(sent[h])
    /\ shutdown \subseteq closedStreams
    /\ closedStreams \subseteq Sockets
    /\ ACTIVE_SUBSCRIPTIONS \subseteq {h \in Sockets : reader[h] \notin {"unused", "done"}}
    /\ active_sockets \subseteq Sockets
    /\ socket_rx \in Seq(Events) /\ Len(socket_rx) <= SocketSlots
    /\ batch \in Seq(Events) /\ before \in Events \cup {None}
    /\ inbox \in [Sockets -> Seq(Lines)]
    /\ hungUp \subseteq Sockets
    /\ sent \in [Sockets -> Seq(Lines)]
    /\ handled \in [Sockets -> Nat]
    /\ got \in [Sockets -> Seq(Delivery)]
    /\ closed \in [Sockets -> Reasons \cup {None}]

WidgetsTyped ==
    /\ last_updates \in [Widgets -> Values \cup {None}]
    /\ updates \in Seq(Widgets \X Values) /\ Len(updates) <= UpdateSlots
    /\ shown \in [Widgets -> Values \cup {None}]
    /\ accepted \in [Widgets -> Values \cup {None}]
    /\ refused \subseteq Widgets

\* A line that is not too large is a payload.
LEMMA EventTypes ==
    ASSUME NEW h \in Sockets, NEW n \in Nat
    PROVE  /\ \A line \in Lines \ {TooLarge} : Data(h, n, line) \in Events
           /\ Error(h) \in Events /\ \A r \in Reasons : Closed(h, r) \in Events
BY DEF Events, Data, Error, Closed, Lines, Reasons

LEMMA TimersTypeStep ==
    ASSUME TimersTyped, [Next]_vars PROVE TimersTyped'
<1> USE DEF TimersTyped, Phases
<1>u. ASSUME UNCHANGED timers PROVE TimersTyped'
  BY <1>u DEF timers
<1>1. ASSUME NEW t \in Timers, ScheduleTimer(t) \/ CancelTimer(t) \/ TimerTask(t)
      PROVE  TimersTyped'
  <2>1. CASE SendTimer(t)
    <3>1. timer_rx' \in Seq(Timers) /\ Len(timer_rx') <= TimerSlots
      BY <2>1, BoundsAreNatural DEF SendTimer
    <3> QED
      BY <2>1, <3>1 DEF SendTimer
  <2> QED
    BY <1>1, <2>1 DEF ScheduleTimer, CancelTimer, TimerTask, Wake, TimerEnds, NextUnused
<1>2. CASE HandleTimer
  <2>1. timer_rx # <<>> /\ timer_rx' = Tail(timer_rx)
    BY <1>2 DEF HandleTimer
  <2>2. Head(timer_rx) \in Timers /\ timer_rx' \in Seq(Timers) /\ Len(timer_rx') <= TimerSlots
    BY <2>1, BoundsAreNatural
  <2> QED
    BY <1>2, <2>2 DEF HandleTimer, CleanupTimers
<1>3. CASE HandleSocketEvent \/ LoopEnds
  BY <1>3 DEF HandleSocketEvent, LoopEnds, CleanupTimers, timers
<1>4. CASE DropState
  <2>1. timer_rx' \in Seq(Timers) /\ Len(timer_rx') <= TimerSlots
    BY <1>4, BoundsAreNatural DEF DropState
  <2> QED
    BY <1>4, <2>1 DEF DropState, CleanupTimers
<1>5. CASE HostReceives \/ Peer \/ TakeEvents \/ UNCHANGED vars
  BY <1>5, <1>u DEF HostReceives, Peer, PeerSends, PeerHangsUp, TakeEvents, vars
<1>6. ASSUME NEW h \in Sockets, ReaderThread(h) \/ CloseSocket(h) \/ Subscribe(h) PROVE TimersTyped'
  BY <1>6, <1>u DEF ReaderThread, Read, SendEvent, ReaderEnds, CloseSocket, Subscribe
<1>7. ASSUME NEW w \in Widgets, NEW v \in Values, SendUpdate(w, v) PROVE TimersTyped'
  BY <1>7, <1>u DEF SendUpdate
<1> QED
  BY <1>1, <1>2, <1>3, <1>4, <1>5, <1>6, <1>7 DEF Next, Guest

LEMMA WidgetsTypeStep ==
    ASSUME WidgetsTyped, [Next]_vars PROVE WidgetsTyped'
<1> USE DEF WidgetsTyped
<1>u. ASSUME UNCHANGED widgets PROVE WidgetsTyped'
  BY <1>u DEF widgets
<1>1. ASSUME NEW w \in Widgets, NEW v \in Values, SendUpdate(w, v) PROVE WidgetsTyped'
  <2>1. updates' \in Seq(Widgets \X Values) /\ Len(updates') <= UpdateSlots
    <3>1. <<w, v>> \in Widgets \X Values
      OBVIOUS
    <3> QED
      BY <1>1, <3>1, BoundsAreNatural DEF SendUpdate, Offer
  <2> QED
    BY <1>1, <2>1 DEF SendUpdate, Offer
<1>2. CASE HostReceives
  <2>1. updates # <<>> /\ updates' = Tail(updates)
    BY <1>2 DEF HostReceives
  <2>2. /\ Head(updates) \in Widgets \X Values
        /\ updates' \in Seq(Widgets \X Values) /\ Len(updates') <= UpdateSlots
    BY <2>1, BoundsAreNatural
  <2> QED
    BY <1>2, <2>2 DEF HostReceives
<1>3. CASE Peer \/ TakeEvents \/ HandleSocketEvent \/ HandleTimer \/ LoopEnds \/ DropState \/ UNCHANGED vars
  BY <1>3, <1>u DEF Peer, PeerSends, PeerHangsUp, TakeEvents, HandleSocketEvent, HandleTimer, LoopEnds,
                    DropState, vars
<1>4. ASSUME NEW t \in Timers, ScheduleTimer(t) \/ CancelTimer(t) \/ TimerTask(t)
      PROVE  WidgetsTyped'
  BY <1>4, <1>u DEF ScheduleTimer, CancelTimer, TimerTask, Wake, SendTimer, TimerEnds
<1>5. ASSUME NEW h \in Sockets, ReaderThread(h) \/ CloseSocket(h) \/ Subscribe(h) PROVE WidgetsTyped'
  BY <1>5, <1>u DEF ReaderThread, Read, SendEvent, ReaderEnds, CloseSocket, Subscribe
<1> QED
  BY <1>1, <1>2, <1>3, <1>4, <1>5 DEF Next, Guest

LEMMA SocketsTypeStep ==
    ASSUME SocketsTyped, [Next]_vars PROVE SocketsTyped'
<1> USE DEF SocketsTyped, Places
<1>u. ASSUME UNCHANGED sockets PROVE SocketsTyped'
  BY <1>u DEF sockets
<1>1. ASSUME NEW h \in Sockets, Subscribe(h) PROVE SocketsTyped'
  BY <1>1 DEF Subscribe, loopVars
<1>2. ASSUME NEW h \in Sockets, CloseSocket(h) PROVE SocketsTyped'
  BY <1>2 DEF CloseSocket, CloseSubscriptions, loopVars
<1>3. ASSUME NEW h \in Sockets, NEW line \in Lines, PeerSends(h, line) PROVE SocketsTyped'
  BY <1>3 DEF PeerSends, loopVars
<1>4. ASSUME NEW h \in Sockets, PeerHangsUp(h) PROVE SocketsTyped'
  BY <1>4 DEF PeerHangsUp, loopVars
<1>5. ASSUME NEW h \in Sockets, Read(h) PROVE SocketsTyped'
  <2> DEFINE told == out'[h]
  <2>1. told \in Seq(Events) /\ told # <<>>
    <3>1. \A r \in Reasons : /\ <<Closed(h, r)>> \in Seq(Events) \ {<<>>}
                           /\ <<Error(h), Closed(h, r)>> \in Seq(Events) \ {<<>>}
      BY EventTypes
    <3>2. CASE inbox[h] = <<>>
      BY <1>5, <3>1, <3>2 DEF Read, Reasons
    <3>3. CASE inbox[h] # <<>>
      <4> DEFINE n == Len(sent[h]) - Len(inbox[h]) + 1
                 line == Head(inbox[h])
      <4>1. line \in Lines
        BY <3>3
      <4>2. \/ told = <<Closed(h, "shutdown")>> \/ told = <<Error(h), Closed(h, "error")>>
            \/ line # TooLarge /\ told = <<Data(h, n, line)>>
        BY <1>5, <3>3 DEF Read
      <4>3. CASE line # TooLarge /\ told = <<Data(h, n, line)>>
        <5>1. Data(h, n, line) \in Events
          <6>1. /\ sent[h] \in Seq(Lines) /\ inbox[h] \in Seq(Lines)
                /\ Len(inbox[h]) <= Len(sent[h])
            OBVIOUS
          <6>2. n \in Nat
            BY <6>1, LenProperties
          <6> QED
            BY <4>1, <4>3, <6>2, EventTypes
        <5> QED
          BY <4>3, <5>1
      <4> QED
        BY <3>1, <4>2, <4>3 DEF Reasons
    <3> QED
      BY <3>2, <3>3
  <2>2. out' = [out EXCEPT ![h] = told]
    BY <1>5 DEF Read
  <2>3. inbox' \in [Sockets -> Seq(Lines)]
    <3>1. CASE inbox[h] = <<>>
      BY <1>5, <3>1 DEF Read
    <3>2. CASE inbox[h] # <<>>
      <4>1. Tail(inbox[h]) \in Seq(Lines)
        BY <3>2
      <4> QED
        BY <1>5, <3>2, <4>1 DEF Read
    <3> QED
      BY <3>1, <3>2
  <2>4. /\ reader[h] = "reading" /\ reader' = [reader EXCEPT ![h] = "sending"]
        /\ UNCHANGED <<shutdown, closedStreams, ACTIVE_SUBSCRIPTIONS, active_sockets,
                       socket_rx, loopVars, hungUp, sent>>
    BY <1>5 DEF Read
  <2> HIDE DEF told
  <2>5. out' \in [Sockets -> Seq(Events)] /\ \A k \in Sockets : reader'[k] = "sending" => out'[k] # <<>>
    BY <2>1, <2>2, <2>4
  <2>6. \A k \in Sockets : Len(inbox'[k]) <= Len(sent'[k])
    <3>1. CASE inbox[h] = <<>>
      BY <1>5, <3>1 DEF Read
    <3>2. CASE inbox[h] # <<>>
      <4>1. Tail(inbox[h]) \in Seq(Lines) /\ Len(Tail(inbox[h])) <= Len(inbox[h])
        BY <3>2
      <4>2. inbox' = [inbox EXCEPT ![h] = Tail(inbox[h])] /\ sent' = sent
        BY <1>5, <3>2 DEF Read
      <4>3. \A k \in Sockets : Len(inbox[k]) \in Nat /\ Len(sent[k]) \in Nat
        BY LenProperties
      <4>4. Len(Tail(inbox[h])) \in Nat
        BY <4>1, LenProperties
      <4> QED
        BY <4>1, <4>2, <4>3, <4>4
    <3> QED
      BY <3>1, <3>2
  <2> QED
    BY <2>3, <2>4, <2>5, <2>6 DEF loopVars
<1>6. ASSUME NEW h \in Sockets, SendEvent(h) PROVE SocketsTyped'
  <2>1. /\ out[h] \in Seq(Events) /\ out[h] # <<>> /\ reader[h] = "sending"
        /\ Head(out[h]) \in Events /\ Tail(out[h]) \in Seq(Events)
    BY <1>6, HeadTailProperties DEF SendEvent
  <2>2. out' \in [Sockets -> Seq(Events)]
    <3>1. <<>> \in Seq(Events)
      OBVIOUS
    <3>2. out' = [out EXCEPT ![h] = <<>>] \/ out' = [out EXCEPT ![h] = Tail(out[h])]
      BY <1>6 DEF SendEvent
    <3> QED
      BY <2>1, <3>1, <3>2 DEF SendEvent
  <2>3. socket_rx' \in Seq(Events) /\ Len(socket_rx') <= SocketSlots
    <3>1. \/ socket_rx' = socket_rx
          \/ Len(socket_rx) < SocketSlots /\ socket_rx' = Append(socket_rx, Head(out[h]))
      BY <1>6 DEF SendEvent
    <3>2. /\ Append(socket_rx, Head(out[h])) \in Seq(Events)
          /\ Len(Append(socket_rx, Head(out[h]))) = Len(socket_rx) + 1
      BY <2>1, AppendProperties
    <3>3. Len(socket_rx) \in Nat /\ SocketSlots \in Nat
      BY LenProperties, BoundsAreNatural
    <3>4. CASE Len(socket_rx) < SocketSlots /\ socket_rx' = Append(socket_rx, Head(out[h]))
      <4>1. Len(socket_rx') <= SocketSlots
        BY <3>2, <3>3, <3>4
      <4> QED
        BY <3>2, <3>4, <4>1
    <3> QED
      BY <3>1, <3>4
  <2>4. /\ reader' \in [Sockets -> Places] /\ reader'[h] \notin {"unused", "done"}
        /\ \A k \in Sockets \ {h} : reader'[k] = reader[k] /\ out'[k] = out[k]
        /\ reader'[h] = "sending" => out'[h] # <<>>
    BY <1>6, <2>1 DEF SendEvent, AfterEvent
  <2> QED
    BY <1>6, <2>2, <2>3, <2>4 DEF SendEvent, loopVars
<1>7. ASSUME NEW h \in Sockets, ReaderEnds(h) PROVE SocketsTyped'
  BY <1>7 DEF ReaderEnds, loopVars
<1>8. CASE TakeEvents
  <2>1. \A n \in 1 .. Len(socket_rx) :
           /\ SubSeq(socket_rx, 1, n) \in Seq(Events)
           /\ SubSeq(socket_rx, n + 1, Len(socket_rx)) \in Seq(Events)
           /\ Len(SubSeq(socket_rx, n + 1, Len(socket_rx))) <= SocketSlots
    BY SubSeqProperties, LenProperties, ElementOfSeq, BoundsAreNatural
  <2>2. PICK n \in 1 .. Len(socket_rx) :
            /\ batch' = SubSeq(socket_rx, 1, n)
            /\ socket_rx' = SubSeq(socket_rx, n + 1, Len(socket_rx))
    <3>1. Len(socket_rx) \in Nat \ {0} /\ MaxBatch \in Nat \ {0}
      BY <1>8, EmptySeq, BoundsAreNatural DEF TakeEvents
    <3>2. (IF Len(socket_rx) < MaxBatch THEN Len(socket_rx) ELSE MaxBatch) \in 1 .. Len(socket_rx)
      BY <3>1
    <3> QED
      BY <1>8, <3>2 DEF TakeEvents
  <2> QED
    BY <1>8, <2>1, <2>2 DEF TakeEvents
<1>9. CASE HandleSocketEvent
  <2> DEFINE event == Head(batch)
  <2>1. batch # <<>> /\ event \in Events /\ Tail(batch) \in Seq(Events)
    BY <1>9 DEF HandleSocketEvent
  <2>2. batch' \in Seq(Events) /\ before' \in Events \cup {None}
    <3>1. <<>> \in Seq(Events)
      OBVIOUS
    <3>2. (batch' = <<>> \/ batch' = Tail(batch)) /\ (before' = None \/ before' = event)
      BY <1>9 DEF HandleSocketEvent
    <3> QED
      BY <2>1, <3>1, <3>2
  <2>3. event.handle \in Sockets /\ handled' \in [Sockets -> Nat]
    BY <1>9, <2>1 DEF HandleSocketEvent, Events
  <2>4. /\ got' \in [Sockets -> Seq(Delivery)] /\ closed' \in [Sockets -> Reasons \cup {None}]
        /\ active_sockets' \subseteq Sockets
    <3>1. CASE Deliver(event)
      <4>1. event.kind = "data" => [nth |-> event.nth, value |-> event.value] \in Delivery
        BY <2>1 DEF Events, Delivery
      <4>2. event.kind = "closed" => event.value \in Reasons
        BY <2>1 DEF Events
      <4>3. got' \in [Sockets -> Seq(Delivery)]
        BY <2>3, <3>1, <4>1 DEF Deliver
      <4> QED
        BY <2>3, <3>1, <4>2, <4>3 DEF Deliver
    <3>2. CASE UNCHANGED <<got, closed, active_sockets>>
      BY <3>2
    <3> QED
      BY <1>9, <3>1, <3>2 DEF HandleSocketEvent
  <2> QED
    BY <1>9, <2>2, <2>3, <2>4 DEF HandleSocketEvent
<1>10. CASE DropState
  <2>1. socket_rx' \in Seq(Events) /\ Len(socket_rx') <= SocketSlots
    BY <1>10, BoundsAreNatural DEF DropState
  <2> QED
    BY <1>10, <2>1 DEF DropState, CloseSubscriptions, loopVars
<1>11. CASE HostReceives \/ HandleTimer \/ LoopEnds \/ UNCHANGED vars
  BY <1>11, <1>u DEF HostReceives, HandleTimer, LoopEnds, vars
<1>12. ASSUME NEW t \in Timers, ScheduleTimer(t) \/ CancelTimer(t) \/ TimerTask(t)
      PROVE  SocketsTyped'
  BY <1>12, <1>u DEF ScheduleTimer, CancelTimer, TimerTask, Wake, SendTimer, TimerEnds
<1>13. ASSUME NEW w \in Widgets, NEW v \in Values, SendUpdate(w, v) PROVE SocketsTyped'
  BY <1>13, <1>u DEF SendUpdate
<1> QED
  BY <1>1, <1>2, <1>3, <1>4, <1>5, <1>6, <1>7, <1>8, <1>9, <1>10, <1>11, <1>12, <1>13
     DEF Next, Guest, Peer, ReaderThread

LEMMA CountsStep ==
    ASSUME alive \in {"running", "exiting", "gone"}, calls \in 0 .. MaxCalls, [Next]_vars
    PROVE  alive' \in {"running", "exiting", "gone"} /\ calls' \in 0 .. MaxCalls
<1>1. ASSUME Call PROVE alive' = alive /\ calls' \in 0 .. MaxCalls
  BY <1>1, BoundsAreNatural DEF Call
<1>2. CASE \E t \in Timers : ScheduleTimer(t) \/ CancelTimer(t) \/ TimerTask(t)
  BY <1>1, <1>2 DEF ScheduleTimer, CancelTimer, TimerTask, Wake, SendTimer, TimerEnds
<1>3. CASE \E h \in Sockets : Subscribe(h) \/ CloseSocket(h) \/ ReaderThread(h)
  BY <1>1, <1>3 DEF Subscribe, CloseSocket, ReaderThread, Read, SendEvent, ReaderEnds
<1>4. CASE \E w \in Widgets, v \in Values : SendUpdate(w, v)
  BY <1>1, <1>4 DEF SendUpdate
<1>5. CASE HostReceives \/ Peer \/ TakeEvents
  BY <1>5 DEF HostReceives, Peer, PeerSends, PeerHangsUp, TakeEvents
<1>6. CASE HandleSocketEvent \/ HandleTimer \/ LoopEnds \/ DropState \/ UNCHANGED vars
  BY <1>6 DEF HandleSocketEvent, HandleTimer, LoopEnds, DropState, vars
<1> QED
  BY <1>2, <1>3, <1>4, <1>5, <1>6 DEF Next, Guest

TypesInv ==
    /\ alive \in {"running", "exiting", "gone"} /\ calls \in 0 .. MaxCalls
    /\ TimersTyped /\ SocketsTyped /\ WidgetsTyped

LEMMA TypesInvariant == Spec => []TypesInv
<1>1. Init => TypesInv
  <2> SUFFICES ASSUME Init PROVE TypesInv
    OBVIOUS
  <2>1. TimersTyped
    BY EmptySeq, BoundsAreNatural DEF Init, TimersTyped, Phases
  <2>2. SocketsTyped
    BY EmptySeq, BoundsAreNatural DEF Init, SocketsTyped, Places
  <2>3. WidgetsTyped
    BY EmptySeq, BoundsAreNatural DEF Init, WidgetsTyped
  <2> QED
    BY <2>1, <2>2, <2>3, BoundsAreNatural DEF Init, TypesInv
<1>2. TypesInv /\ [Next]_vars => TypesInv'
  BY TimersTypeStep, SocketsTypeStep, WidgetsTypeStep, CountsStep DEF TypesInv
<1> QED
  BY <1>1, <1>2, PTL DEF Spec

\* For any constants, every variable has its type: no channel holds more than its
\* capacity, only registered threads and tasks are in the registries, flags are set only
\* of what was registered, and no event is out of order of its kind.
THEOREM TypeCorrect == Spec => []TypeOK
<1>1. TypesInv => TypeOK
  BY DEF TypesInv, TimersTyped, SocketsTyped, WidgetsTyped, TypeOK, Phases, Places, Delivery
<1> QED
  BY <1>1, TypesInvariant, PTL

-----------------------------------------------------------------------------
(* Widget updates *)

Mine(w) == {i \in DOMAIN updates : updates[i][1] = w}

OnItsWay(w) ==
    \/ Mine(w) = {} /\ accepted[w] = shown[w]
    \/ \E i \in Mine(w) : (\A j \in Mine(w) : j <= i) /\ accepted[w] = updates[i][2]

\* What was accepted last was sent last: only then may a call that finds the payload sent
\* already return 0.
UpdatesInv ==
    \A w \in Widgets \ refused : OnItsWay(w) /\ last_updates[w] = accepted[w]

LEMMA UpdatesUntouched ==
    ASSUME UpdatesInv, UNCHANGED widgets PROVE UpdatesInv'
BY DEF UpdatesInv, OnItsWay, Mine, widgets

\* An update sent is the last of its widget in the channel, and of no other.
LEMMA SendUpdateStep ==
    ASSUME UpdatesInv, WidgetsTyped, NEW w \in Widgets, NEW v \in Values, SendUpdate(w, v)
    PROVE  UpdatesInv'
<1> USE DEF WidgetsTyped
<1>1. CASE last_updates[w] = v
  BY <1>1 DEF SendUpdate, UpdatesInv, OnItsWay, Mine
<1>2. CASE last_updates[w] # v /\ ~ Len(updates) < UpdateSlots
  BY <1>2 DEF SendUpdate, Offer, UpdatesInv, OnItsWay, Mine
<1>3. CASE last_updates[w] # v /\ Len(updates) < UpdateSlots
  <2>1. /\ updates' = Append(updates, <<w, v>>)
        /\ accepted' = [accepted EXCEPT ![w] = v] /\ refused' = refused \ {w}
        /\ last_updates' = [last_updates EXCEPT ![w] = v] /\ shown' = shown
    BY <1>3 DEF SendUpdate, Offer
  <2>2. /\ Len(updates) \in Nat /\ DOMAIN updates = 1 .. Len(updates)
        /\ updates' \in Seq(Widgets \X Values) /\ DOMAIN updates' = 1 .. Len(updates) + 1
        /\ \A i \in 1 .. Len(updates) : updates'[i] = updates[i]
        /\ updates'[Len(updates) + 1] = <<w, v>>
    BY <2>1, LenProperties, AppendProperties
  <2>3. OnItsWay(w)'
    <3>1. /\ Len(updates) + 1 \in Mine(w)' /\ \A j \in Mine(w)' : j <= Len(updates) + 1
          /\ accepted'[w] = updates'[Len(updates) + 1][2]
      BY <2>1, <2>2 DEF Mine
    <3> QED
      BY <3>1 DEF OnItsWay
  <2>4. ASSUME NEW u \in Widgets \ refused', u # w PROVE OnItsWay(u)'
    <3>1. Mine(u)' = Mine(u)
      BY <2>2, <2>4 DEF Mine
    <3> QED
      BY <2>1, <2>2, <2>4, <3>1 DEF UpdatesInv, OnItsWay, Mine
  <2> QED
    BY <2>1, <2>3, <2>4 DEF UpdatesInv
<1> QED
  BY <1>1, <1>2, <1>3

\* The update the host takes is the first of its widget in the channel.
LEMMA HostReceivesStep ==
    ASSUME UpdatesInv, WidgetsTyped, HostReceives PROVE UpdatesInv'
<1> USE DEF WidgetsTyped
<1>1. /\ updates # <<>> /\ updates' = Tail(updates)
      /\ shown' = [shown EXCEPT ![updates[1][1]] = updates[1][2]]
      /\ UNCHANGED <<last_updates, accepted, refused>>
  <2>1. Head(updates) = updates[1]
    OBVIOUS
  <2> QED
    BY <2>1 DEF HostReceives
<1>2. /\ Len(updates) \in Nat \ {0} /\ DOMAIN updates = 1 .. Len(updates)
      /\ DOMAIN updates' = 1 .. Len(updates) - 1
      /\ \A i \in 1 .. Len(updates) - 1 : updates'[i] = updates[i + 1]
      /\ updates[1] \in Widgets \X Values
  BY <1>1, EmptySeq, LenProperties, HeadTailProperties, ElementOfSeq
<1>3. ASSUME NEW w \in Widgets \ refused PROVE OnItsWay(w)'
  <2>1. Mine(w)' = {i \in 1 .. Len(updates) - 1 : i + 1 \in Mine(w)}
    BY <1>2 DEF Mine
  <2>2. CASE Mine(w) = {} /\ accepted[w] = shown[w]
    <3>1. updates[1][1] # w
      BY <1>2, <2>2 DEF Mine
    <3>2. Mine(w)' = {} /\ shown'[w] = shown[w]
      BY <1>1, <1>2, <2>1, <2>2, <3>1
    <3> QED
      BY <1>1, <2>2, <3>2 DEF OnItsWay
  <2>3. ASSUME NEW i \in Mine(w), \A j \in Mine(w) : j <= i, accepted[w] = updates[i][2]
        PROVE  OnItsWay(w)'
    <3>1. CASE i = 1
      <4>1. Mine(w)' = {}
        BY <1>2, <2>1, <2>3, <3>1
      <4>2. updates[1][1] = w
        BY <2>3, <3>1 DEF Mine
      <4> QED
        BY <1>1, <2>3, <3>1, <4>1, <4>2 DEF OnItsWay
    <3>2. CASE i # 1
      <4>1. i \in 2 .. Len(updates) /\ (i - 1) + 1 = i
        BY <1>2, <2>3, <3>2 DEF Mine
      <4>2. i - 1 \in Mine(w)' /\ updates'[i - 1] = updates[i]
        BY <1>2, <2>1, <2>3, <4>1
      <4>3. \A j \in Mine(w)' : j <= i - 1
        BY <1>2, <2>1, <2>3, <4>1
      <4> QED
        BY <1>1, <2>3, <4>2, <4>3 DEF OnItsWay
    <3> QED
      BY <3>1, <3>2
  <2> QED
    BY <2>2, <2>3 DEF UpdatesInv, OnItsWay
<1> QED
  BY <1>1, <1>3 DEF UpdatesInv

LEMMA UpdatesStep ==
    ASSUME UpdatesInv, WidgetsTyped, [Next]_vars PROVE UpdatesInv'
<1>1. CASE Peer \/ TakeEvents \/ HandleSocketEvent \/ HandleTimer \/ LoopEnds \/ DropState \/ UNCHANGED vars
  BY <1>1, UpdatesUntouched DEF Peer, PeerSends, PeerHangsUp, TakeEvents, HandleSocketEvent,
        HandleTimer, LoopEnds, DropState, vars
<1>2. ASSUME NEW t \in Timers, ScheduleTimer(t) \/ CancelTimer(t) \/ TimerTask(t)
      PROVE  UpdatesInv'
  BY <1>2, UpdatesUntouched DEF ScheduleTimer, CancelTimer, TimerTask, Wake, SendTimer, TimerEnds
<1>3. ASSUME NEW h \in Sockets, ReaderThread(h) \/ CloseSocket(h) \/ Subscribe(h) PROVE UpdatesInv'
  BY <1>3, UpdatesUntouched DEF ReaderThread, Read, SendEvent, ReaderEnds, CloseSocket, Subscribe
<1> QED
  BY <1>1, <1>2, <1>3, SendUpdateStep, HostReceivesStep DEF Next, Guest

\* For any number of widgets and any capacity of the channel, the payload of the last
\* host_send_update that returned 0 is with the host or the last of its widget in the
\* channel, unless a payload of the widget was refused.
THEOREM AcceptedIsAlwaysOnItsWay == Spec => []AcceptedIsOnItsWay
<1>1. Init => UpdatesInv
  BY EmptySeq DEF Init, UpdatesInv, OnItsWay, Mine
<1>2. TypesInv /\ UpdatesInv /\ [Next]_vars => UpdatesInv'
  BY UpdatesStep DEF TypesInv
<1>3. UpdatesInv => AcceptedIsOnItsWay
  BY DEF UpdatesInv, OnItsWay, Mine, AcceptedIsOnItsWay
<1> QED
  BY <1>1, <1>2, <1>3, TypesInvariant, PTL DEF Spec

-----------------------------------------------------------------------------
(* Sockets *)

\* The lines of its peer that the thread has taken.
Taken(h) == Len(sent[h]) - Len(inbox[h])

\* The events on their way from the threads to the guest.
Transit == batch \o socket_rx

\* An event that tells of the nth line of a peer.
Tells(event, h, n) == event.handle = h /\ event.kind = "data" /\ event.nth = n

OnItsWayToGuest(h, n) ==
    \/ \E i \in DOMAIN Transit : Tells(Transit[i], h, n)
    \/ n = Taken(h) /\ out[h] # <<>> /\ out[h][1].kind = "data"

\* The end of a subscription is told, or on its way, that is not the end of the peer's
\* lines: the line taken last is lost.
CutShort(h) ==
    \/ closed[h] \in {"error", "shutdown"}
    \/ \E i \in DOMAIN Transit : /\ Transit[i].handle = h /\ Transit[i].kind = "closed"
                                 /\ Transit[i].value # "peer"
    \/ out[h] # <<>> /\ out[h][1].kind # "data" /\ out[h][1].value # "peer"

Ended(h) == inbox[h] = <<>> /\ h \in hungUp \cup closedStreams

\* What is still with the peer.
Ahead(h) == \A i \in DOMAIN inbox[h] : inbox[h][i] = sent[h][Taken(h) + i]

\* What a thread has still to send is of the line it has taken last, or of its end.
ToSend(h) ==
    IF reader[h] # "sending" THEN out[h] = <<>>
    ELSE \/ /\ Taken(h) > handled[h] /\ out[h] = <<Data(h, Taken(h), sent[h][Taken(h)])>>
            /\ \A i \in DOMAIN Transit : ~Tells(Transit[i], h, Taken(h))
         \/ out[h] = <<Error(h), Closed(h, "error")>>
         \/ \E r \in Reasons : out[h] = <<Closed(h, r)>> /\ (r = "peer" => Ended(h))

\* What is on its way is true, and of lines the loop is not through with; an end is sent
\* by a thread that has left its loop.
Sound(h) ==
    \A i \in DOMAIN Transit :
        Transit[i].handle = h =>
            /\ closed[h] = None
            /\ Transit[i].kind = "data" =>
                   /\ Transit[i].nth \in handled[h] + 1 .. Taken(h)
                   /\ Transit[i].value = sent[h][Transit[i].nth]
            /\ Transit[i].kind = "closed" =>
                   /\ reader[h] \in {"finished", "done"}
                   /\ Transit[i].value = "peer" => Ended(h)

\* In the order of the lines, with an end last.
Ordered ==
    \A i, j \in DOMAIN Transit :
        i < j /\ Transit[i].handle = Transit[j].handle =>
            /\ Transit[i].kind # "closed"
            /\ Transit[i].kind = "data" /\ Transit[j].kind = "data" => Transit[i].nth < Transit[j].nth

\* No line is missing between those the loop is through with and those not taken yet.
Complete(h) ==
    \A n \in handled[h] + 1 .. Taken(h) : OnItsWayToGuest(h, n) \/ (n = Taken(h) /\ CutShort(h))

\* The guest got what it should of the lines the loop is through with.
Got(h) ==
    /\ handled[h] <= Taken(h)
    /\ ButForRepetitions(h, handled[h])
    /\ \A i \in DOMAIN got[h] :
           /\ got[h][i].nth \in 1 .. handled[h] /\ sent[h][got[h][i].nth] = got[h][i].value
           /\ \A j \in 1 .. i - 1 : got[h][j].nth < got[h][i].nth

Told(h) ==
    /\ closed[h] # None => reader[h] \in {"finished", "done"}
    /\ closed[h] = "peer" => Ended(h) /\ handled[h] = Len(sent[h])

\* The event handled last is the line handled last.
Before ==
    before # None /\ before.kind = "data" =>
        /\ before.nth \in 1 .. handled[before.handle]
        /\ before.nth = handled[before.handle]
        /\ before.value = sent[before.handle][before.nth]

Flow ==
    /\ \A h \in Sockets :
           /\ Ahead(h) /\ ToSend(h) /\ Sound(h) /\ Got(h) /\ Told(h)
           /\ alive = "running" => Complete(h)
    /\ Ordered
    /\ Before

Loop == alive # "running" => batch = <<>>

SocketsInv == Flow /\ Loop /\ ReadersFollowModule

LEMMA TransitTypes ==
    ASSUME SocketsTyped
    PROVE  /\ Transit \in Seq(Events) /\ Len(Transit) = Len(batch) + Len(socket_rx)
           /\ Len(Transit) \in Nat /\ DOMAIN Transit = 1 .. Len(Transit)
           /\ \A i \in DOMAIN Transit : Transit[i] \in Events
BY ConcatProperties, LenProperties, ElementOfSeq DEF SocketsTyped, Transit

\* The thread takes lines in turn.
LEMMA TakenTypes ==
    ASSUME SocketsTyped, NEW h \in Sockets
    PROVE  /\ Taken(h) \in 0 .. Len(sent[h]) /\ Len(sent[h]) \in Nat /\ Len(inbox[h]) \in Nat
           /\ DOMAIN sent[h] = 1 .. Len(sent[h]) /\ DOMAIN inbox[h] = 1 .. Len(inbox[h])
           /\ handled[h] \in Nat
BY LenProperties DEF SocketsTyped, Taken

LEMMA EventKinds ==
    ASSUME NEW e \in Events
    PROVE  /\ e.handle \in Sockets /\ e.kind \in {"data", "error", "closed"}
           /\ e.kind = "data" => e.nth \in Nat /\ e.value \in Payloads
           /\ e.kind = "closed" => e.value \in Reasons
BY DEF Events

\* A step that leaves the events alone, and the threads that have some to send.
LEMMA FlowKept ==
    ASSUME Flow, SocketsTyped,
           UNCHANGED <<out, Transit, before, handled, got, closed>>,
           alive' = "running" => alive = "running",
           \A h \in Sockets :
               /\ Taken(h)' = Taken(h) /\ Ahead(h)'
               /\ \A n \in 1 .. Taken(h) : sent'[h][n] = sent[h][n]
               /\ Ended(h) => Ended(h)' /\ sent'[h] = sent[h]
               /\ \/ reader'[h] = reader[h]
                  \/ reader[h] \notin {"sending", "finished", "done"} /\ reader'[h] # "sending"
                  \/ reader[h] = "finished" /\ reader'[h] = "done"
    PROVE  Flow'
<1>1. ASSUME NEW h \in Sockets
      PROVE  /\ Ahead(h)' /\ ToSend(h)' /\ Sound(h)' /\ Got(h)' /\ Told(h)'
             /\ alive' = "running" => Complete(h)'
  <2>1. /\ ToSend(h) /\ Sound(h) /\ Got(h) /\ Told(h)
        /\ Taken(h)' = Taken(h) /\ \A n \in 1 .. Taken(h) : sent'[h][n] = sent[h][n]
        /\ out' = out /\ Transit' = Transit /\ handled' = handled /\ got' = got /\ closed' = closed
    BY <1>1 DEF Flow
  <2>2. Taken(h) \in Nat /\ handled[h] \in Nat
    BY TakenTypes
  <2>3. ToSend(h)'
    BY <2>1, <2>2 DEF ToSend, Tells
  <2>4. Sound(h)'
    BY <2>1, <2>2 DEF Sound
  <2>5. Got(h)'
    BY <2>1, <2>2 DEF Got, ButForRepetitions
  <2>6. Told(h)'
    BY <2>1 DEF Told
  <2>7. ASSUME alive' = "running" PROVE Complete(h)'
    BY <2>1, <2>7 DEF Flow, Complete, OnItsWayToGuest, CutShort
  <2> QED
    BY <2>3, <2>4, <2>5, <2>6, <2>7
<1>2. Ordered'
  BY DEF Flow, Ordered
<1>3. Before'
  <2>1. ASSUME before # None, before.kind = "data"
        PROVE  before.handle \in Sockets /\ before.nth \in 1 .. Taken(before.handle)
    <3>1. before.handle \in Sockets
      BY <2>1, EventKinds DEF SocketsTyped
    <3> QED
      BY <2>1, <3>1, TakenTypes DEF Flow, Before, Got
  <2> QED
    BY <2>1 DEF Flow, Before
<1> QED
  BY <1>1, <1>2, <1>3 DEF Flow

LEMMA TailFacts ==
    ASSUME NEW S, NEW s \in Seq(S), s # <<>>
    PROVE  /\ Len(s) \in Nat \ {0} /\ Head(s) = s[1] /\ Tail(s) \in Seq(S)
           /\ Len(Tail(s)) = Len(s) - 1 /\ DOMAIN Tail(s) = 1 .. Len(s) - 1
           /\ \A i \in 1 .. Len(s) - 1 : Tail(s)[i] = s[i + 1]
<1>1. Len(s) \in Nat \ {0} /\ Head(s) = s[1] /\ Tail(s) \in Seq(S)
  BY EmptySeq, HeadTailProperties
<1>2. Len(Tail(s)) = Len(s) - 1 /\ \A i \in 1 .. Len(Tail(s)) : Tail(s)[i] = s[i + 1]
  BY HeadTailProperties
<1>3. DOMAIN Tail(s) = 1 .. Len(Tail(s))
  BY <1>1, LenProperties
<1> QED
  BY <1>1, <1>2, <1>3

\* A thread that reads has told of no end, and has nothing to send.
LEMMA ReaderIsBlank ==
    ASSUME Flow, SocketsTyped, NEW h \in Sockets, reader[h] = "reading"
    PROVE  /\ out[h] = <<>> /\ closed[h] = None
           /\ \A i \in DOMAIN Transit : Transit[i].handle = h => Transit[i].kind # "closed"
           /\ ~CutShort(h)
<1>1. out[h] = <<>> /\ closed[h] = None
  BY DEF Flow, ToSend, Told
<1>2. \A i \in DOMAIN Transit : Transit[i].handle = h => Transit[i].kind # "closed"
  BY DEF Flow, Sound
<1> QED
  BY <1>1, <1>2, NoneIsNoReason DEF CutShort, Reasons

LEMMA ReadStep ==
    ASSUME Flow, SocketsTyped, NEW h \in Sockets, Read(h) PROVE Flow'
<1>1. /\ reader[h] = "reading" /\ reader' = [reader EXCEPT ![h] = "sending"]
      /\ UNCHANGED <<alive, Transit, before, sent, handled, got, closed, hungUp, closedStreams>>
  BY DEF Read, loopVars, Transit
<1>2. /\ \A k \in Sockets \ {h} : out'[k] = out[k] /\ inbox'[k] = inbox[k] /\ reader'[k] = reader[k]
      /\ reader'[h] = "sending"
  BY <1>1 DEF Read, SocketsTyped
<1>3. /\ out[h] = <<>> /\ closed[h] = None /\ ~CutShort(h)
      /\ \A i \in DOMAIN Transit : Transit[i].handle = h => Transit[i].kind # "closed"
  BY <1>1, ReaderIsBlank
<1>4. /\ Taken(h) \in 0 .. Len(sent[h]) /\ Len(sent[h]) \in Nat /\ Len(inbox[h]) \in Nat
      /\ DOMAIN inbox[h] = 1 .. Len(inbox[h]) /\ handled[h] \in Nat
  BY TakenTypes
\* A line or the end of the stream.
<1>5. \/ /\ Taken(h)' = Taken(h) + 1 /\ Ahead(h)'
         /\ \/ out'[h] = <<Closed(h, "shutdown")>> \/ out'[h] = <<Error(h), Closed(h, "error")>>
            \/ out'[h] = <<Data(h, Taken(h)', sent[h][Taken(h)'])>>
      \/ /\ Taken(h)' = Taken(h) /\ Ahead(h)'
         /\ \/ out'[h] = <<Closed(h, "shutdown")>>
            \/ out'[h] = <<Closed(h, "peer")>> /\ Ended(h)'
  <2>1. CASE inbox[h] # <<>> /\ inbox' = [inbox EXCEPT ![h] = Tail(inbox[h])]
    <3>1. inbox[h] \in Seq(Lines)
      BY DEF SocketsTyped
    <3>2. inbox'[h] = Tail(inbox[h])
      BY <2>1 DEF SocketsTyped
    <3>3. /\ Len(inbox'[h]) = Len(inbox[h]) - 1 /\ Head(inbox[h]) = inbox[h][1] /\ Len(inbox[h]) >= 1
          /\ \A i \in 1 .. Len(inbox[h]) - 1 : inbox'[h][i] = inbox[h][i + 1]
          /\ DOMAIN inbox'[h] = 1 .. Len(inbox[h]) - 1
      <4>1. /\ Len(inbox[h]) \in Nat \ {0} /\ Head(inbox[h]) = inbox[h][1]
            /\ Len(Tail(inbox[h])) = Len(inbox[h]) - 1
            /\ DOMAIN Tail(inbox[h]) = 1 .. Len(inbox[h]) - 1
            /\ \A i \in 1 .. Len(inbox[h]) - 1 : Tail(inbox[h])[i] = inbox[h][i + 1]
        BY <2>1, <3>1, TailFacts
      <4> QED
        BY <3>2, <4>1
    <3>4. Taken(h)' = Taken(h) + 1 /\ Taken(h)' = Len(sent[h]) - Len(inbox[h]) + 1
      BY <1>1, <1>4, <3>3 DEF Taken
    <3>5. \A i \in 1 .. Len(inbox[h]) : inbox[h][i] = sent[h][Taken(h) + i]
      BY <1>4 DEF Flow, Ahead
    <3>6. Ahead(h)'
      <4> SUFFICES ASSUME NEW i \in 1 .. Len(inbox[h]) - 1 PROVE inbox'[h][i] = sent[h][Taken(h)' + i]
        BY <1>1, <3>3 DEF Ahead
      <4>1. i + 1 \in 1 .. Len(inbox[h]) /\ Taken(h)' + i = Taken(h) + (i + 1)
        BY <1>4, <3>4
      <4> QED
        BY <3>3, <3>5, <4>1
    <3>7. Head(inbox[h]) = sent[h][Taken(h)']
      BY <1>4, <3>3, <3>4, <3>5
    <3>8. out'[h] = IF h \in shutdown THEN <<Closed(h, "shutdown")>>
                    ELSE IF Head(inbox[h]) = TooLarge THEN <<Error(h), Closed(h, "error")>>
                    ELSE <<Data(h, Len(sent[h]) - Len(inbox[h]) + 1, Head(inbox[h]))>>
      BY <2>1 DEF Read, SocketsTyped
    <3> QED
      BY <3>4, <3>6, <3>7, <3>8
  <2>2. CASE inbox[h] = <<>> /\ inbox' = inbox
    <3>1. out'[h] = <<Closed(h, "shutdown")>> \/ out'[h] = <<Closed(h, "peer")>>
      BY <2>2 DEF Read, SocketsTyped
    <3>2. h \in hungUp \cup closedStreams
      BY <2>2 DEF Read
    <3> QED
      BY <1>1, <2>2, <3>1, <3>2 DEF Taken, Ahead, Ended, Flow
  <2> QED
    BY <2>1, <2>2 DEF Read
<1>6. Taken(h)' \in {Taken(h), Taken(h) + 1} /\ Ahead(h)'
  BY <1>5
<1>7. ToSend(h)'
  <2>1. Taken(h)' = Taken(h) + 1 => \A i \in DOMAIN Transit : ~Tells(Transit[i], h, Taken(h)')
    BY <1>4 DEF Flow, Sound, Tells
  <2>2. Taken(h)' = Taken(h) + 1 => Taken(h)' > handled[h] /\ Taken(h)' >= 1
    BY <1>4 DEF Flow, Got
  <2> QED
    BY <1>1, <1>2, <1>5, <2>1, <2>2 DEF ToSend, Reasons, Tells
<1>8. Sound(h)' /\ Got(h)' /\ Told(h)'
  <2>1. Sound(h)'
    BY <1>1, <1>3, <1>4, <1>6 DEF Flow, Sound
  <2>2. Got(h)'
    <3>1. Got(h)
      BY DEF Flow
    <3> QED
      BY <3>1, <1>1, <1>4, <1>6 DEF Got, ButForRepetitions
  <2>3. Told(h)'
    BY <1>1, <1>3, NoneIsNoReason DEF Told, Reasons
  <2> QED
    BY <2>1, <2>2, <2>3
<1>9. ASSUME alive' = "running" PROVE Complete(h)'
  <2>1. \A n \in handled[h] + 1 .. Taken(h) : \E i \in DOMAIN Transit : Tells(Transit[i], h, n)
    BY <1>1, <1>3, <1>9 DEF Flow, Complete, OnItsWayToGuest
  <2>2. ASSUME NEW n \in Nat, n = Taken(h)', n = Taken(h) + 1
        PROVE  OnItsWayToGuest(h, n)' \/ CutShort(h)'
    <3>1. \/ out'[h] = <<Closed(h, "shutdown")>> \/ out'[h] = <<Error(h), Closed(h, "error")>>
          \/ out'[h] = <<Data(h, Taken(h)', sent[h][Taken(h)'])>>
      BY <1>4, <1>5, <2>2
    <3>2. CASE out'[h] = <<Closed(h, "shutdown")>> \/ out'[h] = <<Error(h), Closed(h, "error")>>
      <4>1. out'[h] # <<>> /\ (out'[h][1] = Closed(h, "shutdown") \/ out'[h][1] = Error(h))
        <5>1. CASE out'[h] = <<Closed(h, "shutdown")>>
          BY <5>1
        <5>2. CASE out'[h] = <<Error(h), Closed(h, "error")>>
          BY <5>2
        <5> QED
          BY <3>2, <5>1, <5>2
      <4>2. out'[h][1].kind # "data" /\ out'[h][1].value # "peer"
        BY <4>1 DEF Error, Closed
      <4> QED
        BY <4>1, <4>2 DEF CutShort
    <3>3. CASE out'[h] = <<Data(h, Taken(h)', sent[h][Taken(h)'])>>
      <4>1. out'[h] # <<>> /\ out'[h][1].kind = "data"
        BY <3>3 DEF Data
      <4> QED
        BY <2>2, <4>1 DEF OnItsWayToGuest
    <3> QED
      BY <3>1, <3>2, <3>3
  <2> QED
    BY <1>1, <1>4, <1>6, <2>1, <2>2 DEF Complete, OnItsWayToGuest
<1>10. ASSUME NEW k \in Sockets, k # h
       PROVE  /\ Ahead(k)' /\ ToSend(k)' /\ Sound(k)' /\ Got(k)' /\ Told(k)'
              /\ alive' = "running" => Complete(k)'
  <2>1. inbox'[k] = inbox[k] /\ out'[k] = out[k] /\ reader'[k] = reader[k]
    BY <1>2, <1>10
  <2>2. /\ Ahead(k) /\ ToSend(k) /\ Sound(k) /\ Got(k) /\ Told(k)
        /\ alive = "running" => Complete(k)
    BY DEF Flow
  <2>3. Ahead(k)' /\ ToSend(k)'
    BY <1>1, <2>1, <2>2 DEF Ahead, ToSend, Taken, Ended, Tells
  <2>4. Sound(k)' /\ Got(k)' /\ Told(k)'
    BY <1>1, <2>1, <2>2 DEF Sound, Got, Told, Taken, Ended, ButForRepetitions
  <2>5. alive' = "running" => Complete(k)'
    BY <1>1, <2>1, <2>2 DEF Complete, OnItsWayToGuest, CutShort, Taken
  <2> QED
    BY <2>3, <2>4, <2>5
<1>11. Ordered' /\ Before'
  BY <1>1 DEF Flow, Ordered, Before
<1> QED
  BY <1>6, <1>7, <1>8, <1>9, <1>10, <1>11 DEF Flow

\* The event a thread sends is the last in the channel.
LEMMA SendAppends ==
    ASSUME SocketsTyped, NEW e \in Events, batch' = batch, socket_rx' = Append(socket_rx, e)
    PROVE  /\ DOMAIN Transit' = 1 .. Len(Transit) + 1
           /\ \A i \in DOMAIN Transit : Transit'[i] = Transit[i]
           /\ Transit'[Len(Transit) + 1] = e
<1>1. /\ batch \in Seq(Events) /\ socket_rx \in Seq(Events) /\ <<e>> \in Seq(Events)
      /\ socket_rx' = socket_rx \o <<e>>
  BY AppendIsConcat DEF SocketsTyped
<1>2. Transit' = Transit \o <<e>>
  BY <1>1, ConcatAssociative DEF Transit
<1>3. Transit \in Seq(Events)
  BY TransitTypes
<1>4. Transit' = Append(Transit, e)
  BY <1>2, <1>3, AppendIsConcat
<1>5. Append(Transit, e) \in Seq(Events) /\ Len(Append(Transit, e)) = Len(Transit) + 1
  BY <1>3, AppendProperties
<1>6. DOMAIN Append(Transit, e) = 1 .. Len(Transit) + 1
  BY <1>5, LenProperties
<1> QED
  BY <1>3, <1>4, <1>6, AppendProperties, LenProperties

LEMMA SendEventStep ==
    ASSUME Flow, SocketsTyped, NEW h \in Sockets, SendEvent(h) PROVE Flow'
<1>1. /\ reader[h] = "sending" /\ out[h] # <<>> /\ ToSend(h) /\ Sound(h) /\ Got(h) /\ Told(h)
      /\ UNCHANGED <<batch, before, inbox, sent, handled, got, closed, hungUp, closedStreams>>
      /\ \A k \in Sockets : Taken(k)' = Taken(k)
  BY DEF SendEvent, loopVars, SocketsTyped, Flow, Taken
<1>2. closed[h] = None
  BY <1>1 DEF Told
<1>3. \A k \in Sockets \ {h} : out'[k] = out[k] /\ reader'[k] = reader[k]
  BY DEF SendEvent, SocketsTyped
<1>4. /\ Taken(h) \in 0 .. Len(sent[h]) /\ Len(sent[h]) \in Nat /\ handled[h] \in Nat
  BY TakenTypes
<1>5. CASE alive = "gone" /\ socket_rx' = socket_rx
  <2>1. out'[h] = <<>> /\ reader'[h] = "finished" /\ alive' # "running" /\ Transit' = Transit
    BY <1>1, <1>5 DEF SendEvent, SocketsTyped, Transit
  <2>2. ASSUME NEW k \in Sockets
        PROVE  Ahead(k)' /\ ToSend(k)' /\ Sound(k)' /\ Got(k)' /\ Told(k)'
    <3>1. Ahead(k) /\ ToSend(k) /\ Sound(k) /\ Got(k) /\ Told(k)
      BY DEF Flow
    <3>2. Ahead(k)' /\ Got(k)'
      BY <1>1, <3>1 DEF Ahead, Got, ButForRepetitions
    <3>3. ToSend(k)'
      BY <1>1, <1>3, <2>1, <3>1 DEF ToSend, Ended
    <3>4. Sound(k)' /\ Told(k)'
      BY <1>1, <1>3, <2>1, <3>1 DEF Sound, Told, Ended
    <3> QED
      BY <3>2, <3>3, <3>4
  <2>3. Ordered' /\ Before'
    BY <1>1, <2>1 DEF Flow, Ordered, Before
  <2> QED
    BY <2>1, <2>2, <2>3 DEF Flow
<1>6. ASSUME NEW e \in Events, e = out[h][1], socket_rx' = Append(socket_rx, e), alive' = alive,
             out'[h] = Tail(out[h]), reader'[h] = AfterEvent(h)
      PROVE  Flow'
  <2> DEFINE N == Len(Transit)
  <2>1. /\ N \in Nat /\ DOMAIN Transit = 1 .. N /\ DOMAIN Transit' = 1 .. N + 1
        /\ \A i \in 1 .. N : Transit'[i] = Transit[i]
        /\ Transit'[N + 1] = e
    BY <1>1, <1>6, SendAppends, TransitTypes
  <2> HIDE DEF N
  \* What the thread sends, and where it goes on.
  <2>2. \/ /\ e = Data(h, Taken(h), sent[h][Taken(h)]) /\ out'[h] = <<>> /\ reader'[h] = "reading"
           /\ Taken(h) > handled[h] /\ \A i \in 1 .. N : ~Tells(Transit[i], h, Taken(h))
        \/ e = Error(h) /\ out'[h] = <<Closed(h, "error")>> /\ reader'[h] = "sending"
        \/ \E r \in Reasons : /\ e = Closed(h, r) /\ out'[h] = <<>> /\ reader'[h] = "finished"
                              /\ r = "peer" => Ended(h)
    <3>1. CASE /\ out[h] = <<Data(h, Taken(h), sent[h][Taken(h)])>> /\ Taken(h) > handled[h]
               /\ \A i \in DOMAIN Transit : ~Tells(Transit[i], h, Taken(h))
      <4>1. Tail(out[h]) = <<>> /\ e = Data(h, Taken(h), sent[h][Taken(h)]) /\ Head(out[h]) = e
        BY <1>6, <3>1
      <4> QED
        BY <1>6, <2>1, <3>1, <4>1 DEF AfterEvent, Data
    <3>2. CASE out[h] = <<Error(h), Closed(h, "error")>>
      <4>1. Tail(out[h]) = <<Closed(h, "error")>> /\ e = Error(h) /\ Head(out[h]) = e
        BY <1>6, <3>2
      <4> QED
        BY <1>6, <4>1 DEF AfterEvent, Error
    <3>3. ASSUME NEW r \in Reasons, out[h] = <<Closed(h, r)>>, r = "peer" => Ended(h)
          PROVE  e = Closed(h, r) /\ out'[h] = <<>> /\ reader'[h] = "finished"
      <4>1. Tail(out[h]) = <<>> /\ e = Closed(h, r) /\ Head(out[h]) = e
        BY <1>6, <3>3
      <4> QED
        BY <1>6, <4>1 DEF AfterEvent, Closed
    <3> QED
      BY <1>1, <3>1, <3>2, <3>3 DEF ToSend
  <2>3. e.handle = h
    BY <2>2 DEF Data, Error, Closed
  <2>4. \A i \in 1 .. N : Transit[i].handle = h => Transit[i].kind # "closed"
    BY <1>1, <2>1 DEF Sound
  <2>5. ToSend(h)'
    BY <1>1, <2>2 DEF ToSend, Reasons
  <2>6. Sound(h)'
    <3>1. \A i \in 1 .. N : Transit[i].handle = h =>
              /\ closed[h] = None
              /\ Transit[i].kind = "data" =>
                     /\ Transit[i].nth \in handled[h] + 1 .. Taken(h)
                     /\ Transit[i].value = sent[h][Transit[i].nth]
      BY <1>1, <2>1 DEF Sound
    <3>2. e.kind = "data" => e.nth \in handled[h] + 1 .. Taken(h) /\ e.value = sent[h][e.nth]
      BY <1>4, <2>2 DEF Data, Error, Closed
    <3>3. e.kind = "closed" => reader'[h] = "finished" /\ (e.value = "peer" => Ended(h)')
      BY <1>1, <2>2 DEF Data, Error, Closed, Ended
    <3> SUFFICES ASSUME NEW i \in 1 .. N + 1, Transit'[i].handle = h
                 PROVE  /\ closed[h] = None
                        /\ Transit'[i].kind = "data" =>
                               /\ Transit'[i].nth \in handled[h] + 1 .. Taken(h)
                               /\ Transit'[i].value = sent[h][Transit'[i].nth]
                        /\ Transit'[i].kind = "closed" =>
                               /\ reader'[h] \in {"finished", "done"}
                               /\ Transit'[i].value = "peer" => Ended(h)'
      BY <1>1, <2>1 DEF Sound
    <3>4. CASE i = N + 1
      BY <1>2, <2>1, <3>2, <3>3, <3>4
    <3>5. CASE i \in 1 .. N
      BY <2>1, <2>4, <3>1, <3>5
    <3> QED
      BY <2>1, <3>4, <3>5
  <2>7. Ordered'
    <3>1. \A i \in 1 .. N :
              Transit[i].handle = h /\ Transit[i].kind = "data" /\ e.kind = "data" => Transit[i].nth < e.nth
      <4> SUFFICES ASSUME NEW i \in 1 .. N, Transit[i].handle = h, Transit[i].kind = "data", e.kind = "data"
                   PROVE  Transit[i].nth < e.nth
        OBVIOUS
      <4>1. Transit[i].nth \in handled[h] + 1 .. Taken(h)
        BY <1>1, <2>1 DEF Sound
      <4>2. e.nth = Taken(h) /\ ~Tells(Transit[i], h, Taken(h))
        BY <2>2 DEF Data, Error, Closed
      <4> QED
        BY <1>4, <4>1, <4>2 DEF Tells
    <3> SUFFICES ASSUME NEW i \in 1 .. N + 1, NEW j \in 1 .. N + 1, i < j,
                        Transit'[i].handle = Transit'[j].handle
                 PROVE  /\ Transit'[i].kind # "closed"
                        /\ Transit'[i].kind = "data" /\ Transit'[j].kind = "data" =>
                               Transit'[i].nth < Transit'[j].nth
      BY <2>1 DEF Ordered
    <3>2. i \in 1 .. N /\ Transit'[i] = Transit[i]
      BY <2>1
    <3>3. CASE j = N + 1
      BY <2>1, <2>3, <2>4, <3>1, <3>2, <3>3
    <3>4. CASE j \in 1 .. N
      BY <2>1, <3>2, <3>4 DEF Flow, Ordered
    <3> QED
      BY <2>1, <3>3, <3>4
  <2>8. ASSUME alive' = "running" PROVE Complete(h)'
    <3>1. Complete(h)
      BY <1>6, <2>8 DEF Flow
    <3>2. ASSUME NEW n, OnItsWayToGuest(h, n) PROVE OnItsWayToGuest(h, n)'
      <4>1. CASE \E i \in DOMAIN Transit : Tells(Transit[i], h, n)
        <5>1. PICK i \in 1 .. N : Tells(Transit[i], h, n)
          BY <2>1, <4>1
        <5>2. i \in DOMAIN Transit' /\ Tells(Transit'[i], h, n)
          BY <2>1, <5>1
        <5> QED
          BY <5>2 DEF OnItsWayToGuest, Tells
      <4>2. CASE n = Taken(h) /\ out[h][1].kind = "data"
        <5>1. e.kind = "data" /\ N + 1 \in DOMAIN Transit' /\ Transit'[N + 1] = e
          BY <1>6, <2>1, <4>2
        <5>2. e = Data(h, Taken(h), sent[h][Taken(h)])
          BY <2>2, <5>1 DEF Error, Closed
        <5>3. Tells(Transit'[N + 1], h, n)
          BY <4>2, <5>1, <5>2 DEF Tells, Data
        <5> QED
          BY <5>1, <5>3 DEF OnItsWayToGuest, Tells
      <4> QED
        BY <3>2, <4>1, <4>2 DEF OnItsWayToGuest
    <3>3. ASSUME CutShort(h) PROVE CutShort(h)'
      <4>1. e.kind # "data" /\ e.value # "peer"
        BY <1>1, <1>2, <1>6, <2>1, <2>4, <3>3, NoneIsNoReason DEF CutShort, Reasons
      <4>2. CASE e = Error(h) /\ out'[h] = <<Closed(h, "error")>>
        <5>1. out'[h] # <<>> /\ out'[h][1] = Closed(h, "error")
          BY <4>2
        <5> QED
          BY <5>1 DEF CutShort, Closed
      <4>3. CASE e.kind = "closed"
        BY <2>1, <2>3, <4>1, <4>3 DEF CutShort
      <4> QED
        BY <2>2, <4>1, <4>2, <4>3 DEF Data, Closed
    <3> QED
      BY <1>1, <3>1, <3>2, <3>3 DEF Complete
  <2>9. ASSUME NEW k \in Sockets \ {h}
        PROVE  /\ Ahead(k)' /\ ToSend(k)' /\ Sound(k)' /\ Got(k)' /\ Told(k)'
               /\ alive' = "running" => Complete(k)'
    <3>1. out'[k] = out[k] /\ reader'[k] = reader[k]
      BY <1>3
    <3>2. /\ Ahead(k) /\ ToSend(k) /\ Sound(k) /\ Got(k) /\ Told(k)
          /\ alive = "running" => Complete(k)
      BY DEF Flow
    <3>3. \A i \in 1 .. N + 1 : Transit'[i].handle = k => i \in 1 .. N /\ Transit'[i] = Transit[i]
      BY <2>1, <2>3
    <3>4. Ahead(k)' /\ Got(k)' /\ Told(k)'
      BY <1>1, <3>1, <3>2 DEF Ahead, Got, Told, Ended, ButForRepetitions
    <3>5. ToSend(k)'
      BY <1>1, <2>1, <3>1, <3>2, <3>3 DEF ToSend, Ended, Tells
    <3>6. Sound(k)'
      BY <1>1, <2>1, <3>1, <3>2, <3>3 DEF Sound, Ended
    <3>7. \A i \in 1 .. N : i \in DOMAIN Transit'
      BY <2>1
    <3>8. alive' = "running" => Complete(k)'
      BY <1>1, <1>6, <2>1, <3>1, <3>2, <3>7 DEF Complete, OnItsWayToGuest, CutShort, Tells
    <3> QED
      BY <3>4, <3>5, <3>6, <3>8
  <2>10. Ahead(h)' /\ Got(h)' /\ Told(h)' /\ Before'
    <3>1. Ahead(h)' /\ Got(h)'
      BY <1>1 DEF Flow, Ahead, Got, ButForRepetitions
    <3>2. Told(h)'
      BY <1>1, <1>2, NoneIsNoReason DEF Told, Reasons
    <3>3. Before'
      BY <1>1 DEF Flow, Before
    <3> QED
      BY <3>1, <3>2, <3>3
  <2> QED
    BY <2>5, <2>6, <2>7, <2>8, <2>9, <2>10 DEF Flow
<1>7. CASE alive # "gone" /\ socket_rx' = Append(socket_rx, Head(out[h]))
  <2>1. out[h] \in Seq(Events)
    BY DEF SocketsTyped
  <2>2. Head(out[h]) \in Events /\ Head(out[h]) = out[h][1]
    BY <1>1, <2>1, TailFacts, HeadTailProperties
  <2>3. out'[h] = Tail(out[h]) /\ reader'[h] = AfterEvent(h) /\ alive' = alive
    BY <1>7 DEF SendEvent, SocketsTyped
  <2> QED
    BY <1>6, <1>7, <2>2, <2>3
<1> QED
  BY <1>5, <1>7 DEF SendEvent

\* What remains after an event is handled, or lost with the batch.
LEMMA HandleDrops ==
    ASSUME SocketsTyped, batch # <<>>, socket_rx' = socket_rx
    PROVE  /\ batch' = Tail(batch) =>
                  /\ DOMAIN Transit' = 1 .. Len(Transit) - 1
                  /\ \A i \in 1 .. Len(Transit) - 1 : Transit'[i] = Transit[i + 1]
           /\ batch' = <<>> =>
                  \E d \in 1 .. Len(Transit) :
                      /\ DOMAIN Transit' = 1 .. Len(Transit) - d
                      /\ \A i \in 1 .. Len(Transit) - d : Transit'[i] = Transit[i + d]
           /\ 1 \in DOMAIN Transit /\ Transit[1] = Head(batch)
<1>1. batch \in Seq(Events) /\ socket_rx \in Seq(Events)
  BY DEF SocketsTyped
<1>2. /\ Len(batch) \in Nat \ {0} /\ Head(batch) = batch[1] /\ Tail(batch) \in Seq(Events)
      /\ Len(Tail(batch)) = Len(batch) - 1
      /\ \A i \in 1 .. Len(batch) - 1 : Tail(batch)[i] = batch[i + 1]
  BY <1>1, TailFacts
<1>3. Len(socket_rx) \in Nat /\ DOMAIN socket_rx = 1 .. Len(socket_rx)
  BY <1>1, LenProperties
<1>4. /\ Len(Transit) = Len(batch) + Len(socket_rx) /\ DOMAIN Transit = 1 .. Len(Transit)
      /\ \A i \in 1 .. Len(batch) + Len(socket_rx) :
             Transit[i] = IF i <= Len(batch) THEN batch[i] ELSE socket_rx[i - Len(batch)]
  BY <1>1, ConcatProperties, TransitTypes DEF Transit
<1>5. ASSUME batch' = Tail(batch)
      PROVE  /\ DOMAIN Transit' = 1 .. Len(Transit) - 1
             /\ \A i \in 1 .. Len(Transit) - 1 : Transit'[i] = Transit[i + 1]
  <2>1. Transit' = Tail(batch) \o socket_rx
    BY <1>5 DEF Transit
  <2>2. /\ Transit' \in Seq(Events) /\ Len(Transit') = Len(Tail(batch)) + Len(socket_rx)
        /\ \A i \in 1 .. Len(Tail(batch)) + Len(socket_rx) :
               Transit'[i] = IF i <= Len(Tail(batch)) THEN Tail(batch)[i]
                             ELSE socket_rx[i - Len(Tail(batch))]
    BY <1>1, <1>2, <2>1, ConcatProperties
  <2>3. DOMAIN Transit' = 1 .. Len(Transit')
    BY <2>2, LenProperties
  <2>4. Len(Transit') = Len(Transit) - 1
    BY <1>2, <1>3, <1>4, <2>2
  <2>5. ASSUME NEW i \in 1 .. Len(Transit) - 1 PROVE Transit'[i] = Transit[i + 1]
    <3>1. CASE i <= Len(batch) - 1
      <4>1. i \in 1 .. Len(batch) - 1 /\ i + 1 \in 1 .. Len(batch) + Len(socket_rx) /\ i + 1 <= Len(batch)
        BY <1>2, <1>3, <1>4, <3>1
      <4>2. Transit'[i] = Tail(batch)[i] /\ Transit[i + 1] = batch[i + 1]
        BY <1>2, <1>3, <1>4, <2>2, <3>1, <4>1
      <4> QED
        BY <1>2, <4>1, <4>2
    <3>2. CASE ~(i <= Len(batch) - 1)
      <4>1. Transit'[i] = socket_rx[i - (Len(batch) - 1)]
        BY <1>2, <1>3, <1>4, <2>2, <3>2
      <4>2. Transit[i + 1] = socket_rx[(i + 1) - Len(batch)]
        BY <1>2, <1>3, <1>4, <3>2
      <4> QED
        BY <1>2, <4>1, <4>2
    <3> QED
      BY <3>1, <3>2
  <2> QED
    BY <2>3, <2>4, <2>5
<1>6. ASSUME batch' = <<>>
      PROVE  /\ DOMAIN Transit' = 1 .. Len(Transit) - Len(batch)
             /\ \A i \in 1 .. Len(Transit) - Len(batch) : Transit'[i] = Transit[i + Len(batch)]
  <2>1. Transit' = socket_rx
    BY <1>1, <1>6, ConcatEmptySeq DEF Transit
  <2> QED
    BY <1>2, <1>3, <1>4, <2>1
<1>7. Len(batch) \in 1 .. Len(Transit)
  BY <1>2, <1>3, <1>4
<1>8. 1 \in DOMAIN Transit /\ Transit[1] = Head(batch)
  BY <1>2, <1>3, <1>4
<1> QED
  BY <1>5, <1>6, <1>7, <1>8

\* The next line on its way is the one after those the loop is through with.
LEMMA HandledIsNext ==
    ASSUME Flow, SocketsTyped, alive = "running", 1 \in DOMAIN Transit, Transit[1].kind = "data"
    PROVE  Transit[1].nth = handled[Transit[1].handle] + 1
<1> DEFINE e == Transit[1]
           h == e.handle
<1>1. h \in Sockets /\ e.nth \in Nat
  BY TransitTypes, EventKinds
<1>2. /\ Taken(h) \in Nat /\ handled[h] \in Nat
  BY <1>1, TakenTypes
<1>3. Sound(h) /\ ToSend(h) /\ Complete(h) /\ Told(h)
  BY <1>1 DEF Flow
<1>4. e.nth \in handled[h] + 1 .. Taken(h) /\ closed[h] = None
  BY <1>3 DEF Sound
<1> SUFFICES ASSUME e.nth # handled[h] + 1 PROVE FALSE
  OBVIOUS
<1>5. handled[h] + 1 \in handled[h] + 1 .. Taken(h) /\ handled[h] + 1 < e.nth /\ handled[h] + 1 # Taken(h)
  BY <1>1, <1>2, <1>4
<1>6. PICK i \in DOMAIN Transit : Tells(Transit[i], h, handled[h] + 1)
  BY <1>3, <1>5 DEF Complete, OnItsWayToGuest
<1>7. i \in Nat /\ i >= 1 /\ i # 1
  BY <1>5, <1>6, TransitTypes DEF Tells
<1> QED
  BY <1>1, <1>2, <1>5, <1>6, <1>7 DEF Flow, Ordered, Tells

LEMMA HandleStep ==
    ASSUME Flow, SocketsTyped, Loop, HandleSocketEvent,
           NEW e \in Events, e = Head(batch), NEW h \in Sockets, h = e.handle,
           NEW N \in Nat, N = Len(Transit)
    PROVE  Flow'
<1>1. /\ batch # <<>> /\ alive = "running"
      /\ UNCHANGED <<reader, out, shutdown, closedStreams, ACTIVE_SUBSCRIPTIONS, socket_rx, inbox,
                     hungUp, sent>>
      /\ \/ batch' = Tail(batch) /\ alive' = alive
         \/ batch' = <<>> /\ alive' # "running"
  BY DEF HandleSocketEvent, Loop
<1>2. /\ 1 \in DOMAIN Transit /\ Transit[1] = e /\ e \in Events /\ h \in Sockets
      /\ DOMAIN Transit = 1 .. N /\ N \in Nat
  BY <1>1, HandleDrops, TransitTypes, EventKinds
\* What is on its way comes after the event.
<1>3. PICK d \in 1 .. N :
          /\ DOMAIN Transit' = 1 .. N - d
          /\ \A i \in 1 .. N - d : Transit'[i] = Transit[i + d]
          /\ alive' = "running" => d = 1
  BY <1>1, <1>2, HandleDrops
<1>4. \A i \in DOMAIN Transit' : i + d \in DOMAIN Transit \ {1} /\ Transit'[i] = Transit[i + d]
  BY <1>2, <1>3
<1>5. ASSUME alive' = "running", NEW i \in DOMAIN Transit, i # 1
      PROVE  i - 1 \in DOMAIN Transit' /\ Transit'[i - 1] = Transit[i]
  BY <1>2, <1>3, <1>5
<1>6. \A k \in Sockets : /\ Ahead(k) /\ ToSend(k) /\ Sound(k) /\ Got(k) /\ Told(k) /\ Complete(k)
                         /\ Taken(k)' = Taken(k) /\ Taken(k) \in Nat /\ handled[k] \in Nat
                         /\ Ahead(k)' /\ (Ended(k) => Ended(k)')
  <2> TAKE k \in Sockets
  <2>1. Ahead(k) /\ ToSend(k) /\ Sound(k) /\ Got(k) /\ Told(k) /\ Complete(k)
    BY <1>1 DEF Flow
  <2>2. Taken(k)' = Taken(k) /\ (Ended(k) => Ended(k)')
    BY <1>1 DEF Taken, Ended
  <2>3. Ahead(k)'
    BY <1>1, <2>1, <2>2 DEF Ahead
  <2>4. Taken(k) \in Nat /\ handled[k] \in Nat
    BY TakenTypes
  <2> QED
    BY <2>1, <2>2, <2>3, <2>4
<1>7. \A i \in DOMAIN Transit : i # 1 /\ Transit[i].handle = h =>
          /\ e.kind # "closed"
          /\ e.kind = "data" /\ Transit[i].kind = "data" => e.nth < Transit[i].nth
  BY <1>2 DEF Flow, Ordered
<1>8. /\ handled' = IF e.kind = "data" THEN [handled EXCEPT ![h] = @ + 1] ELSE handled
      /\ \/ Repeats(e) /\ got' = got /\ closed' = closed /\ active_sockets' = active_sockets
         \/ ~Repeats(e) /\ Deliver(e)
      /\ before' = None \/ before' = e
  BY DEF HandleSocketEvent
<1>9. /\ e.kind = "data" => handled'[h] = e.nth /\ handled'[h] = handled[h] + 1
      /\ e.kind # "data" => handled' = handled
      /\ \A k \in Sockets \ {h} : handled'[k] = handled[k]
  BY <1>1, <1>2, <1>8, HandledIsNext DEF SocketsTyped
<1>10. /\ e.kind = "closed" => closed'[h] = e.value /\ ~Repeats(e)
       /\ e.kind # "closed" => closed' = closed
       /\ \A k \in Sockets \ {h} : closed'[k] = closed[k] /\ got'[k] = got[k]
  BY <1>2, <1>8 DEF SocketsTyped, Deliver, Repeats
<1>11. Ordered'
  <2> SUFFICES ASSUME NEW i \in DOMAIN Transit', NEW j \in DOMAIN Transit', i < j,
                      Transit'[i].handle = Transit'[j].handle
               PROVE  /\ Transit'[i].kind # "closed"
                      /\ Transit'[i].kind = "data" /\ Transit'[j].kind = "data" =>
                             Transit'[i].nth < Transit'[j].nth
    BY DEF Ordered
  <2>1. /\ i + d \in DOMAIN Transit /\ j + d \in DOMAIN Transit /\ i + d < j + d
        /\ Transit'[i] = Transit[i + d] /\ Transit'[j] = Transit[j + d]
    BY <1>2, <1>3, <1>4
  <2> QED
    BY <2>1 DEF Flow, Ordered
<1>12. ASSUME NEW k \in Sockets, k # h
       PROVE  ToSend(k)' /\ Sound(k)' /\ Got(k)' /\ Told(k)' /\ (alive' = "running" => Complete(k)')
  <2>1. /\ handled'[k] = handled[k] /\ closed'[k] = closed[k] /\ got'[k] = got[k]
        /\ out'[k] = out[k] /\ reader'[k] = reader[k] /\ sent'[k] = sent[k]
    BY <1>1, <1>9, <1>10, <1>12
  <2>2. ToSend(k)'
    BY <1>4, <1>6, <2>1 DEF ToSend, Tells
  <2>3. Sound(k)'
    BY <1>4, <1>6, <2>1 DEF Sound
  <2>4. Got(k)' /\ Told(k)'
    <3>1. Got(k) /\ Told(k) /\ Taken(k)' = Taken(k) /\ (Ended(k) => Ended(k)')
      BY <1>6
    <3>2. Got(k)'
      BY <2>1, <3>1 DEF Got, ButForRepetitions
    <3>3. Told(k)'
      BY <2>1, <3>1 DEF Told
    <3> QED
      BY <3>2, <3>3
  <2>5. ASSUME alive' = "running" PROVE Complete(k)'
    <3>1. \A i \in DOMAIN Transit : Transit[i].handle = k =>
              i - 1 \in DOMAIN Transit' /\ Transit'[i - 1] = Transit[i]
      BY <1>2, <1>5, <1>12, <2>5
    <3>2. ASSUME NEW n, OnItsWayToGuest(k, n) PROVE OnItsWayToGuest(k, n)'
      BY <1>6, <2>1, <3>1, <3>2 DEF OnItsWayToGuest, Tells
    <3>3. CutShort(k) => CutShort(k)'
      BY <2>1, <3>1 DEF CutShort
    <3> QED
      BY <1>6, <2>1, <3>2, <3>3 DEF Complete
  <2> QED
    BY <2>2, <2>3, <2>4, <2>5
<1>13. ToSend(h)'
  <2>1. Taken(h) > handled[h] /\ (\A i \in DOMAIN Transit : ~Tells(Transit[i], h, Taken(h)))
            => Taken(h) > handled'[h]
    <3>1. CASE e.kind = "data"
      <4>1. e.nth \in handled[h] + 1 .. Taken(h)
        BY <1>2, <1>6, <3>1 DEF Sound
      <4> QED
        BY <1>2, <1>6, <1>9, <3>1, <4>1 DEF Tells
    <3>2. CASE e.kind # "data"
      BY <1>9, <3>2
    <3> QED
      BY <3>1, <3>2
  <2> QED
    BY <1>1, <1>2, <1>4, <1>6, <2>1 DEF ToSend, Tells
<1>14. Sound(h)'
  <2> SUFFICES ASSUME NEW i \in DOMAIN Transit', Transit'[i].handle = h
               PROVE  /\ closed'[h] = None
                      /\ Transit'[i].kind = "data" =>
                             /\ Transit'[i].nth \in handled'[h] + 1 .. Taken(h)
                             /\ Transit'[i].value = sent[h][Transit'[i].nth]
                      /\ Transit'[i].kind = "closed" =>
                             /\ reader[h] \in {"finished", "done"}
                             /\ Transit'[i].value = "peer" => Ended(h)
    BY <1>1, <1>2, <1>6 DEF Sound
  <2>1. /\ i + d \in DOMAIN Transit /\ i + d # 1 /\ Transit'[i] = Transit[i + d]
    BY <1>4
  <2>2. /\ closed[h] = None
        /\ Transit'[i].kind = "data" => /\ Transit'[i].nth \in handled[h] + 1 .. Taken(h)
                                        /\ Transit'[i].value = sent[h][Transit'[i].nth]
        /\ Transit'[i].kind = "closed" => /\ reader[h] \in {"finished", "done"}
                                          /\ Transit'[i].value = "peer" => Ended(h)
    BY <1>2, <1>6, <2>1 DEF Sound
  <2>3. e.kind # "closed" /\ (e.kind = "data" /\ Transit'[i].kind = "data" => e.nth < Transit'[i].nth)
    BY <1>7, <2>1
  <2>4. Transit'[i].kind = "data" => Transit'[i].nth \in handled'[h] + 1 .. Taken(h)
    BY <1>2, <1>6, <1>9, <2>2, <2>3
  <2> QED
    BY <1>10, <2>2, <2>3, <2>4
<1>15. CASE e.kind # "data"
  <2>1. handled' = handled /\ got' = got
    BY <1>8, <1>9, <1>15 DEF Deliver
  <2>2. Got(h)'
    BY <1>1, <1>2, <1>6, <2>1 DEF Got, ButForRepetitions
  <2>3. Before'
    BY <1>8, <1>15 DEF Before
  <2>4. Told(h)'
    <3>1. CASE e.kind = "closed"
      <4>1. /\ reader[h] \in {"finished", "done"} /\ closed[h] = None
            /\ e.value = "peer" => Ended(h)
        BY <1>2, <1>6, <3>1 DEF Sound
      <4>2. ASSUME e.value = "peer" PROVE handled[h] = Len(sent[h])
        <5>1. Taken(h) = Len(sent[h])
          <6>1. inbox[h] = <<>> /\ Len(sent[h]) \in Nat
            BY <4>1, <4>2, TakenTypes DEF Ended
          <6>2. Len(inbox[h]) = 0
            BY <6>1
          <6> QED
            BY <6>1, <6>2 DEF Taken
        <5>2. out[h] = <<>>
          BY <1>2, <1>6, <4>1 DEF ToSend
        <5>3. \A i \in DOMAIN Transit : Transit[i].handle = h => i = 1
          BY <1>7, <3>1
        <5>4. ~CutShort(h)
          BY <1>2, <4>1, <4>2, <5>2, <5>3, NoneIsNoReason DEF CutShort, Reasons
        <5>5. \A n : ~OnItsWayToGuest(h, n)
          BY <1>2, <3>1, <5>2, <5>3 DEF OnItsWayToGuest, Tells
        <5>6. \A n \in handled[h] + 1 .. Taken(h) : FALSE
          BY <1>2, <1>6, <5>4, <5>5 DEF Complete
        <5> QED
          BY <1>2, <1>6, <5>1, <5>6 DEF Got
      <4> QED
        BY <1>1, <1>2, <1>6, <1>10, <2>1, <3>1, <4>1, <4>2 DEF Told
    <3>2. CASE e.kind # "closed"
      BY <1>1, <1>2, <1>6, <1>10, <2>1, <3>2 DEF Told
    <3> QED
      BY <3>1, <3>2
  <2>5. ASSUME alive' = "running" PROVE Complete(h)'
    <3>1. ASSUME NEW n, OnItsWayToGuest(h, n) PROVE OnItsWayToGuest(h, n)'
      <4>1. CASE \E i \in DOMAIN Transit : Tells(Transit[i], h, n)
        <5>1. PICK i \in DOMAIN Transit : Tells(Transit[i], h, n)
          BY <4>1
        <5>2. i # 1
          BY <1>2, <1>15, <5>1 DEF Tells
        <5> QED
          BY <1>5, <2>5, <5>1, <5>2 DEF OnItsWayToGuest, Tells
      <4> QED
        BY <1>1, <1>2, <1>6, <3>1, <4>1 DEF OnItsWayToGuest
    <3>2. ASSUME CutShort(h) PROVE CutShort(h)'
      <4>1. CASE closed[h] \in {"error", "shutdown"}
        <5>1. e.kind # "closed"
          BY <1>2, <1>6, <4>1, NoneIsNoReason DEF Sound, Reasons
        <5> QED
          BY <1>10, <4>1, <5>1 DEF CutShort
      <4>2. ASSUME NEW i \in DOMAIN Transit, Transit[i].handle = h, Transit[i].kind = "closed",
                   Transit[i].value # "peer"
            PROVE  CutShort(h)'
        <5>1. CASE i = 1
          <6>1. closed'[h] \in {"error", "shutdown"}
            BY <1>2, <1>10, <4>2, <5>1, EventKinds DEF Reasons
          <6> QED
            BY <6>1 DEF CutShort
        <5>2. CASE i # 1
          BY <1>5, <2>5, <4>2, <5>2 DEF CutShort
        <5> QED
          BY <5>1, <5>2
      <4>3. CASE out[h] # <<>> /\ out[h][1].kind # "data" /\ out[h][1].value # "peer"
        BY <1>1, <4>3 DEF CutShort
      <4> QED
        BY <3>2, <4>1, <4>2, <4>3 DEF CutShort
    <3> QED
      BY <1>2, <1>6, <2>1, <3>1, <3>2 DEF Complete
  <2> QED
    BY <1>2, <1>6, <1>11, <1>12, <1>13, <1>14, <2>2, <2>3, <2>4, <2>5 DEF Flow
<1>16. CASE e.kind = "data"
  <2>1. /\ handled'[h] = e.nth /\ e.nth = handled[h] + 1 /\ e.nth <= Taken(h) /\ e.nth \in Nat
        /\ e.value = sent[h][e.nth] /\ closed' = closed /\ closed[h] = None
    BY <1>2, <1>6, <1>9, <1>10, <1>16 DEF Sound
  <2>2. \/ Repeats(e) /\ got'[h] = got[h]
        \/ got'[h] = Append(got[h], [nth |-> e.nth, value |-> e.value])
    BY <1>2, <1>8, <1>16 DEF Deliver, SocketsTyped
  <2>3. /\ got[h] \in Seq(Delivery) /\ Len(got[h]) \in Nat /\ DOMAIN got[h] = 1 .. Len(got[h])
        /\ [nth |-> e.nth, value |-> e.value] \in Delivery
    BY <1>2, <1>16, <2>1, EventKinds, LenProperties DEF SocketsTyped, Delivery
  <2>4. \/ Repeats(e) /\ got'[h] = got[h]
        \/ /\ DOMAIN got'[h] = 1 .. Len(got[h]) + 1
           /\ \A i \in 1 .. Len(got[h]) : got'[h][i] = got[h][i]
           /\ got'[h][Len(got[h]) + 1] = [nth |-> e.nth, value |-> e.value]
    <3>1. CASE got'[h] = Append(got[h], [nth |-> e.nth, value |-> e.value])
      <4>1. got'[h] \in Seq(Delivery) /\ Len(got'[h]) = Len(got[h]) + 1
        BY <2>3, <3>1, AppendProperties
      <4>2. DOMAIN got'[h] = 1 .. Len(got[h]) + 1
        BY <4>1, LenProperties
      <4> QED
        BY <2>3, <3>1, <4>2, AppendProperties
    <3> QED
      BY <2>2, <3>1
  <2>5. ButForRepetitions(h, e.nth)'
    <3> SUFFICES ASSUME NEW n \in 1 .. e.nth
                 PROVE  \/ \E i \in DOMAIN got'[h] : got'[h][i].nth = n
                        \/ n > 1 /\ sent[h][n] = sent[h][n - 1]
      BY <1>1 DEF ButForRepetitions
    <3>1. CASE n \in 1 .. handled[h]
      <4>1. \/ \E i \in DOMAIN got[h] : got[h][i].nth = n
            \/ n > 1 /\ sent[h][n] = sent[h][n - 1]
        BY <1>2, <1>6, <3>1 DEF Got, ButForRepetitions
      <4> QED
        BY <2>3, <2>4, <4>1
    <3>2. CASE n = e.nth /\ Repeats(e)
      <4>1. /\ before.handle = h /\ before.nth = handled[h] /\ before.nth >= 1
            /\ before.value = sent[h][before.nth] /\ before.value = e.value
        BY <1>2, <1>6, <3>2 DEF Repeats, Flow, Before
      <4>2. n = handled[h] + 1 /\ handled[h] \in Nat /\ handled[h] >= 1
        BY <1>6, <2>1, <3>2, <4>1
      <4>3. n > 1 /\ n - 1 = handled[h]
        BY <4>2
      <4> QED
        BY <2>1, <3>2, <4>1, <4>3
    <3>3. CASE n = e.nth /\ ~Repeats(e)
      <4>1. Len(got[h]) + 1 \in DOMAIN got'[h] /\ got'[h][Len(got[h]) + 1].nth = n
        BY <2>3, <2>4, <3>3
      <4> QED
        BY <4>1
    <3> QED
      BY <1>2, <1>6, <2>1, <3>1, <3>2, <3>3
  <2>6. ASSUME NEW i \in DOMAIN got'[h]
        PROVE  /\ got'[h][i].nth \in 1 .. e.nth /\ sent[h][got'[h][i].nth] = got'[h][i].value
               /\ \A j \in 1 .. i - 1 : got'[h][j].nth < got'[h][i].nth
    <3>1. \A m \in DOMAIN got[h] :
              /\ got[h][m].nth \in 1 .. handled[h] /\ sent[h][got[h][m].nth] = got[h][m].value
              /\ \A j \in 1 .. m - 1 : got[h][j].nth < got[h][m].nth
      BY <1>2, <1>6 DEF Got
    <3>2. CASE i \in 1 .. Len(got[h])
      <4>1. got'[h][i] = got[h][i] /\ \A j \in 1 .. i - 1 : got'[h][j] = got[h][j]
        BY <2>3, <2>4, <3>2
      <4>2. /\ got[h][i].nth \in 1 .. handled[h] /\ sent[h][got[h][i].nth] = got[h][i].value
            /\ \A j \in 1 .. i - 1 : got[h][j].nth < got[h][i].nth
        BY <2>3, <3>1, <3>2
      <4>3. got[h][i].nth \in 1 .. e.nth
        BY <1>6, <2>1, <4>2
      <4> QED
        BY <4>1, <4>2, <4>3
    <3>3. CASE i = Len(got[h]) + 1
      <4>1. /\ got'[h][i].nth = e.nth /\ got'[h][i].value = e.value
            /\ \A j \in 1 .. i - 1 : got'[h][j] = got[h][j] /\ j \in DOMAIN got[h]
        BY <2>3, <2>4, <2>6, <3>3
      <4> QED
        BY <1>2, <1>6, <2>1, <3>1, <4>1
    <3> QED
      BY <2>3, <2>4, <2>6, <3>2, <3>3
  <2>7. Got(h)'
    BY <1>1, <1>2, <1>6, <2>1, <2>5, <2>6 DEF Got, ButForRepetitions
  <2>8. Told(h)'
    BY <1>1, <1>2, <1>6, <2>1, NoneIsNoReason DEF Told, Reasons
  <2>9. Before'
    <3>1. ASSUME before' = e
          PROVE  /\ e.nth \in 1 .. handled'[h] /\ e.nth = handled'[h] /\ e.value = sent'[h][e.nth]
      BY <1>1, <1>2, <1>6, <2>1
    <3> QED
      BY <1>8, <3>1 DEF Before
  <2>10. ASSUME alive' = "running" PROVE Complete(h)'
    <3> SUFFICES ASSUME NEW n \in handled'[h] + 1 .. Taken(h)
                 PROVE  OnItsWayToGuest(h, n)' \/ (n = Taken(h) /\ CutShort(h)')
      BY <1>2, <1>6 DEF Complete
    <3>1. n \in handled[h] + 1 .. Taken(h) /\ n # e.nth
      BY <1>2, <1>6, <2>1
    <3>2. OnItsWayToGuest(h, n) \/ (n = Taken(h) /\ CutShort(h))
      BY <1>2, <1>6, <3>1 DEF Complete
    <3>3. ASSUME NEW i \in DOMAIN Transit, Tells(Transit[i], h, n) PROVE OnItsWayToGuest(h, n)'
      <4>1. i # 1
        BY <1>2, <3>1, <3>3 DEF Tells
      <4> QED
        BY <1>5, <2>10, <3>3, <4>1 DEF OnItsWayToGuest, Tells
    <3>4. CASE n = Taken(h) /\ out[h] # <<>> /\ out[h][1].kind = "data"
      BY <1>1, <1>2, <1>6, <3>4 DEF OnItsWayToGuest
    <3>5. CASE n = Taken(h) /\ CutShort(h)
      <4>1. \A i \in DOMAIN Transit : Transit[i].kind = "closed" => i # 1
        BY <1>2, <1>16
      <4>2. CASE \E i \in DOMAIN Transit :
                     Transit[i].handle = h /\ Transit[i].kind = "closed" /\ Transit[i].value # "peer"
        <5>1. \E i \in DOMAIN Transit' :
                  Transit'[i].handle = h /\ Transit'[i].kind = "closed" /\ Transit'[i].value # "peer"
          <6>1. PICK i \in DOMAIN Transit :
                    Transit[i].handle = h /\ Transit[i].kind = "closed" /\ Transit[i].value # "peer"
            BY <4>2
          <6>2. i - 1 \in DOMAIN Transit' /\ Transit'[i - 1] = Transit[i]
            BY <1>5, <2>10, <4>1, <6>1
          <6> QED
            BY <6>1, <6>2
        <5> QED
          BY <3>5, <5>1 DEF CutShort
      <4>3. CASE closed[h] \in {"error", "shutdown"} \/ (out[h] # <<>> /\ out[h][1].kind # "data" /\ out[h][1].value # "peer")
        BY <1>1, <2>1, <3>5, <4>3 DEF CutShort
      <4> QED
        BY <3>5, <4>2, <4>3 DEF CutShort
    <3> QED
      BY <3>2, <3>3, <3>4, <3>5 DEF OnItsWayToGuest
  <2> QED
    BY <1>2, <1>6, <1>11, <1>12, <1>13, <1>14, <2>7, <2>8, <2>9, <2>10 DEF Flow
<1> QED
  BY <1>15, <1>16

LEMMA PeerSendsStep ==
    ASSUME Flow, SocketsTyped, NEW h \in Sockets, NEW line \in Lines, PeerSends(h, line)
    PROVE  Flow'
<1>1. /\ h \notin hungUp \cup closedStreams
      /\ sent' = [sent EXCEPT ![h] = Append(sent[h], line)]
      /\ inbox' = [inbox EXCEPT ![h] = Append(inbox[h], line)]
      /\ UNCHANGED <<alive, reader, out, closedStreams, hungUp, socket_rx, batch, before, handled, got, closed>>
  BY DEF PeerSends, loopVars
<1>2. \A k \in Sockets \ {h} : sent'[k] = sent[k] /\ inbox'[k] = inbox[k]
  BY <1>1 DEF SocketsTyped
<1>3. sent'[h] = Append(sent[h], line) /\ inbox'[h] = Append(inbox[h], line)
  BY <1>1 DEF SocketsTyped
<1>4. /\ sent[h] \in Seq(Lines) /\ inbox[h] \in Seq(Lines)
      /\ Len(sent[h]) \in Nat /\ Len(inbox[h]) \in Nat
      /\ Taken(h) \in 0 .. Len(sent[h])
  BY TakenTypes DEF SocketsTyped
<1>5. /\ Len(sent'[h]) = Len(sent[h]) + 1 /\ Len(inbox'[h]) = Len(inbox[h]) + 1
      /\ \A n \in 1 .. Len(sent[h]) : sent'[h][n] = sent[h][n]
      /\ \A n \in 1 .. Len(inbox[h]) : inbox'[h][n] = inbox[h][n]
      /\ sent'[h][Len(sent[h]) + 1] = line /\ inbox'[h][Len(inbox[h]) + 1] = line
      /\ inbox'[h] \in Seq(Lines)
  BY <1>3, <1>4, AppendProperties
<1>6. DOMAIN inbox'[h] = 1 .. Len(inbox[h]) + 1
  BY <1>5, LenProperties
<1>7. Taken(h)' = Taken(h) /\ Taken(h) + (Len(inbox[h]) + 1) = Len(sent[h]) + 1
  <2>1. Len(sent'[h]) = Len(sent[h]) + 1 /\ Len(inbox'[h]) = Len(inbox[h]) + 1
    BY <1>5
  <2>2. Taken(h)' = Len(sent'[h]) - Len(inbox'[h]) /\ Taken(h) = Len(sent[h]) - Len(inbox[h])
    BY DEF Taken
  <2>3. Len(sent[h]) \in Nat /\ Len(inbox[h]) \in Nat /\ Taken(h) \in Nat
    BY <1>4
  <2>4. Taken(h)' = Taken(h)
    BY <2>1, <2>2, <2>3
  <2>5. Taken(h) + (Len(inbox[h]) + 1) = Len(sent[h]) + 1
    <3>1. \A a, b \in Nat : (a - b) + (b + 1) = a + 1
      OBVIOUS
    <3>2. (Len(sent[h]) - Len(inbox[h])) + (Len(inbox[h]) + 1) = Len(sent[h]) + 1
      BY <2>3, <3>1
    <3> QED
      BY <3>2 DEF Taken
  <2> QED
    BY <2>4, <2>5
<1>8. Ahead(h)'
  <2> SUFFICES ASSUME NEW i \in 1 .. Len(inbox[h]) + 1 PROVE inbox'[h][i] = sent'[h][Taken(h) + i]
    <3>1. Ahead(h)' <=> \A i \in DOMAIN inbox'[h] : inbox'[h][i] = sent'[h][Taken(h)' + i]
      BY DEF Ahead
    <3> QED
      BY <1>6, <1>7, <3>1
  <2>1. CASE i = Len(inbox[h]) + 1
    BY <1>5, <1>7, <2>1
  <2>2. CASE i \in 1 .. Len(inbox[h])
    <3>1. inbox[h][i] = sent[h][Taken(h) + i]
      BY <2>2, TakenTypes DEF Flow, Ahead
    <3>2. Taken(h) + i \in 1 .. Len(sent[h])
      BY <1>4, <1>7, <2>2
    <3> QED
      BY <1>5, <2>2, <3>1, <3>2
  <2> QED
    BY <1>4, <2>1, <2>2
<1>9. ASSUME NEW k \in Sockets
      PROVE  /\ Taken(k)' = Taken(k) /\ Ahead(k)'
             /\ \A n \in 1 .. Taken(k) : sent'[k][n] = sent[k][n]
             /\ Ended(k) => Ended(k)' /\ sent'[k] = sent[k]
  <2>1. CASE k = h
    BY <1>1, <1>4, <1>5, <1>7, <1>8, <2>1 DEF Ended
  <2>2. CASE k # h
    <3>1. sent'[k] = sent[k] /\ inbox'[k] = inbox[k]
      BY <1>2, <2>2
    <3> QED
      BY <1>1, <3>1 DEF Flow, Taken, Ahead, Ended
  <2> QED
    BY <2>1, <2>2
<1> QED
  BY <1>1, <1>9, FlowKept DEF Transit

LEMMA TakeEventsStep ==
    ASSUME Flow, SocketsTyped, TakeEvents PROVE Flow'
<1>1. /\ batch = <<>> /\ Len(socket_rx) \in Nat \ {0} /\ socket_rx \in Seq(Events)
      /\ MaxBatch \in Nat \ {0}
  BY EmptySeq, BoundsAreNatural DEF TakeEvents, SocketsTyped
<1>2. PICK n \in 1 .. Len(socket_rx) :
          batch' = SubSeq(socket_rx, 1, n) /\ socket_rx' = SubSeq(socket_rx, n + 1, Len(socket_rx))
  <2>1. (IF Len(socket_rx) < MaxBatch THEN Len(socket_rx) ELSE MaxBatch) \in 1 .. Len(socket_rx)
    BY <1>1
  <2> QED
    BY <2>1 DEF TakeEvents
<1>3. batch' \o socket_rx' = SubSeq(socket_rx, 1, Len(socket_rx))
  <2>1. 1 \in 1 .. Len(socket_rx) + 1 /\ n \in 1 - 1 .. Len(socket_rx)
        /\ Len(socket_rx) \in n .. Len(socket_rx)
    BY <1>1
  <2> QED
    BY <1>1, <1>2, <2>1, ConcatAdjacentSubSeq
<1>4. Transit' = Transit
  BY <1>1, <1>3, SubSeqFull, ConcatEmptySeq DEF Transit
<1>5. \A k \in Sockets : /\ Taken(k)' = Taken(k) /\ Ahead(k)' /\ (Ended(k) => Ended(k)')
                         /\ sent'[k] = sent[k] /\ reader'[k] = reader[k]
  BY DEF TakeEvents, Flow, Taken, Ahead, Ended
<1> QED
  BY <1>4, <1>5, FlowKept DEF TakeEvents

\* When the state of the module is dropped nothing is on its way any more.
LEMMA DropStep ==
    ASSUME Flow, SocketsTyped, Loop, DropState PROVE Flow'
<1>1. /\ batch = <<>> /\ batch' = <<>> /\ socket_rx' = <<>> /\ alive' # "running"
      /\ closedStreams \subseteq closedStreams'
      /\ UNCHANGED <<reader, out, before, inbox, hungUp, sent, handled, got, closed>>
  BY DEF DropState, CloseSubscriptions, loopVars
<1>2. Transit' = <<>> /\ DOMAIN Transit' = {}
  <2>1. <<>> \in Seq(Events)
    BY EmptySeq
  <2> QED
    BY <1>1, <2>1, ConcatEmptySeq DEF Transit
<1>3. ASSUME NEW k \in Sockets PROVE Ahead(k)' /\ ToSend(k)' /\ Sound(k)' /\ Got(k)' /\ Told(k)'
  <2>1. Ahead(k) /\ ToSend(k) /\ Got(k) /\ Told(k) /\ Taken(k)' = Taken(k) /\ (Ended(k) => Ended(k)')
    BY <1>1 DEF Flow, Taken, Ended
  <2>2. Ahead(k)' /\ Got(k)'
    BY <1>1, <2>1 DEF Ahead, Got, ButForRepetitions
  <2>3. ToSend(k)' /\ Sound(k)' /\ Told(k)'
    BY <1>1, <1>2, <2>1 DEF ToSend, Sound, Told
  <2> QED
    BY <2>2, <2>3
<1>4. Ordered' /\ Before'
  BY <1>1, <1>2 DEF Flow, Ordered, Before
<1> QED
  BY <1>1, <1>3, <1>4 DEF Flow

LEMMA FlowStep ==
    ASSUME Flow, SocketsTyped, Loop, [Next]_vars PROVE Flow'
<1>k. ASSUME UNCHANGED <<out, socket_rx, batch, before, handled, got, closed, inbox, sent>>,
             alive' = "running" => alive = "running",
             hungUp \subseteq hungUp', closedStreams \subseteq closedStreams',
             \A h \in Sockets :
                 \/ reader'[h] = reader[h]
                 \/ reader[h] \notin {"sending", "finished", "done"} /\ reader'[h] # "sending"
                 \/ reader[h] = "finished" /\ reader'[h] = "done"
      PROVE  Flow'
  <2>1. \A h \in Sockets : /\ Taken(h)' = Taken(h) /\ Ahead(h)' /\ (Ended(h) => Ended(h)')
                           /\ sent'[h] = sent[h]
    BY <1>k DEF Flow, Taken, Ahead, Ended
  <2>2. Transit' = Transit
    BY <1>k DEF Transit
  <2> QED
    BY <1>k, <2>1, <2>2, FlowKept
<1>c. Call => alive' = alive
  BY DEF Call
<1>1. ASSUME NEW h \in Sockets, Subscribe(h) PROVE Flow'
  <2>1. \A k \in Sockets : reader'[k] = reader[k] \/ (reader[k] = "unused" /\ reader'[k] = "reading")
    BY <1>1 DEF Subscribe, NextUnused, SocketsTyped
  <2> QED
    BY <1>c, <1>k, <1>1, <2>1 DEF Subscribe, loopVars
<1>2. ASSUME NEW h \in Sockets, ReaderEnds(h) PROVE Flow'
  <2>1. \A k \in Sockets : reader'[k] = reader[k] \/ (reader[k] = "finished" /\ reader'[k] = "done")
    BY <1>2 DEF ReaderEnds, SocketsTyped
  <2> QED
    BY <1>k, <1>2, <2>1 DEF ReaderEnds, loopVars
<1>3. ASSUME NEW h \in Sockets, CloseSocket(h) \/ PeerHangsUp(h) PROVE Flow'
  BY <1>3, <1>k DEF CloseSocket, CloseSubscriptions, PeerHangsUp, loopVars
<1>4. CASE HandleTimer \/ LoopEnds \/ HostReceives \/ UNCHANGED vars
  BY <1>4, <1>k DEF HandleTimer, LoopEnds, HostReceives, sockets, vars
<1>5. ASSUME NEW t \in Timers, ScheduleTimer(t) \/ CancelTimer(t) \/ TimerTask(t) PROVE Flow'
  BY <1>5, <1>c, <1>k DEF ScheduleTimer, CancelTimer, TimerTask, Wake, SendTimer, TimerEnds, sockets
<1>6. ASSUME NEW w \in Widgets, NEW v \in Values, SendUpdate(w, v) PROVE Flow'
  BY <1>6, <1>c, <1>k DEF SendUpdate, sockets
<1>7. CASE HandleSocketEvent
  <2>1. Head(batch) \in Events
    BY <1>7, TailFacts, HeadTailProperties DEF HandleSocketEvent, SocketsTyped
  <2>2. Head(batch).handle \in Sockets /\ Len(Transit) \in Nat
    BY <2>1, EventKinds, TransitTypes
  <2> QED
    BY <1>7, <2>1, <2>2, HandleStep
<1> QED
  BY <1>1, <1>2, <1>3, <1>4, <1>5, <1>6, <1>7, ReadStep, SendEventStep, PeerSendsStep, TakeEventsStep,
     DropStep DEF Next, Guest, Peer, ReaderThread

\* Once the loop is left nothing of a batch remains.
LEMMA LoopStep ==
    ASSUME Loop, alive \in {"running", "exiting", "gone"}, [Next]_vars PROVE Loop'
<1>c. Call => alive' = alive
  BY DEF Call
<1>1. ASSUME NEW h \in Sockets, Subscribe(h) \/ CloseSocket(h) \/ ReaderThread(h) \/ PeerHangsUp(h)
      PROVE  Loop'
  BY <1>c, <1>1 DEF Loop, Subscribe, CloseSocket, ReaderThread, Read, SendEvent, ReaderEnds, PeerHangsUp,
                    loopVars
<1>2. ASSUME NEW h \in Sockets, NEW line \in Lines, PeerSends(h, line) PROVE Loop'
  BY <1>2 DEF Loop, PeerSends, loopVars
<1>3. CASE HandleTimer \/ LoopEnds \/ HostReceives \/ DropState \/ TakeEvents \/ UNCHANGED vars
  BY <1>3 DEF Loop, HandleTimer, LoopEnds, HostReceives, DropState, TakeEvents, sockets, loopVars, vars
<1>4. ASSUME NEW t \in Timers, ScheduleTimer(t) \/ CancelTimer(t) \/ TimerTask(t) PROVE Loop'
  BY <1>4, <1>c DEF Loop, ScheduleTimer, CancelTimer, TimerTask, Wake, SendTimer, TimerEnds, sockets
<1>5. ASSUME NEW w \in Widgets, NEW v \in Values, SendUpdate(w, v) PROVE Loop'
  BY <1>5, <1>c DEF Loop, SendUpdate, sockets
<1>6. CASE HandleSocketEvent
  BY <1>6 DEF Loop, HandleSocketEvent
<1> QED
  BY <1>1, <1>2, <1>3, <1>4, <1>5, <1>6 DEF Next, Guest, Peer

\* Only a reader that is through, or its subscription's end, parts a registered
\* subscription from the module.
LEMMA ReadersStep ==
    ASSUME ReadersFollowModule, Flow, SocketsTyped, [Next]_vars PROVE ReadersFollowModule'
<1> USE DEF ReadersFollowModule
<1>1. ASSUME NEW h \in Sockets, Subscribe(h) PROVE ReadersFollowModule'
  BY <1>1 DEF Subscribe, NextUnused, SocketsTyped
<1>2. ASSUME NEW h \in Sockets, CloseSocket(h) PROVE ReadersFollowModule'
  BY <1>2 DEF CloseSocket, CloseSubscriptions
<1>3. ASSUME NEW h \in Sockets, ReaderThread(h) PROVE ReadersFollowModule'
  <2>1. CASE Read(h)
    BY <2>1 DEF Read, SocketsTyped
  <2>2. CASE SendEvent(h)
    BY <2>2 DEF SendEvent, SocketsTyped
  <2>3. CASE ReaderEnds(h)
    BY <2>3 DEF ReaderEnds, SocketsTyped
  <2> QED
    BY <1>3, <2>1, <2>2, <2>3 DEF ReaderThread
<1>4. CASE Peer
  BY <1>4 DEF Peer, PeerSends, PeerHangsUp
<1>5. CASE HandleTimer \/ LoopEnds \/ HostReceives \/ TakeEvents \/ UNCHANGED vars
  BY <1>5 DEF HandleTimer, LoopEnds, HostReceives, TakeEvents, sockets, vars
<1>6. CASE DropState
  BY <1>6 DEF DropState, CloseSubscriptions
<1>7. ASSUME NEW t \in Timers, ScheduleTimer(t) \/ CancelTimer(t) \/ TimerTask(t)
      PROVE  ReadersFollowModule'
  BY <1>7 DEF ScheduleTimer, CancelTimer, TimerTask, Wake, SendTimer, TimerEnds, sockets
<1>8. ASSUME NEW w \in Widgets, NEW v \in Values, SendUpdate(w, v) PROVE ReadersFollowModule'
  BY <1>8 DEF SendUpdate, sockets
<1>9. CASE HandleSocketEvent
  <2>1. /\ 1 \in DOMAIN Transit /\ Transit[1] = Head(batch) /\ Transit[1].handle \in Sockets
        /\ UNCHANGED <<reader, ACTIVE_SUBSCRIPTIONS>>
    BY <1>9, HandleDrops, TransitTypes, EventKinds DEF HandleSocketEvent
  <2>2. active_sockets' = active_sockets \/ (/\ Head(batch).kind = "closed"
                                             /\ active_sockets' = active_sockets \ {Head(batch).handle})
    BY <1>9 DEF HandleSocketEvent, Deliver
  <2>3. Head(batch).kind = "closed" => reader[Head(batch).handle] \in {"finished", "done"}
    BY <2>1 DEF Flow, Sound
  <2> QED
    BY <2>1, <2>2, <2>3 DEF SocketsTyped
<1> QED
  BY <1>1, <1>2, <1>3, <1>4, <1>5, <1>6, <1>7, <1>8, <1>9 DEF Next, Guest

LEMMA SocketsInvariant == Spec => []SocketsInv
<1>1. Init => SocketsInv
  <2> SUFFICES ASSUME Init PROVE SocketsInv
    OBVIOUS
  <2>1. Transit = <<>> /\ DOMAIN Transit = {}
    <3>1. <<>> \in Seq(Events)
      BY EmptySeq
    <3> QED
      BY <3>1, ConcatEmptySeq DEF Init, Transit
  <2>2. ASSUME NEW h \in Sockets
        PROVE  Ahead(h) /\ ToSend(h) /\ Sound(h) /\ Got(h) /\ Told(h) /\ Complete(h)
    <3>1. /\ sent[h] = <<>> /\ inbox[h] = <<>> /\ out[h] = <<>> /\ got[h] = <<>> /\ closed[h] = None
          /\ handled[h] = 0 /\ reader[h] = "unused" /\ Taken(h) = 0
      BY DEF Init, Taken
    <3> QED
      BY <2>1, <3>1, NoneIsNoReason DEF Ahead, ToSend, Sound, Got, Told, Complete, ButForRepetitions, Reasons
  <2>3. Ordered /\ Before /\ Loop /\ ReadersFollowModule
    BY <2>1 DEF Init, Ordered, Before, Loop, ReadersFollowModule
  <2> QED
    BY <2>2, <2>3 DEF SocketsInv, Flow
<1>2. TypesInv /\ SocketsInv /\ [Next]_vars => SocketsInv'
  BY FlowStep, LoopStep, ReadersStep DEF TypesInv, SocketsInv
<1> QED
  BY <1>1, <1>2, TypesInvariant, PTL DEF Spec

\* For any number of sockets and lines, any capacity of the channel and any size of a
\* batch, the guest gets the lines of each peer in order and none twice, misses only
\* repetitions of the line before, and none else of a peer whose close it is told of; the
\* registry holds no subscription that the module has left, but for readers at their end.
THEOREM SocketsAreAlwaysServed == Spec => []SocketsAreServed
<1>1. TypesInv /\ SocketsInv => SocketsAreServed
  <2> SUFFICES ASSUME TypesInv, SocketsInv, NEW h \in Sockets
               PROVE  /\ \A i \in DOMAIN got[h] :
                             /\ got[h][i].nth \in DOMAIN sent[h]
                             /\ sent[h][got[h][i].nth] = got[h][i].value
                             /\ \A j \in 1 .. i - 1 : got[h][j].nth < got[h][i].nth
                             /\ ButForRepetitions(h, got[h][i].nth)
                      /\ closed[h] = "peer" => ButForRepetitions(h, Len(sent[h]))
    BY DEF SocketsInv, SocketsAreServed, LinesArriveInOrder
  <2>1. /\ Taken(h) \in 0 .. Len(sent[h]) /\ DOMAIN sent[h] = 1 .. Len(sent[h])
        /\ Len(sent[h]) \in Nat /\ handled[h] \in Nat
    BY TakenTypes DEF TypesInv
  <2>2. Got(h) /\ Told(h)
    BY DEF SocketsInv, Flow
  <2>3. \A n \in 1 .. handled[h] : n \in DOMAIN sent[h] /\ ButForRepetitions(h, n)
    BY <2>1, <2>2 DEF Got, ButForRepetitions
  <2> QED
    BY <2>2, <2>3 DEF Got, Told
<1> QED
  BY <1>1, TypesInvariant, SocketsInvariant, PTL

\* An event is handled only of a socket whose end the guest was not told of: on_socket_data
\* never follows on_socket_closed, and that is called once.
THEOREM ClosedIsAlwaysLast == Spec => ClosedIsLast
<1>1. ASSUME TypesInv, SocketsInv, [Next]_vars, NEW h \in Sockets, closed[h] # None
      PROVE  UNCHANGED <<got[h], closed[h]>>
  <2>1. CASE UNCHANGED <<got, closed>>
    BY <2>1
  <2>2. CASE HandleSocketEvent
    <3>1. SocketsTyped /\ Sound(h)
      BY <1>1 DEF TypesInv, SocketsInv, Flow
    <3>2. /\ 1 \in DOMAIN Transit /\ Transit[1] = Head(batch) /\ Transit[1] \in Events
      BY <2>2, <3>1, HandleDrops, TransitTypes DEF HandleSocketEvent
    <3>3. Head(batch).handle # h
      BY <1>1, <3>1, <3>2 DEF Sound
    <3>4. Head(batch).handle \in Sockets
      BY <3>2, EventKinds
    <3> QED
      BY <2>2, <3>1, <3>3, <3>4 DEF HandleSocketEvent, Deliver, SocketsTyped
  <2>3. CASE Guest
    BY <2>1, <2>3 DEF Guest, ScheduleTimer, CancelTimer, Subscribe, CloseSocket, SendUpdate, sockets, loopVars
  <2>4. CASE Peer \/ HostReceives \/ HandleTimer \/ LoopEnds \/ DropState \/ TakeEvents \/ UNCHANGED vars
    BY <2>1, <2>4 DEF Peer, PeerSends, PeerHangsUp, HostReceives, HandleTimer, LoopEnds, DropState, TakeEvents,
                      sockets, loopVars, vars
  <2>5. CASE \E t \in Timers : TimerTask(t)
    BY <2>1, <2>5 DEF TimerTask, Wake, SendTimer, TimerEnds, sockets
  <2>6. CASE \E k \in Sockets : ReaderThread(k)
    BY <2>1, <2>6 DEF ReaderThread, Read, SendEvent, ReaderEnds, loopVars
  <2> QED
    BY <1>1, <2>2, <2>3, <2>4, <2>5, <2>6 DEF Next
<1>2. TypesInv /\ SocketsInv /\ [Next]_vars =>
          [\A h \in Sockets : closed[h] # None => UNCHANGED <<got[h], closed[h]>>]_vars
  BY <1>1
<1> QED
  BY <1>2, TypesInvariant, SocketsInvariant, PTL DEF Spec, ClosedIsLast

=============================================================================
