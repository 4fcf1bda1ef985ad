------------------------ MODULE HyprlandEventsProofs ------------------------
(***************************************************************************)
(* Proofs about HyprlandEvents: the mutex is held exactly while the event  *)
(* loop is inside a resync, for any number of threads and keybinds.  A     *)
(* resync that gets to RecordBind therefore waits for itself, for good.    *)
(* The last part takes what CompositorsProofs shows to MCCompositors.      *)
(***************************************************************************)
EXTENDS MCCompositors, FiniteSetTheorems, TLAPS

\* A thread in a call has a keybind, and only the event loop resyncs.
Located ==
    /\ \A t \in Threads : pc[t] \in {"query", "eval", "legacy", "record"} => binding[t] \in Keys
    /\ \A t \in Callers : pc[t] # "resync"

IInv == TypeOK /\ Located /\ LockIsForResync

LEMMA AppendLine ==
    ASSUME NEW q \in Seq(Lines), NEW e \in Lines, Len(q) < MaxLines, MaxLines \in Nat
    PROVE  Append(q, e) \in Seq(Lines) /\ Len(Append(q, e)) <= MaxLines
<1>1. Append(q, e) \in Seq(Lines) /\ Len(Append(q, e)) = Len(q) + 1
  OBVIOUS
<1> QED
  BY <1>1

LEMMA TailLine ==
    ASSUME NEW q \in Seq(Lines), q # <<>>, Len(q) <= MaxLines, MaxLines \in Nat
    PROVE  Tail(q) \in Seq(Lines) /\ Len(Tail(q)) <= MaxLines
<1>1. Tail(q) \in Seq(Lines) /\ Len(Tail(q)) = Len(q) - 1
  OBVIOUS
<1> QED
  BY <1>1

\* Steps of a call leave the mutex and the lines alone, and end where the thread
\* came from.
LEMMA CallKeepsInvariant ==
    ASSUME IInv, NEW t \in Threads, CallStep(t) PROVE IInv'
<1> USE LoopIsNoCaller, NobodyIsNoThread, BoundsAreNatural
    DEF IInv, TypeOK, Located, LockIsForResync, Threads, Nobody, GoTo, compositor, host
<1>1. ASSUME NEW p \in {"query", "eval", "legacy", "record"}, pc[t] = p
      PROVE  /\ binding[t] \in Keys
             /\ \A q \in {"query", "eval", "legacy", "record"} :
                    [pc EXCEPT ![t] = q] \in [Threads -> {"idle", "query", "eval", "legacy", "record", "resync"}]
  BY <1>1
<1>2. CASE QueryBinds(t)
  BY <1>2 DEF QueryBinds, Return
<1>3. ASSUME bound' = [bound EXCEPT ![binding[t]] = IF @ < 2 THEN @ + 1 ELSE @],
             binding[t] \in Keys
      PROVE  bound' \in [Keys -> 0 .. 2]
  BY <1>3
<1>4. ASSUME NEW asking \in {"eval", "legacy"}, NEW otherwise \in {"legacy", "error"},
             RequestBind(t, asking, otherwise)
      PROVE  IInv'
  <2>1. pc[t] = asking /\ binding[t] \in Keys
    BY <1>4 DEF RequestBind
  <2>2. bound' \in [Keys -> 0 .. 2]
    BY <1>3, <1>4, <2>1 DEF RequestBind, Bound
  <2>3. /\ UNCHANGED <<registered_binds, holder, restore, connected, lines, world, reloads, seen, gap>>
        /\ \/ \E q \in {"record", "legacy"} : pc' = [pc EXCEPT ![t] = q] /\ UNCHANGED binding
           \/ Return(t)
    BY <1>4 DEF RequestBind
  <2>4. CASE Return(t)
    BY <2>1, <2>2, <2>3, <2>4 DEF Return
  <2>5. ASSUME NEW q \in {"record", "legacy"}, pc' = [pc EXCEPT ![t] = q], UNCHANGED binding
        PROVE  IInv'
    BY <2>1, <2>2, <2>3, <2>5
  <2> QED
    BY <2>3, <2>4, <2>5
<1>5. CASE RecordBind(t)
  BY <1>5 DEF RecordBind, Return
<1> QED
  BY <1>2, <1>4, <1>5 DEF CallStep, EvalBind, LegacyBind

LEMMA InductiveStep == IInv /\ [Next]_vars => IInv'
<1> SUFFICES ASSUME IInv, [Next]_vars PROVE IInv'
  OBVIOUS
<1> USE LoopIsNoCaller, NobodyIsNoThread, BoundsAreNatural
    DEF IInv, TypeOK, Located, LockIsForResync, Threads, Nobody, GoTo, compositor, host, Lines
<1>1. ASSUME NEW t \in Threads, NEW k \in Keys, RegisterKeybind(t, k) PROVE IInv'
  BY <1>1 DEF RegisterKeybind
<1>2. ASSUME NEW t \in Threads, CallStep(t) PROVE IInv'
  BY <1>2, CallKeepsInvariant
<1>3. CASE Connect
  BY <1>3 DEF Connect
<1>4. lines # <<>> => Tail(lines) \in Seq(Lines) /\ Len(Tail(lines)) <= MaxLines
  BY TailLine
<1>5. CASE HandleChange
  <2>1. lines' \in Seq(Lines) /\ Len(lines') <= MaxLines
    BY <1>4, <1>5 DEF HandleChange
  <2>2. seen' \in 0 .. world' /\ gap' \in BOOLEAN
    <3>1. seen' = world /\ world' = world /\ gap' = FALSE
      BY <1>5 DEF HandleChange, OnChange
    <3>2. world \in 0 .. world
      OBVIOUS
    <3> QED
      BY <3>1, <3>2
  <2>3. UNCHANGED <<registered_binds, holder, pc, binding, restore, bound, connected,
                    world, reloads>>
    BY <1>5 DEF HandleChange
  <2> QED
    BY <2>1, <2>2, <2>3
<1>6. CASE HandleReload
  <2>1. lines' \in Seq(Lines) /\ Len(lines') <= MaxLines
    BY <1>4, <1>6 DEF HandleReload
  <2>2. /\ pc' = [pc EXCEPT ![Loop] = "resync"]
        /\ holder' = Loop
        /\ restore' = registered_binds
        /\ UNCHANGED <<registered_binds, binding, bound, connected, world, reloads, seen, gap>>
    BY <1>6 DEF HandleReload
  <2>3. pc' \in [Threads -> {"idle", "query", "eval", "legacy", "record", "resync"}]
    BY <2>2
  <2>4. Located' /\ LockIsForResync'
    BY <2>2
  <2> QED
    BY <2>1, <2>2, <2>3, <2>4
<1>7. CASE ResyncNext
  BY <1>7 DEF ResyncNext
<1>8. CASE ResyncDone
  <2>1. /\ pc' = [pc EXCEPT ![Loop] = "idle"]
        /\ holder' = Nobody
        /\ UNCHANGED <<registered_binds, binding, restore, bound, connected, lines, world, reloads>>
    BY <1>8 DEF ResyncDone
  <2>2. seen' \in 0 .. world' /\ gap' \in BOOLEAN
    <3>1. seen' = world /\ world' = world /\ gap' = FALSE
      BY <1>8 DEF ResyncDone, OnChange
    <3>2. world \in 0 .. world
      OBVIOUS
    <3> QED
      BY <3>1, <3>2
  <2>3. pc' \in [Threads -> {"idle", "query", "eval", "legacy", "record", "resync"}]
    BY <2>1
  <2>4. Located' /\ LockIsForResync'
    BY <2>1
  <2> QED
    BY <2>1, <2>2, <2>3, <2>4
<1>9. \A e \in Lines : Len(lines) < MaxLines /\ Emit(e) =>
        lines' \in Seq(Lines) /\ Len(lines') <= MaxLines
  BY AppendLine DEF Emit
<1>10. CASE WorldChanges
  <2>1. lines' \in Seq(Lines) /\ Len(lines') <= MaxLines
    BY <1>9, <1>10 DEF WorldChanges
  <2> QED
    BY <1>10, <2>1 DEF WorldChanges
<1>11. CASE Reload
  <2>1. lines' \in Seq(Lines) /\ Len(lines') <= MaxLines
    BY <1>9, <1>11 DEF Reload
  <2>2. bound' \in [Keys -> 0 .. 2]
    BY <1>11 DEF Reload
  <2> QED
    BY <1>11, <2>1, <2>2 DEF Reload
<1>12. CASE Disconnect
  BY <1>12 DEF Disconnect
<1>13. CASE UNCHANGED vars
  BY <1>13 DEF vars
<1> QED
  BY <1>1, <1>2, <1>3, <1>5, <1>6, <1>7, <1>8, <1>10, <1>11, <1>12, <1>13 DEF Next, LoopStep

LEMMA Inductive == Spec => []IInv
<1>1. Init => IInv
  <2> SUFFICES ASSUME Init PROVE IInv
    OBVIOUS
  <2>1. lines \in Seq(Lines) /\ Len(lines) <= MaxLines
    BY BoundsAreNatural DEF Init
  <2>2. world \in 0 .. MaxWorld /\ reloads \in 0 .. MaxReload /\ seen \in 0 .. world
    BY BoundsAreNatural DEF Init
  <2>3. bound \in [Keys -> 0 .. 2]
    BY DEF Init
  <2>4. /\ registered_binds = {} /\ restore = {} /\ holder = Nobody
        /\ connected \in BOOLEAN /\ gap \in BOOLEAN
    BY DEF Init
  <2>5. /\ pc \in [Threads -> {"idle", "query", "eval", "legacy", "record", "resync"}]
        /\ binding \in [Threads -> Keys \cup {NoKey}]
    BY DEF Init
  <2>6. Located /\ LockIsForResync
    BY LoopIsNoCaller DEF Init, Located, LockIsForResync, Threads
  <2> QED
    BY <2>1, <2>2, <2>3, <2>4, <2>5, <2>6 DEF IInv, TypeOK
<1> QED
  BY <1>1, InductiveStep, PTL DEF Spec

\* The variables keep their types.
THEOREM TypeCorrect == Spec => []TypeOK
BY Inductive, PTL DEF IInv

\* The mutex is held exactly during a resync.
THEOREM LockIsHeldForResync == Spec => []LockIsForResync
BY Inductive, PTL DEF IInv

\* A resync that gets to the recording of a keybind stays there, whatever the callers and
\* the compositor do: the counterpart, for all values, of the run in which ResyncEnds fails.
StuckForGood == [][Stuck => Stuck']_vars

THEOREM RecordingResyncIsStuck == Spec => [](pc[Loop] = "record" => Stuck) /\ StuckForGood
<1>1. IInv => (pc[Loop] = "record" => Stuck)
  BY DEF IInv, LockIsForResync, Stuck
<1>2. ASSUME IInv, Next, Stuck PROVE Stuck'
  <2> USE LoopIsNoCaller, NobodyIsNoThread DEF Stuck, GoTo, Threads
  <2>1. /\ pc \in [Threads -> {"idle", "query", "eval", "legacy", "record", "resync"}]
        /\ holder = Loop /\ Loop # Nobody /\ pc[Loop] = "record"
    BY <1>2 DEF IInv, TypeOK
  <2>2. ASSUME NEW t \in Threads, CallStep(t) PROVE Stuck'
    <3>1. t # Loop
      BY <2>1, <2>2 DEF CallStep, QueryBinds, EvalBind, LegacyBind, RequestBind, RecordBind
    <3>2. UNCHANGED holder /\ \E p : pc' = [pc EXCEPT ![t] = p]
      <4>1. CASE QueryBinds(t)
        BY <4>1 DEF QueryBinds, Return
      <4>2. CASE EvalBind(t)
        BY <4>2 DEF EvalBind, RequestBind, Return
      <4>3. CASE LegacyBind(t)
        BY <4>3 DEF LegacyBind, RequestBind, Return
      <4>4. CASE RecordBind(t)
        BY <4>4 DEF RecordBind, Return
      <4> QED
        BY <2>2, <4>1, <4>2, <4>3, <4>4 DEF CallStep
    <3> QED
      BY <2>1, <3>1, <3>2
  <2>3. ASSUME NEW t \in Threads, NEW k \in Keys, RegisterKeybind(t, k) PROVE Stuck'
    BY <2>1, <2>3 DEF RegisterKeybind
  <2>4. ~LoopStep
    BY <2>1 DEF LoopStep, Connect, HandleChange, HandleReload, ResyncNext, ResyncDone
  <2>5. CASE WorldChanges \/ Reload \/ Disconnect
    BY <2>1, <2>5 DEF WorldChanges, Reload, Disconnect
  <2> QED
    BY <1>2, <2>2, <2>3, <2>4, <2>5 DEF Next
<1>3. IInv /\ [Next]_vars => [Stuck => Stuck']_vars
  BY <1>2
<1> QED
  BY <1>1, <1>3, Inductive, PTL DEF Spec, StuckForGood
-----------------------------------------------------------------------------
(* The other integrations: what CompositorsProofs shows of any instance, for those of    *)
(* MCCompositors.                                                                        *)

AutomaticProofs == INSTANCE CompositorsProofs WITH
    Users <- Callers, Main <- Loop, Binds <- {"launcher"}, MaxEdition <- 0,
    MaxEvents <- 1, MaxFailures <- 0

StatusProofs == INSTANCE CompositorsProofs WITH
    Users <- {}, Main <- Loop, Binds <- {}, MaxEdition <- 1, MaxEvents <- 2, MaxFailures <- 1

LEMMA ConstantsOfAutomatic == AutomaticProofs!ConstantsAreMeant
BY CallersAreFinite DEF AutomaticProofs!ConstantsAreMeant, AutomaticProofs!IsFiniteSet, IsFiniteSet

LEMMA ConstantsOfStatus == StatusProofs!ConstantsAreMeant
BY FS_EmptySet DEF StatusProofs!ConstantsAreMeant, StatusProofs!IsFiniteSet, IsFiniteSet

\* The instances there and those of the proofs have the same starts, steps and promises.
LEMMA AutomaticStarts ==
    ASSUME Automatic!Init PROVE AutomaticProofs!Init
BY DEF
   Automatic!Init, Automatic!Cardinality, Automatic!Everyone, Automatic!Found,
   Automatic!Kinds, Automatic!Dropped, Automatic!StatusParts, Automatic!Empty,
   AutomaticProofs!Init, AutomaticProofs!Cardinality, AutomaticProofs!Everyone,
   AutomaticProofs!Found, AutomaticProofs!Kinds, AutomaticProofs!Dropped,
   AutomaticProofs!StatusParts, AutomaticProofs!Empty

LEMMA AutomaticSteps ==
    ASSUME Automatic!Next PROVE AutomaticProofs!Next
BY DEF
   Automatic!Everyone, Automatic!Found, Automatic!Kinds, Automatic!session,
   Automatic!holding, Automatic!stream, Automatic!Requests, Automatic!StatusParts,
   Automatic!Empty, Automatic!Dropped, Automatic!Go, Automatic!Hold, Automatic!Detected,
   Automatic!Backend, Automatic!Probe, Automatic!Swap, Automatic!Register,
   Automatic!Delegate, Automatic!Answer, Automatic!HyprlandAnswer, Automatic!SwayAnswer,
   Automatic!NiriAnswer, Automatic!GenericAnswer, Automatic!Filled, Automatic!Query,
   Automatic!Poll, Automatic!Connect, Automatic!ReadEvent, Automatic!CompositorStarts,
   Automatic!Changes, Automatic!Disconnects, Automatic!MainStep, Automatic!Next,
   AutomaticProofs!Everyone, AutomaticProofs!Found, AutomaticProofs!Kinds,
   AutomaticProofs!session, AutomaticProofs!holding, AutomaticProofs!stream,
   AutomaticProofs!Requests, AutomaticProofs!StatusParts, AutomaticProofs!Empty,
   AutomaticProofs!Dropped, AutomaticProofs!Go, AutomaticProofs!Hold,
   AutomaticProofs!Detected, AutomaticProofs!Backend, AutomaticProofs!Probe,
   AutomaticProofs!Swap, AutomaticProofs!Register, AutomaticProofs!Delegate,
   AutomaticProofs!Answer, AutomaticProofs!HyprlandAnswer, AutomaticProofs!SwayAnswer,
   AutomaticProofs!NiriAnswer, AutomaticProofs!GenericAnswer, AutomaticProofs!Filled,
   AutomaticProofs!Query, AutomaticProofs!Poll, AutomaticProofs!Connect,
   AutomaticProofs!ReadEvent, AutomaticProofs!CompositorStarts, AutomaticProofs!Changes,
   AutomaticProofs!Disconnects, AutomaticProofs!MainStep, AutomaticProofs!Next

LEMMA AutomaticMeans ==
    ASSUME AutomaticProofs!TypeOK, AutomaticProofs!CompositorsAreSound
    PROVE  Automatic!TypeOK /\ Automatic!CompositorsAreSound
BY DEF
   Automatic!TypeOK, Automatic!Cardinality, Automatic!Everyone, Automatic!Found,
   Automatic!Kinds, Automatic!Requests, Automatic!StatusParts, Automatic!Empty,
   Automatic!KeybindsStay, Automatic!StatusIsInOrder, Automatic!CompositorsAreSound,
   AutomaticProofs!TypeOK, AutomaticProofs!Cardinality, AutomaticProofs!Everyone,
   AutomaticProofs!Found, AutomaticProofs!Kinds, AutomaticProofs!Requests,
   AutomaticProofs!StatusParts, AutomaticProofs!Empty, AutomaticProofs!KeybindsStay,
   AutomaticProofs!StatusIsInOrder, AutomaticProofs!CompositorsAreSound

LEMMA AutomaticKeeps ==
    ASSUME AutomaticProofs!IInv, Automatic!Next \/ UNCHANGED autoVars
    PROVE  AutomaticProofs!IInv'
<1>1. CASE Automatic!Next
  BY <1>1, AutomaticSteps, ConstantsOfAutomatic, AutomaticProofs!InductiveStep
<1>2. CASE UNCHANGED autoVars
  <2>1. UNCHANGED AutomaticProofs!vars
    BY <1>2 DEF autoVars, AutomaticProofs!vars
  <2> QED
    BY <2>1, AutomaticProofs!Stutters
<1> QED
  BY <1>1, <1>2

LEMMA StatusStarts ==
    ASSUME Status!Init PROVE StatusProofs!Init
BY DEF
   Status!Init, Status!Cardinality, Status!Everyone, Status!Found, Status!Kinds,
   Status!Dropped, Status!StatusParts, Status!Empty, StatusProofs!Init,
   StatusProofs!Cardinality, StatusProofs!Everyone, StatusProofs!Found, StatusProofs!Kinds,
   StatusProofs!Dropped, StatusProofs!StatusParts, StatusProofs!Empty

LEMMA StatusSteps ==
    ASSUME Status!Next PROVE StatusProofs!Next
BY DEF
   Status!Everyone, Status!Found, Status!Kinds, Status!session, Status!holding,
   Status!stream, Status!Requests, Status!StatusParts, Status!Empty, Status!Dropped,
   Status!Go, Status!Hold, Status!Detected, Status!Backend, Status!Probe, Status!Swap,
   Status!Register, Status!Delegate, Status!Answer, Status!HyprlandAnswer,
   Status!SwayAnswer, Status!NiriAnswer, Status!GenericAnswer, Status!Filled, Status!Query,
   Status!Poll, Status!Connect, Status!ReadEvent, Status!CompositorStarts, Status!Changes,
   Status!Disconnects, Status!MainStep, Status!Next, StatusProofs!Everyone,
   StatusProofs!Found, StatusProofs!Kinds, StatusProofs!session, StatusProofs!holding,
   StatusProofs!stream, StatusProofs!Requests, StatusProofs!StatusParts,
   StatusProofs!Empty, StatusProofs!Dropped, StatusProofs!Go, StatusProofs!Hold,
   StatusProofs!Detected, StatusProofs!Backend, StatusProofs!Probe, StatusProofs!Swap,
   StatusProofs!Register, StatusProofs!Delegate, StatusProofs!Answer,
   StatusProofs!HyprlandAnswer, StatusProofs!SwayAnswer, StatusProofs!NiriAnswer,
   StatusProofs!GenericAnswer, StatusProofs!Filled, StatusProofs!Query, StatusProofs!Poll,
   StatusProofs!Connect, StatusProofs!ReadEvent, StatusProofs!CompositorStarts,
   StatusProofs!Changes, StatusProofs!Disconnects, StatusProofs!MainStep, StatusProofs!Next

LEMMA StatusMeans ==
    ASSUME StatusProofs!TypeOK, StatusProofs!CompositorsAreSound
    PROVE  Status!TypeOK /\ Status!CompositorsAreSound
BY DEF
   Status!TypeOK, Status!Cardinality, Status!Everyone, Status!Found, Status!Kinds,
   Status!Requests, Status!StatusParts, Status!Empty, Status!KeybindsStay,
   Status!StatusIsInOrder, Status!CompositorsAreSound, StatusProofs!TypeOK,
   StatusProofs!Cardinality, StatusProofs!Everyone, StatusProofs!Found, StatusProofs!Kinds,
   StatusProofs!Requests, StatusProofs!StatusParts, StatusProofs!Empty,
   StatusProofs!KeybindsStay, StatusProofs!StatusIsInOrder,
   StatusProofs!CompositorsAreSound

LEMMA StatusKeeps ==
    ASSUME StatusProofs!IInv, Status!Next \/ UNCHANGED autoVars
    PROVE  StatusProofs!IInv'
<1>1. CASE Status!Next
  BY <1>1, StatusSteps, ConstantsOfStatus, StatusProofs!InductiveStep
<1>2. CASE UNCHANGED autoVars
  <2>1. UNCHANGED StatusProofs!vars
    BY <1>2 DEF autoVars, StatusProofs!vars
  <2> QED
    BY <2>1, StatusProofs!Stutters
<1> QED
  BY <1>1, <1>2

\* The invariant of the instance that moves.
BesideInv ==
    /\ part = "auto" => AutomaticProofs!IInv
    /\ part = "status" => StatusProofs!IInv

LEMMA BesideStart == AllInit => BesideInv
<1> SUFFICES ASSUME AllInit PROVE BesideInv
  OBVIOUS
<1>1. ASSUME part = "auto" PROVE AutomaticProofs!IInv
  <2>1. Automatic!Init
    BY <1>1 DEF AllInit
  <2> QED
    BY <2>1, AutomaticStarts, ConstantsOfAutomatic, AutomaticProofs!Starts
<1>2. ASSUME part = "status" PROVE StatusProofs!IInv
  <2>1. Status!Init
    BY <1>2 DEF AllInit
  <2> QED
    BY <2>1, StatusStarts, ConstantsOfStatus, StatusProofs!Starts
<1> QED
  BY <1>1, <1>2 DEF BesideInv

LEMMA BesideStep ==
    ASSUME BesideInv, [AllNext]_allVars PROVE BesideInv'
<1>1. /\ part' = part
      /\ part = "auto" => Automatic!Next \/ UNCHANGED autoVars
      /\ part = "status" => Status!Next \/ UNCHANGED autoVars
  BY DEF AllNext, Hyprland, Beside, allVars
<1> QED
  BY <1>1, AutomaticKeeps, StatusKeeps DEF BesideInv

\* Whichever integration moves, it keeps the keybinds it was asked to keep, and a status
\* is of moments in the order of its requests.
THEOREM CompositorsStaySound == AllSpec => []CompositorsAreSound
<1>1. ASSUME BesideInv PROVE CompositorsAreSound
  <2>1. ASSUME part = "auto" PROVE Automatic!TypeOK /\ Automatic!CompositorsAreSound
    BY <1>1, <2>1, ConstantsOfAutomatic, AutomaticProofs!InvariantMeans, AutomaticMeans DEF BesideInv
  <2>2. ASSUME part = "status" PROVE Status!TypeOK /\ Status!CompositorsAreSound
    BY <1>1, <2>2, ConstantsOfStatus, StatusProofs!InvariantMeans, StatusMeans DEF BesideInv
  <2> QED
    BY <2>1, <2>2 DEF CompositorsAreSound
<1> QED
  BY <1>1, BesideStart, BesideStep, PTL DEF AllSpec
=============================================================================
