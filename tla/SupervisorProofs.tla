-------------------------- MODULE SupervisorProofs --------------------------
(***************************************************************************)
(* Proofs about Supervisor.  Control is the inductive invariant of the     *)
(* supervisor's bookkeeping, Reporting the one of the Down reports.        *)
(* Ordered is the one of the channel, on which it rests that Supervisor    *)
(* implements ModuleNews.                                                  *)
(***************************************************************************)
EXTENDS Supervisor, FiniteSetTheorems, TLAPS

\* Where the call in progress stands determines what its locals hold.
CallLocals ==
    /\ pc = "joining" <=> joining # NoInst
    /\ joining # NoInst => target = name[joining]
    /\ pc = "reporting" <=> terminated # {}
    /\ pc = "spawning" =>
           /\ target \in Names
           /\ command_routes[target] = NoInst
           /\ \A i \in Managed : name[i] # target

\* Instances are spawned in order, under a proper name.
Births ==
    \A i \in Inst : /\ phase[i] = "unborn" <=> made < i
                    /\ phase[i] # "unborn" => name[i] \in Names
                    /\ phase[i] = "unborn" => downs[i] = 0 /\ left[i] = "no"

\* What the history variable left says, against the state it summarises.
Departures ==
    \A i \in Inst :
        /\ i \in wasm_tasks <=> phase[i] # "unborn" /\ left[i] = "no"
        /\ i \in terminated => left[i] = "reaped"
        /\ i = joining => left[i] = "stopped"
        /\ left[i] = "reaped" => phase[i] = "finished"
        /\ left[i] = "stopped" => phase[i] = "finished" \/ i = joining
        /\ aborted[i] => left[i] \in {"stopped", "killed"}

\* A managed instance is the youngest of its name.
Youngest ==
    \A i \in Managed, j \in Inst :
        phase[j] # "unborn" /\ name[i] = name[j] => j <= i

Control == CallLocals /\ Births /\ Departures /\ Youngest /\ TasksAndRoutesAgree

\* Every instance was spawned under the name in its manifest.
ManifestNamesAgree == \A n \in Names : ManifestName[n] = n

\* One Down per instance; while a reported instance is managed its flag stands.
ReportedOnce ==
    \A i \in Inst :
        /\ downs[i] \in {0, 1}
        /\ downs[i] = 1 => phase[i] = "finished"
        /\ downs[i] = 1 \/ phase[i] = "downing" => (i \in Managed => name[i] \in emitted_down)

\* A flag stands for a managed instance that reports or has reported itself, or
\* that is being stopped, or for an orphan.
FlagsHaveOwners ==
    \A f \in emitted_down :
        \/ \E i \in Managed :
               /\ name[i] = f
               /\ \/ phase[i] = "downing"
                  \/ phase[i] = "finished" /\ downs[i] = 1
                  \/ i = joining
        \/ \E k \in Inst : Orphan(k) /\ name[k] = f

Reporting == ReportedOnce /\ FlagsHaveOwners /\ NoLostDown


-----------------------------------------------------------------------------
(* Types *)

LEMMA AppendTyped ==
    ASSUME NEW S, NEW s \in Seq(S), NEW e \in S
    PROVE  Append(s, e) \in Seq(S)
OBVIOUS

LEMMA TailTyped ==
    ASSUME NEW S, NEW s \in Seq(S), s # <<>>
    PROVE  Tail(s) \in Seq(S) /\ Head(s) \in S
OBVIOUS

\* Appending a message keeps the channel typed.
LEMMA SendTyped ==
    ASSUME TypeOK, NEW i \in Inst, NEW k \in Kinds,
           updates' = Append(updates, [inst |-> i, kind |-> k])
    PROVE  updates' \in Seq(Messages)
<1>1. [inst |-> i, kind |-> k] \in Messages
  BY DEF Messages
<1> QED
  BY <1>1, AppendTyped DEF TypeOK

\* So does appending a command to a queue, or taking one from it.
LEMMA QueueTyped ==
    ASSUME TypeOK, NEW i \in Inst, NEW q \in Seq({"Event", "Shutdown"}),
           cmds' = [cmds EXCEPT ![i] = q]
    PROVE  cmds' \in [Inst -> Seq({"Event", "Shutdown"})]
BY DEF TypeOK

\* Only an instance with a proper name ever runs.
Named ==
    /\ pc \in {"joining", "spawning"} => target \in Names
    /\ \A i \in Inst : phase[i] # "unborn" => name[i] \in Names

\* The variables of every reachable state have their types.
THEOREM TypesAndNames == Spec => [](TypeOK /\ Named)
<1> USE NamesAreLabels, ManifestNameType, BoundsArePositive
<1>1. Init => TypeOK /\ Named
  <2> SUFFICES ASSUME Init PROVE TypeOK /\ Named
    OBVIOUS
  <2>1. cmds \in [Inst -> Seq({"Event", "Shutdown"})]
    BY DEF Init
  <2>2. updates \in Seq(Messages)
    BY DEF Init
  <2>3. made \in 0..MaxInst
    BY DEF Init
  <2> QED
    BY <2>1, <2>2, <2>3 DEF Init, TypeOK, Named, Inst, NoInst, Phases, Controls
<1>2. TypeOK /\ Named /\ [Next]_vars => (TypeOK /\ Named)'
  <2> SUFFICES ASSUME TypeOK, Named, [Next]_vars PROVE (TypeOK /\ Named)'
    OBVIOUS
  <2> DEFINE CmdsTyped == cmds' \in [Inst -> Seq({"Event", "Shutdown"})]
             ChanTyped == updates' \in Seq(Messages)
  <2> USE DEF TypeOK, Named, Inst, NoInst, Phases, Controls
  <2>1. ASSUME NEW n \in Names, NEW b \in BOOLEAN, RemoveAndSignal(n, b)
        PROVE  (TypeOK /\ Named)'
    <3>1. CmdsTyped
      <4>1. CASE UNCHANGED cmds
        BY <4>1
      <4>2. CASE command_routes[n] # NoInst
                 /\ cmds' = [cmds EXCEPT ![command_routes[n]] = Append(@, "Shutdown")]
        <5>1. Append(cmds[command_routes[n]], "Shutdown") \in Seq({"Event", "Shutdown"})
          BY <4>2, AppendTyped
        <5> QED
          BY <4>2, <5>1, QueueTyped
      <4> QED
        BY <2>1, <4>1, <4>2 DEF RemoveAndSignal, TryShutdown
    <3>2. ChanTyped
      BY <2>1 DEF RemoveAndSignal, chanVars
    <3>3. PICK i \in wasm_tasks :
            /\ wasm_tasks' = wasm_tasks \ {i}
            /\ left' = [left EXCEPT ![i] = "stopped"]
            /\ joining' = i /\ target' = n /\ respawn' = b /\ pc' = "joining"
            /\ UNCHANGED <<command_routes, emitted_down, terminated, made, name,
                           phase, aborted, late, downs, heard>>
      BY <2>1 DEF RemoveAndSignal, chanVars
    <3> QED
      BY <3>1, <3>2, <3>3
  <2>2. ASSUME NEW n \in Names, NEW b \in BOOLEAN, ForgetName(n, b)
        PROVE  (TypeOK /\ Named)'
    BY <2>2 DEF ForgetName, runnerVars, chanVars, history
  <2>3. ASSUME NEW n \in Names, StopModule(n) PROVE (TypeOK /\ Named)'
    BY <2>1, <2>2, <2>3 DEF StopModule
  <2>4. ASSUME NEW n \in Names, SpawnModule(n) PROVE (TypeOK /\ Named)'
    BY <2>1, <2>2, <2>4 DEF SpawnModule, runnerVars, chanVars, history
  <2>5. CASE StopJoined
    BY <2>5 DEF StopJoined, runnerVars, chanVars, history
  <2>6. CASE StopTimeout
    BY <2>6 DEF StopTimeout, supVars, chanVars, history
  <2>7. CASE SpawnInstance
    <3>1. made' \in 0 .. MaxInst /\ made + 1 \in Inst
      BY <2>7 DEF SpawnInstance
    <3>2. CmdsTyped /\ ChanTyped
      BY <2>7 DEF SpawnInstance, chanVars
    <3> QED
      BY <2>7, <3>1, <3>2 DEF SpawnInstance, chanVars, history
  <2>8. CASE SpawnNothing
    BY <2>8 DEF SpawnNothing, runnerVars, chanVars, history
  <2>9. CASE KillAll
    BY <2>9 DEF KillAll, chanVars, history
  <2>10. CASE ReapScan
    BY <2>10 DEF ReapScan, runnerVars, chanVars, history
  <2>11. CASE ReapReport
    <3>1. PICK i \in terminated :
            \/ UNCHANGED <<downs, chanVars>>
            \/ EmitDown(i)
      BY <2>11 DEF ReapReport
    <3>2. ChanTyped /\ late' \subseteq Inst /\ downs' \in [Inst -> Nat]
      <4>1. CASE UNCHANGED <<downs, chanVars>>
        BY <4>1 DEF chanVars
      <4>2. CASE EmitDown(i)
        <5>1. "Down" \in Kinds
          BY DEF Kinds
        <5>2. downs' \in [Inst -> Nat] /\ i \in Inst
          BY <4>2 DEF EmitDown
        <5>3. CASE UpdatesHaveRoom
          BY <4>2, <5>1, <5>2, <5>3, SendTyped DEF EmitDown
        <5>4. CASE ~UpdatesHaveRoom
          BY <4>2, <5>2, <5>4 DEF EmitDown
        <5> QED
          BY <5>3, <5>4
      <4> QED
        BY <3>1, <4>1, <4>2
    <3> QED
      BY <2>11, <3>2 DEF ReapReport, runnerVars
  <2>12. ASSUME NEW i \in Inst, RunnerStep(i) PROVE (TypeOK /\ Named)'
    <3> USE DEF SetPhase, supVars, chanVars, history
    <3>1. ASSUME HasEvent(i), ConsumeCommand(i) PROVE CmdsTyped
      <4>1. cmds[i] # <<>> => Tail(cmds[i]) \in Seq({"Event", "Shutdown"})
        BY TailTyped
      <4> QED
        BY <3>1, <4>1, QueueTyped DEF ConsumeCommand
    <3>2. ASSUME Finish(i) PROVE CmdsTyped
      <4>1. <<>> \in Seq({"Event", "Shutdown"})
        OBVIOUS
      <4> QED
        BY <3>2, <4>1, QueueTyped DEF Finish
    <3>3. CASE RunnerReady(i)
      <4>1. ChanTyped
        BY <3>3, SendTyped DEF RunnerReady, Kinds
      <4> QED
        BY <3>3, <4>1 DEF RunnerReady
    <3>4. CASE RunnerInitCode(i)
      BY <3>4 DEF RunnerInitCode
    <3>5. CASE RunnerInitFails(i)
      <4>1. CmdsTyped
        BY <3>5, <3>2 DEF RunnerInitFails
      <4> QED
        BY <3>5, <4>1 DEF RunnerInitFails, Finish
    <3>6. CASE RunnerHandles(i)
      <4>1. CmdsTyped
        BY <3>6, <3>1 DEF RunnerHandles
      <4>2. ChanTyped
        BY <3>6, SendTyped DEF RunnerHandles, Kinds
      <4> QED
        BY <3>6, <4>1, <4>2 DEF RunnerHandles
    <3>7. CASE RunnerTraps(i)
      <4>1. CmdsTyped
        BY <3>7, <3>1 DEF RunnerTraps
      <4>2. ManifestName[name[i]] \in Labels
        BY <3>7 DEF RunnerTraps, HasEvent
      <4> QED
        BY <3>7, <4>1, <4>2 DEF RunnerTraps, HasEvent
    <3>8. CASE RunnerFails(i)
      <4>1. CmdsTyped
        BY <3>8, <3>2 DEF RunnerFails
      <4> QED
        BY <3>8, <4>1 DEF RunnerFails, Finish, HasEvent
    <3>9. CASE RunnerSendsDown(i)
      <4>1. CmdsTyped
        BY <3>9, <3>2 DEF RunnerSendsDown
      <4>2. ChanTyped
        BY <3>9, SendTyped DEF RunnerSendsDown, Kinds
      <4> QED
        BY <3>9, <4>1, <4>2 DEF RunnerSendsDown, Finish
    <3>10. CASE RunnerExits(i)
      <4>1. CmdsTyped
        BY <3>10, <3>2 DEF RunnerExits
      <4>2. phase[i] = "running" /\ Finish(i)
            /\ UNCHANGED <<supVars, emitted_down, made, name, aborted, chanVars, history>>
        BY <3>10 DEF RunnerExits
      <4> QED
        BY <4>1, <4>2 DEF Finish
    <3>11. CASE RunnerCancelled(i)
      <4>1. CmdsTyped
        BY <3>11, <3>2 DEF RunnerCancelled
      <4> QED
        BY <3>11, <4>1 DEF RunnerCancelled, Finish
    <3> QED
      BY <2>12, <3>3, <3>4, <3>5, <3>6, <3>7, <3>8, <3>9, <3>10, <3>11 DEF RunnerStep
  <2>13. ASSUME NEW i \in Inst, LateDownSent(i) PROVE (TypeOK /\ Named)'
    <3>1. ChanTyped
      BY <2>13, SendTyped DEF LateDownSent, Kinds
    <3> QED
      BY <2>13, <3>1 DEF LateDownSent, supVars, runnerVars, history
  <2>14. ASSUME NEW n \in Names, HostSends(n) PROVE (TypeOK /\ Named)'
    <3>1. CmdsTyped
      <4>1. command_routes[n] \in Inst
        BY <2>14 DEF HostSends
      <4>2. Append(cmds[command_routes[n]], "Event") \in Seq({"Event", "Shutdown"})
        BY <4>1, AppendTyped
      <4> QED
        BY <2>14, <4>1, <4>2, QueueTyped DEF HostSends
    <3> QED
      BY <2>14, <3>1 DEF HostSends, supVars, chanVars, history
  <2>15. CASE Receive
    <3>1. ChanTyped /\ Head(updates).inst \in Inst
      <4>1. Tail(updates) \in Seq(Messages) /\ Head(updates) \in Messages
        BY <2>15, TailTyped DEF Receive
      <4> QED
        BY <2>15, <4>1 DEF Receive, Messages
    <3>2. heard' \in [Inst -> {"nothing", "Ready", "Down"}]
      BY <2>15, <3>1 DEF Receive
    <3> QED
      BY <2>15, <3>1, <3>2 DEF Receive, supVars, runnerVars
  <2>16. CASE UNCHANGED vars
    BY <2>16 DEF vars, supVars, runnerVars, chanVars, history
  <2> QED
    BY <2>3, <2>4, <2>5, <2>6, <2>7, <2>8, <2>9, <2>10, <2>11, <2>12, <2>13,
       <2>14, <2>15, <2>16 DEF Next, SupervisorStep
<1> QED
  BY <1>1, <1>2, PTL DEF Spec

THEOREM TypeCorrect == Spec => []TypeOK
BY TypesAndNames, PTL

-----------------------------------------------------------------------------
(* The bookkeeping of the supervisor *)

\* What any step of a runner does to the state that is not its own queue or the
\* channel.
RunnerEffect(i, p) ==
    /\ phase[i] \in {"starting", "running", "downing"}
    /\ phase' = [phase EXCEPT ![i] = p]
    /\ \/ UNCHANGED <<emitted_down, downs>> /\ (phase[i] = "downing" => aborted[i])
          /\ p # "downing"
       \/ /\ phase[i] = "running" /\ p = "downing"
          /\ emitted_down' = emitted_down \cup {ManifestName[name[i]]}
          /\ UNCHANGED downs
       \/ /\ phase[i] = "downing" /\ p = "finished"
          /\ downs' = [downs EXCEPT ![i] = @ + 1]
          /\ UNCHANGED emitted_down
    /\ UNCHANGED <<command_routes, wasm_tasks, pc, target, respawn, joining,
                   terminated, made, name, aborted, left>>

LEMMA RunnerStepEffect ==
    ASSUME TypeOK, NEW i \in Inst, RunnerStep(i)
    PROVE  \E p \in Phases \ {"unborn"} : RunnerEffect(i, p)
<1> USE DEF SetPhase, Finish, supVars, history, chanVars, Phases
<1>1. CASE RunnerReady(i)
  BY <1>1 DEF RunnerReady, RunnerEffect
<1>2. CASE RunnerInitCode(i)
  BY <1>2 DEF RunnerInitCode, RunnerEffect
<1>3. CASE RunnerInitFails(i)
  BY <1>3 DEF RunnerInitFails, RunnerEffect
<1>4. CASE RunnerHandles(i)
  <2>1. phase' = [phase EXCEPT ![i] = "running"] /\ phase[i] = "running"
    BY <1>4 DEF RunnerHandles, HasEvent, TypeOK
  <2> QED
    BY <1>4, <2>1 DEF RunnerHandles, RunnerEffect
<1>5. CASE RunnerTraps(i)
  BY <1>5 DEF RunnerTraps, HasEvent, RunnerEffect
<1>6. CASE RunnerFails(i)
  BY <1>6 DEF RunnerFails, HasEvent, RunnerEffect
<1>7. CASE RunnerSendsDown(i)
  BY <1>7 DEF RunnerSendsDown, RunnerEffect
<1>8. CASE RunnerExits(i)
  <2>1. phase[i] = "running" /\ Finish(i)
        /\ UNCHANGED <<supVars, emitted_down, made, name, aborted, chanVars, history>>
    BY <1>8 DEF RunnerExits
  <2> QED
    BY <2>1 DEF RunnerEffect
<1>9. CASE RunnerCancelled(i)
  BY <1>9 DEF RunnerCancelled, RunnerEffect
<1> QED
  BY <1>1, <1>2, <1>3, <1>4, <1>5, <1>6, <1>7, <1>8, <1>9 DEF RunnerStep

\* The bookkeeping invariant holds in every reachable state.
LEMMA ControlStep ==
    ASSUME TypeOK, Named, Control, [Next]_vars PROVE Control'
<1> USE DEF TypeOK, Named, Inst, NoInst, Control
<1> DEFINE Ctrl == CallLocals' /\ Births' /\ Departures' /\ Youngest' /\ TasksAndRoutesAgree'
<1>1. ASSUME pc = "idle", NEW n \in Names, NEW b \in BOOLEAN, RemoveAndSignal(n, b)
      PROVE  Ctrl
  <2>0. PICK i \in wasm_tasks :
          /\ name[i] = n
          /\ wasm_tasks' = wasm_tasks \ {i}
          /\ left' = [left EXCEPT ![i] = "stopped"]
          /\ joining' = i /\ target' = n /\ respawn' = b /\ pc' = "joining"
          /\ UNCHANGED <<command_routes, terminated, made, name, phase, aborted, downs>>
    BY <1>1 DEF RemoveAndSignal, FirstTask, TasksOf
  <2>1. CallLocals'
    BY <1>1, <2>0 DEF Managed, CallLocals, Departures
  <2>2. Births'
    BY <1>1, <2>0 DEF Managed, Births, CallLocals, Departures
  <2>3. Departures'
    BY <1>1, <2>0 DEF Managed, Departures, CallLocals, Births
  <2>4. Youngest'
    BY <1>1, <2>0 DEF Managed, Youngest, CallLocals, Births, Departures
  <2>5. TasksAndRoutesAgree'
    BY <1>1, <2>0 DEF Managed, TasksAndRoutesAgree, CallLocals, Youngest, Births,
       Departures
  <2> QED
    BY <2>1, <2>2, <2>3, <2>4, <2>5
<1>2. ASSUME pc = "idle", NEW n \in Names, NEW b \in BOOLEAN, ForgetName(n, b)
      PROVE  Ctrl
  <2>1. CallLocals'
    BY <1>2 DEF ForgetName, TasksOf, runnerVars, chanVars, history, Managed,
       CallLocals, Departures
  <2>2. Births'
    BY <1>2 DEF ForgetName, TasksOf, runnerVars, chanVars, history, Managed, Births,
       CallLocals, Departures
  <2>3. Departures'
    BY <1>2 DEF ForgetName, TasksOf, runnerVars, chanVars, history, Managed,
       Departures, CallLocals, Births
  <2>4. Youngest'
    BY <1>2 DEF ForgetName, TasksOf, runnerVars, chanVars, history, Managed,
       Youngest, CallLocals, Births, Departures
  <2>5. TasksAndRoutesAgree'
    BY <1>2 DEF ForgetName, TasksOf, runnerVars, chanVars, history, Managed,
       TasksAndRoutesAgree, CallLocals, Youngest, Births, Departures
  <2> QED
    BY <2>1, <2>2, <2>3, <2>4, <2>5
<1>3. ASSUME pc = "idle", NEW n \in Names, TasksOf(n) = {}, command_routes[n] = NoInst,
             target' = n, pc' = "spawning",
             UNCHANGED <<command_routes, wasm_tasks, respawn, joining, terminated, made,
                         name, phase, aborted, left, downs>>
      PROVE  Ctrl
  <2>1. CallLocals'
    BY <1>3 DEF TasksOf, Managed, CallLocals, Departures
  <2>2. Births'
    BY <1>3 DEF TasksOf, Managed, Births, CallLocals, Departures
  <2>3. Departures'
    BY <1>3 DEF TasksOf, Managed, Departures, CallLocals, Births
  <2>4. Youngest'
    BY <1>3 DEF TasksOf, Managed, Youngest, CallLocals, Births, Departures
  <2>5. TasksAndRoutesAgree'
    BY <1>3 DEF TasksOf, Managed, TasksAndRoutesAgree, CallLocals, Youngest, Births,
       Departures
  <2> QED
    BY <2>1, <2>2, <2>3, <2>4, <2>5
<1>4. CASE StopJoined
  <2>1. CallLocals'
    BY <1>4 DEF StopJoined, runnerVars, chanVars, history, Managed, CallLocals,
       Departures, TasksAndRoutesAgree
  <2>2. Births'
    BY <1>4 DEF StopJoined, runnerVars, chanVars, history, Managed, Births,
       CallLocals, Departures
  <2>3. Departures'
    BY <1>4 DEF StopJoined, runnerVars, chanVars, history, Managed, Departures,
       CallLocals, Births
  <2>4. Youngest'
    BY <1>4 DEF StopJoined, runnerVars, chanVars, history, Managed, Youngest,
       CallLocals, Births, Departures
  <2>5. TasksAndRoutesAgree'
    BY <1>4 DEF StopJoined, runnerVars, chanVars, history, Managed,
       TasksAndRoutesAgree, CallLocals, Youngest, Births, Departures
  <2> QED
    BY <2>1, <2>2, <2>3, <2>4, <2>5
<1>5. CASE StopTimeout
  <2>1. CallLocals'
    BY <1>5 DEF StopTimeout, supVars, chanVars, history, Managed, CallLocals,
       Departures
  <2>2. Births'
    BY <1>5 DEF StopTimeout, supVars, chanVars, history, Managed, Births,
       CallLocals, Departures
  <2>3. Departures'
    BY <1>5 DEF StopTimeout, supVars, chanVars, history, Managed, Departures,
       CallLocals, Births
  <2>4. Youngest'
    BY <1>5 DEF StopTimeout, supVars, chanVars, history, Managed, Youngest,
       CallLocals, Births, Departures
  <2>5. TasksAndRoutesAgree'
    BY <1>5 DEF StopTimeout, supVars, chanVars, history, Managed,
       TasksAndRoutesAgree, CallLocals, Youngest, Births, Departures
  <2> QED
    BY <2>1, <2>2, <2>3, <2>4, <2>5
<1>6. CASE SpawnInstance
  <2>a. made + 1 \in Inst /\ joining = NoInst /\ terminated = {} /\ target \in Names
    BY <1>6, BoundsArePositive DEF SpawnInstance, CallLocals
  <2>b. phase[made + 1] = "unborn" /\ \A i \in wasm_tasks : i # made + 1
    BY <2>a DEF Births, Departures
  <2>c. \A i \in wasm_tasks : name'[i] = name[i] /\ name[i] # target
    BY <1>6, <2>a, <2>b DEF SpawnInstance, CallLocals, Managed
  <2>d. name'[made + 1] = target
    BY <1>6, <2>a DEF SpawnInstance
  <2>0. /\ made + 1 \in Inst /\ phase[made + 1] = "unborn" /\ joining = NoInst /\ terminated = {}
        /\ \A i \in wasm_tasks : i # made + 1 /\ name'[i] = name[i] /\ name[i] # target
        /\ name'[made + 1] = target /\ target \in Names
    BY <2>a, <2>b, <2>c, <2>d
  <2>1. CallLocals'
    BY <1>6 DEF SpawnInstance, chanVars, history, Managed, CallLocals, Departures
  <2>2. Births'
    BY <1>6 DEF SpawnInstance, chanVars, history, Managed, Births, CallLocals,
       Departures
  <2>3. Departures'
    BY <1>6 DEF SpawnInstance, chanVars, history, Managed, Departures, CallLocals,
       Births
  <2>4. Youngest'
    BY <1>6 DEF SpawnInstance, chanVars, history, Managed, Youngest, CallLocals,
       Births, Departures
  <2>5. TasksAndRoutesAgree'
    BY <1>6, <2>0 DEF SpawnInstance, Managed, TasksAndRoutesAgree
  <2> QED
    BY <2>1, <2>2, <2>3, <2>4, <2>5
<1>7. CASE SpawnNothing
  <2>1. CallLocals'
    BY <1>7 DEF SpawnNothing, runnerVars, chanVars, history, Managed, CallLocals,
       Departures
  <2>2. Births'
    BY <1>7 DEF SpawnNothing, runnerVars, chanVars, history, Managed, Births,
       CallLocals, Departures
  <2>3. Departures'
    BY <1>7 DEF SpawnNothing, runnerVars, chanVars, history, Managed, Departures,
       CallLocals, Births
  <2>4. Youngest'
    BY <1>7 DEF SpawnNothing, runnerVars, chanVars, history, Managed, Youngest,
       CallLocals, Births, Departures
  <2>5. TasksAndRoutesAgree'
    BY <1>7 DEF SpawnNothing, runnerVars, chanVars, history, Managed,
       TasksAndRoutesAgree, CallLocals, Youngest, Births, Departures
  <2> QED
    BY <2>1, <2>2, <2>3, <2>4, <2>5
<1>8. CASE KillAll
  <2>1. CallLocals'
    BY <1>8 DEF KillAll, chanVars, Managed, CallLocals, Departures
  <2>2. Births'
    BY <1>8 DEF KillAll, chanVars, Managed, Births, CallLocals, Departures
  <2>3. Departures'
    BY <1>8 DEF KillAll, chanVars, Managed, Departures, CallLocals, Births
  <2>4. Youngest'
    BY <1>8 DEF KillAll, chanVars, Managed, Youngest, CallLocals, Births, Departures
  <2>5. TasksAndRoutesAgree'
    BY <1>8 DEF KillAll, chanVars, Managed, TasksAndRoutesAgree, CallLocals,
       Youngest, Births, Departures
  <2> QED
    BY <2>1, <2>2, <2>3, <2>4, <2>5
<1>9. CASE ReapScan
  <2>1. CallLocals'
    BY <1>9 DEF ReapScan, runnerVars, chanVars, Managed, CallLocals, Departures
  <2>2. Births'
    BY <1>9 DEF ReapScan, runnerVars, chanVars, Managed, Births, CallLocals,
       Departures
  <2>3. Departures'
    BY <1>9 DEF ReapScan, runnerVars, chanVars, Managed, Departures, CallLocals,
       Births
  <2>4. Youngest'
    BY <1>9 DEF ReapScan, runnerVars, chanVars, Managed, Youngest, CallLocals,
       Births, Departures
  <2>5. TasksAndRoutesAgree'
    BY <1>9 DEF ReapScan, runnerVars, chanVars, Managed, TasksAndRoutesAgree,
       CallLocals, Youngest, Births, Departures
  <2> QED
    BY <2>1, <2>2, <2>3, <2>4, <2>5
<1>10. CASE ReapReport
  <2>0. \A i \in Inst : phase[i] = "unborn" => downs'[i] = downs[i]
    BY <1>10 DEF ReapReport, EmitDown, Births, Departures
  <2>1. CallLocals'
    BY <1>10 DEF ReapReport, runnerVars, Managed, CallLocals, Departures
  <2>2. Births'
    BY <1>10, <2>0 DEF ReapReport, runnerVars, Births, Departures
  <2>3. Departures'
    BY <1>10 DEF ReapReport, runnerVars, Managed, Departures, CallLocals, Births
  <2>4. Youngest'
    BY <1>10 DEF ReapReport, runnerVars, Managed, Youngest, CallLocals, Births,
       Departures
  <2>5. TasksAndRoutesAgree'
    BY <1>10 DEF ReapReport, runnerVars, Managed, TasksAndRoutesAgree, CallLocals,
       Youngest, Births, Departures
  <2> QED
    BY <2>1, <2>2, <2>3, <2>4, <2>5
<1>11. ASSUME NEW i \in Inst, RunnerStep(i) PROVE Ctrl
  <2>0. PICK p \in Phases \ {"unborn"} : RunnerEffect(i, p)
    BY <1>11, RunnerStepEffect
  <2>1. CallLocals'
    BY <2>0 DEF RunnerEffect, Phases, Managed, CallLocals, Departures
  <2>2. Births'
    BY <2>0 DEF RunnerEffect, Phases, Managed, Births, CallLocals, Departures
  <2>3. Departures'
    BY <2>0 DEF RunnerEffect, Phases, Managed, Departures, CallLocals, Births
  <2>4. Youngest'
    BY <2>0 DEF RunnerEffect, Phases, Managed, Youngest, CallLocals, Births,
       Departures
  <2>5. TasksAndRoutesAgree'
    BY <2>0 DEF RunnerEffect, Phases, Managed, TasksAndRoutesAgree, CallLocals,
       Youngest, Births, Departures
  <2> QED
    BY <2>1, <2>2, <2>3, <2>4, <2>5
<1>12. ASSUME UNCHANGED <<command_routes, wasm_tasks, pc, target, respawn, joining,
                          terminated, made, name, phase, aborted, left, downs>>
       PROVE  Ctrl
  BY <1>12 DEF CallLocals, Births, Departures, Youngest, TasksAndRoutesAgree, Managed
<1>13. ASSUME NEW n \in Names, StopModule(n) PROVE Ctrl
  BY <1>1, <1>2, <1>13 DEF StopModule
<1>14. ASSUME NEW n \in Names, SpawnModule(n) PROVE Ctrl
  <2>1. pc = "idle"
    BY <1>14 DEF SpawnModule
  <2>2. CASE RemoveAndSignal(n, TRUE)
    BY <1>1, <2>1, <2>2
  <2>3. CASE ForgetName(n, TRUE)
    BY <1>2, <2>1, <2>3
  <2>4. CASE ~RemoveAndSignal(n, TRUE) /\ ~ForgetName(n, TRUE)
    <3>1. /\ TasksOf(n) = {} /\ command_routes[n] = NoInst
          /\ target' = n /\ pc' = "spawning"
          /\ UNCHANGED <<command_routes, wasm_tasks, respawn, joining, terminated, made,
                         name, phase, aborted, left, downs>>
      BY <1>14, <2>4 DEF SpawnModule, runnerVars, history
    <3> QED
      BY <1>3, <2>1, <3>1
  <2> QED
    BY <2>2, <2>3, <2>4
<1>15. ASSUME NEW i \in Inst, LateDownSent(i) PROVE Ctrl
  BY <1>12, <1>15 DEF LateDownSent, supVars, runnerVars, history
<1>16. ASSUME NEW n \in Names, HostSends(n) PROVE Ctrl
  BY <1>12, <1>16 DEF HostSends, supVars, history
<1>17. CASE Receive
  BY <1>12, <1>17 DEF Receive, supVars, runnerVars
<1>18. CASE UNCHANGED vars
  BY <1>12, <1>18 DEF vars, supVars, runnerVars, history
<1> HIDE DEF TypeOK, Named, Inst, NoInst
<1>19. Ctrl
  BY <1>4, <1>5, <1>6, <1>7, <1>8, <1>9, <1>10, <1>11, <1>13, <1>14, <1>15, <1>16,
     <1>17, <1>18 DEF Next, SupervisorStep
<1> QED
  BY <1>19

\* The bookkeeping invariant, and with it TasksAndRoutesAgree, in every
\* reachable state.
THEOREM TasksAndRoutesAlwaysAgree == Spec => [](Control /\ TasksAndRoutesAgree)
<1>1. Init => Control
  BY DEF Init, Control, CallLocals, Births, Departures, Youngest, TasksAndRoutesAgree,
         Managed, Inst, NoInst
<1>2. TypeOK /\ Named /\ Control /\ [Next]_vars => Control'
  BY ControlStep
<1>3. Control => TasksAndRoutesAgree
  BY DEF Control
<1> QED
  BY <1>1, <1>2, <1>3, TypesAndNames, PTL DEF Spec

\* The previous instance of a name has ended before the next one is started,
\* unless kill_all gave it up: the README's promise about restarts.
THEOREM OldAlwaysStopsFirst == Spec => []OldStopsFirst
<1>1. TypeOK /\ Control => OldStopsFirst
  BY DEF TypeOK, Control, Births, Departures, Youngest, Managed, OldStopsFirst, Orphan,
         Inst, NoInst, Phases
<1> QED
  BY <1>1, TypeCorrect, TasksAndRoutesAlwaysAgree, PTL

-----------------------------------------------------------------------------
(* The Down reports *)

LEMMA ReportingStep ==
    ASSUME ManifestNamesAgree, TypeOK, Named, Control, Reporting, [Next]_vars
    PROVE  Reporting'
<1> USE DEF TypeOK, Named, Inst, NoInst, Reporting
<1> DEFINE Rep == ReportedOnce' /\ FlagsHaveOwners' /\ NoLostDown'
<1>c. CallLocals /\ Births /\ Departures /\ TasksAndRoutesAgree
  BY DEF Control
<1>1. ASSUME pc = "idle", NEW n \in Names, NEW b \in BOOLEAN, RemoveAndSignal(n, b)
      PROVE  Rep
  <2>0. PICK i \in wasm_tasks :
          /\ Managed' = Managed /\ joining = NoInst
          /\ left' = [left EXCEPT ![i] = "stopped"] /\ left[i] = "no"
          /\ UNCHANGED <<emitted_down, terminated, name, phase, downs>>
    <3>1. PICK i \in wasm_tasks :
            /\ wasm_tasks' = wasm_tasks \ {i} /\ joining' = i
            /\ left' = [left EXCEPT ![i] = "stopped"]
            /\ UNCHANGED <<emitted_down, terminated, name, phase, downs>>
      BY <1>1 DEF RemoveAndSignal
    <3>2. joining = NoInst /\ left[i] = "no" /\ i # NoInst
      BY <1>1, <1>c DEF CallLocals, Departures
    <3>3. Managed' = Managed
      BY <3>1, <3>2 DEF Managed
    <3> QED
      BY <3>1, <3>2, <3>3
  <2>1. ReportedOnce'
    BY <2>0 DEF ReportedOnce, Orphan
  <2>2. FlagsHaveOwners'
    <3>1. \A k \in Inst : Orphan(k) => Orphan(k)'
      BY <2>0 DEF Orphan
    <3>2. \A k \in Managed : k # joining
      BY <2>0 DEF Managed
    <3> QED
      BY <2>0, <3>1, <3>2 DEF FlagsHaveOwners
  <2>3. NoLostDown'
    BY <2>0 DEF NoLostDown, Orphan
  <2> QED
    BY <2>1, <2>2, <2>3
<1>2. ASSUME pc = "idle", NEW n \in Names, NEW b \in BOOLEAN, ForgetName(n, b)
      PROVE  Rep
  <2>0. Managed' = Managed /\ \A i \in Managed : name[i] # n
    BY <1>2, <1>c DEF ForgetName, TasksOf, Managed, CallLocals
  <2>1. ReportedOnce'
    BY <1>2, <2>0 DEF ForgetName, runnerVars, chanVars, history, ReportedOnce,
       Orphan
  <2>2. FlagsHaveOwners'
    BY <1>2, <2>0 DEF ForgetName, runnerVars, chanVars, history, FlagsHaveOwners,
       Orphan
  <2>3. NoLostDown'
    BY <1>2, <2>0 DEF ForgetName, runnerVars, chanVars, history, NoLostDown, Orphan
  <2> QED
    BY <2>1, <2>2, <2>3
<1>3. CASE StopJoined
  <2>0. /\ Managed' = Managed \ {joining} /\ joining \in Managed /\ target = name[joining]
        /\ \A i \in Managed' : name[i] # target
    BY <1>3, <1>c DEF StopJoined, Managed, CallLocals, Departures, TasksAndRoutesAgree
  <2>1. ReportedOnce'
    BY <1>3, <1>c, <2>0 DEF StopJoined, runnerVars, chanVars, history, ReportedOnce,
       Orphan
  <2>2. FlagsHaveOwners'
    BY <1>3, <1>c, <2>0 DEF StopJoined, runnerVars, chanVars, history,
       FlagsHaveOwners, Orphan
  <2>3. NoLostDown'
    BY <1>3, <1>c, <2>0 DEF StopJoined, runnerVars, chanVars, history, NoLostDown,
       Orphan
  <2> QED
    BY <2>1, <2>2, <2>3
<1>4. CASE SpawnInstance
  <2>0. /\ Managed' = Managed \cup {made + 1} /\ made + 1 \in Inst
        /\ phase[made + 1] = "unborn" /\ downs[made + 1] = 0 /\ left[made + 1] = "no"
        /\ made + 1 \notin Managed
        /\ \A i \in Inst : i # made + 1 => name'[i] = name[i] /\ phase'[i] = phase[i]
    BY <1>4, <1>c, BoundsArePositive DEF SpawnInstance, Managed, Births, Departures, CallLocals
  <2>1. ReportedOnce'
    BY <1>4, <2>0 DEF SpawnInstance, chanVars, history, ReportedOnce, Orphan
  <2>2. FlagsHaveOwners'
    BY <1>4, <2>0 DEF SpawnInstance, chanVars, history, FlagsHaveOwners, Orphan
  <2>3. NoLostDown'
    BY <1>4, <2>0 DEF SpawnInstance, chanVars, history, NoLostDown, Orphan
  <2> QED
    BY <2>1, <2>2, <2>3
<1>5. CASE KillAll
  <2>0. Managed = wasm_tasks /\ Managed' = {} /\ \A i \in wasm_tasks : left[i] = "no"
    BY <1>5, <1>c DEF KillAll, Managed, CallLocals, Departures
  <2>1. ReportedOnce'
    BY <1>5, <1>c, <2>0 DEF KillAll, chanVars, ReportedOnce, Orphan
  <2>2. FlagsHaveOwners'
    BY <1>5, <1>c, <2>0 DEF KillAll, chanVars, FlagsHaveOwners, Orphan
  <2>3. NoLostDown'
    BY <1>5, <1>c, <2>0 DEF KillAll, chanVars, NoLostDown, Orphan
  <2> QED
    BY <2>1, <2>2, <2>3
<1>6. CASE ReapScan
  <2>0. /\ Managed' = Managed /\ terminated = {} /\ joining = NoInst
        /\ \A i \in wasm_tasks : left[i] = "no"
    BY <1>6, <1>c DEF ReapScan, Managed, CallLocals, Departures
  <2>1. ReportedOnce'
    BY <1>6, <1>c, <2>0 DEF ReapScan, runnerVars, chanVars, ReportedOnce, Orphan
  <2>2. FlagsHaveOwners'
    BY <1>6, <1>c, <2>0 DEF ReapScan, runnerVars, chanVars, FlagsHaveOwners, Orphan
  <2>3. NoLostDown'
    BY <1>6, <1>c, <2>0 DEF ReapScan, runnerVars, chanVars, NoLostDown, Orphan
  <2> QED
    BY <2>1, <2>2, <2>3
<1>7. CASE ReapReport
  <2>0. PICK i \in terminated :
          /\ terminated' = terminated \ {i} /\ Managed' = Managed \ {i} /\ i \in Managed
          /\ left[i] = "reaped" /\ phase[i] = "finished" /\ joining = NoInst
          /\ \A j \in Managed' : name[j] # name[i]
          /\ emitted_down' = emitted_down \ {name[i]}
          /\ \/ name[i] \in emitted_down /\ downs' = downs
             \/ name[i] \notin emitted_down /\ downs' = [downs EXCEPT ![i] = @ + 1]
          /\ UNCHANGED <<name, phase, left, joining>>
    <3>1. PICK i \in terminated :
            /\ terminated' = terminated \ {i}
            /\ emitted_down' = emitted_down \ {name[i]}
            /\ \/ name[i] \in emitted_down /\ downs' = downs
               \/ name[i] \notin emitted_down /\ downs' = [downs EXCEPT ![i] = @ + 1]
            /\ UNCHANGED <<name, phase, left, joining, wasm_tasks>>
      BY <1>7 DEF ReapReport, EmitDown, runnerVars
    <3>2. joining = NoInst /\ left[i] = "reaped" /\ phase[i] = "finished" /\ i \notin wasm_tasks
      BY <1>7, <1>c, <3>1 DEF ReapReport, CallLocals, Departures
    <3>3. Managed' = Managed \ {i} /\ i \in Managed
      BY <3>1, <3>2 DEF Managed
    <3>4. \A j \in Managed' : name[j] # name[i]
      BY <3>3, <1>c DEF TasksAndRoutesAgree
    <3> QED
      BY <3>1, <3>2, <3>3, <3>4
  <2>a. \A k \in Inst : Orphan(k) <=> Orphan(k)'
    BY <2>0 DEF Orphan
  <2>b. downs[i] = 1 => name[i] \in emitted_down
    BY <2>0 DEF ReportedOnce
  <2>c. /\ \A j \in Inst : j # i => downs'[j] = downs[j]
        /\ \/ name[i] \in emitted_down /\ downs'[i] = downs[i]
           \/ name[i] \notin emitted_down /\ downs'[i] = downs[i] + 1
    BY <2>0
  <2>1. ReportedOnce'
    BY <2>0, <2>b, <2>c DEF ReportedOnce
  <2>2. FlagsHaveOwners'
    <3> SUFFICES ASSUME NEW f \in emitted_down, f # name[i]
                 PROVE  \/ \E j \in Managed' :
                              /\ name'[j] = f
                              /\ \/ phase'[j] = "downing"
                                 \/ phase'[j] = "finished" /\ downs'[j] = 1
                                 \/ j = joining'
                        \/ \E k \in Inst : Orphan(k)' /\ name'[k] = f
      BY <2>0 DEF FlagsHaveOwners
    <3>1. CASE \E k \in Inst : Orphan(k) /\ name[k] = f
      BY <2>0, <2>a, <3>1
    <3>2. CASE \E j \in Managed : /\ name[j] = f
                                  /\ \/ phase[j] = "downing"
                                     \/ phase[j] = "finished" /\ downs[j] = 1
                                     \/ j = joining
      <4>1. PICK j \in Managed : /\ name[j] = f
                                 /\ \/ phase[j] = "downing"
                                    \/ phase[j] = "finished" /\ downs[j] = 1
                                    \/ j = joining
        BY <3>2
      <4>2. j \in Managed' /\ j # i /\ j \in Inst
        BY <2>0, <4>1 DEF Managed
      <4> QED
        BY <2>0, <2>c, <4>1, <4>2
    <3> QED
      BY <3>1, <3>2 DEF FlagsHaveOwners
  <2>3. NoLostDown'
    <3>1. name[i] \in emitted_down =>
            downs[i] = 1 \/ \E k \in Inst : Orphan(k) /\ name[k] = name[i]
      <4> SUFFICES ASSUME name[i] \in emitted_down
                   PROVE  downs[i] = 1 \/ \E k \in Inst : Orphan(k) /\ name[k] = name[i]
        OBVIOUS
      <4>1. \A j \in Managed : name[j] = name[i] => j = i
        BY <2>0
      <4>2. i # joining
        BY <2>0
      <4> QED
        BY <2>0, <4>1, <4>2 DEF FlagsHaveOwners
    <3>2. name[i] \notin emitted_down => downs'[i] = 1
      BY <2>0, <2>c DEF ReportedOnce, FlagsHaveOwners
    <3> QED
      BY <2>0, <2>a, <2>c, <3>1, <3>2 DEF NoLostDown
  <2> QED
    BY <2>1, <2>2, <2>3
<1>8. ASSUME NEW i \in Inst, RunnerStep(i) PROVE Rep
  <2>a. PICK p \in Phases \ {"unborn"} : RunnerEffect(i, p)
    BY <1>8, RunnerStepEffect
  <2>0. /\ RunnerEffect(i, p) /\ Managed' = Managed /\ ManifestName[name[i]] = name[i]
        /\ i \in Managed \/ Orphan(i)
    BY <2>a, <1>c DEF RunnerEffect, Managed, Births, Departures, ManifestNamesAgree, Orphan
  <2>b. /\ \A j \in Inst : j # i => phase'[j] = phase[j] /\ downs'[j] = downs[j]
        /\ emitted_down \subseteq emitted_down' /\ phase'[i] = p /\ phase[i] # "finished"
        /\ UNCHANGED <<name, left, joining, terminated>>
        /\ \A j \in Inst : Orphan(j) <=> Orphan(j)'
    BY <2>0 DEF RunnerEffect, Orphan
  <2>c. downs[i] = 0 /\ left[i] # "reaped"
    BY <2>b, <1>c DEF ReportedOnce, Departures
  <2>d. \/ /\ downs'[i] = 0 /\ emitted_down' = emitted_down /\ p # "downing"
           /\ phase[i] = "downing" => aborted[i]
        \/ /\ downs'[i] = 0 /\ emitted_down' = emitted_down \cup {name[i]}
           /\ p = "downing" /\ phase[i] = "running"
        \/ /\ downs'[i] = 1 /\ emitted_down' = emitted_down
           /\ p = "finished" /\ phase[i] = "downing"
    <3>1. CASE UNCHANGED <<emitted_down, downs>> /\ p # "downing"
               /\ (phase[i] = "downing" => aborted[i])
      BY <3>1, <2>c
    <3>2. CASE p = "downing" /\ phase[i] = "running" /\ UNCHANGED downs
               /\ emitted_down' = emitted_down \cup {ManifestName[name[i]]}
      BY <3>2, <2>0, <2>c
    <3>3. CASE phase[i] = "downing" /\ p = "finished" /\ UNCHANGED emitted_down
               /\ downs' = [downs EXCEPT ![i] = @ + 1]
      <4>1. downs'[i] = downs[i] + 1
        BY <3>3
      <4> QED
        BY <3>3, <4>1, <2>c
    <3> QED
      BY <2>0, <3>1, <3>2, <3>3 DEF RunnerEffect
  <2>1. ReportedOnce'
    <3>1. downs'[i] = 1 => p = "finished" /\ phase[i] = "downing" /\ emitted_down' = emitted_down
      BY <2>d
    <3>2. downs'[i] \in {0, 1}
      BY <2>d
    <3>3. phase[i] = "downing" /\ i \in Managed => name[i] \in emitted_down
      BY DEF ReportedOnce
    <3>4. p = "downing" => name[i] \in emitted_down'
      BY <2>d
    <3>5. \A j \in Inst : j # i =>
             /\ downs'[j] \in {0, 1}
             /\ downs'[j] = 1 => phase'[j] = "finished"
             /\ downs'[j] = 1 \/ phase'[j] = "downing" => (j \in Managed' => name'[j] \in emitted_down')
      BY <2>0, <2>b DEF ReportedOnce
    <3>6. /\ downs'[i] = 1 => phase'[i] = "finished"
          /\ downs'[i] = 1 \/ phase'[i] = "downing" => (i \in Managed' => name'[i] \in emitted_down')
      BY <2>0, <2>b, <3>1, <3>2, <3>3, <3>4
    <3> QED
      BY <3>2, <3>5, <3>6 DEF ReportedOnce
  <2>2. FlagsHaveOwners'
    <3> SUFFICES ASSUME NEW f \in emitted_down'
                 PROVE  \/ \E j \in Managed :
                              /\ name[j] = f
                              /\ \/ phase'[j] = "downing"
                                 \/ phase'[j] = "finished" /\ downs'[j] = 1
                                 \/ j = joining
                        \/ \E k \in Inst : Orphan(k) /\ name[k] = f
      BY <2>0, <2>b DEF FlagsHaveOwners
    <3>1. CASE f \in emitted_down
      <4>1. CASE \E k \in Inst : Orphan(k) /\ name[k] = f
        BY <4>1
      <4>2. CASE \E j \in Managed : /\ name[j] = f
                                    /\ \/ phase[j] = "downing"
                                       \/ phase[j] = "finished" /\ downs[j] = 1
                                       \/ j = joining
        <5>1. PICK j \in Managed : /\ name[j] = f
                                   /\ \/ phase[j] = "downing"
                                      \/ phase[j] = "finished" /\ downs[j] = 1
                                      \/ j = joining
          BY <4>2
        <5>2. j \in Inst
          BY DEF Managed
        <5>3. CASE j # i
          BY <2>b, <5>1, <5>2, <5>3
        <5>4. CASE j = i /\ phase[i] = "downing"
          <6>1. \/ p = "finished" /\ downs'[i] = 1
                \/ aborted[i]
            BY <2>d, <5>4
          <6>2. aborted[i] => i = joining \/ Orphan(i)
            BY <2>b, <5>4, <1>c DEF Departures, Orphan
          <6> QED
            BY <2>b, <5>1, <5>4, <6>1, <6>2
        <5> QED
          BY <2>b, <5>1, <5>3, <5>4
      <4> QED
        BY <3>1, <4>1, <4>2 DEF FlagsHaveOwners
    <3>2. CASE f \notin emitted_down
      <4>1. f = name[i] /\ p = "downing"
        BY <2>0, <3>2 DEF RunnerEffect
      <4> QED
        BY <2>0, <2>b, <4>1
    <3> QED
      BY <3>1, <3>2
  <2>3. NoLostDown'
    <3>1. \A j \in Inst : left[j] = "reaped" => j # i
      BY <2>c
    <3> QED
      BY <2>b, <3>1 DEF NoLostDown
  <2> QED
    BY <2>1, <2>2, <2>3
<1>9. ASSUME UNCHANGED <<wasm_tasks, terminated, joining, emitted_down, name, phase, left, downs>>
      PROVE  Rep
  BY <1>9 DEF ReportedOnce, FlagsHaveOwners, NoLostDown, Managed, Orphan
<1>10. ASSUME NEW n \in Names, StopModule(n) PROVE Rep
  BY <1>1, <1>2, <1>10 DEF StopModule
<1>11. ASSUME NEW n \in Names, SpawnModule(n) PROVE Rep
  <2>1. pc = "idle"
    BY <1>11 DEF SpawnModule
  <2>2. \/ RemoveAndSignal(n, TRUE)
        \/ ForgetName(n, TRUE)
        \/ UNCHANGED <<wasm_tasks, terminated, joining, emitted_down, name, phase, left, downs>>
    BY <1>11 DEF SpawnModule, runnerVars, history
  <2> QED
    BY <1>1, <1>2, <1>9, <2>1, <2>2
<1>12. CASE StopTimeout
  BY <1>9, <1>12 DEF StopTimeout, supVars, history
<1>13. CASE SpawnNothing
  BY <1>9, <1>13 DEF SpawnNothing, runnerVars, history
<1>14. ASSUME NEW i \in Inst, LateDownSent(i) PROVE Rep
  BY <1>9, <1>14 DEF LateDownSent, supVars, runnerVars, history
<1>15. ASSUME NEW n \in Names, HostSends(n) PROVE Rep
  BY <1>9, <1>15 DEF HostSends, supVars, history
<1>16. CASE Receive
  BY <1>9, <1>16 DEF Receive, supVars, runnerVars
<1>17. CASE UNCHANGED vars
  BY <1>9, <1>17 DEF vars, supVars, runnerVars, history
<1> HIDE DEF TypeOK, Named, Inst, NoInst
<1>18. Rep
  BY <1>3, <1>4, <1>5, <1>6, <1>7, <1>8, <1>10, <1>11, <1>12, <1>13, <1>14, <1>15, <1>16,
     <1>17 DEF Next, SupervisorStep
<1> QED
  BY <1>18

LEMMA ReportingHolds ==
    ASSUME ManifestNamesAgree PROVE Spec => []Reporting
<1>1. TypeOK /\ Init => Reporting
  BY DEF Init, TypeOK, Reporting, ReportedOnce, FlagsHaveOwners, NoLostDown, Managed, NoInst
<1>2. TypeOK /\ Named /\ Control /\ Reporting /\ [Next]_vars => Reporting'
  BY ReportingStep
<1> QED
  BY <1>1, <1>2, TypesAndNames, TasksAndRoutesAlwaysAgree, PTL DEF Spec

\* When manifests carry the names their modules are spawned under, no instance
\* is reported dead twice, whoever notices the death first.
THEOREM NeverTwoDowns ==
    ASSUME ManifestNamesAgree PROVE Spec => []AtMostOneDown
<1>1. Reporting => AtMostOneDown
  BY DEF Reporting, ReportedOnce, AtMostOneDown
<1> QED
  BY <1>1, ReportingHolds, PTL

\* Under the same assumption, an instance that was reaped has had its Down,
\* unless kill_all left an orphan of its name behind.
THEOREM NeverALostDown ==
    ASSUME ManifestNamesAgree PROVE Spec => []NoLostDown
<1>1. Reporting => NoLostDown
  BY DEF Reporting
<1> QED
  BY <1>1, ReportingHolds, PTL

-----------------------------------------------------------------------------
(* Supervisor implements ModuleNews: what the flags, the channel and the     *)
(* tasks of emit_down come to, seen by the host, is the order in which       *)
(* ModuleNews lets it hear of instances.                                     *)


\* Of an instance not yet spawned nothing is known; of one that was not reported
\* dead there is no Down.
Unreported ==
    \A i \in Inst :
        /\ phase[i] = "unborn" =>
               name[i] = NoName /\ heard[i] = "nothing" /\ Of(i, Kinds) = {}
        /\ downs[i] = 0 => heard[i] # "Down" /\ i \notin late /\ Of(i, Downs) = {}

\* A Down is at one place only, and the last of what is known of its instance.
DownIsLast ==
    /\ \A i \in Inst :
           /\ heard[i] = "Down" => i \notin late /\ Of(i, Kinds) = {}
           /\ i \in late => Of(i, Downs) = {}
    /\ \A p, q \in DOMAIN updates :
           updates[p].kind \in Downs /\ updates[q].inst = updates[p].inst => q <= p

\* What an instance says is behind the Down of the one it replaced.
DownBeforeReplacement ==
    \A p \in DOMAIN updates, i, j \in Inst :
        /\ updates[p].inst = i /\ updates[p].kind = "Down"
        /\ ~Orphan(i) /\ i < j /\ name[j] = name[i]
        => /\ heard[j] = "nothing"
           /\ \A q \in DOMAIN updates : updates[q].inst = j => p < q

Ordered == Unreported /\ DownIsLast /\ DownBeforeReplacement

-----------------------------------------------------------------------------
(* The channel *)

\* A message in the channel is about an instance.
LEMMA MessagesTyped ==
    ASSUME TypeOK
    PROVE  \A p \in DOMAIN updates :
               /\ updates[p] \in Messages
               /\ updates[p].inst \in Inst /\ updates[p].kind \in Kinds
<1>1. updates \in Seq(Messages)
  BY DEF TypeOK
<1> SUFFICES ASSUME NEW p \in DOMAIN updates
             PROVE  /\ updates[p] \in Messages
                    /\ updates[p].inst \in Inst /\ updates[p].kind \in Kinds
  OBVIOUS
<1>2. updates[p] \in Messages
  BY <1>1
<1> QED
  BY <1>2 DEF Messages

\* Appending a message adds its position.
LEMMA SentOf ==
    ASSUME TypeOK, NEW i \in Inst, NEW k \in Kinds,
           updates' = Append(updates, [inst |-> i, kind |-> k])
    PROVE  /\ Len(updates) \in Nat /\ DOMAIN updates = 1 .. Len(updates)
           /\ DOMAIN updates' = DOMAIN updates \cup {Len(updates) + 1}
           /\ \A p \in DOMAIN updates : updates'[p] = updates[p] /\ updates[p] \in Messages
           /\ updates'[Len(updates) + 1] = [inst |-> i, kind |-> k]
           /\ \A j \in Inst, kinds \in SUBSET Kinds :
                  /\ j # i \/ k \notin kinds => Of(j, kinds)' = Of(j, kinds)
                  /\ j = i /\ k \in kinds => Of(j, kinds)' = Of(j, kinds) \cup {Len(updates) + 1}
<1>1. updates \in Seq(Messages) /\ [inst |-> i, kind |-> k] \in Messages
  BY DEF TypeOK, Messages
<1>2. /\ Len(updates) \in Nat /\ DOMAIN updates = 1 .. Len(updates)
      /\ DOMAIN updates' = DOMAIN updates \cup {Len(updates) + 1}
      /\ \A p \in DOMAIN updates : updates'[p] = updates[p] /\ updates[p] \in Messages
      /\ updates'[Len(updates) + 1] = [inst |-> i, kind |-> k]
  BY <1>1
<1>3. ASSUME NEW j \in Inst, NEW kinds \in SUBSET Kinds
      PROVE  /\ j # i \/ k \notin kinds => Of(j, kinds)' = Of(j, kinds)
             /\ j = i /\ k \in kinds => Of(j, kinds)' = Of(j, kinds) \cup {Len(updates) + 1}
  BY <1>2 DEF Of
<1> QED
  BY <1>2, <1>3

\* Taking the oldest message moves the others up.
LEMMA TakenOf ==
    ASSUME TypeOK, updates # <<>>, updates' = Tail(updates)
    PROVE  /\ Len(updates) \in Nat \ {0} /\ DOMAIN updates = 1 .. Len(updates)
           /\ Head(updates) = updates[1] /\ updates[1] \in Messages
           /\ DOMAIN updates' = 1 .. Len(updates) - 1
           /\ \A p \in DOMAIN updates' : p + 1 \in DOMAIN updates /\ updates'[p] = updates[p + 1]
           /\ \A p \in DOMAIN updates : updates[p] \in Messages
<1>1. updates \in Seq(Messages)
  BY DEF TypeOK
<1> QED
  BY <1>1

\* The positions of the messages of an instance are finitely many, and counted.
LEMMA OfFinite ==
    ASSUME TypeOK, NEW j, NEW kinds
    PROVE  IsFiniteSet(Of(j, kinds)) /\ Cardinality(Of(j, kinds)) \in Nat
<1>1. Len(updates) \in Nat /\ DOMAIN updates = 1 .. Len(updates)
  BY DEF TypeOK
<1>2. IsFiniteSet(1 .. Len(updates))
  BY <1>1, FS_Interval
<1>3. Of(j, kinds) \in SUBSET (1 .. Len(updates))
  BY <1>1 DEF Of
<1>4. IsFiniteSet(Of(j, kinds))
  BY <1>2, <1>3, FS_Subset
<1> QED
  BY <1>4, FS_CardinalityType

\* Taking a message leaves as many of the others.
LEMMA TakenCount ==
    ASSUME TypeOK, updates # <<>>, updates' = Tail(updates), NEW j, NEW kinds
    PROVE  Cardinality(Of(j, kinds)') = Cardinality(Of(j, kinds))
               - (IF 1 \in Of(j, kinds) THEN 1 ELSE 0)
<1> DEFINE S == Of(j, kinds) \ {1}
           T == Of(j, kinds)'
           f == [p \in S |-> p - 1]
<1>1. IsFiniteSet(S) /\ Cardinality(S) = Cardinality(Of(j, kinds))
                            - (IF 1 \in Of(j, kinds) THEN 1 ELSE 0)
  BY OfFinite, FS_RemoveElement
<1>2. f \in Bijection(S, T)
  <2>0. S \subseteq Nat
    BY TakenOf DEF Of
  <2>1. \A p \in S : p - 1 \in T
    BY TakenOf DEF Of
  <2>2. \A p \in T : p + 1 \in S /\ (p + 1) - 1 = p
    BY TakenOf DEF Of
  <2>3. f \in [S -> T]
    BY <2>1
  <2>4. f \in Injection(S, T)
    BY <2>0, <2>3 DEF Injection, IsInjective
  <2>5. f \in Surjection(S, T)
    BY <2>2, <2>3 DEF Surjection
  <2> QED
    BY <2>4, <2>5 DEF Bijection
<1>3. Cardinality(T) = Cardinality(S)
  BY <1>1, <1>2, FS_Bijection DEF ExistsBijection
<1> QED
  BY <1>1, <1>3

-----------------------------------------------------------------------------
(* What a step does to what the host hears *)

AliveNow == {i \in Inst : phase[i] \notin {"unborn", "finished"}}
Killed   == {i \in Inst : Orphan(i)}

\* Nobody is born.
SameBirths ==
    name' = name /\ \A i \in Inst : phase'[i] = "unborn" <=> phase[i] = "unborn"

\* No instance has replaced i, unless i was given up.
NotReplaced(i) ==
    \A j \in Inst : i < j /\ name[j] = name[i] /\ phase[j] # "unborn" => Orphan(i)

SaysNothing ==
    SameBirths /\ AliveNow' = AliveNow /\ Killed' = Killed /\ UNCHANGED <<updates, late, heard, downs>>

GivesUp ==
    /\ SameBirths /\ AliveNow' = AliveNow
    /\ Killed \subseteq Killed' /\ \A i \in Killed' \ Killed : phase[i] # "unborn"
    /\ UNCHANGED <<updates, late, heard, downs>>

Dies(i) ==
    /\ SameBirths /\ i \in AliveNow /\ AliveNow' = AliveNow \ {i} /\ Killed' = Killed
    /\ UNCHANGED <<updates, late, heard, downs>>

SaysNews(i) ==
    /\ SameBirths /\ i \in AliveNow /\ downs[i] = 0 /\ AliveNow' = AliveNow /\ Killed' = Killed
    /\ \E k \in {"Ready", "Update"} : updates' = Append(updates, [inst |-> i, kind |-> k])
    /\ UNCHANGED <<late, heard, downs>>

Counted(i) ==
    /\ SameBirths /\ phase[i] # "unborn" /\ downs[i] = 0 /\ NotReplaced(i)
    /\ downs' = [downs EXCEPT ![i] = 1]
    /\ AliveNow' = AliveNow \ {i} /\ Killed' = Killed /\ UNCHANGED heard

SaysDownNow(i) ==
    Counted(i) /\ updates' = Append(updates, [inst |-> i, kind |-> "Down"]) /\ UNCHANGED late

SaysDownLater(i) ==
    Counted(i) /\ late' = late \cup {i} /\ UNCHANGED updates

Effect(i) ==
    Dies(i) \/ SaysNews(i) \/ SaysDownNow(i) \/ SaysDownLater(i) \/ LateDownSent(i)

\* A runner dies, says something, its Down last, or goes on.
LEMMA RunnerStepSays ==
    ASSUME TypeOK, Control, Reporting, NEW i \in Inst, RunnerStep(i)
    PROVE  SaysNothing \/ Effect(i)
<1> USE DEF supVars, history, chanVars, Phases
<1>t. /\ phase \in [Inst -> Phases] /\ downs \in [Inst -> Nat]
      /\ phase[i] \in {"starting", "running", "downing"} => downs[i] = 0
  BY DEF TypeOK, Reporting, ReportedOnce
<1>1. ASSUME NEW p \in {"running", "downing"}, phase[i] \in {"starting", "running"},
             phase' = [phase EXCEPT ![i] = p], UNCHANGED <<name, left>>
      PROVE  SameBirths /\ i \in AliveNow /\ AliveNow' = AliveNow /\ Killed' = Killed
  BY <1>1, <1>t DEF SameBirths, AliveNow, Killed, Orphan
<1>2. ASSUME phase[i] \in {"starting", "running", "downing"}, Finish(i), UNCHANGED <<name, left>>
      PROVE  SameBirths /\ i \in AliveNow /\ AliveNow' = AliveNow \ {i} /\ Killed' = Killed
  BY <1>2, <1>t DEF SameBirths, AliveNow, Killed, Orphan, Finish, SetPhase
<1>3. CASE RunnerReady(i)
  BY <1>1, <1>3, <1>t DEF RunnerReady, SetPhase, Effect, SaysNews
<1>4. CASE RunnerInitCode(i)
  BY <1>1, <1>4 DEF RunnerInitCode, SetPhase, SaysNothing
<1>5. CASE RunnerInitFails(i)
  BY <1>2, <1>5 DEF RunnerInitFails, Effect, Dies
<1>6. CASE RunnerHandles(i)
  <2>1. phase[i] = "running" /\ phase' = [phase EXCEPT ![i] = "running"]
    BY <1>6, <1>t DEF RunnerHandles, HasEvent
  <2>2. SameBirths /\ i \in AliveNow /\ AliveNow' = AliveNow /\ Killed' = Killed
    BY <1>1, <1>6, <2>1 DEF RunnerHandles
  <2> QED
    BY <1>6, <1>t, <2>1, <2>2 DEF RunnerHandles, SaysNothing, Effect, SaysNews
<1>7. CASE RunnerTraps(i)
  BY <1>1, <1>7 DEF RunnerTraps, HasEvent, SetPhase, SaysNothing
<1>8. CASE RunnerFails(i)
  BY <1>2, <1>8 DEF RunnerFails, HasEvent, Effect, Dies
<1>9. CASE RunnerSendsDown(i)
  <2>1. SameBirths /\ AliveNow' = AliveNow \ {i} /\ Killed' = Killed
    BY <1>2, <1>9 DEF RunnerSendsDown
  <2>2. NotReplaced(i)
    BY <1>9, <1>t DEF RunnerSendsDown, NotReplaced, Control, Births, Departures, Youngest,
       Managed, Orphan, TypeOK, Inst, NoInst
  <2>3. downs' = [downs EXCEPT ![i] = 1]
    BY <1>9, <1>t DEF RunnerSendsDown
  <2> QED
    BY <1>9, <1>t, <2>1, <2>2, <2>3 DEF RunnerSendsDown, Effect, SaysDownNow, Counted
<1>10. CASE RunnerExits(i)
  <2>1. phase[i] = "running" /\ Finish(i) /\ UNCHANGED <<name, chanVars, history>>
    BY <1>10 DEF RunnerExits
  <2> QED
    BY <1>2, <2>1 DEF Effect, Dies
<1>11. CASE RunnerCancelled(i)
  BY <1>2, <1>11 DEF RunnerCancelled, Effect, Dies
<1> QED
  BY <1>3, <1>4, <1>5, <1>6, <1>7, <1>8, <1>9, <1>10, <1>11 DEF RunnerStep

\* The supervisor says Downs for what it reaps, and gives up what it kills.
LEMMA StepSays ==
    ASSUME TypeOK, Control, Reporting, [Next]_vars
    PROVE  SaysNothing \/ GivesUp \/ SpawnInstance \/ Receive \/ \E i \in Inst : Effect(i)
<1>s. ASSUME UNCHANGED <<name, phase, updates, late, heard, downs>>, Killed' = Killed
      PROVE  SaysNothing
  BY <1>s DEF SaysNothing, SameBirths, AliveNow
<1>k. ASSUME UNCHANGED left PROVE Killed' = Killed
  BY <1>k DEF Killed, Orphan
<1>1. ASSUME NEW n \in Names, NEW b \in BOOLEAN, RemoveAndSignal(n, b) PROVE SaysNothing
  <2>1. PICK i \in wasm_tasks : left' = [left EXCEPT ![i] = "stopped"]
    BY <1>1 DEF RemoveAndSignal
  <2>2. left[i] = "no" /\ i \in Inst
    BY DEF Control, Departures, TypeOK
  <2>3. Killed' = Killed
    BY <2>1, <2>2 DEF Killed, Orphan, TypeOK
  <2> QED
    BY <1>1, <1>s, <2>3 DEF RemoveAndSignal, chanVars
<1>2. ASSUME NEW n \in Names, NEW b \in BOOLEAN, ForgetName(n, b) PROVE SaysNothing
  BY <1>2, <1>s, <1>k DEF ForgetName, runnerVars, chanVars, history
<1>3. ASSUME NEW n \in Names, StopModule(n) \/ SpawnModule(n) PROVE SaysNothing
  BY <1>3, <1>1, <1>2, <1>s, <1>k DEF StopModule, SpawnModule, runnerVars, chanVars, history
<1>4. CASE StopJoined \/ StopTimeout \/ SpawnNothing
  BY <1>4, <1>s, <1>k DEF StopJoined, StopTimeout, SpawnNothing, supVars, runnerVars, chanVars, history
<1>5. CASE KillAll
  <2>1. \A i \in Inst : Orphan(i)' <=> i \in wasm_tasks \/ Orphan(i)
    BY <1>5 DEF KillAll, Orphan
  <2>2. \A i \in wasm_tasks : phase[i] # "unborn"
    BY DEF Control, Departures, TypeOK
  <2>3. SameBirths /\ AliveNow' = AliveNow /\ UNCHANGED <<updates, late, heard, downs>>
    BY <1>5 DEF KillAll, SameBirths, AliveNow, chanVars
  <2>4. Killed \subseteq Killed' /\ \A i \in Killed' \ Killed : phase[i] # "unborn"
    BY <2>1, <2>2 DEF Killed
  <2> QED
    BY <2>3, <2>4 DEF GivesUp
<1>6. CASE ReapScan
  <2>1. \A i \in wasm_tasks : left[i] = "no"
    BY DEF Control, Departures, TypeOK
  <2>2. \A i \in Inst : Orphan(i)' <=> Orphan(i)
    BY <1>6, <2>1 DEF ReapScan, Orphan
  <2>3. Killed' = Killed
    BY <2>2 DEF Killed
  <2> QED
    BY <1>6, <1>s, <2>3 DEF ReapScan, runnerVars, chanVars
<1>7. CASE ReapReport
  <2>1. PICK i \in terminated :
          IF name[i] \in emitted_down THEN UNCHANGED <<downs, chanVars>> ELSE EmitDown(i)
    BY <1>7 DEF ReapReport
  <2>2. /\ i \in Inst /\ i \in Managed /\ phase[i] = "finished" /\ Killed' = Killed
        /\ SameBirths /\ AliveNow' = AliveNow /\ UNCHANGED <<name, phase, heard>>
    BY <1>7, <1>k DEF ReapReport, runnerVars, TypeOK, Managed, Control, Departures,
       SameBirths, AliveNow
  <2>3. CASE UNCHANGED <<downs, chanVars>>
    BY <1>s, <2>2, <2>3 DEF chanVars
  <2>4. CASE name[i] \notin emitted_down /\ EmitDown(i)
    <3>1. downs \in [Inst -> Nat] /\ downs[i] = 0
      BY <2>2, <2>4 DEF TypeOK, Reporting, ReportedOnce
    <3>2. downs' = [downs EXCEPT ![i] = 1]
      BY <2>4, <3>1 DEF EmitDown
    <3>3. NotReplaced(i)
      BY <2>2 DEF NotReplaced, Control, Youngest, Inst, TypeOK
    <3>4. AliveNow' = AliveNow \ {i}
      BY <2>2 DEF AliveNow
    <3>5. Counted(i)
      BY <2>2, <3>1, <3>2, <3>3, <3>4 DEF Counted
    <3> QED
      BY <2>2, <2>4, <3>5 DEF EmitDown, Effect, SaysDownNow, SaysDownLater
  <2> QED
    BY <2>1, <2>3, <2>4
<1>8. ASSUME NEW n \in Names, HostSends(n) PROVE SaysNothing
  BY <1>8, <1>s, <1>k DEF HostSends, chanVars, history
<1>9. CASE UNCHANGED vars
  BY <1>9, <1>s, <1>k DEF vars, runnerVars, chanVars, history
<1>10. ASSUME NEW i \in Inst, RunnerStep(i) PROVE SaysNothing \/ Effect(i)
  BY <1>10, RunnerStepSays
<1>11. ASSUME NEW i \in Inst, LateDownSent(i) PROVE Effect(i)
  BY <1>11 DEF Effect
<1> QED
  BY <1>3, <1>4, <1>5, <1>6, <1>7, <1>8, <1>9, <1>10, <1>11 DEF Next, SupervisorStep

-----------------------------------------------------------------------------
(* The order of the channel *)

\* Appending a message of an instance whose Down was not said.
LEMMA SendKeepsOrder ==
    ASSUME TypeOK, Ordered, NEW i \in Inst, NEW k \in Kinds,
           phase[i] # "unborn", Of(i, Downs) = {}, heard[i] # "Down",
           SameBirths, Killed \subseteq Killed', UNCHANGED heard,
           updates' = Append(updates, [inst |-> i, kind |-> k]),
           k \in Downs => i \notin late',
           \A j \in Inst \ {i} : downs'[j] = downs[j] /\ (j \in late' <=> j \in late),
           downs'[i] = 0 => k \notin Downs /\ downs[i] = 0 /\ (i \in late' => i \in late),
           i \in late' => i \in late,
           k = "Down" => NotReplaced(i)
    PROVE  Ordered'
<1> USE SentOf DEF TypeOK
<1>d. /\ Downs \subseteq Kinds /\ Kinds \subseteq Kinds
      /\ \A q \in Kinds : q \in Downs <=> q \in {"Down", "LateDown"}
  BY DEF Downs, Kinds
<1>o. /\ \A j \in Inst \ {i} : Of(j, Kinds)' = Of(j, Kinds) /\ Of(j, Downs)' = Of(j, Downs)
      /\ k \in Downs => Of(i, Downs)' = {Len(updates) + 1}
      /\ k \notin Downs => Of(i, Downs)' = {}
  <2>1. Downs \in SUBSET Kinds /\ Kinds \in SUBSET Kinds
    BY <1>d
  <2>2. \A j \in Inst, kinds \in SUBSET Kinds :
            /\ j # i \/ k \notin kinds => Of(j, kinds)' = Of(j, kinds)
            /\ j = i /\ k \in kinds => Of(j, kinds)' = Of(j, kinds) \cup {Len(updates) + 1}
    BY SentOf
  <2>3. ASSUME NEW j \in Inst, j # i
        PROVE  Of(j, Kinds)' = Of(j, Kinds) /\ Of(j, Downs)' = Of(j, Downs)
    BY <2>1, <2>2, <2>3
  <2>4. k \in Downs => Of(i, Downs)' = {Len(updates) + 1}
    BY <2>1, <2>2
  <2>5. k \notin Downs => Of(i, Downs)' = {}
    BY <2>1, <2>2
  <2> QED
    BY <2>3, <2>4, <2>5
<1>1. Unreported'
  <2>1. ASSUME NEW j \in Inst, phase'[j] = "unborn"
        PROVE  name'[j] = NoName /\ heard'[j] = "nothing" /\ Of(j, Kinds)' = {}
    BY <1>o, <2>1 DEF Ordered, Unreported, SameBirths
  <2>2. ASSUME NEW j \in Inst, downs'[j] = 0
        PROVE  heard'[j] # "Down" /\ j \notin late' /\ Of(j, Downs)' = {}
    <3>1. CASE j = i
      BY <1>o, <2>2, <3>1 DEF Ordered, Unreported
    <3>2. CASE j # i
      BY <1>o, <2>2, <3>2 DEF Ordered, Unreported
    <3> QED
      BY <3>1, <3>2
  <2> QED
    BY <2>1, <2>2 DEF Unreported
<1>2. DownIsLast'
  <2>1. ASSUME NEW j \in Inst
        PROVE  /\ heard'[j] = "Down" => j \notin late' /\ Of(j, Kinds)' = {}
               /\ j \in late' => Of(j, Downs)' = {}
    BY <1>o, <1>d DEF Ordered, DownIsLast
  <2>2. ASSUME NEW p \in DOMAIN updates', NEW q \in DOMAIN updates',
               updates'[p].kind \in Downs, updates'[q].inst = updates'[p].inst
        PROVE  q <= p
    <3>1. CASE p \in DOMAIN updates /\ q \in DOMAIN updates
      BY <2>2, <3>1 DEF Ordered, DownIsLast
    <3>2. CASE p = Len(updates) + 1
      BY <3>2
    <3>3. CASE p \in DOMAIN updates /\ q = Len(updates) + 1
      <4>1. p \in Of(i, Downs)
        BY <2>2, <3>3 DEF Of
      <4> QED
        BY <4>1
    <3> QED
      BY <3>1, <3>2, <3>3
  <2> QED
    BY <2>1, <2>2 DEF DownIsLast
<1>3. DownBeforeReplacement'
  <2> SUFFICES ASSUME NEW p \in DOMAIN updates', NEW o \in Inst, NEW j \in Inst,
                      updates'[p].inst = o, updates'[p].kind = "Down",
                      ~Orphan(o)', o < j, name'[j] = name'[o]
               PROVE  /\ heard'[j] = "nothing"
                      /\ \A q \in DOMAIN updates' : updates'[q].inst = j => p < q
    BY DEF DownBeforeReplacement
  <2>0. ~Orphan(o)
    BY DEF Killed
  <2>1. CASE p \in DOMAIN updates
    <3>2. updates[p].inst = o /\ updates[p].kind = "Down"
      BY <2>1
    <3>3. heard[j] = "nothing" /\ \A q \in DOMAIN updates : updates[q].inst = j => p < q
      BY <2>0, <2>1, <3>2 DEF Ordered, DownBeforeReplacement, SameBirths
    <3> QED
      BY <2>1, <3>3
  <2>2. CASE p = Len(updates) + 1
    <3>1. k = "Down" /\ o = i /\ NotReplaced(i) /\ ~Orphan(i)
      BY <2>0, <2>2
    <3>2. phase[j] = "unborn"
      BY <3>1 DEF NotReplaced, SameBirths
    <3>3. heard[j] = "nothing" /\ Of(j, Kinds) = {} /\ j # i
      BY <3>2 DEF Ordered, Unreported
    <3>4. \A q \in DOMAIN updates' : updates'[q].inst # j
      BY <2>2, <3>1, <3>3, MessagesTyped DEF Of
    <3> QED
      BY <3>3, <3>4
  <2> QED
    BY <2>1, <2>2
<1> QED
  BY <1>1, <1>2, <1>3 DEF Ordered

\* Taking the oldest message.
LEMMA ReceiveKeepsOrder ==
    ASSUME TypeOK, Births, Ordered, Receive PROVE Ordered'
<1> DEFINE m == updates[1]
<1> USE DEF TypeOK
<1>0. updates # <<>> /\ updates' = Tail(updates)
  BY DEF Receive
<1>t. /\ Len(updates) \in Nat \ {0} /\ DOMAIN updates = 1 .. Len(updates)
      /\ DOMAIN updates' = 1 .. Len(updates) - 1
      /\ \A p \in DOMAIN updates' : p + 1 \in DOMAIN updates /\ updates'[p] = updates[p + 1]
      /\ \A p \in DOMAIN updates : updates[p] \in Messages
      /\ m \in Messages /\ m.inst \in Inst /\ m.kind \in Kinds
  BY <1>0, TakenOf, MessagesTyped
<1>h. /\ heard' = [heard EXCEPT ![m.inst] = IF m.kind \in Downs THEN "Down"
                                            ELSE IF m.kind = "Ready" THEN "Ready" ELSE @]
      /\ UNCHANGED <<name, phase, late, left, downs>>
  BY <1>0, TakenOf DEF Receive, supVars, runnerVars
<1>o. \A j \in Inst, kinds \in SUBSET Kinds : Of(j, kinds)' # {} => Of(j, kinds) # {}
  BY <1>t DEF Of
<1>d. Downs \in SUBSET Kinds /\ Kinds \in SUBSET Kinds
  BY DEF Downs, Kinds
<1>m. 1 \in Of(m.inst, Kinds) /\ (m.kind \in Downs => 1 \in Of(m.inst, Downs))
  BY <1>t DEF Of
<1>1. Unreported'
  <2>1. ASSUME NEW j \in Inst, phase[j] = "unborn"
        PROVE  name[j] = NoName /\ heard'[j] = "nothing" /\ Of(j, Kinds)' = {}
    BY <1>h, <1>o, <1>d, <1>m, <2>1 DEF Ordered, Unreported
  <2>2. ASSUME NEW j \in Inst, downs[j] = 0
        PROVE  heard'[j] # "Down" /\ j \notin late /\ Of(j, Downs)' = {}
    BY <1>h, <1>o, <1>d, <1>m, <1>t, <2>2 DEF Ordered, Unreported
  <2> QED
    BY <1>h, <2>1, <2>2 DEF Unreported
<1>2. DownIsLast'
  <2>1. ASSUME NEW j \in Inst, heard'[j] = "Down" PROVE j \notin late /\ Of(j, Kinds)' = {}
    <3>1. CASE heard[j] = "Down"
      BY <1>o, <1>d, <3>1 DEF Ordered, DownIsLast
    <3>2. CASE heard[j] # "Down"
      <4>1. j = m.inst /\ m.kind \in Downs
        BY <1>h, <1>t, <2>1, <3>2
      <4>2. \A q \in DOMAIN updates : updates[q].inst = j => q <= 1
        <5>1. 1 \in DOMAIN updates /\ updates[1].kind \in Downs /\ updates[1].inst = j
          BY <1>t, <4>1
        <5> QED
          BY <5>1 DEF Ordered, DownIsLast
      <4>3. Of(j, Kinds)' = {}
        BY <1>t, <4>2 DEF Of
      <4>4. j \notin late
        BY <1>m, <4>1 DEF Ordered, DownIsLast
      <4> QED
        BY <4>3, <4>4
    <3> QED
      BY <3>1, <3>2
  <2>2. ASSUME NEW j \in Inst, j \in late PROVE Of(j, Downs)' = {}
    BY <1>o, <1>d, <2>2 DEF Ordered, DownIsLast
  <2>3. ASSUME NEW p \in DOMAIN updates', NEW q \in DOMAIN updates',
               updates'[p].kind \in Downs, updates'[q].inst = updates'[p].inst
        PROVE  q <= p
    <3>1. p + 1 \in DOMAIN updates /\ q + 1 \in DOMAIN updates /\ p \in Nat /\ q \in Nat
          /\ updates[p + 1] = updates'[p] /\ updates[q + 1] = updates'[q]
      BY <1>t
    <3>2. q + 1 <= p + 1
      BY <2>3, <3>1 DEF Ordered, DownIsLast
    <3> QED
      BY <3>1, <3>2
  <2> QED
    BY <1>h, <2>1, <2>2, <2>3 DEF DownIsLast
<1>3. DownBeforeReplacement'
  <2> SUFFICES ASSUME NEW p \in DOMAIN updates', NEW o \in Inst, NEW j \in Inst,
                      updates'[p].inst = o, updates'[p].kind = "Down",
                      ~Orphan(o)', o < j, name'[j] = name'[o]
               PROVE  /\ heard'[j] = "nothing"
                      /\ \A q \in DOMAIN updates' : updates'[q].inst = j => p < q
    BY DEF DownBeforeReplacement
  <2>1. ~Orphan(o) /\ p + 1 \in DOMAIN updates /\ updates[p + 1] = updates'[p] /\ p \in Nat
    BY <1>h, <1>t DEF Orphan
  <2>2. heard[j] = "nothing" /\ \A q \in DOMAIN updates : updates[q].inst = j => p + 1 < q
    BY <1>h, <1>t, <2>1 DEF Ordered, DownBeforeReplacement
  <2>3. m.inst # j
    <3>1. 1 \in DOMAIN updates /\ ~(p + 1 < 1)
      BY <1>t, <2>1
    <3> QED
      BY <2>2, <3>1
  <2>4. heard'[j] = "nothing"
    BY <1>h, <2>2, <2>3
  <2>5. ASSUME NEW q \in DOMAIN updates', updates'[q].inst = j PROVE p < q
    BY <1>t, <2>2, <2>5
  <2> QED
    BY <2>4, <2>5
<1> QED
  BY <1>1, <1>2, <1>3 DEF Ordered

\* Every step keeps the order.
LEMMA OrderedStep ==
    ASSUME TypeOK, Control, Reporting, Ordered, [Next]_vars PROVE Ordered'
<1> USE DEF TypeOK
<1>d. "Ready" \in Kinds /\ "Update" \in Kinds /\ "Down" \in Kinds /\ "LateDown" \in Kinds
      /\ "Ready" \notin Downs /\ "Update" \notin Downs /\ "Down" \in Downs
  BY DEF Kinds, Downs
<1>q. ASSUME SameBirths, Killed \subseteq Killed', UNCHANGED <<updates, late, heard, downs>>
      PROVE  Ordered'
  <2>1. \A i \in Inst : Orphan(i) => Orphan(i)'
    BY <1>q DEF Killed
  <2>2. \A i \in Inst : Of(i, Kinds)' = Of(i, Kinds) /\ Of(i, Downs)' = Of(i, Downs)
    BY <1>q DEF Of
  <2>3. Unreported' /\ DownIsLast'
    BY <1>q, <2>2 DEF Ordered, Unreported, DownIsLast, SameBirths
  <2>4. \A p \in DOMAIN updates : updates[p].inst \in Inst
    BY MessagesTyped
  <2>5. DownBeforeReplacement'
    BY <1>q, <2>1, <2>4 DEF Ordered, DownBeforeReplacement, SameBirths
  <2> QED
    BY <2>3, <2>5 DEF Ordered
<1>1. CASE SaysNothing
  BY <1>1, <1>q DEF SaysNothing
<1>2. CASE GivesUp
  BY <1>2, <1>q DEF GivesUp
<1>3. CASE SpawnInstance
  <2> DEFINE n == made + 1
  <2>1. /\ n \in Inst /\ phase[n] = "unborn" /\ downs[n] = 0
        /\ name' = [name EXCEPT ![n] = target] /\ phase' = [phase EXCEPT ![n] = "starting"]
        /\ UNCHANGED <<updates, late, heard, downs, left>>
    BY <1>3, BoundsArePositive DEF SpawnInstance, Control, Births, Inst, chanVars, history
  <2>2. \A i \in Inst : Of(i, Kinds)' = Of(i, Kinds) /\ Of(i, Downs)' = Of(i, Downs)
    BY <2>1 DEF Of
  <2>3. Unreported' /\ DownIsLast'
    BY <2>1, <2>2 DEF Ordered, Unreported, DownIsLast
  <2>4. heard[n] = "nothing" /\ \A p \in DOMAIN updates : updates[p].inst # n
    BY <2>1, MessagesTyped DEF Ordered, Unreported, Of
  <2>5. \A p \in DOMAIN updates : updates[p].inst \in Inst
    BY MessagesTyped
  <2>6. DownBeforeReplacement'
    BY <2>1, <2>4, <2>5 DEF Ordered, DownBeforeReplacement, Orphan
  <2> QED
    BY <2>3, <2>6 DEF Ordered
<1>4. CASE Receive
  BY <1>4, ReceiveKeepsOrder DEF Control
<1>5. ASSUME NEW i \in Inst, Dies(i) PROVE Ordered'
  BY <1>5, <1>q DEF Dies
<1>6. ASSUME NEW i \in Inst, SaysNews(i) PROVE Ordered'
  <2>1. PICK k \in {"Ready", "Update"} : updates' = Append(updates, [inst |-> i, kind |-> k])
    BY <1>6 DEF SaysNews
  <2>2. phase[i] # "unborn" /\ Of(i, Downs) = {} /\ heard[i] # "Down" /\ Killed' = Killed
        /\ SameBirths /\ UNCHANGED <<late, heard, downs>> /\ downs[i] = 0
    BY <1>6 DEF SaysNews, AliveNow, Ordered, Unreported
  <2> QED
    BY <1>d, <2>1, <2>2, SendKeepsOrder
<1>7. ASSUME NEW i \in Inst, SaysDownNow(i) PROVE Ordered'
  <2>1. /\ phase[i] # "unborn" /\ Of(i, Downs) = {} /\ heard[i] # "Down" /\ Killed' = Killed
        /\ SameBirths /\ UNCHANGED <<late, heard>> /\ i \notin late /\ NotReplaced(i)
        /\ downs' = [downs EXCEPT ![i] = 1]
        /\ updates' = Append(updates, [inst |-> i, kind |-> "Down"])
    BY <1>7 DEF SaysDownNow, Counted, Ordered, Unreported
  <2>2. downs'[i] = 1 /\ \A j \in Inst \ {i} : downs'[j] = downs[j]
    BY <2>1
  <2> QED
    BY <1>d, <2>1, <2>2, SendKeepsOrder
<1>8. ASSUME NEW i \in Inst, SaysDownLater(i) PROVE Ordered'
  <2>1. /\ phase[i] # "unborn" /\ Of(i, Downs) = {} /\ heard[i] # "Down" /\ Killed' = Killed
        /\ SameBirths /\ UNCHANGED <<updates, heard>> /\ late' = late \cup {i}
        /\ downs' = [downs EXCEPT ![i] = 1]
    BY <1>8 DEF SaysDownLater, Counted, Ordered, Unreported
  <2>2. \A j \in Inst : Of(j, Kinds)' = Of(j, Kinds) /\ Of(j, Downs)' = Of(j, Downs)
    BY <2>1 DEF Of
  <2>3. Unreported'
    BY <2>1, <2>2 DEF Ordered, Unreported, SameBirths
  <2>4. DownIsLast'
    BY <2>1, <2>2 DEF Ordered, DownIsLast
  <2>5. \A j \in Inst : Orphan(j)' <=> Orphan(j)
    BY <2>1 DEF Killed
  <2>6. \A p \in DOMAIN updates : updates[p].inst \in Inst
    BY MessagesTyped
  <2>7. DownBeforeReplacement'
    BY <2>1, <2>5, <2>6 DEF Ordered, DownBeforeReplacement, SameBirths
  <2> QED
    BY <2>3, <2>4, <2>7 DEF Ordered
<1>9. ASSUME NEW i \in Inst, LateDownSent(i) PROVE Ordered'
  <2>1. /\ i \in late /\ late' = late \ {i} /\ UNCHANGED <<heard, downs, name, phase, left>>
        /\ updates' = Append(updates, [inst |-> i, kind |-> "LateDown"])
    BY <1>9 DEF LateDownSent, supVars, runnerVars, history
  <2>2. downs[i] # 0 /\ Of(i, Downs) = {} /\ heard[i] # "Down"
    BY <2>1 DEF Ordered, Unreported, DownIsLast
  <2>3. phase[i] # "unborn"
    BY <2>2 DEF Control, Births
  <2>4. SameBirths /\ Killed' = Killed
    BY <2>1 DEF SameBirths, Killed, Orphan
  <2> QED
    BY <1>d, <2>1, <2>2, <2>3, <2>4, SendKeepsOrder
<1> QED
  BY <1>1, <1>2, <1>3, <1>4, <1>5, <1>6, <1>7, <1>8, <1>9, StepSays DEF Effect

\* The Down of an instance is the last the channel says of it, and heard before
\* anything of its replacement, in every reachable state.
LEMMA OrderedHolds ==
    ASSUME ManifestNamesAgree
    PROVE  Spec => [](TypeOK /\ Control /\ Reporting /\ Ordered)
<1>1. Init => Ordered
  <2> SUFFICES ASSUME Init PROVE Ordered
    OBVIOUS
  <2>1. DOMAIN updates = {}
    BY DEF Init
  <2> QED
    BY <2>1 DEF Init, Ordered, Unreported, DownIsLast, DownBeforeReplacement, Of
<1>2. TypeOK /\ Control /\ Reporting /\ Ordered /\ [Next]_vars => Ordered'
  BY OrderedStep
<1>3. Spec => [](Control /\ TasksAndRoutesAgree)
  BY TasksAndRoutesAlwaysAgree
<1>4. Spec => []Reporting
  BY ReportingHolds
<1> QED
  BY <1>1, <1>2, <1>3, <1>4, TypeCorrect, PTL DEF Spec

-----------------------------------------------------------------------------
(* The refinement *)

NewsNow == [i \in Inst |-> Cardinality(Of(i, {"Ready", "Update"}))]

DownNow == [i \in Inst |->
    IF heard[i] = "Down" THEN "heard"
    ELSE IF i \in late \/ Of(i, {"LateDown"}) # {} THEN "straggling"
    ELSE IF Of(i, {"Down"}) # {} THEN "said" ELSE "unsaid"]

Introduced == {i \in Inst : heard[i] # "nothing"}

Unmoved == UNCHANGED <<name, AliveNow, Killed, NewsNow, DownNow, Introduced>>

\* Taking a message leaves an instance with messages of a kind if it had others.
LEMMA TakenSome ==
    ASSUME TypeOK, updates # <<>>, updates' = Tail(updates), NEW j, NEW kinds,
           1 \notin Of(j, kinds)
    PROVE  Of(j, kinds)' = {} <=> Of(j, kinds) = {}
<1>1. ASSUME NEW p \in Of(j, kinds) PROVE p - 1 \in Of(j, kinds)'
  BY TakenOf, <1>1 DEF Of
<1>2. ASSUME NEW p \in Of(j, kinds)' PROVE p + 1 \in Of(j, kinds)
  BY TakenOf, <1>2 DEF Of
<1> QED
  BY <1>1, <1>2

\* An instance with a name is one that was spawned.
LEMMA BornAreNamed ==
    ASSUME TypeOK, Births, Unreported, NEW i \in Inst
    PROVE  phase[i] # "unborn" <=> name[i] # NoName
BY NamesAreLabels DEF Births, Unreported

\* What is not about messages leaves the news as they are.
LEMMA QuietNews ==
    ASSUME UNCHANGED <<updates, late, heard>>
    PROVE  NewsNow' = NewsNow /\ DownNow' = DownNow /\ Introduced' = Introduced
<1>1. \A i, kinds : Of(i, kinds)' = Of(i, kinds)
  BY DEF Of
<1> QED
  BY <1>1 DEF NewsNow, DownNow, Introduced

\* What a runner or emit_down says is what ModuleNews lets it say.
LEMMA EffectMaps ==
    ASSUME TypeOK, Control, Ordered, NEW i \in Inst, Effect(i)
    PROVE  Unmoved \/ News!Die(i) \/ News!Speak(i) \/ News!SayDown(i, "said")
             \/ News!SayDown(i, "straggling")
<1> USE DEF TypeOK
<1>b. phase[i] # "unborn" => i \in News!Born
  BY BornAreNamed DEF Control, Ordered, News!Born
<1>k. /\ {"Ready", "Update"} \in SUBSET Kinds /\ {"Down"} \in SUBSET Kinds
      /\ {"LateDown"} \in SUBSET Kinds /\ Downs = {"Down", "LateDown"}
  BY DEF Kinds, Downs
<1>u. downs[i] = 0 => /\ heard[i] # "Down" /\ i \notin late
                      /\ Of(i, {"Down"}) = {} /\ Of(i, {"LateDown"}) = {}
  BY <1>k DEF Ordered, Unreported, Of
<1>s. downs[i] = 0 => DownNow[i] = "unsaid"
  BY <1>u DEF DownNow
<1>1. CASE Dies(i)
  <2>1. NewsNow' = NewsNow /\ DownNow' = DownNow /\ Introduced' = Introduced
    BY <1>1, QuietNews DEF Dies
  <2>2. name' = name /\ i \in AliveNow /\ AliveNow' = AliveNow \ {i} /\ Killed' = Killed
    BY <1>1 DEF Dies, SameBirths
  <2> QED
    BY <2>1, <2>2 DEF News!Die, AliveNow, Killed, NewsNow, DownNow, Introduced
<1>2. CASE SaysNews(i)
  <2>1. PICK k \in {"Ready", "Update"} : updates' = Append(updates, [inst |-> i, kind |-> k])
    BY <1>2 DEF SaysNews
  <2>2. name' = name /\ i \in AliveNow /\ AliveNow' = AliveNow /\ Killed' = Killed
        /\ downs[i] = 0 /\ UNCHANGED <<late, heard>>
    BY <1>2 DEF SaysNews, SameBirths
  <2>3. \A j \in Inst, kinds \in SUBSET Kinds :
            /\ j # i \/ k \notin kinds => Of(j, kinds)' = Of(j, kinds)
            /\ j = i /\ k \in kinds => Of(j, kinds)' = Of(j, kinds) \cup {Len(updates) + 1}
    BY <1>k, <2>1, SentOf
  <2>4. Len(updates) + 1 \notin Of(i, {"Ready", "Update"})
    BY DEF Of
  <2>5. Cardinality(Of(i, {"Ready", "Update"})') = Cardinality(Of(i, {"Ready", "Update"})) + 1
    <3>1. Of(i, {"Ready", "Update"})' = Of(i, {"Ready", "Update"}) \cup {Len(updates) + 1}
      BY <1>k, <2>3
    <3> QED
      BY <2>4, <3>1, OfFinite, FS_AddElement
  <2>6. NewsNow' = [NewsNow EXCEPT ![i] = @ + 1]
    <3>1. \A j \in Inst : j # i => Of(j, {"Ready", "Update"})' = Of(j, {"Ready", "Update"})
      BY <1>k, <2>3
    <3> QED
      BY <2>5, <3>1 DEF NewsNow
  <2>7. DownNow' = DownNow /\ Introduced' = Introduced
    <3>1. \A j \in Inst : Of(j, {"Down"})' = Of(j, {"Down"})
                          /\ Of(j, {"LateDown"})' = Of(j, {"LateDown"})
      BY <1>k, <2>3
    <3> QED
      BY <2>2, <3>1 DEF DownNow, Introduced
  <2> QED
    BY <1>s, <2>2, <2>6, <2>7 DEF News!Speak, AliveNow, Killed, NewsNow, DownNow, Introduced
<1>3. CASE SaysDownNow(i)
  <2>1. /\ phase[i] # "unborn" /\ name' = name /\ AliveNow' = AliveNow \ {i} /\ Killed' = Killed
        /\ downs[i] = 0 /\ UNCHANGED <<late, heard>>
        /\ updates' = Append(updates, [inst |-> i, kind |-> "Down"])
    BY <1>3 DEF SaysDownNow, Counted, SameBirths
  <2>2. \A j \in Inst, kinds \in SUBSET Kinds :
            /\ j # i \/ "Down" \notin kinds => Of(j, kinds)' = Of(j, kinds)
            /\ j = i /\ "Down" \in kinds => Of(j, kinds)' = Of(j, kinds) \cup {Len(updates) + 1}
    BY <1>k, <2>1, SentOf
  <2>3. \A j \in Inst : Of(j, {"Ready", "Update"})' = Of(j, {"Ready", "Update"})
                        /\ Of(j, {"LateDown"})' = Of(j, {"LateDown"})
    BY <1>k, <2>2
  <2>4. \A j \in Inst : j # i => Of(j, {"Down"})' = Of(j, {"Down"})
    BY <1>k, <2>2
  <2>5. Of(i, {"Down"})' # {}
    BY <1>k, <2>2
  <2>6. NewsNow' = NewsNow /\ Introduced' = Introduced
    BY <2>1, <2>3 DEF NewsNow, Introduced
  <2>7. DownNow' = [DownNow EXCEPT ![i] = "said"]
    BY <1>u, <2>1, <2>3, <2>4, <2>5 DEF DownNow
  <2> QED
    BY <1>b, <1>s, <2>1, <2>6, <2>7 DEF News!SayDown, AliveNow, Killed, NewsNow, DownNow, Introduced
<1>4. CASE SaysDownLater(i)
  <2>1. /\ phase[i] # "unborn" /\ name' = name /\ AliveNow' = AliveNow \ {i} /\ Killed' = Killed
        /\ downs[i] = 0 /\ UNCHANGED <<updates, heard>> /\ late' = late \cup {i}
    BY <1>4 DEF SaysDownLater, Counted, SameBirths
  <2>2. \A j, kinds : Of(j, kinds)' = Of(j, kinds)
    BY <2>1 DEF Of
  <2>3. NewsNow' = NewsNow /\ Introduced' = Introduced
    BY <2>1, <2>2 DEF NewsNow, Introduced
  <2>4. DownNow' = [DownNow EXCEPT ![i] = "straggling"]
    BY <1>u, <2>1, <2>2 DEF DownNow
  <2> QED
    BY <1>b, <1>s, <2>1, <2>3, <2>4 DEF News!SayDown, AliveNow, Killed, NewsNow, DownNow, Introduced
<1>5. CASE LateDownSent(i)
  <2>1. /\ i \in late /\ late' = late \ {i} /\ UNCHANGED <<heard, name, phase, left>>
        /\ updates' = Append(updates, [inst |-> i, kind |-> "LateDown"])
    BY <1>5 DEF LateDownSent, supVars, runnerVars, history
  <2>2. \A j \in Inst, kinds \in SUBSET Kinds :
            /\ j # i \/ "LateDown" \notin kinds => Of(j, kinds)' = Of(j, kinds)
            /\ j = i /\ "LateDown" \in kinds => Of(j, kinds)' = Of(j, kinds) \cup {Len(updates) + 1}
    BY <1>k, <2>1, SentOf
  <2>3. \A j \in Inst : Of(j, {"Ready", "Update"})' = Of(j, {"Ready", "Update"})
                        /\ Of(j, {"Down"})' = Of(j, {"Down"})
    BY <1>k, <2>2
  <2>4. \A j \in Inst : j # i => Of(j, {"LateDown"})' = Of(j, {"LateDown"})
    BY <1>k, <2>2
  <2>5. Of(i, {"LateDown"})' # {}
    BY <1>k, <2>2
  <2>6. NewsNow' = NewsNow /\ Introduced' = Introduced
    BY <2>1, <2>3 DEF NewsNow, Introduced
  <2>7. DownNow' = DownNow
    BY <2>1, <2>3, <2>4, <2>5 DEF DownNow
  <2>8. AliveNow' = AliveNow /\ Killed' = Killed
    BY <2>1 DEF AliveNow, Killed, Orphan
  <2> QED
    BY <2>1, <2>6, <2>7, <2>8 DEF Unmoved
<1> QED
  BY <1>1, <1>2, <1>3, <1>4, <1>5 DEF Effect

\* What the consumer receives is what ModuleNews lets the host hear next.
LEMMA ReceiveMaps ==
    ASSUME TypeOK, Ordered, Receive
    PROVE  \E i \in Inst : News!Hear(i) \/ News!HearDown(i)
<1> DEFINE m == updates[1]
<1> USE DEF TypeOK
<1>0. updates # <<>> /\ updates' = Tail(updates)
  BY DEF Receive
<1>m. /\ 1 \in DOMAIN updates /\ Head(updates) = m /\ m \in Messages
      /\ m.inst \in Inst /\ m.kind \in Kinds
  BY <1>0, TakenOf, MessagesTyped
<1>p. PICK i \in Inst : i = m.inst
  BY <1>m
<1>1. /\ 1 \in DOMAIN updates /\ Head(updates) = m /\ m \in Messages
      /\ i \in Inst /\ m.inst = i /\ m.kind \in Kinds
  BY <1>m, <1>p
<1>h. /\ heard' = [heard EXCEPT ![i] = IF m.kind \in Downs THEN "Down"
                                       ELSE IF m.kind = "Ready" THEN "Ready" ELSE @]
      /\ UNCHANGED <<name, phase, left, late>>
  BY <1>1 DEF Receive, supVars, runnerVars
<1>2. UNCHANGED name /\ AliveNow' = AliveNow /\ Killed' = Killed
  BY <1>h DEF AliveNow, Killed, Orphan
<1>3. heard[i] # "Down"
  <2>1. 1 \in Of(i, Kinds)
    BY <1>1 DEF Of
  <2> QED
    BY <1>1, <2>1 DEF Ordered, DownIsLast
<1>4. \A j \in Inst : \A kinds : 1 \in Of(j, kinds) <=> j = i /\ m.kind \in kinds
  BY <1>1 DEF Of
<1>5. \A j \in Inst : \A kinds :
          j # i \/ m.kind \notin kinds => (Of(j, kinds)' = {} <=> Of(j, kinds) = {})
  BY <1>0, <1>4, TakenSome
<1>6. \A j \in Inst : NewsNow'[j] =
          NewsNow[j] - (IF 1 \in Of(j, {"Ready", "Update"}) THEN 1 ELSE 0)
  BY <1>0, TakenCount DEF NewsNow
<1>7. NewsNow \in [Inst -> Nat] /\ NewsNow' = [j \in Inst |-> NewsNow'[j]]
  BY OfFinite DEF NewsNow
<1>8. CASE m.kind \in {"Ready", "Update"}
  <2>1. NewsNow' = [NewsNow EXCEPT ![i] = @ - 1]
    <3>1. NewsNow'[i] = NewsNow[i] - 1
      BY <1>1, <1>4, <1>6, <1>8
    <3>2. \A j \in Inst : j # i => NewsNow'[j] = NewsNow[j]
      BY <1>4, <1>6, <1>7
    <3> QED
      BY <1>1, <1>7, <3>1, <3>2
  <2>2. NewsNow[i] > 0
    <3>1. 1 \in Of(i, {"Ready", "Update"})
      BY <1>1, <1>4, <1>8
    <3>2. Cardinality(Of(i, {"Ready", "Update"})) # 0
      BY <3>1, OfFinite, FS_EmptySet
    <3> QED
      BY <1>1, <1>7, <3>2, OfFinite DEF NewsNow
  <2>3. heard' = [heard EXCEPT ![i] = IF m.kind = "Ready" THEN "Ready" ELSE @]
    BY <1>h, <1>8 DEF Downs
  <2>4. DownNow' = DownNow
    <3>1. \A j \in Inst : /\ Of(j, {"Down"})' = {} <=> Of(j, {"Down"}) = {}
                          /\ Of(j, {"LateDown"})' = {} <=> Of(j, {"LateDown"}) = {}
      BY <1>5, <1>8
    <3>2. \A j \in Inst : heard'[j] = "Down" <=> heard[j] = "Down"
      BY <1>3, <2>3
    <3> QED
      BY <1>h, <3>1, <3>2 DEF DownNow
  <2>5. DownNow[i] # "heard"
    BY <1>1, <1>3 DEF DownNow
  <2>6. Introduced' = Introduced \cup {i} \/ Introduced' = Introduced
    BY <1>1, <2>3 DEF Introduced
  <2>7. News!Hear(i)
    BY <1>2, <2>1, <2>2, <2>4, <2>5, <2>6
       DEF News!Hear, AliveNow, Killed, NewsNow, DownNow, Introduced
  <2> QED
    BY <1>1, <2>7
<1>9. CASE m.kind \in Downs
  <2>1. \A q \in DOMAIN updates : updates[q].inst = i => q <= 1
    BY <1>1, <1>9 DEF Ordered, DownIsLast
  <2>2. Of(i, {"Ready", "Update"}) = {}
    BY <1>0, <1>9, <2>1, TakenOf DEF Of, Downs
  <2>3. NewsNow' = NewsNow /\ NewsNow[i] = 0
    <3>0. \A j \in Inst : 1 \notin Of(j, {"Ready", "Update"})
      BY <1>9 DEF Of, Downs
    <3>1. \A j \in Inst : NewsNow'[j] = NewsNow[j]
      BY <1>6, <1>7, <3>0
    <3>2. NewsNow[i] = 0
      BY <1>1, <2>2, FS_EmptySet DEF NewsNow
    <3> QED
      BY <1>7, <3>1, <3>2
  <2>4. heard' = [heard EXCEPT ![i] = "Down"]
    BY <1>h, <1>9
  <2>5. DownNow' = [DownNow EXCEPT ![i] = "heard"]
    <3>1. \A j \in Inst : j # i =>
              /\ Of(j, {"Down"})' = {} <=> Of(j, {"Down"}) = {}
              /\ Of(j, {"LateDown"})' = {} <=> Of(j, {"LateDown"}) = {}
      BY <1>5
    <3> QED
      BY <1>1, <1>h, <2>4, <3>1 DEF DownNow
  <2>6. Introduced' = Introduced \cup {i}
    BY <1>1, <2>4 DEF Introduced
  <2>7. CASE m.kind = "LateDown"
    <3>1. DownNow[i] = "straggling"
      BY <1>1, <1>3, <1>4, <2>7 DEF DownNow
    <3>2. News!HearDown(i)
      BY <1>2, <2>3, <2>5, <2>6, <3>1
         DEF News!HearDown, AliveNow, Killed, NewsNow, DownNow, Introduced
    <3> QED
      BY <1>1, <3>2
  <2>8. CASE m.kind = "Down"
    <3>1. DownNow[i] \in {"said", "straggling"}
      BY <1>1, <1>3, <1>4, <2>8 DEF DownNow
    <3>2. i \in Killed \/ \A j \in Introduced : i < j => name[j] # name[i]
      BY <1>1, <2>8 DEF Killed, Introduced, Ordered, DownBeforeReplacement
    <3>3. News!HearDown(i)
      BY <1>2, <2>3, <2>5, <2>6, <3>1, <3>2
         DEF News!HearDown, AliveNow, Killed, NewsNow, DownNow, Introduced
    <3> QED
      BY <1>1, <3>3
  <2> QED
    BY <1>9, <2>7, <2>8 DEF Downs
<1> QED
  BY <1>1, <1>8, <1>9 DEF Kinds, Downs

\* An instance is started when the others of its name are dead or given up.
LEMMA SpawnMaps ==
    ASSUME TypeOK, Control, Ordered, SpawnInstance
    PROVE  \E i \in Inst, n \in Names : News!Start(i, n)
<1> USE DEF TypeOK
<1>i. PICK i \in Inst : i = made + 1
  BY BoundsArePositive DEF SpawnInstance, Inst
<1>n. PICK n \in Names : n = target
  BY DEF SpawnInstance, Control, CallLocals
<1>1. /\ pc = "spawning" /\ i \in Inst /\ phase[i] = "unborn" /\ target \in Names
      /\ name' = [name EXCEPT ![i] = target] /\ phase' = [phase EXCEPT ![i] = "starting"]
      /\ UNCHANGED <<updates, late, heard, left>>
  BY <1>i DEF SpawnInstance, Control, CallLocals, Births, Inst, chanVars, history
<1>2. NewsNow' = NewsNow /\ DownNow' = DownNow /\ Introduced' = Introduced
  BY <1>1, QuietNews
<1>3. i \notin News!Born /\ \A j \in Inst : j < i => j \in News!Born
  <2>1. \A j \in Inst : j < i => phase[j] # "unborn"
    BY <1>i DEF Control, Births, Inst
  <2> QED
    BY <1>1, <2>1, BornAreNamed DEF Control, Ordered, News!Born
<1>4. \A j \in AliveNow : name[j] = target => j \in Killed
  <2> SUFFICES ASSUME NEW j \in AliveNow, name[j] = target PROVE j \in Killed
    OBVIOUS
  <2>1. j \in Inst /\ phase[j] \notin {"unborn", "finished"}
    BY DEF AliveNow
  <2>2. j \notin Managed
    BY <1>1 DEF Control, CallLocals
  <2>3. left[j] # "no" /\ left[j] # "stopped" /\ left[j] # "reaped"
    BY <2>1, <2>2 DEF Control, Departures, Managed, Inst, NoInst
  <2> QED
    BY <2>1, <2>3 DEF Killed, Orphan
<1>5. AliveNow' = AliveNow \cup {i} /\ Killed' = Killed
  BY <1>1 DEF AliveNow, Killed, Orphan, Phases
<1>6. News!Start(i, n)
  BY <1>n, <1>1, <1>2, <1>3, <1>4, <1>5
     DEF News!Start, AliveNow, Killed, NewsNow, DownNow, Introduced
<1> QED
  BY <1>6

\* Only instances that were spawned are given up.
LEMMA GivesUpMaps ==
    ASSUME TypeOK, Control, Ordered, GivesUp
    PROVE  \E S \in SUBSET Inst : News!Abandon(S)
<1>1. /\ name' = name /\ AliveNow' = AliveNow /\ Killed' \subseteq Inst
      /\ NewsNow' = NewsNow /\ DownNow' = DownNow /\ Introduced' = Introduced
  BY QuietNews DEF GivesUp, SameBirths, Killed
<1>2. Killed' = Killed \cup Killed'
  BY DEF GivesUp
<1>3. \A i \in Killed : phase[i] # "unborn"
  BY DEF Killed, Orphan, Control, Births
<1>4. Killed' \subseteq News!Born
  BY <1>1, <1>3, BornAreNamed DEF GivesUp, Control, Ordered, News!Born
<1>5. News!Abandon(Killed')
  BY <1>1, <1>2, <1>4 DEF News!Abandon, AliveNow, Killed, NewsNow, DownNow, Introduced
<1> QED
  BY <1>1, <1>5

\* The supervisor, its runners and emit_down's tasks implement ModuleNews, for
\* any number of names and instances and any capacity of the channels: each step
\* is one that ModuleNews allows, or one that the host cannot tell.
THEOREM NewsAlwaysInOrder ==
    ASSUME ManifestNamesAgree PROVE Spec => NewsInOrder
<1>1. Init => News!Init
  <2> SUFFICES ASSUME Init PROVE News!Init
    OBVIOUS
  <2>1. DOMAIN updates = {} /\ \A i, kinds : Of(i, kinds) = {}
    BY DEF Init, Of
  <2>2. AliveNow = {} /\ Killed = {} /\ Introduced = {}
    BY DEF Init, AliveNow, Killed, Introduced, Orphan
  <2>3. NewsNow = [i \in Inst |-> 0]
    BY <2>1, FS_EmptySet DEF NewsNow
  <2>4. DownNow = [i \in Inst |-> "unsaid"]
    BY <2>1 DEF Init, DownNow
  <2> QED
    BY <2>2, <2>3, <2>4 DEF Init, News!Init, AliveNow, Killed, NewsNow, DownNow, Introduced
<1>2. TypeOK /\ Control /\ Reporting /\ Ordered /\ [Next]_vars => [News!Next]_News!vars
  <2> SUFFICES ASSUME TypeOK, Control, Reporting, Ordered, [Next]_vars
               PROVE  [News!Next]_News!vars
    OBVIOUS
  <2>1. ASSUME Unmoved PROVE UNCHANGED News!vars
    BY <2>1 DEF Unmoved, News!vars, AliveNow, Killed, NewsNow, DownNow, Introduced
  <2>2. CASE SaysNothing
    BY <2>1, <2>2, QuietNews DEF SaysNothing, SameBirths, Unmoved
  <2>3. CASE GivesUp
    BY <2>3, GivesUpMaps DEF News!Next
  <2>4. CASE SpawnInstance
    BY <2>4, SpawnMaps DEF News!Next
  <2>5. CASE Receive
    BY <2>5, ReceiveMaps DEF News!Next
  <2>6. ASSUME NEW i \in Inst, Effect(i) PROVE [News!Next]_News!vars
    BY <2>1, <2>6, EffectMaps DEF News!Next
  <2> QED
    BY <2>2, <2>3, <2>4, <2>5, <2>6, StepSays
<1> QED
  BY <1>1, <1>2, OrderedHolds, PTL DEF Spec, NewsInOrder, News!Spec

=============================================================================
