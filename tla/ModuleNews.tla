----------------------------- MODULE ModuleNews -----------------------------
(***************************************************************************)
(* What the supervisor and its runners promise the host about the          *)
(* instances of modules: one instance of a name at a time, and of each     *)
(* instance first its news, then at most one Down, and only then anything  *)
(* of the instance that replaces it.  Supervisor implements it, with the   *)
(* channel, the flags and the tasks between the two hidden.                *)
(***************************************************************************)
EXTENDS Naturals

CONSTANTS
    Inst,    \* instances, in the order they are spawned
    Names,   \* names modules are spawned under
    NoName   \* the name of an instance not yet spawned

VARIABLES
    name,       \* instance -> the name it was spawned under
    alive,      \* instances whose task has not ended
    abandoned,  \* instances given up without waiting for their end
    news,       \* instance -> messages other than Down on their way
    down,       \* instance -> where its Down is: "unsaid", "said", "straggling" (it waits
                \* outside the channel and may be overtaken) or "heard"
    introduced  \* instances the host has heard a Ready or a Down of

vars == <<name, alive, abandoned, news, down, introduced>>

Born == {i \in Inst : name[i] # NoName}

Init ==
    /\ name = [i \in Inst |-> NoName]
    /\ alive = {} /\ abandoned = {} /\ introduced = {}
    /\ news = [i \in Inst |-> 0]
    /\ down = [i \in Inst |-> "unsaid"]

\* Only an abandoned instance may still run when another of its name starts.
Start(i, n) ==
    /\ i \notin Born /\ \A j \in Inst : j < i => j \in Born
    /\ \A j \in alive : name[j] = n => j \in abandoned
    /\ name' = [name EXCEPT ![i] = n]
    /\ alive' = alive \cup {i}
    /\ UNCHANGED <<abandoned, news, down, introduced>>

Abandon(S) ==
    /\ S \subseteq Born
    /\ abandoned' = abandoned \cup S
    /\ UNCHANGED <<name, alive, news, down, introduced>>

Speak(i) ==
    /\ i \in alive /\ down[i] = "unsaid"
    /\ news' = [news EXCEPT ![i] = @ + 1]
    /\ UNCHANGED <<name, alive, abandoned, down, introduced>>

Die(i) ==
    /\ i \in alive
    /\ alive' = alive \ {i}
    /\ UNCHANGED <<name, abandoned, news, down, introduced>>

\* The instance is dead, or dies of it.
SayDown(i, how) ==
    /\ i \in Born /\ down[i] = "unsaid"
    /\ down' = [down EXCEPT ![i] = how]
    /\ alive' = alive \ {i}
    /\ UNCHANGED <<name, abandoned, news, introduced>>

Hear(i) ==
    /\ news[i] > 0 /\ down[i] # "heard"
    /\ news' = [news EXCEPT ![i] = @ - 1]
    /\ \/ introduced' = introduced \cup {i}
       \/ UNCHANGED introduced
    /\ UNCHANGED <<name, alive, abandoned, down>>

\* Nothing of the instance is on its way any more; unless the Down straggles,
\* the host knows nothing yet of an instance that replaces this one.
HearDown(i) ==
    /\ news[i] = 0
    /\ \/ down[i] = "straggling" \/ i \in abandoned
       \/ \A j \in introduced : i < j => name[j] # name[i]
    /\ down[i] \in {"said", "straggling"}
    /\ down' = [down EXCEPT ![i] = "heard"]
    /\ introduced' = introduced \cup {i}
    /\ UNCHANGED <<name, alive, abandoned, news>>

Next ==
    \/ \E i \in Inst :
        \/ \E n \in Names : Start(i, n)
        \/ Speak(i) \/ Die(i) \/ Hear(i) \/ HearDown(i)
        \/ \E how \in {"said", "straggling"} : SayDown(i, how)
    \/ \E S \in SUBSET Inst : Abandon(S)

Spec == Init /\ [][Next]_vars
=============================================================================
