-------------------------- MODULE CompositorsProofs --------------------------
(***************************************************************************)
(* Proofs about Compositors, for any number of threads, keybinds, changes  *)
(* and requests without an answer.  InstancesInv is the invariant of the   *)
(* integrations that are made and of the keybinds they keep, OrderInv the  *)
(* one of the requests of a status.                                        *)
(***************************************************************************)
EXTENDS Compositors, Integers, FiniteSetTheorems, TLAPS

\* There are finitely many threads, and room for the first message of a connection.
ConstantsAreMeant ==
    /\ IsFiniteSet(Users)
    /\ MaxEdition \in Nat /\ MaxFailures \in Nat /\ MaxEvents \in Nat \ {0}

Most == Cardinality(Everyone)

\* Threads that are about to put an integration they made in place of the one in use.
Finders == {t \in Everyone : at[t] \in {"swap", "tell"}}

Typed ==
    /\ TypeOK
    /\ choice \in {"auto", "niri", "sway", "none"}
    /\ hand \in [Everyone -> [kind : Kinds, id : Nat]]
    /\ recorded \in [0 .. Most -> SUBSET Binds]

\* The last integration made is the one in use; the first is never Hyprland's, and only
\* threads that saw it make others, each one at most.
InstancesInv ==
    /\ current.id = created - 1
    /\ current.kind = "none" => created = 1
    /\ created = 1 => asked = {} /\ current.kind # "hyprland"
    /\ created = 2 => asked \subseteq recorded[1]
    /\ \A t \in Finders : hand[t].kind \in Found
    /\ \A t \in Everyone : at[t] \in {"probe", "use"} =>
           hand[t].id < created /\ (hand[t].kind = "hyprland" => hand[t].id >= 1)
    /\ created - 1 + Cardinality(Finders) <= Most

\* The first n parts of a status that were answered are of moments in this order.
SortedTo(n) ==
    LET asks == Requests(hand[Main].kind)
        At(i) == status[asks[i]]
    IN  \A i, j \in DOMAIN asks :
            i < j /\ j <= n /\ At(i) # Empty /\ At(j) # Empty => At(i) <= At(j)

OrderInv ==
    /\ \A k \in DOMAIN Requests(hand[Main].kind) :
           at[Main] = Requests(hand[Main].kind)[k] => SortedTo(k - 1)
    /\ at[Main] = "loop" => StatusIsInOrder
    /\ choice # "auto" =>
           /\ at[Main] \in {"idle", "use", "loop"} \cup StatusParts
           /\ at[Main] \in {"idle", "use"} => status = [p \in StatusParts |-> 0]
           /\ at[Main] \notin {"idle", "use"} => inside

IInv == Typed /\ InstancesInv /\ OrderInv

-----------------------------------------------------------------------------
(* Threads *)

LEMMA EveryoneIsFinite ==
    ASSUME ConstantsAreMeant
    PROVE  /\ IsFiniteSet(Everyone) /\ Most \in Nat /\ Most >= 1 /\ Main \in Everyone
<1>1. IsFiniteSet(Everyone)
  BY FS_AddElement DEF ConstantsAreMeant, Everyone
<1>2. Main \in Everyone
  BY DEF Everyone
<1>3. IsFiniteSet({Main}) /\ Cardinality({Main}) = 1
  BY FS_Singleton
<1>4. Cardinality({Main}) <= Cardinality(Everyone) /\ Cardinality(Everyone) \in Nat
  BY <1>1, <1>2, FS_Subset, FS_CardinalityType
<1> QED
  BY <1>1, <1>2, <1>3, <1>4 DEF Most

LEMMA ThreadsAreCounted ==
    ASSUME ConstantsAreMeant, NEW S \in SUBSET Everyone
    PROVE  /\ IsFiniteSet(S) /\ Cardinality(S) \in Nat /\ Cardinality(S) <= Most
           /\ \A t \in S : Cardinality(S \ {t}) = Cardinality(S) - 1 /\ Cardinality(S) >= 1
<1>1. IsFiniteSet(S) /\ Cardinality(S) \in Nat /\ Cardinality(S) <= Most
  BY EveryoneIsFinite, FS_Subset, FS_CardinalityType DEF Most
<1>2. ASSUME NEW t \in S
      PROVE  Cardinality(S \ {t}) = Cardinality(S) - 1 /\ Cardinality(S) >= 1
  <2>1. Cardinality(S \ {t}) = Cardinality(S) - 1 /\ Cardinality(S) # 0
    BY <1>1, FS_RemoveElement, FS_EmptySet
  <2> QED
    BY <1>1, <2>1
<1> QED
  BY <1>1, <1>2

LEMMA Starts == ConstantsAreMeant /\ Init => IInv
<1> SUFFICES ASSUME ConstantsAreMeant, Init PROVE IInv
  OBVIOUS
<1> USE DEF Init
<1>1. Most \in Nat /\ Most >= 1
  BY EveryoneIsFinite
<1>2. Finders = {}
  BY DEF Finders
<1>3. Typed
  <2>1. recorded \in [0 .. Most -> SUBSET Binds]
    BY DEF Most
  <2>2. hand \in [Everyone -> [kind : Kinds, id : Nat]]
    BY DEF Dropped, Kinds, Found
  <2>3. TypeOK
    <3>1. /\ sockets \subseteq Found /\ current \in [kind : Kinds, id : 0 .. Cardinality(Everyone)]
          /\ created \in 1 .. Cardinality(Everyone) + 1
      BY <1>1 DEF Most, Found, Kinds
    <3>2. /\ \A i \in DOMAIN recorded : recorded[i] \subseteq asked
          /\ asked \subseteq Binds /\ \A t \in Everyone : hand[t].kind \in Kinds
      BY <2>2
    <3>3. /\ events \in 0 .. MaxEvents /\ edition \in 0 .. MaxEdition /\ failures \in 0 .. MaxFailures
          /\ known \in 0 .. edition \cup {Empty}
      BY DEF ConstantsAreMeant
    <3>4. status \in [StatusParts -> 0 .. edition \cup {Empty}]
      BY <3>3
    <3> QED
      BY <3>1, <3>2, <3>3, <3>4 DEF TypeOK
  <2> QED
    BY <2>1, <2>2, <2>3 DEF Typed
<1>4. InstancesInv
  <2>1. Cardinality(Finders) = 0
    BY <1>2, FS_EmptySet
  <2>2. created - 1 + Cardinality(Finders) <= Most
    BY <1>1, <2>1
  <2> QED
    BY <1>2, <2>2 DEF InstancesInv
<1>5. OrderInv
  <2>1. Main \in Everyone
    BY EveryoneIsFinite
  <2>2. at[Main] = "idle"
    BY <2>1
  <2> QED
    BY <2>2 DEF OrderInv, Requests
<1> QED
  BY <1>3, <1>4, <1>5 DEF IInv

-----------------------------------------------------------------------------
(* Integrations *)

\* A step of one thread that stands elsewhere after it.
LEMMA OthersStand ==
    ASSUME Typed, NEW t \in Everyone, NEW p, Go(t, p)
    PROVE  at'[t] = p /\ \A u \in Everyone \ {t} : at'[u] = at[u]
BY DEF Typed, TypeOK, Go

LEMMA BackendStep ==
    ASSUME ConstantsAreMeant, Typed, InstancesInv, NEW t \in Everyone, Backend(t)
    PROVE  Typed' /\ InstancesInv'
<1>1. /\ at[t] = "idle" /\ hand' = [hand EXCEPT ![t] = current]
      /\ UNCHANGED <<session, holding, stream, edition, status, inside, known, failures>>
  BY DEF Backend, Hold
<1>2. PICK p \in {"probe", "use"} : Go(t, p)
  BY DEF Backend
<1>3. at'[t] = p /\ \A u \in Everyone \ {t} : at'[u] = at[u]
  BY <1>2, OthersStand
<1>4. current \in [kind : Kinds, id : Nat]
  BY EveryoneIsFinite DEF Typed, TypeOK, Most
<1>5. Typed'
  <2>1. /\ hand' \in [Everyone -> [kind : Kinds, id : Nat]]
        /\ \A u \in Everyone : hand'[u].kind \in Kinds
        /\ at' \in [Everyone ->
               {"idle", "probe", "again", "swap", "tell", "use", "loop"} \cup StatusParts]
    BY <1>1, <1>2, <1>4 DEF Typed, TypeOK, Go
  <2> QED
    BY <1>1, <2>1 DEF Typed, TypeOK, session, holding, stream, Empty
<1>6. InstancesInv'
  <2>1. Finders' = Finders
    BY <1>1, <1>3 DEF Finders
  <2>2. current.id < created /\ (current.kind = "hyprland" => current.id >= 1)
    BY DEF InstancesInv, Typed, TypeOK, Kinds, Found
  <2>3. /\ hand'[t] = current
        /\ \A u \in Everyone \ {t} : hand'[u] = hand[u]
    BY <1>1 DEF Typed
  <2>4. \A u \in Everyone : at'[u] \in {"probe", "use"} =>
            hand'[u].id < created /\ (hand'[u].kind = "hyprland" => hand'[u].id >= 1)
    BY <1>3, <2>2, <2>3 DEF InstancesInv
  <2>5. \A u \in Finders : hand'[u].kind \in Found
    BY <1>1, <2>3 DEF InstancesInv, Finders
  <2> QED
    BY <1>1, <2>1, <2>4, <2>5 DEF InstancesInv, holding
<1> QED
  BY <1>5, <1>6

LEMMA ProbeStep ==
    ASSUME ConstantsAreMeant, Typed, InstancesInv, NEW t \in Everyone, Probe(t)
    PROVE  Typed' /\ InstancesInv'
<1>1. /\ at[t] \in {"probe", "again"}
      /\ UNCHANGED <<session, holding, stream, edition, status, inside, known, failures>>
  BY DEF Probe
<1>2. CASE current.kind = "none" /\ Detected # "none"
  <2> DEFINE found == [kind |-> Detected, id |-> created]
  <2>1. hand' = [hand EXCEPT ![t] = found]
    BY <1>2 DEF Probe, Hold
  <2>2. PICK p \in {"tell", "swap"} : Go(t, p)
    BY <1>2 DEF Probe
  <2>3. at'[t] = p /\ \A u \in Everyone \ {t} : at'[u] = at[u]
    BY <2>2, OthersStand
  <2>4. found \in [kind : Kinds, id : Nat] /\ found.kind \in Found
    BY <1>2 DEF Detected, Found, Kinds, Typed, TypeOK
  <2> HIDE DEF found
  <2>5. Typed'
    <3>1. /\ hand' \in [Everyone -> [kind : Kinds, id : Nat]]
          /\ \A u \in Everyone : hand'[u].kind \in Kinds
          /\ at' \in [Everyone ->
                 {"idle", "probe", "again", "swap", "tell", "use", "loop"} \cup StatusParts]
      BY <2>1, <2>2, <2>4 DEF Typed, TypeOK, Go
    <3> QED
      BY <1>1, <3>1 DEF Typed, TypeOK, session, holding, stream, Empty
  <2>6. hand'[t] = found /\ \A u \in Everyone \ {t} : hand'[u] = hand[u]
    BY <2>1 DEF Typed
  <2>7. created - 1 + Cardinality(Finders') <= Most
    <3>1. Finders' \in SUBSET Everyone
      BY DEF Finders
    <3>2. Cardinality(Finders') \in Nat /\ Cardinality(Finders') <= Most
      BY <3>1, ThreadsAreCounted
    <3> QED
      BY <1>2, <3>2, EveryoneIsFinite DEF InstancesInv
  <2>8. \A u \in Finders' : hand'[u].kind \in Found
    BY <2>3, <2>4, <2>6 DEF InstancesInv, Finders
  <2>9. \A u \in Everyone : at'[u] \in {"probe", "use"} =>
            hand'[u].id < created /\ (hand'[u].kind = "hyprland" => hand'[u].id >= 1)
    BY <2>3, <2>6 DEF InstancesInv
  <2> QED
    BY <1>1, <2>5, <2>7, <2>8, <2>9 DEF InstancesInv, holding
<1>3. CASE ~(current.kind = "none" /\ Detected # "none")
  <2>1. hand' = hand
    BY <1>3 DEF Probe
  <2>2. PICK p \in {"idle", "use"} : Go(t, p) /\ (p = "use" => at[t] = "probe")
    BY <1>1, <1>3 DEF Probe
  <2>3. at'[t] = p /\ \A u \in Everyone \ {t} : at'[u] = at[u]
    BY <2>2, OthersStand
  <2>4. Typed'
    <3>1. at' \in [Everyone ->
                 {"idle", "probe", "again", "swap", "tell", "use", "loop"} \cup StatusParts]
      BY <2>2 DEF Typed, TypeOK, Go
    <3> QED
      BY <1>1, <2>1, <3>1 DEF Typed, TypeOK, session, holding, stream, Empty
  <2>5. Finders' = Finders
    BY <1>1, <2>3 DEF Finders
  <2>6. \A u \in Everyone : at'[u] \in {"probe", "use"} =>
            hand'[u].id < created /\ (hand'[u].kind = "hyprland" => hand'[u].id >= 1)
    BY <2>1, <2>2, <2>3 DEF InstancesInv
  <2> QED
    BY <1>1, <2>1, <2>4, <2>5, <2>6 DEF InstancesInv, holding
<1> QED
  BY <1>2, <1>3

LEMMA SwapStep ==
    ASSUME ConstantsAreMeant, Typed, InstancesInv, NEW t \in Everyone, Swap(t)
    PROVE  Typed' /\ InstancesInv'
<1>1. /\ t \in Finders /\ created' = created + 1
      /\ current' = [kind |-> hand[t].kind, id |-> created]
      /\ UNCHANGED <<session, recorded, asked, hand, stream, edition, status, inside, known, failures>>
  BY DEF Swap, Finders
<1>2. PICK p \in {"list", "idle"} : Go(t, p)
  BY DEF Swap
<1>3. at'[t] = p /\ \A u \in Everyone \ {t} : at'[u] = at[u]
  BY <1>2, OthersStand
<1>4. Finders' = Finders \ {t}
  BY <1>3 DEF Finders
<1>5. hand[t].kind \in Found
  BY <1>1 DEF InstancesInv
<1>6. created \in Nat /\ created >= 1 /\ Most \in Nat
  BY EveryoneIsFinite DEF Typed, TypeOK
<1>7. created + Cardinality(Finders') <= Most /\ created <= Most
  <2>1. Finders \in SUBSET Everyone
    BY DEF Finders
  <2>2. /\ Cardinality(Finders) \in Nat /\ Cardinality(Finders) >= 1
        /\ Cardinality(Finders') = Cardinality(Finders) - 1
    BY <1>1, <1>4, <2>1, ThreadsAreCounted
  <2>3. created - 1 + Cardinality(Finders) <= Most
    BY DEF InstancesInv
  <2> QED
    BY <1>6, <2>2, <2>3
<1>8. Typed'
  <2>1. at' \in [Everyone ->
               {"idle", "probe", "again", "swap", "tell", "use", "loop"} \cup StatusParts]
    BY <1>2 DEF Typed, TypeOK, Go, StatusParts
  <2>2. created' \in 1 .. Most + 1 /\ current' \in [kind : Kinds, id : 0 .. Most]
    BY <1>1, <1>5, <1>6, <1>7 DEF Kinds
  <2> QED
    BY <1>1, <2>1, <2>2 DEF Typed, TypeOK, Most, session, stream, Empty
<1>9. InstancesInv'
  <2>1. current'.id = created' - 1 /\ current'.kind # "none" /\ created' # 1
    BY <1>1, <1>5, <1>6 DEF Found
  <2>2. created' = 2 => asked' \subseteq recorded'[1]
    BY <1>1, <1>6 DEF InstancesInv
  <2>3. \A u \in Finders' : hand'[u].kind \in Found
    BY <1>1, <1>4 DEF InstancesInv
  <2>4. \A u \in Everyone : at'[u] \in {"probe", "use"} =>
            hand'[u].id < created' /\ (hand'[u].kind = "hyprland" => hand'[u].id >= 1)
    <3> SUFFICES ASSUME NEW u \in Everyone, at'[u] \in {"probe", "use"}
                 PROVE  hand'[u].id < created' /\ (hand'[u].kind = "hyprland" => hand'[u].id >= 1)
      OBVIOUS
    <3>1. u # t /\ at[u] \in {"probe", "use"} /\ hand'[u] = hand[u]
      BY <1>1, <1>3
    <3>2. hand[u].id < created /\ (hand[u].kind = "hyprland" => hand[u].id >= 1) /\ hand[u].id \in Nat
      BY <3>1 DEF InstancesInv, Typed
    <3> QED
      BY <1>1, <1>6, <3>1, <3>2
  <2>5. created' - 1 + Cardinality(Finders') <= Most
    <3>1. created' - 1 = created
      BY <1>1, <1>6
    <3> QED
      BY <1>7, <3>1
  <2> QED
    BY <2>1, <2>2, <2>3, <2>4, <2>5 DEF InstancesInv
<1> QED
  BY <1>8, <1>9

LEMMA RegisterStep ==
    ASSUME ConstantsAreMeant, Typed, InstancesInv, NEW t \in Everyone, Register(t)
    PROVE  Typed' /\ InstancesInv'
<1>1. /\ at[t] = "use" /\ hand' = [hand EXCEPT ![t] = Dropped] /\ Go(t, "idle")
      /\ UNCHANGED <<session, current, created, stream, edition, status, inside, known, failures>>
  BY DEF Register, Hold
<1>2. at'[t] = "idle" /\ \A u \in Everyone \ {t} : at'[u] = at[u]
  BY <1>1, OthersStand
<1>3. Finders' = Finders
  BY <1>1, <1>2 DEF Finders
<1>4. Dropped \in [kind : Kinds, id : Nat]
  BY DEF Dropped, Kinds
<1>5. /\ hand[t].id \in Nat /\ hand[t].id < created
      /\ hand[t].kind = "hyprland" => hand[t].id >= 1
  BY <1>1 DEF InstancesInv, Typed
<1>6. \/ UNCHANGED <<recorded, asked>>
      \/ \E k \in Binds :
             /\ hand[t].kind = "hyprland"
             /\ recorded' = [recorded EXCEPT ![hand[t].id] = @ \cup {k}]
             /\ asked' = asked \cup {k}
  BY DEF Register
<1>7. /\ recorded' \in [0 .. Most -> SUBSET Binds] /\ asked' \in SUBSET Binds
      /\ \A i \in 0 .. Most : recorded'[i] \subseteq asked'
      /\ created = 1 => asked' = {}
      /\ created = 2 => asked' \subseteq recorded'[1]
  <2>1. recorded \in [0 .. Most -> SUBSET Binds] /\ asked \in SUBSET Binds
        /\ \A i \in 0 .. Most : recorded[i] \subseteq asked
    BY DEF Typed, TypeOK
  <2>2. CASE UNCHANGED <<recorded, asked>>
    BY <2>1, <2>2 DEF InstancesInv
  <2>3. ASSUME NEW k \in Binds, hand[t].kind = "hyprland",
               recorded' = [recorded EXCEPT ![hand[t].id] = @ \cup {k}],
               asked' = asked \cup {k}
        PROVE  /\ recorded' \in [0 .. Most -> SUBSET Binds] /\ asked' \in SUBSET Binds
               /\ \A i \in 0 .. Most : recorded'[i] \subseteq asked'
               /\ created = 1 => asked' = {}
               /\ created = 2 => asked' \subseteq recorded'[1]
    <3>1. hand[t].id \in 0 .. Most /\ created # 1 /\ (created = 2 => hand[t].id = 1)
      BY <1>5, <2>3, EveryoneIsFinite DEF Typed, TypeOK, Most
    <3> QED
      BY <2>1, <2>3, <3>1 DEF InstancesInv
  <2> QED
    BY <1>6, <2>2, <2>3
<1>8. /\ hand' \in [Everyone -> [kind : Kinds, id : Nat]]
      /\ \A u \in Everyone : hand'[u].kind \in Kinds
      /\ at' \in [Everyone ->
             {"idle", "probe", "again", "swap", "tell", "use", "loop"} \cup StatusParts]
  BY <1>1, <1>4 DEF Typed, TypeOK, Go
<1>9. Typed'
  BY <1>1, <1>7, <1>8 DEF Typed, TypeOK, session, stream, Empty
<1>10. InstancesInv'
  <2>1. \A u \in Everyone \ {t} : hand'[u] = hand[u]
    BY <1>1 DEF Typed
  <2>2. \A u \in Everyone : at'[u] \in {"probe", "use"} =>
            hand'[u].id < created /\ (hand'[u].kind = "hyprland" => hand'[u].id >= 1)
    BY <1>2, <2>1 DEF InstancesInv
  <2>3. \A u \in Finders : hand'[u].kind \in Found
    <3>1. t \notin Finders
      BY <1>1 DEF Finders
    <3> QED
      BY <2>1, <3>1 DEF InstancesInv, Finders
  <2> QED
    BY <1>1, <1>3, <1>7, <2>2, <2>3 DEF InstancesInv
<1> QED
  BY <1>9, <1>10

\* Steps that move no integration.
LEMMA InstancesKept ==
    ASSUME Typed, InstancesInv, UNCHANGED <<current, created, recorded, asked, hand>>,
           \/ at' = at
           \/ \E t \in Everyone, p \in {"idle", "again", "loop"} \cup StatusParts :
                  at[t] \notin {"swap", "tell"} /\ Go(t, p)
    PROVE  InstancesInv'
<1>1. CASE at' = at
  BY <1>1 DEF InstancesInv, Finders
<1>2. ASSUME NEW t \in Everyone, NEW p \in {"idle", "again", "loop"} \cup StatusParts,
             at[t] \notin {"swap", "tell"}, Go(t, p)
      PROVE  InstancesInv'
  <2>1. at'[t] = p /\ \A u \in Everyone \ {t} : at'[u] = at[u]
    BY <1>2, OthersStand
  <2>2. p \notin {"swap", "tell", "probe", "use"}
    BY DEF StatusParts
  <2>3. Finders' = Finders
    BY <1>2, <2>1, <2>2 DEF Finders
  <2> QED
    BY <2>1, <2>2, <2>3 DEF InstancesInv
<1> QED
  BY <1>1, <1>2

LEMMA RequestsAreParts ==
    ASSUME NEW kind
    PROVE  /\ DOMAIN Requests(kind) = 1 .. IF kind = "hyprland" THEN 6 ELSE 4
           /\ \A i \in DOMAIN Requests(kind) : Requests(kind)[i] \in StatusParts
           /\ \A i, j \in DOMAIN Requests(kind) : i # j => Requests(kind)[i] # Requests(kind)[j]
           /\ Requests(kind)[1] = "list" /\ Requests(kind)[2] = "active"
<1>1. CASE kind = "hyprland"
  BY <1>1 DEF Requests, StatusParts
<1>2. CASE kind # "hyprland"
  BY <1>2 DEF Requests, StatusParts
<1> QED
  BY <1>1, <1>2

\* A status stays one of moments up to now.
LEMMA FilledIsTyped ==
    ASSUME ConstantsAreMeant, Typed, NEW q \in StatusParts, NEW answered \in BOOLEAN
    PROVE  Filled(q, answered) \in [StatusParts -> 0 .. edition \cup {Empty}]
<1> DEFINE Values == 0 .. edition \cup {Empty}
<1>1. edition \in Values /\ Empty \in Values /\ known \in Values
      /\ status \in [StatusParts -> Values]
  BY DEF Typed, TypeOK
<1>2. Answer(q, answered) \in Values
  BY <1>1 DEF Answer, StatusParts
<1> HIDE DEF Values
<1>3. HyprlandAnswer(q, answered) \in [StatusParts -> Values]
  BY <1>1, <1>2 DEF HyprlandAnswer, StatusParts
<1>4. SwayAnswer(q, answered) \in [StatusParts -> Values]
  BY <1>1, <1>2 DEF SwayAnswer, StatusParts
<1>5. GenericAnswer(q) \in [StatusParts -> Values]
  BY <1>1 DEF GenericAnswer
<1> QED
  BY <1>3, <1>4, <1>5 DEF Filled, NiriAnswer, Values

LEMMA QueryTypes ==
    ASSUME ConstantsAreMeant, Typed, InstancesInv, NEW answered \in BOOLEAN, Query(answered)
    PROVE  Typed' /\ InstancesInv'
<1> DEFINE asks == Requests(hand[Main].kind)
<1>1. PICK i \in DOMAIN asks :
          /\ at[Main] = asks[i]
          /\ answered \/ failures < MaxFailures
          /\ failures' = IF answered THEN failures ELSE failures + 1
          /\ status' = Filled(asks[i], answered)
          /\ Go(Main, IF i < Len(asks) THEN asks[i + 1] ELSE IF inside THEN "loop" ELSE "idle")
          /\ UNCHANGED <<session, holding, hand, stream, edition, inside, known>>
  BY DEF Query
<1>2. asks[i] \in StatusParts /\ (i < Len(asks) => asks[i + 1] \in StatusParts)
  <2>1. Len(asks) = IF hand[Main].kind = "hyprland" THEN 6 ELSE 4
    BY DEF Requests
  <2> HIDE DEF asks
  <2>2. /\ DOMAIN asks = 1 .. IF hand[Main].kind = "hyprland" THEN 6 ELSE 4
        /\ \A j \in DOMAIN asks : asks[j] \in StatusParts
    BY RequestsAreParts DEF asks
  <2> QED
    BY <2>1, <2>2
<1> HIDE DEF asks
<1>3. PICK p \in {"idle", "loop"} \cup StatusParts : Go(Main, p)
  BY <1>1, <1>2
<1>4. failures' \in 0 .. MaxFailures
  BY <1>1 DEF Typed, TypeOK, ConstantsAreMeant
<1>5. status' \in [StatusParts -> 0 .. edition \cup {Empty}]
  BY <1>1, <1>2, FilledIsTyped
<1>6. at' \in [Everyone ->
             {"idle", "probe", "again", "swap", "tell", "use", "loop"} \cup StatusParts]
  BY <1>3 DEF Typed, TypeOK, Go
<1>7. Typed'
  BY <1>1, <1>4, <1>5, <1>6 DEF Typed, TypeOK, session, holding, stream, Empty
<1>8. at[Main] \notin {"swap", "tell"} /\ Main \in Everyone
  BY <1>1, <1>2 DEF StatusParts, Everyone
<1> QED
  BY <1>1, <1>3, <1>7, <1>8, InstancesKept DEF holding

LEMMA LoopTypes ==
    ASSUME ConstantsAreMeant, Typed, InstancesInv, Delegate \/ Poll \/ Connect \/ ReadEvent
    PROVE  Typed' /\ InstancesInv'
<1>1. /\ UNCHANGED <<session, holding, hand, edition, status, failures>>
      /\ at' = at \/ \E p \in {"again", "list", "loop"} : Go(Main, p) /\ at[Main] \notin {"swap", "tell"}
  BY DEF Delegate, Poll, Connect, ReadEvent
<1>2. Main \in Everyone
  BY DEF Everyone
<1>3. at' \in [Everyone ->
             {"idle", "probe", "again", "swap", "tell", "use", "loop"} \cup StatusParts]
  BY <1>1 DEF Typed, TypeOK, Go, StatusParts
<1>4. events \in 0 .. MaxEvents /\ edition \in 0 .. MaxEdition
  BY DEF Typed, TypeOK
<1>5. /\ link' \in BOOLEAN /\ missed' \in BOOLEAN /\ inside' \in BOOLEAN
      /\ events' \in 0 .. MaxEvents /\ known' \in 0 .. edition \cup {Empty}
  <2>1. CASE Delegate
    BY <2>1 DEF Delegate, Typed, TypeOK, stream
  <2>2. CASE Poll
    BY <2>2 DEF Poll, Typed, TypeOK, stream
  <2>3. CASE Connect
    BY <2>3 DEF Connect, Typed, TypeOK, ConstantsAreMeant
  <2>4. CASE ReadEvent
    <3>1. events' \in 0 .. MaxEvents
      BY <1>4, <2>4 DEF ReadEvent, ConstantsAreMeant
    <3>2. edition \in 0 .. edition
      BY <1>4 DEF ConstantsAreMeant
    <3>3. known' \in 0 .. edition \cup {Empty}
      BY <2>4, <3>2 DEF ReadEvent, Typed, TypeOK
    <3> QED
      BY <2>4, <3>1, <3>3 DEF ReadEvent, Typed, TypeOK
  <2> QED
    BY <2>1, <2>2, <2>3, <2>4
<1>6. Typed'
  BY <1>1, <1>3, <1>5 DEF Typed, TypeOK, session, holding, Empty
<1> QED
  BY <1>1, <1>2, <1>6, InstancesKept DEF holding, StatusParts

LEMMA CompositorTypes ==
    ASSUME ConstantsAreMeant, Typed, InstancesInv,
           (\E k \in Found : CompositorStarts(k)) \/ Changes \/ Disconnects
    PROVE  Typed' /\ InstancesInv'
<1>1. UNCHANGED <<holding, at, hand, status, inside, known, failures, choice>>
  BY DEF CompositorStarts, Changes, Disconnects, session
<1>2. InstancesInv'
  BY <1>1, InstancesKept DEF holding
<1>3. /\ sockets' \subseteq Found
      /\ edition' \in 0 .. MaxEdition /\ events' \in 0 .. MaxEvents
      /\ link' \in BOOLEAN /\ missed' \in BOOLEAN /\ edition' >= edition
  <2>1. /\ edition \in Int /\ edition \in 0 .. MaxEdition /\ events \in 0 .. MaxEvents
        /\ sockets \subseteq Found /\ link \in BOOLEAN /\ missed \in BOOLEAN
    BY DEF Typed, TypeOK, ConstantsAreMeant
  <2>2. CASE \E k \in Found : CompositorStarts(k)
    BY <2>1, <2>2 DEF CompositorStarts, stream
  <2>3. CASE Changes
    <3>1. /\ sockets' = sockets /\ edition' = edition + 1 /\ edition < MaxEdition
          /\ link' = link /\ missed' \in BOOLEAN
          /\ events' = events \/ (events' = events + 1 /\ events < MaxEvents)
      BY <2>1, <2>3 DEF Changes, session
    <3>2. edition' \in 0 .. MaxEdition /\ edition' >= edition
      BY <2>1, <3>1 DEF ConstantsAreMeant
    <3>3. CASE events' = events
      BY <2>1, <3>1, <3>2, <3>3
    <3>4. CASE events' = events + 1 /\ events < MaxEvents
      <4>1. events' \in 0 .. MaxEvents
        BY <2>1, <3>4 DEF ConstantsAreMeant
      <4> QED
        BY <2>1, <3>1, <3>2, <4>1
    <3> QED
      BY <3>1, <3>3, <3>4
  <2>4. CASE Disconnects
    <3>1. link' = FALSE /\ UNCHANGED <<sockets, events, missed, edition>>
      BY <2>4 DEF Disconnects, session
    <3>2. edition' >= edition
      BY <2>1, <3>1
    <3> QED
      BY <2>1, <3>1, <3>2
  <2> QED
    BY <2>2, <2>3, <2>4
<1>4. status' \in [StatusParts -> 0 .. edition' \cup {Empty}] /\ known' \in 0 .. edition' \cup {Empty}
  <2>1. 0 .. edition \subseteq 0 .. edition'
    BY <1>3 DEF Typed, TypeOK
  <2> QED
    BY <1>1, <2>1 DEF Typed, TypeOK
<1>5. Typed'
  BY <1>1, <1>3, <1>4 DEF Typed, TypeOK, holding, Empty
<1> QED
  BY <1>2, <1>5

-----------------------------------------------------------------------------
(* The order of a status *)

\* What a request does to the parts asked for before it, and to its own, unless the
\* integration is the generic one.
LEMMA AnswersOfSockets ==
    ASSUME Typed, hand[Main].kind \in Found, NEW q \in StatusParts, NEW answered \in BOOLEAN,
           NEW filled, filled = Filled(q, answered),
           q \in {"apps", "marked"} => hand[Main].kind = "hyprland"
    PROVE  /\ \A r \in StatusParts \ {q} :
                  r \notin {"apps", "marked"} \/ hand[Main].kind = "hyprland"
                      => filled[r] \in {status[r], Empty}
           /\ filled[q] \in {edition, Empty} \/ (q = "active" /\ filled[q] = status["list"])
<1>1. status \in [StatusParts -> 0 .. edition \cup {Empty}]
  BY DEF Typed, TypeOK
<1>2. Answer(q, answered) \in {edition, Empty}
      \/ (q = "active" /\ Answer(q, answered) = status["list"])
  BY DEF Answer
<1>3. CASE hand[Main].kind = "hyprland"
  <2>1. filled = HyprlandAnswer(q, answered)
    BY <1>3 DEF Filled
  <2>2. filled[q] = Answer(q, answered)
    BY <1>1, <2>1 DEF HyprlandAnswer, StatusParts
  <2>3. \A r \in StatusParts \ {q} : filled[r] \in {status[r], Empty}
    BY <1>1, <2>1 DEF HyprlandAnswer, StatusParts
  <2> QED
    BY <1>2, <2>2, <2>3
<1>4. CASE hand[Main].kind # "hyprland"
  <2>1. filled = SwayAnswer(q, answered)
    BY <1>4 DEF Filled, NiriAnswer, Found
  <2>2. filled[q] = Answer(q, answered)
    BY <1>1, <1>4, <2>1 DEF SwayAnswer, StatusParts
  <2>3. \A r \in StatusParts \ {q, "apps", "marked"} : filled[r] = status[r]
    BY <1>1, <2>1 DEF SwayAnswer, StatusParts
  <2> QED
    BY <1>2, <1>4, <2>2, <2>3
<1> QED
  BY <1>3, <1>4

\* A request keeps the parts answered before it in order, and its own after them.
LEMMA QuerySorts ==
    ASSUME ConstantsAreMeant, Typed, NEW i \in DOMAIN Requests(hand[Main].kind), SortedTo(i - 1),
           NEW answered \in BOOLEAN, hand' = hand,
           status' = Filled(Requests(hand[Main].kind)[i], answered)
    PROVE  SortedTo(i)'
<1> DEFINE asks == Requests(hand[Main].kind)
           q == asks[i]
<1>1. /\ DOMAIN asks = 1 .. IF hand[Main].kind = "hyprland" THEN 6 ELSE 4
      /\ \A k \in DOMAIN asks : asks[k] \in StatusParts
      /\ \A k, l \in DOMAIN asks : k # l => asks[k] # asks[l]
      /\ asks[1] = "list" /\ asks[2] = "active" /\ i \in DOMAIN asks
  BY RequestsAreParts
<1>2. hand[Main].kind # "hyprland" => \A k \in DOMAIN asks : asks[k] \notin {"apps", "marked"}
  BY DEF Requests
<1>3. hand[Main].kind \notin Found =>
          \A k \in DOMAIN asks : asks[k] = "keyboard" => k = 4
  BY DEF Requests, Found
<1>4. asks' = asks
  OBVIOUS
<1>5. \A k \in DOMAIN asks : status[asks[k]] \in 0 .. edition \cup {Empty}
  BY <1>1 DEF Typed, TypeOK
<1>6. edition \in Nat /\ edition <= MaxEdition /\ MaxEdition \in Nat
  BY DEF Typed, TypeOK, ConstantsAreMeant
<1>7. \A a, b \in DOMAIN asks :
          a < b /\ b <= i - 1 /\ status[asks[a]] # Empty /\ status[asks[b]] # Empty
              => status[asks[a]] <= status[asks[b]]
  BY DEF SortedTo
<1>8. \A a, b \in DOMAIN asks :
          a < b /\ b <= i /\ status'[asks[a]] # Empty /\ status'[asks[b]] # Empty
              => status'[asks[a]] <= status'[asks[b]]
  <2>1. CASE hand[Main].kind \notin Found
    <3>1. status' = GenericAnswer(q)
      BY <2>1 DEF Filled, Found
    <3>2. \A a \in DOMAIN asks : asks[a] # "keyboard" => status'[asks[a]] = Empty
      BY <1>1, <3>1 DEF GenericAnswer
    <3>3. \A a, b \in DOMAIN asks : a < b => asks[a] # "keyboard"
      <4>1. hand[Main].kind # "hyprland"
        BY <2>1 DEF Found
      <4> HIDE DEF asks
      <4> QED
        BY <1>1, <1>3, <2>1, <4>1
    <3> QED
      BY <3>2, <3>3
  <2>2. CASE hand[Main].kind \in Found
    <3>1. /\ \A r \in StatusParts \ {q} :
                 r \notin {"apps", "marked"} \/ hand[Main].kind = "hyprland"
                     => status'[r] \in {status[r], Empty}
          /\ status'[q] \in {edition, Empty} \/ (q = "active" /\ status'[q] = status["list"])
      BY <1>1, <1>2, <2>2, AnswersOfSockets
    <3> HIDE DEF asks, q
    <3>2. \A a \in DOMAIN asks : a # i => status'[asks[a]] \in {status[asks[a]], Empty}
      BY <1>1, <1>2, <3>1 DEF q
    <3> SUFFICES ASSUME NEW a \in DOMAIN asks, NEW b \in DOMAIN asks, a < b, b <= i,
                        status'[asks[a]] # Empty, status'[asks[b]] # Empty
                 PROVE  status'[asks[a]] <= status'[asks[b]]
      OBVIOUS
    <3>3. a \in Nat /\ b \in Nat /\ i \in Nat /\ a >= 1
      BY <1>1 DEF asks
    <3>4. a # i /\ status'[asks[a]] = status[asks[a]]
      BY <3>2, <3>3
    <3>5. CASE b # i
      <4>1. status'[asks[b]] = status[asks[b]] /\ b <= i - 1
        BY <3>2, <3>3, <3>5
      <4> QED
        BY <1>7, <3>4, <4>1
    <3>6. CASE b = i
      <4>1. status[asks[a]] \in Nat /\ status[asks[a]] <= edition
        BY <1>5, <1>6, <3>4
      <4>2. CASE status'[q] = edition
        BY <3>4, <3>6, <4>1, <4>2 DEF q
      <4>3. CASE q = "active" /\ status'[q] = status["list"]
        <5>1. i = 2
          BY <1>1, <4>3 DEF q, asks
        <5>2. a = 1
          BY <3>3, <3>6, <5>1
        <5> QED
          BY <1>1, <3>4, <3>6, <4>1, <4>3, <5>2 DEF q
      <4> QED
        BY <3>1, <3>6, <4>2, <4>3 DEF q
    <3> QED
      BY <3>5, <3>6
  <2> QED
    BY <2>1, <2>2
<1> QED
  BY <1>4, <1>8 DEF SortedTo

LEMMA OrderQueried ==
    ASSUME ConstantsAreMeant, Typed, OrderInv, NEW answered \in BOOLEAN, Query(answered)
    PROVE  OrderInv'
<1> DEFINE asks == Requests(hand[Main].kind)
           last == IF hand[Main].kind = "hyprland" THEN 6 ELSE 4
<1>1. PICK i \in DOMAIN asks :
          /\ at[Main] = asks[i]
          /\ status' = Filled(asks[i], answered)
          /\ Go(Main, IF i < Len(asks) THEN asks[i + 1] ELSE IF inside THEN "loop" ELSE "idle")
          /\ UNCHANGED <<session, hand, inside>>
  BY DEF Query
<1>2. /\ DOMAIN asks = 1 .. last /\ Len(asks) = last /\ i \in 1 .. last
      /\ \A k \in DOMAIN asks : asks[k] \in StatusParts
      /\ \A k, l \in DOMAIN asks : k # l => asks[k] # asks[l]
  BY <1>1, RequestsAreParts DEF Requests
<1>3. Main \in Everyone /\ asks' = asks /\ choice' = choice
  BY <1>1 DEF Everyone, session
<1>4. SortedTo(i - 1)
  BY <1>1 DEF OrderInv
<1>5. SortedTo(i)'
  BY <1>1, <1>4, QuerySorts
<1>6. choice # "auto" => inside'
  BY <1>1, <1>2 DEF OrderInv, StatusParts
<1> HIDE DEF asks
<1>7. CASE i < last
  <2>1. at'[Main] = asks[i + 1] /\ i + 1 \in DOMAIN asks
    BY <1>1, <1>2, <1>3, <1>7, OthersStand
  <2>2. \A k \in DOMAIN asks : at'[Main] = asks[k] => k - 1 = i
    <3>1. \A k \in DOMAIN asks : at'[Main] = asks[k] => k = i + 1
      BY <1>2, <2>1
    <3>2. \A k \in DOMAIN asks : k \in Int
      <4>1. last \in Int
        OBVIOUS
      <4> QED
        BY <1>2, <4>1
    <3>3. i \in Int
      BY <3>2
    <3>4. \A k \in Int : k = i + 1 => k - 1 = i
      BY <3>3
    <3> QED
      BY <3>1, <3>2, <3>4
  <2>3. at'[Main] \in StatusParts
    BY <1>2, <2>1
  <2>4. at'[Main] \notin {"loop", "idle", "use"}
    BY <2>3 DEF StatusParts
  <2>5. \A k \in DOMAIN asks : at'[Main] = asks[k] => SortedTo(k - 1)'
    BY <1>5, <2>2
  <2> QED
    BY <1>3, <1>6, <2>3, <2>4, <2>5 DEF OrderInv, asks
<1>8. CASE i = last
  <2>1. at'[Main] = IF inside THEN "loop" ELSE "idle"
    BY <1>1, <1>2, <1>3, <1>8, OthersStand
  <2>2. at'[Main] \notin StatusParts
    BY <2>1 DEF StatusParts
  <2>3. StatusIsInOrder'
    <3>1. \A a, b \in DOMAIN asks' :
              /\ a < b /\ b <= i /\ status'[asks'[a]] # Empty /\ status'[asks'[b]] # Empty
              => status'[asks'[a]] <= status'[asks'[b]]
      BY <1>5 DEF SortedTo, asks, Empty
    <3>2. \A b \in DOMAIN asks' : b <= i
      BY <1>2, <1>3, <1>8
    <3>3. \A a, b \in DOMAIN asks' :
              /\ a < b /\ status'[asks'[a]] # Empty /\ status'[asks'[b]] # Empty
              => status'[asks'[a]] <= status'[asks'[b]]
      BY <3>1, <3>2
    <3> QED
      BY <3>3 DEF StatusIsInOrder, asks, Empty
  <2> QED
    BY <1>1, <1>2, <1>3, <1>6, <2>1, <2>2, <2>3 DEF OrderInv, asks
<1> QED
  BY <1>2, <1>7, <1>8

\* Where the event loop is not inside a query and has asked nothing yet.
LEMMA OrderBegins ==
    ASSUME Typed, at'[Main] \in {"idle", "probe", "again", "swap", "tell", "use", "list"},
           choice' # "auto" =>
               /\ at'[Main] \in {"idle", "use", "list"}
               /\ at'[Main] \in {"idle", "use"} => status' = [p \in StatusParts |-> 0]
               /\ at'[Main] = "list" => inside'
    PROVE  OrderInv'
<1> DEFINE asks == Requests(hand[Main].kind)'
<1>1. /\ \A k \in DOMAIN asks : asks[k] \in StatusParts
      /\ \A k \in DOMAIN asks : asks[k] = "list" => k = 1
      /\ DOMAIN asks \subseteq Nat
  <2>1. asks = Requests(hand'[Main].kind)
    OBVIOUS
  <2> QED
    BY <2>1 DEF Requests, StatusParts
<1>2. SortedTo(0)'
  BY <1>1 DEF SortedTo
<1>3. \A k \in DOMAIN asks : at'[Main] = asks[k] => k = 1
  BY <1>1 DEF StatusParts
<1>4. \A k \in DOMAIN asks : at'[Main] = asks[k] => SortedTo(k - 1)'
  <2>1. 1 - 1 = 0
    OBVIOUS
  <2> QED
    BY <1>2, <1>3, <2>1
<1>5. at'[Main] # "loop"
  OBVIOUS
<1> QED
  BY <1>4, <1>5 DEF OrderInv, StatusParts

LEMMA OrderKept ==
    ASSUME OrderInv, UNCHANGED <<choice, status, inside>>,
           hand'[Main] = hand[Main], at'[Main] = at[Main]
    PROVE  OrderInv'
BY DEF OrderInv, SortedTo, StatusIsInOrder

LEMMA OrderStep ==
    ASSUME ConstantsAreMeant, Typed, OrderInv, Next PROVE OrderInv'
<1>1. Main \in Everyone /\ Main \notin {} /\ \A t \in Users : t \in Everyone
  BY DEF Everyone
<1>2. ASSUME NEW t \in Everyone, Backend(t) \/ Probe(t) \/ Swap(t) \/ Register(t)
      PROVE  OrderInv'
  <2>1. UNCHANGED <<choice, status, inside>>
    BY <1>2 DEF Backend, Probe, Swap, Register, session
  <2>2. PICK p : Go(t, p)
    BY <1>2 DEF Backend, Probe, Swap, Register
  <2>3. CASE t # Main
    <3>1. at'[Main] = at[Main]
      BY <1>1, <2>2, <2>3, OthersStand
    <3>2. hand'[Main] = hand[Main]
      BY <1>1, <1>2, <2>3 DEF Backend, Probe, Swap, Register, Hold, Typed
    <3> QED
      BY <2>1, <3>1, <3>2, OrderKept
  <2>4. CASE t = Main
    <3>1. at'[Main] = p
      BY <1>1, <2>2, <2>4, OthersStand
    <3>2. CASE Backend(Main)
      <4>1. at[Main] = "idle" /\ at'[Main] \in {"probe", "use"} /\ (at'[Main] = "probe" => choice = "auto")
        BY <1>1, <3>2, OthersStand DEF Backend
      <4> QED
        BY <2>1, <4>1, OrderBegins DEF OrderInv
    <3>3. CASE Probe(Main)
      <4>1. at[Main] \in {"probe", "again"} /\ at'[Main] \in {"tell", "swap", "idle", "use"}
        BY <1>1, <3>3, OthersStand DEF Probe
      <4>2. choice = "auto"
        BY <4>1 DEF OrderInv, StatusParts
      <4> QED
        BY <2>1, <4>1, <4>2, OrderBegins
    <3>4. CASE Swap(Main)
      <4>1. at[Main] \in {"swap", "tell"} /\ at'[Main] \in {"list", "idle"}
        BY <1>1, <3>4, OthersStand DEF Swap
      <4>2. choice = "auto"
        BY <4>1 DEF OrderInv, StatusParts
      <4> QED
        BY <2>1, <4>1, <4>2, OrderBegins
    <3>5. CASE Register(Main)
      <4>1. at[Main] = "use" /\ at'[Main] = "idle"
        BY <1>1, <3>5, OthersStand DEF Register
      <4> QED
        BY <2>1, <4>1, OrderBegins DEF OrderInv
    <3> QED
      BY <1>2, <2>4, <3>2, <3>3, <3>4, <3>5
  <2> QED
    BY <2>3, <2>4
<1>3. CASE Delegate
  <2>1. /\ UNCHANGED <<choice, status, hand>> /\ at[Main] = "use"
        /\ Go(Main, IF ~inside' THEN "again" ELSE IF choice = "auto" THEN "list" ELSE "loop")
        /\ choice # "auto" => inside'
    BY <1>3 DEF Delegate, session
  <2>2. at'[Main] = IF ~inside' THEN "again" ELSE IF choice = "auto" THEN "list" ELSE "loop"
    BY <1>1, <2>1, OthersStand
  <2>3. CASE choice = "auto"
    BY <2>1, <2>2, <2>3, OrderBegins
  <2>4. CASE choice # "auto"
    <3>1. at'[Main] = "loop" /\ status' = [p \in StatusParts |-> 0]
      BY <2>1, <2>2, <2>4 DEF OrderInv
    <3>2. StatusIsInOrder'
      <4>1. \A k \in DOMAIN Requests(hand'[Main].kind) : status'[Requests(hand'[Main].kind)[k]] = 0
        BY <3>1, RequestsAreParts
      <4> QED
        BY <4>1 DEF StatusIsInOrder
    <3>3. \A k \in DOMAIN Requests(hand'[Main].kind) : at'[Main] # Requests(hand'[Main].kind)[k]
      BY <3>1, RequestsAreParts DEF StatusParts
    <3> QED
      BY <2>1, <3>1, <3>2, <3>3 DEF OrderInv
  <2> QED
    BY <2>3, <2>4
<1>4. ASSUME NEW answered \in BOOLEAN, Query(answered) PROVE OrderInv'
  BY <1>4, OrderQueried
<1>5. CASE Poll \/ ReadEvent
  <2>1. at[Main] = "loop" /\ at'[Main] = "list" /\ UNCHANGED <<choice, status, inside>>
    BY <1>1, <1>5, OthersStand DEF Poll, ReadEvent, session
  <2> QED
    BY <2>1, OrderBegins DEF OrderInv
<1>6. CASE Connect \/ (\E k \in Found : CompositorStarts(k)) \/ Changes \/ Disconnects
  <2>1. UNCHANGED <<choice, status, inside, hand, at>>
    BY <1>6 DEF Connect, CompositorStarts, Changes, Disconnects, session
  <2> QED
    BY <2>1, OrderKept
<1> QED
  BY <1>1, <1>2, <1>3, <1>4, <1>5, <1>6 DEF Next, MainStep

-----------------------------------------------------------------------------
(* The invariant, and what follows from it *)

LEMMA InductiveStep ==
    ASSUME ConstantsAreMeant, IInv, Next PROVE IInv'
<1>1. OrderInv'
  BY OrderStep DEF IInv
<1>2. Typed' /\ InstancesInv'
  BY BackendStep, ProbeStep, SwapStep, RegisterStep, QueryTypes, LoopTypes, CompositorTypes
     DEF IInv, Next, MainStep, Everyone
<1> QED
  BY <1>1, <1>2 DEF IInv

LEMMA InvariantMeans == ConstantsAreMeant /\ IInv => TypeOK /\ CompositorsAreSound
<1> SUFFICES ASSUME ConstantsAreMeant, IInv PROVE TypeOK /\ CompositorsAreSound
  OBVIOUS
<1>1. created \in Nat /\ created >= 1
  BY EveryoneIsFinite DEF IInv, Typed, TypeOK, Most
<1>2. KeybindsStay
  BY <1>1 DEF KeybindsStay, IInv, InstancesInv
<1>3. StatusIsInOrder
  BY DEF IInv, OrderInv, StatusIsInOrder
<1> QED
  BY <1>2, <1>3 DEF CompositorsAreSound, IInv, Typed

vars == <<choice, sockets, current, created, recorded, asked, at, hand, link, events,
          edition, status, missed, inside, known, failures>>

LEMMA Stutters == IInv /\ UNCHANGED vars => IInv'
BY DEF vars, IInv, Typed, TypeOK, InstancesInv, OrderInv, Finders, SortedTo, StatusIsInOrder, Empty

\* However many threads look for a compositor while keybinds are registered, and whatever
\* requests stay without an answer: an integration keeps the keybinds it was given, each
\* thread makes one at most, and a status is of moments in the order of its requests.
THEOREM CompositorsAlwaysSound ==
    ASSUME ConstantsAreMeant
    PROVE  Init /\ [][Next]_vars => [](TypeOK /\ CompositorsAreSound)
<1>1. IInv /\ [Next]_vars => IInv'
  BY InductiveStep, Stutters
<1> QED
  BY <1>1, Starts, InvariantMeans, PTL

=============================================================================
