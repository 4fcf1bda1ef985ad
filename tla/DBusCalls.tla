------------------------------ MODULE DBusCalls ------------------------------
(***************************************************************************)
(* host_dbus_call and host_dbus_subscribe (wyrd-wasm,                      *)
(* modules/wasm/host_api.rs).  The arguments of a call come as JSON; the   *)
(* host asks the service for the types of the method, keeps the answer for *)
(* all modules, a failure for thirty seconds, and turns JSON into D-Bus    *)
(* values and the reply into JSON.  The service here is external, it gives *)
(* its argument back.  A subscription is a task that passes signals on.    *)
(***************************************************************************)
EXTENDS Integers, Sequences

CONSTANTS
    Threads,      \* modules that call
    Subscribers,  \* modules that subscribe
    Arguments,    \* JSON values they pass
    Types,        \* types the method of the service may have
    MaxFaults,    \* bound on restarts of the bus and changes of the service
    MaxSignals,   \* bound on the signals emitted
    Slots         \* capacity of a module's channel for signals

\* Widths in bits of the integer types, in proportion.
Bits == [y |-> 2, n |-> 3, q |-> 3, i |-> 4, u |-> 4, x |-> 5, t |-> 5]
Unsigned == {"y", "q", "u", "t"}
Numeric == DOMAIN Bits

Least(type) == IF type \in Unsigned THEN 0 ELSE -(2 ^ (Bits[type] - 1))
Greatest(type) == IF type \in Unsigned THEN 2 ^ Bits[type] - 1 ELSE 2 ^ (Bits[type] - 1) - 1
InRange(n, type) == n \in Least(type) .. Greatest(type)

\* A value: of JSON or, with a D-Bus signature, of D-Bus.  An object has its values as
\* items, a boolean is 0 or 1.
Value(is, n, s, items) == [is |-> is, n |-> n, s |-> s, items |-> items]
Null == Value("null", 0, "", <<>>)
Bool(n) == Value("bool", n, "", <<>>)
Number(n) == Value("number", n, "", <<>>)
String(s) == Value("string", 0, s, <<>>)
Array(items) == Value("array", 0, "", items)
Object(items) == Value("object", 0, "", items)

Paths == {"/", "/path"}

Each(items, Op(_)) == [i \in DOMAIN items |-> Op(items[i])]
All(items, Test(_)) == \A i \in DOMAIN items : Test(items[i])

-----------------------------------------------------------------------------
(* JSON to D-Bus *)

as_i64(v) == IF v.is = "number" /\ InRange(v.n, "x") THEN v.n ELSE 0
as_u64(v) == IF v.is = "number" /\ InRange(v.n, "t") THEN v.n ELSE 0

\* `as`: the low bits.
Cast(n, type) == Least(type) + ((n - Least(type)) % 2 ^ Bits[type])
ToInteger(v, type) ==
    Value(type, Cast(IF type \in Unsigned THEN as_u64(v) ELSE as_i64(v), type), "", <<>>)

RECURSIVE json_to_zvariant(_)
json_to_zvariant(v) ==
    CASE v.is = "null" -> Value("s", 0, "", <<>>)
      [] v.is = "bool" -> Value("b", v.n, "", <<>>)
      [] v.is = "number" -> Value(IF InRange(v.n, "x") THEN "x" ELSE "t", v.n, "", <<>>)
      [] v.is = "string" -> Value("s", 0, v.s, <<>>)
      [] v.is = "array" -> Value("av", 0, "", Each(v.items, json_to_zvariant))
      [] v.is = "object" -> Value("a{sv}", 0, "", Each(v.items, json_to_zvariant))

ToText(v) == Value("s", 0, IF v.is = "string" THEN v.s ELSE "json", <<>>)
ToPath(v) == Value("o", 0, IF v.is = "string" /\ v.s \in Paths THEN v.s ELSE "/", <<>>)
ItemsOf(v, is) == IF v.is = is THEN v.items ELSE <<>>
ToDict(v) == Value("a{sv}", 0, "", Each(ItemsOf(v, "object"), json_to_zvariant))

\* The bytes of a text, one of them here.
Bytes(text) == <<Value("y", 1, "", <<>>)>>

\* Items that are no path are left out.
OnlyPaths(items) == SelectSeq(items, LAMBDA v : v.is # "string" \/ v.s \in Paths)

Coerced(v, type) ==
    LET Collected(items) == Value(type, 0, "", items)
        Numbers(each) == Each(ItemsOf(v, "array"), LAMBDA item : ToInteger(item, each))
    IN  CASE type = "b" ->
               Value("b", IF v.is = "bool" THEN v.n ELSE IF as_i64(v) # 0 THEN 1 ELSE 0, "", <<>>)
          [] type \in Numeric -> ToInteger(v, type)
          [] type = "s" -> ToText(v)
          [] type = "o" -> ToPath(v)
          [] type = "as" -> Collected(Each(ItemsOf(v, "array"), ToText))
          [] type = "ao" -> Collected(Each(OnlyPaths(ItemsOf(v, "array")), ToPath))
          [] type = "ay" -> Collected(IF v.is = "string" THEN Bytes(v.s) ELSE Numbers("y"))
          [] type = "au" -> Collected(Numbers("u"))
          [] type = "ai" -> Collected(Numbers("i"))
          [] type = "a{sv}" -> ToDict(v)
          [] type = "a{ss}" -> Collected(Each(ItemsOf(v, "object"), ToText))
          [] type = "a{sa{sv}}" -> Collected(Each(ItemsOf(v, "object"), ToDict))
          [] type = "aa{sv}" -> Collected(Each(ItemsOf(v, "array"), ToDict))
          [] type = "v" -> Collected(<<json_to_zvariant(v)>>)

\* The type where the service has not told it.
Guess(v) ==
    LET AllAre(is) == All(v.items, LAMBDA item : item.is = is)
    IN  CASE v.is = "null" -> "()"
          [] v.is = "bool" -> "b"
          [] v.is = "number" ->
               CHOOSE type \in {"i", "x", "u", "t"} :
                   /\ InRange(v.n, type)
                   /\ type = "x" => ~InRange(v.n, "i")
                   /\ type \in Unsigned => ~InRange(v.n, "x")
                   /\ type = "t" => ~InRange(v.n, "u")
          [] v.is = "string" -> IF v.s \in Paths THEN "o" ELSE "s"
          [] v.is = "array" ->
               IF AllAre("string") THEN "as"
               ELSE IF All(v.items, LAMBDA item : item.is = "number" /\ item.n >= 0) THEN "ay"
               ELSE IF AllAre("object") THEN "aa{sv}" ELSE "v"
          [] v.is = "object" ->
               IF v.items # <<>> /\ AllAre("object") THEN "a{sa{sv}}" ELSE "a{sv}"

Unknown == ""

json_to_dbus_arg(v, type) ==
    IF type # Unknown THEN Coerced(v, type)
    ELSE IF Guess(v) = "()" THEN Value("()", 0, "", <<>>) ELSE Coerced(v, Guess(v))

-----------------------------------------------------------------------------
(* D-Bus to JSON *)

RECURSIVE zvariant_to_json(_)
zvariant_to_json(value) ==
    CASE value.is = "b" -> Bool(value.n)
      [] value.is \in Numeric -> Number(value.n)
      [] value.is \in {"s", "o"} -> String(value.s)
      [] value.is = "v" -> zvariant_to_json(value.items[1])
      [] value.is \in {"av", "as", "ao", "ay", "au", "aa{sv}"} ->
           Array(Each(value.items, zvariant_to_json))
      [] value.is \in {"a{sv}", "a{ss}", "a{sa{sv}}"} ->
           Object(Each(value.items, zvariant_to_json))

\* A type that is not on the list comes out as an empty object.
Deserialized == {"v", "s", "o", "b", "as", "ao", "ay", "au", "a{sv}", "a{ss}", "aa{sv}",
                 "a{sa{sv}}"} \cup Numeric

deserialize_dbus_reply_to_json(value) ==
    IF value.is \in Deserialized THEN zvariant_to_json(value) ELSE Object(<<>>)

-----------------------------------------------------------------------------

VARIABLES
    bus,      \* how often the bus was started; up
    conn,     \* the start of the bus the shared connection belongs to; 0, none
    service,  \* present, and the type of its method
    cache,    \* of the method: "none", its type, or Unknown for a failure
    fresh,    \* the failure in the cache is less than 30 seconds old
    recent,   \* history: the service was away in the last 30 seconds
    faults,   \* restarts of the bus and changes of the service
    pc, given, mine, type, result,  \* of the threads: the argument, connection and type
                                    \* in hand, and what the guest gets
    lost,     \* history: threads whose call meets a dead connection, or a service that
              \* had another type when it was asked

    subscribed,  \* modules whose subscription was accepted (subscribed_signals)
    stream,      \* module -> its task
    emitted,     \* signals the service has emitted
    passing,     \* module -> signals in its stream
    channel,     \* module -> signals in its channel
    heard,       \* module -> signals handed to the guest
    since        \* history: signals emitted when the stream began

busVars == <<bus, faults>>
callVars == <<conn, service, cache, fresh, recent, pc, given, mine, type, result, lost>>
signalVars == <<subscribed, stream, emitted, passing, channel, heard, since>>
dbusVars == <<busVars, callVars, signalVars>>

Failed == Value("error", 0, "", <<>>)

Init ==
    /\ bus = [starts |-> 1, up |-> TRUE]
    /\ conn = 0
    /\ \E t \in Types : service = [present |-> TRUE, type |-> t]
    /\ cache = "none" /\ fresh = FALSE
    /\ recent = FALSE
    /\ faults = 0
    /\ pc = [t \in Threads |-> "idle"]
    /\ given = [t \in Threads |-> Null]
    /\ mine = [t \in Threads |-> 0]
    /\ type = [t \in Threads |-> Unknown]
    /\ result = [t \in Threads |-> Null]
    /\ lost = {}
    /\ subscribed = {}
    /\ stream = [m \in Subscribers |-> "none"]
    /\ emitted = 0
    /\ passing = [m \in Subscribers |-> <<>>]
    /\ channel = [m \in Subscribers |-> <<>>]
    /\ heard = [m \in Subscribers |-> <<>>]
    /\ since = [m \in Subscribers |-> 0]

TypeOK ==
    /\ bus.starts \in 1 .. MaxFaults + 1
    /\ conn \in 0 .. bus.starts
    /\ service.type \in Types
    /\ cache \in Types \cup {"none", Unknown}
    /\ faults \in 0 .. MaxFaults
    /\ pc \in [Threads -> {"idle", "connect", "reconnect", "lookup", "introspect", "record",
                           "send"}]
    /\ type \in [Threads -> Types \cup {Unknown}]
    /\ stream \in [Subscribers -> {"none", "connecting", "live", "ended"}]
    /\ \A m \in Subscribers : Len(channel[m]) <= Slots

-----------------------------------------------------------------------------
(* A call: perform_dbus_call *)

Answer(t, value) ==
    /\ pc' = [pc EXCEPT ![t] = "idle"]
    /\ result' = [result EXCEPT ![t] = value]

Call(t, v) ==
    /\ pc[t] = "idle"
    /\ pc' = [pc EXCEPT ![t] = "connect"]
    /\ given' = [given EXCEPT ![t] = v]
    /\ result' = [result EXCEPT ![t] = Null]
    /\ lost' = lost \ {t}
    /\ UNCHANGED <<busVars, conn, service, cache, fresh, recent, mine, type, signalVars>>

\* The shared connection, whatever has become of it, or a new one; a second attempt where
\* the first fails.
GetConn(t) ==
    /\ pc[t] \in {"connect", "reconnect"}
    /\ IF conn # 0 \/ bus.up
       THEN /\ conn' = IF conn # 0 THEN conn ELSE bus.starts
            /\ mine' = [mine EXCEPT ![t] = conn']
            /\ pc' = [pc EXCEPT ![t] = "lookup"]
            /\ lost' = IF conn' # bus.starts \/ ~bus.up THEN lost \cup {t} ELSE lost
            /\ UNCHANGED result
       ELSE /\ IF pc[t] = "connect"
               THEN pc' = [pc EXCEPT ![t] = "reconnect"] /\ UNCHANGED result
               ELSE Answer(t, Failed)
            /\ lost' = lost \cup {t}
            /\ UNCHANGED <<conn, mine>>
    /\ UNCHANGED <<busVars, service, cache, fresh, recent, given, type, signalVars>>

\* Mutant: a failure stays in the cache for good.
UsableForGood == cache # "none"

Usable == cache \notin {"none", Unknown} \/ (cache = Unknown /\ fresh)

Lookup(t) ==
    /\ pc[t] = "lookup"
    /\ pc' = [pc EXCEPT ![t] = IF Usable THEN "send" ELSE "introspect"]
    /\ type' = [type EXCEPT ![t] = IF Usable THEN cache ELSE Unknown]
    /\ lost' = IF Usable /\ cache \notin {Unknown, service.type} THEN lost \cup {t} ELSE lost
    /\ UNCHANGED <<busVars, conn, service, cache, fresh, recent, given, mine, result,
                   signalVars>>

Reaches(t) == bus.up /\ mine[t] = bus.starts /\ service.present

Introspect(t) ==
    /\ pc[t] = "introspect"
    /\ pc' = [pc EXCEPT ![t] = "record"]
    /\ type' = [type EXCEPT ![t] = IF Reaches(t) THEN service.type ELSE Unknown]
    /\ UNCHANGED <<busVars, conn, service, cache, fresh, recent, given, mine, result, lost,
                   signalVars>>

\* The answer, or the failure, replaces what another thread has put there.
Record(t) ==
    /\ pc[t] = "record"
    /\ pc' = [pc EXCEPT ![t] = "send"]
    /\ cache' = type[t]
    /\ fresh' = (type[t] = Unknown)
    /\ UNCHANGED <<busVars, conn, service, recent, given, mine, type, result, lost, signalVars>>

\* The service refuses an argument of another type.
Send(t) ==
    /\ pc[t] = "send"
    /\ LET arg == json_to_dbus_arg(given[t], type[t])
       IN  Answer(t, IF Reaches(t) /\ arg.is = service.type
                     THEN deserialize_dbus_reply_to_json(arg) ELSE Failed)
    /\ UNCHANGED <<busVars, conn, service, cache, fresh, recent, given, mine, type, lost,
                   signalVars>>

-----------------------------------------------------------------------------
(* Signals *)

\* host_dbus_subscribe; for a key that is there, it only says so.
Subscribe(m) ==
    /\ m \notin subscribed
    /\ subscribed' = subscribed \cup {m}
    /\ stream' = [stream EXCEPT ![m] = "connecting"]
    /\ UNCHANGED <<busVars, callVars, emitted, passing, channel, heard, since>>

\* The task connects and adds its match rule, or ends.
OpenStream(m) ==
    /\ stream[m] = "connecting"
    /\ stream' = [stream EXCEPT ![m] = IF bus.up THEN "live" ELSE "ended"]
    /\ since' = [since EXCEPT ![m] = emitted]
    /\ UNCHANGED <<busVars, callVars, subscribed, emitted, passing, channel, heard>>

Emit ==
    /\ Subscribers # {}
    /\ bus.up /\ emitted < MaxSignals
    /\ emitted' = emitted + 1
    /\ passing' = [m \in Subscribers |->
          IF stream[m] = "live" THEN Append(passing[m], emitted') ELSE passing[m]]
    /\ UNCHANGED <<busVars, callVars, subscribed, stream, channel, heard, since>>

\* The task waits for room in the channel.
PassOn(m) ==
    /\ passing[m] # <<>> /\ Len(channel[m]) < Slots
    /\ passing' = [passing EXCEPT ![m] = Tail(@)]
    /\ channel' = [channel EXCEPT ![m] = Append(@, Head(passing[m]))]
    /\ UNCHANGED <<busVars, callVars, subscribed, stream, emitted, heard, since>>

HandleSignal(m) ==
    /\ channel[m] # <<>>
    /\ heard' = [heard EXCEPT ![m] = Append(@, Head(channel[m]))]
    /\ channel' = [channel EXCEPT ![m] = Tail(@)]
    /\ UNCHANGED <<busVars, callVars, subscribed, stream, emitted, passing, since>>

-----------------------------------------------------------------------------
(* The bus and the service *)

\* The connections made before are dead, and so are the streams.
BusStops ==
    /\ bus.up
    /\ faults < MaxFaults
    /\ faults' = faults + 1
    /\ bus' = [bus EXCEPT !.up = FALSE]
    /\ stream' = [m \in Subscribers |-> IF stream[m] = "live" THEN "ended" ELSE stream[m]]
    /\ lost' = lost \cup {t \in Threads : pc[t] # "idle"}
    /\ UNCHANGED <<conn, service, cache, fresh, recent, pc, given, mine, type, result,
                   subscribed, emitted, passing, channel, heard, since>>

BusStarts ==
    /\ ~bus.up
    /\ bus' = [starts |-> bus.starts + 1, up |-> TRUE]
    /\ UNCHANGED <<faults, callVars, signalVars>>

ServiceLeaves ==
    /\ Threads # {}
    /\ service.present
    /\ faults < MaxFaults
    /\ faults' = faults + 1
    /\ service' = [service EXCEPT !.present = FALSE]
    /\ recent' = TRUE
    /\ UNCHANGED <<bus, conn, cache, fresh, pc, given, mine, type, result, lost, signalVars>>

\* The service comes back, perhaps as a version whose method has another type.
ServiceReturns(t) ==
    /\ ~service.present
    /\ service' = [present |-> TRUE, type |-> t]
    /\ lost' = IF t # service.type THEN Threads ELSE lost
    /\ UNCHANGED <<busVars, conn, cache, fresh, recent, pc, given, mine, type, result,
                   signalVars>>

\* Thirty seconds in which no call is under way; what came of those before is forgotten.
TimePasses ==
    /\ fresh \/ recent
    /\ \A t \in Threads : pc[t] = "idle"
    /\ fresh' = FALSE
    /\ recent' = ~service.present
    /\ result' = [t \in Threads |-> Null]
    /\ UNCHANGED <<busVars, conn, service, cache, pc, given, mine, type, lost, signalVars>>

CallStep(t) == GetConn(t) \/ Lookup(t) \/ Introspect(t) \/ Record(t) \/ Send(t)
SignalStep(m) == OpenStream(m) \/ PassOn(m) \/ HandleSignal(m)

Next ==
    \/ \E t \in Threads : CallStep(t) \/ \E v \in Arguments : Call(t, v)
    \/ \E m \in Subscribers : Subscribe(m) \/ SignalStep(m)
    \/ Emit \/ BusStops \/ BusStarts \/ ServiceLeaves \/ TimePasses
    \/ \E t \in Types : ServiceReturns(t)

Fairness == \A m \in Subscribers :
    WF_dbusVars(OpenStream(m)) /\ WF_dbusVars(PassOn(m)) /\ WF_dbusVars(HandleSignal(m))

Spec == Init /\ [][Next]_dbusVars /\ Fairness

-----------------------------------------------------------------------------
(* Properties *)

\* What a type can hold, null excepted, which D-Bus has no value for.
RECURSIVE HasNoNull(_)
HasNoNull(v) == v.is # "null" /\ All(v.items, HasNoNull)
Fits(v, t) ==
    LET Is(is) == v.is = is
        Items(is, Test(_)) == v.is = is /\ All(v.items, Test)
        Integers(each) == Items("array", LAMBDA i : i.is = "number" /\ InRange(i.n, each))
    IN  /\ HasNoNull(v)
        /\ CASE t = "b" -> Is("bool")
             [] t \in Numeric -> Is("number") /\ InRange(v.n, t)
             [] t = "s" -> Is("string")
             [] t = "o" -> Is("string") /\ v.s \in Paths
             [] t = "as" -> Items("array", LAMBDA i : i.is = "string")
             [] t = "ao" -> Items("array", LAMBDA i : i.is = "string" /\ i.s \in Paths)
             [] t = "ay" -> Integers("y")
             [] t = "au" -> Integers("u")
             [] t = "ai" -> FALSE
             [] t = "a{sv}" -> Is("object")
             [] t = "a{ss}" -> Items("object", LAMBDA i : i.is = "string")
             [] t = "a{sa{sv}}" -> Items("object", LAMBDA i : i.is = "object")
             [] t = "aa{sv}" -> Items("array", LAMBDA i : i.is = "object")
             [] t = "v" -> TRUE

\* An argument the method can take comes back as it was given.  The call fails only if
\* the bus was restarted since the first call, the service had another type before, or
\* it was away within thirty seconds.
CallsAreAnswered ==
    \A t \in Threads :
        pc[t] = "idle" /\ result[t] # Null /\ Fits(given[t], service.type)
            /\ t \notin lost /\ ~recent
        => result[t] = given[t]

\* The guest hears each signal once and in order, from the first after the match rule on.
SignalsInOrder ==
    \A m \in Subscribers :
        LET all == heard[m] \o channel[m] \o passing[m]
        IN  /\ all = [i \in 1 .. Len(all) |-> since[m] + i]
            /\ stream[m] = "live" => since[m] + Len(all) = emitted

DBusIsSound == CallsAreAnswered /\ SignalsInOrder

=============================================================================
