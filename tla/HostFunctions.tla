---------------------------- MODULE HostFunctions ----------------------------
(***************************************************************************)
(* The host functions of a module (wyrd-wasm, modules/wasm/host_api.rs):   *)
(* what each looks at, in which order, and the number by which it tells    *)
(* the guest what has happened.  A function sends a message to the host,   *)
(* gives a result, written to the memory of the guest, or only says        *)
(* something; some work before they know whether the result finds room.    *)
(***************************************************************************)
EXTENDS Integers, Sequences

CONSTANTS
    Functions,  \* the host functions the guest calls
    Slots       \* capacity of the channel to the host

\* A function: the checks in their order, each with its number, what it does when they
\* pass, and the number for a full channel.
Host(checks, does, full) == [checks |-> checks, does |-> does, full |-> full]

host_request_surface ==
    Host(<<<<"memory", 1>>, <<"text", 2>>, <<"more text", 3>>, <<"JSON", 4>>>>, "sends", 5)
host_publish ==
    Host(<<<<"memory", 1>>, <<"text", 2>>, <<"capability", 403>>, <<"more text", 3>>,
           <<"JSON", 4>>>>, "sends", 5)
host_request_capability ==
    Host(<<<<"memory", 1>>, <<"text", 2>>, <<"capability", 403>>, <<"more text", 3>>,
           <<"last text", 4>>, <<"JSON", 5>>>>, "sends", 6)
host_focus_request ==
    Host(<<<<"memory", 1>>, <<"capability", 1>>, <<"text", 2>>>>, "sends", 3)
host_read_dir ==
    Host(<<<<"memory", -1>>, <<"text", -2>>, <<"capability", -403>>, <<"absent", -1>>,
           <<"too large", -6>>, <<"address", -3>>>>, "gives", 0)
host_list_dir ==
    Host(<<<<"memory", -1>>, <<"text", -2>>, <<"capability", -403>>, <<"address", -3>>>>,
         "gives", 0)
host_file_exists ==
    Host(<<<<"memory", -1>>, <<"text", -1>>, <<"capability", -1>>, <<"absent", 0>>>>, "says", 0)
host_image_cached ==
    Host(<<<<"memory", -1>>, <<"text", -1>>, <<"capability", -403>>, <<"absent", 0>>>>,
         "says", 0)
host_get_env ==
    Host(<<<<"memory", -1>>, <<"text", -2>>, <<"capability", -4>>, <<"absent", 0>>,
           <<"address", -3>>>>, "gives", 0)
host_resolve_icon ==
    Host(<<<<"memory", -1>>, <<"text", -2>>, <<"absent", -4>>, <<"address", -3>>>>, "gives", 0)
host_exec_process ==
    Host(<<<<"memory", -1>>, <<"text", -2>>, <<"JSON", -2>>, <<"capability", -403>>,
           <<"absent", -4>>, <<"failure", -5>>, <<"address", -3>>>>, "works", 0)
host_exec_command ==
    Host(<<<<"memory", -1>>, <<"text", -2>>, <<"capability", -403>>, <<"absent", -4>>,
           <<"failure", -5>>, <<"address", -3>>>>, "works", 0)
host_dbus_call ==
    Host(<<<<"memory", -1>>, <<"text", -2>>, <<"capability", -403>>, <<"failure", -500>>,
           <<"address", -3>>>>, "works", 0)
host_unix_socket_request ==
    Host(<<<<"memory", -1>>, <<"text", -2>>, <<"too large", -6>>, <<"capability", -403>>,
           <<"failure", -4>>, <<"address", -3>>>>, "works", 0)

Linker ==
    [host_request_surface |-> host_request_surface, host_publish |-> host_publish,
     host_request_capability |-> host_request_capability,
     host_focus_request |-> host_focus_request, host_read_dir |-> host_read_dir,
     host_list_dir |-> host_list_dir, host_file_exists |-> host_file_exists,
     host_image_cached |-> host_image_cached, host_get_env |-> host_get_env,
     host_resolve_icon |-> host_resolve_icon, host_exec_process |-> host_exec_process,
     host_exec_command |-> host_exec_command, host_dbus_call |-> host_dbus_call,
     host_unix_socket_request |-> host_unix_socket_request]

VARIABLES
    sent,     \* messages in the channel to the host: the functions they come from
    last      \* the call the guest is in: function, what was wrong, the number, whether it
              \* had an effect, and whether a result written was cut

functionVars == <<sent, last>>

NoCall == [f |-> "none", wrong |-> {}, says |-> 0, effect |-> FALSE, cut |-> FALSE]

Init ==
    /\ sent = <<>>
    /\ last = NoCall

TypeOK ==
    /\ Len(sent) <= Slots
    /\ last.f \in Functions \cup {"none"}

FaultsOf(f) == {Linker[f].checks[i][1] : i \in DOMAIN Linker[f].checks}

\* The first of the checks that fails; 0, none does.
FirstFailing(f, wrong) ==
    LET failing == {i \in DOMAIN Linker[f].checks : Linker[f].checks[i][1] \in wrong}
    IN  IF failing = {} THEN 0 ELSE CHOOSE i \in failing : \A j \in failing : i <= j

\* Work is done when all is right but its outcome or the room for the result.
Worked(f, wrong) == Linker[f].does = "works" /\ wrong \subseteq {"failure", "address"}

\* A call; `fits`: there is room for the whole result.  host_read_dir writes nothing
\* rather than a part, the others cut.
CallHost(f, wrong, fits) ==
    LET failing == FirstFailing(f, wrong)
        host == Linker[f]
        sends == failing = 0 /\ host.does = "sends" /\ Len(sent) < Slots
        writes == failing = 0 /\ host.does \in {"gives", "works"}
                      /\ (fits \/ f # "host_read_dir")
        says == CASE failing # 0 -> host.checks[failing][2]
                  [] host.does = "sends" -> IF sends THEN 0 ELSE host.full
                  [] host.does = "says" -> 1
                  [] OTHER -> IF writes THEN 2 ELSE -6
    IN  /\ last = NoCall
        /\ sent' = IF sends THEN Append(sent, f) ELSE sent
        /\ last' = [f |-> f, wrong |-> wrong, says |-> says,
                    effect |-> sends \/ writes \/ Worked(f, wrong), cut |-> writes /\ ~fits]

\* The guest reads the number and goes on.
GuestGoesOn ==
    /\ last # NoCall
    /\ last' = NoCall
    /\ UNCHANGED sent

HostTakes ==
    /\ sent # <<>>
    /\ sent' = Tail(sent)
    /\ UNCHANGED last

Next ==
    \/ \E f \in Functions : \E wrong \in SUBSET FaultsOf(f), fits \in BOOLEAN :
           CallHost(f, wrong, fits)
    \/ GuestGoesOn
    \/ HostTakes

Spec == Init /\ [][Next]_functionVars

-----------------------------------------------------------------------------
(* Properties *)

\* Which numbers are good news: 0 of a function that sends, a length, or a plain yes.
GoodNews(f, says) == IF Linker[f].does = "sends" THEN says = 0 ELSE says > 0

\* A module without the capability has no effect of any kind, and is never told it had
\* one; a message is in the channel exactly if the guest was told so; directories are
\* given whole.  Only functions that work may fail after having done it.
NumbersTellTheTruth ==
    last.f # "none" =>
        /\ "capability" \in last.wrong => ~last.effect
        /\ last.effect /\ Linker[last.f].does # "works" => GoodNews(last.f, last.says)
        /\ GoodNews(last.f, last.says) =>
               last.wrong = {} /\ (last.effect \/ Linker[last.f].does = "says")
        /\ last.cut => last.f # "host_read_dir"
=============================================================================
