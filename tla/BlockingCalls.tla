---------------------------- MODULE BlockingCalls ----------------------------
(***************************************************************************)
(* Host functions that keep a guest waiting (wyrd-wasm,                    *)
(* modules/wasm/host_api.rs).  host_exec_process and host_exec_command run *)
(* a program and wait for it: a thread reads its output while the call     *)
(* polls for its end.  host_exec_process without room for output starts    *)
(* the program and leaves it to the reaper.  host_unix_socket_request      *)
(* sends a line to a socket and waits for a line.                          *)
(***************************************************************************)
EXTENDS Integers, Sequences

CONSTANTS
    Calls,      \* which of "exec" and "request" the guest makes
    Kids,       \* programs started without waiting
    MaxOutput,  \* pieces of output a program may write
    Kept,       \* of these the host keeps so many (MAX_EXEC_OUTPUT_BYTES)
    MaxLine     \* pieces in a line (MAX_SOCKET_PAYLOAD_BYTES)

Pending == 0  \* no answer so far
Line == 1     \* the answer is what response holds

VARIABLES
    exec,      \* where run_command_with_timeout stands
    child,     \* the program
    heir,      \* a process it left behind with its standard output
    unread,    \* pieces in the pipe
    written,   \* history: pieces written
    captured,  \* pieces the reader thread has kept
    reader,    \* the reader thread
    late,      \* five seconds have passed
    grace,     \* 100 ms have passed since the end of the program
    code,      \* what the guest gets; pieces of output from 0 on

    kid,       \* program -> none, running, zombie, reaped
    reaping,   \* programs sent to CHILD_REAPER
    waiter,    \* programs that have a thread waiting for them

    request,   \* where the call to the socket stands
    spoken,    \* what the peer has sent: pieces and ends of lines
    response,  \* what read_until has taken of it
    peer,      \* the peer is there, or has closed
    answer     \* what the guest gets: an error, or Line

execVars == <<exec, child, heir, unread, written, captured, reader, late, grace, code>>
kidVars == <<kid, reaping, waiter>>
requestVars == <<request, spoken, response, peer, answer>>
blockingVars == <<execVars, kidVars, requestVars>>

Init ==
    /\ exec = "none" /\ child = "none" /\ heir = "none"
    /\ unread = 0 /\ written = 0 /\ captured = 0
    /\ reader = "none"
    /\ late = FALSE /\ grace = FALSE
    /\ code = 0
    /\ kid = [k \in Kids |-> "none"]
    /\ reaping = <<>>
    /\ waiter = {}
    /\ request = "none"
    /\ spoken = <<>> /\ response = <<>>
    /\ peer = "there"
    /\ answer = Pending

TypeOK ==
    /\ exec \in {"none", "waiting", "collecting", "done"}
    /\ child \in {"none", "running", "succeeded", "failed", "killed"}
    /\ heir \in {"none", "grouped", "escaped", "gone"}
    /\ unread \in 0 .. MaxOutput /\ written \in 0 .. MaxOutput /\ captured \in 0 .. Kept
    /\ reader \in {"none", "reading", "done"}
    /\ late \in BOOLEAN /\ grace \in BOOLEAN
    /\ code \in {-7, -5, -4} \cup 0 .. Kept
    /\ kid \in [Kids -> {"none", "refused", "running", "zombie", "reaped"}]
    /\ waiter \subseteq Kids
    /\ request \in {"none", "connecting", "writing", "reading", "done"}
    /\ peer \in {"there", "closed"}
    /\ answer \in {-404, -7, -6, -4, Pending, Line}

-----------------------------------------------------------------------------
(* A program the call waits for *)

OutputHeld == child = "running" \/ heir \in {"grouped", "escaped"}

\* The program is spawned in a process group of its own, or not at all.
RunCommand ==
    /\ "exec" \in Calls /\ exec = "none"
    /\ \/ exec' = "waiting" /\ child' = "running" /\ reader' = "reading" /\ UNCHANGED code
       \/ exec' = "done" /\ code' = -4 /\ UNCHANGED <<child, reader>>
    /\ UNCHANGED <<heir, unread, written, captured, late, grace, kidVars, requestVars>>

ChildWrites ==
    /\ OutputHeld
    /\ written < MaxOutput
    /\ written' = written + 1 /\ unread' = unread + 1
    /\ UNCHANGED <<exec, child, heir, captured, reader, late, grace, code, kidVars, requestVars>>

\* The program leaves a process behind, in its group or (setsid) in one of its own.
ChildForks ==
    /\ child = "running" /\ heir = "none"
    /\ heir' \in {"grouped", "escaped"}
    /\ UNCHANGED <<exec, child, unread, written, captured, reader, late, grace, code,
                   kidVars, requestVars>>

ChildExits ==
    /\ child = "running"
    /\ child' \in {"succeeded", "failed"}
    /\ UNCHANGED <<exec, heir, unread, written, captured, reader, late, grace, code,
                   kidVars, requestVars>>

HeirExits ==
    /\ heir \in {"grouped", "escaped"}
    /\ heir' = "gone"
    /\ UNCHANGED <<exec, child, unread, written, captured, reader, late, grace, code,
                   kidVars, requestVars>>

\* The reader keeps what fits and drains the rest, until nobody holds the pipe.
ReadOutput ==
    /\ reader = "reading"
    /\ IF unread > 0
       THEN /\ unread' = unread - 1
            /\ captured' = IF captured < Kept THEN captured + 1 ELSE captured
            /\ UNCHANGED reader
       ELSE ~OutputHeld /\ reader' = "done" /\ UNCHANGED <<unread, captured>>
    /\ UNCHANGED <<exec, child, heir, written, late, grace, code, kidVars, requestVars>>

TimePasses ==
    /\ \/ exec = "waiting" /\ ~late /\ late' = TRUE /\ UNCHANGED grace
       \/ exec = "collecting" /\ ~grace /\ grace' = TRUE /\ UNCHANGED late
    /\ UNCHANGED <<exec, child, heir, unread, written, captured, reader, code, kidVars,
                   requestVars>>

\* try_wait every 10 ms; at the deadline the whole group is killed.
Poll ==
    /\ exec = "waiting"
    /\ \/ /\ child \in {"succeeded", "failed"}
          /\ exec' = "collecting"
          /\ UNCHANGED <<child, heir, code>>
       \/ /\ child = "running" /\ late
          /\ child' = "killed"
          /\ heir' = IF heir = "grouped" THEN "gone" ELSE heir
          /\ exec' = "done" /\ code' = -7
    /\ UNCHANGED <<unread, written, captured, reader, late, grace, kidVars, requestVars>>

\* Mutant: the call waits for the end of the output, however long.
CollectAll ==
    /\ exec = "collecting"
    /\ reader = "done"
    /\ exec' = "done"
    /\ code' = IF child = "succeeded" THEN captured ELSE -5
    /\ captured' = 0
    /\ UNCHANGED <<child, heir, unread, written, reader, late, grace, kidVars, requestVars>>

\* The reader has 100 ms to finish; what it has kept by then is the output.
Collect ==
    /\ exec = "collecting"
    /\ reader = "done" \/ grace
    /\ exec' = "done"
    /\ code' = IF child = "succeeded" THEN captured ELSE -5
    /\ captured' = 0
    /\ UNCHANGED <<child, heir, unread, written, reader, late, grace, kidVars, requestVars>>

-----------------------------------------------------------------------------
(* A program nobody waits for *)

\* Through systemd-run or, where that cannot be spawned, directly.
SpawnDetached(k) ==
    /\ kid[k] = "none"
    /\ \/ kid' = [kid EXCEPT ![k] = "running"] /\ reaping' = Append(reaping, k)
       \/ kid' = [kid EXCEPT ![k] = "refused"] /\ UNCHANGED reaping
    /\ UNCHANGED <<waiter, execVars, requestVars>>

KidExits(k) ==
    /\ kid[k] = "running"
    /\ kid' = [kid EXCEPT ![k] = "zombie"]
    /\ UNCHANGED <<reaping, waiter, execVars, requestVars>>

\* The reaper gives each child a thread that waits for it.
DispatchChild ==
    /\ reaping # <<>>
    /\ waiter' = waiter \cup {Head(reaping)}
    /\ reaping' = Tail(reaping)
    /\ UNCHANGED <<kid, execVars, requestVars>>

Reap(k) ==
    /\ k \in waiter /\ kid[k] = "zombie"
    /\ kid' = [kid EXCEPT ![k] = "reaped"]
    /\ waiter' = waiter \ {k}
    /\ UNCHANGED <<reaping, execVars, requestVars>>

-----------------------------------------------------------------------------
(* A line to a socket and the line that answers it *)

Request ==
    /\ "request" \in Calls /\ request = "none"
    /\ request' = "connecting"
    /\ UNCHANGED <<spoken, response, peer, answer, execVars, kidVars>>

Fails(error) == request' = "done" /\ answer' = error /\ UNCHANGED response

Connect ==
    /\ request = "connecting"
    /\ \/ peer = "there" /\ request' = "writing" /\ UNCHANGED <<response, answer>>
       \/ \E error \in {-404, -7} : Fails(error)
    /\ UNCHANGED <<spoken, peer, execVars, kidVars>>

\* The peer takes the line within two seconds, or it does not.
SendLine ==
    /\ request = "writing"
    /\ \/ peer = "there" /\ request' = "reading" /\ UNCHANGED <<response, answer>>
       \/ Fails(-4)
    /\ UNCHANGED <<spoken, peer, execVars, kidVars>>

PeerSpeaks(piece) ==
    /\ request = "reading" /\ peer = "there"
    /\ Len(spoken) <= MaxLine
    /\ spoken' = Append(spoken, piece)
    /\ UNCHANGED <<request, response, peer, answer, execVars, kidVars>>

PeerCloses ==
    /\ request \in {"writing", "reading"} /\ peer = "there"
    /\ peer' = "closed"
    /\ UNCHANGED <<request, spoken, response, answer, execVars, kidVars>>

\* The line is there, or as much as is read of one.
ResponseEnds(line) == IF Len(line) > MaxLine THEN Fails(-6)
                      ELSE request' = "done" /\ answer' = Line /\ response' = line

ReadLine ==
    /\ request = "reading"
    /\ LET taken == Len(response)
       IN  IF taken < Len(spoken)
           THEN LET line == Append(response, spoken[taken + 1])
                IN  IF spoken[taken + 1] = "end" \/ Len(line) = MaxLine + 1
                    THEN ResponseEnds(line)
                    ELSE response' = line /\ UNCHANGED <<request, answer>>
           ELSE peer = "closed" /\ ResponseEnds(response)
    /\ UNCHANGED <<spoken, peer, execVars, kidVars>>

\* Two seconds without a byte.
ReadTimesOut ==
    /\ request = "reading" /\ peer = "there" /\ Len(response) = Len(spoken)
    /\ Fails(-4)
    /\ UNCHANGED <<spoken, peer, execVars, kidVars>>

-----------------------------------------------------------------------------

HostSteps == Poll \/ Collect \/ TimePasses
RequestSteps == Connect \/ SendLine \/ ReadLine \/ ReadTimesOut

Next ==
    \/ RunCommand \/ ChildWrites \/ ChildForks \/ ChildExits \/ HeirExits \/ ReadOutput
    \/ HostSteps
    \/ \E k \in Kids : SpawnDetached(k) \/ KidExits(k) \/ Reap(k)
    \/ DispatchChild
    \/ Request \/ RequestSteps \/ PeerCloses
    \/ \E piece \in {"piece", "end"} : PeerSpeaks(piece)

\* Time passes and threads run; nothing is assumed of programs and peers.
Fairness ==
    /\ WF_blockingVars(HostSteps) /\ WF_blockingVars(RequestSteps)
    /\ WF_blockingVars(ReadOutput) /\ WF_blockingVars(DispatchChild)
    /\ \A k \in Kids : WF_blockingVars(Reap(k))

Spec == Init /\ [][Next]_blockingVars /\ Fairness

-----------------------------------------------------------------------------
(* Properties *)

AtMost(n) == IF n > Kept THEN Kept ELSE n

\* A program that succeeds gives all it has written, but for what exceeds the limit,
\* unless somebody else still held its output, or the reader was not through, 100 ms
\* after it ended; a program that is stopped takes its group along.
OutputIsWhole ==
    /\ exec = "done" /\ code >= 0 /\ ~grace => code = AtMost(written)
    /\ code = -7 => child = "killed" /\ heir # "grouped"

\* The answer is the first line of the peer, or what there was of it when the peer
\* closed; never more than the limit.
AnswerIsFirstLine ==
    answer = Line =>
        /\ response = SubSeq(spoken, 1, Len(response)) /\ Len(response) <= MaxLine
        /\ \A i \in 1 .. Len(response) - 1 : response[i] # "end"
        /\ \/ response # <<>> /\ response[Len(response)] = "end"
           \/ peer = "closed" /\ response = spoken

BlockingIsSound == OutputIsWhole /\ AnswerIsFirstLine

\* Every call returns, whatever the program or the peer does, and no program that has
\* ended stays behind as a zombie.
CallsReturn ==
    /\ exec = "waiting" ~> exec = "done"
    /\ request = "connecting" ~> request = "done"
    /\ \A k \in Kids : kid[k] = "zombie" ~> kid[k] = "reaped"
=============================================================================
