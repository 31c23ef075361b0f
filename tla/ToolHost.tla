----------------------------- MODULE ToolHost -----------------------------
(* The tools that run on a tool host: calls of conversations bound to one   *)
(* external sandbox, the clients started for it, the two pipes between a    *)
(* client and its host process, and the commands the host runs.             *)
(*                                                                          *)
(* A call starts at most one client, so a client is named by the call that  *)
(* started it.  What travels is abstracted: per call the messages on their  *)
(* way to the host in order, and whether its result is on its way back.     *)
(* Progress, the catalogue and pings change no state of a call.             *)
EXTENDS Naturals, Sequences, FiniteSets

CONSTANTS
    HostCall,    \* calls of host tools
    HEnv         \* a subset of HostEvent

HostEvent == {"deploy fails", "slow start", "death", "abort", "shutdown", "inner process"}
NoClient == "no client"

ASSUME ToolHostAssumption ==
    NoClient \notin HostCall /\ HEnv \subseteq HostEvent

VARIABLES
    cached,   \* the client the sandbox is mapped to
    client,   \* the clients: process and closed
    call,     \* the calls: where they stand, their client, their answer
    wire,     \* call -> messages to the host, oldest first
    job,      \* call -> its command on the host
    reply,    \* calls whose result is on its way back
    stopped   \* calls whose signal is aborted

toolHostVars == <<cached, client, call, wire, job, reply, stopped>>

Process == {"none", "starting", "up", "exited", "reaped"}
Position == {"idle", "resolved", "deploying", "connecting", "invoked", "answered"}
Outcome == {"none", "result", "unavailable", "closed", "aborted"}
Command == {"none", "running", "stopping", "held", "ended"}

ToolHostTypeOK ==
    /\ cached \in HostCall \cup {NoClient}
    /\ client \in [HostCall -> [process : Process, closed : BOOLEAN]]
    /\ call \in [HostCall -> [at : Position, on : HostCall \cup {NoClient}, answer : Outcome]]
    /\ wire \in [HostCall -> {<<>>, <<"invoke">>, <<"invoke", "cancel">>, <<"cancel">>}]
    /\ job \in [HostCall -> Command]
    /\ reply \subseteq HostCall /\ stopped \subseteq HostCall

ToolHostInit ==
    /\ cached = NoClient
    /\ client = [c \in HostCall |-> [process |-> "none", closed |-> FALSE]]
    /\ call = [c \in HostCall |-> [at |-> "idle", on |-> NoClient, answer |-> "none"]]
    /\ wire = [c \in HostCall |-> <<>>] /\ job = [c \in HostCall |-> "none"]
    /\ reply = {} /\ stopped = {}
---------------------------------------------------------------------------
(* The client. *)

Pending(k) == {c \in HostCall : call[c].at = "invoked" /\ call[c].on = k}
Waiting(k) == {c \in HostCall : call[c].at = "connecting" /\ c = k}

Answer(c, what) == call' = [call EXCEPT ![c].at = "answered", ![c].answer = what]

(* Mutant: a signal that is aborted already is not looked at. *)
InvokeUnchecked(c, k) ==
    IF client[k].closed THEN Answer(c, "closed") /\ UNCHANGED wire
    ELSE /\ call' = [call EXCEPT ![c].at = "invoked", ![c].on = k]
         /\ wire' = [wire EXCEPT ![c] = <<"invoke">>]

(* Mutant: a client that has been closed is asked like any other. *)
InvokeClosed(c, k) ==
    IF c \in stopped THEN Answer(c, "aborted") /\ UNCHANGED wire
    ELSE /\ call' = [call EXCEPT ![c].at = "invoked", ![c].on = k]
         /\ wire' = [wire EXCEPT ![c] = <<"invoke">>]

(* invoke.  What is written to a process that has ended and is not reaped    *)
(* is lost; that such a write may fail the server itself is left out.       *)
Invoke(c, k) ==
    IF client[k].closed \/ c \in stopped
    THEN Answer(c, IF client[k].closed THEN "closed" ELSE "aborted") /\ UNCHANGED wire
    ELSE /\ call' = [call EXCEPT ![c].at = "invoked", ![c].on = k]
         /\ wire' = [wire EXCEPT ![c] = <<"invoke">>]

(* close: the process is told to end, and what it has not read is lost. *)
Killed(k) == [client EXCEPT ![k].closed = TRUE,
                            ![k].process = IF @ = "reaped" THEN @ ELSE "exited"]
Cut(k) == [c \in HostCall |-> IF call[c].on = k THEN <<>> ELSE wire[c]]

(* Mutant: a channel that is closed has nothing left to tear down. *)
TeardownOpen(k) ==
    call' = IF client[k].closed THEN call
            ELSE [c \in HostCall |->
                IF c \in Pending(k) THEN [call[c] EXCEPT !.at = "answered", !.answer = "closed"]
                ELSE IF c \in Waiting(k) THEN [call[c] EXCEPT !.at = "answered", !.answer = "unavailable"]
                ELSE call[c]]

(* teardown: all that wait for this host are answered. *)
Teardown(k) ==
    call' = [c \in HostCall |->
        IF c \in Pending(k) THEN [call[c] EXCEPT !.at = "answered", !.answer = "closed"]
        ELSE IF c \in Waiting(k) THEN [call[c] EXCEPT !.at = "answered", !.answer = "unavailable"]
        ELSE call[c]]
---------------------------------------------------------------------------
(* ToolHostService.invokeForConversation. *)

ResolveSandbox(c) ==
    /\ call[c].at = "idle"
    /\ call' = [call EXCEPT ![c].at = "resolved"]
    /\ UNCHANGED <<cached, client, wire, job, reply, stopped>>

Lookup(c) ==
    /\ call[c].at = "resolved"
    /\ IF cached # NoClient THEN Invoke(c, cached)
       ELSE call' = [call EXCEPT ![c].at = "deploying"] /\ UNCHANGED wire
    /\ UNCHANGED <<cached, client, job, reply, stopped>>

DeployFails(c) ==
    /\ call[c].at = "deploying" /\ "deploy fails" \in HEnv
    /\ Answer(c, "unavailable")
    /\ UNCHANGED <<cached, client, wire, job, reply, stopped>>

Start(c) ==
    /\ call[c].at = "deploying"
    /\ call' = [call EXCEPT ![c].at = "connecting"]
    /\ client' = [client EXCEPT ![c].process = "starting"]
    /\ UNCHANGED <<cached, wire, job, reply, stopped>>

(* The host says ready: the waiting call caches the client and goes on. *)
Ready(c) ==
    /\ call[c].at = "connecting" /\ client[c].process = "starting"
    /\ client' = [client EXCEPT ![c].process = "up"]
    /\ cached' = c
    /\ Invoke(c, c)
    /\ UNCHANGED <<job, reply, stopped>>

ReadyTimeout(c) ==
    /\ call[c].at = "connecting" /\ client[c].process = "starting" /\ "slow start" \in HEnv
    /\ client' = Killed(c)
    /\ Answer(c, "unavailable")
    /\ UNCHANGED <<cached, wire, job, reply, stopped>>

Exit(k) ==
    /\ client[k].process = "exited"
    /\ client' = [client EXCEPT ![k].process = "reaped", ![k].closed = TRUE]
    /\ Teardown(k)
    /\ UNCHANGED <<cached, wire, job, reply, stopped>>

(* onAbort, which the answer of a call detaches. *)
Abort(c) ==
    /\ "abort" \in HEnv /\ call[c].at # "answered" /\ c \notin stopped
    /\ stopped' = stopped \cup {c}
    /\ wire' = IF call[c].at = "invoked" /\ client[call[c].on].process = "up"
               THEN [wire EXCEPT ![c] = Append(@, "cancel")] ELSE wire
    /\ UNCHANGED <<cached, client, call, job, reply>>

Result(c) ==
    /\ c \in reply /\ reply' = reply \ {c}
    /\ IF call[c].at = "invoked" THEN Answer(c, "result") ELSE UNCHANGED call
    /\ UNCHANGED <<cached, client, wire, job, stopped>>

(* onModuleDestroy. *)
Shutdown ==
    /\ cached # NoClient /\ "shutdown" \in HEnv
    /\ client' = Killed(cached) /\ wire' = Cut(cached) /\ cached' = NoClient
    /\ UNCHANGED <<call, job, reply, stopped>>
---------------------------------------------------------------------------
(* The host: ToolHostServer and the exec tool. *)

Take(c) ==
    /\ wire[c] # <<>> /\ client[call[c].on].process = "up"
    /\ wire' = [wire EXCEPT ![c] = Tail(@)]
    /\ job' = [job EXCEPT ![c] =
                   IF Head(wire[c]) = "invoke" THEN "running"
                   ELSE IF @ = "running" THEN "stopping" ELSE @]
    /\ UNCHANGED <<cached, client, call, reply, stopped>>

(* The command is over when nothing holds its output any more.  A host that *)
(* has died leaves its commands behind and answers nothing.                 *)
Finish(c) ==
    /\ job' = [job EXCEPT ![c] = "ended"]
    /\ reply' = IF client[call[c].on].process = "up" THEN reply \cup {c} ELSE reply
    /\ UNCHANGED <<cached, client, call, wire, stopped>>

CommandEnds(c) == job[c] \in {"running", "held"} /\ Finish(c)

(* The timeout of the parameters; the shutdown of a host whose harness is   *)
(* gone, at the other end of an ssh session.                                *)
StopCommand(c) ==
    /\ job[c] = "running"
    /\ job' = [job EXCEPT ![c] = "stopping"]
    /\ UNCHANGED <<cached, client, call, wire, reply, stopped>>

(* SIGTERM ends the shell, and the command with it unless a process the     *)
(* shell had started still holds the output.                                *)
ShellDies(c) ==
    /\ job[c] = "stopping"
    /\ \/ Finish(c)
       \/ /\ "inner process" \in HEnv
          /\ job' = [job EXCEPT ![c] = "held"]
          /\ UNCHANGED <<cached, client, call, wire, reply, stopped>>

HostDies(k) ==
    /\ "death" \in HEnv /\ client[k].process \in {"starting", "up"}
    /\ client' = [client EXCEPT ![k].process = "exited"] /\ wire' = Cut(k)
    /\ UNCHANGED <<cached, call, job, reply, stopped>>
---------------------------------------------------------------------------
(* What goes on without anybody asking for it. *)
ToolHostWork ==
    \E c \in HostCall :
        \/ Lookup(c) \/ DeployFails(c) \/ Start(c) \/ Ready(c) \/ ReadyTimeout(c)
        \/ Exit(c) \/ Result(c) \/ Take(c) \/ ShellDies(c)

ToolHostNext ==
    \/ ToolHostWork
    \/ Shutdown
    \/ \E c \in HostCall :
        ResolveSandbox(c) \/ Abort(c) \/ CommandEnds(c) \/ StopCommand(c) \/ HostDies(c)

ToolHostSpec == ToolHostInit /\ [][ToolHostNext]_toolHostVars

(* The two event loops and the signals go on; no command has to end.        *)
ToolHostFairSpec == ToolHostSpec /\ WF_toolHostVars(ToolHostWork)
---------------------------------------------------------------------------
(* Properties. *)

Occupied(c) == job[c] \in {"running", "held"} /\ client[call[c].on].process = "up"

(* "Never throws": a call is answered, whatever becomes of its client,      *)
(* unless its host is up and its command has not ended.                     *)
CallsSettle ==
    \A c \in HostCall : (call[c].at # "idle") ~> (call[c].at = "answered" \/ Occupied(c))

(* teardown and the look at `closed` in invoke: nobody waits for a client   *)
(* whose process is gone, though the sandbox is still mapped to it and the  *)
(* call may come at any moment of its end.                                  *)
NoneWaitForTheDead ==
    \A c \in HostCall :
        /\ call[c].at = "invoked" => client[call[c].on].process # "reaped"
        /\ call[c].at = "connecting" => client[c].process # "reaped"

(* onAbort and the look at the signal before it: an aborted call does not   *)
(* stay with a command nobody has told to stop.                             *)
AbortReachesCommand ==
    \A c \in HostCall :
        (c \in stopped /\ call[c].at # "idle") ~> (call[c].at = "answered" \/ job[c] = "held")

(* The exec tool "kills the process on cancel (AbortSignal) or timeout, and *)
(* returns": an aborted call is answered.                                   *)
AbortEnds ==
    \A c \in HostCall : (c \in stopped /\ call[c].at # "idle") ~> (call[c].at = "answered")

(* "One client per sandbox is started lazily and reused": two hosts of the  *)
(* sandbox are never up together.                                           *)
OneClientPerSandbox ==
    Cardinality({k \in HostCall : client[k].process = "up" /\ ~client[k].closed}) <= 1
=============================================================================
