---------------------------- MODULE SerialLine ----------------------------
(* One serial console: the commands of the serial tool, which take turns on *)
(* one SerialConnection, its sockets, and the guest behind them.            *)
(*                                                                          *)
(* The guest's end is external: it serves one client at a time, the one     *)
(* that connected first.  Sockets are numbered; what is typed is abstracted *)
(* to the command it belongs to.  The buffer is one for all sockets.        *)
EXTENDS SequencesExt

CONSTANTS
    SerialCall,   \* calls of the serial tool
    MaxOutage     \* bound on the times the guest stops answering

ASSUME SerialLineAssumption == IsFiniteSet(SerialCall) /\ MaxOutage \in Nat

VARIABLES
    order,     \* calls in the order of run(); the first one has the lock
    step,      \* call -> where it stands
    open,      \* the sockets that are open, in the order they connected
    socket,    \* this.socket, 0 when it is null or destroyed
    opened,    \* the number of sockets made so far
    ready,     \* state = 'ready'
    typed,     \* socket -> commands written to it that the guest has not read
    ran,       \* call -> how often the guest has run its command
    printed,   \* calls whose output and exit marker are in the buffer
    halted,    \* calls whose signal is aborted
    answers,   \* the guest answers
    outages

line == <<open, socket, opened, ready>>
guest == <<ran, printed, answers, outages>>
serialVars == <<order, step, line, typed, guest, halted>>

MaxSocket == 2 * Cardinality(SerialCall)
Socket == 1..MaxSocket
SerialStep == {"idle", "queued", "login", "set up", "exec",
               "login again", "set up again", "exec again", "done"}

SerialTypeOK ==
    /\ order \in Seq(SerialCall) /\ step \in [SerialCall -> SerialStep]
    /\ open \in Seq(Socket) /\ {socket, opened} \subseteq 0..MaxSocket
    /\ typed \in [Socket -> SUBSET SerialCall] /\ ran \in [SerialCall -> 0..2]
    /\ printed \subseteq SerialCall /\ halted \subseteq SerialCall
    /\ {ready, answers} \subseteq BOOLEAN /\ outages \in 0..MaxOutage

SerialInit ==
    /\ order = <<>> /\ step = [c \in SerialCall |-> "idle"]
    /\ open = <<>> /\ socket = 0 /\ opened = 0 /\ ready = FALSE
    /\ typed = [s \in Socket |-> {}] /\ ran = [c \in SerialCall |-> 0]
    /\ printed = {} /\ halted = {} /\ answers \in BOOLEAN /\ outages = 0
---------------------------------------------------------------------------
(* The connection. *)

OpenSockets == {open[n] : n \in 1..Len(open)}
IsConnected == ready /\ socket \in OpenSockets
StepTo(c, s) == step' = [step EXCEPT ![c] = s]

(* disconnect: this.socket is destroyed, if it has not been closed already. *)
Others ==
    IF socket \in OpenSockets
    THEN RemoveAt(open, CHOOSE n \in DOMAIN open : open[n] = socket)
    ELSE open

(* Mutant: the lock is released by a command that succeeds. *)
EndKeepsLock(c) ==
    /\ StepTo(c, "done")
    /\ order' = IF c \in printed THEN Tail(order) ELSE order

(* run's finally. *)
End(c) == StepTo(c, "done") /\ order' = Tail(order)

(* connect: a socket, while `rest` are open; or the connection is refused.  *)
Connect(c, next, rest) ==
    /\ ready' = FALSE
    /\ \/ /\ opened' = opened + 1 /\ socket' = opened + 1 /\ open' = Append(rest, opened + 1)
          /\ StepTo(c, next) /\ UNCHANGED order
       \/ opened' = opened /\ socket' = 0 /\ open' = rest /\ End(c)

(* The first attempt fails: disconnect, and once more on a fresh socket.    *)
(* A cancelled command, or the second attempt, is given up.                 *)
Fail(c) ==
    IF c \in halted \/ step[c] \in {"set up again", "exec again"}
    THEN End(c) /\ UNCHANGED line
    ELSE Connect(c, "login again", Others)

---------------------------------------------------------------------------
(* SerialConnection.run. *)

RunCommand(c) ==
    /\ step[c] = "idle"
    /\ StepTo(c, "queued") /\ order' = Append(order, c)
    /\ UNCHANGED <<line, typed, guest, halted>>

(* Mutant: the turn of a command is not waited for. *)
TakeTurnAtOnce(c) ==
    /\ step[c] = "queued"
    /\ IF c \in halted THEN End(c) /\ UNCHANGED line
       ELSE IF IsConnected THEN StepTo(c, "set up") /\ UNCHANGED <<order, line>>
       ELSE Connect(c, "login", open)
    /\ UNCHANGED <<typed, guest, halted>>

TakeTurn(c) ==
    /\ step[c] = "queued" /\ Head(order) = c
    /\ IF c \in halted THEN End(c) /\ UNCHANGED line
       ELSE IF IsConnected THEN StepTo(c, "set up") /\ UNCHANGED <<order, line>>
       ELSE Connect(c, "login", open)
    /\ UNCHANGED <<typed, guest, halted>>

(* doLogin: a prompt is in the buffer, through whichever socket is served.  *)
Login(c) ==
    /\ step[c] \in {"login", "login again"} /\ answers /\ open # <<>>
    /\ step' = [step EXCEPT ![c] = IF @ = "login" THEN "set up" ELSE "set up again"]
    /\ ready' = TRUE
    /\ UNCHANGED <<order, open, socket, opened, typed, guest, halted>>

(* The socket stays as it is. *)
LoginTimeout(c) ==
    /\ step[c] \in {"login", "login again"}
    /\ End(c)
    /\ UNCHANGED <<line, typed, guest, halted>>

(* Mutant: the signal is looked at before the line is waited for only. *)
SendUnchecked(c) ==
    /\ step[c] \in {"set up", "set up again"}
    /\ IF socket \notin OpenSockets THEN Fail(c) /\ UNCHANGED typed
       ELSE /\ step' = [step EXCEPT ![c] = IF @ = "set up" THEN "exec" ELSE "exec again"]
            /\ typed' = [typed EXCEPT ![socket] = @ \cup {c}]
            /\ UNCHANGED <<order, line>>
    /\ printed' = printed \ {c}
    /\ UNCHANGED <<ran, answers, outages, halted>>

(* execRaw, after applyShellSetup, whose own failure changes nothing: the    *)
(* buffer is emptied and the markers are new.                                *)
Send(c) ==
    /\ step[c] \in {"set up", "set up again"}
    /\ IF socket \notin OpenSockets \/ c \in halted THEN Fail(c) /\ UNCHANGED typed
       ELSE /\ step' = [step EXCEPT ![c] = IF @ = "set up" THEN "exec" ELSE "exec again"]
            /\ typed' = [typed EXCEPT ![socket] = @ \cup {c}]
            /\ UNCHANGED <<order, line>>
    /\ printed' = printed \ {c}
    /\ UNCHANGED <<ran, answers, outages, halted>>

Output(c) ==
    /\ step[c] \in {"exec", "exec again"} /\ c \in printed
    /\ End(c)
    /\ UNCHANGED <<line, typed, guest, halted>>

(* The command's timer, or the socket's close event. *)
Give(c) ==
    /\ step[c] \in {"exec", "exec again"}
    /\ Fail(c)
    /\ UNCHANGED <<typed, guest, halted>>

(* A cancel: the running command is interrupted and its call rejected. *)
CancelCommand(c) ==
    /\ step[c] # "done" /\ c \notin halted
    /\ halted' = halted \cup {c}
    /\ IF step[c] \in {"exec", "exec again"} THEN End(c) ELSE UNCHANGED <<order, step>>
    /\ UNCHANGED <<line, typed, guest>>
---------------------------------------------------------------------------
(* The guest. *)

Execute(c) ==
    /\ answers /\ open # <<>> /\ c \in typed[Head(open)]
    /\ typed' = [typed EXCEPT ![Head(open)] = @ \ {c}]
    /\ ran' = [ran EXCEPT ![c] = @ + 1]
    /\ printed' \in {printed, printed \cup {c}}
    /\ UNCHANGED <<order, step, line, answers, outages, halted>>

(* It hangs, goes down and closes its end of every socket, or drops one     *)
(* client, which may be one the tool has left behind: the close event of    *)
(* any socket marks the connection disconnected.                            *)
Outage ==
    /\ answers /\ outages < MaxOutage /\ outages' = outages + 1
    /\ \/ answers' = FALSE /\ UNCHANGED <<open, ready>>
       \/ answers' = FALSE /\ open' = <<>> /\ ready' = FALSE
       \/ /\ \E n \in DOMAIN open : open' = RemoveAt(open, n)
          /\ ready' = FALSE /\ UNCHANGED answers
    /\ UNCHANGED <<order, step, socket, opened, typed, ran, printed, halted>>

GuestBoots ==
    /\ ~answers /\ answers' = TRUE
    /\ UNCHANGED <<order, step, line, typed, ran, printed, outages, halted>>
---------------------------------------------------------------------------
(* What goes on without anybody asking for it. *)
SerialWork ==
    \E c \in SerialCall :
        TakeTurn(c) \/ Login(c) \/ LoginTimeout(c) \/ Send(c) \/ Output(c) \/ Give(c)

SerialNext ==
    \/ SerialWork
    \/ Outage \/ GuestBoots
    \/ \E c \in SerialCall : RunCommand(c) \/ CancelCommand(c) \/ Execute(c)

SerialSpec == SerialInit /\ [][SerialNext]_serialVars

(* Every wait has a timer; nothing is expected of the guest. *)
SerialFairSpec == SerialSpec /\ WF_serialVars(SerialWork)
---------------------------------------------------------------------------
(* Properties. *)

(* The lock of run: every command gets its turn and is answered, whatever   *)
(* becomes of the one before it.                                            *)
CommandsReturn == \A c \in SerialCall : (step[c] # "idle") ~> (step[c] = "done")

(* A cancelled command is not typed, neither after a login that took its    *)
(* time nor by the retry.                                                   *)
CancelledNotTyped ==
    [][\A c \in SerialCall, s \in Socket : (c \in typed'[s] \ typed[s]) => c \notin halted]_serialVars

(* "one serial line = one command at a time": no two calls are between the   *)
(* lock and its release, whoever gives up, is cancelled or is retried.       *)
OneCommandAtATime ==
    \A c, d \in SerialCall :
        {step[c], step[d]} \subseteq (SerialStep \ {"idle", "queued", "done"}) => c = d

(* "without opening a second connection (QEMU serial sockets are            *)
(* single-client)".                                                         *)
OneSocketPerConsole == Len(open) <= 1
=============================================================================
