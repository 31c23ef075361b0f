---------------------------- MODULE Turn_proofs ----------------------------
(* The parts of a turn, for any value of their constants: what stands       *)
(* between a subagent's call and its batch, a tool host, and that the run   *)
(* that checks the parts side by side lets each of them behave as its own   *)
(* specification says.                                                      *)
EXTENDS MCTurn, Thoughts_proofs, ToolFanIn_proofs, SerialLine_proofs

---------------------------------------------------------------------------
(* The subagent's call. *)

LEMMA CancelTypes ==
  ASSUME TypeOK, CancelChild
  PROVE  TypeOK'
BY DEF CancelChild, TypeOK, entries, plan, jobs, queue, process

LEMMA SubagentKept == SubagentTypeOK /\ [SubagentNext]_subagentVars => SubagentTypeOK'
<1> SUFFICES ASSUME SubagentTypeOK, [SubagentNext]_subagentVars PROVE SubagentTypeOK'
  OBVIOUS
<1> USE DEF Unanswered
<1>0. TypeOK /\ wait \in Unanswered \cup {"answered", "failed", "lost"} /\ overdue \in BOOLEAN
  BY DEF SubagentTypeOK
<1>1. TypeOK'
  <2>1. CASE [Next]_vars
    BY <1>0, <2>1, TypeStep
  <2>2. CASE CancelChild
    BY <1>0, <2>2, CancelTypes
  <2> QED
    BY <2>1, <2>2 DEF SubagentNext, ChildStep, DeadlinePasses, CallStep, PollIdle, GiveUp,
       ReadEntries, WaitFails, subagentVars
<1>2. wait' \in Unanswered \cup {"answered", "failed", "lost"}
  BY <1>0 DEF SubagentNext, ChildStep, DeadlinePasses, CallStep, PollIdle, GiveUp,
     ReadEntries, WaitFails, subagentVars
<1>3. overdue' \in BOOLEAN
  BY <1>0 DEF SubagentNext, ChildStep, DeadlinePasses, CallStep, PollIdle, GiveUp,
     ReadEntries, WaitFails, subagentVars
<1> QED
  BY <1>1, <1>2, <1>3 DEF SubagentTypeOK

(* A subagent's call and its child keep their types. *)
THEOREM SubagentTypeCorrect == SubagentSpec => []SubagentTypeOK
<1>1. Init => TypeOK
  BY InitInv DEF IInv
<1>2. SubagentInit => SubagentTypeOK
  BY <1>1 DEF SubagentInit, SubagentTypeOK, Unanswered
<1> QED
  BY <1>2, SubagentKept, PTL DEF SubagentSpec
---------------------------------------------------------------------------
(* The tool host. *)

HostTypes ==
    /\ cached \in HostCall \cup {NoClient}
    /\ client \in [HostCall -> [process : Process, closed : BOOLEAN]]
    /\ call \in [HostCall -> [at : Position, on : HostCall \cup {NoClient}, answer : Outcome]]
    /\ job \in [HostCall -> Command] /\ reply \subseteq HostCall /\ stopped \subseteq HostCall

(* A cancel is written once, by the abort of its call. *)
Unheard == {<<>>, <<"invoke">>}
Heard == {<<>>, <<"invoke">>, <<"invoke", "cancel">>, <<"cancel">>}
PipeInv ==
    /\ DOMAIN wire = HostCall /\ wire = [c \in HostCall |-> wire[c]]
    /\ \A c \in HostCall : wire[c] \in IF c \in stopped THEN Heard ELSE Unheard

(* A pair is one element and the other behind it. *)
LEMMA SameSeq ==
  ASSUME NEW S, NEW s \in Seq(S), NEW t \in Seq(S),
         Len(s) = Len(t), \A i \in 1..Len(s) : s[i] = t[i]
  PROVE  s = t
OBVIOUS

LEMMA AppendLast ==
  ASSUME NEW S, NEW s \in Seq(S), NEW b \in S
  PROVE  Append(s, b)[Len(s) + 1] = b
<1>1. PICK t : t = Append(s, b)
  OBVIOUS
<1>2. t[Len(s) + 1] = b
  BY <1>1
<1> QED
  BY <1>1, <1>2

LEMMA AppendToOne ==
  ASSUME NEW S, NEW s \in Seq(S), Len(s) = 1, NEW b \in S
  PROVE  /\ Append(s, b) \in Seq(S) /\ Len(Append(s, b)) = 2
         /\ Append(s, b)[1] = s[1] /\ Append(s, b)[2] = b
<1>1. Append(s, b) \in Seq(S)
  OBVIOUS
<1>2. Len(Append(s, b)) = 2
  OBVIOUS
<1>3. Append(s, b)[1] = s[1]
  OBVIOUS
<1>4. Append(s, b)[2] = b
  <2>1. Append(s, b)[Len(s) + 1] = b
    BY AppendLast
  <2>2. Len(s) + 1 = 2
    OBVIOUS
  <2> QED
    BY <2>1, <2>2
<1> QED
  BY <1>1, <1>2, <1>3, <1>4

LEMMA AppendPair ==
  ASSUME NEW S, NEW a \in S, NEW b \in S
  PROVE  Append(<<a>>, b) = <<a, b>>
<1> DEFINE s == <<a>>
           t == <<a, b>>
<1>1. s \in Seq(S)
  OBVIOUS
<1>2. Len(s) = 1 /\ s[1] = a
  OBVIOUS
<1>3. t \in Seq(S)
  OBVIOUS
<1>4. Len(t) = 2 /\ t[1] = a /\ t[2] = b
  OBVIOUS
<1> HIDE DEF s, t
<1>5. /\ Append(s, b) \in Seq(S) /\ Len(Append(s, b)) = 2
      /\ Append(s, b)[1] = s[1] /\ Append(s, b)[2] = b
  BY <1>1, <1>2, AppendToOne
<1>6. \A i \in 1..2 : i = 1 \/ i = 2
  OBVIOUS
<1>7. Append(s, b) = t
  BY <1>2, <1>3, <1>4, <1>5, <1>6, SameSeq
<1> QED
  BY <1>7 DEF s, t

LEMMA PipeOps ==
  /\ \A w \in Unheard : Append(w, "cancel") \in Heard
  /\ \A w \in Unheard : w # <<>> => Tail(w) \in Unheard
  /\ \A w \in Heard : w # <<>> => Tail(w) \in Heard
  /\ Unheard \subseteq Heard /\ <<>> \in Unheard /\ <<"invoke">> \in Unheard
<1>1. Append(<<>>, "cancel") = <<"cancel">>
  OBVIOUS
<1>3. Append(<<"invoke">>, "cancel") = <<"invoke", "cancel">>
  <2>1. "invoke" \in {"invoke", "cancel"} /\ "cancel" \in {"invoke", "cancel"}
    OBVIOUS
  <2> QED
    BY <2>1, AppendPair
<1>2. /\ Tail(<<"invoke">>) = <<>> /\ Tail(<<"cancel">>) = <<>>
      /\ Tail(<<"invoke", "cancel">>) = <<"cancel">>
  OBVIOUS
<1> QED
  BY <1>1, <1>2, <1>3 DEF Unheard, Heard

LEMMA AnswerTypes ==
  ASSUME HostTypes, NEW c \in HostCall, NEW what \in Outcome, Answer(c, what)
  PROVE  call' \in [HostCall -> [at : Position, on : HostCall \cup {NoClient}, answer : Outcome]]
BY DEF HostTypes, Answer, Position

LEMMA InvokeTypes ==
  ASSUME HostTypes, NEW c \in HostCall, NEW k \in HostCall, Invoke(c, k)
  PROVE  /\ call' \in [HostCall -> [at : Position, on : HostCall \cup {NoClient}, answer : Outcome]]
         /\ wire' = wire \/ (wire' = [wire EXCEPT ![c] = <<"invoke">>])
<1>1. CASE client[k].closed \/ c \in stopped
  <2>1. PICK what \in Outcome : Answer(c, what)
    BY <1>1 DEF Invoke, Outcome
  <2> QED
    BY <1>1, <2>1, AnswerTypes DEF Invoke
<1>2. CASE ~(client[k].closed \/ c \in stopped)
  <2>1. /\ call' = [call EXCEPT ![c].at = "invoked", ![c].on = k]
        /\ wire' = [wire EXCEPT ![c] = <<"invoke">>]
    BY <1>2 DEF Invoke
  <2>2. call' \in [HostCall -> [at : Position, on : HostCall \cup {NoClient}, answer : Outcome]]
    BY <2>1 DEF HostTypes, Position
  <2> QED
    BY <2>1, <2>2
<1> QED
  BY <1>1, <1>2

LEMMA KilledTypes ==
  ASSUME HostTypes, NEW k \in HostCall
  PROVE  Killed(k) \in [HostCall -> [process : Process, closed : BOOLEAN]]
<1> DEFINE to == IF client[k].process = "reaped" THEN client[k].process ELSE "exited"
<1>1. to \in Process /\ TRUE \in BOOLEAN
  BY DEF HostTypes, Process
<1>2. Killed(k) = [client EXCEPT ![k] = [client[k] EXCEPT !.closed = TRUE, !.process = to]]
  BY DEF HostTypes, Killed
<1> HIDE DEF to
<1>3. [client[k] EXCEPT !.closed = TRUE, !.process = to] \in [process : Process, closed : BOOLEAN]
  BY <1>1 DEF HostTypes
<1> QED
  BY <1>2, <1>3 DEF HostTypes

LEMMA TeardownTypes ==
  ASSUME HostTypes, NEW k \in HostCall, Teardown(k)
  PROVE  call' \in [HostCall -> [at : Position, on : HostCall \cup {NoClient}, answer : Outcome]]
<1>1. ASSUME NEW c \in HostCall, NEW what \in Outcome
      PROVE  [call[c] EXCEPT !.at = "answered", !.answer = what]
                 \in [at : Position, on : HostCall \cup {NoClient}, answer : Outcome]
  BY DEF HostTypes, Position
<1>2. "closed" \in Outcome /\ "unavailable" \in Outcome
  BY DEF Outcome
<1> QED
  BY <1>1, <1>2 DEF Teardown, HostTypes

(* The pipes: nothing, a message that is written or read, or all is lost.   *)
PipeSame == wire' = wire
Writes(c) == wire' = [wire EXCEPT ![c] = <<"invoke">>]
Cancels(c) == c \in stopped' \ stopped /\ wire' = [wire EXCEPT ![c] = Append(@, "cancel")]
Reads(c) == wire[c] # <<>> /\ wire' = [wire EXCEPT ![c] = Tail(@)]
Loses(k) == wire' = Cut(k)

LEMMA PipeKept ==
  ASSUME PipeInv, stopped \subseteq stopped',
         \/ PipeSame
         \/ \E c \in HostCall : Writes(c) \/ Cancels(c) \/ Reads(c) \/ Loses(c)
  PROVE  PipeInv'
<1>1. CASE PipeSame
  BY <1>1, PipeOps DEF PipeSame, PipeInv
<1>2. ASSUME NEW c \in HostCall, Writes(c) PROVE PipeInv'
  BY <1>2, PipeOps DEF Writes, PipeInv
<1>3. ASSUME NEW c \in HostCall, Cancels(c) PROVE PipeInv'
  BY <1>3, PipeOps DEF Cancels, PipeInv
<1>4. ASSUME NEW c \in HostCall, Reads(c) PROVE PipeInv'
  BY <1>4, PipeOps DEF Reads, PipeInv
<1>5. ASSUME NEW k \in HostCall, Loses(k) PROVE PipeInv'
  BY <1>5, PipeOps DEF Loses, Cut, PipeInv
<1> QED
  BY <1>1, <1>2, <1>3, <1>4, <1>5

(* The types but for the pipes, through a step. *)
LEMMA HostTypesKept ==
  ASSUME HostTypes, [ToolHostNext]_toolHostVars
  PROVE  HostTypes'
<1> DEFINE Calls == [HostCall -> [at : Position, on : HostCall \cup {NoClient}, answer : Outcome]]
           Clients == [HostCall -> [process : Process, closed : BOOLEAN]]
<1>0. /\ call \in Calls /\ client \in Clients
      /\ {"resolved", "deploying", "connecting"} \subseteq Position
      /\ {"unavailable", "result"} \subseteq Outcome /\ {"starting", "up", "exited", "reaped"} \subseteq Process
      /\ {"running", "stopping", "held", "ended"} \subseteq Command
  BY DEF HostTypes, Position, Outcome, Process, Command
<1>1. ASSUME NEW c \in HostCall, ResolveSandbox(c) PROVE HostTypes'
  BY <1>0, <1>1 DEF ResolveSandbox, HostTypes
<1>2. ASSUME NEW c \in HostCall, Lookup(c) PROVE HostTypes'
  <2>1. call' \in Calls
    <3>1. CASE cached # NoClient
      BY <1>2, <3>1, InvokeTypes DEF Lookup, HostTypes
    <3>2. CASE cached = NoClient
      BY <1>0, <1>2, <3>2 DEF Lookup
    <3> QED
      BY <3>1, <3>2
  <2> QED
    BY <1>2, <2>1 DEF Lookup, HostTypes
<1>3. ASSUME NEW c \in HostCall, DeployFails(c) PROVE HostTypes'
  <2>1. call' \in Calls
    BY <1>0, <1>3, AnswerTypes DEF DeployFails
  <2> QED
    BY <1>3, <2>1 DEF DeployFails, HostTypes
<1>4. ASSUME NEW c \in HostCall, Start(c) PROVE HostTypes'
  <2>1. call' \in Calls /\ client' \in Clients
    BY <1>0, <1>4 DEF Start
  <2> QED
    BY <1>4, <2>1 DEF Start, HostTypes
<1>5. ASSUME NEW c \in HostCall, Ready(c) PROVE HostTypes'
  <2>1. call' \in Calls
    BY <1>5, InvokeTypes DEF Ready
  <2>2. client' \in Clients
    BY <1>0, <1>5 DEF Ready
  <2> QED
    BY <1>5, <2>1, <2>2 DEF Ready, HostTypes
<1>6. ASSUME NEW c \in HostCall, ReadyTimeout(c) PROVE HostTypes'
  <2>1. call' \in Calls /\ client' \in Clients
    BY <1>0, <1>6, AnswerTypes, KilledTypes DEF ReadyTimeout
  <2> QED
    BY <1>6, <2>1 DEF ReadyTimeout, HostTypes
<1>7. ASSUME NEW k \in HostCall, Exit(k) PROVE HostTypes'
  <2>1. call' \in Calls
    BY <1>7, TeardownTypes DEF Exit
  <2>2. client' = [client EXCEPT ![k] = [client[k] EXCEPT !.process = "reaped", !.closed = TRUE]]
    BY <1>0, <1>7 DEF Exit
  <2>3. [client[k] EXCEPT !.process = "reaped", !.closed = TRUE] \in [process : Process, closed : BOOLEAN]
    BY <1>0
  <2>4. client' \in Clients
    BY <1>0, <2>2, <2>3
  <2> QED
    BY <1>7, <2>1, <2>4 DEF Exit, HostTypes
<1>8. ASSUME NEW c \in HostCall, Abort(c) \/ Take(c) \/ StopCommand(c) \/ CommandEnds(c) \/ ShellDies(c)
      PROVE  HostTypes'
  <2>1. job' \in [HostCall -> Command]
    BY <1>0, <1>8 DEF Abort, Take, StopCommand, CommandEnds, ShellDies, Finish, HostTypes
  <2>2. reply' \subseteq HostCall /\ stopped' \subseteq HostCall
    BY <1>8 DEF Abort, Take, StopCommand, CommandEnds, ShellDies, Finish, HostTypes
  <2>3. cached' = cached /\ client' = client /\ call' = call
    BY <1>8 DEF Abort, Take, StopCommand, CommandEnds, ShellDies, Finish
  <2> QED
    BY <2>1, <2>2, <2>3 DEF HostTypes
<1>9. ASSUME NEW c \in HostCall, Result(c) PROVE HostTypes'
  <2>1. call' \in Calls
    BY <1>0, <1>9, AnswerTypes DEF Result
  <2> QED
    BY <1>9, <2>1 DEF Result, HostTypes
<1>10. CASE Shutdown
  <2>1. client' \in Clients
    BY <1>10, KilledTypes DEF Shutdown, HostTypes
  <2> QED
    BY <1>10, <2>1 DEF Shutdown, HostTypes
<1>11. ASSUME NEW k \in HostCall, HostDies(k) PROVE HostTypes'
  <2>1. client' \in Clients
    BY <1>0, <1>11 DEF HostDies
  <2> QED
    BY <1>11, <2>1 DEF HostDies, HostTypes
<1>12. CASE UNCHANGED toolHostVars
  BY <1>12 DEF toolHostVars, HostTypes
<1> QED
  BY <1>1, <1>2, <1>3, <1>4, <1>5, <1>6, <1>7, <1>8, <1>9, <1>10, <1>11, <1>12
  DEF ToolHostNext, ToolHostWork

(* The pipes through a step. *)
LEMMA PipesKept ==
  ASSUME HostTypes, PipeInv, [ToolHostNext]_toolHostVars
  PROVE  PipeInv'
<1>0. stopped \subseteq stopped'
  BY DEF ToolHostNext, ToolHostWork, toolHostVars, ResolveSandbox, Lookup, DeployFails, Start, Ready,
     ReadyTimeout, Exit, Abort, Result, Shutdown, Take, Finish, CommandEnds, StopCommand,
     ShellDies, HostDies
<1>1. ASSUME NEW c \in HostCall, Lookup(c) \/ Ready(c) PROVE PipeSame \/ Writes(c)
  <2>1. CASE Lookup(c) /\ cached # NoClient
    BY <2>1, InvokeTypes DEF Lookup, HostTypes, PipeSame, Writes
  <2>2. CASE Lookup(c) /\ cached = NoClient
    BY <2>2 DEF Lookup, PipeSame
  <2>3. CASE Ready(c)
    BY <2>3, InvokeTypes DEF Ready, PipeSame, Writes
  <2> QED
    BY <1>1, <2>1, <2>2, <2>3
<1>2. ASSUME NEW c \in HostCall, Abort(c) PROVE PipeSame \/ Cancels(c)
  BY <1>2 DEF Abort, PipeSame, Cancels
<1>3. ASSUME NEW c \in HostCall, Take(c) PROVE Reads(c)
  BY <1>3 DEF Take, Reads
<1>4. CASE Shutdown
  <2>1. cached \in HostCall /\ Loses(cached)
    BY <1>4 DEF Shutdown, Loses, HostTypes
  <2> QED
    BY <1>0, <2>1, PipeKept
<1>5. ASSUME NEW k \in HostCall, HostDies(k) PROVE Loses(k)
  BY <1>5 DEF HostDies, Loses
<1>6. ASSUME NEW c \in HostCall,
             \/ ResolveSandbox(c) \/ DeployFails(c) \/ Start(c) \/ ReadyTimeout(c) \/ Exit(c) \/ Result(c)
             \/ CommandEnds(c) \/ StopCommand(c) \/ ShellDies(c)
      PROVE  PipeSame
  BY <1>6 DEF ResolveSandbox, DeployFails, Start, ReadyTimeout, Exit, Result, CommandEnds, StopCommand,
     ShellDies, Finish, PipeSame
<1>7. ASSUME UNCHANGED toolHostVars PROVE PipeSame
  BY <1>7 DEF toolHostVars, PipeSame
<1>8. \/ PipeInv'
      \/ PipeSame
      \/ \E c \in HostCall : Writes(c) \/ Cancels(c) \/ Reads(c) \/ Loses(c)
  BY <1>1, <1>2, <1>3, <1>4, <1>5, <1>6, <1>7 DEF ToolHostNext, ToolHostWork
<1> QED
  BY <1>0, <1>8, PipeKept

LEMMA HostInit == ToolHostInit => HostTypes /\ PipeInv
<1> SUFFICES ASSUME ToolHostInit PROVE HostTypes /\ PipeInv
  OBVIOUS
<1>1. HostTypes
  BY DEF ToolHostInit, HostTypes, Process, Position, Outcome, Command
<1>2. PipeInv
  BY PipeOps DEF ToolHostInit, PipeInv
<1> QED
  BY <1>1, <1>2

LEMMA HostTyped == ToolHostSpec => [](HostTypes /\ PipeInv)
BY HostInit, HostTypesKept, PipesKept, PTL DEF ToolHostSpec

(* Every variable of a tool host has its type: what is written to a host    *)
(* about a call is one invoke and at most one cancel behind it.             *)
THEOREM ToolHostTypeCorrect == ToolHostSpec => []ToolHostTypeOK
<1>1. HostTypes /\ PipeInv => ToolHostTypeOK
  <2> SUFFICES ASSUME HostTypes, PipeInv PROVE ToolHostTypeOK
    OBVIOUS
  <2>1. \A c \in HostCall : wire[c] \in Heard
    BY PipeOps DEF PipeInv
  <2>2. wire \in [HostCall -> Heard]
    BY <2>1 DEF PipeInv
  <2> QED
    BY <2>2 DEF HostTypes, Heard, ToolHostTypeOK
<1> QED
  BY <1>1, HostTyped, PTL
---------------------------------------------------------------------------
(* Whom a call waits for. *)

(* A process that is reaped has been closed: invoke looks at that.          *)
ReapedClosed == \A k \in HostCall : client[k].process = "reaped" => client[k].closed
WaitInv ==
    /\ ReapedClosed /\ NoneWaitForTheDead
    /\ \A c \in HostCall : call[c].at = "invoked" => call[c].on \in HostCall

(* No process is reaped, and the calls wait as before but for one, which    *)
(* is answered or goes on to a client that is not.                          *)
NoneReaped ==
    /\ \A k \in HostCall : client'[k].process = "reaped" => client[k].process = "reaped"
    /\ \A k \in HostCall : client[k].closed => client'[k].closed
Waits(c) ==
    /\ call'[c].at = "invoked" =>
         call'[c].on \in HostCall /\ client'[call'[c].on].process # "reaped"
    /\ call'[c].at = "connecting" => client'[c].process # "reaped"
OneWaits == \E c \in HostCall : Waits(c) /\ \A d \in HostCall : d # c => call'[d] = call[d]

LEMMA WaitKept ==
  ASSUME WaitInv, NoneReaped, call' = call \/ OneWaits
  PROVE  WaitInv'
<1>1. ReapedClosed'
  BY DEF WaitInv, ReapedClosed, NoneReaped
<1>2. ASSUME NEW c \in HostCall, call'[c] = call[c] PROVE Waits(c)
  BY <1>2 DEF WaitInv, NoneWaitForTheDead, NoneReaped, Waits
<1>3. \A c \in HostCall : Waits(c)
  BY <1>2 DEF OneWaits
<1> QED
  BY <1>1, <1>3 DEF WaitInv, NoneWaitForTheDead, Waits

LEMMA AnswerWaits ==
  ASSUME HostTypes, NEW c \in HostCall, NEW what, Answer(c, what)
  PROVE  OneWaits
<1>1. call'[c].at = "answered" /\ \A d \in HostCall : d # c => call'[d] = call[d]
  BY DEF HostTypes, Answer
<1> QED
  BY <1>1 DEF OneWaits, Waits

LEMMA InvokeWaits ==
  ASSUME HostTypes, WaitInv, NoneReaped, NEW c \in HostCall, NEW k \in HostCall, Invoke(c, k)
  PROVE  OneWaits
<1>1. CASE client[k].closed \/ c \in stopped
  <2>1. PICK what : Answer(c, what)
    BY <1>1 DEF Invoke
  <2> QED
    BY <2>1, AnswerWaits
<1>2. CASE ~(client[k].closed \/ c \in stopped)
  <2>1. call' = [call EXCEPT ![c].at = "invoked", ![c].on = k]
    BY <1>2 DEF Invoke
  <2>2. /\ call'[c].at = "invoked" /\ call'[c].on = k
        /\ \A d \in HostCall : d # c => call'[d] = call[d]
    BY <2>1 DEF HostTypes
  <2>3. client'[k].process # "reaped"
    BY <1>2 DEF WaitInv, ReapedClosed, NoneReaped
  <2> QED
    BY <2>2, <2>3 DEF OneWaits, Waits
<1> QED
  BY <1>1, <1>2

LEMMA KilledNone ==
  ASSUME HostTypes, NEW k \in HostCall, client' = Killed(k)
  PROVE  NoneReaped
<1>1. \A d \in HostCall \ {k} : client'[d] = client[d]
  BY DEF HostTypes, Killed
<1>2. client'[k].closed /\ (client'[k].process = "reaped" => client[k].process = "reaped")
  BY DEF HostTypes, Killed
<1> QED
  BY <1>1, <1>2 DEF NoneReaped

LEMMA WaitsKept ==
  ASSUME HostTypes, WaitInv, [ToolHostNext]_toolHostVars
  PROVE  WaitInv'
<1>0. ASSUME client' = client PROVE NoneReaped
  BY <1>0 DEF NoneReaped
<1>1. ASSUME NEW c \in HostCall, ResolveSandbox(c) PROVE WaitInv'
  <2>1. /\ call'[c].at = "resolved" /\ client' = client
        /\ \A d \in HostCall : d # c => call'[d] = call[d]
    BY <1>1 DEF ResolveSandbox, HostTypes
  <2> QED
    BY <1>0, <2>1, WaitKept DEF OneWaits, Waits
<1>2. ASSUME NEW c \in HostCall, Lookup(c) PROVE WaitInv'
  <2>1. client' = client
    BY <1>2 DEF Lookup
  <2>2. CASE cached # NoClient
    BY <1>0, <1>2, <2>1, <2>2, InvokeWaits, WaitKept DEF Lookup, HostTypes
  <2>3. CASE cached = NoClient
    <3>1. call'[c].at = "deploying" /\ \A d \in HostCall : d # c => call'[d] = call[d]
      BY <1>2, <2>3 DEF Lookup, HostTypes
    <3> QED
      BY <1>0, <2>1, <3>1, WaitKept DEF OneWaits, Waits
  <2> QED
    BY <2>2, <2>3
<1>3. ASSUME NEW c \in HostCall, DeployFails(c) PROVE WaitInv'
  BY <1>0, <1>3, AnswerWaits, WaitKept DEF DeployFails
<1>4. ASSUME NEW c \in HostCall, Start(c) PROVE WaitInv'
  <2>1. /\ call'[c].at = "connecting" /\ client'[c].process = "starting"
        /\ client'[c].closed = client[c].closed
        /\ \A d \in HostCall : d # c => call'[d] = call[d] /\ client'[d] = client[d]
    BY <1>4 DEF Start, HostTypes
  <2>2. NoneReaped
    BY <2>1 DEF NoneReaped
  <2> QED
    BY <2>1, <2>2, WaitKept DEF OneWaits, Waits
<1>5. ASSUME NEW c \in HostCall, Ready(c) PROVE WaitInv'
  <2>1. /\ client'[c].process = "up" /\ client'[c].closed = client[c].closed
        /\ \A d \in HostCall : d # c => client'[d] = client[d]
    BY <1>5 DEF Ready, HostTypes
  <2>2. NoneReaped
    BY <2>1 DEF NoneReaped
  <2> QED
    BY <1>5, <2>2, InvokeWaits, WaitKept DEF Ready
<1>6. ASSUME NEW c \in HostCall, ReadyTimeout(c) PROVE WaitInv'
  BY <1>6, KilledNone, AnswerWaits, WaitKept DEF ReadyTimeout
<1>7. ASSUME NEW k \in HostCall, Exit(k) PROVE WaitInv'
  <2>1. /\ client'[k].process = "reaped" /\ client'[k].closed
        /\ \A d \in HostCall : d # k => client'[d] = client[d]
    BY <1>7 DEF Exit, HostTypes
  <2>2. ReapedClosed'
    BY <2>1 DEF WaitInv, ReapedClosed
  <2>3. ASSUME NEW c \in HostCall
        PROVE  \/ call'[c].at = "answered"
               \/ call'[c] = call[c] /\ c \notin Pending(k) /\ c \notin Waiting(k)
    BY <1>7 DEF Exit, Teardown, HostTypes
  <2>4. ASSUME NEW c \in HostCall PROVE Waits(c)
    <3>1. CASE call'[c].at = "answered"
      BY <3>1 DEF Waits
    <3>2. CASE call'[c] = call[c] /\ c \notin Pending(k) /\ c \notin Waiting(k)
      <4>1. call[c].at = "invoked" => call[c].on # k
        BY <3>2 DEF Pending
      <4>2. call[c].at = "connecting" => c # k
        BY <3>2 DEF Waiting
      <4> QED
        BY <2>1, <3>2, <4>1, <4>2 DEF WaitInv, NoneWaitForTheDead, Waits
    <3> QED
      BY <2>3, <3>1, <3>2
  <2> QED
    BY <2>2, <2>4 DEF WaitInv, NoneWaitForTheDead, Waits
<1>8. ASSUME NEW c \in HostCall, Abort(c) \/ Take(c) \/ StopCommand(c) \/ CommandEnds(c) \/ ShellDies(c)
      PROVE  WaitInv'
  <2>1. client' = client /\ call' = call
    BY <1>8 DEF Abort, Take, StopCommand, CommandEnds, ShellDies, Finish
  <2> QED
    BY <1>0, <2>1, WaitKept
<1>9. ASSUME NEW c \in HostCall, Result(c) PROVE WaitInv'
  BY <1>0, <1>9, AnswerWaits, WaitKept DEF Result
<1>10. CASE Shutdown
  <2>1. cached \in HostCall /\ client' = Killed(cached) /\ call' = call
    BY <1>10 DEF Shutdown, HostTypes
  <2> QED
    BY <2>1, KilledNone, WaitKept
<1>11. ASSUME NEW k \in HostCall, HostDies(k) PROVE WaitInv'
  <2>1. /\ client'[k].process = "exited" /\ client'[k].closed = client[k].closed /\ call' = call
        /\ \A d \in HostCall : d # k => client'[d] = client[d]
    BY <1>11 DEF HostDies, HostTypes
  <2>2. NoneReaped
    BY <2>1 DEF NoneReaped
  <2> QED
    BY <2>1, <2>2, WaitKept
<1>12. CASE UNCHANGED toolHostVars
  BY <1>0, <1>12, WaitKept DEF toolHostVars
<1> QED
  BY <1>1, <1>2, <1>3, <1>4, <1>5, <1>6, <1>7, <1>8, <1>9, <1>10, <1>11, <1>12
  DEF ToolHostNext, ToolHostWork

(* teardown and the look at `closed`: no call waits for a client whose      *)
(* process is gone, at whatever moment of its end the call came.            *)
THEOREM NoneWaitProved == ToolHostSpec => []NoneWaitForTheDead
<1>1. ToolHostInit => WaitInv
  BY DEF ToolHostInit, WaitInv, ReapedClosed, NoneWaitForTheDead
<1>2. WaitInv => NoneWaitForTheDead
  BY DEF WaitInv
<1>3. (HostTypes /\ PipeInv) /\ WaitInv /\ [ToolHostNext]_toolHostVars => WaitInv'
  BY WaitsKept
<1> QED
  BY <1>1, <1>2, <1>3, HostTyped, PTL DEF ToolHostSpec
---------------------------------------------------------------------------
(* Side by side. *)

LEMMA TurnStarts ==
  TurnInit => ThoughtsInit /\ SubagentInit /\ ToolHostInit /\ SerialInit
BY DEF TurnInit

LEMMA TurnSteps ==
  ASSUME [TurnNext]_turnVars
  PROVE  /\ [ThoughtsNext]_thoughtVars /\ [SubagentNext]_subagentVars
         /\ [ToolHostNext]_toolHostVars /\ [SerialNext]_serialVars
<1>1. CASE UNCHANGED turnVars
  <2>1. UNCHANGED <<thoughtVars, subagentVars, toolHostVars, serialVars>>
    BY <1>1 DEF turnVars
  <2> QED
    BY <2>1
<1>2. CASE TurnNext
  BY <1>2 DEF TurnNext, Alone
<1> QED
  BY <1>1, <1>2

(* The run that puts the parts side by side adds nothing to any of them:    *)
(* each behaves as its own specification says.                              *)
THEOREM TurnImplementsParts ==
  TurnSpec => ThoughtsSpec /\ SubagentSpec /\ ToolHostSpec /\ SerialSpec
BY TurnStarts, TurnSteps, PTL DEF TurnSpec, ThoughtsSpec, SubagentSpec, ToolHostSpec, SerialSpec

(* Every variable of a turn's parts has its type. *)
THEOREM TurnTypeCorrect == TurnSpec => []TurnTypeOK
BY TurnImplementsParts, ThoughtsTypeCorrect, SubagentTypeCorrect, ToolHostTypeCorrect,
   SerialTypeCorrect, PTL DEF TurnTypeOK
=============================================================================
