------------------------ MODULE ConversationRuns ------------------------
(* The runs of one conversation: who may run, who is told to stop, and when *)
(* a queued message is released.                                            *)
(*                                                                          *)
(* A run is a lifecycle scope.  Posted messages pass a gate and then abort  *)
(* and await the registered run; reprocess and summarize requests do so     *)
(* without the gate; approve, deny and retry join the registered run.  The  *)
(* scope that finishes frees the slot and drains one queued message.        *)
(*                                                                          *)
(* An action is the code between two awaits of I/O.  Awaiting a gate or a   *)
(* finished scope is resumed by a promise reaction, which runs before any   *)
(* I/O callback: Resume steps have priority.  What a run works on is not    *)
(* modelled beyond what keeps its scope open (its planner and tools as one  *)
(* "main" task, title and other side thoughts as one "side" task) and the   *)
(* fan-in check, which no scope accounts for (module ToolFanIn).            *)
EXTENDS Naturals, FiniteSets, Sequences, SequencesExt

CONSTANTS
    Msg,      \* messages of the user, each posted once
    Redo,     \* reprocess, summarize and recategorize requests
    Join,     \* approve / deny / retry requests
    Way,      \* how messages are posted, a subset of {"plain", "enqueue", "steer"}
    Env,      \* a subset of EnvEvent
    MaxRound, \* bound on the planner continuations of one run
    MaxCrash  \* bound on the number of process crashes

EnvEvent == {"side", "root failure", "dequeue", "cancel"}
None  == "none"
Run   == Msg \cup Redo \cup Join
Drain == Run \cup {"boot"}     \* a drain is named after the run that finished

ASSUME RunsAssumption ==
    /\ Msg \cap Redo = {} /\ Msg \cap Join = {} /\ Redo \cap Join = {}
    /\ Run \cap {None, "boot"} = {}
    /\ Way \subseteq {"plain", "enqueue", "steer"}
    /\ Env \subseteq EnvEvent
    /\ MaxRound \in Nat /\ MaxCrash \in Nat

VARIABLES
    pc,        \* request -> where its handler stands
    waits,     \* request -> the run or the post it awaits
    how,       \* message -> how it was posted
    gate,      \* messagePostLocks: the post that holds the gate
    slot,      \* activeExecutions: the registered run
    scope,     \* run -> its lifecycle scope
    task,      \* run -> tasks its scope still awaits
    fanin,     \* run -> its fan-in check, or a continuation on its finished scope
    round,     \* run -> continuations so far
    aborted,   \* runs whose signal is aborted
    queue,     \* the pending_messages rows, oldest first
    accepted,  \* history: messages ever queued, in order
    dropped,   \* queued messages the user removed
    drain,     \* drain -> where it stands
    picked,    \* drain -> the row it found
    posted,    \* messages appended to the conversation
    up, crashes

handlers == <<pc, waits, how, gate>>
scopes   == <<slot, scope, task, fanin, round, aborted>>
pending  == <<queue, accepted, dropped>>
drains   == <<drain, picked>>
process  == <<up, crashes>>
vars == <<handlers, scopes, pending, drains, posted, process>>

Handling == {"insert", "gate", "steering", "replacing", "root", "appended"}

TypeOK ==
    /\ pc \in [Run -> Handling \cup {"idle", "queued", "done", "dead"}]
    /\ waits \in [Run -> Run \cup {None}]
    /\ how \in [Msg -> {None, "plain", "enqueue", "steer", "drained"}]
    /\ gate \in Msg \cup {None}
    /\ slot \in Run \cup {None}
    /\ scope \in [Run -> {None, "root", "open", "finished"}]
    /\ task \in [Run -> SUBSET {"main", "side"}]
    /\ fanin \in [Run -> {None, "check", "detached"}]
    /\ round \in [Run -> 0..MaxRound]
    /\ aborted \subseteq Run
    /\ queue \in Seq(Msg) /\ accepted \in Seq(Msg) /\ dropped \subseteq Msg
    /\ drain \in [Drain -> {None, "find", "delete", "deliver"}]
    /\ picked \in [Drain -> Msg \cup {None}]
    /\ posted \subseteq Msg
    /\ up \in BOOLEAN /\ crashes \in 0..MaxCrash

Init ==
    /\ pc = [r \in Run |-> "idle"] /\ waits = [r \in Run |-> None]
    /\ how = [m \in Msg |-> None] /\ gate = None /\ slot = None
    /\ scope = [r \in Run |-> None] /\ task = [r \in Run |-> {}]
    /\ fanin = [r \in Run |-> None] /\ round = [r \in Run |-> 0]
    /\ aborted = {} /\ queue = <<>> /\ accepted = <<>> /\ dropped = {}
    /\ drain = [d \in Drain |-> None] /\ picked = [d \in Drain |-> None]
    /\ posted = {} /\ up = TRUE /\ crashes = 0
---------------------------------------------------------------------------
(* beginRun. *)

Install(r) ==
    /\ scope' = [scope EXCEPT ![r] = "root"] /\ slot' = r
    /\ pc' = [pc EXCEPT ![r] = "root"] /\ waits' = [waits EXCEPT ![r] = None]
    /\ UNCHANGED aborted

(* A new run replaces the registered one: abort it, await its end, and then *)
(* take the slot, whoever has taken it in between.                          *)
Begin(r) ==
    IF slot = None THEN Install(r)
    ELSE /\ aborted' = aborted \cup {slot}
         /\ pc' = [pc EXCEPT ![r] = "replacing"]
         /\ waits' = [waits EXCEPT ![r] = slot]
         /\ UNCHANGED <<scope, slot>>

(* withMessagePostLock, once nothing is awaited: set the gate, begin. *)
Enter(m) == gate' = m /\ Begin(m)

Gone(r) == pc[r] \in {"done", "dead"}

ReplaceResumes(r) == pc[r] = "replacing" /\ scope[waits[r]] = "finished"
GateResumes(m)    == pc[m] = "gate" /\ Gone(waits[m])

(* A steering post is one promise further from the scope than beginRun is. *)
SteerResumes(m) ==
    /\ pc[m] = "steering" /\ scope[waits[m]] = "finished"
    /\ \A r \in Run : ~ReplaceResumes(r)

Urgent == \E r \in Run : ReplaceResumes(r) \/ GateResumes(r) \/ SteerResumes(r)

Resume(r) ==
    /\ up
    /\ \/ ReplaceResumes(r) /\ Install(r) /\ UNCHANGED gate
       \/ (GateResumes(r) \/ SteerResumes(r)) /\ Enter(r)
    /\ UNCHANGED <<how, task, fanin, round, pending, drains, posted, process>>

(* Between promise reactions: a live process handles an I/O event. *)
Idle == up /\ ~Urgent

Awaiting(m) == gate # None /\ pc' = [pc EXCEPT ![m] = "gate"] /\ waits' = [waits EXCEPT ![m] = gate]
                           /\ UNCHANGED <<gate, scope, slot, aborted>>
Passing(m)  == gate = None /\ Enter(m)

(* Mutant: nothing needs to be registered. *)
AbortUnchecked(m) ==
    /\ aborted' = aborted \cup {slot}
    /\ pc' = [pc EXCEPT ![m] = "steering"] /\ waits' = [waits EXCEPT ![m] = slot]
    /\ UNCHANGED <<gate, scope, slot>>

AbortActiveAndWait(m) ==
    /\ slot # None
    /\ aborted' = aborted \cup {slot}
    /\ pc' = [pc EXCEPT ![m] = "steering"] /\ waits' = [waits EXCEPT ![m] = slot]
    /\ UNCHANGED <<gate, scope, slot>>

(* processMessage with the steer and enqueue flags of the request. *)
Post(m, w) ==
    /\ Idle /\ pc[m] = "idle"
    /\ how' = [how EXCEPT ![m] = w]
    /\ \/ /\ w = "enqueue" /\ slot # None
          /\ pc' = [pc EXCEPT ![m] = "insert"]
          /\ UNCHANGED <<waits, gate, scope, slot, aborted>>
       \/ /\ w = "plain" \/ (w = "enqueue" /\ slot = None)
          /\ Awaiting(m) \/ Passing(m)
       \/ w = "steer" /\ slot = None /\ Enter(m)
       \/ w = "steer" /\ AbortActiveAndWait(m)
    /\ UNCHANGED <<task, fanin, round, pending, drains, posted, process>>

Request(q) ==
    /\ Idle /\ pc[q] = "idle" /\ Begin(q)
    /\ UNCHANGED <<how, gate, task, fanin, round, pending, drains, posted, process>>

JoinRun(j) ==
    /\ Idle /\ pc[j] = "idle"
    /\ scope' = [scope EXCEPT ![j] = "root"]
    /\ slot' = IF slot = None THEN j ELSE slot
    /\ pc' = [pc EXCEPT ![j] = "root"]
    /\ UNCHANGED <<waits, how, gate, task, fanin, round, aborted, pending, drains, posted, process>>
---------------------------------------------------------------------------
(* Mutants: the finished run keeps the slot, or clears it for whoever has it. *)
SlotKept(r)    == slot
SlotCleared(r) == None

FreedSlot(r) == IF slot = r THEN None ELSE slot

(* The lifecycle scope: with its root done and its tasks settled it has     *)
(* finished, once: the slot is freed if it is still this run's, and a drain *)
(* starts unless another run is registered.                                 *)
Settle(r, root, tasks) ==
    /\ task' = [task EXCEPT ![r] = tasks]
    /\ IF root # "root" /\ tasks = {} /\ scope[r] # "finished"
         THEN /\ scope' = [scope EXCEPT ![r] = "finished"]
              /\ slot' = FreedSlot(r)
              /\ drain' = IF slot' = None THEN [drain EXCEPT ![r] = "find"] ELSE drain
         ELSE /\ scope' = [scope EXCEPT ![r] = root]
              /\ UNCHANGED <<slot, drain>>

AppendMessage(m) ==
    /\ Idle /\ m \in Msg /\ pc[m] = "root"
    /\ posted' = posted \cup {m}
    /\ pc' = [pc EXCEPT ![m] = "appended"]
    /\ UNCHANGED <<waits, how, gate, scopes, pending, drains, process>>

RootDone(r, tasks) ==
    /\ Settle(r, "open", tasks)
    /\ pc' = [pc EXCEPT ![r] = "done"]
    /\ gate' = IF gate = r THEN None ELSE gate
    /\ UNCHANGED <<waits, how, round, aborted, pending, picked, posted, process>>

(* An aborted scope refuses its first thought. *)
StartThoughts(r) ==
    /\ Idle
    /\ pc[r] = "appended" \/ (r \in Redo /\ pc[r] = "root")
    /\ \E side \in SUBSET (Env \cap {"side"}) :
          RootDone(r, IF r \in aborted THEN {} ELSE {"main"} \cup side)
    /\ UNCHANGED fanin

(* Mutant: the failing root skips the finally block. *)
RootFailsOpen(r) ==
    /\ Idle /\ pc[r] = "root" /\ r \notin Join /\ "root failure" \in Env
    /\ pc' = [pc EXCEPT ![r] = "done"]
    /\ gate' = IF gate = r THEN None ELSE gate
    /\ UNCHANGED <<waits, how, scopes, pending, drains, posted, process>>

(* The root throws before it starts anything: a missing attachment, a      *)
(* message without its parent.                                             *)
RootFails(r) ==
    /\ Idle /\ pc[r] = "root" /\ r \notin Join /\ "root failure" \in Env
    /\ RootDone(r, {}) /\ UNCHANGED fanin

(* approve and retry spawn the tool; deny resolves the member; any of them *)
(* may be refused.                                                         *)
JoinRoot(j) ==
    /\ Idle /\ j \in Join /\ pc[j] = "root"
    /\ \/ RootDone(j, {"main"}) /\ UNCHANGED fanin
       \/ RootDone(j, {}) /\ fanin' = [fanin EXCEPT ![j] = "check"]
       \/ RootDone(j, {}) /\ UNCHANGED fanin

(* The planner and its tools settle.  The last tool of a batch leaves a    *)
(* fan-in check behind, which the scope does not await.                    *)
MainEnds(r) ==
    /\ Idle /\ "main" \in task[r]
    /\ Settle(r, scope[r], task[r] \ {"main"})
    /\ \/ UNCHANGED fanin
       \/ r \notin aborted /\ round[r] < MaxRound /\ fanin' = [fanin EXCEPT ![r] = "check"]
    /\ UNCHANGED <<handlers, round, aborted, pending, picked, posted, process>>

SideEnds(r) ==
    /\ Idle /\ "side" \in task[r]
    /\ Settle(r, scope[r], task[r] \ {"side"})
    /\ UNCHANGED <<handlers, fanin, round, aborted, pending, picked, posted, process>>

(* maybeContinuePlanner: nothing to continue (yet), or the planner is       *)
(* spawned on the run's scope, finished or not.                             *)
FanIn(r) ==
    /\ Idle /\ fanin[r] = "check"
    /\ \/ fanin' = [fanin EXCEPT ![r] = None] /\ UNCHANGED <<task, round>>
       \/ /\ r \notin aborted /\ round[r] < MaxRound
          /\ round' = [round EXCEPT ![r] = @ + 1]
          /\ IF scope[r] = "finished"
               THEN fanin' = [fanin EXCEPT ![r] = "detached"] /\ UNCHANGED task
               ELSE /\ fanin' = [fanin EXCEPT ![r] = None]
                    /\ task' = [task EXCEPT ![r] = @ \cup {"main"}]
    /\ UNCHANGED <<handlers, slot, scope, aborted, pending, drains, posted, process>>

DetachedEnds(r) ==
    /\ Idle /\ fanin[r] = "detached"
    /\ \/ fanin' = [fanin EXCEPT ![r] = None]
       \/ r \notin aborted /\ round[r] < MaxRound /\ fanin' = [fanin EXCEPT ![r] = "check"]
    /\ UNCHANGED <<handlers, slot, scope, task, round, aborted, pending, drains, posted, process>>

Cancel ==
    /\ Idle /\ "cancel" \in Env /\ slot # None
    /\ aborted' = aborted \cup {slot}
    /\ UNCHANGED <<handlers, slot, scope, task, fanin, round, pending, drains, posted, process>>
---------------------------------------------------------------------------
(* The queue. *)

(* The row is inserted some time after isProcessing said yes. *)
InsertQueued(m) ==
    /\ Idle /\ pc[m] = "insert"
    /\ pc' = [pc EXCEPT ![m] = "queued"]
    /\ queue' = Append(queue, m) /\ accepted' = Append(accepted, m)
    /\ UNCHANGED <<waits, how, gate, scopes, dropped, drains, posted, process>>

DrainFind(d) ==
    /\ Idle /\ drain[d] = "find"
    /\ IF queue = <<>>
         THEN drain' = [drain EXCEPT ![d] = None] /\ UNCHANGED picked
         ELSE /\ drain' = [drain EXCEPT ![d] = "delete"]
              /\ picked' = [picked EXCEPT ![d] = Head(queue)]
    /\ UNCHANGED <<handlers, scopes, pending, posted, process>>

(* Mutants: a row taken takes the others with it, and a row already gone *)
(* is delivered all the same.                                            *)
WithoutAny(s, m) == <<>>
DrainDeleteMany(d) ==
    /\ Idle /\ drain[d] = "delete"
    /\ queue' = SelectSeq(queue, LAMBDA x : x # picked[d])
    /\ drain' = [drain EXCEPT ![d] = "deliver"]
    /\ UNCHANGED <<handlers, scopes, accepted, dropped, picked, posted, process>>

Without(s, m) == RemoveAt(s, CHOOSE n \in DOMAIN s : s[n] = m)

DrainDelete(d) ==
    /\ Idle /\ drain[d] = "delete" /\ picked[d] \in ToSet(queue)
    /\ queue' = Without(queue, picked[d])
    /\ drain' = [drain EXCEPT ![d] = "deliver"]
    /\ UNCHANGED <<handlers, scopes, accepted, dropped, picked, posted, process>>

(* The drained message is posted like any other, neither enqueued nor      *)
(* steering, anchored at the leaf the drain has just read.                 *)
Deliver(d) ==
    /\ Idle /\ drain[d] = "deliver"
    /\ drain' = [drain EXCEPT ![d] = None] /\ picked' = [picked EXCEPT ![d] = None]
    /\ how' = [how EXCEPT ![picked[d]] = "drained"]
    /\ Awaiting(picked[d]) \/ Passing(picked[d])
    /\ UNCHANGED <<task, fanin, round, pending, posted, process>>

(* cancelPendingMessage. *)
Dequeue(m) ==
    /\ Idle /\ "dequeue" \in Env /\ m \in ToSet(queue)
    /\ queue' = Without(queue, m) /\ dropped' = dropped \cup {m}
    /\ UNCHANGED <<handlers, scopes, accepted, drains, posted, process>>
---------------------------------------------------------------------------
(* All but the rows and the conversation is lost. *)
Dies ==
    /\ up' = FALSE
    /\ pc' = [r \in Run |-> IF pc[r] \in Handling THEN "dead" ELSE pc[r]]
    /\ scope' = [r \in Run |-> IF scope[r] = None THEN None ELSE "finished"]
    /\ task' = [r \in Run |-> {}] /\ fanin' = [r \in Run |-> None]
    /\ gate' = None /\ slot' = None /\ waits' = [r \in Run |-> None]
    /\ drain' = [d \in Drain |-> None] /\ picked' = [d \in Drain |-> None]
    /\ UNCHANGED <<how, round, aborted, pending, posted>>

Crash == up /\ crashes < MaxCrash /\ crashes' = crashes + 1 /\ Dies

(* Another drain, or the user, has removed the row since it was found: the *)
(* delete throws, nobody handles the rejection, and Node ends the process. *)
DrainDies(d) ==
    /\ Idle /\ drain[d] = "delete" /\ picked[d] \notin ToSet(queue)
    /\ Dies /\ UNCHANGED crashes

Boot ==
    /\ ~up /\ up' = TRUE
    /\ drain' = IF queue = <<>> THEN drain ELSE [drain EXCEPT !["boot"] = "find"]
    /\ UNCHANGED <<handlers, scopes, pending, picked, posted, crashes>>
---------------------------------------------------------------------------
Root(r)  == AppendMessage(r) \/ StartThoughts(r) \/ RootFails(r) \/ JoinRoot(r)
Task(r)  == MainEnds(r) \/ SideEnds(r)
Later(r) == FanIn(r) \/ DetachedEnds(r)
Step(d)  == DrainFind(d) \/ DrainDelete(d) \/ DrainDies(d) \/ Deliver(d)

Next ==
    \/ \E m \in Msg : (\E w \in Way : Post(m, w)) \/ InsertQueued(m) \/ Dequeue(m)
    \/ \E q \in Redo : Request(q)
    \/ \E j \in Join : JoinRun(j)
    \/ \E r \in Run : Resume(r) \/ Root(r) \/ Task(r) \/ Later(r)
    \/ \E d \in Drain : Step(d)
    \/ Cancel \/ Crash \/ Boot

Spec == Init /\ [][Next]_vars

(* What goes on without anybody asking for it. *)
Work ==
    \/ Boot
    \/ \E r \in Run : Resume(r) \/ Root(r) \/ Task(r) \/ Later(r)
    \/ \E m \in Msg : InsertQueued(m)
    \/ \E d \in Drain : Step(d)

(* Handlers and drains are promises whose I/O completes, every LLM and tool *)
(* call settles, a planner continues finitely often, a dead process is      *)
(* restarted.  Nothing makes a request arrive or a crash happen.            *)
FairSpec == Spec /\ WF_vars(Work)
---------------------------------------------------------------------------
(* Properties. *)

(* isProcessing, cancel and steer act on the registered run: it has not     *)
(* finished, whatever runs were installed over one another.                 *)
SlotHoldsLiveRun == slot # None => scope[slot] \in {"root", "open"}

(* shiftOldest: concurrent drains never deliver one row twice, nor a row    *)
(* that is still queued, removed by the user, or already posted.            *)
DeliveredOnce ==
    \A d \in Drain : drain[d] = "deliver" =>
        /\ pc[picked[d]] = "queued"
        /\ picked[d] \notin posted \cup dropped \cup ToSet(queue)
        /\ \A e \in Drain \ {d} : drain[e] = "deliver" => picked[e] # picked[d]

(* Where the text of a message accepted into the queue can be. *)
Kept(m) ==
    \/ m \in ToSet(queue) \cup posted \cup dropped
    \/ pc[m] \in Handling
    \/ \E d \in Drain : drain[d] = "deliver" /\ picked[d] = m

(* The message's own root has thrown. *)
Rejected(m) == pc[m] = "root" /\ pc'[m] = "done"

(* enqueue, drain and processMessage: as long as the process lives, a       *)
(* queued message always has the table, a drain, a handler or the           *)
(* conversation to hold it, up to the handler that refuses it.              *)
QueuedTextHandedOn ==
    [][up' => \A m \in ToSet(accepted') :
          Kept(m) \/ m \notin ToSet(accepted) => Kept(m)' \/ Rejected(m)]_vars

(* beginRun, joining: neither the start nor the end of an approval takes    *)
(* the registered run's slot or tells it to stop.                           *)
JoinKeepsOwner ==
    [][\A j \in Join : (scope'[j] # scope[j] /\ slot \notin {None, j} /\ up')
           => (slot' = slot /\ aborted' = aborted)]_vars

(* A post returns: gates, steering and replacing runs never wait for one    *)
(* another in a circle.                                                     *)
PostsReturn == \A r \in Run : pc[r] \in Handling ~> pc[r] \notin Handling

(* While a run is registered the head of the queue will be taken: the end   *)
(* of that run, or of one that replaced it, drains it.                      *)
RegisteredRunDrains ==
    \A m \in Msg :
        (queue # <<>> /\ Head(queue) = m /\ slot # None) ~> (m \notin ToSet(queue) \/ ~up)

(* Disagreements with what the code's comments and documents say.           *)

(* A queued message waits for the run in flight: it never aborts one.       *)
QueuedNeverInterrupts ==
    [][\A m \in Msg : how'[m] = "drained" /\ pc[m] # "replacing" /\ pc'[m] = "replacing"
           => aborted' = aborted]_vars

(* The end of the process does not lose a message that was queued.          *)
QueuedTextSurvives == \A m \in ToSet(accepted) : Kept(m)
=============================================================================
