--------------------------- MODULE ToolFanIn ---------------------------
(* The tool fan-out and fan-in of one planner decision.                    *)
(*                                                                         *)
(* The planner pre-creates the N tool invocations of a decision as a chain *)
(* of entries, dispatches each one on its own, and continues exactly where *)
(* the chain ends once every member has settled.  Members settle through   *)
(* their own dispatch (parameter resolution, guardrail, policy, tool) or   *)
(* through approve / deny / retry requests of the user, each in a run      *)
(* scope of its own; the check that continues the planner is serialized    *)
(* per conversation and reads nothing but the persisted entries.           *)
(*                                                                         *)
(* An action is the code between two awaits.  Every entry write sets the   *)
(* state explicitly, so it is one step whatever payload it merges over;    *)
(* the edited approval, which merges parameters only and carries the state *)
(* it read along, is two.  Database failures are not modelled.             *)
EXTENDS Integers, FiniteSets, Sequences

CONSTANTS
    N,        \* size of the batch
    Click,    \* approve / deny / retry requests, each made at most once
    Mode,     \* follow-up modes the planner may ask for
    Env,      \* what the environment may do, a subset of EnvEvent
    MaxCrash  \* bound on the number of process crashes

EnvEvent == {"llm failure", "task cancel", "cancel", "post", "edit", "refuse", "switch off"}

ASSUME FanInAssumption ==
    /\ N \in Nat \ {0}
    /\ Click \cap (1..N) = {}
    /\ Click \cap {"run", "turn"} = {}
    /\ Mode \subseteq {"continue", "finalize"} /\ Mode # {}
    /\ Env \subseteq EnvEvent
    /\ MaxCrash \in Nat

Member == 1..N                  \* in request order: N is the batch tail
Job    == Member \cup Click     \* the dispatch of member m is job m
Scope  == Click \cup {"run", "turn"}

Terminal   == {"done", "failed", "blocked", "denied"}
EntryState == {"absent", "resolving", "requested", "running"} \cup Terminal

(* A dispatch in "bare" was flagged by the guardrail with an empty reason. *)
Runnable    == {"run", "vetted", "bare"}
Dispatching == {"resolve", "guard", "flagged"} \cup Runnable
Granted     == {"edit", "merge", "granted"}
Busy        == Dispatching \cup Granted \cup {"denying", "tool", "settled"}

VARIABLES
    entry,     \* member -> persisted state of its tool-invocation entry
    planner,   \* the deciding planner: "create", "dispatch" or "over"
    next,      \* the member it creates or dispatches next
    mode,      \* the follow-up it asked for
    pc,        \* job -> where it stands
    of,        \* request -> the member it is about
    force,     \* the requests that are retries: their check ignores the guard
    seen,      \* request -> the state read by an edited approval
    checks,    \* queue of fan-in checks, by the job that settled
    stage,     \* where the check at its head stands
    reaction,  \* job -> the continuation its check started
    aborted,   \* scopes whose signal is aborted
    slot,      \* the scope last registered as the conversation's active run
    turn,      \* a later turn of the user: its message hangs off the tail
    up,        \* the process is alive
    crashes

entries  == <<entry, seen>>
plan     == <<planner, next, mode>>
jobs     == <<pc, of, force>>
queue    == <<checks, stage>>
runs     == <<aborted, slot, turn>>
process  == <<up, crashes>>
vars == <<entries, plan, jobs, queue, reaction, runs, process>>

Of(j)      == IF j \in Member THEN j ELSE of[j]
ScopeOf(j) == IF j \in Member THEN "run" ELSE j

TypeOK ==
    /\ entry \in [Member -> EntryState]
    /\ planner \in {"create", "dispatch", "over"}
    /\ next \in 1..(N + 1) /\ (planner # "over" => next \in Member)
    /\ mode \in {"continue", "finalize"}
    /\ pc \in [Job -> Busy \cup {"idle", "over"}]
    /\ of \in [Click -> Member]
    /\ force \in SUBSET Click
    /\ seen \in [Click -> EntryState]
    /\ checks \in Seq(Job)
    /\ stage \in {"count", "child", "start"}
    /\ reaction \in [Job -> {"none", "tracked", "detached", "over"}]
    /\ aborted \in SUBSET Scope
    /\ slot \in Scope
    /\ turn \in {"none", "open", "over"}
    /\ up \in BOOLEAN
    /\ crashes \in 0..MaxCrash

Init ==
    /\ entry = [m \in Member |-> "absent"]
    /\ planner = "create" /\ next = 1 /\ mode \in Mode
    /\ pc = [j \in Job |-> "idle"]
    /\ of = [c \in Click |-> 1]
    /\ force = {}
    /\ seen = [c \in Click |-> "absent"]
    /\ checks = <<>> /\ stage = "count"
    /\ reaction = [j \in Job |-> "none"]
    /\ aborted = {} /\ slot = "run" /\ turn = "none"
    /\ up = TRUE /\ crashes = 0

(* A scope has finished when its root is done and every task spawned on it *)
(* has settled; a continuation spawned later does not bring it back.       *)
Finished(s) ==
    CASE s = "run"  -> /\ planner = "over"
                       /\ \A m \in Member : pc[m] \notin Busy /\ reaction[m] # "tracked"
      [] s = "turn" -> turn = "over"
      [] OTHER      -> pc[s] = "over" /\ reaction[s] # "tracked"

Goto(j, l) == pc' = [pc EXCEPT ![j] = l]
Write(m, s) == entry' = [entry EXCEPT ![m] = s]
---------------------------------------------------------------------------
(* The planner's decision: every entry first, in request order, then one   *)
(* dispatch per entry.  An abort ends either loop between two members.     *)

(* Mutant: the loop runs one member too far. *)
CreatePastEnd ==
    /\ up /\ planner = "create" /\ "run" \notin aborted
    /\ Write(next, "resolving")
    /\ IF next > N THEN planner' = "dispatch" /\ next' = 1
                   ELSE planner' = planner /\ next' = next + 1
    /\ UNCHANGED <<seen, mode, jobs, queue, reaction, runs, process>>

CreateMember ==
    /\ up /\ planner = "create" /\ "run" \notin aborted
    /\ Write(next, "resolving")
    /\ IF next = N THEN planner' = "dispatch" /\ next' = 1
                   ELSE planner' = planner /\ next' = next + 1
    /\ UNCHANGED <<seen, mode, jobs, queue, reaction, runs, process>>

DispatchMember ==
    /\ up /\ planner = "dispatch" /\ "run" \notin aborted
    /\ Goto(next, "resolve")
    /\ next' = next + 1
    /\ planner' = IF next = N THEN "over" ELSE planner
    /\ UNCHANGED <<entries, mode, of, force, queue, reaction, runs, process>>

PlannerAborts ==
    /\ up /\ planner # "over" /\ "run" \in aborted
    /\ planner' = "over"
    /\ UNCHANGED <<entries, next, mode, jobs, queue, reaction, runs, process>>
---------------------------------------------------------------------------
(* The dispatch of one member. *)

(* The arguments are known: straight to the run, or through the guardrail. *)
Resolve(m) ==
    /\ up /\ pc[m] = "resolve"
    /\ \/ Goto(m, "run")
       \/ "run" \notin aborted /\ Goto(m, "guard")
    /\ UNCHANGED <<entries, plan, of, force, queue, reaction, runs, process>>

(* The resolver's answer is not JSON: the member fails visibly. *)
ResolveUnparsable(m) ==
    /\ up /\ pc[m] = "resolve"
    /\ Write(m, "blocked") /\ Goto(m, "settled")
    /\ UNCHANGED <<seen, plan, of, force, queue, reaction, runs, process>>

Guard(m) ==
    /\ up /\ pc[m] = "guard" /\ "run" \notin aborted
    /\ Goto(m, "vetted") \/ Goto(m, "flagged") \/ Goto(m, "bare")
    /\ UNCHANGED <<entries, plan, of, force, queue, reaction, runs, process>>

(* The thought that carries the member ends without reaching the tool: its *)
(* LLM call failed, or its scope was aborted.  The entry is left alone.    *)
DispatchLost(m) ==
    /\ up
    /\ \/ pc[m] \in {"resolve", "guard"} /\ "llm failure" \in Env
       \/ pc[m] \in Dispatching /\ "run" \in aborted
    /\ Goto(m, "over")
    /\ UNCHANGED <<entries, plan, of, force, queue, reaction, runs, process>>

(* Policy off, or the tool's own rules forbid the call. *)
Forbid(m) ==
    /\ up /\ pc[m] \in Runnable \cup {"flagged"}
    /\ Write(m, "blocked") /\ Goto(m, "settled")
    /\ UNCHANGED <<seen, plan, of, force, queue, reaction, runs, process>>

(* Policy ask, the tool's own rules, or a guardrail flag. *)
AskUser(m) ==
    /\ up /\ pc[m] \in Runnable \cup {"flagged"}
    /\ Write(m, "requested") /\ Goto(m, "over")
    /\ UNCHANGED <<seen, plan, of, force, queue, reaction, runs, process>>

(* The tool's schema rejects the arguments, or its permission check throws. *)
(* Only the dispatcher without a guardrail turns that into a failed member. *)
Reject(m) ==
    /\ up /\ pc[m] \in Runnable \cup {"flagged"}
    /\ IF pc[m] = "run" /\ "run" \notin aborted
         THEN Write(m, "blocked") /\ Goto(m, "settled")
         ELSE UNCHANGED entry /\ Goto(m, "over")
    /\ UNCHANGED <<seen, plan, of, force, queue, reaction, runs, process>>

(* executeTool marks the entry running before it looks at the signal. *)
StartTool(j) ==
    /\ up /\ pc[j] \in (IF j \in Member THEN Runnable ELSE {"granted"})
    /\ Write(Of(j), "running") /\ Goto(j, "tool")
    /\ UNCHANGED <<seen, plan, of, force, queue, reaction, runs, process>>

ToolEnds(j) ==
    /\ up /\ pc[j] = "tool" /\ ScopeOf(j) \notin aborted
    /\ Write(Of(j), "done") \/ Write(Of(j), "failed")
    /\ Goto(j, "settled")
    /\ UNCHANGED <<seen, plan, of, force, queue, reaction, runs, process>>

(* Mutant: the aborted tool's entry is left as it is. *)
ToolAbortsSilently(j) ==
    /\ up /\ pc[j] = "tool" /\ ScopeOf(j) \in aborted
    /\ Goto(j, "over")
    /\ UNCHANGED <<entries, plan, of, force, queue, reaction, runs, process>>

(* An aborted tool fails its entry and does not resolve the member. *)
ToolAborts(j) ==
    /\ up /\ pc[j] = "tool"
    /\ ScopeOf(j) \in aborted \/ "task cancel" \in Env
    /\ Write(Of(j), "failed") /\ Goto(j, "over")
    /\ UNCHANGED <<seen, plan, of, force, queue, reaction, runs, process>>

(* memberResolved: the check is chained behind the conversation's others. *)
MemberResolved(j) ==
    /\ up /\ pc[j] = "settled"
    /\ checks' = IF j \in Click \/ mode = "continue" THEN Append(checks, j) ELSE checks
    /\ Goto(j, "over")
    /\ UNCHANGED <<entries, plan, of, force, stage, reaction, runs, process>>
---------------------------------------------------------------------------
(* Requests of the user.  beginRun joins an active run without taking its  *)
(* slot; the entry's state is read once, and acted upon some awaits later. *)

Accept(c, m, l) ==
    /\ up /\ pc[c] = "idle"
    /\ slot' = IF Finished(slot) THEN c ELSE slot
    /\ of' = [of EXCEPT ![c] = m]
    /\ Goto(c, l)
    /\ UNCHANGED <<entries, plan, queue, reaction, aborted, turn, process>>

Approve(c, m) ==
    /\ entry[m] = "requested"
    /\ Accept(c, m, "granted") \/ ("edit" \in Env /\ Accept(c, m, "edit"))
    /\ UNCHANGED force

Deny(c, m) ==
    /\ entry[m] = "requested"
    /\ Accept(c, m, "denying")
    /\ UNCHANGED force

(* Mutant: any error may be retried, a refused call too. *)
RetryAnyError(c, m) ==
    /\ entry[m] \in {"failed", "blocked"}
    /\ Accept(c, m, "granted")
    /\ force' = force \cup {c}

Retry(c, m) ==
    /\ entry[m] = "failed"
    /\ Accept(c, m, "granted")
    /\ force' = force \cup {c}

(* The edited parameters are merged into the payload as it was fetched. *)
EditFetch(c) ==
    /\ up /\ pc[c] = "edit"
    /\ seen' = [seen EXCEPT ![c] = entry[of[c]]]
    /\ Goto(c, "merge")
    /\ UNCHANGED <<entry, plan, of, force, queue, reaction, runs, process>>

EditMerge(c) ==
    /\ up /\ pc[c] = "merge"
    /\ Write(of[c], seen[c]) /\ Goto(c, "granted")
    /\ UNCHANGED <<seen, plan, of, force, queue, reaction, runs, process>>

(* Refused after the read: a retry whose tool was switched off meanwhile,  *)
(* or any request whose agent's stored rules no longer parse.              *)
Refuse(c) ==
    /\ up /\ pc[c] = "granted"
    /\ "refuse" \in Env \/ ("switch off" \in Env /\ c \in force)
    /\ Goto(c, "over")
    /\ UNCHANGED <<entries, plan, of, force, queue, reaction, runs, process>>

DenyWrite(c) ==
    /\ up /\ pc[c] = "denying"
    /\ Write(of[c], "denied") /\ Goto(c, "settled")
    /\ UNCHANGED <<seen, plan, of, force, queue, reaction, runs, process>>
---------------------------------------------------------------------------
(* The fan-in check at the head of the queue: three reads, one insert. *)

(* Mutants: the pending count that strands approvals, a guard that sees    *)
(* only the user's reply, and a check that empties the queue.              *)
NonePending     == \A m \in Member : entry[m] \notin {"requested", "running"}
UserReplied     == turn # "none"
ForgetChecks    == checks' = <<>> /\ stage' = "count"

AllTerminal   == \A m \in Member : entry[m] \in Terminal
HasSpineChild == turn # "none" \/ \E j \in Job : reaction[j] # "none"
CheckDone     == checks' = Tail(checks) /\ stage' = "count"

CheckCount ==
    /\ up /\ checks # <<>> /\ stage = "count"
    /\ IF AllTerminal THEN stage' = "child" /\ UNCHANGED checks ELSE CheckDone
    /\ UNCHANGED <<entries, plan, jobs, reaction, runs, process>>

CheckChild ==
    /\ up /\ checks # <<>> /\ stage = "child"
    /\ IF Head(checks) \in force \/ ~HasSpineChild
         THEN stage' = "start" /\ UNCHANGED checks
         ELSE CheckDone
    /\ UNCHANGED <<entries, plan, jobs, reaction, runs, process>>

(* The continuation runs on the scope of the job that settled, which may   *)
(* have finished by now: then no active run accounts for it.               *)
CheckStart ==
    /\ up /\ checks # <<>> /\ stage = "start"
    /\ LET j == Head(checks)
           s == ScopeOf(j)
       IN reaction' = IF s \in aborted THEN reaction
                      ELSE [reaction EXCEPT ![j] = IF Finished(s) THEN "detached" ELSE "tracked"]
    /\ CheckDone
    /\ UNCHANGED <<entries, plan, jobs, runs, process>>

ReactionEnds(j) ==
    /\ up /\ reaction[j] \in {"tracked", "detached"}
    /\ reaction' = [reaction EXCEPT ![j] = "over"]
    /\ UNCHANGED <<entries, plan, jobs, queue, runs, process>>
---------------------------------------------------------------------------
(* Cancel and steer abort the registered run, never one that only joined. *)
Cancel ==
    /\ up /\ "cancel" \in Env /\ ~Finished(slot)
    /\ aborted' = aborted \cup {slot}
    /\ UNCHANGED <<entries, plan, jobs, queue, reaction, slot, turn, process>>

(* The user answers at the batch tail instead of deciding the members. *)
Post ==
    /\ up /\ "post" \in Env /\ turn = "none"
    /\ Finished(slot) /\ entry[N] # "absent"
    /\ turn' = "open" /\ slot' = "turn"
    /\ UNCHANGED <<entries, plan, jobs, queue, reaction, aborted, process>>

TurnEnds ==
    /\ up /\ turn = "open" /\ turn' = "over"
    /\ UNCHANGED <<entries, plan, jobs, queue, reaction, aborted, slot, process>>

Crash ==
    /\ up /\ crashes < MaxCrash
    /\ up' = FALSE /\ crashes' = crashes + 1
    /\ planner' = "over"
    /\ pc' = [j \in Job |-> IF pc[j] \in Busy THEN "over" ELSE pc[j]]
    /\ checks' = <<>> /\ stage' = "count"
    /\ reaction' = [j \in Job |-> IF reaction[j] = "none" THEN "none" ELSE "over"]
    /\ turn' = IF turn = "open" THEN "over" ELSE turn
    /\ UNCHANGED <<entries, next, mode, of, force, aborted, slot>>

(* onModuleInit fails the tools that were running, and only those. *)
BootSweep ==
    /\ ~up /\ up' = TRUE
    /\ entry' = [m \in Member |-> IF entry[m] = "running" THEN "failed" ELSE entry[m]]
    /\ UNCHANGED <<seen, plan, jobs, queue, reaction, runs, crashes>>
---------------------------------------------------------------------------
Dispatch(m) ==
    \/ Resolve(m) \/ ResolveUnparsable(m) \/ Guard(m) \/ DispatchLost(m)
    \/ Forbid(m) \/ AskUser(m) \/ Reject(m)

Request(c) == \E m \in Member : Approve(c, m) \/ Deny(c, m) \/ Retry(c, m)

Handle(c) == EditFetch(c) \/ EditMerge(c) \/ Refuse(c) \/ DenyWrite(c)

RunTool(j) == StartTool(j) \/ ToolEnds(j) \/ ToolAborts(j) \/ MemberResolved(j)

Planner == CreateMember \/ DispatchMember \/ PlannerAborts
Check   == CheckCount \/ CheckChild \/ CheckStart

Next ==
    \/ Planner
    \/ \E m \in Member : Dispatch(m)
    \/ \E c \in Click : Request(c) \/ Handle(c)
    \/ \E j \in Job : RunTool(j) \/ ReactionEnds(j)
    \/ Check
    \/ Cancel \/ Post \/ TurnEnds
    \/ Crash \/ BootSweep

Spec == Init /\ [][Next]_vars

(* What goes on without anybody asking for it. *)
Work ==
    \/ Planner \/ Check \/ BootSweep
    \/ \E m \in Member : Dispatch(m)
    \/ \E c \in Click : Handle(c)
    \/ \E j \in Job : RunTool(j) \/ ReactionEnds(j)

(* The event loop runs as long as it has anything to run: every tool and    *)
(* LLM call settles.  Nothing makes the user or a crash happen.             *)
FairSpec == Spec /\ WF_vars(Work)
---------------------------------------------------------------------------
(* Properties. *)

(* memberResolved: however many members and requests settle at once, and   *)
(* across restarts, the batch gets one continuation of the planner, apart  *)
(* from those a retry asks for.                                            *)
OneReaction ==
    \A i, j \in Job \ force :
        reaction[i] # "none" /\ reaction[j] # "none" => i = j

(* executeTool and the boot sweep: a live process never shows a tool as    *)
(* running that nothing runs, or (after a stale merge) is about to run.    *)
RunningHasExecutor ==
    up => \A m \in Member : entry[m] = "running" =>
              \E j \in Job : Of(j) = m /\ pc[j] \in Granted \cup {"tool"}

Redone(m) == \E c \in Click : of[c] = m /\ pc[c] \in Granted \cup {"tool"}

(* maybeContinuePlanner: when the continuation is inserted every member    *)
(* has its verdict, except those a user has asked to run anew meanwhile.   *)
ReactsToDecidedBatch ==
    [][\A j \in Job : reaction[j] = "none" /\ reaction'[j] # "none" =>
           \A m \in Member : entry[m] \in Terminal \/ Redone(m)]_vars

(* recordBlocked, failEntry, retryToolInvocation: a call that was refused  *)
(* stays refused, whatever requests race with the refusal.                 *)
BlockedStaysBlocked ==
    [][\A m \in Member : entry[m] = "blocked" => entry'[m] = "blocked"]_vars

(* The fan-in implements Batch: the verdicts are read off the entries, what *)
(* is being redone off the requests, the answers off the continuations.     *)
Verdicts == [m \in Member |-> IF entry[m] = "blocked" THEN "refused"
                              ELSE IF entry[m] \in Terminal THEN "decided" ELSE "open"]
Started  == {j \in Job : reaction[j] # "none"}

Promise == INSTANCE Batch WITH
    Call <- Member, Settler <- Job,
    verdict <- Verdicts, redone <- {m \in Member : Redone(m)},
    answered <- Started \ force, repeated <- Started \cap force

(* runDecision to maybeContinuePlanner, seen from outside: every step of    *)
(* the fan-in is a step of Batch or changes nothing that Batch speaks of.   *)
ImplementsBatch == Promise!BatchSpec

(* A member that settles last is never forgotten: unless the run was       *)
(* aborted or the process dies again, its check leads to a continuation    *)
(* (or finds the user's own reply at the tail), or a member is being run   *)
(* anew and will check again.  That covers approvals after a restart.      *)
SettledBatchReacts ==
    \A j \in Job :
        (pc[j] = "settled" /\ AllTerminal /\ (j \in Click \/ mode = "continue"))
            ~> (HasSpineChild \/ ~AllTerminal \/ ScopeOf(j) \in aborted \/ ~up)

(* Disagreements with what the code's comments and documents say.          *)

(* What denyToolInvocation promises of a denied call: the tool never runs. *)
DeniedNeverRuns ==
    [][\A m \in Member : entry[m] = "denied" => entry'[m] # "running"]_vars

(* What the dispatcher says every member's entry must do, even when no     *)
(* call fails and nobody cancels.                                          *)
EveryMemberSettles ==
    \A m \in Member : entry[m] = "resolving" ~> entry[m] # "resolving"
=============================================================================
