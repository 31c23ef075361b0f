----------------------------- MODULE Thoughts -----------------------------
(* The thoughts that stand before the planner of a turn: attachment         *)
(* summaries, which meet at a barrier, or the planning of a retrieval, and  *)
(* their retries.  Each runs prepare, reason and decide on one entry while  *)
(* the turn, or the task of its LLM call alone, may be cancelled.           *)
(*                                                                          *)
(* An action is the code between two awaits, but for entry writes, which    *)
(* are one step except where another write of the same entry may overtake   *)
(* them: the result of the LLM call and the abort listener's "cancelled",   *)
(* each written back with what was read before.  Of an entry's payload only *)
(* the status and whether there is a result are kept.  A retry has a scope  *)
(* of its own.                                                              *)
EXTENDS Naturals, FiniteSets

CONSTANTS
    Peer,          \* thoughts the message may ask for
    Fork,          \* requests to reprocess one of them
    ThoughtEnv     \* a subset of ThoughtEvent

ThoughtEvent == {"append failure", "llm failure", "abort", "task cancel", "crash"}

ASSUME ThoughtsAssumption ==
    /\ IsFiniteSet(Peer) /\ Peer # {} /\ Peer \cap Fork = {}
    /\ "turn" \notin Fork /\ ThoughtEnv \subseteq ThoughtEvent

VARIABLES
    owner,     \* what starts the planner: the barrier or the plan
    group,     \* the thoughts of this message
    at,        \* thought -> where its pipeline stands
    status,    \* thought -> status of its entry
    stale,     \* thought -> the status its result is about to be merged over
    late,      \* thoughts whose abort listener has a write under way
    results,   \* thoughts whose result is on their entry
    signaled,  \* the keys the barrier has counted
    claimed,   \* the planner's start is taken: plannerStartedForScope, delivered
    retrievals,  \* continueTurn's tasks under way
    planners,  \* the number of planners started
    abortedScopes,  \* scopes that are aborted
    abortedTasks,   \* thoughts whose task is cancelled
    live,      \* the process is alive
    crashed    \* history: it has crashed

outcome == <<results, signaled, claimed, retrievals, planners>>
signals == <<abortedScopes, abortedTasks>>
life == <<live, crashed>>
thoughtVars == <<owner, group, at, status, stale, late, outcome, signals, life>>

Thought == Peer \cup Fork
ThoughtStage == {"idle", "create", "prepare", "reason", "keep", "decide", "barrier", "complete", "over"}
Status == {"absent", "running", "completed", "failed", "cancelled"}
RunOf(t) == IF t \in Peer THEN "turn" ELSE t

ThoughtsTypeOK ==
    /\ owner \in {"barrier", "plan"} /\ group \subseteq Peer
    /\ at \in [Thought -> ThoughtStage]
    /\ status \in [Thought -> Status] /\ stale \in [Thought -> Status]
    /\ {late, results, abortedTasks} \subseteq SUBSET Thought /\ signaled \subseteq Peer
    /\ {retrievals, planners} \subseteq Nat /\ abortedScopes \subseteq Fork \cup {"turn"}
    /\ {claimed, live, crashed} \subseteq BOOLEAN

ThoughtsInit ==
    /\ owner \in {"barrier", "plan"}
    /\ group \in SUBSET Peer \ {{}} /\ (owner = "plan" => Cardinality(group) = 1)
    /\ at = [t \in Thought |-> IF t \in group THEN "create" ELSE "idle"]
    /\ status = [t \in Thought |-> "absent"] /\ stale = status
    /\ late = {} /\ results = {} /\ signaled = {} /\ claimed = FALSE
    /\ retrievals = 0 /\ planners = 0
    /\ abortedScopes = {} /\ abortedTasks = {} /\ live = TRUE /\ crashed = FALSE
---------------------------------------------------------------------------
Aborted(t) == RunOf(t) \in abortedScopes
Stopped(t) == Aborted(t) \/ t \in abortedTasks
To(t, s) == at' = [at EXCEPT ![t] = s]
Mark(t, s) == status' = [status EXCEPT ![t] = s]

(* Mutant: no test-and-set. *)
StartPlannerEach ==
    planners' = IF "turn" \in abortedScopes THEN planners ELSE planners + 1

(* maybeStartPlanner. *)
StartPlanner ==
    planners' = IF claimed \/ "turn" \in abortedScopes THEN planners ELSE planners + 1

(* Mutant: no once-guard. *)
DeliverEach == claimed' = TRUE /\ retrievals' = retrievals + 1

(* continueTurn: the first delivery of a plan, or of none, which the        *)
(* message's own text stands in for, spawns the retrieval.                  *)
Deliver == claimed' = TRUE /\ retrievals' = IF claimed THEN retrievals ELSE retrievals + 1

NobodyTold == UNCHANGED <<signaled, claimed, retrievals>>

(* Mutant: a thought that throws releases nobody. *)
SettleSilently(t) == To(t, "over") /\ NobodyTold

(* Mutant: a retry signals a barrier it has lost. *)
SettleAny(t) ==
    /\ To(t, "over")
    /\ \/ owner = "barrier" /\ signaled' = signaled \cup {t} /\ UNCHANGED <<claimed, retrievals>>
       \/ owner = "plan" /\ Deliver /\ UNCHANGED signaled

(* The end of the spawned task: onThoughtSettled signals the barrier, or    *)
(* delivers no plan.  A retry has lost the barrier and the continuation.    *)
Settled(t) ==
    /\ To(t, "over")
    /\ \/ t \in Fork /\ NobodyTold
       \/ t \in Peer /\ owner = "barrier" /\ signaled' = signaled \cup {t} /\ UNCHANGED <<claimed, retrievals>>
       \/ t \in Peer /\ owner = "plan" /\ Deliver /\ UNCHANGED signaled
---------------------------------------------------------------------------
(* ThoughtProcessingService.startThought. *)

Create(t) ==
    /\ live /\ at[t] = "create"
    /\ To(t, "prepare") /\ Mark(t, "running")
    /\ UNCHANGED <<owner, group, stale, late, outcome, signals, life>>

(* The append fails before the task knows its input: nothing is settled.    *)
CreateFails(t) ==
    /\ live /\ at[t] = "create" /\ "append failure" \in ThoughtEnv
    /\ To(t, "over")
    /\ UNCHANGED <<owner, group, status, stale, late, outcome, signals, life>>

(* The snapshot of the input, and PrepareStep; the signal is looked at      *)
(* between the steps, outside of what marks a failure.                      *)
Prepare(t) ==
    /\ live /\ at[t] = "prepare"
    /\ IF Aborted(t) THEN Settled(t) ELSE To(t, "reason") /\ NobodyTold
    /\ UNCHANGED <<owner, group, status, stale, late, results, planners, signals, life>>

(* ReasonStep: the stream ends with a completion, whose merge reads the row. *)
Completion(t) ==
    /\ live /\ at[t] = "reason" /\ ~Stopped(t)
    /\ To(t, "keep") /\ stale' = [stale EXCEPT ![t] = status[t]]
    /\ UNCHANGED <<owner, group, status, late, outcome, signals, life>>

(* Mutant: a failure is not written. *)
NoCompletionUnmarked(t) ==
    /\ live /\ at[t] = "reason"
    /\ Stopped(t) \/ "llm failure" \in ThoughtEnv
    /\ Settled(t)
    /\ UNCHANGED <<owner, group, status, stale, late, results, planners, signals, life>>

(* It fails, which is written, or is interrupted, which the listener writes. *)
NoCompletion(t) ==
    /\ live /\ at[t] = "reason"
    /\ \/ Stopped(t) /\ UNCHANGED status
       \/ ~Stopped(t) /\ "llm failure" \in ThoughtEnv /\ Mark(t, "failed")
    /\ Settled(t)
    /\ UNCHANGED <<owner, group, stale, late, results, planners, signals, life>>

(* The merge writes what it has read; DecisionStep looks at the signal. *)
Keep(t) ==
    /\ live /\ at[t] = "keep"
    /\ Mark(t, stale[t])
    /\ IF Aborted(t) THEN Settled(t) ELSE To(t, "decide") /\ NobodyTold
    /\ UNCHANGED <<owner, group, stale, late, results, planners, signals, life>>

(* A summary is written, and its peers are waited for. *)
Decide(t) ==
    /\ live /\ at[t] = "decide" /\ t \in group /\ owner = "barrier"
    /\ results' = results \cup {t} /\ signaled' = signaled \cup {t} /\ To(t, "barrier")
    /\ UNCHANGED <<owner, group, status, stale, late, claimed, retrievals, planners, signals, life>>

(* All have signaled: the first to go on starts the planner. *)
Pass(t) ==
    /\ live /\ at[t] = "barrier" /\ group \subseteq signaled
    /\ StartPlanner /\ claimed' = TRUE
    /\ To(t, "over") /\ Mark(t, "completed")
    /\ UNCHANGED <<owner, group, stale, late, results, signaled, retrievals, signals, life>>

(* A plan is written, then delivered. *)
DecidePlan(t) ==
    /\ live /\ at[t] = "decide" /\ t \in group /\ owner = "plan"
    /\ results' = results \cup {t} /\ Deliver /\ To(t, "complete")
    /\ UNCHANGED <<owner, group, status, stale, late, signaled, planners, signals, life>>

(* Its thought completes and settles, which delivers once more. *)
PlanCompleted(t) ==
    /\ live /\ at[t] = "complete"
    /\ Mark(t, "completed") /\ Settled(t)
    /\ UNCHANGED <<owner, group, stale, late, results, planners, signals, life>>

(* continueTurn's task: the retrieval settles either way. *)
Retrieve ==
    /\ live /\ retrievals > 0 /\ retrievals' = retrievals - 1
    /\ planners' = IF "turn" \in abortedScopes THEN planners ELSE planners + 1
    /\ UNCHANGED <<owner, group, at, status, stale, late, results, signaled, claimed, signals, life>>

(* The decision of a retry: a summary is written and then there is no       *)
(* barrier to signal; a plan is delivered nowhere.                          *)
DecideRetry(t) ==
    /\ live /\ at[t] = "decide" /\ t \in Fork
    /\ results' = results \cup {t} /\ To(t, "over")
    /\ IF owner = "plan" THEN Mark(t, "completed")
       ELSE status' = [status EXCEPT ![t] = IF Aborted(t) THEN @ ELSE "failed"]
    /\ UNCHANGED <<owner, group, stale, late, signaled, claimed, retrievals, planners, signals, life>>

(* startReprocessContext, of a thought whose input has been saved, once the *)
(* run in progress has ended: beginRun aborts and awaits it.                *)
Reprocess(r, t) ==
    /\ live /\ at[r] = "idle" /\ t \in group /\ status[t] # "absent"
    /\ retrievals = 0 /\ \A u \in Thought : at[u] \in {"idle", "over"}
    /\ To(r, "reason") /\ Mark(r, "running")
    /\ UNCHANGED <<owner, group, stale, late, outcome, signals, life>>
---------------------------------------------------------------------------
(* Cancelling, crashing, booting. *)

Listening(t) == at[t] \in {"reason", "keep"} /\ ~Stopped(t)

AbortScope(s) ==
    /\ live /\ "abort" \in ThoughtEnv /\ s \notin abortedScopes
    /\ \/ \E t \in Thought : RunOf(t) = s /\ at[t] \notin {"idle", "over"}
       \/ s = "turn" /\ retrievals > 0
    /\ abortedScopes' = abortedScopes \cup {s}
    /\ late' = late \cup {t \in Thought : RunOf(t) = s /\ Listening(t)}
    /\ UNCHANGED <<owner, group, at, status, stale, outcome, abortedTasks, life>>

CancelTask(t) ==
    /\ live /\ "task cancel" \in ThoughtEnv /\ Listening(t)
    /\ abortedTasks' = abortedTasks \cup {t} /\ late' = late \cup {t}
    /\ UNCHANGED <<owner, group, at, status, stale, outcome, abortedScopes, life>>

(* onAbort's write, over what the entry was at some time since the abort:   *)
(* a result written in between is lost.                                     *)
LateWrite(t) ==
    /\ live /\ t \in late
    /\ Mark(t, "cancelled") /\ late' = late \ {t} /\ results' \in {results, results \ {t}}
    /\ UNCHANGED <<owner, group, at, stale, signaled, claimed, retrievals, planners, signals, life>>

CrashNow ==
    /\ live /\ ~crashed /\ "crash" \in ThoughtEnv
    /\ live' = FALSE /\ crashed' = TRUE /\ late' = {} /\ retrievals' = 0
    /\ at' = [t \in Thought |-> IF at[t] = "idle" THEN "idle" ELSE "over"]
    /\ UNCHANGED <<owner, group, status, stale, results, signaled, claimed, planners, signals>>

(* onModuleInit: the sweep. *)
Sweep ==
    /\ ~live /\ live' = TRUE
    /\ status' = [t \in Thought |-> IF status[t] = "running" THEN "cancelled" ELSE status[t]]
    /\ UNCHANGED <<owner, group, at, stale, late, outcome, signals, crashed>>
---------------------------------------------------------------------------
(* What goes on without anybody asking for it. *)
ThoughtsWork ==
    \/ \E t \in Thought :
        \/ Create(t) \/ CreateFails(t) \/ Prepare(t) \/ Completion(t) \/ NoCompletion(t) \/ Keep(t)
        \/ Decide(t) \/ Pass(t) \/ DecidePlan(t) \/ PlanCompleted(t) \/ DecideRetry(t)
        \/ LateWrite(t)
    \/ Retrieve \/ Sweep

ThoughtsNext ==
    \/ ThoughtsWork
    \/ \E r \in Fork, t \in Peer : Reprocess(r, t)
    \/ \E s \in Fork \cup {"turn"} : AbortScope(s)
    \/ \E t \in Thought : CancelTask(t)
    \/ CrashNow

ThoughtsSpec == ThoughtsInit /\ [][ThoughtsNext]_thoughtVars

(* Promises settle, LLM calls end by their own timeouts. *)
ThoughtsFairSpec == ThoughtsSpec /\ WF_thoughtVars(ThoughtsWork)
---------------------------------------------------------------------------
(* Properties. *)

(* "exactly one winner", and a continuation that is "once-guarded": a turn  *)
(* has one planner, and it starts after every summary is on its entry, or   *)
(* its thought is over or was stopped, whose listener may undo the write.   *)
OnePlannerAfterAll ==
    /\ planners + retrievals <= 1
    /\ planners = 1 /\ owner = "barrier" =>
        \A t \in group : t \in results \/ at[t] = "over" \/ Stopped(t)

(* "can never strand the turn": one summary that is written, or any plan,   *)
(* even none, gets the planner started, unless the turn is cancelled, the   *)
(* process dies or an entry cannot be appended.                             *)
Unborn == \E t \in group : at[t] = "over" /\ status[t] = "absent"
TurnGoesOn ==
    (group \cap results # {} \/ owner = "plan")
        ~> (planners = 1 \/ "turn" \in abortedScopes \/ crashed \/ Unborn)

(* ReasonStep's merge, the listener's write and DecisionStep: a thought that *)
(* is over and was not cancelled has a final status, whatever was written   *)
(* over what on the way.                                                    *)
SettledStatus ==
    \A t \in Thought :
        (live /\ at[t] = "over" /\ ~Stopped(t) /\ t \notin late) => status[t] # "running"

(* Disagreements with comments on the code.                                 *)

(* "the thought keeps running until its decision settles (or a failure      *)
(* strikes)": no entry says running when its thought is over.               *)
NoneLeftRunning ==
    \A t \in Thought : (live /\ at[t] = "over" /\ t \notin late) => status[t] # "running"

(* "Fires from the spawn-task finally for EVERY thought run ... so peers    *)
(* waiting on completion can't deadlock".                                   *)
PeersReleased == \A t \in Peer : (at[t] = "barrier") ~> (at[t] # "barrier")

(* "reason + decision run fresh": a retry whose LLM call has been answered  *)
(* is not failed.                                                           *)
RetriesComplete ==
    \A r \in Fork : (at[r] = "over" /\ r \in results) => status[r] # "failed"
=============================================================================
