-------------------------- MODULE Thoughts_proofs --------------------------
(* The thoughts before a turn's planner, for any set of thoughts, retries   *)
(* and events: one planner, after all summaries; and settled statuses.      *)
EXTENDS Thoughts, TLAPS

Types ==
    /\ owner \in {"barrier", "plan"} /\ group \subseteq Peer
    /\ at \in [Thought -> ThoughtStage]
    /\ status \in [Thought -> Status] /\ stale \in [Thought -> Status]
    /\ results \subseteq Thought /\ signaled \subseteq Peer

SignalTypes ==
    /\ late \subseteq Thought /\ abortedTasks \subseteq Thought
    /\ abortedScopes \subseteq Fork \cup {"turn"}
    /\ claimed \in BOOLEAN /\ live \in BOOLEAN /\ crashed \in BOOLEAN

(* The claim is taken before a planner or a retrieval is counted, and when  *)
(* the barrier has counted everybody; who is counted has written its        *)
(* summary, is over or was stopped, and only the stopped have a write late. *)
PlannerInv ==
    /\ \/ planners = 0 /\ retrievals = 0
       \/ claimed /\ planners = 1 /\ retrievals = 0
       \/ claimed /\ planners = 0 /\ retrievals = 1
    /\ claimed /\ owner = "barrier" => group \subseteq signaled
    /\ owner = "barrier" => \A t \in signaled : t \in results \/ at[t] = "over" \/ Stopped(t)
    /\ \A t \in late : Stopped(t)

(* A thought that has not begun, or whose decision is made, is not running. *)
Rests(t) == at[t] = "create" \/ (at[t] = "over" /\ ~Stopped(t))
StatusInv == live => \A t \in Thought : Rests(t) => status[t] # "running"

(* The inductive invariant. *)
ThoughtsInv == Types /\ SignalTypes /\ PlannerInv /\ StatusInv
---------------------------------------------------------------------------
(* What a step does for the planner.                                        *)

(* Nothing that is stopped goes on again. *)
LEMMA StopsStay ==
  ASSUME [ThoughtsNext]_thoughtVars, NEW t \in Thought, Stopped(t)
  PROVE  Stopped(t)'
<1>1. abortedScopes \subseteq abortedScopes' /\ abortedTasks \subseteq abortedTasks'
  BY DEF ThoughtsNext, ThoughtsWork, thoughtVars, outcome, signals, life, Create, CreateFails,
     Prepare, Completion, NoCompletion, Keep, Decide, Pass, DecidePlan, PlanCompleted, Retrieve,
     DecideRetry, Reprocess, AbortScope, CancelTask, LateWrite, CrashNow, Sweep
<1> QED
  BY <1>1 DEF Stopped, Aborted, RunOf

(* No peer comes back from "over", and only a listener undoes a result; a   *)
(* write is late for the stopped alone.                                     *)
Grows ==
    /\ owner' = owner /\ group' = group
    /\ \A t \in Peer : at[t] = "over" => at'[t] = "over"
    /\ \A t \in results : t \in results' \/ t \in late
    /\ \A t \in late' : t \in late \/ Stopped(t)'
Same == signaled' = signaled /\ claimed' = claimed /\ planners' = planners /\ retrievals' = retrievals
Counts ==
    /\ claimed' = claimed /\ planners' = planners /\ retrievals' = retrievals
    /\ \E t \in Peer : signaled' = signaled \cup {t} /\ (t \in results' \/ at'[t] = "over")
Starts ==
    /\ signaled' = signaled /\ StartPlanner /\ claimed' = TRUE /\ retrievals' = retrievals
    /\ group \subseteq signaled
Delivers == signaled' = signaled /\ owner = "plan" /\ Deliver /\ planners' = planners
Forgets == signaled' = signaled /\ claimed' = claimed /\ planners' = planners /\ retrievals' = 0
PlannerStep == Grows /\ (Same \/ Counts \/ Starts \/ Delivers \/ Retrieve \/ Forgets)

LEMMA PlannerKept ==
  ASSUME Types, SignalTypes, PlannerInv, PlannerStep, [ThoughtsNext]_thoughtVars
  PROVE  PlannerInv'
<1>0. retrievals \in {0, 1}
  BY DEF PlannerInv
<1>1. \/ planners' = 0 /\ retrievals' = 0
      \/ claimed' /\ planners' = 1 /\ retrievals' = 0
      \/ claimed' /\ planners' = 0 /\ retrievals' = 1
  BY <1>0 DEF PlannerInv, PlannerStep, Same, Counts, Starts, Delivers, Retrieve, Forgets, Deliver, StartPlanner
<1>2. claimed' /\ owner' = "barrier" => group' \subseteq signaled'
  BY DEF PlannerInv, PlannerStep, Grows, Same, Counts, Starts, Delivers, Retrieve, Forgets
<1>3. \A t \in late' : Stopped(t)'
  <2>1. late \subseteq Thought
    BY DEF SignalTypes
  <2> QED
    BY <2>1, StopsStay DEF PlannerInv, PlannerStep, Grows
<1>4. ASSUME owner' = "barrier", NEW t \in signaled'
      PROVE  t \in results' \/ at'[t] = "over" \/ Stopped(t)'
  <2>1. CASE t \in signaled
    <3>1. t \in Peer /\ t \in Thought /\ (t \in results \/ at[t] = "over" \/ Stopped(t))
      BY <1>4, <2>1 DEF PlannerInv, PlannerStep, Grows, Types, Thought
    <3>2. CASE Stopped(t)
      BY <3>1, <3>2, StopsStay
    <3>3. CASE t \in results
      <4>1. t \in results' \/ Stopped(t)
        BY <3>3 DEF PlannerInv, PlannerStep, Grows
      <4> QED
        BY <3>1, <4>1, StopsStay
    <3>4. CASE at[t] = "over"
      BY <3>1, <3>4 DEF PlannerStep, Grows
    <3> QED
      BY <3>1, <3>2, <3>3, <3>4
  <2>2. CASE t \notin signaled
    BY <2>2 DEF PlannerStep, Same, Counts, Starts, Delivers, Retrieve, Forgets
  <2> QED
    BY <2>1, <2>2
<1> QED
  BY <1>1, <1>2, <1>3, <1>4 DEF PlannerInv

(* A step that sends one thought on leaves the others where they are.       *)
LEMMA OneMoves ==
  ASSUME Types, NEW t \in Thought, NEW s \in ThoughtStage, To(t, s)
  PROVE  /\ at' \in [Thought -> ThoughtStage] /\ at'[t] = s
         /\ \A u \in Thought : u # t => at'[u] = at[u]
BY DEF Types, To

LEMMA GrowsBy ==
  ASSUME Types, NEW t \in Thought, NEW s \in ThoughtStage, To(t, s),
         owner' = owner, group' = group, results \subseteq results', late' = late, at[t] # "over"
  PROVE  Grows
<1>1. ASSUME NEW u \in Peer, at[u] = "over" PROVE at'[u] = "over"
  BY <1>1, OneMoves DEF Thought
<1> QED
  BY <1>1 DEF Grows

LEMMA SettledPlanner ==
  ASSUME Types, NEW t \in Thought, at[t] # "over", Settled(t),
         owner' = owner, group' = group, results' = results, late' = late, planners' = planners
  PROVE  PlannerStep
<1>1. "over" \in ThoughtStage /\ To(t, "over")
  BY DEF ThoughtStage, Settled
<1>2. Grows
  BY <1>1, GrowsBy
<1>3. at'[t] = "over"
  BY <1>1, OneMoves
<1>4. Same \/ Counts \/ Delivers
  BY <1>3 DEF Settled, NobodyTold, Same, Counts, Delivers
<1> QED
  BY <1>2, <1>4 DEF PlannerStep
---------------------------------------------------------------------------
(* Every step is one for the planner. *)
LEMMA ThoughtsStepShape ==
  ASSUME Types, PlannerInv, [ThoughtsNext]_thoughtVars
  PROVE  PlannerStep
<1> USE DEF outcome, signals, life
<1>0. /\ {"prepare", "over", "reason", "keep", "decide", "barrier", "complete"} \subseteq ThoughtStage
      /\ group \subseteq Thought
  BY DEF ThoughtStage, Types, Thought
<1>1. ASSUME NEW t \in Thought, Create(t) PROVE PlannerStep
  <2>1. Grows
    BY <1>0, <1>1, GrowsBy DEF Create
  <2> QED
    BY <1>1, <2>1 DEF Create, Same, PlannerStep
<1>2. ASSUME NEW t \in Thought, CreateFails(t) PROVE PlannerStep
  <2>1. Grows
    BY <1>0, <1>2, GrowsBy DEF CreateFails
  <2> QED
    BY <1>2, <2>1 DEF CreateFails, Same, PlannerStep
<1>3. ASSUME NEW t \in Thought, Prepare(t) PROVE PlannerStep
  <2>1. CASE Aborted(t)
    BY <1>3, <2>1, SettledPlanner DEF Prepare
  <2>2. CASE ~Aborted(t)
    <3>1. Grows
      BY <1>0, <1>3, <2>2, GrowsBy DEF Prepare
    <3> QED
      BY <1>3, <2>2, <3>1 DEF Prepare, NobodyTold, Same, PlannerStep
  <2> QED
    BY <2>1, <2>2
<1>4. ASSUME NEW t \in Thought, Completion(t) PROVE PlannerStep
  <2>1. Grows
    BY <1>0, <1>4, GrowsBy DEF Completion
  <2> QED
    BY <1>4, <2>1 DEF Completion, Same, PlannerStep
<1>5. ASSUME NEW t \in Thought, NoCompletion(t) PROVE PlannerStep
  BY <1>5, SettledPlanner DEF NoCompletion
<1>6. ASSUME NEW t \in Thought, Keep(t) PROVE PlannerStep
  <2>1. CASE Aborted(t)
    BY <1>6, <2>1, SettledPlanner DEF Keep
  <2>2. CASE ~Aborted(t)
    <3>1. Grows
      BY <1>0, <1>6, <2>2, GrowsBy DEF Keep
    <3> QED
      BY <1>6, <2>2, <3>1 DEF Keep, NobodyTold, Same, PlannerStep
  <2> QED
    BY <2>1, <2>2
<1>7. ASSUME NEW t \in Thought, Decide(t) PROVE PlannerStep
  <2>1. Grows
    BY <1>0, <1>7, GrowsBy DEF Decide
  <2>2. t \in Peer /\ t \in results' /\ signaled' = signaled \cup {t}
    BY <1>7 DEF Decide, Types
  <2> QED
    BY <1>7, <2>1, <2>2 DEF Decide, Counts, PlannerStep
<1>8. ASSUME NEW t \in Thought, Pass(t) PROVE PlannerStep
  <2>1. Grows
    BY <1>0, <1>8, GrowsBy DEF Pass
  <2> QED
    BY <1>8, <2>1 DEF Pass, Starts, PlannerStep
<1>9. ASSUME NEW t \in Thought, DecidePlan(t) PROVE PlannerStep
  <2>1. Grows
    BY <1>0, <1>9, GrowsBy DEF DecidePlan
  <2> QED
    BY <1>9, <2>1 DEF DecidePlan, Delivers, PlannerStep
<1>10. ASSUME NEW t \in Thought, PlanCompleted(t) PROVE PlannerStep
  BY <1>10, SettledPlanner DEF PlanCompleted
<1>11. ASSUME NEW t \in Thought, DecideRetry(t) PROVE PlannerStep
  <2>1. Grows
    BY <1>0, <1>11, GrowsBy DEF DecideRetry
  <2> QED
    BY <1>11, <2>1 DEF DecideRetry, Same, PlannerStep
<1>12. ASSUME NEW r \in Fork, NEW t \in Peer, Reprocess(r, t) PROVE PlannerStep
  <2>1. r \in Thought /\ at[r] = "idle"
    BY <1>12 DEF Thought, Reprocess
  <2>2. Grows
    BY <1>0, <1>12, <2>1, GrowsBy DEF Reprocess
  <2> QED
    BY <1>12, <2>2 DEF Reprocess, Same, PlannerStep
<1>13. CASE CrashNow
  <2>1. Grows
    BY <1>13 DEF CrashNow, Grows, Types, Thought
  <2> QED
    BY <1>13, <2>1 DEF CrashNow, Forgets, PlannerStep
<1>14. ASSUME NEW t \in Thought, LateWrite(t) \/ CancelTask(t) PROVE PlannerStep
  <2>1. Grows
    BY <1>14 DEF LateWrite, CancelTask, Grows, Stopped
  <2> QED
    BY <1>14, <2>1 DEF LateWrite, CancelTask, Same, PlannerStep
<1>15. ASSUME NEW s \in Fork \cup {"turn"}, AbortScope(s) PROVE PlannerStep
  <2>1. \A t \in late' : t \in late \/ Stopped(t)'
    BY <1>15 DEF AbortScope, Stopped, Aborted, RunOf
  <2> QED
    BY <1>15, <2>1 DEF AbortScope, Grows, Same, PlannerStep
<1>16. CASE Retrieve
  BY <1>16 DEF Retrieve, Grows, PlannerStep
<1>17. CASE Sweep \/ UNCHANGED thoughtVars
  BY <1>17 DEF Sweep, thoughtVars, Grows, Same, PlannerStep
<1> QED
  BY <1>1, <1>2, <1>3, <1>4, <1>5, <1>6, <1>7, <1>8, <1>9, <1>10, <1>11, <1>12, <1>13, <1>14,
     <1>15, <1>16, <1>17 DEF ThoughtsNext, ThoughtsWork
---------------------------------------------------------------------------
(* Types through a step. *)
LEMMA SettledTypes ==
  ASSUME Types, NEW t \in Thought, Settled(t)
  PROVE  at' \in [Thought -> ThoughtStage] /\ signaled' \subseteq Peer
<1>1. "over" \in ThoughtStage
  BY DEF ThoughtStage
<1>2. at' \in [Thought -> ThoughtStage]
  BY <1>1, OneMoves DEF Settled
<1> QED
  BY <1>2 DEF Settled, NobodyTold, Types

LEMMA ThoughtsTypesKept ==
  ASSUME Types, [ThoughtsNext]_thoughtVars
  PROVE  Types'
<1> USE DEF outcome, signals, life
<1>0. /\ {"idle", "prepare", "over", "reason", "keep", "decide", "barrier", "complete"} \subseteq ThoughtStage
      /\ {"running", "completed", "failed", "cancelled"} \subseteq Status
      /\ group \subseteq Thought /\ Fork \subseteq Thought /\ Peer \subseteq Thought
  BY DEF ThoughtStage, Status, Types, Thought
<1>1. ASSUME NEW t \in Thought, Create(t) \/ CreateFails(t) PROVE Types'
  BY <1>0, <1>1 DEF Create, CreateFails, Types, To, Mark
<1>2. ASSUME NEW t \in Thought, Prepare(t) PROVE Types'
  BY <1>0, <1>2, SettledTypes DEF Prepare, NobodyTold, Types, To
<1>3. ASSUME NEW t \in Thought, Completion(t) PROVE Types'
  BY <1>0, <1>3 DEF Completion, Types, To
<1>4. ASSUME NEW t \in Thought, NoCompletion(t) PROVE Types'
  BY <1>0, <1>4, SettledTypes DEF NoCompletion, Types, Mark
<1>5. ASSUME NEW t \in Thought, Keep(t) PROVE Types'
  BY <1>0, <1>5, SettledTypes DEF Keep, NobodyTold, Types, To, Mark
<1>6. ASSUME NEW t \in Thought, Decide(t) \/ Pass(t) \/ DecidePlan(t) PROVE Types'
  BY <1>0, <1>6 DEF Decide, Pass, DecidePlan, Types, To, Mark
<1>7. ASSUME NEW t \in Thought, DecideRetry(t) PROVE Types'
  BY <1>0, <1>7 DEF DecideRetry, Types, To, Mark
<1>8. ASSUME NEW r \in Fork, NEW t \in Peer, Reprocess(r, t) PROVE Types'
  BY <1>0, <1>8 DEF Reprocess, Types, To, Mark
<1>9. ASSUME NEW t \in Thought, LateWrite(t) \/ CancelTask(t) PROVE Types'
  BY <1>0, <1>9 DEF LateWrite, CancelTask, Types, Mark
<1>10. CASE CrashNow
  BY <1>0, <1>10 DEF CrashNow, Types
<1>11. CASE Sweep
  <2>1. status' \in [Thought -> Status]
    BY <1>0, <1>11 DEF Sweep, Types
  <2> QED
    BY <1>11, <2>1 DEF Sweep, Types
<1>12. ASSUME (\E s \in Fork \cup {"turn"} : AbortScope(s)) \/ Retrieve \/ UNCHANGED thoughtVars
       PROVE  Types'
  BY <1>12 DEF AbortScope, Retrieve, thoughtVars, Types
<1>13. ASSUME NEW t \in Thought, PlanCompleted(t) PROVE Types'
  BY <1>0, <1>13, SettledTypes DEF PlanCompleted, Types, Mark
<1> QED
  BY <1>1, <1>2, <1>3, <1>4, <1>5, <1>6, <1>7, <1>8, <1>9, <1>10, <1>11, <1>12, <1>13
     DEF ThoughtsNext, ThoughtsWork
LEMMA SignalTypesKept ==
  ASSUME SignalTypes, [ThoughtsNext]_thoughtVars
  PROVE  SignalTypes'
<1> USE DEF outcome, signals, life
<1>1. ASSUME NEW t \in Thought,
             Create(t) \/ CreateFails(t) \/ Completion(t) \/ Decide(t) \/ DecidePlan(t) \/ DecideRetry(t)
      PROVE  SignalTypes'
  BY <1>1 DEF Create, CreateFails, Completion, Decide, DecidePlan, Deliver, DecideRetry, SignalTypes
<1>2. ASSUME NEW t \in Thought, Prepare(t) \/ NoCompletion(t) \/ Keep(t) \/ PlanCompleted(t)
      PROVE  SignalTypes'
  <2>1. late' = late /\ abortedTasks' = abortedTasks /\ abortedScopes' = abortedScopes
        /\ live' = live /\ crashed' = crashed
    BY <1>2 DEF Prepare, NoCompletion, Keep, PlanCompleted
  <2>2. claimed' = claimed \/ claimed' = TRUE
    BY <1>2 DEF Prepare, NoCompletion, Keep, PlanCompleted, Settled, NobodyTold, Deliver
  <2> QED
    BY <2>1, <2>2 DEF SignalTypes
<1>3. ASSUME NEW t \in Thought, Pass(t) PROVE SignalTypes'
  BY <1>3 DEF Pass, SignalTypes
<1>4. ASSUME NEW t \in Thought, LateWrite(t) \/ CancelTask(t) PROVE SignalTypes'
  BY <1>4 DEF LateWrite, CancelTask, SignalTypes
<1>5. ASSUME NEW r \in Fork, NEW t \in Peer, Reprocess(r, t) PROVE SignalTypes'
  BY <1>5 DEF Reprocess, SignalTypes
<1>6. ASSUME NEW s \in Fork \cup {"turn"}, AbortScope(s) PROVE SignalTypes'
  BY <1>6 DEF AbortScope, SignalTypes
<1>7. ASSUME CrashNow \/ Sweep \/ Retrieve \/ UNCHANGED thoughtVars PROVE SignalTypes'
  BY <1>7 DEF CrashNow, Sweep, Retrieve, thoughtVars, SignalTypes
<1> QED
  BY <1>1, <1>2, <1>3, <1>4, <1>5, <1>6, <1>7 DEF ThoughtsNext, ThoughtsWork
---------------------------------------------------------------------------
(* Statuses through a step. *)

(* A thought that does not move and is not made to run keeps the invariant. *)
LEMMA OthersRest ==
  ASSUME Types, StatusInv, [ThoughtsNext]_thoughtVars, live, NEW u \in Thought,
         at'[u] = at[u], status'[u] = status[u] \/ status'[u] # "running", Rests(u)'
  PROVE  status'[u] # "running"
<1>1. Rests(u)
  BY StopsStay DEF Rests
<1> QED
  BY <1>1 DEF StatusInv

(* One thought moves: it is enough to look at that one. *)
LEMMA OneRests ==
  ASSUME Types, StatusInv, [ThoughtsNext]_thoughtVars, live,
         NEW t \in Thought, NEW s \in ThoughtStage, To(t, s),
         \A u \in Thought : u # t => status'[u] = status[u],
         Rests(t)' => status'[t] # "running"
  PROVE  StatusInv'
<1>1. ASSUME NEW u \in Thought, Rests(u)' PROVE status'[u] # "running"
  <2>1. CASE u = t
    BY <1>1, <2>1
  <2>2. CASE u # t
    BY <1>1, <2>2, OneMoves, OthersRest
  <2> QED
    BY <2>1, <2>2
<1> QED
  BY <1>1 DEF StatusInv

LEMMA SettledRests ==
  ASSUME Types, StatusInv, [ThoughtsNext]_thoughtVars, live,
         NEW t \in Thought, Settled(t),
         \A u \in Thought : u # t => status'[u] = status[u],
         Stopped(t) \/ status'[t] # "running"
  PROVE  StatusInv'
<1>1. "over" \in ThoughtStage /\ To(t, "over")
  BY DEF ThoughtStage, Settled
<1>2. Rests(t)' => status'[t] # "running"
  <2>1. at'[t] = "over"
    BY <1>1, OneMoves
  <2> QED
    BY <2>1, StopsStay DEF Rests
<1> QED
  BY <1>1, <1>2, OneRests

LEMMA MarkOne ==
  ASSUME Types, NEW t \in Thought, NEW v, Mark(t, v)
  PROVE  status'[t] = v /\ \A u \in Thought : u # t => status'[u] = status[u]
BY DEF Types, Mark

LEMMA StatusKept ==
  ASSUME Types, StatusInv, [ThoughtsNext]_thoughtVars
  PROVE  StatusInv'
<1> USE DEF outcome, signals, life
<1>0. {"idle", "prepare", "over", "reason", "keep", "decide", "barrier", "complete"} \subseteq ThoughtStage
  BY DEF ThoughtStage
<1>1. ASSUME NEW t \in Thought, Create(t) PROVE StatusInv'
  <2>1. live /\ To(t, "prepare") /\ Mark(t, "running")
    BY <1>1 DEF Create
  <2>2. ~Rests(t)'
    BY <1>0, <2>1, OneMoves DEF Rests
  <2> QED
    BY <1>0, <2>1, <2>2, MarkOne, OneRests
<1>2. ASSUME NEW t \in Thought, CreateFails(t) PROVE StatusInv'
  <2>1. live /\ at[t] = "create" /\ To(t, "over") /\ status' = status
    BY <1>2 DEF CreateFails
  <2>2. status[t] # "running"
    BY <2>1 DEF StatusInv, Rests
  <2> QED
    BY <1>0, <2>1, <2>2, OneRests
<1>3. ASSUME NEW t \in Thought, Prepare(t) PROVE StatusInv'
  <2>1. live /\ status' = status
    BY <1>3 DEF Prepare
  <2>2. CASE Aborted(t)
    BY <1>3, <2>1, <2>2, SettledRests DEF Prepare, Stopped
  <2>3. CASE ~Aborted(t)
    <3>1. To(t, "reason")
      BY <1>3, <2>3 DEF Prepare
    <3>2. ~Rests(t)'
      BY <1>0, <3>1, OneMoves DEF Rests
    <3> QED
      BY <1>0, <2>1, <3>1, <3>2, OneRests
  <2> QED
    BY <2>2, <2>3
<1>4. ASSUME NEW t \in Thought, Completion(t) PROVE StatusInv'
  <2>1. live /\ status' = status /\ To(t, "keep")
    BY <1>4 DEF Completion
  <2>2. ~Rests(t)'
    BY <1>0, <2>1, OneMoves DEF Rests
  <2> QED
    BY <1>0, <2>1, <2>2, OneRests
<1>5. ASSUME NEW t \in Thought, NoCompletion(t) PROVE StatusInv'
  <2>1. live /\ Settled(t)
    BY <1>5 DEF NoCompletion
  <2>2. CASE Stopped(t) /\ status' = status
    BY <2>1, <2>2, SettledRests
  <2>3. CASE Mark(t, "failed")
    BY <2>1, <2>3, MarkOne, SettledRests
  <2> QED
    BY <1>5, <2>2, <2>3 DEF NoCompletion
<1>6. ASSUME NEW t \in Thought, Keep(t) PROVE StatusInv'
  <2>1. live /\ Mark(t, stale[t])
    BY <1>6 DEF Keep
  <2>2. \A u \in Thought : u # t => status'[u] = status[u]
    BY <2>1, MarkOne
  <2>3. CASE Aborted(t)
    BY <1>6, <2>1, <2>2, <2>3, SettledRests DEF Keep, Stopped
  <2>4. CASE ~Aborted(t)
    <3>1. To(t, "decide")
      BY <1>6, <2>4 DEF Keep
    <3>2. ~Rests(t)'
      BY <1>0, <3>1, OneMoves DEF Rests
    <3> QED
      BY <1>0, <2>1, <2>2, <3>1, <3>2, OneRests
  <2> QED
    BY <2>3, <2>4
<1>7. ASSUME NEW t \in Thought, Decide(t) PROVE StatusInv'
  <2>1. live /\ status' = status /\ To(t, "barrier")
    BY <1>7 DEF Decide
  <2>2. ~Rests(t)'
    BY <1>0, <2>1, OneMoves DEF Rests
  <2> QED
    BY <1>0, <2>1, <2>2, OneRests
<1>8. ASSUME NEW t \in Thought, Pass(t) PROVE StatusInv'
  <2>1. live /\ To(t, "over") /\ Mark(t, "completed")
    BY <1>8 DEF Pass
  <2> QED
    BY <1>0, <2>1, MarkOne, OneRests
<1>9. ASSUME NEW t \in Thought, DecidePlan(t) PROVE StatusInv'
  <2>1. live /\ status' = status /\ To(t, "complete")
    BY <1>9 DEF DecidePlan
  <2>2. ~Rests(t)'
    BY <1>0, <2>1, OneMoves DEF Rests
  <2> QED
    BY <1>0, <2>1, <2>2, OneRests
<1>10. ASSUME NEW t \in Thought, PlanCompleted(t) PROVE StatusInv'
  <2>1. live /\ Settled(t) /\ Mark(t, "completed")
    BY <1>10 DEF PlanCompleted
  <2> QED
    BY <2>1, MarkOne, SettledRests
<1>11. ASSUME NEW t \in Thought, DecideRetry(t) PROVE StatusInv'
  <2>1. live /\ To(t, "over")
    BY <1>11 DEF DecideRetry
  <2>2. CASE owner = "plan"
    BY <1>0, <1>11, <2>1, <2>2, MarkOne, OneRests DEF DecideRetry
  <2>3. CASE owner # "plan" /\ Aborted(t)
    <3>1. \A u \in Thought : status'[u] = status[u]
      BY <1>11, <2>3 DEF DecideRetry, Types
    <3>2. ~Rests(t)'
      BY <1>0, <2>1, <2>3, OneMoves, StopsStay DEF Rests, Stopped
    <3> QED
      BY <1>0, <2>1, <3>1, <3>2, OneRests
  <2>4. CASE owner # "plan" /\ ~Aborted(t)
    <3>1. Mark(t, "failed")
      BY <1>11, <2>4 DEF DecideRetry, Mark, Types
    <3> QED
      BY <1>0, <2>1, <3>1, MarkOne, OneRests
  <2> QED
    BY <2>2, <2>3, <2>4
<1>12. ASSUME NEW r \in Fork, NEW t \in Peer, Reprocess(r, t) PROVE StatusInv'
  <2>1. live /\ r \in Thought /\ To(r, "reason") /\ Mark(r, "running")
    BY <1>12 DEF Reprocess, Thought
  <2>2. ~Rests(r)'
    BY <1>0, <2>1, OneMoves DEF Rests
  <2> QED
    BY <1>0, <2>1, <2>2, MarkOne, OneRests
<1>13. ASSUME NEW t \in Thought, LateWrite(t) PROVE StatusInv'
  <2>1. live /\ at' = at /\ Mark(t, "cancelled")
    BY <1>13 DEF LateWrite
  <2>2. \A u \in Thought : status'[u] = status[u] \/ status'[u] # "running"
    BY <2>1, MarkOne
  <2> QED
    BY <2>1, <2>2, OthersRest DEF StatusInv
<1>14. CASE CrashNow
  BY <1>14 DEF CrashNow, StatusInv
<1>15. CASE Sweep
  <2>1. \A u \in Thought : status'[u] # "running"
    BY <1>15 DEF Sweep
  <2> QED
    BY <2>1 DEF StatusInv
<1>16. ASSUME \/ (\E s \in Fork \cup {"turn"} : AbortScope(s))
              \/ (\E t \in Thought : CancelTask(t)) \/ Retrieve \/ UNCHANGED thoughtVars
       PROVE  StatusInv'
  <2>1. live' = live /\ at' = at /\ status' = status
    BY <1>16 DEF AbortScope, CancelTask, Retrieve, thoughtVars
  <2> QED
    BY <2>1, OthersRest DEF StatusInv
<1> QED
  BY <1>1, <1>2, <1>3, <1>4, <1>5, <1>6, <1>7, <1>8, <1>9, <1>10, <1>11, <1>12, <1>13, <1>14,
     <1>15, <1>16 DEF ThoughtsNext, ThoughtsWork
---------------------------------------------------------------------------
LEMMA ThoughtsInitInv == ThoughtsInit => ThoughtsInv
<1> SUFFICES ASSUME ThoughtsInit PROVE ThoughtsInv
  OBVIOUS
<1>1. Types
  BY DEF ThoughtsInit, Types, ThoughtStage, Status
<1>2. PlannerInv
  BY DEF ThoughtsInit, PlannerInv
<1>3. StatusInv
  BY DEF ThoughtsInit, StatusInv
<1>4. SignalTypes
  BY DEF ThoughtsInit, SignalTypes
<1> QED
  BY <1>1, <1>2, <1>3, <1>4 DEF ThoughtsInv

LEMMA ThoughtsInductive == ThoughtsInv /\ [ThoughtsNext]_thoughtVars => ThoughtsInv'
BY ThoughtsStepShape, PlannerKept, ThoughtsTypesKept, SignalTypesKept, StatusKept DEF ThoughtsInv

LEMMA ThoughtsInvariant == ThoughtsSpec => []ThoughtsInv
BY ThoughtsInitInv, ThoughtsInductive, PTL DEF ThoughtsSpec
---------------------------------------------------------------------------
(* "exactly one winner": one planner, after every summary is on its entry   *)
(* or its thought is over, however the thoughts end.                        *)
THEOREM OnePlannerProved == ThoughtsSpec => []OnePlannerAfterAll
<1>1. ThoughtsInv => OnePlannerAfterAll
  BY DEF ThoughtsInv, PlannerInv, OnePlannerAfterAll
<1> QED
  BY <1>1, ThoughtsInvariant, PTL

(* A thought that is over and was not cancelled has a final status, in any  *)
(* order of the completion's merge, the listener's write and the sweep.     *)
THEOREM SettledStatusProved == ThoughtsSpec => []SettledStatus
<1>1. ThoughtsInv => SettledStatus
  BY DEF ThoughtsInv, StatusInv, Rests, SettledStatus
<1> QED
  BY <1>1, ThoughtsInvariant, PTL

(* Every variable of the thoughts has its type; planners are counted.       *)
THEOREM ThoughtsTypeCorrect == ThoughtsSpec => []ThoughtsTypeOK
<1>1. ThoughtsInv => ThoughtsTypeOK
  BY DEF ThoughtsInv, Types, SignalTypes, PlannerInv, ThoughtsTypeOK
<1> QED
  BY <1>1, ThoughtsInvariant, PTL
=============================================================================
