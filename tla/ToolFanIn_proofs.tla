------------------------ MODULE ToolFanIn_proofs ------------------------
(* Safety of the tool fan-in, for every batch size and any set of requests. *)
EXTENDS ToolFanIn, TLAPS

(* The runs under which an approval may both be edited and be refused after *)
(* its edit was merged are left out: there the merge of a stale state has   *)
(* nobody to overwrite it.                                                  *)
NoEditRefused == ~("edit" \in Env /\ "refuse" \in Env)

(* Where job j stands when it will still write its member's entry: a retry  *)
(* may be refused first.                                                    *)
Exec(j) == IF "edit" \in Env /\ j \notin force THEN Granted \cup {"tool"} ELSE {"tool"}

(* A request has been made about m. *)
Clicked(m) == \E c \in Click : pc[c] # "idle" /\ of[c] = m

(* The planner creates the whole chain before it dispatches any of it. *)
ChainInv ==
    /\ planner = "create" => \A m \in Member :
           pc[m] = "idle" /\ (m >= next => entry[m] = "absent")
    /\ planner = "dispatch" => \A m \in Member : m >= next => pc[m] = "idle"

(* Nothing survives a crash but the entries. *)
DownInv ==
    ~up => /\ checks = <<>> /\ stage = "count" /\ planner = "over"
           /\ \A j \in Job : pc[j] \notin Busy

(* Until its dispatch is over, an entry belongs to that dispatch alone. *)
OwnerInv ==
    /\ \A m \in Member : pc[m] \in Dispatching \cup {"idle"} =>
           entry[m] \in {"absent", "resolving"} /\ ~Clicked(m)
    /\ \A m \in Member : pc[m] = "tool" => entry[m] = "running" /\ ~Clicked(m)
    /\ \A j \in Job : j \in Member => pc[j] \notin Granted \cup {"denying"}
    /\ \A c \in Click : pc[c] \notin Dispatching
    /\ "edit" \notin Env => \A c \in Click : pc[c] \notin {"edit", "merge"}

(* A refused call was never put before the user. *)
BlockedInv ==
    /\ \A m \in Member : entry[m] = "blocked" => ~Clicked(m)
    /\ \A c \in Click : pc[c] = "merge" => seen[c] # "blocked"

(* Only an approval is edited. *)
ForceInv == \A c \in Click : pc[c] \in {"idle", "edit", "merge"} => c \notin force

ExecInv ==
    up => \A m \in Member : entry[m] = "running" =>
              \E j \in Job : Of(j) = m /\ pc[j] \in Exec(j)

(* The check past its count holds a batch that is decided, or is being run anew. *)
CountInv ==
    stage # "count" =>
        /\ checks # <<>>
        /\ \A m \in Member : entry[m] \in Terminal \/
               \E c \in Click : of[c] = m /\ pc[c] \in Exec(c)

(* The check past its guard is the only one that can start a continuation. *)
GuardInv ==
    (stage = "start" /\ Head(checks) \notin force) => \A j \in Job : reaction[j] = "none"

IInv ==
    /\ TypeOK /\ ChainInv /\ DownInv /\ OwnerInv
    /\ BlockedInv /\ ExecInv /\ CountInv
    /\ GuardInv /\ OneReaction /\ ForceInv
---------------------------------------------------------------------------
LEMMA InitInv == Init => IInv
<1> SUFFICES ASSUME Init PROVE IInv
    OBVIOUS
<1> USE FanInAssumption DEF Init
<1>1. TypeOK
    BY DEF TypeOK, Member, Job, Scope, EntryState, Terminal
<1>2. ChainInv /\ DownInv /\ BlockedInv /\ CountInv /\ GuardInv /\ OneReaction /\ ForceInv
    BY DEF ChainInv, DownInv, BlockedInv, CountInv, GuardInv, OneReaction, ForceInv,
           Member, Job
<1>3. OwnerInv
    BY DEF OwnerInv, Clicked, Dispatching, Runnable, Granted, Job
<1>4. ExecInv
    BY DEF ExecInv
<1> QED
    BY <1>1, <1>2, <1>3, <1>4 DEF IInv

LEMMA TypeStep == TypeOK /\ [Next]_vars => TypeOK'
<1> SUFFICES ASSUME TypeOK, [Next]_vars PROVE TypeOK'
    OBVIOUS
<1> USE FanInAssumption DEF TypeOK, Write, Goto, entries, plan, jobs, queue, runs, process
<1>1. CASE CreateMember
    BY <1>1 DEF CreateMember, Member, EntryState
<1>2. CASE DispatchMember
    BY <1>2 DEF DispatchMember, Member, Job, Busy, Dispatching, Runnable
<1>3. CASE PlannerAborts
    BY <1>3 DEF PlannerAborts
<1>4. ASSUME NEW m \in Member, Dispatch(m) PROVE TypeOK'
  <2> USE DEF Job, Busy, Dispatching, Runnable
  <2>1. CASE Resolve(m) \/ Guard(m) \/ DispatchLost(m)
    BY <2>1 DEF Resolve, Guard, DispatchLost
  <2>2. CASE ResolveUnparsable(m) \/ Forbid(m) \/ AskUser(m)
    BY <2>2 DEF ResolveUnparsable, Forbid, AskUser, EntryState, Terminal
  <2>3. CASE Reject(m)
    BY <2>3 DEF Reject, EntryState, Terminal
  <2> QED
    BY <1>4, <2>1, <2>2, <2>3 DEF Dispatch
<1>5. ASSUME NEW c \in Click, Request(c) PROVE TypeOK'
  <2>1. PICK m \in Member : Approve(c, m) \/ Deny(c, m) \/ Retry(c, m)
    BY <1>5 DEF Request
  <2>2. ASSUME NEW l \in {"granted", "edit", "denying"}, Accept(c, m, l),
               force' = force \/ force' = force \cup {c}
        PROVE  TypeOK'
    BY <2>2 DEF Accept, Job, Scope, Busy, Granted
  <2> QED
    BY <2>1, <2>2 DEF Approve, Deny, Retry
<1>6. ASSUME NEW c \in Click, Handle(c) PROVE TypeOK'
  <2>1. CASE EditFetch(c) \/ EditMerge(c)
    BY <2>1 DEF EditFetch, EditMerge, Job, Busy, Granted, EntryState, Terminal
  <2>2. CASE Refuse(c)
    BY <2>2 DEF Refuse, Job, Busy
  <2>3. CASE DenyWrite(c)
    BY <2>3 DEF DenyWrite, Job, Busy, EntryState, Terminal
  <2> QED
    BY <1>6, <2>1, <2>2, <2>3 DEF Handle
<1>7. ASSUME NEW j \in Job, RunTool(j) PROVE TypeOK'
  <2>1. Of(j) \in Member
    BY DEF Of, Job
  <2>2. CASE StartTool(j)
    BY <2>1, <2>2 DEF StartTool, Busy, EntryState
  <2>3. CASE ToolEnds(j) \/ ToolAborts(j)
    BY <2>1, <2>3 DEF ToolEnds, ToolAborts, Busy, EntryState, Terminal
  <2>4. CASE MemberResolved(j)
    BY <2>4 DEF MemberResolved
  <2> QED
    BY <1>7, <2>2, <2>3, <2>4 DEF RunTool
<1>8. ASSUME NEW j \in Job, ReactionEnds(j) PROVE TypeOK'
    BY <1>8 DEF ReactionEnds
<1>9. CASE Check
  <2>1. checks # <<>> => Head(checks) \in Job /\ Tail(checks) \in Seq(Job)
    OBVIOUS
  <2>2. CASE CheckCount \/ CheckChild
    BY <2>1, <2>2 DEF CheckCount, CheckChild, CheckDone
  <2>3. CASE CheckStart
    BY <2>1, <2>3 DEF CheckStart, CheckDone
  <2> QED
    BY <1>9, <2>2, <2>3 DEF Check
<1>10. CASE Cancel \/ Post \/ TurnEnds
    BY <1>10 DEF Cancel, Post, TurnEnds, Scope
<1>11. CASE Crash
  <2>1. crashes' \in 0..MaxCrash
    BY <1>11 DEF Crash
  <2>2. pc' \in [Job -> Busy \cup {"idle", "over"}]
    BY <1>11 DEF Crash
  <2>3. reaction' \in [Job -> {"none", "tracked", "detached", "over"}]
    BY <1>11 DEF Crash
  <2>4. checks' \in Seq(Job)
    BY <1>11 DEF Crash
  <2> QED
    BY <1>11, <2>1, <2>2, <2>3, <2>4 DEF Crash
<1>12. CASE BootSweep
    BY <1>12 DEF BootSweep, EntryState, Terminal
<1>13. CASE UNCHANGED vars
    BY <1>13 DEF vars
<1> QED
    BY <1>1, <1>2, <1>3, <1>4, <1>5, <1>6, <1>7, <1>8, <1>9, <1>10, <1>11, <1>12, <1>13
    DEF Next, Planner

THEOREM TypeCorrect == Spec => []TypeOK
<1>1. Init => TypeOK
    BY InitInv DEF IInv
<1> QED
    BY <1>1, TypeStep, PTL DEF Spec
---------------------------------------------------------------------------
(* What one step of a job does to the state the invariants speak of. *)
LEMMA DispatchShape ==
  ASSUME NEW m \in Member, Dispatch(m)
  PROVE  /\ pc[m] \in Dispatching
         /\ UNCHANGED <<planner, next, of, force, seen, checks, stage, reaction, up>>
         /\ \/ \E l \in Dispatching \cup {"over"} : pc' = [pc EXCEPT ![m] = l] /\ entry' = entry
            \/ pc' = [pc EXCEPT ![m] = "settled"] /\ entry' = [entry EXCEPT ![m] = "blocked"]
            \/ pc' = [pc EXCEPT ![m] = "over"] /\ entry' = [entry EXCEPT ![m] = "requested"]
  <1> USE DEF Dispatching, Runnable, Write, Goto, entries, plan, jobs, queue, runs, process
  <1>1. CASE Resolve(m) \/ Guard(m) \/ DispatchLost(m)
    BY <1>1 DEF Resolve, Guard, DispatchLost
  <1>2. CASE ResolveUnparsable(m) \/ Forbid(m) \/ AskUser(m)
    BY <1>2 DEF ResolveUnparsable, Forbid, AskUser
  <1>3. CASE Reject(m)
    BY <1>3 DEF Reject
  <1> QED
    BY <1>1, <1>2, <1>3 DEF Dispatch

LEMMA RequestShape ==
  ASSUME NEW c \in Click, Request(c)
  PROVE  /\ pc[c] = "idle" /\ entry' = entry
         /\ UNCHANGED <<planner, next, seen, checks, stage, reaction, up>>
         /\ force' = force \/ force' = force \cup {c}
         /\ \E m \in Member, l \in {"granted", "edit", "denying"} :
               /\ entry[m] \in {"requested", "failed"}
               /\ of' = [of EXCEPT ![c] = m] /\ pc' = [pc EXCEPT ![c] = l]
               /\ l = "edit" => "edit" \in Env /\ force' = force
  <1>1. PICK m \in Member : Approve(c, m) \/ Deny(c, m) \/ Retry(c, m)
    BY DEF Request
  <1> QED
    BY <1>1 DEF Approve, Deny, Retry, Accept, Goto, entries, plan, queue, process

LEMMA HandleShape ==
  ASSUME NEW c \in Click, Handle(c)
  PROVE  /\ UNCHANGED <<planner, next, of, force, checks, stage, reaction, up>>
         /\ seen' = seen \/ seen' = [seen EXCEPT ![c] = entry[of[c]]]
         /\ \/ pc[c] = "edit" /\ pc' = [pc EXCEPT ![c] = "merge"] /\ entry' = entry
            \/ /\ pc[c] = "merge" /\ pc' = [pc EXCEPT ![c] = "granted"]
               /\ entry' = [entry EXCEPT ![of[c]] = seen[c]]
            \/ /\ pc[c] = "granted" /\ pc' = [pc EXCEPT ![c] = "over"]
               /\ entry' = entry /\ ("refuse" \in Env \/ c \in force)
            \/ /\ pc[c] = "denying" /\ pc' = [pc EXCEPT ![c] = "settled"]
               /\ entry' = [entry EXCEPT ![of[c]] = "denied"]
  BY DEF Handle, EditFetch, EditMerge, Refuse, DenyWrite, Write, Goto,
         plan, queue, runs, process, entries

LEMMA RunShape ==
  ASSUME NEW j \in Job, RunTool(j)
  PROVE  /\ UNCHANGED <<planner, next, of, force, seen, stage, reaction, up>>
         /\ \/ /\ pc[j] \in (IF j \in Member THEN Runnable ELSE {"granted"})
               /\ pc' = [pc EXCEPT ![j] = "tool"] /\ checks' = checks
               /\ entry' = [entry EXCEPT ![Of(j)] = "running"]
            \/ /\ pc[j] = "tool" /\ checks' = checks
               /\ \E l \in {"settled", "over"} : pc' = [pc EXCEPT ![j] = l]
               /\ \E s \in {"done", "failed"} : entry' = [entry EXCEPT ![Of(j)] = s]
            \/ /\ pc[j] = "settled" /\ pc' = [pc EXCEPT ![j] = "over"] /\ entry' = entry
               /\ checks' = checks \/ checks' = Append(checks, j)
  <1> USE DEF Write, Goto, entries, plan, queue, runs, process
  <1>1. CASE StartTool(j)
    BY <1>1 DEF StartTool
  <1>2. CASE ToolEnds(j) \/ ToolAborts(j)
    BY <1>2 DEF ToolEnds, ToolAborts
  <1>3. CASE MemberResolved(j)
    BY <1>3 DEF MemberResolved
  <1> QED
    BY <1>1, <1>2, <1>3 DEF RunTool

(* The remaining steps write no entry and move no job. *)
Aside ==
    \/ PlannerAborts \/ CheckCount \/ CheckChild \/ CheckStart
    \/ \E j \in Job : ReactionEnds(j)
    \/ Cancel \/ Post \/ TurnEnds \/ UNCHANGED vars

LEMMA AsideShape ==
  ASSUME Aside
  PROVE  /\ UNCHANGED <<entry, pc, of, force, seen, next, up>>
         /\ planner' = planner \/ planner' = "over"
  BY DEF Aside, PlannerAborts, CheckCount, CheckChild, CheckStart, ReactionEnds, Cancel, Post,
         TurnEnds, vars, entries, plan, jobs, queue, runs, process

LEMMA StepCases ==
  ASSUME [Next]_vars
  PROVE  \/ CreateMember \/ DispatchMember \/ Aside \/ Crash \/ BootSweep
         \/ \E m \in Member : Dispatch(m)
         \/ \E c \in Click : Request(c) \/ Handle(c)
         \/ \E j \in Job : RunTool(j)
  BY DEF Next, Planner, Check, Aside

LEMMA JobFacts ==
  /\ Click \cap Member = {} /\ Member \subseteq Job /\ Click \subseteq Job
  /\ TypeOK => \A j \in Job : Of(j) \in Member
  BY FanInAssumption DEF Member, Job, Of, TypeOK
---------------------------------------------------------------------------
(* The planner's loop. *)
LEMMA ChainStep == IInv /\ [Next]_vars => ChainInv'
<1> SUFFICES ASSUME TypeOK, ChainInv, OwnerInv, [Next]_vars PROVE ChainInv'
    BY DEF IInv
<1> USE JobFacts DEF ChainInv
<1>1. CASE CreateMember
  <2>1. /\ planner = "create" /\ next \in Member /\ pc' = pc
        /\ entry' = [entry EXCEPT ![next] = "resolving"]
        /\ IF next = N THEN planner' = "dispatch" /\ next' = 1
                       ELSE planner' = planner /\ next' = next + 1
    BY <1>1 DEF CreateMember, TypeOK, Write, jobs
  <2>2. CASE next = N
    BY <2>1, <2>2
  <2>3. ASSUME next # N, NEW m \in Member, m >= next' PROVE entry'[m] = "absent"
    BY <2>1, <2>3, FanInAssumption DEF TypeOK, Member
  <2>4. CASE next # N
    BY <2>1, <2>3, <2>4
  <2> QED
    BY <2>2, <2>4
<1>2. CASE DispatchMember
    BY <1>2, FanInAssumption DEF TypeOK, DispatchMember, Member, Goto
<1>3. CASE Aside
    BY <1>3, AsideShape
<1>4. ASSUME UNCHANGED <<planner, next>>, NEW k \in Member, pc[k] # "idle",
             \A m \in Member : m # k => pc'[m] = pc[m] /\ entry'[m] = entry[m]
      PROVE  ChainInv'
  <2>1. planner # "create" /\ (planner = "dispatch" => ~(k >= next))
    BY <1>4
  <2> QED
    BY <1>4, <2>1
<1>5. ASSUME NEW m \in Member, Dispatch(m) PROVE ChainInv'
    BY <1>4, <1>5, DispatchShape DEF TypeOK, Dispatching, Runnable
<1>6. ASSUME NEW c \in Click, Request(c) PROVE ChainInv'
  <2>1. \A m \in Member : pc'[m] = pc[m]
    BY <1>6, RequestShape DEF TypeOK
  <2> QED
    BY <1>6, <2>1, RequestShape
<1>7. ASSUME NEW c \in Click, Handle(c) PROVE ChainInv'
  <2>1. of[c] \in Member /\ pc[of[c]] # "idle"
    BY <1>7, HandleShape DEF TypeOK, OwnerInv, Clicked
  <2>2. \A m \in Member : m # of[c] => pc'[m] = pc[m] /\ entry'[m] = entry[m]
    BY <1>7, HandleShape DEF TypeOK
  <2> QED
    BY <1>4, <1>7, <2>1, <2>2, HandleShape
<1>8. ASSUME NEW j \in Job, RunTool(j) PROVE ChainInv'
  <2>1. pc[Of(j)] # "idle"
    BY <1>8, RunShape DEF TypeOK, OwnerInv, Clicked, Of, Job, Runnable
  <2>2. \A m \in Member : m # Of(j) => pc'[m] = pc[m] /\ entry'[m] = entry[m]
    BY <1>8, RunShape DEF TypeOK, Of
  <2> QED
    BY <1>4, <1>8, <2>1, <2>2, RunShape
<1>9. CASE Crash \/ BootSweep
    BY <1>9 DEF Crash, BootSweep, plan, jobs
<1> QED
    BY <1>1, <1>2, <1>3, <1>5, <1>6, <1>7, <1>8, <1>9, StepCases
---------------------------------------------------------------------------
LEMMA DownStep == IInv /\ [Next]_vars => DownInv'
<1> SUFFICES ASSUME TypeOK, DownInv, [Next]_vars PROVE DownInv'
    BY DEF IInv
<1>1. CASE Crash
  <2>1. \A j \in Job : pc'[j] \notin Busy
    BY <1>1 DEF Crash, Busy, Dispatching, Runnable, Granted
  <2> QED
    BY <1>1, <2>1 DEF Crash, DownInv
<1>2. CASE up /\ UNCHANGED up
    BY <1>2 DEF DownInv, TypeOK
<1>3. CASE BootSweep
    BY <1>3 DEF BootSweep, DownInv
<1>4. CASE UNCHANGED vars
    BY <1>4 DEF vars, DownInv, plan, jobs, queue, process
<1>5. CASE Aside
    BY <1>2, <1>4, <1>5 DEF Aside, PlannerAborts, CheckCount, CheckChild, CheckStart,
       ReactionEnds, Cancel, Post, TurnEnds, process
<1>6. CASE CreateMember \/ DispatchMember
    BY <1>2, <1>6 DEF CreateMember, DispatchMember, process
<1>7. ASSUME NEW m \in Member, Dispatch(m) PROVE up /\ UNCHANGED up
    BY <1>7 DEF Dispatch, Resolve, ResolveUnparsable, Guard, DispatchLost, Forbid, AskUser,
                Reject, process
<1>8. ASSUME NEW c \in Click, Request(c) \/ Handle(c) PROVE up /\ UNCHANGED up
    BY <1>8 DEF Request, Approve, Deny, Retry, Accept, Handle, EditFetch, EditMerge, Refuse,
                DenyWrite, process
<1>9. ASSUME NEW j \in Job, RunTool(j) PROVE up /\ UNCHANGED up
    BY <1>9 DEF RunTool, StartTool, ToolEnds, ToolAborts, MemberResolved, process
<1> QED
    BY <1>1, <1>2, <1>3, <1>5, <1>6, <1>7, <1>8, <1>9, StepCases
---------------------------------------------------------------------------
(* Until its dispatch is over, only the dispatch writes an entry. *)
LEMMA OwnerStep == IInv /\ [Next]_vars => OwnerInv'
<1> SUFFICES ASSUME TypeOK, ChainInv, DownInv, OwnerInv, [Next]_vars PROVE OwnerInv'
    BY DEF IInv
<1> USE JobFacts
<1>1. CASE CreateMember
  <2>1. next \in Member /\ pc[next] = "idle"
    BY <1>1 DEF TypeOK, ChainInv, CreateMember
  <2>2. UNCHANGED <<pc, of>> /\ entry' = [entry EXCEPT ![next] = "resolving"]
    BY <1>1 DEF CreateMember, Write, jobs
  <2> QED
    BY <2>1, <2>2 DEF TypeOK, OwnerInv, Clicked
<1>2. CASE DispatchMember
  <2>1. next \in Member /\ pc[next] = "idle"
    BY <1>2 DEF TypeOK, ChainInv, DispatchMember
  <2>2. pc' = [pc EXCEPT ![next] = "resolve"] /\ UNCHANGED <<of, entry>>
    BY <1>2 DEF DispatchMember, Goto, entries
  <2>3. \A c \in Click : pc'[c] = pc[c]
    BY <2>1, <2>2 DEF TypeOK
  <2> QED
    BY <2>1, <2>2, <2>3 DEF TypeOK, OwnerInv, Clicked, Dispatching, Runnable, Granted
<1>3. CASE Aside
    BY <1>3, AsideShape DEF OwnerInv, Clicked
<1>4. ASSUME NEW m \in Member, Dispatch(m) PROVE OwnerInv'
  <2>1. \A c \in Click : pc'[c] = pc[c]
    BY <1>4, DispatchShape DEF TypeOK
  <2>2. \A i \in Member : Clicked(i)' <=> Clicked(i)
    BY <1>4, <2>1, DispatchShape DEF Clicked
  <2>3. \A i \in Member : i # m => pc'[i] = pc[i] /\ entry'[i] = entry[i]
    BY <1>4, DispatchShape DEF TypeOK
  <2>4. \/ pc'[m] \in Dispatching /\ entry'[m] = entry[m]
        \/ pc'[m] \in {"over", "settled"}
    BY <1>4, DispatchShape DEF TypeOK
  <2>5. pc[m] \in Dispatching
    BY <1>4, DispatchShape
  <2> QED
    BY <2>1, <2>2, <2>3, <2>4, <2>5 DEF OwnerInv, Dispatching, Runnable, Granted, Job
<1>5. ASSUME NEW c \in Click, Request(c) PROVE OwnerInv'
  <2>1. PICK m \in Member, l \in {"granted", "edit", "denying"} :
            /\ entry[m] \in {"requested", "failed"}
            /\ of' = [of EXCEPT ![c] = m] /\ pc' = [pc EXCEPT ![c] = l]
            /\ l = "edit" => "edit" \in Env
    BY <1>5, RequestShape
  <2>2. \A i \in Member : pc'[i] = pc[i] /\ entry'[i] = entry[i]
    BY <1>5, <2>1, RequestShape DEF TypeOK
  <2>3. \A i \in Member : i # m => (Clicked(i)' => Clicked(i))
    BY <2>1 DEF TypeOK, Clicked
  <2>4. pc[m] \notin Dispatching \cup {"idle", "tool"}
    BY <2>1 DEF OwnerInv
  <2>5. \A d \in Click : pc'[d] = pc[d] \/ (d = c /\ pc'[d] = l)
    BY <2>1 DEF TypeOK
  <2>6. /\ \A d \in Click : pc'[d] \notin Dispatching
        /\ "edit" \notin Env => \A d \in Click : pc'[d] \notin {"edit", "merge"}
    BY <2>1, <2>5 DEF OwnerInv, Dispatching, Runnable
  <2> QED
    BY <2>2, <2>3, <2>4, <2>6 DEF OwnerInv
<1>6. ASSUME NEW c \in Click, Handle(c) PROVE OwnerInv'
  <2>1. of[c] \in Member /\ Clicked(of[c]) /\ of' = of
    BY <1>6, HandleShape DEF TypeOK, Clicked
  <2>2. \A i \in Member : pc'[i] = pc[i] /\ (i # of[c] => entry'[i] = entry[i])
    BY <1>6, <2>1, HandleShape DEF TypeOK
  <2>3. \A d \in Click : \/ pc'[d] = pc[d]
                         \/ d = c /\ pc[d] # "idle" /\ pc'[d] \in {"granted", "over", "settled"}
                         \/ d = c /\ pc[d] = "edit" /\ pc'[d] = "merge"
    BY <1>6, HandleShape DEF TypeOK
  <2>4. \A i \in Member : Clicked(i)' => Clicked(i)
    BY <2>1, <2>3 DEF Clicked
  <2>5. /\ \A d \in Click : pc'[d] \notin Dispatching
        /\ "edit" \notin Env => \A d \in Click : pc'[d] \notin {"edit", "merge"}
    BY <2>3 DEF OwnerInv, Dispatching, Runnable
  <2>6. pc[of[c]] \notin Dispatching \cup {"idle", "tool"}
    BY <2>1 DEF OwnerInv
  <2> QED
    BY <2>2, <2>4, <2>5, <2>6 DEF OwnerInv
<1>7. ASSUME NEW j \in Job, RunTool(j) PROVE OwnerInv'
  <2>1. \A i \in Member : i # Of(j) => pc'[i] = pc[i] /\ entry'[i] = entry[i]
    BY <1>7, RunShape DEF TypeOK, Of
  <2>2. \A d \in Job : \/ pc'[d] = pc[d]
                       \/ d = j /\ pc[d] # "idle" /\ pc'[d] \in {"tool", "settled", "over"}
    BY <1>7, RunShape DEF TypeOK, Runnable
  <2>3. \A i \in Member : Clicked(i)' => Clicked(i)
    BY <1>7, <2>2, RunShape DEF Clicked
  <2>4. /\ \A d \in Click : pc'[d] \notin Dispatching
        /\ "edit" \notin Env => \A d \in Click : pc'[d] \notin {"edit", "merge"}
        /\ \A d \in Member : pc'[d] \notin Granted \cup {"denying"}
    BY <2>2 DEF OwnerInv, Dispatching, Runnable, Granted
  <2>5. CASE j \in Click
    <3>1. Of(j) \in Member /\ Clicked(Of(j)) /\ pc'[Of(j)] = pc[Of(j)]
      BY <1>7, <2>5, RunShape DEF TypeOK, Clicked, Of
    <3>2. pc[Of(j)] \notin Dispatching \cup {"idle", "tool"}
      BY <3>1 DEF OwnerInv
    <3> QED
      BY <2>1, <2>3, <2>4, <3>1, <3>2 DEF OwnerInv
  <2>6. CASE j \in Member
    <3>1. Of(j) = j
      BY <2>6 DEF Of
    <3>2. \/ pc'[j] = "tool" /\ entry'[j] = "running" /\ pc[j] \in Dispatching
          \/ pc'[j] \in {"settled", "over"}
      BY <1>7, <2>6, <3>1, RunShape DEF TypeOK, Dispatching, Runnable
    <3> QED
      BY <2>1, <2>3, <2>4, <2>6, <3>1, <3>2 DEF OwnerInv, Dispatching, Runnable
  <2> QED
    BY <2>5, <2>6 DEF Job
<1>8. CASE Crash
  <2>1. UNCHANGED <<entry, of>> /\ \A j \in Job : pc'[j] = IF pc[j] \in Busy THEN "over" ELSE pc[j]
    BY <1>8 DEF Crash, entries
  <2>2. \A i \in Member : Clicked(i)' => Clicked(i)
    BY <2>1 DEF Clicked, Busy, Dispatching, Runnable, Granted
  <2> QED
    BY <2>1, <2>2 DEF OwnerInv, Busy, Dispatching, Runnable, Granted
<1>9. CASE BootSweep
  <2>1. \A j \in Job : pc[j] \notin Busy
    BY <1>9 DEF BootSweep, DownInv
  <2>2. UNCHANGED <<pc, of>> /\ \A m \in Member : entry[m] # "running" => entry'[m] = entry[m]
    BY <1>9 DEF BootSweep, jobs
  <2> QED
    BY <2>1, <2>2 DEF OwnerInv, Clicked, Busy
<1> QED
    BY <1>1, <1>2, <1>3, <1>4, <1>5, <1>6, <1>7, <1>8, <1>9, StepCases
---------------------------------------------------------------------------
(* A member is first clicked on when its entry says requested or failed. *)
LEMMA ClickedStep ==
  ASSUME TypeOK, [Next]_vars, NEW i \in Member, ~Clicked(i), Clicked(i)'
  PROVE  entry[i] \in {"requested", "failed"} /\ entry' = entry
<1> USE JobFacts
<1>1. PICK d \in Click : pc'[d] # "idle" /\ of'[d] = i /\ ~(pc[d] # "idle" /\ of[d] = i)
    BY DEF Clicked
<1>2. ASSUME of' = of, \A c \in Click : pc[c] = "idle" => pc'[c] = "idle" PROVE FALSE
    BY <1>1, <1>2
<1>3. CASE CreateMember \/ Aside \/ BootSweep
    BY <1>2, <1>3, AsideShape DEF CreateMember, BootSweep, jobs
<1>4. CASE DispatchMember
    BY <1>2, <1>4 DEF DispatchMember, Goto, TypeOK
<1>5. CASE Crash
    BY <1>2, <1>5 DEF Crash, Busy, Dispatching, Runnable, Granted
<1>6. ASSUME NEW m \in Member, Dispatch(m) PROVE FALSE
  <2>1. of' = of /\ pc[m] # "idle" /\ \A c \in Click : c # m => pc'[c] = pc[c]
    BY <1>6, DispatchShape DEF TypeOK, Dispatching, Runnable
  <2> QED
    BY <1>2, <2>1
<1>7. ASSUME NEW c \in Click, Handle(c) PROVE FALSE
  <2>1. of' = of /\ pc[c] # "idle" /\ \A e \in Click : e # c => pc'[e] = pc[e]
    BY <1>7, HandleShape DEF TypeOK
  <2> QED
    BY <1>2, <2>1
<1>8. ASSUME NEW j \in Job, RunTool(j) PROVE FALSE
  <2>1. of' = of /\ pc[j] # "idle" /\ \A c \in Click : c # j => pc'[c] = pc[c]
    BY <1>8, RunShape DEF TypeOK, Runnable
  <2> QED
    BY <1>2, <2>1
<1>9. ASSUME NEW c \in Click, Request(c)
      PROVE  entry[i] \in {"requested", "failed"} /\ entry' = entry
    BY <1>1, <1>9, RequestShape DEF TypeOK
<1> QED
    BY <1>3, <1>4, <1>5, <1>6, <1>7, <1>8, <1>9, StepCases

(* Only its own dispatch blocks a call. *)
LEMMA BlocksStep ==
  ASSUME IInv, [Next]_vars, NEW i \in Member, entry[i] # "blocked", entry'[i] = "blocked"
  PROVE  pc[i] \in Dispatching
<1> USE JobFacts DEF IInv
<1>1. CASE Aside
    BY <1>1, AsideShape
<1>2. CASE CreateMember \/ DispatchMember \/ Crash \/ BootSweep
    BY <1>2 DEF CreateMember, DispatchMember, Crash, BootSweep, Write, entries, TypeOK
<1>3. ASSUME NEW m \in Member, Dispatch(m) PROVE pc[i] \in Dispatching
    BY <1>3, DispatchShape DEF TypeOK
<1>4. ASSUME NEW c \in Click, Request(c) \/ Handle(c) PROVE FALSE
    BY <1>4, RequestShape, HandleShape DEF TypeOK, BlockedInv
<1>5. ASSUME NEW j \in Job, RunTool(j) PROVE FALSE
    BY <1>5, RunShape DEF TypeOK
<1> QED
    BY <1>1, <1>2, <1>3, <1>4, <1>5, StepCases

(* An edited approval never reads a blocked entry. *)
LEMMA SeenStep ==
  ASSUME IInv, [Next]_vars, NEW c \in Click, pc'[c] = "merge"
  PROVE  seen'[c] # "blocked"
<1> USE JobFacts DEF IInv
<1>1. CASE seen' = seen /\ pc[c] = "merge"
    BY <1>1 DEF BlockedInv
<1>2. CASE Aside
    BY <1>1, <1>2, AsideShape
<1>3. CASE CreateMember \/ DispatchMember \/ Crash \/ BootSweep
    BY <1>1, <1>3 DEF CreateMember, DispatchMember, Crash, BootSweep, Goto, entries, jobs, TypeOK
<1>4. ASSUME NEW m \in Member, Dispatch(m) PROVE seen'[c] # "blocked"
    BY <1>1, <1>4, DispatchShape DEF TypeOK
<1>5. ASSUME NEW d \in Click, Request(d) PROVE seen'[c] # "blocked"
    BY <1>1, <1>5, RequestShape DEF TypeOK
<1>6. ASSUME NEW d \in Click, Handle(d) PROVE seen'[c] # "blocked"
  <2>1. CASE d # c
    BY <1>1, <1>6, <2>1, HandleShape DEF TypeOK, BlockedInv
  <2>2. CASE d = c
    <3>1. pc[c] = "edit" /\ Clicked(of[c]) /\ entry[of[c]] # "blocked"
      BY <1>6, <2>2, HandleShape DEF TypeOK, BlockedInv, Clicked
    <3> QED
      BY <1>6, <2>2, <3>1 DEF Handle, EditFetch, EditMerge, Refuse, DenyWrite, TypeOK
  <2> QED
    BY <2>1, <2>2
<1>7. ASSUME NEW j \in Job, RunTool(j) PROVE seen'[c] # "blocked"
    BY <1>1, <1>7, RunShape DEF TypeOK
<1> QED
    BY <1>2, <1>3, <1>4, <1>5, <1>6, <1>7, StepCases

LEMMA BlockedStep == IInv /\ [Next]_vars => BlockedInv'
<1> SUFFICES ASSUME IInv, [Next]_vars PROVE BlockedInv'
    OBVIOUS
<1>1. ASSUME NEW i \in Member, entry'[i] = "blocked" PROVE ~Clicked(i)'
  <2>1. CASE entry[i] = "blocked"
    BY <2>1, ClickedStep DEF IInv, BlockedInv
  <2>2. CASE entry[i] # "blocked"
    <3>1. pc[i] \in Dispatching
      BY <1>1, <2>2, BlocksStep
    <3>2. ~Clicked(i)
      BY <3>1 DEF IInv, OwnerInv
    <3> QED
      BY <1>1, <2>2, <3>2, ClickedStep DEF IInv
  <2> QED
    BY <2>1, <2>2
<1> QED
    BY <1>1, SeenStep DEF BlockedInv
---------------------------------------------------------------------------
(* A retry is never edited. *)
LEMMA ForceStep == IInv /\ [Next]_vars => ForceInv'
<1> SUFFICES ASSUME TypeOK, ChainInv, ForceInv, [Next]_vars PROVE ForceInv'
    BY DEF IInv
<1> USE JobFacts
<1>1. CASE CreateMember \/ Aside
    BY <1>1, AsideShape DEF CreateMember, ForceInv, jobs
<1>2. CASE DispatchMember
  <2>1. next \in Member /\ force' = force /\ pc' = [pc EXCEPT ![next] = "resolve"]
    BY <1>2 DEF DispatchMember, TypeOK, Goto
  <2> QED
    BY <2>1 DEF ForceInv, TypeOK
<1>3. ASSUME NEW m \in Member, Dispatch(m) PROVE ForceInv'
    BY <1>3, DispatchShape DEF ForceInv, TypeOK
<1>4. ASSUME NEW c \in Click, Request(c) PROVE ForceInv'
  <2>1. PICK l \in {"granted", "edit", "denying"} :
            pc' = [pc EXCEPT ![c] = l] /\ (l = "edit" => force' = force)
    BY <1>4, RequestShape
  <2>2. pc[c] = "idle" /\ (force' = force \/ force' = force \cup {c})
    BY <1>4, RequestShape
  <2> QED
    BY <2>1, <2>2 DEF ForceInv, TypeOK
<1>5. ASSUME NEW c \in Click, Handle(c) PROVE ForceInv'
    BY <1>5, HandleShape DEF ForceInv, TypeOK
<1>6. ASSUME NEW j \in Job, RunTool(j) PROVE ForceInv'
    BY <1>6, RunShape DEF ForceInv, TypeOK
<1>7. CASE Crash
    BY <1>7 DEF Crash, ForceInv, TypeOK, Busy
<1>8. CASE BootSweep
    BY <1>8 DEF BootSweep, ForceInv, jobs
<1> QED
    BY <1>1, <1>2, <1>3, <1>4, <1>5, <1>6, <1>7, <1>8, StepCases
---------------------------------------------------------------------------
(* A step of job k keeps a witness for every running entry. *)
LEMMA ExecKept ==
  ASSUME ExecInv, up' => up, NEW k \in Job, force' = force \/ force' = force \cup {k},
         \A j \in Job : j # k => Of(j)' = Of(j) /\ pc'[j] = pc[j],
         \A i \in Member : entry'[i] = "running" =>
             \/ Of(k)' = i /\ pc'[k] \in Exec(k)'
             \/ entry[i] = "running" /\ ~(Of(k) = i /\ pc[k] \in Exec(k))
  PROVE  ExecInv'
<1> SUFFICES ASSUME up', NEW i \in Member, entry'[i] = "running"
             PROVE  \E j \in Job : Of(j)' = i /\ pc'[j] \in Exec(j)'
    BY DEF ExecInv
<1>1. CASE Of(k)' = i /\ pc'[k] \in Exec(k)'
    BY <1>1
<1>2. CASE entry[i] = "running" /\ ~(Of(k) = i /\ pc[k] \in Exec(k))
  <2>1. PICK j \in Job : Of(j) = i /\ pc[j] \in Exec(j)
    BY <1>2 DEF ExecInv
  <2> QED
    BY <1>2, <2>1 DEF Exec
<1> QED
    BY <1>1, <1>2

LEMMA ExecStep == ASSUME NoEditRefused PROVE IInv /\ [Next]_vars => ExecInv'
<1> SUFFICES ASSUME TypeOK, ChainInv, OwnerInv, ForceInv, ExecInv, [Next]_vars PROVE ExecInv'
    BY DEF IInv
<1> USE JobFacts
<1>1. CASE Aside
    BY <1>1, AsideShape DEF ExecInv, Exec, Of
<1>2. CASE CreateMember
    BY <1>2 DEF CreateMember, ExecInv, Exec, Of, Write, jobs, process, TypeOK
<1>3. CASE DispatchMember
  <2>1. next \in Job /\ pc[next] \notin Exec(next)
    BY <1>3 DEF DispatchMember, ChainInv, TypeOK, Exec, Granted
  <2>2. UNCHANGED <<up, of, entry, force>> /\ \A j \in Job : j # next => pc'[j] = pc[j]
    BY <1>3 DEF DispatchMember, Goto, TypeOK, entries, process
  <2> QED
    BY <2>1, <2>2, ExecKept DEF Of
<1>4. ASSUME NEW m \in Member, Dispatch(m) PROVE ExecInv'
  <2>1. m \in Job /\ pc[m] \notin Exec(m)
    BY <1>4, DispatchShape DEF Exec, Granted, Dispatching, Runnable
  <2>2. UNCHANGED <<up, of, force>> /\ \A j \in Job : j # m => pc'[j] = pc[j]
    BY <1>4, DispatchShape DEF TypeOK
  <2>3. \A i \in Member : entry'[i] = "running" => entry[i] = "running"
    BY <1>4, DispatchShape DEF TypeOK
  <2> QED
    BY <2>1, <2>2, <2>3, ExecKept DEF Of
<1>5. ASSUME NEW c \in Click, Request(c) PROVE ExecInv'
  <2>1. c \in Job /\ pc[c] \notin Exec(c) /\ (force' = force \/ force' = force \cup {c})
    BY <1>5, RequestShape DEF Exec, Granted
  <2>2. UNCHANGED <<up, entry>> /\ \A j \in Job : j # c => Of(j)' = Of(j) /\ pc'[j] = pc[j]
    BY <1>5, RequestShape DEF TypeOK, Of, Job
  <2> QED
    BY <2>1, <2>2, ExecKept
<1>6. ASSUME NEW c \in Click, Handle(c) PROVE ExecInv'
  <2>1. c \in Job /\ of[c] \in Member /\ Of(c) = of[c] /\ Of(c)' = of[c]
    BY <1>6, HandleShape DEF TypeOK, Of
  <2>2. UNCHANGED <<up, force>> /\ \A j \in Job : j # c => Of(j)' = Of(j) /\ pc'[j] = pc[j]
    BY <1>6, HandleShape DEF TypeOK, Of
  <2>3. \A i \in Member : i # of[c] => entry'[i] = entry[i]
    BY <1>6, HandleShape DEF TypeOK
  <2>4. CASE pc[c] \in {"edit", "merge"}
    <3>1. pc'[c] \in Exec(c)'
      BY <1>6, <2>4, HandleShape DEF TypeOK, OwnerInv, ForceInv, Exec, Granted
    <3> QED
      BY <2>1, <2>2, <2>3, <3>1, ExecKept
  <2>5. CASE pc[c] = "granted"
    <3>1. entry' = entry /\ pc[c] \notin Exec(c)
      BY <1>6, <2>5, HandleShape DEF NoEditRefused, Exec
    <3> QED
      BY <2>1, <2>2, <3>1, ExecKept
  <2>6. CASE pc[c] = "denying"
    <3>1. entry'[of[c]] = "denied"
      BY <1>6, <2>1, <2>6, HandleShape DEF TypeOK
    <3> QED
      BY <2>1, <2>2, <2>3, <3>1, ExecKept
  <2> QED
    BY <1>6, <2>4, <2>5, <2>6, HandleShape
<1>7. ASSUME NEW j \in Job, RunTool(j) PROVE ExecInv'
  <2>1. UNCHANGED <<up, force>> /\ \A i \in Job : Of(i)' = Of(i) /\ (i # j => pc'[i] = pc[i])
    BY <1>7, RunShape DEF TypeOK, Of
  <2>2. \A i \in Member : i # Of(j) => entry'[i] = entry[i]
    BY <1>7, RunShape DEF TypeOK
  <2>3. \/ pc'[j] \in Exec(j)'
        \/ entry'[Of(j)] \in {"done", "failed"}
        \/ entry' = entry /\ pc[j] \notin Exec(j)
    BY <1>7, RunShape DEF TypeOK, Exec, Granted
  <2> QED
    BY <2>1, <2>2, <2>3, ExecKept
<1>8. CASE Crash
    BY <1>8 DEF Crash, ExecInv
<1>9. CASE BootSweep
    BY <1>9 DEF BootSweep, ExecInv
<1> QED
    BY <1>1, <1>2, <1>3, <1>4, <1>5, <1>6, <1>7, <1>8, <1>9, StepCases
---------------------------------------------------------------------------
(* While a member's entry is still its dispatch's, no check is past its count. *)
LEMMA CountFirst ==
  ASSUME IInv, NEW m \in Member, entry[m] \notin Terminal, pc[m] \in Dispatching \cup {"idle"}
  PROVE  stage = "count"
<1>1. ~Clicked(m)
  BY DEF IInv, OwnerInv
<1>2. \A c \in Click : pc[c] \in Exec(c) => pc[c] # "idle"
  BY DEF Exec, Granted
<1> QED
  BY <1>1, <1>2 DEF IInv, CountInv, Clicked

(* A step of request k keeps a witness for every member being run anew. *)
LEMMA CountKept ==
  ASSUME CountInv, stage' = stage, checks # <<>> => checks' # <<>>, NEW k \in Click,
         force' = force \/ force' = force \cup {k},
         \A c \in Click : c # k => of'[c] = of[c] /\ pc'[c] = pc[c],
         \A i \in Member : entry'[i] \notin Terminal =>
             \/ of'[k] = i /\ pc'[k] \in Exec(k)'
             \/ entry[i] \notin Terminal /\ ~(of[k] = i /\ pc[k] \in Exec(k))
  PROVE  CountInv'
<1> SUFFICES ASSUME stage' # "count", NEW i \in Member, entry'[i] \notin Terminal
             PROVE  \E c \in Click : of'[c] = i /\ pc'[c] \in Exec(c)'
    BY DEF CountInv, Terminal
<1>1. CASE of'[k] = i /\ pc'[k] \in Exec(k)'
    BY <1>1
<1>2. CASE entry[i] \notin Terminal /\ ~(of[k] = i /\ pc[k] \in Exec(k))
  <2>1. PICK c \in Click : of[c] = i /\ pc[c] \in Exec(c)
    BY <1>2 DEF CountInv
  <2> QED
    BY <1>2, <2>1 DEF Exec
<1> QED
    BY <1>1, <1>2

LEMMA CountStep == ASSUME NoEditRefused PROVE IInv /\ [Next]_vars => CountInv'
<1> SUFFICES ASSUME IInv, [Next]_vars PROVE CountInv'
    OBVIOUS
<1> USE JobFacts DEF IInv
<1>1. CASE UNCHANGED <<entry, pc, of, force, checks, stage>>
    BY <1>1 DEF CountInv, Exec
<1>2. CASE CheckCount
  <2>1. CASE AllTerminal
    BY <1>2, <2>1, AsideShape DEF Aside, CheckCount, CountInv, AllTerminal, Terminal
  <2>2. CASE ~AllTerminal
    BY <1>2, <2>2 DEF CheckCount, CheckDone, CountInv
  <2> QED
    BY <2>1, <2>2
<1>3. CASE CheckChild \/ CheckStart
  <2>1. UNCHANGED <<entry, pc, of, force>>
    BY <1>3, AsideShape DEF Aside
  <2>2. stage' = "count" \/ (checks' = checks /\ stage = "child")
    BY <1>3 DEF CheckChild, CheckStart, CheckDone
  <2> QED
    BY <2>1, <2>2 DEF CountInv, Exec
<1>4. CASE Aside
    BY <1>1, <1>2, <1>3, <1>4, AsideShape DEF Aside, PlannerAborts, ReactionEnds, Cancel, Post,
       TurnEnds, vars, queue
<1>5. CASE CreateMember
  <2>1. next \in Member /\ pc[next] = "idle" /\ entry[next] \notin Terminal
    BY <1>5 DEF CreateMember, TypeOK, ChainInv, OwnerInv, Terminal
  <2>2. stage' = "count"
    BY <1>5, <2>1, CountFirst DEF CreateMember, queue
  <2> QED
    BY <2>2 DEF CountInv
<1>6. CASE DispatchMember
  <2>1. UNCHANGED <<of, force, entry, stage, checks>> /\ \A c \in Click : pc'[c] = pc[c]
    BY <1>6 DEF DispatchMember, Goto, TypeOK, entries, queue
  <2> QED
    BY <2>1 DEF CountInv, Exec
<1>7. ASSUME NEW m \in Member, Dispatch(m) PROVE CountInv'
  <2>1. pc[m] \in Dispatching /\ entry[m] \notin Terminal /\ stage' = stage
    BY <1>7, DispatchShape DEF OwnerInv, Terminal
  <2> QED
    BY <2>1, CountFirst DEF CountInv
<1>8. ASSUME NEW c \in Click, Request(c) PROVE CountInv'
  <2>1. (force' = force \/ force' = force \cup {c}) /\ pc[c] \notin Exec(c) /\ UNCHANGED <<stage, checks, entry>>
    BY <1>8, RequestShape DEF Exec, Granted
  <2>2. \A d \in Click : d # c => of'[d] = of[d] /\ pc'[d] = pc[d]
    BY <1>8, RequestShape DEF TypeOK
  <2> QED
    BY <2>1, <2>2, CountKept
<1>9. ASSUME NEW c \in Click, Handle(c) PROVE CountInv'
  <2>1. UNCHANGED <<stage, checks, of, force>> /\ \A d \in Click : d # c => pc'[d] = pc[d]
    BY <1>9, HandleShape DEF TypeOK
  <2>2. \A i \in Member : i # of[c] => entry'[i] = entry[i]
    BY <1>9, HandleShape DEF TypeOK
  <2>3. CASE pc[c] \in {"edit", "merge"}
    <3>1. pc'[c] \in Exec(c)'
      BY <1>9, <2>3, HandleShape DEF TypeOK, OwnerInv, ForceInv, Exec, Granted
    <3> QED
      BY <2>1, <2>2, <3>1, CountKept
  <2>4. CASE pc[c] = "granted"
    <3>1. entry' = entry /\ pc[c] \notin Exec(c)
      BY <1>9, <2>4, HandleShape DEF NoEditRefused, Exec
    <3> QED
      BY <2>1, <3>1, CountKept
  <2>5. CASE pc[c] = "denying"
    <3>1. entry'[of[c]] \in Terminal
      BY <1>9, <2>5, HandleShape DEF TypeOK, Terminal
    <3> QED
      BY <2>1, <2>2, <3>1, CountKept
  <2> QED
    BY <1>9, <2>3, <2>4, <2>5, HandleShape
<1>10. ASSUME NEW j \in Job, RunTool(j) PROVE CountInv'
  <2>1. UNCHANGED <<stage, of, force>> /\ \A i \in Job : i # j => pc'[i] = pc[i]
    BY <1>10, RunShape DEF TypeOK
  <2>2. checks # <<>> => checks' # <<>>
    BY <1>10, RunShape DEF TypeOK
  <2>3. \A i \in Member : i # Of(j) => entry'[i] = entry[i]
    BY <1>10, RunShape DEF TypeOK
  <2>4. \/ pc[j] \in Runnable \cup {"granted"} /\ pc'[j] = "tool"
        \/ entry'[Of(j)] \in Terminal
        \/ entry' = entry /\ pc[j] = "settled"
    BY <1>10, RunShape DEF TypeOK, Terminal
  <2>5. CASE j \in Click
    <3>1. Of(j) = of[j] /\ of'[j] = of[j] /\ "tool" \in Exec(j)' /\ "settled" \notin Exec(j)
      BY <2>1, <2>5 DEF Of, Exec, Granted
    <3> QED
      BY <2>1, <2>2, <2>3, <2>4, <2>5, <3>1, CountKept
  <2>6. CASE j \in Member
    <3>1. Of(j) = j /\ \A c \in Click : pc'[c] = pc[c]
      BY <2>1, <2>6 DEF Of
    <3>2. CASE pc[j] \in Runnable \cup {"granted"}
      <4>1. entry[j] \notin Terminal /\ pc[j] \in Dispatching
        BY <2>6, <3>2 DEF OwnerInv, Terminal, Granted, Dispatching, Runnable
      <4> QED
        BY <2>1, <2>6, <4>1, CountFirst DEF CountInv
    <3>3. CASE entry'[j] \in Terminal \/ entry' = entry
      BY <2>1, <2>2, <2>3, <3>1, <3>3 DEF CountInv, Exec, Terminal
    <3> QED
      BY <2>4, <3>1, <3>2, <3>3
  <2> QED
    BY <2>5, <2>6 DEF Job
<1>11. CASE Crash
    BY <1>11 DEF Crash, CountInv
<1>12. CASE BootSweep
    BY <1>12 DEF BootSweep, DownInv, CountInv, queue
<1> QED
    BY <1>4, <1>5, <1>6, <1>7, <1>8, <1>9, <1>10, <1>11, <1>12, StepCases
---------------------------------------------------------------------------
(* A continuation is started by one check only, which has seen none before it. *)
LEMMA ReactionStep == IInv /\ [Next]_vars => (GuardInv /\ OneReaction)'
<1> SUFFICES ASSUME IInv, [Next]_vars PROVE (GuardInv /\ OneReaction)'
    OBVIOUS
<1> USE JobFacts DEF IInv
<1>1. ASSUME \A j \in Job : reaction[j] = "none" <=> reaction'[j] = "none",
             force \subseteq force',
             stage' = "start" => stage = "start" /\ Head(checks') = Head(checks)
      PROVE  (GuardInv /\ OneReaction)'
    BY <1>1 DEF GuardInv, OneReaction
<1>2. CASE CheckCount
    BY <1>1, <1>2 DEF CheckCount, CheckDone, jobs
<1>3. CASE CheckChild
  <2>1. reaction' = reaction /\ force' = force
    BY <1>3 DEF CheckChild, jobs
  <2>2. stage' = "start" => checks' = checks /\ (Head(checks) \in force \/ ~HasSpineChild)
    BY <1>3 DEF CheckChild, CheckDone
  <2>3. ~HasSpineChild => \A j \in Job : reaction[j] = "none"
    BY DEF HasSpineChild
  <2> QED
    BY <2>1, <2>2, <2>3 DEF GuardInv, OneReaction
<1>4. CASE CheckStart
  <2>1. force' = force /\ stage' = "count" /\ stage = "start"
    BY <1>4 DEF CheckStart, CheckDone, jobs
  <2>2. \A j \in Job : j # Head(checks) => reaction'[j] = reaction[j]
    BY <1>4 DEF CheckStart, TypeOK
  <2>3. CASE Head(checks) \in force
    BY <2>1, <2>2, <2>3 DEF GuardInv, OneReaction
  <2>4. CASE Head(checks) \notin force
    BY <2>1, <2>2, <2>4 DEF GuardInv, OneReaction
  <2> QED
    BY <2>3, <2>4
<1>5. CASE PlannerAborts \/ Cancel \/ Post \/ TurnEnds \/ UNCHANGED vars
    BY <1>1, <1>5 DEF PlannerAborts, Cancel, Post, TurnEnds, vars, jobs, queue
<1>6. ASSUME NEW j \in Job, ReactionEnds(j) PROVE (GuardInv /\ OneReaction)'
  <2>1. \A i \in Job : reaction[i] = "none" <=> reaction'[i] = "none"
    BY <1>6 DEF ReactionEnds, TypeOK
  <2> QED
    BY <1>1, <1>6, <2>1 DEF ReactionEnds, jobs, queue
<1>7. CASE CreateMember \/ DispatchMember \/ BootSweep
    BY <1>1, <1>7 DEF CreateMember, DispatchMember, BootSweep, jobs, queue
<1>8. ASSUME NEW m \in Member, Dispatch(m) PROVE (GuardInv /\ OneReaction)'
    BY <1>1, <1>8, DispatchShape
<1>9. ASSUME NEW c \in Click, Request(c) \/ Handle(c) PROVE (GuardInv /\ OneReaction)'
    BY <1>1, <1>9, RequestShape, HandleShape
<1>10. ASSUME NEW j \in Job, RunTool(j) PROVE (GuardInv /\ OneReaction)'
  <2>1. checks' = checks \/ checks' = Append(checks, j)
    BY <1>10, RunShape
  <2>2. stage = "start" => checks # <<>> /\ checks \in Seq(Job)
    BY DEF CountInv, TypeOK
  <2>3. checks # <<>> /\ checks \in Seq(Job) => Head(Append(checks, j)) = Head(checks)
    OBVIOUS
  <2>4. stage = "start" => Head(checks') = Head(checks)
    BY <2>1, <2>2, <2>3
  <2> QED
    BY <1>1, <1>10, <2>4, RunShape
<1>11. CASE Crash
  <2>1. \A i \in Job : reaction[i] = "none" <=> reaction'[i] = "none"
    BY <1>11 DEF Crash
  <2> QED
    BY <1>1, <1>11, <2>1 DEF Crash
<1> QED
    BY <1>2, <1>3, <1>4, <1>5, <1>6, <1>7, <1>8, <1>9, <1>10, <1>11, StepCases DEF Aside
---------------------------------------------------------------------------
LEMMA InvHolds == ASSUME NoEditRefused PROVE Spec => []IInv
<1>1. IInv /\ [Next]_vars => IInv'
  BY TypeStep, ChainStep, DownStep, OwnerStep, BlockedStep, ExecStep, CountStep, ReactionStep,
     ForceStep
  DEF IInv
<1> QED
  BY <1>1, InitInv, PTL DEF Spec

(* memberResolved continues the planner once, however many members and      *)
(* requests settle concurrently and wherever the process dies.              *)
THEOREM OneReactionHolds == ASSUME NoEditRefused PROVE Spec => []OneReaction
<1>1. IInv => OneReaction
  BY DEF IInv
<1> QED
  BY <1>1, InvHolds, PTL

(* executeTool with onModuleInit: a live process that shows a tool running  *)
(* has a job that runs it or is about to.                                   *)
THEOREM RunningHasExecutorHolds == ASSUME NoEditRefused PROVE Spec => []RunningHasExecutor
<1>1. IInv => RunningHasExecutor
  BY DEF IInv, ExecInv, RunningHasExecutor, Exec
<1> QED
  BY <1>1, InvHolds, PTL

LEMMA StaysBlockedStep ==
  ASSUME IInv, [Next]_vars, NEW i \in Member, entry[i] = "blocked"
  PROVE  entry'[i] = "blocked"
<1> USE JobFacts DEF IInv
<1>1. ~Clicked(i) /\ pc[i] \notin Dispatching \cup {"idle", "tool"}
  BY DEF OwnerInv, BlockedInv
<1>2. CASE Aside
  BY <1>2, AsideShape
<1>3. CASE CreateMember
  BY <1>1, <1>3 DEF CreateMember, Write, TypeOK, ChainInv
<1>4. CASE DispatchMember \/ Crash \/ BootSweep
  BY <1>4 DEF DispatchMember, Crash, BootSweep, entries
<1>5. ASSUME NEW m \in Member, Dispatch(m) PROVE entry'[i] = "blocked"
  BY <1>1, <1>5, DispatchShape DEF TypeOK
<1>6. ASSUME NEW c \in Click, Request(c) PROVE entry'[i] = "blocked"
  BY <1>6, RequestShape
<1>7. ASSUME NEW c \in Click, Handle(c) PROVE entry'[i] = "blocked"
  BY <1>1, <1>7, HandleShape DEF TypeOK, Clicked
<1>8. ASSUME NEW j \in Job, RunTool(j) PROVE entry'[i] = "blocked"
  <2>1. Of(j) = i => entry' = entry
    BY <1>1, <1>8, RunShape DEF Of, Job, Clicked, Dispatching, Runnable
  <2> QED
    BY <1>8, <2>1, RunShape DEF TypeOK
<1> QED
  BY <1>2, <1>3, <1>4, <1>5, <1>6, <1>7, <1>8, StepCases

(* recordBlocked, failEntry: no later request or write revives a refusal.   *)
THEOREM BlockedStays == ASSUME NoEditRefused PROVE Spec => BlockedStaysBlocked
<1> DEFINE Stays == \A m \in Member : entry[m] = "blocked" => entry'[m] = "blocked"
<1>1. IInv /\ [Next]_vars => [Stays]_vars
  BY StaysBlockedStep
<1> QED
  BY <1>1, InvHolds, PTL DEF Spec, BlockedStaysBlocked

(* maybeContinuePlanner: every member has its verdict when the planner is   *)
(* continued, or is being run anew at a user's request.                     *)
THEOREM ReactsDecided == ASSUME NoEditRefused PROVE Spec => ReactsToDecidedBatch
<1> DEFINE Starts == \A j \in Job : reaction[j] = "none" /\ reaction'[j] # "none" =>
                         \A m \in Member : entry[m] \in Terminal \/ Redone(m)
<1>1. ASSUME IInv, [Next]_vars, NEW j \in Job, reaction[j] = "none", reaction'[j] # "none"
      PROVE  stage = "start"
  <2> USE JobFacts DEF IInv
  <2>1. CASE Aside
    BY <1>1, <2>1 DEF Aside, PlannerAborts, CheckCount, CheckChild, CheckStart, ReactionEnds,
       Cancel, Post, TurnEnds, vars, TypeOK
  <2>2. CASE CreateMember \/ DispatchMember \/ Crash \/ BootSweep
    BY <1>1, <2>2 DEF CreateMember, DispatchMember, Crash, BootSweep
  <2> QED
    BY <1>1, <2>1, <2>2, StepCases, DispatchShape, RequestShape, HandleShape, RunShape
<1>2. IInv /\ stage = "start" => \A m \in Member : entry[m] \in Terminal \/ Redone(m)
  BY DEF IInv, CountInv, Redone, Exec
<1>3. IInv /\ [Next]_vars => [Starts]_vars
  BY <1>1, <1>2
<1> QED
  BY <1>3, InvHolds, PTL DEF Spec, ReactsToDecidedBatch
---------------------------------------------------------------------------
(* The refinement of Batch. *)

(* Nothing is checked, or continued, on behalf of a job that never began. *)
LateInv ==
    /\ \A i \in DOMAIN checks : pc[checks[i]] # "idle"
    /\ \A j \in Started : pc[j] # "idle"

LEMMA BegunStep ==
  ASSUME TypeOK, ChainInv, [Next]_vars, NEW j \in Job, pc[j] # "idle"
  PROVE  pc'[j] # "idle"
<1> USE JobFacts DEF TypeOK
<1>1. CASE Aside
  BY <1>1, AsideShape
<1>2. CASE CreateMember \/ DispatchMember \/ BootSweep
  BY <1>2 DEF CreateMember, DispatchMember, BootSweep, Goto, jobs, ChainInv
<1>3. CASE Crash
  BY <1>3 DEF Crash
<1>4. ASSUME NEW m \in Member, Dispatch(m) PROVE pc'[j] # "idle"
  BY <1>4, DispatchShape DEF Dispatching, Runnable
<1>5. ASSUME NEW c \in Click, Request(c) \/ Handle(c) PROVE pc'[j] # "idle"
  BY <1>5, RequestShape, HandleShape
<1>6. ASSUME NEW k \in Job, RunTool(k) PROVE pc'[j] # "idle"
  BY <1>6, RunShape
<1> QED
  BY <1>1, <1>2, <1>3, <1>4, <1>5, <1>6, StepCases

(* The queue of checks grows by the job that settles, and by nothing else. *)
LEMMA QueueStep ==
  ASSUME TypeOK, [Next]_vars, \A i \in DOMAIN checks : pc[checks[i]] # "idle",
         NEW i \in DOMAIN checks'
  PROVE  checks'[i] \in Job /\ pc[checks'[i]] # "idle"
<1> USE JobFacts DEF TypeOK
<1>1. \A k \in DOMAIN checks : checks[k] \in Job
  OBVIOUS
<1>2. CASE checks' = checks
  BY <1>1, <1>2
<1>3. CASE checks # <<>> /\ checks' = Tail(checks)
  <2>1. i + 1 \in DOMAIN checks /\ checks'[i] = checks[i + 1]
    BY <1>3
  <2> QED
    BY <1>1, <2>1
<1>4. CASE checks' = <<>>
  BY <1>4
<1>5. CASE Aside
  BY <1>2, <1>3, <1>5 DEF Aside, PlannerAborts, CheckCount, CheckChild, CheckStart, CheckDone,
     ReactionEnds, Cancel, Post, TurnEnds, vars, queue
<1>6. CASE CreateMember \/ DispatchMember \/ BootSweep \/ Crash
  BY <1>2, <1>4, <1>6 DEF CreateMember, DispatchMember, BootSweep, Crash, queue
<1>7. ASSUME NEW k \in Job, RunTool(k) PROVE checks'[i] \in Job /\ pc[checks'[i]] # "idle"
  <2>1. CASE checks' = Append(checks, k) /\ pc[k] = "settled"
    BY <1>1, <2>1
  <2> QED
    BY <1>2, <1>7, <2>1, RunShape
<1> QED
  BY <1>2, <1>5, <1>6, <1>7, StepCases, DispatchShape, RequestShape, HandleShape

LEMMA StartedStep ==
  ASSUME IInv, [Next]_vars
  PROVE  /\ Started \subseteq Started'
         /\ Started' # Started =>
                /\ stage = "start" /\ checks # <<>> /\ Head(checks) \in Job
                /\ Started' = Started \cup {Head(checks)} /\ UNCHANGED <<entry, pc, of, force>>
<1> USE JobFacts DEF IInv, TypeOK, Started
<1>1. CASE CheckStart
  <2>1. stage = "start" /\ checks # <<>> /\ Head(checks) \in Job /\ UNCHANGED <<entry, pc, of, force>>
    BY <1>1 DEF CheckStart, entries, jobs
  <2>2. \/ reaction' = reaction
        \/ \E s \in {"tracked", "detached"} :
               reaction' = [reaction EXCEPT ![Head(checks)] = s]
    BY <1>1 DEF CheckStart
  <2> QED
    BY <2>1, <2>2
<1>2. ASSUME \A j \in Job : reaction[j] = "none" <=> reaction'[j] = "none"
      PROVE  Started' = Started
  BY <1>2
<1>3. CASE Aside
  <2>1. CASE UNCHANGED reaction
    BY <2>1
  <2>2. ASSUME NEW j \in Job, ReactionEnds(j) PROVE Started' = Started
    BY <1>2, <2>2 DEF ReactionEnds
  <2> QED
    BY <1>1, <1>3, <2>1, <2>2 DEF Aside, PlannerAborts, CheckCount, CheckChild, Cancel, Post,
       TurnEnds, vars
<1>4. CASE CreateMember \/ DispatchMember \/ BootSweep \/ Crash
  BY <1>2, <1>4 DEF CreateMember, DispatchMember, BootSweep, Crash
<1> QED
  BY <1>2, <1>3, <1>4, StepCases, DispatchShape, RequestShape, HandleShape, RunShape

LEMMA LateStep == IInv /\ LateInv /\ [Next]_vars => LateInv'
<1> SUFFICES ASSUME IInv, LateInv, [Next]_vars PROVE LateInv'
  OBVIOUS
<1>1. \A i \in DOMAIN checks' : pc'[checks'[i]] # "idle"
  BY QueueStep, BegunStep DEF IInv, LateInv
<1>2. \A j \in Started' : pc[j] # "idle" /\ j \in Job
  <2>1. checks # <<>> => Head(checks) = checks[1] /\ 1 \in DOMAIN checks
    BY DEF IInv, TypeOK
  <2> QED
    BY <2>1, StartedStep DEF LateInv, Started
<1> QED
  BY <1>1, <1>2, BegunStep DEF IInv, LateInv

LEMMA LateHolds == ASSUME NoEditRefused PROVE Spec => [](IInv /\ LateInv)
<1>1. Init => LateInv
  BY DEF Init, LateInv, Started
<1> QED
  BY <1>1, InvHolds, LateStep, PTL DEF Spec

(* Only a request that runs a call anew can undo the call's verdict. *)
LEMMA VerdictStep ==
  ASSUME IInv, [Next]_vars, NEW i \in Member, entry[i] \in Terminal, ~Redone(i)
  PROVE  entry'[i] \in Terminal
<1> USE JobFacts DEF IInv
<1>1. CASE Aside
  BY <1>1, AsideShape
<1>2. CASE CreateMember
  BY <1>2 DEF CreateMember, Write, TypeOK, ChainInv, Terminal
<1>3. CASE DispatchMember \/ Crash \/ BootSweep
  BY <1>3 DEF DispatchMember, Crash, BootSweep, entries, TypeOK, Terminal
<1>4. ASSUME NEW m \in Member, Dispatch(m) PROVE entry'[i] \in Terminal
  BY <1>4, DispatchShape DEF TypeOK, OwnerInv, Terminal
<1>5. ASSUME NEW c \in Click, Request(c) PROVE entry'[i] \in Terminal
  BY <1>5, RequestShape
<1>6. ASSUME NEW c \in Click, Handle(c) PROVE entry'[i] \in Terminal
  BY <1>6, HandleShape DEF TypeOK, Redone, Granted, Terminal
<1>7. ASSUME NEW j \in Job, RunTool(j) PROVE entry'[i] \in Terminal
  <2>1. Of(j) = i => pc[j] \notin Runnable \cup {"granted"}
    BY <1>7 DEF TypeOK, OwnerInv, Redone, Of, Job, Granted, Terminal, Dispatching
  <2> QED
    BY <1>7, <2>1, RunShape DEF TypeOK, Terminal
<1> QED
  BY <1>1, <1>2, <1>3, <1>4, <1>5, <1>6, <1>7, StepCases

Redoing == {m \in Member : Redone(m)}

(* Only a request of the user has a call run anew. *)
LEMMA RedoneStep ==
  ASSUME IInv, [Next]_vars, ~\E c \in Click : Request(c)
  PROVE  Redoing' \subseteq Redoing /\ force' = force
<1> USE JobFacts DEF IInv
<1>1. ASSUME of' = of, \A c \in Click : pc'[c] \in Granted \cup {"tool"} => pc[c] \in Granted \cup {"tool"}
      PROVE  Redoing' \subseteq Redoing
  BY <1>1 DEF Redoing, Redone
<1>2. CASE Aside
  BY <1>1, <1>2, AsideShape
<1>3. CASE CreateMember \/ BootSweep
  BY <1>1, <1>3 DEF CreateMember, BootSweep, jobs
<1>4. CASE DispatchMember
  BY <1>1, <1>4 DEF DispatchMember, Goto, TypeOK
<1>5. CASE Crash
  BY <1>1, <1>5 DEF Crash, Granted
<1>6. ASSUME NEW m \in Member, Dispatch(m) PROVE Redoing' \subseteq Redoing /\ force' = force
  <2>1. \A c \in Click : pc'[c] = pc[c]
    BY <1>6, DispatchShape DEF TypeOK
  <2> QED
    BY <1>1, <1>6, <2>1, DispatchShape
<1>7. ASSUME NEW c \in Click, Handle(c) PROVE Redoing' \subseteq Redoing /\ force' = force
  BY <1>1, <1>7, HandleShape DEF TypeOK, Granted
<1>8. ASSUME NEW j \in Job, RunTool(j) PROVE Redoing' \subseteq Redoing /\ force' = force
  <2>1. \A c \in Click : pc'[c] \in Granted \cup {"tool"} => pc[c] \in Granted \cup {"tool"}
    BY <1>8, RunShape DEF TypeOK, Granted
  <2> QED
    BY <1>1, <1>8, <2>1, RunShape
<1> QED
  BY <1>2, <1>3, <1>4, <1>5, <1>6, <1>7, <1>8, StepCases

LEMMA BatchStep ==
  ASSUME IInv, LateInv, [Next]_vars
  PROVE  [Promise!BatchNext]_(Promise!batchVars)
<1> USE JobFacts
<1>1. \A m \in Member : Verdicts[m] = "refused" <=> entry[m] = "blocked"
  BY DEF Verdicts
<1>2. \A m \in Member : Verdicts[m] = "open" <=> entry[m] \notin Terminal
  BY DEF Verdicts, Terminal
<1>3. ASSUME NEW c \in Click, Request(c) PROVE Promise!BatchNext \/ UNCHANGED Promise!batchVars
  <2>1. PICK m \in Member, l \in {"granted", "edit", "denying"} :
            /\ entry[m] \in {"requested", "failed"}
            /\ of' = [of EXCEPT ![c] = m] /\ pc' = [pc EXCEPT ![c] = l]
    BY <1>3, RequestShape
  <2>2. pc[c] = "idle" /\ UNCHANGED <<entry, reaction>>
    BY <1>3, RequestShape
  <2>3. Verdicts' = Verdicts /\ Started' = Started
    BY <2>2 DEF Verdicts, Started
  <2>4. c \notin Started /\ force \subseteq force' /\ force' \subseteq force \cup {c}
    BY <1>3, <2>2 DEF LateInv, Request, Approve, Deny, Retry
  <2>5. \A k \in Member : Redone(k)' <=> (Redone(k) \/ (k = m /\ l \in Granted))
    BY <2>1, <2>2 DEF IInv, TypeOK, Redone, Granted
  <2>6. (Started \ force)' = Started \ force /\ (Started \cap force)' = Started \cap force
    BY <2>3, <2>4
  <2>7. CASE l \in Granted
    <3>1. Redoing' = Redoing \cup {m}
      BY <2>5, <2>7 DEF Redoing
    <3> QED
      BY <1>1, <2>1, <2>3, <2>6, <3>1 DEF Promise!BatchNext, Promise!Rerun, Redoing
  <2>8. CASE l \notin Granted
    <3>1. Redoing' = Redoing
      BY <2>5, <2>8 DEF Redoing
    <3> QED
      BY <2>3, <2>6, <3>1 DEF Promise!batchVars, Redoing
  <2> QED
    BY <2>7, <2>8
<1>4. CASE Started' # Started
  <2>1. /\ stage = "start" /\ Head(checks) \in Job
        /\ Started' = Started \cup {Head(checks)} /\ UNCHANGED <<entry, pc, of, force>>
    BY <1>4, StartedStep
  <2>2. Verdicts' = Verdicts /\ Redoing' = Redoing
    BY <2>1 DEF Verdicts, Redoing, Redone
  <2>3. Promise!Ripe
    BY <1>2, <2>1 DEF IInv, CountInv, Promise!Ripe, Redone, Exec
  <2>4. CASE Head(checks) \in force
    <3>1. (Started \ force)' = Started \ force
      BY <2>1, <2>4
    <3>2. (Started \cap force)' = (Started \cap force) \cup {Head(checks)}
      BY <2>1, <2>4
    <3> QED
      BY <2>1, <2>2, <2>3, <3>1, <3>2 DEF Promise!BatchNext, Promise!Repeat, Redoing
  <2>5. CASE Head(checks) \notin force
    <3>1. Started = {}
      BY <2>1, <2>5 DEF IInv, GuardInv, Started
    <3>2. (Started \ force)' = {Head(checks)} /\ (Started \cap force)' = Started \cap force
      BY <2>1, <2>5, <3>1
    <3> QED
      BY <2>1, <2>2, <2>3, <3>1, <3>2 DEF Promise!BatchNext, Promise!Answer, Redoing
  <2> QED
    BY <2>4, <2>5
<1>5. ASSUME ~\E c \in Click : Request(c), Started' = Started PROVE Promise!Judge
  <2>1. Redoing' \subseteq Redoing /\ force' = force
    BY <1>5, RedoneStep
  <2>2. Verdicts' \in [Member -> Promise!Verdict]
    BY DEF Verdicts, Promise!Verdict
  <2>3. ASSUME NEW m \in Member
        PROVE  /\ Verdicts[m] = "refused" => Verdicts'[m] = "refused"
               /\ Verdicts[m] = "decided" => Verdicts'[m] # "refused"
               /\ Verdicts[m] = "decided" /\ m \notin Redoing => Verdicts'[m] = "decided"
    <3>1. entry[m] = "blocked" => entry'[m] = "blocked"
      BY StaysBlockedStep
    <3>2. entry[m] \in Terminal \ {"blocked"} => entry'[m] # "blocked"
      BY BlocksStep DEF IInv, OwnerInv, Terminal
    <3>3. entry[m] \in Terminal /\ m \notin Redoing => entry'[m] \in Terminal
      BY VerdictStep DEF Redoing
    <3> QED
      BY <3>1, <3>2, <3>3 DEF Verdicts
  <2> QED
    BY <1>5, <2>1, <2>2, <2>3 DEF Promise!Judge, Redoing
<1> QED
  BY <1>3, <1>4, <1>5 DEF Promise!BatchNext

(* runDecision to maybeContinuePlanner implement Batch: for every batch and *)
(* whatever is requested, each step is one that Batch allows, or none.      *)
THEOREM BatchImplemented == ASSUME NoEditRefused PROVE Spec => ImplementsBatch
<1>1. Init => Promise!BatchInit
  BY JobFacts, FanInAssumption DEF Init, Promise!BatchInit, Verdicts, Started, Redone, Granted,
     Terminal
<1>2. IInv /\ LateInv /\ [Next]_vars => [Promise!BatchNext]_(Promise!batchVars)
  BY BatchStep
<1> QED
  BY <1>1, <1>2, LateHolds, PTL DEF Spec, ImplementsBatch, Promise!BatchSpec
=============================================================================
