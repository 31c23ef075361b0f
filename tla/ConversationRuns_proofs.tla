---------------------- MODULE ConversationRuns_proofs ----------------------
(* The runs of a conversation, for any number of messages, requests and     *)
(* crashes: the types, the slot, and the delivery of queued rows.           *)
EXTENDS ConversationRuns, TLAPS

PcValue == Handling \cup {"idle", "queued", "done", "dead"}
ScopeValue == {None, "root", "open", "finished"}

HandlerTypes ==
    /\ pc \in [Run -> PcValue] /\ waits \in [Run -> Run \cup {None}]
    /\ how \in [Msg -> {None, "plain", "enqueue", "steer", "drained"}]
    /\ gate \in Msg \cup {None}
ScopeTypes ==
    /\ slot \in Run \cup {None} /\ scope \in [Run -> ScopeValue]
    /\ task \in [Run -> SUBSET {"main", "side"}] /\ aborted \subseteq Run
RoundTypes ==
    /\ fanin \in [Run -> {None, "check", "detached"}] /\ round \in [Run -> 0..MaxRound]
RowTypes ==
    /\ queue \in Seq(Msg) /\ accepted \in Seq(Msg) /\ dropped \subseteq Msg /\ posted \subseteq Msg
DrainTypes ==
    /\ drain \in [Drain -> {None, "find", "delete", "deliver"}]
    /\ picked \in [Drain -> Msg \cup {None}]
ProcessTypes == up \in BOOLEAN /\ crashes \in 0..MaxCrash

(* Only messages pass the gate, and a drain that has found a row names it.  *)
NamesInv ==
    /\ \A r \in Run : pc[r] \in {"insert", "queued", "gate", "steering", "appended"} => r \in Msg
    /\ \A d \in Drain : drain[d] \in {"delete", "deliver"} => picked[d] \in Msg

Distinct(s) == \A n, k \in 1..Len(s) : s[n] = s[k] => n = k

(* Where the rows and the texts of messages are, by their handlers.         *)
RowsInv ==
    /\ Distinct(queue)
    /\ \A m \in ToSet(queue) : pc[m] = "queued" /\ m \notin posted \cup dropped
    /\ \A m \in posted : pc[m] \in {"appended", "done", "dead"}
    /\ \A m \in dropped : pc[m] = "queued"

(* The life of a run: its scope from the root to the end, and the drain that *)
(* its end starts, once.  Only a run that replaces waits for another.       *)
Life(r) ==
    /\ pc[r] \in {"root", "appended"} => scope[r] = "root"
    /\ pc[r] \in {"idle", "insert", "queued", "gate", "steering", "replacing"} => scope[r] = None
    /\ task[r] # {} => scope[r] = "open"
    /\ fanin[r] # None => scope[r] \in {"open", "finished"}
    /\ drain[r] # None => scope[r] = "finished"
    /\ pc[r] = "replacing" => r \notin Join
    /\ pc[r] = "appended" => r \in posted
LifeInv ==
    /\ \A r \in Run : Life(r)
    /\ ~up => \A d \in Drain : drain[d] = None

TypesInv == HandlerTypes /\ ScopeTypes /\ RoundTypes /\ RowTypes /\ DrainTypes /\ ProcessTypes /\ NamesInv

(* The inductive invariant. *)
IInv == TypesInv /\ LifeInv /\ SlotHoldsLiveRun /\ RowsInv /\ DeliveredOnce
---------------------------------------------------------------------------
(* Removing a row from a queue of distinct rows removes that row and keeps  *)
(* the others.                                                              *)
LEMMA WithoutOne ==
  ASSUME NEW s \in Seq(Msg), Distinct(s), NEW m \in ToSet(s)
  PROVE  /\ Without(s, m) \in Seq(Msg) /\ Distinct(Without(s, m))
         /\ ToSet(Without(s, m)) = ToSet(s) \ {m}
<1> DEFINE i == CHOOSE n \in DOMAIN s : s[n] = m
           r == Without(s, m)
<1>1. i \in 1..Len(s) /\ s[i] = m
  BY DEF ToSet
<1>2. r = SubSeq(s, 1, i - 1) \o SubSeq(s, i + 1, Len(s))
  BY DEF Without, RemoveAt
<1> HIDE DEF i, r
<1>3. /\ r \in Seq(Msg) /\ Len(r) = Len(s) - 1
      /\ \A n \in 1..Len(r) : r[n] = IF n < i THEN s[n] ELSE s[n + 1]
  <2> DEFINE a == SubSeq(s, 1, i - 1)
             b == SubSeq(s, i + 1, Len(s))
  <2>1. a \in Seq(Msg) /\ Len(a) = i - 1 /\ \A n \in 1..Len(a) : a[n] = s[n]
    BY <1>1
  <2>2. b \in Seq(Msg) /\ Len(b) = Len(s) - i /\ \A n \in 1..Len(b) : b[n] = s[n + i]
    BY <1>1
  <2>3. r = a \o b
    BY <1>2
  <2> HIDE DEF a, b
  <2>4. r \in Seq(Msg) /\ Len(r) = Len(s) - 1
    BY <1>1, <2>1, <2>2, <2>3
  <2>5. ASSUME NEW n \in 1..Len(r) PROVE r[n] = IF n < i THEN s[n] ELSE s[n + 1]
    <3>1. CASE n < i
      BY <1>1, <2>1, <2>2, <2>3, <2>4, <3>1
    <3>2. CASE ~(n < i)
      <4>1. n - Len(a) \in 1..Len(b) /\ r[n] = b[n - Len(a)]
        BY <1>1, <2>1, <2>2, <2>3, <2>4, <3>2
      <4> QED
        BY <1>1, <2>1, <2>2, <3>2, <4>1
    <3> QED
      BY <3>1, <3>2
  <2> QED
    BY <2>4, <2>5
<1>4. Distinct(r)
  BY <1>1, <1>3 DEF Distinct
<1>5. ASSUME NEW x \in ToSet(r) PROVE x \in ToSet(s) \ {m}
  <2>1. PICK n \in 1..Len(r) : r[n] = x
    BY <1>3, <1>5 DEF ToSet
  <2>2. PICK k \in 1..Len(s) : s[k] = x /\ k # i
    BY <1>1, <1>3, <2>1
  <2> QED
    BY <1>1, <2>2 DEF ToSet, Distinct
<1>6. ASSUME NEW x \in ToSet(s) \ {m} PROVE x \in ToSet(r)
  <2>1. PICK k \in 1..Len(s) : s[k] = x /\ k # i
    BY <1>1, <1>6 DEF ToSet
  <2>2. CASE k < i
    <3>1. k \in 1..Len(r) /\ r[k] = x
      BY <1>1, <1>3, <2>1, <2>2
    <3> QED
      BY <1>3, <3>1 DEF ToSet
  <2>3. CASE k > i
    <3>1. k - 1 \in 1..Len(r) /\ r[k - 1] = x
      BY <1>1, <1>3, <2>1, <2>3
    <3> QED
      BY <1>3, <3>1 DEF ToSet
  <2> QED
    BY <1>1, <2>1, <2>2, <2>3
<1> QED
  BY <1>3, <1>4, <1>5, <1>6 DEF r
---------------------------------------------------------------------------
(* The parts that steps are made of. *)

LEMMA Values ==
  /\ None \notin Run /\ Msg \subseteq Run /\ Redo \subseteq Run /\ Join \subseteq Run
  /\ Run \subseteq Drain /\ "boot" \in Drain
BY RunsAssumption DEF Run, Drain

(* One handler moves. *)
Moved(r, v) == pc' = [pc EXCEPT ![r] = v]

LEMMA MovedOne ==
  ASSUME pc \in [Run -> PcValue], NEW r \in Run, NEW v \in PcValue, Moved(r, v)
  PROVE  pc' \in [Run -> PcValue] /\ pc'[r] = v /\ \A s \in Run : s # r => pc'[s] = pc[s]
BY DEF Moved

LEMMA BeginShape ==
  ASSUME TypesInv, SlotHoldsLiveRun, NEW r \in Run, Begin(r)
  PROVE  /\ Moved(r, "root") \/ Moved(r, "replacing")
         /\ waits' \in [Run -> Run \cup {None}] /\ slot' \in Run \cup {None}
         /\ scope' \in [Run -> ScopeValue] /\ aborted' \subseteq Run
         /\ SlotHoldsLiveRun'
<1> USE DEF TypesInv, HandlerTypes, ScopeTypes
<1>1. CASE slot = None
  <2>1. Install(r)
    BY <1>1 DEF Begin
  <2> QED
    BY <2>1, Values DEF Install, Moved, ScopeValue, SlotHoldsLiveRun
<1>2. CASE slot # None
  BY <1>2 DEF Begin, Moved, SlotHoldsLiveRun
<1> QED
  BY <1>1, <1>2

LEMMA InstallShape ==
  ASSUME TypesInv, NEW r \in Run, Install(r)
  PROVE  /\ Moved(r, "root")
         /\ waits' \in [Run -> Run \cup {None}] /\ slot' \in Run \cup {None}
         /\ scope' \in [Run -> ScopeValue] /\ aborted' \subseteq Run
         /\ SlotHoldsLiveRun'
BY Values DEF TypesInv, HandlerTypes, ScopeTypes, Install, Moved, ScopeValue, SlotHoldsLiveRun

LEMMA GateShape ==
  ASSUME TypesInv, SlotHoldsLiveRun, NEW m \in Msg, Awaiting(m) \/ Passing(m)
  PROVE  /\ Moved(m, "gate") \/ Moved(m, "root") \/ Moved(m, "replacing")
         /\ waits' \in [Run -> Run \cup {None}] /\ slot' \in Run \cup {None}
         /\ scope' \in [Run -> ScopeValue] /\ aborted' \subseteq Run
         /\ gate' \in Msg \cup {None}
         /\ SlotHoldsLiveRun'
<1>1. CASE Awaiting(m)
  BY <1>1, Values DEF Awaiting, TypesInv, HandlerTypes, ScopeTypes, Moved, SlotHoldsLiveRun
<1>2. CASE Passing(m)
  <2>1. gate' = m /\ Begin(m)
    BY <1>2 DEF Passing, Enter
  <2> QED
    BY <2>1, Values, BeginShape
<1> QED
  BY <1>1, <1>2

LEMMA SettleShape ==
  ASSUME TypesInv, SlotHoldsLiveRun, NEW r \in Run, NEW tasks \in SUBSET {"main", "side"},
         NEW root \in ScopeValue, root = "open" \/ root = scope[r], Settle(r, root, tasks)
  PROVE  /\ slot' \in Run \cup {None} /\ scope' \in [Run -> ScopeValue]
         /\ task' \in [Run -> SUBSET {"main", "side"}]
         /\ drain' \in [Drain -> {None, "find", "delete", "deliver"}]
         /\ \A d \in Drain : drain'[d] \in {"delete", "deliver"} => drain'[d] = drain[d]
         /\ SlotHoldsLiveRun'
<1> USE Values DEF TypesInv, ScopeTypes, DrainTypes
<1>1. task' \in [Run -> SUBSET {"main", "side"}]
  BY DEF Settle
<1>2. CASE root # "root" /\ tasks = {} /\ scope[r] # "finished"
  <2>1. scope' = [scope EXCEPT ![r] = "finished"] /\ slot' = FreedSlot(r)
    BY <1>2 DEF Settle
  <2>2. drain' = [drain EXCEPT ![r] = "find"] \/ drain' = drain
    BY <1>2 DEF Settle
  <2>3. slot' = None \/ (slot' = slot /\ slot # r)
    BY <2>1 DEF FreedSlot
  <2> QED
    BY <1>1, <2>1, <2>2, <2>3 DEF ScopeValue, SlotHoldsLiveRun
<1>3. CASE ~(root # "root" /\ tasks = {} /\ scope[r] # "finished")
  <2>1. scope' = [scope EXCEPT ![r] = root] /\ slot' = slot /\ drain' = drain
    BY <1>3 DEF Settle
  <2> QED
    BY <1>1, <2>1 DEF SlotHoldsLiveRun
<1> QED
  BY <1>2, <1>3

LEMMA RootDoneShape ==
  ASSUME TypesInv, SlotHoldsLiveRun, NEW r \in Run, NEW tasks \in SUBSET {"main", "side"},
         RootDone(r, tasks)
  PROVE  /\ Moved(r, "done") /\ gate' \in Msg \cup {None}
         /\ slot' \in Run \cup {None} /\ scope' \in [Run -> ScopeValue]
         /\ task' \in [Run -> SUBSET {"main", "side"}]
         /\ drain' \in [Drain -> {None, "find", "delete", "deliver"}]
         /\ \A d \in Drain : drain'[d] \in {"delete", "deliver"} => drain'[d] = drain[d]
         /\ SlotHoldsLiveRun'
<1>1. "open" \in ScopeValue /\ Settle(r, "open", tasks)
  BY DEF RootDone, ScopeValue
<1>2. Moved(r, "done") /\ gate' \in Msg \cup {None}
  BY DEF RootDone, Moved, TypesInv, HandlerTypes
<1> QED
  BY <1>1, <1>2, SettleShape

(* A process that dies. *)
LEMMA DiesShape ==
  ASSUME TypesInv, Dies
  PROVE  /\ pc' \in [Run -> PcValue]
         /\ \A r \in Run : pc'[r] = pc[r] \/ (pc[r] \in Handling /\ pc'[r] = "dead")
         /\ waits' \in [Run -> Run \cup {None}] /\ how' = how /\ gate' = None
         /\ slot' = None /\ scope' \in [Run -> ScopeValue]
         /\ task' \in [Run -> SUBSET {"main", "side"}] /\ aborted' = aborted
         /\ fanin' \in [Run -> {None, "check", "detached"}] /\ round' = round
         /\ drain' = [d \in Drain |-> None] /\ picked' = [d \in Drain |-> None]
         /\ queue' = queue /\ accepted' = accepted /\ dropped' = dropped /\ posted' = posted
         /\ up' = FALSE
<1>1. pc' = [r \in Run |-> IF pc[r] \in Handling THEN "dead" ELSE pc[r]]
  BY DEF Dies
<1>2. scope' = [r \in Run |-> IF scope[r] = None THEN None ELSE "finished"]
  BY DEF Dies
<1>3. scope' \in [Run -> ScopeValue]
  BY <1>2 DEF ScopeValue
<1>4. pc' \in [Run -> PcValue]
  BY <1>1 DEF TypesInv, HandlerTypes, PcValue
<1> QED
  BY <1>1, <1>3, <1>4 DEF Dies, pending
---------------------------------------------------------------------------
(* What a step does to the rows. *)

NewRows == queue' = queue /\ dropped' = dropped /\ posted' = posted
SameDelivery == \A d \in Drain : drain'[d] = "deliver" => drain[d] = "deliver" /\ picked'[d] = picked[d]

(* Handlers go on that have nothing to do with a row in the table.          *)
Quiet ==
    /\ NewRows /\ SameDelivery
    /\ \A m \in Msg : pc'[m] = pc[m] \/ /\ pc[m] # "queued" /\ pc'[m] # "queued"
                                        /\ m \in posted => pc'[m] \in {"appended", "done", "dead"}
Appends(m) ==
    /\ pc[m] = "root" /\ Moved(m, "appended") /\ posted' = posted \cup {m}
    /\ queue' = queue /\ dropped' = dropped /\ drain' = drain /\ picked' = picked
Inserts(m) ==
    /\ pc[m] = "insert" /\ Moved(m, "queued") /\ queue' = Append(queue, m)
    /\ dropped' = dropped /\ posted' = posted /\ drain' = drain /\ picked' = picked
Deletes(d) ==
    /\ drain[d] = "delete" /\ picked[d] \in ToSet(queue) /\ queue' = Without(queue, picked[d])
    /\ drain' = [drain EXCEPT ![d] = "deliver"]
    /\ pc' = pc /\ dropped' = dropped /\ posted' = posted /\ picked' = picked
Delivers(d) ==
    /\ drain[d] = "deliver" /\ NewRows
    /\ \E v \in {"gate", "root", "replacing"} : Moved(picked[d], v)
    /\ drain' = [drain EXCEPT ![d] = None] /\ picked' = [picked EXCEPT ![d] = None]
Drops(m) ==
    /\ m \in ToSet(queue) /\ queue' = Without(queue, m) /\ dropped' = dropped \cup {m}
    /\ pc' = pc /\ posted' = posted /\ drain' = drain /\ picked' = picked

RowStep ==
    \/ Quiet
    \/ \E m \in Msg : Appends(m) \/ Inserts(m) \/ Drops(m)
    \/ \E d \in Drain : Deletes(d) \/ Delivers(d)
---------------------------------------------------------------------------
LEMMA RowsKept ==
  ASSUME TypesInv, RowsInv, DeliveredOnce, RowStep
  PROVE  RowsInv' /\ DeliveredOnce'
<1>0. /\ pc \in [Run -> PcValue] /\ Msg \subseteq Run /\ queue \in Seq(Msg)
      /\ posted \subseteq Msg /\ dropped \subseteq Msg /\ ToSet(queue) \subseteq Msg
      /\ drain \in [Drain -> {None, "find", "delete", "deliver"}]
      /\ picked \in [Drain -> Msg \cup {None}]
      /\ \A d \in Drain : drain[d] \in {"delete", "deliver"} => picked[d] \in Msg
  BY Values DEF TypesInv, HandlerTypes, RowTypes, DrainTypes, NamesInv, ToSet
<1>1. CASE Quiet
  <2>1. RowsInv'
    BY <1>0, <1>1 DEF Quiet, NewRows, RowsInv
  <2>2. DeliveredOnce'
    BY <1>0, <1>1 DEF Quiet, NewRows, SameDelivery, DeliveredOnce
  <2> QED
    BY <2>1, <2>2
<1>2. ASSUME NEW m \in Msg, Appends(m) PROVE RowsInv' /\ DeliveredOnce'
  <2>1. pc'[m] = "appended" /\ \A n \in Msg : n # m => pc'[n] = pc[n]
    BY <1>0, <1>2 DEF Appends, Moved
  <2>2. pc[m] = "root" /\ posted' = posted \cup {m} /\ queue' = queue /\ dropped' = dropped
        /\ drain' = drain /\ picked' = picked
    BY <1>2 DEF Appends
  <2>3. RowsInv'
    BY <1>0, <2>1, <2>2 DEF RowsInv
  <2>4. DeliveredOnce'
    BY <1>0, <2>1, <2>2 DEF DeliveredOnce
  <2> QED
    BY <2>3, <2>4
<1>3. ASSUME NEW m \in Msg, Inserts(m) PROVE RowsInv' /\ DeliveredOnce'
  <2>1. pc'[m] = "queued" /\ \A n \in Msg : n # m => pc'[n] = pc[n]
    BY <1>0, <1>3 DEF Inserts, Moved
  <2>2. pc[m] = "insert" /\ posted' = posted /\ queue' = Append(queue, m) /\ dropped' = dropped
        /\ drain' = drain /\ picked' = picked
    BY <1>3 DEF Inserts
  <2>3. /\ Len(queue') = Len(queue) + 1 /\ queue'[Len(queue) + 1] = m
        /\ \A n \in 1..Len(queue) : queue'[n] = queue[n]
    BY <1>0, <2>2
  <2>4. ToSet(queue') = ToSet(queue) \cup {m}
    <3>1. queue \in Seq(Msg) /\ queue' \in Seq(Msg)
      BY <1>0, <2>2
    <3>2. ASSUME NEW x \in ToSet(queue') PROVE x \in ToSet(queue) \cup {m}
      <4>1. PICK n \in 1..Len(queue') : queue'[n] = x
        BY <3>1, <3>2 DEF ToSet
      <4> QED
        BY <2>3, <3>1, <4>1 DEF ToSet
    <3>3. ASSUME NEW x \in ToSet(queue) \cup {m} PROVE x \in ToSet(queue')
      <4>1. PICK n \in 1..Len(queue') : queue'[n] = x
        BY <2>3, <3>1, <3>3 DEF ToSet
      <4> QED
        BY <3>1, <4>1 DEF ToSet
    <3> QED
      BY <3>2, <3>3
  <2>5. m \notin ToSet(queue) /\ m \notin posted \cup dropped
    BY <2>2 DEF RowsInv
  <2>6. Distinct(queue')
    <3>1. \A n \in 1..Len(queue) : queue[n] \in ToSet(queue)
      BY <1>0 DEF ToSet
    <3> QED
      BY <1>0, <2>3, <2>5, <3>1 DEF RowsInv, Distinct
  <2>7. RowsInv'
    BY <1>0, <2>1, <2>2, <2>4, <2>5, <2>6 DEF RowsInv
  <2>8. DeliveredOnce'
    BY <1>0, <2>1, <2>2, <2>4 DEF DeliveredOnce
  <2> QED
    BY <2>7, <2>8
<1>4. ASSUME NEW m \in Msg, Drops(m) PROVE RowsInv' /\ DeliveredOnce'
  <2>1. /\ m \in ToSet(queue) /\ queue' = Without(queue, m) /\ dropped' = dropped \cup {m}
        /\ pc' = pc /\ posted' = posted /\ drain' = drain /\ picked' = picked
    BY <1>4 DEF Drops
  <2>2. Distinct(queue') /\ ToSet(queue') = ToSet(queue) \ {m}
    BY <1>0, <2>1, WithoutOne DEF RowsInv
  <2>3. RowsInv'
    BY <1>0, <2>1, <2>2 DEF RowsInv
  <2>4. DeliveredOnce'
    BY <1>0, <2>1, <2>2 DEF DeliveredOnce
  <2> QED
    BY <2>3, <2>4
<1>5. ASSUME NEW d \in Drain, Deletes(d) PROVE RowsInv' /\ DeliveredOnce'
  <2> DEFINE m == picked[d]
  <2>1. /\ drain[d] = "delete" /\ m \in ToSet(queue) /\ queue' = Without(queue, m)
        /\ pc' = pc /\ posted' = posted /\ dropped' = dropped /\ picked' = picked
        /\ drain'[d] = "deliver" /\ \A e \in Drain \ {d} : drain'[e] = drain[e]
    BY <1>0, <1>5 DEF Deletes
  <2>2. Distinct(queue') /\ ToSet(queue') = ToSet(queue) \ {m}
    BY <1>0, <2>1, WithoutOne DEF RowsInv
  <2>3. RowsInv'
    BY <1>0, <2>1, <2>2 DEF RowsInv
  <2>4. pc[m] = "queued" /\ m \notin posted \cup dropped
    BY <2>1 DEF RowsInv
  <2>5. \A e \in Drain \ {d} : drain[e] = "deliver" => picked[e] # m
    BY <2>1 DEF DeliveredOnce
  <2>6. DeliveredOnce'
    BY <1>0, <2>1, <2>2, <2>4, <2>5 DEF DeliveredOnce
  <2> QED
    BY <2>3, <2>6
<1>6. ASSUME NEW d \in Drain, Delivers(d) PROVE RowsInv' /\ DeliveredOnce'
  <2> DEFINE m == picked[d]
  <2>1. /\ drain[d] = "deliver" /\ queue' = queue /\ dropped' = dropped /\ posted' = posted
        /\ drain'[d] # "deliver" /\ \A e \in Drain \ {d} : drain'[e] = drain[e] /\ picked'[e] = picked[e]
    BY <1>0, <1>6 DEF Delivers, NewRows, None
  <2>2. /\ m \in Msg /\ pc[m] = "queued" /\ m \notin posted \cup dropped \cup ToSet(queue)
        /\ \A e \in Drain \ {d} : drain[e] = "deliver" => picked[e] # m
    BY <1>0, <2>1 DEF DeliveredOnce
  <2>3. \A n \in Msg : n # m => pc'[n] = pc[n]
    BY <1>0, <1>6, <2>2 DEF Delivers, Moved
  <2>4. RowsInv'
    BY <1>0, <2>1, <2>2, <2>3 DEF RowsInv
  <2>5. DeliveredOnce'
    BY <1>0, <2>1, <2>2, <2>3 DEF DeliveredOnce
  <2> QED
    BY <2>4, <2>5
<1> QED
  BY <1>1, <1>2, <1>3, <1>4, <1>5, <1>6 DEF RowStep
---------------------------------------------------------------------------
(* The steps. *)

Good == TypesInv' /\ SlotHoldsLiveRun' /\ RowStep

(* A handler that is not at a row moves, and nothing is delivered.          *)
LEMMA HandlerStep ==
  ASSUME TypesInv, RowsInv, SlotHoldsLiveRun', ScopeTypes', RoundTypes', ProcessTypes', DrainTypes',
         NEW r \in Run, NEW v \in PcValue, Moved(r, v), pc[r] # "queued", v # "queued",
         r \in posted => v \in {"appended", "done", "dead"},
         v \in {"insert", "gate", "steering", "appended"} => r \in Msg,
         waits' \in [Run -> Run \cup {None}], how' \in [Msg -> {None, "plain", "enqueue", "steer", "drained"}],
         gate' \in Msg \cup {None},
         NewRows, accepted' = accepted, picked' = picked,
         \A d \in Drain : drain'[d] \in {"delete", "deliver"} => drain'[d] = drain[d]
  PROVE  Good
<1>1. pc' \in [Run -> PcValue] /\ pc'[r] = v /\ \A s \in Run : s # r => pc'[s] = pc[s]
  BY MovedOne DEF TypesInv, HandlerTypes
<1>2. HandlerTypes' /\ RowTypes'
  BY <1>1 DEF HandlerTypes, TypesInv, RowTypes, NewRows
<1>3. NamesInv'
  BY <1>1 DEF NamesInv, TypesInv
<1>4. Quiet
  BY <1>1, Values DEF Quiet, SameDelivery
<1> QED
  BY <1>2, <1>3, <1>4 DEF Good, TypesInv, RowStep

(* No handler moves, and nothing is delivered. *)
LEMMA StillStep ==
  ASSUME TypesInv, SlotHoldsLiveRun', ScopeTypes', RoundTypes', ProcessTypes', DrainTypes',
         pc' = pc, waits' = waits, how' = how, gate' = gate, NewRows, accepted' = accepted,
         \A d \in Drain : drain'[d] = "deliver" => drain[d] = "deliver" /\ picked'[d] = picked[d],
         \A d \in Drain : drain'[d] \in {"delete", "deliver"} => picked'[d] \in Msg
  PROVE  Good
<1>1. HandlerTypes' /\ RowTypes' /\ NamesInv'
  BY DEF HandlerTypes, TypesInv, RowTypes, NewRows, NamesInv
<1>2. Quiet
  BY DEF Quiet, SameDelivery
<1> QED
  BY <1>1, <1>2 DEF Good, TypesInv, RowStep

(* The posts and requests that begin a run. *)
LEMMA EnterSteps ==
  ASSUME TypesInv, SlotHoldsLiveRun, RowsInv
  PROVE  /\ \A r \in Run : Resume(r) => Good
         /\ \A m \in Msg, w \in Way : Post(m, w) => Good
         /\ \A q \in Redo : Request(q) => Good
         /\ \A j \in Join : JoinRun(j) => Good
<1> USE DEF handlers, scopes, pending, drains, process
<1>0. /\ {"root", "replacing", "gate", "steering", "insert"} \subseteq PcValue
      /\ \A m \in posted : pc[m] \in {"appended", "done", "dead"}
  BY DEF PcValue, Handling, RowsInv
<1>1. ASSUME NEW r \in Run, Resume(r) PROVE Good
  <2>1. /\ how' = how /\ task' = task /\ RoundTypes' /\ ProcessTypes' /\ DrainTypes'
        /\ NewRows /\ accepted' = accepted /\ drain' = drain /\ picked' = picked
    BY <1>1 DEF Resume, TypesInv, RoundTypes, ProcessTypes, DrainTypes, NewRows
  <2>2. pc[r] \in {"replacing", "gate", "steering"}
    BY <1>1 DEF Resume, ReplaceResumes, GateResumes, SteerResumes
  <2>3. /\ Moved(r, "root") \/ Moved(r, "replacing")
        /\ waits' \in [Run -> Run \cup {None}] /\ slot' \in Run \cup {None}
        /\ scope' \in [Run -> ScopeValue] /\ aborted' \subseteq Run
        /\ gate' \in Msg \cup {None}
        /\ SlotHoldsLiveRun'
    <3>1. CASE Install(r) /\ gate' = gate
      BY <3>1, InstallShape DEF TypesInv, HandlerTypes
    <3>2. CASE Enter(r) /\ pc[r] \in {"gate", "steering"}
      <4>1. r \in Msg
        BY <3>2 DEF TypesInv, NamesInv
      <4> QED
        BY <3>2, <4>1, BeginShape DEF Enter
    <3> QED
      BY <1>1, <3>1, <3>2 DEF Resume, GateResumes, SteerResumes
  <2>4. ScopeTypes' /\ how' \in [Msg -> {None, "plain", "enqueue", "steer", "drained"}]
    BY <2>1, <2>3 DEF ScopeTypes, TypesInv, HandlerTypes
  <2> QED
    BY <1>0, <2>1, <2>2, <2>3, <2>4, HandlerStep
<1>2. ASSUME NEW m \in Msg, NEW w \in Way, Post(m, w) PROVE Good
  <2>1. /\ task' = task /\ RoundTypes' /\ ProcessTypes' /\ DrainTypes'
        /\ NewRows /\ accepted' = accepted /\ drain' = drain /\ picked' = picked
        /\ pc[m] = "idle" /\ how' = [how EXCEPT ![m] = w]
    BY <1>2 DEF Post, TypesInv, RoundTypes, ProcessTypes, DrainTypes, NewRows
  <2>2. how' \in [Msg -> {None, "plain", "enqueue", "steer", "drained"}]
    BY <2>1, RunsAssumption DEF TypesInv, HandlerTypes
  <2>3. \E v \in {"root", "replacing", "gate", "steering", "insert"} :
           /\ Moved(m, v)
           /\ waits' \in [Run -> Run \cup {None}] /\ slot' \in Run \cup {None}
           /\ scope' \in [Run -> ScopeValue] /\ aborted' \subseteq Run
           /\ gate' \in Msg \cup {None}
           /\ SlotHoldsLiveRun'
    <3>1. CASE pc' = [pc EXCEPT ![m] = "insert"] /\ UNCHANGED <<waits, gate, scope, slot, aborted>>
      BY <3>1 DEF Moved, TypesInv, HandlerTypes, ScopeTypes, SlotHoldsLiveRun
    <3>2. CASE Awaiting(m) \/ Passing(m)
      BY <3>2, GateShape
    <3>3. CASE Enter(m)
      <4>1. gate' = m /\ Begin(m)
        BY <3>3 DEF Enter
      <4> QED
        BY <4>1, BeginShape, Values
    <3>4. CASE AbortActiveAndWait(m)
      BY <3>4, Values DEF AbortActiveAndWait, Moved, TypesInv, HandlerTypes, ScopeTypes, SlotHoldsLiveRun
    <3> QED
      BY <1>2, <3>1, <3>2, <3>3, <3>4 DEF Post
  <2>4. ScopeTypes'
    BY <2>1, <2>3 DEF ScopeTypes, TypesInv
  <2> QED
    BY <1>0, <2>1, <2>2, <2>3, <2>4, Values, HandlerStep
<1>3. ASSUME NEW q \in Redo, Request(q) PROVE Good
  <2>1. /\ how' = how /\ gate' = gate /\ task' = task /\ RoundTypes' /\ ProcessTypes' /\ DrainTypes'
        /\ NewRows /\ accepted' = accepted /\ drain' = drain /\ picked' = picked
        /\ pc[q] = "idle" /\ Begin(q)
    BY <1>3 DEF Request, TypesInv, RoundTypes, ProcessTypes, DrainTypes, NewRows
  <2>2. q \in Run
    BY Values
  <2>3. /\ Moved(q, "root") \/ Moved(q, "replacing")
        /\ waits' \in [Run -> Run \cup {None}] /\ ScopeTypes' /\ SlotHoldsLiveRun'
    BY <2>1, <2>2, BeginShape DEF ScopeTypes, TypesInv
  <2>4. how' \in [Msg -> {None, "plain", "enqueue", "steer", "drained"}] /\ gate' \in Msg \cup {None}
    BY <2>1 DEF TypesInv, HandlerTypes
  <2> QED
    BY <1>0, <2>1, <2>2, <2>3, <2>4, HandlerStep
<1>4. ASSUME NEW j \in Join, JoinRun(j) PROVE Good
  <2>1. /\ how' = how /\ gate' = gate /\ waits' = waits /\ task' = task /\ aborted' = aborted
        /\ RoundTypes' /\ ProcessTypes' /\ DrainTypes'
        /\ NewRows /\ accepted' = accepted /\ drain' = drain /\ picked' = picked
        /\ pc[j] = "idle" /\ Moved(j, "root")
        /\ scope' = [scope EXCEPT ![j] = "root"] /\ slot' = IF slot = None THEN j ELSE slot
    BY <1>4 DEF JoinRun, TypesInv, RoundTypes, ProcessTypes, DrainTypes, NewRows, Moved
  <2>2. j \in Run
    BY Values
  <2>3. ScopeTypes' /\ SlotHoldsLiveRun'
    BY <2>1, <2>2 DEF ScopeTypes, TypesInv, SlotHoldsLiveRun, ScopeValue
  <2>4. /\ how' \in [Msg -> {None, "plain", "enqueue", "steer", "drained"}] /\ gate' \in Msg \cup {None}
        /\ waits' \in [Run -> Run \cup {None}]
    BY <2>1 DEF TypesInv, HandlerTypes
  <2> QED
    BY <1>0, <2>1, <2>2, <2>3, <2>4, HandlerStep
<1> QED
  BY <1>1, <1>2, <1>3, <1>4

(* The work of a run. *)
LEMMA RootEnds ==
  ASSUME TypesInv, SlotHoldsLiveRun, RowsInv, NEW r \in Run, NEW tasks \in SUBSET {"main", "side"},
         pc[r] # "queued", RootDone(r, tasks), fanin' \in [Run -> {None, "check", "detached"}]
  PROVE  Good
<1> USE DEF pending
<1>1. /\ how' = how /\ waits' = waits /\ round' = round /\ aborted' = aborted
      /\ NewRows /\ accepted' = accepted /\ picked' = picked /\ ProcessTypes'
  BY DEF RootDone, NewRows, process, TypesInv, ProcessTypes
<1>2. /\ Moved(r, "done") /\ gate' \in Msg \cup {None}
      /\ ScopeTypes' /\ DrainTypes' /\ SlotHoldsLiveRun'
      /\ \A d \in Drain : drain'[d] \in {"delete", "deliver"} => drain'[d] = drain[d]
  BY <1>1, RootDoneShape DEF ScopeTypes, DrainTypes, TypesInv
<1>3. RoundTypes' /\ how' \in [Msg -> {None, "plain", "enqueue", "steer", "drained"}]
      /\ waits' \in [Run -> Run \cup {None}]
  BY <1>1 DEF RoundTypes, TypesInv, HandlerTypes
<1>4. "done" \in PcValue
  BY DEF PcValue
<1> QED
  BY <1>1, <1>2, <1>3, <1>4, HandlerStep

LEMMA TaskEnds ==
  ASSUME TypesInv, SlotHoldsLiveRun, RowsInv, NEW r \in Run, NEW t,
         Settle(r, scope[r], task[r] \ {t}), fanin' \in [Run -> {None, "check", "detached"}],
         UNCHANGED <<handlers, round, aborted, pending, picked, posted, process>>
  PROVE  Good
<1> USE DEF handlers, pending, process
<1>1. /\ pc' = pc /\ how' = how /\ waits' = waits /\ gate' = gate /\ round' = round /\ aborted' = aborted
      /\ NewRows /\ accepted' = accepted /\ picked' = picked /\ ProcessTypes'
  BY DEF NewRows, TypesInv, ProcessTypes
<1>2. scope[r] \in ScopeValue /\ task[r] \ {t} \in SUBSET {"main", "side"}
  BY DEF TypesInv, ScopeTypes
<1>3. /\ ScopeTypes' /\ DrainTypes' /\ SlotHoldsLiveRun'
      /\ \A d \in Drain : drain'[d] \in {"delete", "deliver"} => drain'[d] = drain[d]
  BY <1>1, <1>2, SettleShape DEF ScopeTypes, DrainTypes, TypesInv
<1>4. RoundTypes'
  BY <1>1 DEF RoundTypes, TypesInv
<1> QED
  BY <1>1, <1>3, <1>4, StillStep DEF TypesInv, NamesInv

LEMMA RunSteps ==
  ASSUME TypesInv, SlotHoldsLiveRun, RowsInv, NEW r \in Run, Root(r) \/ Task(r) \/ Later(r) \/ Cancel
  PROVE  Good
<1> USE DEF handlers, scopes, pending, drains, process
<1>0. fanin \in [Run -> {None, "check", "detached"}] /\ round \in [Run -> 0..MaxRound]
      /\ MaxRound \in Nat
  BY RunsAssumption DEF TypesInv, RoundTypes
<1>1. CASE AppendMessage(r)
  <2>1. /\ r \in Msg /\ pc[r] = "root" /\ Moved(r, "appended") /\ posted' = posted \cup {r}
        /\ waits' = waits /\ how' = how /\ gate' = gate /\ queue' = queue /\ accepted' = accepted
        /\ dropped' = dropped /\ drain' = drain /\ picked' = picked
        /\ ScopeTypes' /\ RoundTypes' /\ DrainTypes' /\ ProcessTypes' /\ SlotHoldsLiveRun'
    BY <1>1 DEF AppendMessage, Moved, TypesInv, ScopeTypes, RoundTypes, DrainTypes, ProcessTypes,
       SlotHoldsLiveRun
  <2>2. "appended" \in PcValue
    BY DEF PcValue, Handling
  <2>3. pc' \in [Run -> PcValue] /\ pc'[r] = "appended" /\ \A s \in Run : s # r => pc'[s] = pc[s]
    BY <2>1, <2>2, MovedOne DEF TypesInv, HandlerTypes
  <2>4. HandlerTypes' /\ RowTypes' /\ NamesInv'
    BY <2>1, <2>3 DEF TypesInv, HandlerTypes, RowTypes, NamesInv
  <2>5. Appends(r)
    BY <2>1 DEF Appends
  <2> QED
    BY <2>1, <2>4, <2>5 DEF Good, TypesInv, RowStep
<1>2. CASE StartThoughts(r)
  <2>1. /\ pc[r] # "queued" /\ fanin' = fanin
        /\ \E side \in SUBSET (Env \cap {"side"}) :
             RootDone(r, IF r \in aborted THEN {} ELSE {"main"} \cup side)
    BY <1>2 DEF StartThoughts
  <2>2. PICK tasks \in SUBSET {"main", "side"} : RootDone(r, tasks)
    BY <2>1
  <2> QED
    BY <1>0, <2>1, <2>2, RootEnds
<1>3. CASE RootFails(r)
  BY <1>0, <1>3, RootEnds DEF RootFails
<1>4. CASE JoinRoot(r)
  <2>1. fanin' \in [Run -> {None, "check", "detached"}] /\ pc[r] # "queued"
    BY <1>0, <1>4 DEF JoinRoot
  <2>2. PICK tasks \in SUBSET {"main", "side"} : RootDone(r, tasks)
    BY <1>4 DEF JoinRoot
  <2> QED
    BY <2>1, <2>2, RootEnds
<1>5. CASE MainEnds(r)
  <2>1. fanin' \in [Run -> {None, "check", "detached"}]
    BY <1>0, <1>5 DEF MainEnds
  <2> QED
    BY <1>5, <2>1, TaskEnds DEF MainEnds
<1>6. CASE SideEnds(r)
  BY <1>0, <1>6, TaskEnds DEF SideEnds
<1>7. CASE FanIn(r)
  <2>1. /\ pc' = pc /\ how' = how /\ waits' = waits /\ gate' = gate
        /\ slot' = slot /\ scope' = scope /\ aborted' = aborted
        /\ NewRows /\ accepted' = accepted /\ drain' = drain /\ picked' = picked
        /\ DrainTypes' /\ ProcessTypes' /\ SlotHoldsLiveRun'
    BY <1>7 DEF FanIn, NewRows, TypesInv, DrainTypes, ProcessTypes, SlotHoldsLiveRun
  <2>2. RoundTypes'
    <3>1. fanin' \in [Run -> {None, "check", "detached"}]
      BY <1>0, <1>7 DEF FanIn
    <3>2. round' \in [Run -> 0..MaxRound]
      <4>1. CASE round' = round
        BY <1>0, <4>1
      <4>2. CASE round[r] < MaxRound /\ round' = [round EXCEPT ![r] = @ + 1]
        BY <1>0, <4>2
      <4> QED
        BY <1>7, <4>1, <4>2 DEF FanIn
    <3> QED
      BY <3>1, <3>2 DEF RoundTypes
  <2>3. task' \in [Run -> SUBSET {"main", "side"}]
    BY <1>7 DEF FanIn, TypesInv, ScopeTypes
  <2>4. ScopeTypes'
    BY <2>1, <2>3 DEF ScopeTypes, TypesInv
  <2> QED
    BY <2>1, <2>2, <2>4, StillStep DEF TypesInv, NamesInv
<1>8. CASE DetachedEnds(r) \/ Cancel
  <2>1. /\ pc' = pc /\ how' = how /\ waits' = waits /\ gate' = gate
        /\ slot' = slot /\ scope' = scope /\ task' = task /\ round' = round
        /\ NewRows /\ accepted' = accepted /\ drain' = drain /\ picked' = picked
        /\ DrainTypes' /\ ProcessTypes' /\ SlotHoldsLiveRun'
    BY <1>8 DEF DetachedEnds, Cancel, NewRows, TypesInv, DrainTypes, ProcessTypes, SlotHoldsLiveRun
  <2>2. RoundTypes'
    BY <1>0, <1>8, <2>1 DEF DetachedEnds, Cancel, RoundTypes
  <2>3. aborted' \subseteq Run
    BY <1>8 DEF DetachedEnds, Cancel, TypesInv, ScopeTypes
  <2>4. ScopeTypes'
    BY <2>1, <2>3 DEF ScopeTypes, TypesInv
  <2> QED
    BY <2>1, <2>2, <2>4, StillStep DEF TypesInv, NamesInv
<1> QED
  BY <1>1, <1>2, <1>3, <1>4, <1>5, <1>6, <1>7, <1>8 DEF Root, Task, Later

(* The queue. *)
LEMMA QueueSteps ==
  ASSUME TypesInv, SlotHoldsLiveRun, RowsInv, DeliveredOnce
  PROVE  /\ \A m \in Msg : InsertQueued(m) \/ Dequeue(m) => Good
         /\ \A d \in Drain : DrainFind(d) \/ DrainDelete(d) \/ Deliver(d) => Good
<1> USE DEF handlers, scopes, pending, drains, process
<1>0. /\ queue \in Seq(Msg) /\ accepted \in Seq(Msg) /\ Distinct(queue) /\ ToSet(queue) \subseteq Msg
      /\ drain \in [Drain -> {None, "find", "delete", "deliver"}]
      /\ picked \in [Drain -> Msg \cup {None}]
      /\ \A d \in Drain : drain[d] \in {"delete", "deliver"} => picked[d] \in Msg
  BY DEF TypesInv, RowTypes, DrainTypes, RowsInv, ToSet, NamesInv
<1>1. ASSUME NEW m \in Msg, InsertQueued(m) PROVE Good
  <2>1. /\ pc[m] = "insert" /\ Moved(m, "queued") /\ queue' = Append(queue, m)
        /\ accepted' = Append(accepted, m)
        /\ waits' = waits /\ how' = how /\ gate' = gate
        /\ dropped' = dropped /\ posted' = posted /\ drain' = drain /\ picked' = picked
        /\ ScopeTypes' /\ RoundTypes' /\ DrainTypes' /\ ProcessTypes' /\ SlotHoldsLiveRun'
    BY <1>1 DEF InsertQueued, Moved, TypesInv, ScopeTypes, RoundTypes, DrainTypes, ProcessTypes,
       SlotHoldsLiveRun
  <2>2. m \in Run /\ "queued" \in PcValue
    BY Values DEF PcValue
  <2>3. pc' \in [Run -> PcValue] /\ pc'[m] = "queued" /\ \A s \in Run : s # m => pc'[s] = pc[s]
    BY <2>1, <2>2, MovedOne DEF TypesInv, HandlerTypes
  <2>4. HandlerTypes' /\ NamesInv'
    BY <2>1, <2>3 DEF TypesInv, HandlerTypes, NamesInv
  <2>5. RowTypes'
    BY <1>0, <2>1 DEF TypesInv, RowTypes
  <2>6. Inserts(m)
    BY <2>1 DEF Inserts
  <2> QED
    BY <2>1, <2>4, <2>5, <2>6 DEF Good, TypesInv, RowStep
<1>2. ASSUME NEW m \in Msg, Dequeue(m) PROVE Good
  <2>1. /\ m \in ToSet(queue) /\ queue' = Without(queue, m) /\ dropped' = dropped \cup {m}
        /\ pc' = pc /\ waits' = waits /\ how' = how /\ gate' = gate
        /\ accepted' = accepted /\ posted' = posted /\ drain' = drain /\ picked' = picked
        /\ ScopeTypes' /\ RoundTypes' /\ DrainTypes' /\ ProcessTypes' /\ SlotHoldsLiveRun'
    BY <1>2 DEF Dequeue, TypesInv, ScopeTypes, RoundTypes, DrainTypes, ProcessTypes, SlotHoldsLiveRun
  <2>2. HandlerTypes' /\ NamesInv'
    BY <2>1 DEF TypesInv, HandlerTypes, NamesInv
  <2>3. RowTypes'
    BY <1>0, <2>1, WithoutOne DEF TypesInv, RowTypes
  <2>4. Drops(m)
    BY <2>1 DEF Drops
  <2> QED
    BY <2>1, <2>2, <2>3, <2>4 DEF Good, TypesInv, RowStep
<1>3. ASSUME NEW d \in Drain, DrainFind(d) PROVE Good
  <2>1. /\ pc' = pc /\ waits' = waits /\ how' = how /\ gate' = gate
        /\ NewRows /\ accepted' = accepted
        /\ ScopeTypes' /\ RoundTypes' /\ ProcessTypes' /\ SlotHoldsLiveRun'
    BY <1>3 DEF DrainFind, TypesInv, ScopeTypes, RoundTypes, ProcessTypes, SlotHoldsLiveRun, NewRows
  <2>2. CASE drain' = [drain EXCEPT ![d] = None] /\ picked' = picked
    <3>1. DrainTypes' /\ \A e \in Drain : drain'[e] \in {"delete", "deliver"} => drain'[e] = drain[e]
      BY <1>0, <2>2 DEF DrainTypes, None
    <3> QED
      BY <1>0, <2>1, <2>2, <3>1, StillStep
  <2>3. CASE /\ queue # <<>> /\ drain' = [drain EXCEPT ![d] = "delete"]
             /\ picked' = [picked EXCEPT ![d] = Head(queue)]
    <3>1. Head(queue) \in Msg
      BY <1>0, <2>3
    <3>2. /\ DrainTypes'
          /\ \A e \in Drain : e # d => drain'[e] = drain[e] /\ picked'[e] = picked[e]
          /\ drain'[d] = "delete" /\ picked'[d] \in Msg
      BY <1>0, <2>3, <3>1 DEF DrainTypes
    <3>3. \A e \in Drain : drain'[e] \in {"delete", "deliver"} => picked'[e] \in Msg
      BY <1>0, <3>2
    <3> QED
      BY <2>1, <3>2, <3>3, StillStep
  <2> QED
    BY <1>3, <2>2, <2>3 DEF DrainFind
<1>4. ASSUME NEW d \in Drain, DrainDelete(d) PROVE Good
  <2>1. /\ drain[d] = "delete" /\ picked[d] \in ToSet(queue) /\ queue' = Without(queue, picked[d])
        /\ drain' = [drain EXCEPT ![d] = "deliver"]
        /\ pc' = pc /\ waits' = waits /\ how' = how /\ gate' = gate
        /\ accepted' = accepted /\ dropped' = dropped /\ posted' = posted /\ picked' = picked
        /\ ScopeTypes' /\ RoundTypes' /\ ProcessTypes' /\ SlotHoldsLiveRun'
    BY <1>4 DEF DrainDelete, TypesInv, ScopeTypes, RoundTypes, ProcessTypes, SlotHoldsLiveRun
  <2>2. HandlerTypes' /\ DrainTypes' /\ NamesInv'
    BY <1>0, <2>1 DEF TypesInv, HandlerTypes, DrainTypes, NamesInv
  <2>3. RowTypes'
    BY <1>0, <2>1, WithoutOne DEF TypesInv, RowTypes
  <2>4. Deletes(d)
    BY <2>1 DEF Deletes
  <2> QED
    BY <2>1, <2>2, <2>3, <2>4 DEF Good, TypesInv, RowStep
<1>5. ASSUME NEW d \in Drain, Deliver(d) PROVE Good
  <2> DEFINE m == picked[d]
  <2>1. /\ drain[d] = "deliver"
        /\ Awaiting(m) \/ Passing(m)
        /\ drain' = [drain EXCEPT ![d] = None] /\ picked' = [picked EXCEPT ![d] = None]
        /\ how' = [how EXCEPT ![m] = "drained"]
        /\ task' = task /\ NewRows /\ accepted' = accepted /\ RoundTypes' /\ ProcessTypes'
    BY <1>5 DEF Deliver, NewRows, TypesInv, RoundTypes, ProcessTypes
  <2>2. m \in Msg /\ m \in Run
    BY <1>0, <2>1, Values
  <2>3. /\ Moved(m, "gate") \/ Moved(m, "root") \/ Moved(m, "replacing")
        /\ waits' \in [Run -> Run \cup {None}] /\ slot' \in Run \cup {None}
        /\ scope' \in [Run -> ScopeValue] /\ aborted' \subseteq Run
        /\ gate' \in Msg \cup {None}
        /\ SlotHoldsLiveRun'
    BY <2>1, <2>2, GateShape
  <2>4. PICK v \in {"gate", "root", "replacing"} : Moved(m, v)
    BY <2>3
  <2>5. v \in PcValue
    BY DEF PcValue, Handling
  <2>6. pc' \in [Run -> PcValue] /\ pc'[m] = v /\ \A s \in Run : s # m => pc'[s] = pc[s]
    BY <2>2, <2>4, <2>5, MovedOne DEF TypesInv, HandlerTypes
  <2>7. HandlerTypes'
    BY <2>1, <2>2, <2>3, <2>6 DEF TypesInv, HandlerTypes
  <2>8. ScopeTypes' /\ RowTypes'
    BY <2>1, <2>3 DEF TypesInv, ScopeTypes, RowTypes, NewRows
  <2>9. DrainTypes' /\ NamesInv'
    <3>1. /\ DrainTypes' /\ drain'[d] = None
          /\ \A e \in Drain : e # d => drain'[e] = drain[e] /\ picked'[e] = picked[e]
      BY <1>0, <2>1 DEF DrainTypes
    <3> QED
      BY <1>0, <2>2, <2>6, <3>1 DEF NamesInv, TypesInv, None
  <2>10. Delivers(d)
    BY <2>1, <2>4 DEF Delivers
  <2> QED
    BY <2>1, <2>3, <2>7, <2>8, <2>9, <2>10 DEF Good, TypesInv, RowStep
<1> QED
  BY <1>1, <1>2, <1>3, <1>4, <1>5

(* The process. *)
LEMMA ProcessSteps ==
  ASSUME TypesInv, SlotHoldsLiveRun, RowsInv,
         Crash \/ Boot \/ (\E d \in Drain : DrainDies(d)) \/ UNCHANGED vars
  PROVE  Good
<1> USE DEF handlers, scopes, pending, drains, process
<1>1. ASSUME Dies, crashes' \in 0..MaxCrash PROVE Good
  <2>1. /\ HandlerTypes' /\ ScopeTypes' /\ RoundTypes' /\ RowTypes'
        /\ DrainTypes' /\ ProcessTypes' /\ SlotHoldsLiveRun'
    <3>1. HandlerTypes' /\ ScopeTypes' /\ SlotHoldsLiveRun'
      BY <1>1, DiesShape DEF TypesInv, HandlerTypes, ScopeTypes, SlotHoldsLiveRun
    <3>2. RoundTypes' /\ RowTypes'
      BY <1>1, DiesShape DEF TypesInv, RoundTypes, RowTypes
    <3>3. DrainTypes'
      BY <1>1, DiesShape DEF DrainTypes
    <3>4. ProcessTypes'
      BY <1>1, DiesShape DEF ProcessTypes
    <3> QED
      BY <3>1, <3>2, <3>3, <3>4
  <2>2. NamesInv'
    BY <1>1, DiesShape DEF NamesInv, TypesInv, None
  <2>3. \A m \in Msg : pc'[m] = pc[m] \/ /\ pc[m] # "queued" /\ pc'[m] # "queued"
                                         /\ m \in posted => pc'[m] \in {"appended", "done", "dead"}
    BY <1>1, DiesShape, Values DEF Handling
  <2>4. Quiet
    BY <1>1, <2>3, DiesShape DEF Quiet, NewRows, SameDelivery, None
  <2> QED
    BY <2>1, <2>2, <2>4 DEF Good, TypesInv, RowStep
<1>2. CASE Crash
  <2>1. Dies /\ crashes' \in 0..MaxCrash
    BY <1>2, RunsAssumption DEF Crash, TypesInv, ProcessTypes
  <2> QED
    BY <1>1, <2>1
<1>3. ASSUME NEW d \in Drain, DrainDies(d) PROVE Good
  <2>1. Dies /\ crashes' \in 0..MaxCrash
    BY <1>3 DEF DrainDies, TypesInv, ProcessTypes
  <2> QED
    BY <1>1, <2>1
<1>4. CASE Boot
  <2>1. /\ pc' = pc /\ waits' = waits /\ how' = how /\ gate' = gate
        /\ NewRows /\ accepted' = accepted /\ picked' = picked
        /\ ScopeTypes' /\ RoundTypes' /\ ProcessTypes' /\ SlotHoldsLiveRun'
    BY <1>4 DEF Boot, TypesInv, ScopeTypes, RoundTypes, ProcessTypes, SlotHoldsLiveRun, NewRows
  <2>2. drain' = drain \/ drain' = [drain EXCEPT !["boot"] = "find"]
    BY <1>4 DEF Boot
  <2>3. DrainTypes' /\ \A e \in Drain : drain'[e] \in {"delete", "deliver"} => drain'[e] = drain[e]
    BY <2>1, <2>2, Values DEF DrainTypes, TypesInv
  <2> QED
    BY <2>1, <2>3, StillStep DEF TypesInv, NamesInv
<1>5. CASE UNCHANGED vars
  <2>1. /\ pc' = pc /\ waits' = waits /\ how' = how /\ gate' = gate
        /\ NewRows /\ accepted' = accepted /\ drain' = drain /\ picked' = picked
        /\ ScopeTypes' /\ RoundTypes' /\ DrainTypes' /\ ProcessTypes' /\ SlotHoldsLiveRun'
    BY <1>5 DEF vars, TypesInv, ScopeTypes, RoundTypes, DrainTypes, ProcessTypes, SlotHoldsLiveRun, NewRows
  <2> QED
    BY <2>1, StillStep DEF TypesInv, NamesInv
<1> QED
  BY <1>2, <1>3, <1>4, <1>5

LEMMA StepGood ==
  ASSUME IInv, [Next]_vars
  PROVE  Good
<1>0. TypesInv /\ SlotHoldsLiveRun /\ RowsInv /\ DeliveredOnce
  BY DEF IInv
<1>1. CASE \E m \in Msg : (\E w \in Way : Post(m, w)) \/ InsertQueued(m) \/ Dequeue(m)
  BY <1>0, <1>1, EnterSteps, QueueSteps
<1>2. CASE (\E q \in Redo : Request(q)) \/ (\E j \in Join : JoinRun(j))
  BY <1>0, <1>2, EnterSteps
<1>3. ASSUME NEW r \in Run, Resume(r) PROVE Good
  BY <1>0, <1>3, EnterSteps
<1>4. ASSUME NEW r \in Run, Root(r) \/ Task(r) \/ Later(r) PROVE Good
  BY <1>0, <1>4, RunSteps
<1>5. CASE Cancel
  <2>1. slot \in Run
    BY <1>0, <1>5 DEF Cancel, TypesInv, ScopeTypes
  <2> QED
    BY <1>0, <1>5, <2>1, RunSteps
<1>6. ASSUME NEW d \in Drain, Step(d) PROVE Good
  <2>1. CASE DrainDies(d)
    BY <1>0, <2>1, ProcessSteps
  <2>2. CASE DrainFind(d) \/ DrainDelete(d) \/ Deliver(d)
    BY <1>0, <2>2, QueueSteps
  <2> QED
    BY <1>6, <2>1, <2>2 DEF Step
<1>7. CASE Crash \/ Boot \/ UNCHANGED vars
  BY <1>0, <1>7, ProcessSteps
<1> QED
  BY <1>1, <1>2, <1>3, <1>4, <1>5, <1>6, <1>7 DEF Next

(* The lives of the runs. *)

(* One run lives on, and the others as they did. *)
LEMMA LifeBy ==
  ASSUME LifeInv, NEW r \in Run, Life(r)', up', posted \subseteq posted',
         \A s \in Run : s # r => /\ pc'[s] = pc[s] /\ scope'[s] = scope[s] /\ task'[s] = task[s]
                                 /\ fanin'[s] = fanin[s] /\ (drain'[s] = drain[s] \/ drain'[s] = None)
  PROVE  LifeInv'
<1>1. ASSUME NEW s \in Run, s # r PROVE Life(s)'
  <2>1. Life(s)
    BY DEF LifeInv
  <2> QED
    BY <1>1, <2>1 DEF Life
<1> QED
  BY <1>1 DEF LifeInv

(* Installing a run that has not had a scope. *)
LEMMA LifeInstall ==
  ASSUME TypesInv, LifeInv, NEW r \in Run, up',
         pc[r] \in {"idle", "gate", "steering", "replacing", "queued"},
         Moved(r, "root"), scope' = [scope EXCEPT ![r] = "root"],
         task' = task, fanin' = fanin, posted' = posted,
         \A s \in Run : drain'[s] = drain[s] \/ drain'[s] = None
  PROVE  LifeInv'
<1>1. Life(r) /\ scope[r] = None
  BY DEF LifeInv, Life
<1>2. task[r] = {} /\ fanin[r] = None /\ drain[r] = None
  BY <1>1 DEF Life, None
<1>3. pc'[r] = "root" /\ scope'[r] = "root" /\ \A s \in Run : s # r => pc'[s] = pc[s] /\ scope'[s] = scope[s]
  BY DEF Moved, TypesInv, HandlerTypes, ScopeTypes
<1>4. Life(r)'
  BY <1>2, <1>3 DEF Life
<1> QED
  BY <1>3, <1>4, LifeBy

(* Waiting without a scope. *)
LEMMA LifeWait ==
  ASSUME TypesInv, LifeInv, NEW r \in Run, NEW v, up',
         v \in {"insert", "queued", "gate", "steering", "replacing"},
         v = "replacing" => r \notin Join,
         pc[r] \in {"idle", "insert", "gate", "steering", "queued"},
         Moved(r, v), scope' = scope, task' = task, fanin' = fanin, posted' = posted,
         \A s \in Run : drain'[s] = drain[s] \/ drain'[s] = None
  PROVE  LifeInv'
<1>1. Life(r) /\ scope[r] = None
  BY DEF LifeInv, Life
<1>2. pc'[r] = v /\ \A s \in Run : s # r => pc'[s] = pc[s]
  BY DEF Moved, TypesInv, HandlerTypes
<1>3. Life(r)'
  BY <1>1, <1>2 DEF Life
<1> QED
  BY <1>2, <1>3, LifeBy

LEMMA LifeBegin ==
  ASSUME TypesInv, LifeInv, NEW r \in Run, up', r \notin Join,
         pc[r] \in {"idle", "gate", "steering", "queued"}, Begin(r),
         task' = task, fanin' = fanin, posted' = posted,
         \A s \in Run : drain'[s] = drain[s] \/ drain'[s] = None
  PROVE  LifeInv'
<1>1. CASE slot = None
  BY <1>1, LifeInstall DEF Begin, Install, Moved
<1>2. CASE slot # None
  <2>1. Moved(r, "replacing") /\ scope' = scope
    BY <1>2 DEF Begin, Moved
  <2> QED
    BY <2>1, LifeWait
<1> QED
  BY <1>1, <1>2

(* A scope that is still open settles, or stays open. *)
LEMMA FinishShape ==
  ASSUME TypesInv, NEW r \in Run, Life(r), scope[r] # "finished",
         NEW tasks \in SUBSET {"main", "side"}, Settle(r, "open", tasks)
  PROVE  /\ scope'[r] \in {"open", "finished"} /\ task'[r] = tasks
         /\ tasks # {} => scope'[r] = "open"
         /\ drain'[r] # None => scope'[r] = "finished"
         /\ \A s \in Run : s # r => scope'[s] = scope[s] /\ task'[s] = task[s]
         /\ \A d \in Drain : d # r => drain'[d] = drain[d]
         /\ \A d \in Drain : drain[d] # None => drain'[d] = drain[d]
<1> USE Values DEF TypesInv, ScopeTypes, DrainTypes
<1>0. drain[r] = None
  BY DEF Life
<1>1. task' = [task EXCEPT ![r] = tasks]
  BY DEF Settle
<1>2. CASE tasks = {}
  <2>1. scope' = [scope EXCEPT ![r] = "finished"]
    BY <1>2 DEF Settle
  <2>2. drain' = [drain EXCEPT ![r] = "find"] \/ drain' = drain
    BY <1>2 DEF Settle
  <2> QED
    BY <1>0, <1>1, <1>2, <2>1, <2>2
<1>3. CASE tasks # {}
  <2>1. scope' = [scope EXCEPT ![r] = "open"] /\ drain' = drain
    BY <1>3 DEF Settle
  <2> QED
    BY <1>0, <1>1, <1>3, <2>1
<1> QED
  BY <1>2, <1>3

LEMMA LifeRootDone ==
  ASSUME TypesInv, LifeInv, NEW r \in Run, up', pc[r] \in {"root", "appended"},
         NEW tasks \in SUBSET {"main", "side"}, RootDone(r, tasks),
         \A s \in Run : s # r => fanin'[s] = fanin[s]
  PROVE  LifeInv'
<1>1. Life(r) /\ scope[r] = "root"
  BY DEF LifeInv, Life
<1>2. Settle(r, "open", tasks) /\ Moved(r, "done") /\ posted' = posted
  BY DEF RootDone, Moved
<1>3. pc'[r] = "done" /\ \A s \in Run : s # r => pc'[s] = pc[s]
  BY <1>2 DEF Moved, TypesInv, HandlerTypes
<1>4. /\ scope'[r] \in {"open", "finished"} /\ task'[r] = tasks
      /\ tasks # {} => scope'[r] = "open"
      /\ drain'[r] # None => scope'[r] = "finished"
      /\ \A s \in Run : s # r => scope'[s] = scope[s] /\ task'[s] = task[s]
      /\ \A d \in Drain : d # r => drain'[d] = drain[d]
  BY <1>1, <1>2, FinishShape
<1>5. Life(r)'
  BY <1>3, <1>4 DEF Life
<1> QED
  BY <1>2, <1>3, <1>4, <1>5, Values, LifeBy

LEMMA LifeTask ==
  ASSUME TypesInv, LifeInv, NEW r \in Run, NEW t \in task[r], up',
         Settle(r, scope[r], task[r] \ {t}), \A s \in Run : s # r => fanin'[s] = fanin[s],
         pc' = pc, posted' = posted
  PROVE  LifeInv'
<1>1. Life(r) /\ scope[r] = "open" /\ task[r] \ {t} \in SUBSET {"main", "side"}
  BY DEF LifeInv, Life, TypesInv, ScopeTypes
<1>2. /\ scope'[r] \in {"open", "finished"} /\ task'[r] = task[r] \ {t}
      /\ task[r] \ {t} # {} => scope'[r] = "open"
      /\ drain'[r] # None => scope'[r] = "finished"
      /\ \A s \in Run : s # r => scope'[s] = scope[s] /\ task'[s] = task[s]
      /\ \A d \in Drain : d # r => drain'[d] = drain[d]
  BY <1>1, FinishShape
<1>3. pc[r] \notin {"root", "appended", "idle", "insert", "queued", "gate", "steering", "replacing"}
  BY <1>1 DEF Life, None
<1>4. Life(r)'
  BY <1>2, <1>3 DEF Life
<1> QED
  BY <1>2, <1>4, Values, LifeBy

LEMMA LifeKept ==
  ASSUME TypesInv, LifeInv, DeliveredOnce, [Next]_vars
  PROVE  LifeInv'
<1> USE DEF handlers, scopes, pending, drains, process
<1>0. /\ Msg \cap Join = {} /\ Redo \cap Join = {} /\ Msg \subseteq Run /\ Redo \subseteq Run /\ Join \subseteq Run
      /\ \A r \in Run : pc[r] \in {"insert", "queued", "gate", "steering", "appended"} => r \in Msg
  BY Values, RunsAssumption DEF TypesInv, NamesInv
<1>1. ASSUME NEW r \in Run, Resume(r) PROVE LifeInv'
  <2>1. up' /\ task' = task /\ fanin' = fanin /\ posted' = posted /\ drain' = drain
    BY <1>1 DEF Resume
  <2>2. CASE ReplaceResumes(r) /\ Install(r)
    BY <2>1, <2>2, LifeInstall DEF ReplaceResumes, Install, Moved
  <2>3. CASE (GateResumes(r) \/ SteerResumes(r)) /\ Enter(r)
    <3>1. pc[r] \in {"gate", "steering"} /\ Begin(r)
      BY <2>3 DEF GateResumes, SteerResumes, Enter
    <3> QED
      BY <1>0, <2>1, <3>1, LifeBegin
  <2> QED
    BY <1>1, <2>2, <2>3 DEF Resume
<1>2. ASSUME NEW m \in Msg, NEW w \in Way, Post(m, w) PROVE LifeInv'
  <2>1. up' /\ task' = task /\ fanin' = fanin /\ posted' = posted /\ drain' = drain /\ pc[m] = "idle"
    BY <1>2 DEF Post, Idle
  <2>2. \/ Moved(m, "insert") /\ scope' = scope
        \/ Moved(m, "gate") /\ scope' = scope
        \/ Moved(m, "steering") /\ scope' = scope
        \/ Begin(m)
    BY <1>2 DEF Post, Awaiting, Passing, Enter, AbortActiveAndWait, Moved
  <2>3. CASE Begin(m)
    BY <1>0, <2>1, <2>3, LifeBegin
  <2>4. CASE \E v \in {"insert", "gate", "steering"} : Moved(m, v) /\ scope' = scope
    BY <1>0, <2>1, <2>4, LifeWait
  <2> QED
    BY <2>2, <2>3, <2>4
<1>3. ASSUME NEW q \in Redo, Request(q) PROVE LifeInv'
  BY <1>0, <1>3, LifeBegin DEF Request, Idle
<1>4. ASSUME NEW j \in Join, JoinRun(j) PROVE LifeInv'
  BY <1>0, <1>4, LifeInstall DEF JoinRun, Idle, Moved
<1>5. ASSUME NEW r \in Run, AppendMessage(r) PROVE LifeInv'
  <2>1. /\ up' /\ pc[r] = "root" /\ posted' = posted \cup {r} /\ pc' = [pc EXCEPT ![r] = "appended"]
        /\ scope' = scope /\ task' = task /\ fanin' = fanin /\ drain' = drain
    BY <1>5 DEF AppendMessage, Idle
  <2>2. pc'[r] = "appended" /\ \A s \in Run : s # r => pc'[s] = pc[s]
    BY <2>1 DEF TypesInv, HandlerTypes
  <2>3. Life(r)
    BY DEF LifeInv
  <2>4. Life(r)'
    BY <2>1, <2>2, <2>3 DEF Life
  <2> QED
    BY <2>1, <2>2, <2>4, LifeBy
<1>6. ASSUME NEW r \in Run, StartThoughts(r) PROVE LifeInv'
  <2>1. /\ up' /\ pc[r] \in {"root", "appended"} /\ fanin' = fanin
        /\ \E side \in SUBSET (Env \cap {"side"}) :
             RootDone(r, IF r \in aborted THEN {} ELSE {"main"} \cup side)
    BY <1>6 DEF StartThoughts, Idle, RootDone
  <2>2. PICK tasks \in SUBSET {"main", "side"} : RootDone(r, tasks)
    BY <2>1
  <2> QED
    BY <2>1, <2>2, LifeRootDone
<1>7. ASSUME NEW r \in Run, RootFails(r) PROVE LifeInv'
  BY <1>7, LifeRootDone DEF RootFails, Idle, RootDone
<1>8. ASSUME NEW r \in Run, JoinRoot(r) PROVE LifeInv'
  <2>1. PICK tasks \in SUBSET {"main", "side"} : RootDone(r, tasks)
    BY <1>8 DEF JoinRoot
  <2>2. up' /\ pc[r] \in {"root", "appended"} /\ \A s \in Run : s # r => fanin'[s] = fanin[s]
    BY <1>8 DEF JoinRoot, Idle, RootDone, TypesInv, RoundTypes
  <2> QED
    BY <2>1, <2>2, LifeRootDone
<1>9. ASSUME NEW r \in Run, MainEnds(r) PROVE LifeInv'
  <2>1. /\ up' /\ "main" \in task[r] /\ Settle(r, scope[r], task[r] \ {"main"})
        /\ pc' = pc /\ posted' = posted
    BY <1>9 DEF MainEnds, Idle
  <2>2. \A s \in Run : s # r => fanin'[s] = fanin[s]
    BY <1>9 DEF MainEnds, TypesInv, RoundTypes
  <2> QED
    BY <2>1, <2>2, LifeTask
<1>10. ASSUME NEW r \in Run, SideEnds(r) PROVE LifeInv'
  BY <1>10, LifeTask DEF SideEnds, Idle
<1>11. ASSUME NEW r \in Run, FanIn(r) PROVE LifeInv'
  <2>1. /\ up' /\ fanin[r] = "check" /\ pc' = pc /\ scope' = scope /\ drain' = drain /\ posted' = posted
    BY <1>11 DEF FanIn, Idle
  <2>2. Life(r) /\ scope[r] \in {"open", "finished"}
    BY <2>1 DEF LifeInv, Life, None
  <2>3. /\ \A s \in Run : s # r => fanin'[s] = fanin[s] /\ task'[s] = task[s]
        /\ task'[r] = task[r] \/ scope[r] # "finished"
    BY <1>11 DEF FanIn, TypesInv, RoundTypes, ScopeTypes
  <2>4. Life(r)'
    BY <2>1, <2>2, <2>3 DEF Life
  <2> QED
    BY <2>1, <2>3, <2>4, LifeBy
<1>12. ASSUME NEW r \in Run, DetachedEnds(r) PROVE LifeInv'
  <2>1. /\ up' /\ fanin[r] = "detached" /\ pc' = pc /\ scope' = scope /\ drain' = drain /\ posted' = posted
        /\ task' = task
    BY <1>12 DEF DetachedEnds, Idle
  <2>2. Life(r) /\ scope[r] \in {"open", "finished"}
    BY <2>1 DEF LifeInv, Life, None
  <2>3. \A s \in Run : s # r => fanin'[s] = fanin[s]
    BY <1>12 DEF DetachedEnds, TypesInv, RoundTypes
  <2>4. Life(r)'
    BY <2>1, <2>2 DEF Life
  <2> QED
    BY <2>1, <2>3, <2>4, LifeBy
<1>13. ASSUME NEW m \in Msg, InsertQueued(m) PROVE LifeInv'
  BY <1>0, <1>13, LifeWait DEF InsertQueued, Idle, Moved
<1>14. ASSUME NEW d \in Drain, Deliver(d) PROVE LifeInv'
  <2>1. /\ up' /\ drain[d] = "deliver" /\ drain' = [drain EXCEPT ![d] = None]
        /\ task' = task /\ fanin' = fanin /\ posted' = posted
        /\ Awaiting(picked[d]) \/ Passing(picked[d])
    BY <1>14 DEF Deliver, Idle
  <2>2. picked[d] \in Msg /\ pc[picked[d]] = "queued"
    BY <1>14, <2>1 DEF TypesInv, NamesInv, DeliveredOnce
  <2>3. \A s \in Run : drain'[s] = drain[s] \/ drain'[s] = None
    BY <2>1, Values DEF TypesInv, DrainTypes
  <2>4. \/ Moved(picked[d], "gate") /\ scope' = scope
        \/ Begin(picked[d])
    BY <2>1 DEF Awaiting, Passing, Enter, Moved
  <2> QED
    BY <1>0, <2>1, <2>2, <2>3, <2>4, LifeWait, LifeBegin
<1>15. ASSUME NEW d \in Drain, DrainFind(d) \/ DrainDelete(d) PROVE LifeInv'
  <2>1. /\ up' /\ pc' = pc /\ scope' = scope /\ task' = task /\ fanin' = fanin /\ posted' = posted
        /\ drain[d] # None /\ \A e \in Drain : e # d => drain'[e] = drain[e]
    BY <1>15 DEF DrainFind, DrainDelete, Idle, TypesInv, DrainTypes, None
  <2>2. ASSUME NEW s \in Run PROVE Life(s)'
    <3>1. Life(s) /\ (drain'[s] # None => drain[s] # None)
      BY <2>1, Values DEF LifeInv
    <3> QED
      BY <2>1, <3>1 DEF Life
  <2> QED
    BY <2>1, <2>2 DEF LifeInv
<1>16. CASE Dies
  <2>1. ASSUME NEW s \in Run PROVE Life(s)'
    <3>1. /\ scope' = [t \in Run |-> IF scope[t] = None THEN None ELSE "finished"]
          /\ pc' = [t \in Run |-> IF pc[t] \in Handling THEN "dead" ELSE pc[t]]
          /\ task' = [t \in Run |-> {}] /\ fanin' = [t \in Run |-> None]
          /\ drain' = [d \in Drain |-> None]
      BY <1>16 DEF Dies
    <3>2. Life(s)
      BY DEF LifeInv
    <3> QED
      BY <3>1, <3>2, Values DEF Life, Handling
  <2>2. \A d \in Drain : drain'[d] = None
    BY <1>16 DEF Dies
  <2> QED
    BY <2>1, <2>2 DEF LifeInv
<1>17. CASE Boot
  <2>1. /\ ~up /\ up' /\ pc' = pc /\ scope' = scope /\ task' = task /\ fanin' = fanin /\ posted' = posted
        /\ \A s \in Run : drain'[s] = drain[s]
    BY <1>17, Values, RunsAssumption DEF Boot, TypesInv, DrainTypes
  <2> QED
    BY <2>1 DEF LifeInv, Life
<1>18. CASE Cancel \/ (\E m \in Msg : Dequeue(m)) \/ UNCHANGED vars
  <2>1. /\ up' = up /\ pc' = pc /\ scope' = scope /\ task' = task /\ fanin' = fanin /\ posted' = posted
        /\ drain' = drain
    BY <1>18 DEF Cancel, Dequeue, vars
  <2> QED
    BY <2>1 DEF LifeInv, Life
<1>19. ASSUME NEW r \in Run, Root(r) \/ Task(r) \/ Later(r) PROVE LifeInv'
  BY <1>5, <1>6, <1>7, <1>8, <1>9, <1>10, <1>11, <1>12, <1>19 DEF Root, Task, Later
<1>20. ASSUME NEW d \in Drain, Step(d) PROVE LifeInv'
  BY <1>14, <1>15, <1>16, <1>20 DEF Step, DrainDies
<1> QED
  BY <1>1, <1>2, <1>3, <1>4, <1>13, <1>16, <1>17, <1>18, <1>19, <1>20 DEF Next, Crash

---------------------------------------------------------------------------
LEMMA InitInv == Init => IInv
<1> SUFFICES ASSUME Init PROVE IInv
  OBVIOUS
<1>1. TypesInv
  BY RunsAssumption DEF Init, TypesInv, HandlerTypes, ScopeTypes, RoundTypes, RowTypes, DrainTypes,
     ProcessTypes, NamesInv, PcValue, ScopeValue, None
<1>2. RowsInv
  BY DEF Init, RowsInv, Distinct, ToSet
<1>3. SlotHoldsLiveRun /\ DeliveredOnce
  BY DEF Init, SlotHoldsLiveRun, DeliveredOnce, None
<1>4. LifeInv
  BY Values DEF Init, LifeInv, Life, None
<1> QED
  BY <1>1, <1>2, <1>3, <1>4 DEF IInv

LEMMA Inductive == IInv /\ [Next]_vars => IInv'
<1> SUFFICES ASSUME IInv, [Next]_vars PROVE IInv'
  OBVIOUS
<1>1. Good
  BY StepGood
<1>2. RowsInv' /\ DeliveredOnce'
  BY <1>1, RowsKept DEF IInv, Good
<1>3. LifeInv'
  BY LifeKept DEF IInv
<1> QED
  BY <1>1, <1>2, <1>3 DEF IInv, Good

LEMMA Invariant == Spec => []IInv
BY InitInv, Inductive, PTL DEF Spec
---------------------------------------------------------------------------
(* The type invariant. *)
THEOREM TypeCorrect == Spec => []TypeOK
<1>1. IInv => TypeOK
  BY DEF IInv, TypesInv, HandlerTypes, ScopeTypes, RoundTypes, RowTypes, DrainTypes, ProcessTypes,
     PcValue, ScopeValue, TypeOK
<1> QED
  BY <1>1, Invariant, PTL

(* Whatever runs were installed over one another, the registered one has    *)
(* not finished.                                                            *)
THEOREM SlotLive == Spec => []SlotHoldsLiveRun
<1>1. IInv => SlotHoldsLiveRun
  BY DEF IInv
<1> QED
  BY <1>1, Invariant, PTL

(* However many drains are under way, a row is delivered by one of them and *)
(* only if it is not queued, removed or posted.                             *)
THEOREM RowsDeliveredOnce == Spec => []DeliveredOnce
<1>1. IInv => DeliveredOnce
  BY DEF IInv
<1> QED
  BY <1>1, Invariant, PTL
(* What a step does to the slot when it touches a joining run: nothing.     *)
LEMMA OwnerKept ==
  ASSUME IInv, [Next]_vars, NEW j \in Join, scope'[j] # scope[j], slot \notin {None, j}, up'
  PROVE  slot' = slot /\ aborted' = aborted
<1> USE DEF handlers, scopes, pending, drains, process
<1>0. /\ Msg \cap Join = {} /\ Redo \cap Join = {} /\ Join \subseteq Run
      /\ scope \in [Run -> ScopeValue]
      /\ \A r \in Run : pc[r] \in {"insert", "queued", "gate", "steering", "appended"} => r \in Msg
      /\ \A d \in Drain : drain[d] \in {"delete", "deliver"} => picked[d] \in Msg
      /\ \A r \in Run : Life(r)
  BY Values, RunsAssumption DEF IInv, TypesInv, ScopeTypes, NamesInv, LifeInv
<1>1. ASSUME NEW r \in Run, \E root, tasks : Settle(r, root, tasks), aborted' = aborted
      PROVE  slot' = slot /\ aborted' = aborted
  <2>1. PICK root, tasks : Settle(r, root, tasks)
    BY <1>1
  <2>2. r = j
    BY <1>0, <2>1 DEF Settle
  <2> QED
    BY <1>1, <2>1, <2>2 DEF Settle, FreedSlot
<1>2. ASSUME NEW r \in Run, Root(r) \/ Task(r) \/ Later(r) PROVE slot' = slot /\ aborted' = aborted
  <2>1. CASE AppendMessage(r) \/ Later(r)
    BY <2>1 DEF AppendMessage, Later, FanIn, DetachedEnds
  <2>2. CASE StartThoughts(r) \/ RootFails(r) \/ JoinRoot(r)
    <3>1. \E tasks : RootDone(r, tasks)
      BY <2>2 DEF StartThoughts, RootFails, JoinRoot
    <3> QED
      BY <1>1, <3>1 DEF RootDone
  <2>3. CASE Task(r)
    BY <1>1, <2>3 DEF Task, MainEnds, SideEnds
  <2> QED
    BY <1>2, <2>1, <2>2, <2>3 DEF Root
<1>3. ASSUME NEW r \in Run, r \notin Join, Begin(r) \/ Install(r) PROVE FALSE
  <2>1. scope' = scope \/ scope' = [scope EXCEPT ![r] = "root"]
    BY <1>3 DEF Begin, Install
  <2> QED
    BY <1>0, <1>3, <2>1
<1>4. ASSUME NEW r \in Run, Resume(r) PROVE FALSE
  <2>1. CASE ReplaceResumes(r) /\ Install(r)
    <3>1. r \notin Join
      BY <1>0, <2>1 DEF ReplaceResumes, Life
    <3> QED
      BY <1>3, <2>1, <3>1
  <2>2. CASE (GateResumes(r) \/ SteerResumes(r)) /\ Enter(r)
    <3>1. r \notin Join /\ Begin(r)
      BY <1>0, <2>2 DEF GateResumes, SteerResumes, Enter
    <3> QED
      BY <1>3, <3>1
  <2> QED
    BY <1>4, <2>1, <2>2 DEF Resume
<1>5. ASSUME NEW m \in Msg, Awaiting(m) \/ Passing(m) \/ Enter(m) \/ AbortActiveAndWait(m) PROVE FALSE
  <2>1. m \in Run /\ m \notin Join
    BY <1>0, Values
  <2>2. CASE Awaiting(m) \/ AbortActiveAndWait(m)
    BY <2>2 DEF Awaiting, AbortActiveAndWait
  <2>3. CASE Passing(m) \/ Enter(m)
    BY <1>3, <2>1, <2>3 DEF Passing, Enter
  <2> QED
    BY <1>5, <2>2, <2>3
<1>6. ASSUME NEW m \in Msg, NEW w \in Way, Post(m, w) PROVE FALSE
  BY <1>5, <1>6 DEF Post
<1>7. ASSUME NEW q \in Redo, Request(q) PROVE FALSE
  BY <1>0, <1>3, <1>7, Values DEF Request
<1>8. ASSUME NEW i \in Join, JoinRun(i) PROVE slot' = slot /\ aborted' = aborted
  BY <1>8 DEF JoinRun
<1>9. ASSUME NEW d \in Drain, Step(d) PROVE FALSE
  <2>1. CASE DrainFind(d) \/ DrainDelete(d)
    BY <2>1 DEF DrainFind, DrainDelete
  <2>2. CASE DrainDies(d)
    BY <2>2 DEF DrainDies, Dies
  <2>3. CASE Deliver(d)
    BY <1>0, <1>5, <2>3 DEF Deliver
  <2> QED
    BY <1>9, <2>1, <2>2, <2>3 DEF Step
<1>10. CASE Crash
  BY <1>10 DEF Crash, Dies
<1>11. CASE Cancel \/ Boot \/ (\E m \in Msg : InsertQueued(m) \/ Dequeue(m)) \/ UNCHANGED vars
  BY <1>11 DEF Cancel, Boot, InsertQueued, Dequeue, vars
<1> QED
  BY <1>2, <1>4, <1>6, <1>7, <1>8, <1>9, <1>10, <1>11 DEF Next

(* Neither the start nor the end of an approval takes the registered run's  *)
(* slot or tells it to stop.                                                *)
THEOREM JoinsKeepOwner == Spec => JoinKeepsOwner
<1> DEFINE Fine == \A j \in Join : (scope'[j] # scope[j] /\ slot \notin {None, j} /\ up')
                       => (slot' = slot /\ aborted' = aborted)
<1>1. IInv /\ [Next]_vars => [Fine]_vars
  BY OwnerKept
<1> QED
  BY <1>1, Invariant, PTL DEF Spec, JoinKeepsOwner
---------------------------------------------------------------------------
(* The text of a queued message through a step. *)

(* Handlers keep a text until it is posted or refused, drains until they    *)
(* have handed it on.                                                       *)
HandsOn ==
    /\ \A m \in Msg : pc[m] \in Handling => pc'[m] \in Handling \/ m \in posted \/ Rejected(m)
    /\ \A d \in Drain : drain[d] = "deliver" => drain'[d] = "deliver" /\ picked'[d] = picked[d]
    /\ queue' = queue /\ posted \subseteq posted' /\ dropped' = dropped /\ accepted' = accepted

TextStep ==
    \/ HandsOn
    \/ \E m \in Msg : Inserts(m) /\ accepted' = Append(accepted, m)
    \/ \E m \in Msg : Drops(m) /\ accepted' = accepted
    \/ \E d \in Drain : (Deletes(d) \/ Delivers(d)) /\ accepted' = accepted

LEMMA AppendOne ==
  ASSUME NEW s \in Seq(Msg), NEW m \in Msg
  PROVE  ToSet(Append(s, m)) = ToSet(s) \cup {m}
<1> DEFINE r == Append(s, m)
<1>1. /\ r \in Seq(Msg) /\ Len(r) = Len(s) + 1 /\ r[Len(s) + 1] = m
      /\ \A n \in 1..Len(s) : r[n] = s[n]
  OBVIOUS
<1> HIDE DEF r
<1>2. ASSUME NEW x \in ToSet(r) PROVE x \in ToSet(s) \cup {m}
  <2>1. PICK n \in 1..Len(r) : r[n] = x
    BY <1>1, <1>2 DEF ToSet
  <2> QED
    BY <1>1, <2>1 DEF ToSet
<1>3. ASSUME NEW x \in ToSet(s) \cup {m} PROVE x \in ToSet(r)
  <2>1. PICK n \in 1..Len(r) : r[n] = x
    BY <1>1, <1>3 DEF ToSet
  <2> QED
    BY <1>1, <2>1 DEF ToSet
<1> QED
  BY <1>2, <1>3 DEF r

LEMMA TextKept ==
  ASSUME IInv, TextStep, NEW m \in ToSet(accepted'), Kept(m) \/ m \notin ToSet(accepted)
  PROVE  Kept(m)' \/ Rejected(m)
<1>0. /\ pc \in [Run -> PcValue] /\ Msg \subseteq Run /\ queue \in Seq(Msg) /\ accepted \in Seq(Msg)
      /\ ToSet(accepted) \subseteq Msg /\ Distinct(queue) /\ ToSet(queue) \subseteq Msg
      /\ drain \in [Drain -> {None, "find", "delete", "deliver"}]
      /\ picked \in [Drain -> Msg \cup {None}]
      /\ \A d \in Drain : drain[d] \in {"delete", "deliver"} => picked[d] \in Msg
  BY Values DEF IInv, TypesInv, HandlerTypes, RowTypes, DrainTypes, NamesInv, RowsInv, ToSet
<1>1. CASE HandsOn
  <2>1. m \in Msg /\ Kept(m)
    BY <1>0, <1>1 DEF HandsOn
  <2> QED
    BY <1>1, <2>1 DEF HandsOn, Kept
<1>2. ASSUME NEW n \in Msg, Inserts(n), accepted' = Append(accepted, n) PROVE Kept(m)'
  <2>1. ToSet(queue') = ToSet(queue) \cup {n} /\ ToSet(accepted') = ToSet(accepted) \cup {n}
    BY <1>0, <1>2, AppendOne DEF Inserts
  <2>2. \A k \in Msg : k # n => pc'[k] = pc[k]
    BY <1>0, <1>2 DEF Inserts, Moved
  <2>3. m \in Msg /\ (m = n \/ Kept(m))
    BY <1>0, <2>1
  <2> QED
    BY <1>2, <2>1, <2>2, <2>3 DEF Inserts, Kept
<1>3. ASSUME NEW n \in Msg, Drops(n), accepted' = accepted PROVE Kept(m)'
  <2>1. n \in ToSet(queue) /\ ToSet(queue') = ToSet(queue) \ {n}
    BY <1>0, <1>3, WithoutOne DEF Drops
  <2> QED
    BY <1>3, <2>1 DEF Drops, Kept
<1>4. ASSUME NEW d \in Drain, Deletes(d), accepted' = accepted PROVE Kept(m)'
  <2>1. picked[d] \in ToSet(queue) /\ ToSet(queue') = ToSet(queue) \ {picked[d]}
    BY <1>0, <1>4, WithoutOne DEF Deletes
  <2>2. drain'[d] = "deliver" /\ picked' = picked /\ \A e \in Drain : drain[e] = "deliver" => drain'[e] = "deliver"
    BY <1>0, <1>4 DEF Deletes
  <2> QED
    BY <1>4, <2>1, <2>2 DEF Deletes, Kept
<1>5. ASSUME NEW d \in Drain, Delivers(d), accepted' = accepted PROVE Kept(m)'
  <2>1. picked[d] \in Msg /\ picked[d] \in Run
    BY <1>0, <1>5 DEF Delivers
  <2>2. PICK v \in {"gate", "root", "replacing"} : Moved(picked[d], v)
    BY <1>5 DEF Delivers
  <2>3. /\ pc'[picked[d]] \in Handling
        /\ \A k \in Run : k # picked[d] => pc'[k] = pc[k]
    BY <1>0, <2>1, <2>2 DEF Moved, Handling
  <2>4. \A e \in Drain \ {d} : drain'[e] = drain[e] /\ picked'[e] = picked[e]
    BY <1>0, <1>5 DEF Delivers
  <2>5. m \in Run /\ Kept(m) /\ queue' = queue /\ posted' = posted /\ dropped' = dropped
    BY <1>0, <1>5 DEF Delivers, NewRows
  <2>6. CASE m = picked[d]
    BY <2>3, <2>6 DEF Kept
  <2>7. CASE m # picked[d]
    BY <2>3, <2>4, <2>5, <2>7 DEF Kept
  <2> QED
    BY <2>6, <2>7
<1> QED
  BY <1>1, <1>2, <1>3, <1>4, <1>5 DEF TextStep

(* One handler goes on, and no drain is disturbed. *)
LEMMA HandlerHandsOn ==
  ASSUME TypesInv, NEW r \in Run, NEW v, Moved(r, v),
         r \in Msg /\ pc[r] \in Handling => v \in Handling \/ r \in posted \/ Rejected(r),
         \A d \in Drain : drain[d] # None => drain'[d] = drain[d] /\ picked'[d] = picked[d],
         queue' = queue, posted \subseteq posted', dropped' = dropped, accepted' = accepted
  PROVE  TextStep
<1>1. pc \in [Run -> PcValue] /\ Msg \subseteq Run
  BY Values DEF TypesInv, HandlerTypes
<1>2. ASSUME NEW m \in Msg, pc[m] \in Handling PROVE pc'[m] \in Handling \/ m \in posted \/ Rejected(m)
  BY <1>1, <1>2 DEF Moved
<1>3. \A d \in Drain : drain[d] = "deliver" => drain'[d] = "deliver" /\ picked'[d] = picked[d]
  BY DEF None
<1> QED
  BY <1>2, <1>3 DEF HandsOn, TextStep

LEMMA BeginMoves ==
  ASSUME NEW r, Begin(r) \/ Install(r)
  PROVE  Moved(r, "root") \/ Moved(r, "replacing")
BY DEF Begin, Install, Moved

LEMMA RootDoneHandsOn ==
  ASSUME IInv, NEW r \in Run, NEW tasks \in SUBSET {"main", "side"}, RootDone(r, tasks),
         r \in Msg => r \in posted \/ pc[r] = "root", pc[r] \in {"root", "appended"}
  PROVE  TextStep
<1> USE DEF pending
<1>1. Life(r) /\ scope[r] = "root" /\ TypesInv
  BY DEF IInv, LifeInv, Life
<1>2. /\ Settle(r, "open", tasks) /\ Moved(r, "done") /\ posted' = posted /\ picked' = picked
      /\ queue' = queue /\ dropped' = dropped /\ accepted' = accepted
  BY DEF RootDone, Moved
<1>3. \A d \in Drain : drain[d] # None => drain'[d] = drain[d]
  BY <1>1, <1>2, FinishShape
<1>4. r \in Msg => r \in posted \/ Rejected(r)
  BY <1>1, <1>2 DEF Moved, Rejected, TypesInv, HandlerTypes
<1> QED
  BY <1>1, <1>2, <1>3, <1>4, HandlerHandsOn

LEMMA StepHandsOn ==
  ASSUME IInv, [Next]_vars, up'
  PROVE  TextStep
<1> USE DEF handlers, scopes, pending, drains, process
<1>0. /\ TypesInv /\ LifeInv /\ Msg \subseteq Run /\ Redo \subseteq Run /\ Join \subseteq Run
      /\ Msg \cap Redo = {} /\ Msg \cap Join = {}
      /\ {"root", "replacing", "gate", "steering", "insert", "appended"} \subseteq Handling
  BY Values, RunsAssumption DEF IInv, Handling
<1>1. ASSUME NEW r \in Run, Resume(r) PROVE TextStep
  <2>1. Begin(r) \/ Install(r)
    BY <1>1 DEF Resume, Enter
  <2>2. /\ queue' = queue /\ posted' = posted /\ dropped' = dropped /\ accepted' = accepted
        /\ drain' = drain /\ picked' = picked
    BY <1>1 DEF Resume
  <2> QED
    BY <1>0, <2>1, <2>2, BeginMoves, HandlerHandsOn
<1>2. ASSUME NEW m \in Msg, NEW w \in Way, Post(m, w) PROVE TextStep
  <2>1. \E v \in Handling : Moved(m, v)
    <3>1. \/ Moved(m, "insert") \/ Moved(m, "gate") \/ Moved(m, "steering") \/ Begin(m)
      BY <1>2 DEF Post, Awaiting, Passing, Enter, AbortActiveAndWait, Moved
    <3> QED
      BY <1>0, <3>1, BeginMoves
  <2>2. /\ queue' = queue /\ posted' = posted /\ dropped' = dropped /\ accepted' = accepted
        /\ drain' = drain /\ picked' = picked
    BY <1>2 DEF Post
  <2> QED
    BY <1>0, <2>1, <2>2, HandlerHandsOn
<1>3. ASSUME NEW q \in Redo, Request(q) PROVE TextStep
  <2>1. /\ queue' = queue /\ posted' = posted /\ dropped' = dropped /\ accepted' = accepted
        /\ drain' = drain /\ picked' = picked /\ Begin(q)
    BY <1>3 DEF Request
  <2> QED
    BY <1>0, <2>1, BeginMoves, HandlerHandsOn
<1>4. ASSUME NEW j \in Join, JoinRun(j) PROVE TextStep
  <2>1. /\ queue' = queue /\ posted' = posted /\ dropped' = dropped /\ accepted' = accepted
        /\ drain' = drain /\ picked' = picked /\ Moved(j, "root")
    BY <1>4 DEF JoinRun, Moved
  <2> QED
    BY <1>0, <2>1, HandlerHandsOn
<1>5. ASSUME NEW r \in Run, AppendMessage(r) PROVE TextStep
  <2>1. /\ queue' = queue /\ posted' = posted \cup {r} /\ dropped' = dropped /\ accepted' = accepted
        /\ drain' = drain /\ picked' = picked /\ Moved(r, "appended")
    BY <1>5 DEF AppendMessage, Moved
  <2> QED
    BY <1>0, <2>1, HandlerHandsOn
<1>6. ASSUME NEW r \in Run, StartThoughts(r) PROVE TextStep
  <2>1. /\ pc[r] = "appended" \/ (r \in Redo /\ pc[r] = "root")
        /\ \E side \in SUBSET (Env \cap {"side"}) :
             RootDone(r, IF r \in aborted THEN {} ELSE {"main"} \cup side)
    BY <1>6 DEF StartThoughts
  <2>2. PICK tasks \in SUBSET {"main", "side"} : RootDone(r, tasks)
    BY <2>1
  <2>3. r \in Msg => r \in posted
    BY <1>0, <2>1 DEF LifeInv, Life
  <2> QED
    BY <2>1, <2>2, <2>3, RootDoneHandsOn
<1>7. ASSUME NEW r \in Run, RootFails(r) \/ JoinRoot(r) PROVE TextStep
  <2>1. pc[r] = "root"
    BY <1>7 DEF RootFails, JoinRoot
  <2>2. PICK tasks \in SUBSET {"main", "side"} : RootDone(r, tasks)
    BY <1>7 DEF RootFails, JoinRoot
  <2> QED
    BY <2>1, <2>2, RootDoneHandsOn
<1>8. ASSUME NEW r \in Run, NEW t \in task[r], Settle(r, scope[r], task[r] \ {t}),
             UNCHANGED <<handlers, pending, picked, posted>>
      PROVE  TextStep
  <2>1. Life(r) /\ scope[r] = "open" /\ task[r] \ {t} \in SUBSET {"main", "side"}
    BY <1>0 DEF LifeInv, Life, TypesInv, ScopeTypes
  <2>2. \A d \in Drain : drain[d] # None => drain'[d] = drain[d]
    BY <1>0, <1>8, <2>1, FinishShape
  <2>3. HandsOn
    BY <1>8, <2>2 DEF HandsOn, None
  <2> QED
    BY <2>3 DEF TextStep
<1>9. ASSUME NEW r \in Run, Task(r) PROVE TextStep
  BY <1>8, <1>9 DEF Task, MainEnds, SideEnds
<1>10. ASSUME NEW d \in Drain, DrainFind(d) PROVE TextStep
  <2>1. /\ drain[d] = "find" /\ pc' = pc /\ queue' = queue /\ posted' = posted /\ dropped' = dropped
        /\ accepted' = accepted
        /\ \A e \in Drain : e # d => drain'[e] = drain[e] /\ picked'[e] = picked[e]
    BY <1>0, <1>10 DEF DrainFind, TypesInv, DrainTypes
  <2>2. HandsOn
    BY <2>1 DEF HandsOn
  <2> QED
    BY <2>2 DEF TextStep
<1>11. ASSUME NEW d \in Drain, DrainDelete(d) PROVE TextStep
  BY <1>11 DEF DrainDelete, Deletes, TextStep
<1>12. ASSUME NEW d \in Drain, Deliver(d) PROVE TextStep
  <2>1. Moved(picked[d], "gate") \/ Moved(picked[d], "root") \/ Moved(picked[d], "replacing")
    <3>1. Moved(picked[d], "gate") \/ Begin(picked[d])
      BY <1>12 DEF Deliver, Awaiting, Passing, Enter, Moved
    <3> QED
      BY <3>1, BeginMoves
  <2>2. Delivers(d) /\ accepted' = accepted
    BY <1>12, <2>1 DEF Deliver, Delivers, NewRows
  <2> QED
    BY <2>2 DEF TextStep
<1>13. ASSUME NEW d \in Drain, DrainDies(d) PROVE TextStep
  BY <1>13 DEF DrainDies, Dies
<1>14. ASSUME NEW m \in Msg, InsertQueued(m) PROVE TextStep
  BY <1>14 DEF InsertQueued, Inserts, Moved, TextStep
<1>15. ASSUME NEW m \in Msg, Dequeue(m) PROVE TextStep
  BY <1>15 DEF Dequeue, Drops, TextStep
<1>16. CASE Boot
  <2>1. \A d \in Drain : drain[d] = None
    BY <1>0, <1>16 DEF Boot, LifeInv
  <2>2. HandsOn
    BY <1>16, <2>1 DEF Boot, HandsOn, None
  <2> QED
    BY <2>2 DEF TextStep
<1>17. CASE Crash
  BY <1>17 DEF Crash, Dies
<1>18. CASE Cancel \/ (\E r \in Run : Later(r)) \/ UNCHANGED vars
  BY <1>18 DEF Cancel, Later, FanIn, DetachedEnds, vars, HandsOn, TextStep
<1>19. ASSUME NEW r \in Run, Root(r) PROVE TextStep
  BY <1>5, <1>6, <1>7, <1>19 DEF Root
<1>20. ASSUME NEW d \in Drain, Step(d) PROVE TextStep
  BY <1>10, <1>11, <1>12, <1>13, <1>20 DEF Step
<1> QED
  BY <1>1, <1>2, <1>3, <1>4, <1>9, <1>14, <1>15, <1>16, <1>17, <1>18, <1>19, <1>20 DEF Next

(* As long as the process lives, the text of a queued message is in the     *)
(* table, with a drain, with a handler or in the conversation, up to the    *)
(* handler that refuses it.                                                 *)
THEOREM QueuedTextKept == Spec => QueuedTextHandedOn
<1> DEFINE Fine == up' => \A m \in ToSet(accepted') :
                       Kept(m) \/ m \notin ToSet(accepted) => Kept(m)' \/ Rejected(m)
<1>1. IInv /\ [Next]_vars => [Fine]_vars
  BY StepHandsOn, TextKept
<1> QED
  BY <1>1, Invariant, PTL DEF Spec, QueuedTextHandedOn
=============================================================================
