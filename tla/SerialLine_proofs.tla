------------------------- MODULE SerialLine_proofs -------------------------
(* The lock of a serial console, its cancelled commands and the types of    *)
(* its state, for any number of calls, sockets and outages.                 *)
EXTENDS SerialLine, FiniteSetTheorems, TLAPS

(* Between taking the lock and releasing it. *)
Active == SerialStep \ {"idle", "queued", "done"}

LockTypes ==
    /\ order \in Seq(SerialCall) /\ step \in [SerialCall -> SerialStep]
    /\ typed \in [Socket -> SUBSET SerialCall]

(* Who waits or works is in the order: its turn will be its own.            *)
InLine == \A c \in SerialCall :
    step[c] \in Active \cup {"queued"} => \E n \in 1..Len(order) : order[n] = c

(* Who is at work is the head of the order. *)
AtHead == \A c \in SerialCall : step[c] \in Active => order # <<>> /\ Head(order) = c

(* The inductive invariant. *)
SerialInv == LockTypes /\ InLine /\ AtHead
---------------------------------------------------------------------------
(* What a step does to the lock: a call queues, goes on, or ends.           *)
HasTurn(c) == step[c] \in Active \cup {"queued"} /\ order # <<>> /\ Head(order) = c
Queues(c) == step[c] = "idle" /\ step' = [step EXCEPT ![c] = "queued"] /\ order' = Append(order, c)
GoesOn(c) == HasTurn(c) /\ (\E s \in Active : step' = [step EXCEPT ![c] = s]) /\ order' = order
Ends(c) == HasTurn(c) /\ step' = [step EXCEPT ![c] = "done"] /\ order' = Tail(order)
Stays == order' = order /\ step' = step
LockStep == Stays \/ \E c \in SerialCall : Queues(c) \/ GoesOn(c) \/ Ends(c)

(* Who is active has the turn. *)
LEMMA ActiveHasTurn ==
  ASSUME SerialInv, NEW c \in SerialCall, step[c] \in Active
  PROVE  HasTurn(c)
BY DEF SerialInv, AtHead, HasTurn

LEMMA ConnectShape ==
  ASSUME NEW c \in SerialCall, HasTurn(c), NEW next \in Active, NEW rest, Connect(c, next, rest)
  PROVE  GoesOn(c) \/ Ends(c)
BY DEF Connect, StepTo, End, GoesOn, Ends

LEMMA FailShape ==
  ASSUME NEW c \in SerialCall, HasTurn(c), Fail(c)
  PROVE  GoesOn(c) \/ Ends(c)
<1>1. "login again" \in Active
  BY DEF Active, SerialStep
<1>2. CASE c \in halted \/ step[c] \in {"set up again", "exec again"}
  BY <1>2 DEF Fail, End, StepTo, Ends
<1>3. CASE ~(c \in halted \/ step[c] \in {"set up again", "exec again"})
  <2>1. Connect(c, "login again", Others)
    BY <1>3 DEF Fail
  <2> QED
    BY <1>1, <2>1, ConnectShape
<1> QED
  BY <1>2, <1>3

(* Every step of the specification is a lock step. *)
LEMMA SerialStepShape ==
  ASSUME SerialInv, [SerialNext]_serialVars
  PROVE  LockStep
<1>1. ASSUME NEW c \in SerialCall, RunCommand(c) PROVE LockStep
  BY <1>1 DEF RunCommand, StepTo, Queues, LockStep
<1>2. ASSUME NEW c \in SerialCall, TakeTurn(c) PROVE LockStep
  <2>1. step[c] = "queued" /\ Head(order) = c
    BY <1>2 DEF TakeTurn
  <2>2. order # <<>>
    BY <2>1 DEF SerialInv, InLine, LockTypes
  <2>3. HasTurn(c)
    BY <2>1, <2>2 DEF HasTurn
  <2>4. {"login", "set up"} \subseteq Active
    BY DEF Active, SerialStep
  <2>5. CASE c \in halted
    BY <1>2, <2>3, <2>5 DEF TakeTurn, End, StepTo, Ends, LockStep
  <2>6. CASE c \notin halted /\ IsConnected
    BY <1>2, <2>3, <2>4, <2>6 DEF TakeTurn, StepTo, GoesOn, LockStep
  <2>7. CASE c \notin halted /\ ~IsConnected
    BY <1>2, <2>3, <2>4, <2>7, ConnectShape DEF TakeTurn, LockStep
  <2> QED
    BY <2>5, <2>6, <2>7
<1>3. ASSUME NEW c \in SerialCall, Login(c) PROVE LockStep
  <2>1. step[c] \in Active /\ {"set up", "set up again"} \subseteq Active
    BY <1>3 DEF Login, Active, SerialStep
  <2>2. PICK s \in Active : step' = [step EXCEPT ![c] = s]
    BY <1>3, <2>1 DEF Login
  <2>3. GoesOn(c)
    BY <1>3, <2>1, <2>2, ActiveHasTurn DEF Login, GoesOn
  <2> QED
    BY <2>3 DEF LockStep
<1>4. ASSUME NEW c \in SerialCall, LoginTimeout(c) PROVE LockStep
  <2>1. step[c] \in Active
    BY <1>4 DEF LoginTimeout, Active, SerialStep
  <2> QED
    BY <1>4, <2>1, ActiveHasTurn DEF LoginTimeout, End, StepTo, Ends, LockStep
<1>5. ASSUME NEW c \in SerialCall, Send(c) PROVE LockStep
  <2>1. step[c] \in Active /\ {"exec", "exec again"} \subseteq Active
    BY <1>5 DEF Send, Active, SerialStep
  <2>2. CASE socket \notin OpenSockets \/ c \in halted
    BY <1>5, <2>1, <2>2, ActiveHasTurn, FailShape DEF Send, LockStep
  <2>3. CASE ~(socket \notin OpenSockets \/ c \in halted)
    <3>1. PICK s \in Active : step' = [step EXCEPT ![c] = s]
      BY <1>5, <2>1, <2>3 DEF Send
    <3>2. GoesOn(c)
      BY <1>5, <2>1, <2>3, <3>1, ActiveHasTurn DEF Send, GoesOn
    <3> QED
      BY <3>2 DEF LockStep
  <2> QED
    BY <2>2, <2>3
<1>6. ASSUME NEW c \in SerialCall, Output(c) PROVE LockStep
  <2>1. step[c] \in Active
    BY <1>6 DEF Output, Active, SerialStep
  <2> QED
    BY <1>6, <2>1, ActiveHasTurn DEF Output, End, StepTo, Ends, LockStep
<1>7. ASSUME NEW c \in SerialCall, Give(c) PROVE LockStep
  <2>1. step[c] \in Active
    BY <1>7 DEF Give, Active, SerialStep
  <2> QED
    BY <1>7, <2>1, ActiveHasTurn, FailShape DEF Give, LockStep
<1>8. ASSUME NEW c \in SerialCall, CancelCommand(c) PROVE LockStep
  <2>1. CASE step[c] \in {"exec", "exec again"}
    <3>1. step[c] \in Active
      BY <2>1 DEF Active, SerialStep
    <3> QED
      BY <1>8, <2>1, <3>1, ActiveHasTurn DEF CancelCommand, End, StepTo, Ends, LockStep
  <2>2. CASE step[c] \notin {"exec", "exec again"}
    BY <1>8, <2>2 DEF CancelCommand, Stays, LockStep
  <2> QED
    BY <2>1, <2>2
<1>9. ASSUME (\E c \in SerialCall : Execute(c)) \/ Outage \/ GuestBoots \/ UNCHANGED serialVars
      PROVE  LockStep
  BY <1>9 DEF Execute, Outage, GuestBoots, serialVars, Stays, LockStep
<1> QED
  BY <1>1, <1>2, <1>3, <1>4, <1>5, <1>6, <1>7, <1>8, <1>9 DEF SerialNext, SerialWork
---------------------------------------------------------------------------
(* What is typed stays typed, but for one command that is sent or run.      *)
LEMMA TypedShape ==
  ASSUME [SerialNext]_serialVars
  PROVE  \/ typed' = typed
         \/ \E c \in SerialCall, s \in {socket, Head(open)} :
                typed' = [typed EXCEPT ![s] = @ \ {c}]
         \/ \E c \in SerialCall : c \notin halted /\ typed' = [typed EXCEPT ![socket] = @ \cup {c}]
<1>1. ASSUME NEW c \in SerialCall, Send(c)
      PROVE  \/ typed' = typed
             \/ c \notin halted /\ typed' = [typed EXCEPT ![socket] = @ \cup {c}]
  BY <1>1 DEF Send
<1>2. ASSUME NEW c \in SerialCall, Execute(c)
      PROVE  typed' = [typed EXCEPT ![Head(open)] = @ \ {c}]
  BY <1>2 DEF Execute
<1>3. ASSUME NEW c \in SerialCall, RunCommand(c) \/ TakeTurn(c) \/ Login(c) \/ LoginTimeout(c)
                                   \/ Output(c) \/ Give(c) \/ CancelCommand(c)
      PROVE  typed' = typed
  BY <1>3 DEF RunCommand, TakeTurn, Login, LoginTimeout, Output, Give, CancelCommand, guest
<1>4. ASSUME Outage \/ GuestBoots \/ UNCHANGED serialVars
      PROVE  typed' = typed
  BY <1>4 DEF Outage, GuestBoots, serialVars, guest
<1> QED
  BY <1>1, <1>2, <1>3, <1>4 DEF SerialNext, SerialWork

LEMMA SerialTypesKept ==
  ASSUME SerialInv, [SerialNext]_serialVars
  PROVE  LockTypes'
<1>1. order' \in Seq(SerialCall) /\ step' \in [SerialCall -> SerialStep]
  <2>1. Active \subseteq SerialStep /\ {"queued", "done"} \subseteq SerialStep
    BY DEF Active, SerialStep
  <2>2. CASE Stays
    BY <2>2 DEF Stays, SerialInv, LockTypes
  <2>3. ASSUME NEW c \in SerialCall, Queues(c) \/ GoesOn(c) \/ Ends(c)
        PROVE  order' \in Seq(SerialCall) /\ step' \in [SerialCall -> SerialStep]
    <3>1. order' \in Seq(SerialCall)
      BY <2>3 DEF Queues, GoesOn, Ends, HasTurn, SerialInv, LockTypes
    <3>2. step' \in [SerialCall -> SerialStep]
      BY <2>1, <2>3 DEF Queues, GoesOn, Ends, SerialInv, LockTypes
    <3> QED
      BY <3>1, <3>2
  <2> QED
    BY <2>2, <2>3, SerialStepShape DEF LockStep
<1>2. typed' \in [Socket -> SUBSET SerialCall]
  BY TypedShape DEF SerialInv, LockTypes
<1> QED
  BY <1>1, <1>2 DEF LockTypes
---------------------------------------------------------------------------
(* The lock through a step. *)
LEMMA LockKept ==
  ASSUME SerialInv, LockStep
  PROVE  InLine' /\ AtHead'
<1> USE DEF LockTypes
<1>1. CASE Stays
  BY <1>1 DEF Stays, SerialInv, InLine, AtHead
<1>2. ASSUME NEW c \in SerialCall, Queues(c) PROVE InLine' /\ AtHead'
  <2>1. /\ step[c] = "idle" /\ step' = [step EXCEPT ![c] = "queued"]
        /\ order' = Append(order, c) /\ order \in Seq(SerialCall)
        /\ step \in [SerialCall -> SerialStep]
    BY <1>2 DEF Queues, SerialInv
  <2>2. "queued" \notin Active
    BY DEF Active
  <2>3. /\ Len(order') = Len(order) + 1 /\ order'[Len(order) + 1] = c
        /\ \A n \in 1..Len(order) : order'[n] = order[n]
    BY <2>1
  <2>4. ASSUME NEW d \in SerialCall, (step[d] \in Active \cup {"queued"})'
        PROVE  (\E n \in 1..Len(order) : order[n] = d)'
    <3>1. CASE d = c
      BY <2>1, <2>3, <3>1
    <3>2. CASE d # c
      <4>1. PICK n \in 1..Len(order) : order[n] = d
        BY <2>1, <2>4, <3>2 DEF SerialInv, InLine
      <4> QED
        BY <2>1, <2>3, <4>1
    <3> QED
      BY <3>1, <3>2
  <2>5. ASSUME NEW d \in SerialCall, (step[d] \in Active)'
        PROVE  (order # <<>> /\ Head(order) = d)'
    <3>1. d # c
      BY <2>1, <2>2, <2>5
    <3>2. order # <<>> /\ Head(order) = d
      BY <2>1, <2>5, <3>1 DEF SerialInv, AtHead
    <3> QED
      BY <2>1, <2>3, <3>2
  <2> QED
    BY <2>4, <2>5 DEF InLine, AtHead
<1>3. ASSUME NEW c \in SerialCall, GoesOn(c) PROVE InLine' /\ AtHead'
  <2>1. PICK s \in Active : step' = [step EXCEPT ![c] = s]
    BY <1>3 DEF GoesOn
  <2>2. /\ order' = order /\ order # <<>> /\ Head(order) = c
        /\ step[c] \in Active \cup {"queued"} /\ step \in [SerialCall -> SerialStep]
    BY <1>3 DEF GoesOn, HasTurn, SerialInv
  <2>3. ASSUME NEW d \in SerialCall PROVE d = c \/ step'[d] = step[d]
    BY <2>1, <2>2
  <2> QED
    BY <2>1, <2>2, <2>3 DEF SerialInv, InLine, AtHead
<1>4. ASSUME NEW c \in SerialCall, Ends(c) PROVE InLine' /\ AtHead'
  <2>1. /\ step' = [step EXCEPT ![c] = "done"] /\ order' = Tail(order)
        /\ order # <<>> /\ Head(order) = c /\ order \in Seq(SerialCall)
        /\ step \in [SerialCall -> SerialStep]
    BY <1>4 DEF Ends, HasTurn, SerialInv
  <2>2. "done" \notin Active \cup {"queued"}
    BY DEF Active
  <2>3. \A d \in SerialCall : d = c \/ step'[d] = step[d]
    BY <2>1
  <2>4. Len(order') = Len(order) - 1 /\ \A n \in 1..Len(order') : order'[n] = order[n + 1]
    BY <2>1
  <2>5. ASSUME NEW d \in SerialCall, (step[d] \in Active \cup {"queued"})'
        PROVE  (\E n \in 1..Len(order) : order[n] = d)'
    <3>1. d # c /\ step[d] \in Active \cup {"queued"}
      BY <2>1, <2>2, <2>3, <2>5
    <3>2. PICK n \in 1..Len(order) : order[n] = d
      BY <3>1 DEF SerialInv, InLine
    <3>3. n # 1
      BY <2>1, <3>1, <3>2
    <3>4. n - 1 \in 1..Len(order') /\ order'[n - 1] = d
      BY <2>1, <2>4, <3>2, <3>3
    <3> QED
      BY <3>4
  <2>6. ASSUME NEW d \in SerialCall PROVE ~(step[d] \in Active)'
    <3>1. CASE d = c
      BY <2>1, <2>2, <3>1
    <3>2. CASE d # c
      BY <2>1, <2>3, <3>2 DEF SerialInv, AtHead
    <3> QED
      BY <3>1, <3>2
  <2> QED
    BY <2>5, <2>6 DEF InLine, AtHead
<1> QED
  BY <1>1, <1>2, <1>3, <1>4 DEF LockStep

LEMMA SerialInitInv == SerialInit => SerialInv
<1> SUFFICES ASSUME SerialInit PROVE SerialInv
  OBVIOUS
<1>1. LockTypes
  BY DEF SerialInit, LockTypes, SerialStep
<1>2. \A c \in SerialCall : step[c] \notin Active \cup {"queued"}
  BY DEF SerialInit, Active
<1> QED
  BY <1>1, <1>2 DEF SerialInv, InLine, AtHead

LEMMA SerialInductive == SerialInv /\ [SerialNext]_serialVars => SerialInv'
BY SerialStepShape, SerialTypesKept, LockKept DEF SerialInv

LEMMA SerialInvariant == SerialSpec => []SerialInv
BY SerialInitInv, SerialInductive, PTL DEF SerialSpec
---------------------------------------------------------------------------
(* "one serial line = one command at a time", whichever commands give up,   *)
(* are cancelled or are retried: whoever works is the head of the order,    *)
(* and the order has one head.                                              *)
THEOREM OneCommandProved == SerialSpec => []OneCommandAtATime
<1>1. SerialInv => OneCommandAtATime
  <2> SUFFICES ASSUME SerialInv, NEW c \in SerialCall, NEW d \in SerialCall,
                      {step[c], step[d]} \subseteq Active
               PROVE  c = d
    BY DEF OneCommandAtATime, Active
  <2> QED
    BY DEF SerialInv, AtHead
<1> QED
  BY <1>1, SerialInvariant, PTL

(* A cancelled command is not typed: sending is the only step that types,   *)
(* and it looks at the signal after every wait.                             *)
THEOREM CancelledNotTypedProved == SerialSpec => CancelledNotTyped
<1> DEFINE Fine == \A c \in SerialCall, s \in Socket : (c \in typed'[s] \ typed[s]) => c \notin halted
<1>1. SerialInv /\ [SerialNext]_serialVars => [Fine]_serialVars
  <2> SUFFICES ASSUME SerialInv, [SerialNext]_serialVars PROVE Fine
    OBVIOUS
  <2>1. typed \in [Socket -> SUBSET SerialCall]
    BY DEF SerialInv, LockTypes
  <2>2. CASE typed' = typed
    BY <2>2
  <2>3. ASSUME NEW c \in SerialCall, NEW s, typed' = [typed EXCEPT ![s] = @ \ {c}] PROVE Fine
    BY <2>1, <2>3
  <2>4. ASSUME NEW c \in SerialCall, c \notin halted, typed' = [typed EXCEPT ![socket] = @ \cup {c}]
        PROVE  Fine
    BY <2>1, <2>4
  <2> QED
    BY <2>2, <2>3, <2>4, TypedShape
<1> QED
  BY <1>1, SerialInvariant, PTL DEF SerialSpec, CancelledNotTyped
---------------------------------------------------------------------------
(* How far a call can come: sockets and commands are spent on the way, and  *)
(* there is no way back.                                                    *)
Began     == SerialStep \ {"idle", "queued"}
SentOnce  == {"exec", "login again", "set up again", "exec again", "done"}
Retried   == {"login again", "set up again", "exec again", "done"}
SentTwice == {"exec again", "done"}
Later     == {Began, SentOnce, Retried, SentTwice}

Onward(a, b) ==
    \/ a = "idle" /\ b = "queued"
    \/ a = "queued" /\ b \in {"login", "set up", "done"}
    \/ a = "login" /\ b \in {"set up", "done"}
    \/ a = "set up" /\ b \in {"exec", "login again", "done"}
    \/ a = "exec" /\ b \in {"login again", "done"}
    \/ a = "login again" /\ b \in {"set up again", "done"}
    \/ a = "set up again" /\ b \in {"exec again", "done"}
    \/ a = "exec again" /\ b = "done"

In(L) == {c \in SerialCall : step[c] \in L}
Left(c) == {s \in Socket : c \in typed[s]}
Sent(c) == (IF step[c] \in SentOnce THEN 1 ELSE 0) + (IF step[c] \in SentTwice THEN 1 ELSE 0)

LineTypes ==
    /\ open \in Seq(Socket) /\ socket \in 0..opened /\ opened \in Nat
    /\ ready \in BOOLEAN

GuestTypes ==
    /\ ran \in [SerialCall -> Nat] /\ printed \subseteq SerialCall /\ halted \subseteq SerialCall
    /\ answers \in BOOLEAN /\ outages \in 0..MaxOutage

(* A call opens a socket when it begins and one when it is retried.         *)
SocketBudget == opened <= Cardinality(In(Began)) + Cardinality(In(Retried))

(* A command is run once for each time it was sent, whatever the sockets    *)
(* still hold of it.                                                        *)
CommandBudget == \A c \in SerialCall : ran[c] + Cardinality(Left(c)) <= Sent(c)

(* The invariant of the sockets and the guest, on top of that of the lock.  *)
WorkInv == LineTypes /\ GuestTypes /\ SocketBudget /\ CommandBudget
---------------------------------------------------------------------------
LEMMA OnwardStays ==
  ASSUME NEW a, NEW b, Onward(a, b), NEW L \in Later, a \in L
  PROVE  b \in L
BY DEF Onward, Later, Began, SentOnce, Retried, SentTwice, SerialStep

LEMMA ConnectSteps ==
  ASSUME NEW c \in SerialCall, NEW next, NEW rest, Connect(c, next, rest),
         Onward(step[c], next), Onward(step[c], "done")
  PROVE  \E s : Onward(step[c], s) /\ step' = [step EXCEPT ![c] = s]
BY DEF Connect, End, StepTo

(* The step of one call, or of none. *)
OneOnward ==
    \/ step' = step
    \/ \E c \in SerialCall : \E s : Onward(step[c], s) /\ step' = [step EXCEPT ![c] = s]

LEMMA StepsOnward ==
  ASSUME [SerialNext]_serialVars
  PROVE  OneOnward
<1>1. ASSUME NEW c \in SerialCall, RunCommand(c) PROVE OneOnward
  BY <1>1 DEF RunCommand, StepTo, Onward, OneOnward
<1>2. ASSUME NEW c \in SerialCall, TakeTurn(c) PROVE OneOnward
  <2>1. step[c] = "queued" /\ \A s \in {"login", "set up", "done"} : Onward(step[c], s)
    BY <1>2 DEF TakeTurn, Onward
  <2>2. CASE c \in halted \/ IsConnected
    BY <1>2, <2>1, <2>2 DEF TakeTurn, End, StepTo, OneOnward
  <2>3. CASE ~(c \in halted \/ IsConnected)
    BY <1>2, <2>1, <2>3, ConnectSteps DEF TakeTurn, OneOnward
  <2> QED
    BY <2>2, <2>3
<1>3. ASSUME NEW c \in SerialCall, Login(c) PROVE OneOnward
  <2>1. PICK s : /\ step' = [step EXCEPT ![c] = s]
                 /\ s = IF step[c] = "login" THEN "set up" ELSE "set up again"
    BY <1>3 DEF Login
  <2>2. Onward(step[c], s)
    BY <1>3, <2>1 DEF Login, Onward
  <2> QED
    BY <2>1, <2>2 DEF OneOnward
<1>4. ASSUME NEW c \in SerialCall, LoginTimeout(c) \/ Output(c) PROVE OneOnward
  <2>1. step' = [step EXCEPT ![c] = "done"]
    BY <1>4 DEF LoginTimeout, Output, End, StepTo
  <2>2. Onward(step[c], "done")
    BY <1>4 DEF LoginTimeout, Output, Onward
  <2> QED
    BY <2>1, <2>2 DEF OneOnward
<1>5. ASSUME NEW c \in SerialCall, Fail(c),
             step[c] \in {"set up", "exec", "set up again", "exec again"}
      PROVE  OneOnward
  <2>1. Onward(step[c], "done")
    BY <1>5 DEF Onward
  <2>2. CASE c \in halted \/ step[c] \in {"set up again", "exec again"}
    BY <1>5, <2>1, <2>2 DEF Fail, End, StepTo, OneOnward
  <2>3. CASE ~(c \in halted \/ step[c] \in {"set up again", "exec again"})
    <3>1. Connect(c, "login again", Others)
      BY <1>5, <2>3 DEF Fail
    <3>2. Onward(step[c], "login again")
      BY <1>5, <2>3 DEF Onward
    <3> QED
      BY <2>1, <3>1, <3>2, ConnectSteps DEF OneOnward
  <2> QED
    BY <2>2, <2>3
<1>6. ASSUME NEW c \in SerialCall, Send(c) PROVE OneOnward
  <2>1. CASE socket \notin OpenSockets \/ c \in halted
    BY <1>5, <1>6, <2>1 DEF Send
  <2>2. CASE ~(socket \notin OpenSockets \/ c \in halted)
    <3>1. PICK s : /\ step' = [step EXCEPT ![c] = s]
                   /\ s = IF step[c] = "set up" THEN "exec" ELSE "exec again"
      BY <1>6, <2>2 DEF Send
    <3>2. Onward(step[c], s)
      BY <1>6, <3>1 DEF Send, Onward
    <3> QED
      BY <3>1, <3>2 DEF OneOnward
  <2> QED
    BY <2>1, <2>2
<1>7. ASSUME NEW c \in SerialCall, Give(c) PROVE OneOnward
  BY <1>5, <1>7 DEF Give
<1>8. ASSUME NEW c \in SerialCall, CancelCommand(c) PROVE OneOnward
  <2>1. CASE step[c] \in {"exec", "exec again"}
    BY <1>8, <2>1 DEF CancelCommand, End, StepTo, Onward, OneOnward
  <2>2. CASE step[c] \notin {"exec", "exec again"}
    BY <1>8, <2>2 DEF CancelCommand, OneOnward
  <2> QED
    BY <2>1, <2>2
<1>9. ASSUME (\E c \in SerialCall : Execute(c)) \/ Outage \/ GuestBoots \/ UNCHANGED serialVars
      PROVE  OneOnward
  BY <1>9 DEF Execute, Outage, GuestBoots, serialVars, OneOnward
<1> QED
  BY <1>1, <1>2, <1>3, <1>4, <1>6, <1>7, <1>8, <1>9 DEF SerialNext, SerialWork

(* Who is past a mark stays past it. *)
LEMMA MarksKept ==
  ASSUME LockTypes, [SerialNext]_serialVars, NEW L \in Later
  PROVE  In(L) \subseteq In(L)'
<1> SUFFICES ASSUME NEW d \in SerialCall, step[d] \in L PROVE step'[d] \in L
  BY DEF In
<1>1. CASE step' = step
  BY <1>1
<1>2. ASSUME NEW c \in SerialCall, NEW s, Onward(step[c], s), step' = [step EXCEPT ![c] = s]
      PROVE  step'[d] \in L
  BY <1>2, OnwardStays DEF LockTypes
<1> QED
  BY <1>1, <1>2, StepsOnward DEF OneOnward

LEMMA SentGrows ==
  ASSUME LockTypes, [SerialNext]_serialVars, NEW c \in SerialCall
  PROVE  Sent(c) \in Nat /\ Sent(c)' \in Nat /\ Sent(c) <= Sent(c)'
<1>1. \A L \in Later : step[c] \in L => step'[c] \in L
  BY MarksKept DEF In
<1>2. SentOnce \in Later /\ SentTwice \in Later
  BY DEF Later
<1>3. (step[c] \in SentOnce => step'[c] \in SentOnce) /\ (step[c] \in SentTwice => step'[c] \in SentTwice)
  BY <1>1, <1>2
<1> QED
  BY <1>3 DEF Sent
---------------------------------------------------------------------------
(* Sockets. *)

LEMMA OneLess ==
  ASSUME open \in Seq(Socket), NEW i \in 1..Len(open)
  PROVE  RemoveAt(open, i) \in Seq(Socket)
<1>1. RemoveAt(open, i) = SubSeq(open, 1, i - 1) \o SubSeq(open, i + 1, Len(open))
  BY DEF RemoveAt
<1>2. SubSeq(open, 1, i - 1) \in Seq(Socket)
  OBVIOUS
<1>3. SubSeq(open, i + 1, Len(open)) \in Seq(Socket)
  OBVIOUS
<1> QED
  BY <1>1, <1>2, <1>3

LEMMA OthersOpen ==
  ASSUME open \in Seq(Socket)
  PROVE  Others \in Seq(Socket)
<1>1. CASE socket \in OpenSockets
  <2> DEFINE i == CHOOSE n \in DOMAIN open : open[n] = socket
  <2>1. i \in 1..Len(open)
    BY <1>1 DEF OpenSockets
  <2>2. Others = RemoveAt(open, i)
    BY <1>1 DEF Others
  <2> HIDE DEF i
  <2> QED
    BY <2>1, <2>2, OneLess
<1>2. CASE socket \notin OpenSockets
  BY <1>2 DEF Others
<1> QED
  BY <1>1, <1>2

(* No socket is made, or one for a call that begins or is retried.          *)
Keeps ==
    /\ opened' = opened /\ socket' \in {socket, 0}
    /\ \/ open' = open \/ open' = Others \/ open' = <<>>
       \/ \E n \in DOMAIN open : open' = RemoveAt(open, n)
Opens(c, L) ==
    /\ opened' = opened + 1 /\ socket' = opened + 1
    /\ open' = Append(open, opened + 1) \/ open' = Append(Others, opened + 1)
    /\ L \in {Began, Retried} /\ step[c] \notin L /\ step'[c] \in L
SocketStep == Keeps \/ \E c \in SerialCall : \E L : Opens(c, L)

LEMMA SocketShape ==
  ASSUME LockTypes, [SerialNext]_serialVars
  PROVE  SocketStep
<1> USE DEF line, guest
<1>1. ASSUME NEW c \in SerialCall, TakeTurn(c) PROVE SocketStep
  <2>1. CASE c \in halted \/ IsConnected
    BY <1>1, <2>1 DEF TakeTurn, Keeps, SocketStep
  <2>2. CASE ~(c \in halted \/ IsConnected)
    <3>1. step[c] = "queued" /\ Connect(c, "login", open)
      BY <1>1, <2>2 DEF TakeTurn
    <3>2. CASE opened' = opened /\ socket' = 0 /\ open' = open
      BY <3>2 DEF Keeps, SocketStep
    <3>3. CASE opened' = opened + 1 /\ socket' = opened + 1 /\ open' = Append(open, opened + 1)
               /\ step' = [step EXCEPT ![c] = "login"]
      <4>1. step[c] \notin Began /\ step'[c] \in Began
        BY <3>1, <3>3 DEF LockTypes, Began, SerialStep
      <4> QED
        BY <3>3, <4>1 DEF Opens, SocketStep
    <3> QED
      BY <3>1, <3>2, <3>3 DEF Connect, StepTo
  <2> QED
    BY <2>1, <2>2
<1>2. ASSUME NEW c \in SerialCall, Fail(c), step[c] \in {"set up", "exec", "set up again", "exec again"}
      PROVE  SocketStep
  <2>1. CASE c \in halted \/ step[c] \in {"set up again", "exec again"}
    BY <1>2, <2>1 DEF Fail, Keeps, SocketStep
  <2>2. CASE ~(c \in halted \/ step[c] \in {"set up again", "exec again"})
    <3>1. step[c] \in {"set up", "exec"} /\ Connect(c, "login again", Others)
      BY <1>2, <2>2 DEF Fail
    <3>2. CASE opened' = opened /\ socket' = 0 /\ open' = Others
      BY <3>2 DEF Keeps, SocketStep
    <3>3. CASE opened' = opened + 1 /\ socket' = opened + 1 /\ open' = Append(Others, opened + 1)
               /\ step' = [step EXCEPT ![c] = "login again"]
      <4>1. step[c] \notin Retried /\ step'[c] \in Retried
        BY <3>1, <3>3 DEF LockTypes, Retried
      <4> QED
        BY <3>3, <4>1 DEF Opens, SocketStep
    <3> QED
      BY <3>1, <3>2, <3>3 DEF Connect, StepTo
  <2> QED
    BY <2>1, <2>2
<1>3. ASSUME NEW c \in SerialCall, Send(c) PROVE SocketStep
  <2>1. CASE socket \notin OpenSockets \/ c \in halted
    BY <1>2, <1>3, <2>1 DEF Send
  <2>2. CASE ~(socket \notin OpenSockets \/ c \in halted)
    BY <1>3, <2>2 DEF Send, Keeps, SocketStep
  <2> QED
    BY <2>1, <2>2
<1>4. ASSUME NEW c \in SerialCall, Give(c) PROVE SocketStep
  BY <1>2, <1>4 DEF Give
<1>5. ASSUME NEW c \in SerialCall,
             RunCommand(c) \/ Login(c) \/ LoginTimeout(c) \/ Output(c) \/ CancelCommand(c) \/ Execute(c)
      PROVE  SocketStep
  BY <1>5 DEF RunCommand, Login, LoginTimeout, Output, CancelCommand, Execute, Keeps, SocketStep
<1>6. ASSUME Outage \/ GuestBoots \/ UNCHANGED serialVars PROVE SocketStep
  BY <1>6 DEF Outage, GuestBoots, serialVars, Keeps, SocketStep
<1> QED
  BY <1>1, <1>3, <1>4, <1>5, <1>6 DEF SerialNext, SerialWork

LEMMA InFinite ==
  ASSUME NEW L
  PROVE  /\ IsFiniteSet(In(L)) /\ Cardinality(In(L)) \in Nat
         /\ Cardinality(In(L)) <= Cardinality(SerialCall)
<1>1. In(L) \in SUBSET SerialCall /\ IsFiniteSet(SerialCall)
  BY SerialLineAssumption DEF In
<1>2. IsFiniteSet(In(L)) /\ Cardinality(In(L)) <= Cardinality(SerialCall)
  BY <1>1, FS_Subset
<1> QED
  BY <1>2, FS_CardinalityType

LEMMA MaxSocketType == Cardinality(SerialCall) \in Nat /\ MaxSocket = 2 * Cardinality(SerialCall) /\ MaxSocket \in Nat
<1>1. Cardinality(SerialCall) \in Nat
  BY SerialLineAssumption, FS_CardinalityType
<1> QED
  BY <1>1 DEF MaxSocket

(* There are as many sockets as there is budget. *)
LEMMA BudgetBounds == SocketBudget /\ opened \in Nat => opened <= MaxSocket
<1> SUFFICES ASSUME SocketBudget, opened \in Nat PROVE opened <= MaxSocket
  OBVIOUS
<1>1. /\ Cardinality(In(Began)) \in Nat /\ Cardinality(In(Began)) <= Cardinality(SerialCall)
      /\ Cardinality(In(Retried)) \in Nat /\ Cardinality(In(Retried)) <= Cardinality(SerialCall)
  BY InFinite
<1> QED
  BY <1>1, MaxSocketType DEF SocketBudget

LEMMA MarkGrows ==
  ASSUME LockTypes, [SerialNext]_serialVars, NEW L \in Later
  PROVE  /\ Cardinality(In(L)) \in Nat /\ Cardinality(In(L)') \in Nat
         /\ Cardinality(In(L)) <= Cardinality(In(L)')
         /\ \A c \in SerialCall :
                step[c] \notin L /\ step'[c] \in L => Cardinality(In(L)) + 1 <= Cardinality(In(L)')
<1>1. IsFiniteSet(In(L)) /\ Cardinality(In(L)) \in Nat
  BY InFinite
<1>2. In(L)' \in SUBSET SerialCall /\ IsFiniteSet(SerialCall)
  BY SerialLineAssumption DEF In
<1>3. IsFiniteSet(In(L)')
  BY <1>2, FS_Subset
<1>4. Cardinality(In(L)') \in Nat
  BY <1>3, FS_CardinalityType
<1>5. Cardinality(In(L)) <= Cardinality(In(L)')
  BY <1>3, MarksKept, FS_Subset
<1>6. ASSUME NEW c \in SerialCall, step[c] \notin L, step'[c] \in L
      PROVE  Cardinality(In(L)) + 1 <= Cardinality(In(L)')
  <2>1. c \notin In(L) /\ In(L) \cup {c} \subseteq In(L)'
    BY <1>6, MarksKept DEF In
  <2>2. Cardinality(In(L) \cup {c}) = Cardinality(In(L)) + 1
    BY <1>1, <2>1, FS_AddElement
  <2>3. Cardinality(In(L) \cup {c}) <= Cardinality(In(L)')
    BY <1>3, <2>1, FS_Subset
  <2> QED
    BY <2>2, <2>3
<1> QED
  BY <1>1, <1>4, <1>5, <1>6

LEMMA SocketsKept ==
  ASSUME LockTypes, LineTypes, SocketBudget, [SerialNext]_serialVars
  PROVE  /\ open' \in Seq(Socket) /\ socket' \in 0..opened' /\ opened' \in Nat
         /\ SocketBudget'
<1> DEFINE b == Cardinality(In(Began))
           r == Cardinality(In(Retried))
           bb == Cardinality(In(Began)')
           rr == Cardinality(In(Retried)')
<1>1. Began \in Later /\ Retried \in Later
  BY DEF Later
<1>2. b \in Nat /\ r \in Nat /\ bb \in Nat /\ rr \in Nat /\ b <= bb /\ r <= rr
  BY <1>1, MarkGrows
<1>3. opened \in Nat /\ socket \in 0..opened /\ open \in Seq(Socket) /\ opened <= b + r
  BY DEF LineTypes, SocketBudget
<1>4. SocketBudget' <=> opened' <= bb + rr
  BY DEF SocketBudget
<1>5. ASSUME NEW c \in SerialCall, NEW L, Opens(c, L)
      PROVE  opened' <= bb + rr
  <2>1. (L = Began /\ b + 1 <= bb) \/ (L = Retried /\ r + 1 <= rr)
    BY <1>1, <1>5, MarkGrows DEF Opens
  <2>2. opened' = opened + 1
    BY <1>5 DEF Opens
  <2> HIDE DEF b, r, bb, rr
  <2> QED
    BY <1>2, <1>3, <2>1, <2>2
<1> HIDE DEF b, r, bb, rr
<1>6. SocketBudget'
  <2>1. CASE Keeps
    BY <1>2, <1>3, <1>4, <2>1 DEF Keeps
  <2> QED
    BY <1>4, <1>5, <2>1, SocketShape DEF SocketStep
<1>7. opened' \in Nat /\ socket' \in 0..opened'
  BY <1>3, SocketShape DEF SocketStep, Keeps, Opens
<1>8. opened' <= MaxSocket
  <2>1. (SocketBudget /\ opened \in Nat => opened <= MaxSocket)'
    BY BudgetBounds, PTL
  <2> QED
    BY <1>6, <1>7, <2>1
<1>9. open' \in Seq(Socket)
  <2>0. <<>> \in Seq(Socket)
    OBVIOUS
  <2>1. CASE Keeps
    <3>1. ASSUME NEW n \in DOMAIN open, open' = RemoveAt(open, n) PROVE open' \in Seq(Socket)
      BY <1>3, <3>1, OneLess
    <3> QED
      BY <1>3, <2>0, <2>1, <3>1, OthersOpen DEF Keeps
  <2>2. ASSUME NEW c \in SerialCall, NEW L, Opens(c, L) PROVE open' \in Seq(Socket)
    <3>1. opened + 1 \in Socket
      BY <1>3, <1>8, <2>2, MaxSocketType DEF Opens, Socket
    <3>2. Others \in Seq(Socket)
      BY <1>3, OthersOpen
    <3>3. Append(open, opened + 1) \in Seq(Socket)
      BY <1>3, <3>1
    <3>4. Append(Others, opened + 1) \in Seq(Socket)
      BY <3>1, <3>2
    <3> QED
      BY <2>2, <3>3, <3>4 DEF Opens
  <2> QED
    BY <2>1, <2>2, SocketShape DEF SocketStep
<1> QED
  BY <1>6, <1>7, <1>9
---------------------------------------------------------------------------
(* Commands. *)

Runs(c) ==
    /\ open # <<>> /\ c \in typed[Head(open)] /\ step' = step
    /\ typed' = [typed EXCEPT ![Head(open)] = @ \ {c}] /\ ran' = [ran EXCEPT ![c] = @ + 1]
Typing(c) ==
    /\ socket \in OpenSockets /\ ran' = ran
    /\ typed' = [typed EXCEPT ![socket] = @ \cup {c}]
    /\ \/ step[c] = "set up" /\ step' = [step EXCEPT ![c] = "exec"]
       \/ step[c] = "set up again" /\ step' = [step EXCEPT ![c] = "exec again"]
CommandStep == (typed' = typed /\ ran' = ran) \/ \E c \in SerialCall : Runs(c) \/ Typing(c)

LEMMA CommandShape ==
  ASSUME [SerialNext]_serialVars
  PROVE  CommandStep
<1>1. ASSUME NEW c \in SerialCall, Send(c) PROVE CommandStep
  <2>1. CASE socket \notin OpenSockets \/ c \in halted
    BY <1>1, <2>1 DEF Send, CommandStep
  <2>2. CASE ~(socket \notin OpenSockets \/ c \in halted)
    <3>1. /\ socket \in OpenSockets /\ ran' = ran /\ step[c] \in {"set up", "set up again"}
          /\ typed' = [typed EXCEPT ![socket] = @ \cup {c}]
          /\ step' = [step EXCEPT ![c] = IF step[c] = "set up" THEN "exec" ELSE "exec again"]
      BY <1>1, <2>2 DEF Send
    <3>2. Typing(c)
      BY <3>1 DEF Typing
    <3> QED
      BY <3>2 DEF CommandStep
  <2> QED
    BY <2>1, <2>2
<1>2. ASSUME NEW c \in SerialCall, Execute(c) PROVE CommandStep
  BY <1>2 DEF Execute, Runs, CommandStep
<1>3. ASSUME NEW c \in SerialCall, RunCommand(c) \/ TakeTurn(c) \/ Login(c) \/ LoginTimeout(c)
                                   \/ Output(c) \/ Give(c) \/ CancelCommand(c)
      PROVE  CommandStep
  BY <1>3 DEF RunCommand, TakeTurn, Login, LoginTimeout, Output, Give, CancelCommand, guest, CommandStep
<1>4. ASSUME Outage \/ GuestBoots \/ UNCHANGED serialVars PROVE CommandStep
  BY <1>4 DEF Outage, GuestBoots, serialVars, guest, CommandStep
<1> QED
  BY <1>1, <1>2, <1>3, <1>4 DEF SerialNext, SerialWork

LEMMA LeftFinite ==
  ASSUME NEW c
  PROVE  IsFiniteSet(Left(c)) /\ Cardinality(Left(c)) \in Nat
<1>1. IsFiniteSet(Socket)
  BY MaxSocketType, FS_Interval DEF Socket
<1>2. IsFiniteSet(Left(c))
  BY <1>1, FS_Subset DEF Left
<1> QED
  BY <1>2, FS_CardinalityType

LEMMA CommandsKept ==
  ASSUME LockTypes, LineTypes, GuestTypes, CommandBudget, [SerialNext]_serialVars
  PROVE  ran' \in [SerialCall -> Nat] /\ CommandBudget'
<1>1. ran \in [SerialCall -> Nat] /\ typed \in [Socket -> SUBSET SerialCall]
  BY DEF GuestTypes, LockTypes
<1>2. ran' \in [SerialCall -> Nat]
  <2>1. ASSUME NEW c \in SerialCall, ran' = [ran EXCEPT ![c] = @ + 1] PROVE ran' \in [SerialCall -> Nat]
    BY <1>1, <2>1
  <2> QED
    BY <1>1, <2>1, CommandShape DEF CommandStep, Runs, Typing
<1>3. ASSUME NEW d \in SerialCall
      PROVE  ran'[d] + Cardinality(Left(d)') <= Sent(d)'
  <2> DEFINE n == Cardinality(Left(d))
  <2>1. n \in Nat /\ IsFiniteSet(Left(d)) /\ ran[d] \in Nat /\ ran[d] + n <= Sent(d)
    BY <1>1, LeftFinite DEF CommandBudget
  <2>2. Sent(d) \in Nat /\ Sent(d)' \in Nat /\ Sent(d) <= Sent(d)'
    BY SentGrows
  <2>3. CASE Left(d)' = Left(d) /\ ran'[d] = ran[d]
    BY <2>1, <2>2, <2>3
  <2>4. ASSUME NEW c \in SerialCall, Runs(c) PROVE ran'[d] + Cardinality(Left(d)') <= Sent(d)'
    <3> DEFINE s == Head(open)
    <3>1. s \in Socket /\ c \in typed[s] /\ open \in Seq(Socket)
      BY <2>4 DEF Runs, LineTypes
    <3>2. typed' = [typed EXCEPT ![s] = @ \ {c}] /\ ran' = [ran EXCEPT ![c] = @ + 1]
      BY <2>4 DEF Runs
    <3> HIDE DEF s
    <3>3. CASE d = c
      <4>1. Left(d)' = Left(d) \ {s} /\ s \in Left(d) /\ ran'[d] = ran[d] + 1
        BY <1>1, <3>1, <3>2, <3>3 DEF Left
      <4>2. Cardinality(Left(d) \ {s}) = n - 1
        BY <2>1, <4>1, FS_RemoveElement
      <4>3. Cardinality(Left(d)') = n - 1
        BY <4>1, <4>2
      <4> HIDE DEF n
      <4> QED
        BY <2>1, <2>2, <4>1, <4>3
    <3>4. CASE d # c
      <4>1. Left(d)' = Left(d) /\ ran'[d] = ran[d]
        BY <1>1, <3>1, <3>2, <3>4 DEF Left
      <4> QED
        BY <2>3, <4>1
    <3> QED
      BY <3>3, <3>4
  <2>5. ASSUME NEW c \in SerialCall, Typing(c) PROVE ran'[d] + Cardinality(Left(d)') <= Sent(d)'
    <3>1. socket \in Socket /\ ran' = ran /\ typed' = [typed EXCEPT ![socket] = @ \cup {c}]
      <4>1. PICK i \in 1..Len(open) : open[i] = socket
        BY <2>5 DEF Typing, OpenSockets
      <4>2. socket \in Socket
        BY <4>1 DEF LineTypes
      <4> QED
        BY <2>5, <4>2 DEF Typing
    <3>2. CASE d = c
      <4>1. Left(d)' = Left(d) \cup {socket} /\ ran'[d] = ran[d]
        BY <1>1, <3>1, <3>2 DEF Left
      <4>2. Cardinality(Left(d) \cup {socket}) <= n + 1
        BY <2>1, FS_AddElement
      <4>3. IsFiniteSet(Left(d) \cup {socket})
        BY <2>1, FS_AddElement
      <4>4. Cardinality(Left(d)') \in Nat /\ Cardinality(Left(d)') <= n + 1
        BY <4>1, <4>2, <4>3, FS_CardinalityType
      <4>5. Sent(d)' = Sent(d) + 1
        <5>1. \/ step[d] = "set up" /\ step'[d] = "exec"
              \/ step[d] = "set up again" /\ step'[d] = "exec again"
          BY <2>5, <3>2 DEF Typing, LockTypes
        <5>2. CASE step[d] = "set up" /\ step'[d] = "exec"
          <6>1. /\ step[d] \notin SentOnce /\ step[d] \notin SentTwice
                /\ step'[d] \in SentOnce /\ step'[d] \notin SentTwice
            BY <5>2 DEF SentOnce, SentTwice
          <6> QED
            BY <6>1 DEF Sent
        <5>3. CASE step[d] = "set up again" /\ step'[d] = "exec again"
          <6>1. /\ step[d] \in SentOnce /\ step[d] \notin SentTwice
                /\ step'[d] \in SentOnce /\ step'[d] \in SentTwice
            BY <5>3 DEF SentOnce, SentTwice
          <6> QED
            BY <6>1 DEF Sent
        <5> QED
          BY <5>1, <5>2, <5>3
      <4> HIDE DEF n
      <4> QED
        BY <2>1, <2>2, <4>1, <4>4, <4>5
    <3>3. CASE d # c
      <4>1. Left(d)' = Left(d) /\ ran'[d] = ran[d]
        BY <1>1, <3>1, <3>3 DEF Left
      <4> QED
        BY <2>3, <4>1
    <3> QED
      BY <3>2, <3>3
  <2>6. CASE typed' = typed /\ ran' = ran
    <3>1. Left(d)' = Left(d)
      BY <2>6 DEF Left
    <3> QED
      BY <2>3, <2>6, <3>1
  <2> QED
    BY <2>4, <2>5, <2>6, CommandShape DEF CommandStep
<1> QED
  BY <1>2, <1>3 DEF CommandBudget
---------------------------------------------------------------------------
(* The rest: flags, and who is cancelled or printed. *)
LEMMA FlagsKept ==
  ASSUME LineTypes, GuestTypes, [SerialNext]_serialVars
  PROVE  /\ ready' \in BOOLEAN /\ answers' \in BOOLEAN /\ outages' \in 0..MaxOutage
         /\ printed' \subseteq SerialCall /\ halted' \subseteq SerialCall
<1> USE DEF line, guest, LineTypes, GuestTypes
<1>0. ASSUME NEW c \in SerialCall, Fail(c) PROVE ready' \in BOOLEAN
  BY <1>0 DEF Fail, Connect
<1>1. ASSUME NEW c \in SerialCall, TakeTurn(c) PROVE ready' \in BOOLEAN
  BY <1>1 DEF TakeTurn, Connect
<1>2. ASSUME NEW c \in SerialCall, Send(c) PROVE ready' \in BOOLEAN
  BY <1>0, <1>2 DEF Send
<1>3. ready' \in BOOLEAN
  BY <1>0, <1>1, <1>2 DEF SerialNext, SerialWork, RunCommand, Login, LoginTimeout, Output, Give,
     CancelCommand, Execute, Outage, GuestBoots, serialVars
<1>4. answers' \in BOOLEAN
  BY DEF SerialNext, SerialWork, RunCommand, TakeTurn, Login, LoginTimeout, Send, Output, Give,
     CancelCommand, Execute, Outage, GuestBoots, serialVars
<1>5. outages' \in 0..MaxOutage
  <2>1. CASE Outage
    BY <2>1, SerialLineAssumption DEF Outage
  <2>2. CASE ~Outage
    <3>1. outages' = outages
      BY <2>2 DEF SerialNext, SerialWork, RunCommand, TakeTurn, Login, LoginTimeout,
         Send, Output, Give, CancelCommand, Execute, GuestBoots, serialVars
    <3> QED
      BY <3>1
  <2> QED
    BY <2>1, <2>2
<1>6. printed' \subseteq SerialCall /\ halted' \subseteq SerialCall
  BY DEF SerialNext, SerialWork, RunCommand, TakeTurn, Login, LoginTimeout, Send, Output, Give,
     CancelCommand, Execute, Outage, GuestBoots, serialVars
<1> QED
  BY <1>3, <1>4, <1>5, <1>6

LEMMA InitWork == SerialInit => WorkInv
<1> SUFFICES ASSUME SerialInit PROVE WorkInv
  OBVIOUS
<1>1. LineTypes
  <2>1. <<>> \in Seq(Socket)
    OBVIOUS
  <2>2. open = <<>> /\ socket = 0 /\ opened = 0 /\ ready = FALSE
    BY DEF SerialInit
  <2>3. socket \in 0..opened /\ opened \in Nat
    BY <2>2
  <2> QED
    BY <2>1, <2>2, <2>3 DEF LineTypes
<1>4. GuestTypes
  BY SerialLineAssumption DEF SerialInit, GuestTypes
<1>2. SocketBudget
  <2>1. Cardinality(In(Began)) \in Nat /\ Cardinality(In(Retried)) \in Nat
    BY InFinite
  <2> QED
    BY <2>1 DEF SerialInit, SocketBudget
<1>3. ASSUME NEW c \in SerialCall PROVE ran[c] + Cardinality(Left(c)) <= Sent(c)
  <2>1. Left(c) = {}
    BY DEF SerialInit, Left
  <2>2. Cardinality(Left(c)) = 0
    BY <2>1, FS_EmptySet
  <2>3. ran[c] = 0 /\ Sent(c) = 0
    BY DEF SerialInit, Sent, SentOnce, SentTwice
  <2> QED
    BY <2>2, <2>3
<1> QED
  BY <1>1, <1>2, <1>3, <1>4 DEF WorkInv, CommandBudget

LEMMA WorkKept == SerialInv /\ WorkInv /\ [SerialNext]_serialVars => WorkInv'
BY SocketsKept, CommandsKept, FlagsKept DEF SerialInv, WorkInv, LineTypes, GuestTypes

(* Every variable of a serial console has its type: no call opens more than *)
(* two sockets, and no command is run more than twice.                      *)
THEOREM SerialTypeCorrect == SerialSpec => []SerialTypeOK
<1>1. SerialInv /\ WorkInv => SerialTypeOK
  <2> SUFFICES ASSUME SerialInv, WorkInv PROVE SerialTypeOK
    OBVIOUS
  <2>1. /\ order \in Seq(SerialCall) /\ step \in [SerialCall -> SerialStep]
        /\ typed \in [Socket -> SUBSET SerialCall]
    BY DEF SerialInv, LockTypes
  <2>2. open \in Seq(Socket) /\ socket \in 0..opened /\ opened \in Nat /\ ready \in BOOLEAN
    BY DEF WorkInv, LineTypes
  <2>3. {socket, opened} \subseteq 0..MaxSocket
    BY <2>2, BudgetBounds, MaxSocketType DEF WorkInv
  <2>4. ran \in [SerialCall -> 0..2]
    <3>1. ran \in [SerialCall -> Nat]
      BY DEF WorkInv, GuestTypes
    <3>2. ASSUME NEW c \in SerialCall PROVE ran[c] \in 0..2
      <4>1. ran[c] \in Nat /\ Cardinality(Left(c)) \in Nat /\ ran[c] + Cardinality(Left(c)) <= Sent(c)
        BY <3>1, LeftFinite DEF WorkInv, CommandBudget
      <4>2. Sent(c) \in 0..2
        BY DEF Sent
      <4> QED
        BY <4>1, <4>2
    <3> QED
      BY <3>1, <3>2
  <2>5. /\ printed \subseteq SerialCall /\ halted \subseteq SerialCall
        /\ answers \in BOOLEAN /\ outages \in 0..MaxOutage
    BY DEF WorkInv, GuestTypes
  <2> QED
    BY <2>1, <2>2, <2>3, <2>4, <2>5 DEF SerialTypeOK
<1> QED
  BY <1>1, InitWork, WorkKept, SerialInvariant, PTL DEF SerialSpec
=============================================================================
