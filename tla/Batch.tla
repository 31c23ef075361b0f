------------------------------- MODULE Batch -------------------------------
(* What the fan-in of a batch of tool calls promises, without its machinery *)
(* of dispatches, requests, checks and scopes: calls get their verdicts, a  *)
(* refusal is final, any other verdict stands until the user has the call   *)
(* run anew, and the planner answers a batch that is decided, once, apart   *)
(* from the answers that retries ask for.                                   *)

CONSTANTS
    Call,      \* the calls of the batch
    Settler    \* whoever may settle a call, and so lead to the answer

VARIABLES
    verdict,   \* call -> its verdict
    redone,    \* calls that the user is having run, or run anew
    answered,  \* who has led to the answer
    repeated   \* retries that have led to another one

batchVars == <<verdict, redone, answered, repeated>>

Verdict == {"open", "decided", "refused"}

BatchInit ==
    /\ verdict = [c \in Call |-> "open"] /\ redone = {}
    /\ answered = {} /\ repeated = {}

(* The user approves, or retries, a call that was not refused. *)
Rerun(c) ==
    /\ verdict[c] # "refused"
    /\ redone' = redone \cup {c}
    /\ UNCHANGED <<verdict, answered, repeated>>

(* Calls are decided or refused, and what the user has had run anew is over *)
(* or lost; such a call may be open again in between.                       *)
Judge ==
    /\ verdict' \in [Call -> Verdict]
    /\ \A c \in Call :
        /\ verdict[c] = "refused" => verdict'[c] = "refused"
        /\ verdict[c] = "decided" => verdict'[c] # "refused"
        /\ verdict[c] = "decided" /\ c \notin redone => verdict'[c] = "decided"
    /\ redone' \subseteq redone
    /\ UNCHANGED <<answered, repeated>>

Ripe == \A c \in Call : verdict[c] # "open" \/ c \in redone

Answer(s) ==
    /\ Ripe /\ answered = {}
    /\ answered' = {s}
    /\ UNCHANGED <<verdict, redone, repeated>>

Repeat(s) ==
    /\ Ripe
    /\ repeated' = repeated \cup {s}
    /\ UNCHANGED <<verdict, redone, answered>>

BatchNext ==
    \/ \E c \in Call : Rerun(c)
    \/ Judge
    \/ \E s \in Settler : Answer(s) \/ Repeat(s)

BatchSpec == BatchInit /\ [][BatchNext]_batchVars
=============================================================================
