------------------------------ MODULE MCTasks ------------------------------
(* The runs of a conversation and the ingests of a knowledge storage.  They *)
(* are checked side by side: they share no state here, one of them takes    *)
(* all the steps of a behaviour and the other stands still, so that the run *)
(* explores each by itself and under its own fairness.                      *)
EXTENDS ConversationRuns, Knowledge

CONSTANTS m1, m2, q1, f1, f2

VARIABLE part    \* what takes the steps

TwoMsgs     == {m1, m2}
OneRedo     == {q1}
NoRequest   == {}
AnyWay      == {"plain", "enqueue", "steer"}
TwoFiles    == {f1, f2}
LateFile    == {f2}

tasksVars == <<part, vars, knowledgeVars>>

(* One initial state of what stands still. *)
TasksInit ==
    /\ part \in {"runs", "knowledge"}
    /\ Init
    /\ KnowledgeInit /\ (part # "knowledge" => ~watch)

Alone(runs, storage) ==
    \/ part = "runs" /\ runs /\ UNCHANGED <<part, knowledgeVars>>
    \/ part = "knowledge" /\ storage /\ UNCHANGED <<part, vars>>

TasksNext == Alone(Next, KnowledgeNext)
TasksWork == Alone(Work, KnowledgeWork)

TasksSpec == TasksInit /\ [][TasksNext]_tasksVars /\ WF_tasksVars(TasksWork)
=============================================================================
