----------------------------- MODULE MCTurn -----------------------------
(* What happens inside a turn: the thoughts before the planner, the fan-in  *)
(* of a batch of tools under a subagent's call, and two things that run     *)
(* tools, a tool host and a serial console.  They are checked side by side: they share no state, one *)
(* of them takes all the steps of a behaviour and the others stand still,   *)
(* so that the run explores each by itself and under its own fairness.      *)
EXTENDS Thoughts, Subagent, ToolHost, SerialLine

CONSTANTS t1, t2, r1, c1, h1, h2, s1, s2

VARIABLE part    \* what takes the steps

TwoThoughts    == {t1, t2}
OneFork        == {r1}
OneClick       == {c1}
BothModes      == {"continue", "finalize"}
TwoHostCalls   == {h1, h2}
TwoSerialCalls == {s1, s2}

turnVars == <<part, thoughtVars, subagentVars, toolHostVars, serialVars>>

(* One initial state of those that stand still. *)
TurnInit ==
    /\ part \in {"thoughts", "batch", "tool host", "serial line"}
    /\ ThoughtsInit /\ (part # "thoughts" => owner = "barrier" /\ group = Peer)
    /\ SubagentInit /\ (part # "batch" => mode = "continue")
    /\ ToolHostInit
    /\ SerialInit /\ (part # "serial line" => answers)

Alone(thoughts, batch, host, console) ==
    \/ part = "thoughts" /\ thoughts /\ UNCHANGED <<part, subagentVars, toolHostVars, serialVars>>
    \/ part = "batch" /\ batch /\ UNCHANGED <<part, thoughtVars, toolHostVars, serialVars>>
    \/ part = "tool host" /\ host /\ UNCHANGED <<part, thoughtVars, subagentVars, serialVars>>
    \/ part = "serial line" /\ console /\ UNCHANGED <<part, thoughtVars, subagentVars, toolHostVars>>

TurnNext == Alone(ThoughtsNext, SubagentNext, ToolHostNext, SerialNext)
TurnWork == Alone(ThoughtsWork, SubagentWork, ToolHostWork, SerialWork)

TurnSpec == TurnInit /\ [][TurnNext]_turnVars /\ WF_turnVars(TurnWork)

(* Every variable has its type. *)
TurnTypeOK == ThoughtsTypeOK /\ SubagentTypeOK /\ ToolHostTypeOK /\ SerialTypeOK
=============================================================================
