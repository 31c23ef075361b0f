---------------------------- MODULE Subagent ----------------------------
(* run_subagent: a tool call of one conversation that drives another one   *)
(* and waits for it.  The child is the batch of ToolFanIn; the call polls   *)
(* whether the child has an active run, then reads its entries, and ends    *)
(* with the child's last text when none of them waits for an approval.      *)
(* The two observations are awaits apart, and the child does not stand      *)
(* still in between.                                                        *)
EXTENDS ToolFanIn

VARIABLES
    wait,      \* where the call stands
    overdue    \* its deadline has passed, or its own run was aborted

subagentVars == <<vars, wait, overdue>>

Unanswered == {"polling", "reading"}

SubagentTypeOK ==
    /\ TypeOK
    /\ wait \in Unanswered \cup {"answered", "failed", "lost"}
    /\ overdue \in BOOLEAN

SubagentInit == Init /\ wait = "polling" /\ overdue = FALSE

(* The call dies with the process that runs both conversations. *)
ChildStep ==
    /\ Next
    /\ wait' = IF up' \/ wait \notin Unanswered THEN wait ELSE "lost"
    /\ UNCHANGED overdue

DeadlinePasses ==
    /\ up /\ wait \in Unanswered /\ ~overdue
    /\ overdue' = TRUE
    /\ UNCHANGED <<vars, wait>>

(* cancelProcessing: the child's registered run, if it has one. *)
CancelChild ==
    /\ aborted' = IF Finished(slot) THEN aborted ELSE aborted \cup {slot}
    /\ UNCHANGED <<entries, plan, jobs, queue, reaction, slot, turn, process>>

WaitFails == wait' = "failed" /\ CancelChild

(* No run is active: look whether an approval is what it waits for. *)
PollIdle ==
    /\ up /\ wait = "polling" /\ ~overdue /\ Finished(slot)
    /\ wait' = "reading"
    /\ UNCHANGED <<vars, overdue>>

(* Mutant: the deadline is looked at only when no approval is pending. *)
GiveUpUnlessAsked ==
    /\ up /\ wait = "polling" /\ overdue
    /\ \A m \in Member : entry[m] # "requested"
    /\ WaitFails /\ UNCHANGED overdue

GiveUp ==
    /\ up /\ wait = "polling" /\ overdue
    /\ WaitFails /\ UNCHANGED overdue

(* An answer needs a text, which a decision may or may not have beside its *)
(* tool calls.                                                             *)
ReadEntries ==
    /\ up /\ wait = "reading"
    /\ IF \E m \in Member : entry[m] = "requested"
         THEN wait' = "polling" /\ UNCHANGED vars
         ELSE (wait' = "answered" /\ UNCHANGED vars) \/ WaitFails
    /\ UNCHANGED overdue

CallStep == PollIdle \/ GiveUp \/ ReadEntries

SubagentNext == ChildStep \/ DeadlinePasses \/ CallStep

SubagentSpec == SubagentInit /\ [][SubagentNext]_subagentVars

(* What goes on by itself: the child, as in ToolFanIn, and the timer of the *)
(* poll.  Nobody has to approve anything.                                   *)
SubagentWork ==
    \/ Work /\ UNCHANGED <<wait, overdue>>
    \/ CallStep
---------------------------------------------------------------------------
(* runTool's loop: whatever becomes of the child, a stranded member or an   *)
(* approval that nobody gives included, a call that is overdue returns (or  *)
(* the process dies).                                                       *)
CallReturns == overdue ~> (wait \notin Unanswered)

(* What the tool's comment says: "only settle or timeout ends" the wait.    *)
(* Once the call has answered, no continuation starts in the child.         *)
AnswersWhenSettled == [][wait = "answered" => Started' = Started]_subagentVars
=============================================================================
