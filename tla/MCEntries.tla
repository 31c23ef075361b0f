----------------------------- MODULE MCEntries -----------------------------
(* The entry tree and a browser session side by side, for checking.  They   *)
(* share no state here: in a behaviour one of them takes all the steps.     *)
EXTENDS EntryTree, ChatSession, TLC

VARIABLE part    \* what takes the steps: "tree" or "session"

Symmetry == Permutations(Writer) \cup Permutations(Split)

entriesVars == <<part, vars, sessionVars>>

(* A run that goes on from the start is seen by one connection. *)
EntriesInit ==
    /\ part \in {"tree", "session"} /\ Init /\ SessionInit
    /\ opened = IF serverAnchor = 1 THEN MaxOpen - 1 ELSE 0
    /\ part = "tree" => serverAnchor = 2

EntriesNext ==
    \/ part = "tree" /\ Next /\ UNCHANGED <<part, sessionVars>>
    \/ part = "session" /\ SessionNext /\ UNCHANGED <<part, vars>>

EntriesSpec == EntriesInit /\ [][EntriesNext]_entriesVars
=============================================================================
