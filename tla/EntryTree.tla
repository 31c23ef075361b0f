---------------------------- MODULE EntryTree ----------------------------
(* The stored entry tree of one conversation, and "split from here", which  *)
(* moves a subtree into a conversation of its own.                          *)
(*                                                                          *)
(* Writers (runs and their thoughts) append at a cursor they chose earlier; *)
(* view requests move the conversation's anchor; splits plan under the      *)
(* append lock and then commit one batch.  A batch is one action, and so is *)
(* a read; whatever the code awaits between them is another action.         *)
(* Entries are numbered in the order they are appended, 0 is no entry, and  *)
(* a split's target conversation is named after the split.                  *)
EXTENDS Naturals, FiniteSets, FiniteSetsExt

CONSTANTS
    Writer,    \* runs that append to the source conversation
    Viewer,    \* requests that set the default view
    Split,     \* split requests
    MaxEntry,  \* bound on the entries ever appended
    Fault      \* the database calls of a split that may fail

Source == "source"
Conv   == {Source} \cup Split
Gone   == "gone"       \* deleted with its conversation
Unborn == "unborn"
Entry  == 1..MaxEntry

ASSUME EntryTreeAssumption ==
    /\ MaxEntry \in Nat
    /\ Split \cap {Source, Gone, Unborn, "free"} = {}
    /\ Fault \subseteq {"move", "recompute"}

VARIABLES
    born,     \* entries appended so far
    conv,     \* entry -> its conversation_id
    parent,   \* entry -> its parent_id
    index,    \* entry -> its conversation_index
    anchor,   \* conversation -> default_view_leaf_entry_id
    exists,   \* conversations with a row
    writer,   \* writer -> "idle" or "writing"
    cursor,   \* writer -> where its next entry goes
    viewer,   \* view request -> where its handler stands
    choice,   \* view request -> the entry it has checked
    lock,     \* holder of the source's append lock
    split,    \* split -> where its handler stands
    root,     \* split -> the entry it was asked to split at
    plan      \* split -> the moved entries, fork parent and anchor it read

tree    == <<born, conv, parent, index>>
writers == <<writer, cursor>>
splits  == <<lock, split, root, plan>>
views   == <<viewer, choice>>
vars == <<tree, anchor, exists, writers, views, splits>>

Plan == [moved : SUBSET Entry, fork : 0..MaxEntry, anchor : 0..MaxEntry]
NoPlan == [moved |-> {}, fork |-> 0, anchor |-> 0]

TypeOK ==
    /\ born \in 0..MaxEntry
    /\ conv \in [Entry -> Conv \cup {Gone, Unborn}]
    /\ parent \in [Entry -> 0..MaxEntry]
    /\ index \in [Entry -> 0..MaxEntry]
    /\ anchor \in [Conv -> 0..MaxEntry]
    /\ exists \subseteq Conv
    /\ writer \in [Writer -> {"idle", "writing"}]
    /\ cursor \in [Writer -> 0..MaxEntry]
    /\ viewer \in [Viewer -> {"idle", "checked", "done"}]
    /\ choice \in [Viewer -> 0..MaxEntry]
    /\ lock \in Split \cup {"free"}
    /\ split \in [Split -> {"idle", "plan", "move", "recompute",
                            "cleanup", "done", "failed"}]
    /\ root \in [Split -> 0..MaxEntry]
    /\ plan \in [Split -> Plan]

EntriesOf(c) == {e \in Entry : conv[e] = c}
ChildrenOf(S) == {e \in EntriesOf(Source) : parent[e] \in S}

\* The recursive query over parent_id: the least set with r in it and, for
\* every entry in it, that entry's children.
Subtree(r) ==
    {e \in EntriesOf(Source) :
        \A S \in SUBSET EntriesOf(Source) : r \in S /\ ChildrenOf(S) \subseteq S => e \in S}

\* Mutants: the count of the rows, and the highest index itself.
NextIndexCount == Cardinality(EntriesOf(Source))
NextIndexSame ==
    IF EntriesOf(Source) = {} THEN 0
    ELSE Max({index[e] : e \in EntriesOf(Source)})

\* One above the highest index in use, computed inside the INSERT.
NextIndex ==
    IF EntriesOf(Source) = {} THEN 0
    ELSE 1 + Max({index[e] : e \in EntriesOf(Source)})

Init ==
    /\ born = 0
    /\ conv = [e \in Entry |-> Unborn]
    /\ parent = [e \in Entry |-> 0]
    /\ index = [e \in Entry |-> 0]
    /\ anchor = [c \in Conv |-> 0]
    /\ exists = {Source}
    /\ writer = [w \in Writer |-> "idle"]
    /\ cursor = [w \in Writer |-> 0]
    /\ viewer = [v \in Viewer |-> "idle"]
    /\ choice = [v \in Viewer |-> 0]
    /\ lock = "free"
    /\ split = [s \in Split |-> "idle"]
    /\ root = [s \in Split |-> 0]
    /\ plan = [s \in Split |-> NoPlan]

----------------------------------------------------------------------------
(* Writers *)

\* A run decides where it belongs: a message at the entry its client names, a
\* reprocessed thought at its source's parent, the first message at no entry.
StartWriting(w) ==
    /\ writer[w] = "idle"
    /\ \E p \in EntriesOf(Source) \cup {0} :
         /\ p = 0 => \/ EntriesOf(Source) = {}
                     \/ \E e \in EntriesOf(Source) : parent[e] = 0
         /\ cursor' = [cursor EXCEPT ![w] = p]
    /\ writer' = [writer EXCEPT ![w] = "writing"]
    /\ UNCHANGED <<tree, anchor, exists, views, splits>>

\* Mutant: the append does not queue behind a split.
AppendUnlocked(w) ==
    /\ writer[w] = "writing"
    /\ born < MaxEntry
    /\ LET e == born + 1 IN
         /\ born' = e
         /\ conv' = [conv EXCEPT ![e] = Source]
         /\ parent' = [parent EXCEPT ![e] = cursor[w]]
         /\ index' = [index EXCEPT ![e] = NextIndex]
         /\ cursor' = [cursor EXCEPT ![w] = e]
    /\ UNCHANGED <<anchor, exists, writer, views, splits>>

AppendAtCursor(w) ==
    /\ writer[w] = "writing" /\ lock = "free"
    /\ born < MaxEntry
    /\ LET e == born + 1 IN
         /\ born' = e
         /\ conv' = [conv EXCEPT ![e] = Source]
         /\ parent' = [parent EXCEPT ![e] = cursor[w]]
         /\ index' = [index EXCEPT ![e] = NextIndex]
         /\ cursor' = [cursor EXCEPT ![w] = e]
    /\ UNCHANGED <<anchor, exists, writer, views, splits>>

StopWriting(w) ==
    /\ writer[w] = "writing"
    /\ writer' = [writer EXCEPT ![w] = "idle"]
    /\ cursor' = [cursor EXCEPT ![w] = 0]
    /\ UNCHANGED <<tree, anchor, exists, views, splits>>

----------------------------------------------------------------------------
(* The default view: an existence check, then an update; no lock *)

CheckView(v) ==
    /\ viewer[v] = "idle"
    /\ \E e \in EntriesOf(Source) : choice' = [choice EXCEPT ![v] = e]
    /\ viewer' = [viewer EXCEPT ![v] = "checked"]
    /\ UNCHANGED <<tree, anchor, exists, writers, splits>>

SetView(v) ==
    /\ viewer[v] = "checked"
    /\ anchor' = [anchor EXCEPT ![Source] = choice[v]]
    /\ choice' = [choice EXCEPT ![v] = 0]
    /\ viewer' = [viewer EXCEPT ![v] = "done"]
    /\ UNCHANGED <<tree, exists, writers, splits>>

----------------------------------------------------------------------------
(* Splits *)

Goto(s, where) == split' = [split EXCEPT ![s] = where]

\* The entry is there, so a target conversation is created for it.
CreateTarget(s) ==
    /\ split[s] = "idle"
    /\ \E e \in EntriesOf(Source) : root' = [root EXCEPT ![s] = e]
    /\ exists' = exists \cup {s}
    /\ Goto(s, "plan")
    /\ UNCHANGED <<tree, anchor, writers, views, lock, plan>>

\* Under the lock: the root's parent, the anchor and the subtree.  A root that
\* an earlier split took is an error, and the lock is released.
PlanMove(s) ==
    /\ split[s] = "plan" /\ lock = "free"
    /\ IF conv[root[s]] = Source
       THEN /\ plan' = [plan EXCEPT ![s] =
                          [moved  |-> Subtree(root[s]),
                           fork   |-> parent[root[s]],
                           anchor |-> anchor[Source]]]
            /\ lock' = s
            /\ Goto(s, "move")
       ELSE /\ Goto(s, "cleanup")
            /\ UNCHANGED <<plan, lock>>
    /\ UNCHANGED <<tree, anchor, exists, writers, views, root>>

\* Mutants: latest first, and shifted down by what stays behind.
RankDescending(e, moved) == Cardinality({x \in moved : index[x] > index[e]})
RankShifted(e, moved) == index[e] - Cardinality(EntriesOf(Source) \ moved)

\* The place of e among the moved entries, in their order.
Rank(e, moved) == Cardinality({x \in moved : index[x] < index[e]})

\* Mutant: the target takes the source's anchor as it is.
CommitMoveAnchor(s) ==
    LET moved == plan[s].moved
    IN  /\ conv' = [e \in Entry |-> IF e \in moved /\ conv[e] = Source
                                    THEN s ELSE conv[e]]
        /\ index' = [e \in Entry |-> IF e \in moved /\ conv[e] = Source
                                     THEN Rank(e, moved) ELSE index[e]]
        /\ parent' = [parent EXCEPT ![root[s]] = 0]
        /\ anchor' = [anchor EXCEPT ![s] = plan[s].anchor]

CommitMove(s) ==
    LET moved == plan[s].moved
        viewed == plan[s].anchor \in moved
    IN  /\ conv' = [e \in Entry |-> IF e \in moved /\ conv[e] = Source
                                    THEN s ELSE conv[e]]
        /\ index' = [e \in Entry |-> IF e \in moved /\ conv[e] = Source
                                     THEN Rank(e, moved) ELSE index[e]]
        /\ parent' = [parent EXCEPT ![root[s]] = 0]
        /\ anchor' = [anchor EXCEPT
                        ![s] = IF viewed THEN plan[s].anchor ELSE root[s],
                        ![Source] = IF viewed THEN plan[s].fork ELSE @]

Move(s) ==
    /\ split[s] = "move"
    /\ lock' = "free"
    /\ plan' = [plan EXCEPT ![s] = NoPlan]
    /\ \/ CommitMove(s) /\ Goto(s, "recompute")
       \/ /\ "move" \in Fault
          /\ Goto(s, "cleanup")
          /\ UNCHANGED <<conv, index, parent, anchor>>
    /\ UNCHANGED <<born, exists, writers, views, root>>

\* The token totals of both conversations.  Their failure is handled like the
\* move's.
Recompute(s) ==
    /\ split[s] = "recompute"
    /\ \/ Goto(s, "done")
       \/ "recompute" \in Fault /\ Goto(s, "cleanup")
    /\ UNCHANGED <<tree, anchor, exists, writers, views, lock, root, plan>>

\* The target is deleted, and the entries in it with it.
Cleanup(s) ==
    /\ split[s] = "cleanup"
    /\ exists' = exists \ {s}
    /\ conv' = [e \in Entry |-> IF conv[e] = s THEN Gone ELSE conv[e]]
    /\ Goto(s, "failed")
    /\ UNCHANGED <<born, parent, index, anchor, writers, views, lock, root, plan>>

Next ==
    \/ \E w \in Writer : StartWriting(w) \/ AppendAtCursor(w) \/ StopWriting(w)
    \/ \E v \in Viewer : CheckView(v) \/ SetView(v)
    \/ \E s \in Split : \/ CreateTarget(s) \/ PlanMove(s)
                        \/ Move(s) \/ Recompute(s) \/ Cleanup(s)

Spec == Init /\ [][Next]_vars

----------------------------------------------------------------------------
(* Properties *)

\* No two entries of a conversation share an index: the transcript and every
\* lineage are sorted by it (listChatEntries, fetchLineageRows).
IndexIsUnique ==
    \A a, b \in Entry :
        conv[a] = conv[b] /\ conv[a] \in Conv /\ index[a] = index[b] => a = b

\* A parent precedes its children in its conversation's index, so a lineage
\* sorted by index reads from root to leaf, before and after a split.
LineageAscends ==
    \A e \in Entry :
        parent[e] # 0 /\ conv[e] \in Conv /\ conv[parent[e]] = conv[e]
            => index[parent[e]] < index[e]

\* A split that went through leaves one tree in its target: only its root has
\* no parent there, and the target's view starts in it.
TargetIsOneTree ==
    \A s \in Split : split[s] \in {"recompute", "done"} =>
        /\ anchor[s] \in EntriesOf(s)
        /\ \A e \in EntriesOf(s) :
             IF e = root[s] THEN parent[e] = 0
             ELSE parent[e] \in EntriesOf(s)

\* No step parts a child from its parent, the split's own root excepted: what
\* is appended while a split plans is either moved with the rest or was never
\* below the root (the append lock).
FamiliesStayTogether ==
    [][\A e \in Entry :
         parent[e] # 0 /\ parent'[e] = parent[e] /\ conv[e] = conv[parent[e]]
             => conv'[e] = conv'[parent[e]]]_vars

\* Two entries that stay in one conversation keep their order.
OrderIsKept ==
    [][\A a, b \in 1..born :
         conv[a] = conv[b] /\ conv'[a] = conv'[b] /\ index[a] < index[b]
             => index'[a] < index'[b]]_vars

\* "The move failed; don't leave an orphan empty conversation behind": what a
\* failed split deletes is an empty conversation.
SplitLosesNothing == \A e \in Entry : conv[e] # Gone
==========================================================================
