------------------------- MODULE EntryTree_proofs -------------------------
(* Safety of the entry tree and its splits, for any number of writers, view *)
(* requests, splits and entries.                                            *)
EXTENDS EntryTree, FiniteSetTheorems, TLAPS

(* An entry has no place before it is appended, and nothing points to it. *)
BirthInv ==
    /\ \A e \in Entry : /\ conv[e] = Unborn <=> born < e
                        /\ parent[e] <= born
                        /\ born < e => parent[e] = 0
    /\ \A w \in Writer : cursor[w] <= born

(* The source's indexes have gaps where entries left, but never run ahead. *)
IndexInv == \A e \in EntriesOf(Source) : index[e] < e

(* A target is empty until its move, which holds the lock. *)
SplitInv ==
    \A s \in Split :
        /\ split[s] # "idle" => root[s] \in Entry
        /\ split[s] \in {"idle", "plan", "move"} => EntriesOf(s) = {}
        /\ split[s] = "move" => lock = s

(* What was planned under the lock is still a whole subtree of the source. *)
PlanInv ==
    \A s \in Split : split[s] = "move" =>
        /\ root[s] \in plan[s].moved
        /\ plan[s].moved \subseteq EntriesOf(Source)
        /\ \A e \in plan[s].moved \ {root[s]} : parent[e] \in plan[s].moved
        /\ ChildrenOf(plan[s].moved) \subseteq plan[s].moved

IInv ==
    /\ TypeOK /\ BirthInv /\ IndexInv /\ SplitInv /\ PlanInv
    /\ IndexIsUnique /\ LineageAscends /\ TargetIsOneTree
---------------------------------------------------------------------------
(* Numbers and sets *)

\* A finite nonempty set of numbers has a greatest member, and Max is it: the
\* member with the least set of members above it.
LEMMA MaxOf ==
    ASSUME NEW S \in SUBSET Nat, IsFiniteSet(S), S # {}
    PROVE  Max(S) \in S /\ \A x \in S : x <= Max(S)
<1> DEFINE Above(x) == {y \in S : x < y}
           Tops == {Above(x) : x \in S}
<1>1. \E A \in Tops : \A B \in Tops : ~ (<<B, A>> \in StrictSubsetOrdering(S))
  <2>1. IsWellFoundedOn(StrictSubsetOrdering(S), SUBSET S)
    BY FS_StrictSubsetOrderingWellFounded, FS_FiniteSubsetsOfFinite
  <2>2. Tops \subseteq SUBSET S /\ Tops # {}
    OBVIOUS
  <2> QED BY <2>1, <2>2, WFMin
<1>2. PICK m \in S : \A x \in S : ~ (<<Above(x), Above(m)>> \in StrictSubsetOrdering(S))
  BY <1>1
<1>3. \A x \in S : x <= m
  <2> SUFFICES ASSUME NEW x \in S, m < x PROVE FALSE
    OBVIOUS
  <2>1. \A y \in S : x < y => m < y
    <3> SUFFICES ASSUME NEW y \in S, x < y PROVE m < y
      OBVIOUS
    <3>1. m \in Nat /\ x \in Nat /\ y \in Nat OBVIOUS
    <3> QED BY <3>1
  <2>2. Above(x) \subseteq Above(m) BY <2>1
  <2>3. x \in Above(m) /\ x \notin Above(x) OBVIOUS
  <2> QED BY <1>2, <2>2, <2>3 DEF StrictSubsetOrdering
<1> QED BY <1>3 DEF Max

\* Every set of entries is finite.
LEMMA EntriesFinite ==
    ASSUME NEW S \in SUBSET Entry
    PROVE  IsFiniteSet(S) /\ Cardinality(S) \in 0..MaxEntry
<1>1. IsFiniteSet(Entry) /\ Cardinality(Entry) = MaxEntry
  BY FS_Interval, EntryTreeAssumption DEF Entry
<1>2. IsFiniteSet(S) /\ Cardinality(S) <= Cardinality(Entry)
  BY <1>1, FS_Subset
<1> QED BY <1>1, <1>2, FS_CardinalityType, EntryTreeAssumption

\* The next index is above every index in use and no greater than the number
\* of entries ever appended (the COALESCE in appendEntry).
LEMMA NextIndexAbove ==
    ASSUME TypeOK, BirthInv, IndexInv
    PROVE  /\ NextIndex \in 0..born
           /\ \A e \in EntriesOf(Source) : index[e] < NextIndex
<1> DEFINE S == {index[e] : e \in EntriesOf(Source)}
<1>1. CASE EntriesOf(Source) = {}
  BY <1>1 DEF NextIndex, TypeOK
<1>2. CASE EntriesOf(Source) # {}
  <2>1. S \in SUBSET Nat /\ S # {}
    BY <1>2 DEF TypeOK, EntriesOf
  <2>2. IsFiniteSet(S)
    <3>1. \A x \in S : x <= MaxEntry
      BY EntryTreeAssumption DEF TypeOK, EntriesOf
    <3> QED BY <2>1, <3>1, FS_BoundedSetOfNaturals, EntryTreeAssumption
  <2>3. Max(S) \in S /\ \A x \in S : x <= Max(S)
    BY <2>1, <2>2, MaxOf
  <2>4. NextIndex = 1 + Max(S)
    BY <1>2 DEF NextIndex
  <2>5. PICK t \in EntriesOf(Source) : Max(S) = index[t]
    BY <2>3
  <2>6. t \in Nat /\ t <= born /\ index[t] < t /\ index[t] \in Nat /\ born \in Nat
    BY EntryTreeAssumption DEF TypeOK, BirthInv, IndexInv, EntriesOf, Entry, Source, Unborn
  <2>7. \A e \in EntriesOf(Source) : index[e] < 1 + index[t]
    <3> SUFFICES ASSUME NEW e \in EntriesOf(Source) PROVE index[e] < 1 + index[t]
      OBVIOUS
    <3>1. index[e] \in Nat /\ index[e] <= index[t]
      BY <2>1, <2>3, <2>5
    <3> QED BY <3>1, <2>6
  <2> HIDE DEF S
  <2> QED BY <2>4, <2>5, <2>6, <2>7
<1> QED BY <1>1, <1>2

\* A place among the moved entries is a legal index, and places are in the
\* order of the indexes (the renumbering in splitOffSubtree).
LEMMA RankOrdered ==
    ASSUME TypeOK, NEW moved \in SUBSET Entry
    PROVE  /\ \A e \in Entry : Rank(e, moved) \in 0..MaxEntry
           /\ \A a, b \in moved : index[a] < index[b] => Rank(a, moved) < Rank(b, moved)
<1> DEFINE Below(e) == {x \in moved : index[x] < index[e]}
<1>1. \A e \in Entry : IsFiniteSet(Below(e)) /\ Cardinality(Below(e)) \in 0..MaxEntry
  BY EntriesFinite
<1>2. ASSUME NEW a \in moved, NEW b \in moved, index[a] < index[b]
      PROVE  Cardinality(Below(a)) < Cardinality(Below(b))
  <2>1. \A e \in moved : index[e] \in Nat
    BY EntryTreeAssumption DEF TypeOK
  <2>2. Below(a) \subseteq Below(b)
    <3> SUFFICES ASSUME NEW x \in moved, index[x] < index[a] PROVE index[x] < index[b]
      OBVIOUS
    <3> QED BY <1>2, <2>1
  <2>3. a \in Below(b) /\ a \notin Below(a)
    BY <1>2, <2>1
  <2>4. Cardinality(Below(a)) <= Cardinality(Below(b))
        /\ (Cardinality(Below(b)) = Cardinality(Below(a)) => Below(b) = Below(a))
    BY <1>1, <2>2, FS_Subset
  <2>5. Cardinality(Below(a)) \in Nat /\ Cardinality(Below(b)) \in Nat
    BY <1>1, EntryTreeAssumption
  <2> HIDE DEF Below
  <2> QED BY <2>3, <2>4, <2>5
<1> QED BY <1>1, <1>2 DEF Rank

\* What the recursive query returns: the root, entries of the source, each of
\* them but the root with its parent, and all children of each.
LEMMA SubtreeWhole ==
    ASSUME NEW r \in EntriesOf(Source)
    PROVE  /\ Subtree(r) \subseteq EntriesOf(Source)
           /\ r \in Subtree(r)
           /\ ChildrenOf(Subtree(r)) \subseteq Subtree(r)
           /\ \A e \in Subtree(r) \ {r} : parent[e] \in Subtree(r)
<1>1. Subtree(r) \subseteq EntriesOf(Source) /\ r \in Subtree(r)
  BY DEF Subtree
<1>2. ChildrenOf(Subtree(r)) \subseteq Subtree(r)
  <2> SUFFICES ASSUME NEW e \in EntriesOf(Source), parent[e] \in Subtree(r),
                      NEW S \in SUBSET EntriesOf(Source),
                      r \in S, ChildrenOf(S) \subseteq S
               PROVE  e \in S
    BY DEF Subtree, ChildrenOf
  <2>1. parent[e] \in S BY DEF Subtree
  <2> QED BY <2>1 DEF ChildrenOf
<1>3. ASSUME NEW e \in Subtree(r) \ {r}, parent[e] \notin Subtree(r)
      PROVE  FALSE
  <2> DEFINE S == Subtree(r) \ {e}
  <2>1. S \in SUBSET EntriesOf(Source) /\ r \in S
    BY <1>1
  <2>2. ChildrenOf(S) \subseteq S
    BY <1>2, <1>3 DEF ChildrenOf
  <2>3. e \in S
    BY <2>1, <2>2 DEF Subtree
  <2> QED BY <2>3
<1> QED BY <1>1, <1>2, <1>3
---------------------------------------------------------------------------
(* The invariant holds at first, and no action breaks it *)

LEMMA InitInv == Init => IInv
<1> SUFFICES ASSUME Init PROVE IInv
  OBVIOUS
<1>1. TypeOK
  BY EntryTreeAssumption DEF Init, TypeOK, Conv, Plan, NoPlan
<1>2. BirthInv /\ IndexInv /\ SplitInv /\ PlanInv
  BY EntryTreeAssumption DEF Init, BirthInv, IndexInv, SplitInv, PlanInv, EntriesOf,
     Entry, Source, Unborn
<1>3. IndexIsUnique /\ LineageAscends /\ TargetIsOneTree
  BY EntryTreeAssumption DEF Init, IndexIsUnique, LineageAscends, TargetIsOneTree, Conv,
     Source, Unborn
<1> QED BY <1>1, <1>2, <1>3 DEF IInv

\* The actions of writers and viewers that leave the tree alone.
LEMMA BesideInv ==
    ASSUME IInv, UNCHANGED <<tree, splits>>, anchor' \in [Conv -> 0..MaxEntry],
           \A s \in Split : anchor'[s] = anchor[s],
           TypeOK', \A w \in Writer : cursor'[w] <= born
    PROVE  IInv'
<1>1. BirthInv' /\ IndexInv' /\ SplitInv' /\ PlanInv'
  BY DEF IInv, BirthInv, IndexInv, SplitInv, PlanInv, EntriesOf, ChildrenOf, tree, splits
<1>2. IndexIsUnique' /\ LineageAscends' /\ TargetIsOneTree'
  BY DEF IInv, IndexIsUnique, LineageAscends, TargetIsOneTree, EntriesOf, tree, splits
<1> QED BY <1>1, <1>2 DEF IInv

LEMMA WriterInv ==
    ASSUME IInv, NEW w \in Writer, StartWriting(w) \/ StopWriting(w)
    PROVE  IInv'
<1>1. UNCHANGED <<tree, splits>> /\ UNCHANGED <<anchor, views, exists>>
  BY DEF StartWriting, StopWriting
<1>2. TypeOK'
  <2>1. PICK p \in 0..MaxEntry : cursor' = [cursor EXCEPT ![w] = p]
    BY EntryTreeAssumption DEF StartWriting, StopWriting, EntriesOf, Entry
  <2>2. writer' \in [Writer -> {"idle", "writing"}]
    BY DEF IInv, TypeOK, StartWriting, StopWriting
  <2> QED BY <1>1, <2>1, <2>2 DEF IInv, TypeOK, tree, splits, views
<1>3. \A x \in Writer : cursor'[x] <= born
  <2>1. \A p \in EntriesOf(Source) \cup {0} : p <= born
    BY EntryTreeAssumption DEF IInv, TypeOK, BirthInv, EntriesOf, Entry, Source, Unborn
  <2> QED BY <2>1, EntryTreeAssumption DEF IInv, TypeOK, BirthInv, StartWriting, StopWriting
<1> QED BY <1>1, <1>2, <1>3, BesideInv DEF IInv, TypeOK

LEMMA ViewerInv ==
    ASSUME IInv, NEW v \in Viewer, CheckView(v) \/ SetView(v)
    PROVE  IInv'
<1>1. UNCHANGED <<tree, splits>> /\ UNCHANGED <<writers, exists>>
  BY DEF CheckView, SetView
<1>2. TypeOK'
  <2>1. ASSUME CheckView(v) PROVE TypeOK'
    <3>1. PICK e \in Entry : choice' = [choice EXCEPT ![v] = e]
      BY <2>1 DEF CheckView, EntriesOf
    <3>2. e \in 0..MaxEntry
      BY EntryTreeAssumption DEF Entry
    <3> QED BY <2>1, <3>1, <3>2 DEF IInv, TypeOK, CheckView, tree, splits, writers
  <2>2. ASSUME SetView(v) PROVE TypeOK'
    <3>1. Source \in Conv /\ 0 \in 0..MaxEntry
      BY EntryTreeAssumption DEF Conv
    <3> QED BY <2>2, <3>1 DEF IInv, TypeOK, SetView, tree, splits, writers
  <2> QED BY <2>1, <2>2
<1>3. \A s \in Split : anchor'[s] = anchor[s]
  BY EntryTreeAssumption DEF IInv, TypeOK, CheckView, SetView, Conv
<1>4. \A x \in Writer : cursor'[x] <= born
  BY <1>1 DEF IInv, BirthInv, writers
<1> QED BY <1>1, <1>2, <1>3, <1>4, BesideInv DEF TypeOK

\* An append takes a new entry and an index above all others; it waits while
\* a split is between its plan and its move.
LEMMA AppendInv ==
    ASSUME IInv, NEW w \in Writer, AppendAtCursor(w)
    PROVE  IInv'
<1> DEFINE n == born + 1
<1>1. /\ n \in Entry /\ born' = n /\ lock = "free"
      /\ conv' = [conv EXCEPT ![n] = Source]
      /\ parent' = [parent EXCEPT ![n] = cursor[w]]
      /\ index' = [index EXCEPT ![n] = NextIndex]
      /\ cursor' = [cursor EXCEPT ![w] = n]
      /\ UNCHANGED <<anchor, exists, writer, views, splits>>
  BY EntryTreeAssumption DEF AppendAtCursor, IInv, TypeOK, Entry
<1>2. /\ born \in Nat /\ conv[n] = Unborn /\ cursor[w] \in 0..MaxEntry /\ cursor[w] <= born
      /\ conv \in [Entry -> Conv \cup {Gone, Unborn}]
      /\ parent \in [Entry -> 0..MaxEntry] /\ index \in [Entry -> 0..MaxEntry]
      /\ cursor \in [Writer -> 0..MaxEntry]
  BY <1>1, EntryTreeAssumption DEF IInv, TypeOK, BirthInv
<1>3. /\ NextIndex \in 0..born
      /\ \A e \in EntriesOf(Source) : index[e] < NextIndex
  BY NextIndexAbove DEF IInv
<1>4. \A c \in Conv : EntriesOf(c)' = IF c = Source THEN EntriesOf(c) \cup {n} ELSE EntriesOf(c)
  BY <1>1, <1>2, EntryTreeAssumption DEF EntriesOf, Conv, Source, Unborn
<1>5. TypeOK'
  BY <1>1, <1>2, <1>3, EntryTreeAssumption DEF IInv, TypeOK, Conv, Entry, views, splits
<1>6. BirthInv'
  <2>1. ASSUME NEW e \in Entry
        PROVE  /\ conv'[e] = Unborn <=> n < e
               /\ parent'[e] <= n
               /\ n < e => parent'[e] = 0
    BY <1>1, <1>2, EntryTreeAssumption DEF IInv, BirthInv, TypeOK, Entry, Source, Unborn
  <2>2. \A x \in Writer : cursor'[x] <= n
    BY <1>1, <1>2, EntryTreeAssumption DEF IInv, BirthInv
  <2> QED BY <1>1, <2>1, <2>2 DEF BirthInv
<1>7. IndexInv'
  BY <1>1, <1>2, <1>3, <1>4, EntryTreeAssumption DEF IInv, IndexInv, Conv, EntriesOf, Entry
<1>8. SplitInv' /\ PlanInv'
  <2>1. \A s \in Split : s # Source /\ s \in Conv
    BY EntryTreeAssumption DEF Conv
  <2>2. SplitInv'
    BY <1>1, <1>4, <2>1 DEF IInv, SplitInv, splits
  <2>3. \A s \in Split : split[s] # "move"
    BY <1>1, EntryTreeAssumption DEF IInv, SplitInv
  <2> QED BY <1>1, <2>2, <2>3 DEF PlanInv, splits
<1>9. IndexIsUnique'
  <2> SUFFICES ASSUME NEW a \in Entry, NEW b \in Entry, conv'[a] = conv'[b],
                      conv'[a] \in Conv, index'[a] = index'[b]
               PROVE  a = b
    BY DEF IndexIsUnique
  <2>1. CASE a # n /\ b # n
    BY <2>1, <1>1, <1>2 DEF IInv, IndexIsUnique
  <2>2. CASE a = n /\ b # n
    <3>1. b \in EntriesOf(Source) /\ index[b] = NextIndex
      BY <2>2, <1>1, <1>2 DEF EntriesOf
    <3> QED BY <3>1, <1>2, <1>3
  <2>3. CASE a # n /\ b = n
    <3>1. a \in EntriesOf(Source) /\ index[a] = NextIndex
      BY <2>3, <1>1, <1>2 DEF EntriesOf
    <3> QED BY <3>1, <1>2, <1>3
  <2> QED BY <2>1, <2>2, <2>3
<1>10. LineageAscends'
  <2> SUFFICES ASSUME NEW e \in Entry, parent'[e] # 0, conv'[e] \in Conv,
                      conv'[parent'[e]] = conv'[e]
               PROVE  index'[parent'[e]] < index'[e]
    BY DEF LineageAscends
  <2>1. parent'[e] \in Entry /\ parent'[e] # n
    BY <1>1, <1>2, EntryTreeAssumption DEF IInv, BirthInv, Entry
  <2>2. CASE e = n
    <3>1. parent'[e] \in EntriesOf(Source)
      BY <2>1, <2>2, <1>1, <1>2 DEF EntriesOf
    <3> QED BY <2>1, <2>2, <3>1, <1>1, <1>2, <1>3
  <2>3. CASE e # n
    BY <2>1, <2>3, <1>1, <1>2 DEF IInv, LineageAscends
  <2> QED BY <2>2, <2>3
<1>11. TargetIsOneTree'
  <2>1. \A s \in Split : s # Source /\ s \in Conv
    BY EntryTreeAssumption DEF Conv
  <2>2. \A s \in Split : n \notin EntriesOf(s)
    BY <1>2, EntryTreeAssumption DEF EntriesOf
  <2>3. \A s \in Split : EntriesOf(s)' = EntriesOf(s)
    BY <2>1, <1>4
  <2>4. \A s \in Split : \A e \in EntriesOf(s) : parent'[e] = parent[e]
    BY <1>1, <1>2, <2>2 DEF EntriesOf
  <2> QED BY <1>1, <2>3, <2>4 DEF IInv, TargetIsOneTree, splits
<1> QED BY <1>5, <1>6, <1>7, <1>8, <1>9, <1>10, <1>11 DEF IInv

LEMMA CreateTargetInv ==
    ASSUME IInv, NEW s \in Split, CreateTarget(s)
    PROVE  IInv'
<1>1. PICK r \in EntriesOf(Source) : root' = [root EXCEPT ![s] = r]
  BY DEF CreateTarget
<1>2. /\ split[s] = "idle" /\ split' = [split EXCEPT ![s] = "plan"]
      /\ r \in Entry /\ r \in 0..MaxEntry
      /\ UNCHANGED <<tree, anchor, writers, views, lock, plan>>
  BY EntryTreeAssumption DEF CreateTarget, Goto, EntriesOf, Entry
<1>3. TypeOK'
  BY <1>1, <1>2 DEF IInv, TypeOK, CreateTarget, Conv, tree, writers, views
<1>4. BirthInv' /\ IndexInv' /\ IndexIsUnique' /\ LineageAscends'
  BY <1>2 DEF IInv, BirthInv, IndexInv, IndexIsUnique, LineageAscends, EntriesOf, tree, writers
<1>5. SplitInv' /\ PlanInv' /\ TargetIsOneTree'
  BY <1>1, <1>2 DEF IInv, TypeOK, SplitInv, PlanInv, TargetIsOneTree, EntriesOf, ChildrenOf, tree
<1> QED BY <1>3, <1>4, <1>5 DEF IInv

\* The plan is read under the lock, so no other split has one.
LEMMA PlanMoveInv ==
    ASSUME IInv, NEW s \in Split, PlanMove(s)
    PROVE  IInv'
<1>1. /\ split[s] = "plan" /\ lock = "free" /\ root[s] \in Entry
      /\ UNCHANGED <<tree, anchor, exists, writers, views, root>>
  BY DEF PlanMove, IInv, SplitInv
<1>2. \A x \in Split : split[x] # "move"
  BY <1>1, EntryTreeAssumption DEF IInv, SplitInv
<1>3. BirthInv' /\ IndexInv' /\ IndexIsUnique' /\ LineageAscends'
  BY <1>1 DEF IInv, BirthInv, IndexInv, IndexIsUnique, LineageAscends, EntriesOf, tree, writers
<1>4. CASE conv[root[s]] = Source
  <2> DEFINE p == [moved |-> Subtree(root[s]), fork |-> parent[root[s]],
                   anchor |-> anchor[Source]]
  <2>1. /\ plan' = [plan EXCEPT ![s] = p] /\ lock' = s
        /\ split' = [split EXCEPT ![s] = "move"]
    BY <1>4 DEF PlanMove, Goto
  <2>2. /\ p.moved \subseteq EntriesOf(Source) /\ root[s] \in p.moved
        /\ ChildrenOf(p.moved) \subseteq p.moved
        /\ \A e \in p.moved \ {root[s]} : parent[e] \in p.moved
    BY <1>1, <1>4, SubtreeWhole DEF EntriesOf
  <2>3. p \in Plan
    BY <1>1, <2>2 DEF IInv, TypeOK, Plan, EntriesOf, Conv
  <2> HIDE DEF p
  <2>4. TypeOK'
    BY <1>1, <2>1, <2>3 DEF IInv, TypeOK, tree, writers, views
  <2>5. SplitInv' /\ TargetIsOneTree'
    BY <1>1, <1>2, <2>1 DEF IInv, TypeOK, SplitInv, TargetIsOneTree, EntriesOf, tree
  <2>6. PlanInv'
    BY <1>1, <1>2, <2>1, <2>2 DEF IInv, TypeOK, PlanInv, EntriesOf, ChildrenOf, tree
  <2> QED BY <1>3, <2>4, <2>5, <2>6 DEF IInv
<1>5. CASE conv[root[s]] # Source
  <2>1. split' = [split EXCEPT ![s] = "cleanup"] /\ UNCHANGED <<plan, lock>>
    BY <1>5 DEF PlanMove, Goto
  <2>2. TypeOK'
    BY <1>1, <2>1 DEF IInv, TypeOK, tree, writers, views
  <2>3. \A x \in Split : split'[x] # "move"
    BY <1>2, <2>1 DEF IInv, TypeOK
  <2>4. SplitInv' /\ TargetIsOneTree'
    BY <1>1, <2>1, <2>3 DEF IInv, TypeOK, SplitInv, TargetIsOneTree, EntriesOf, tree
  <2> QED BY <1>3, <2>2, <2>3, <2>4 DEF IInv, PlanInv
<1> QED BY <1>4, <1>5

\* What a committed move does, in the terms its plan guarantees: exactly the
\* planned entries change their conversation and index.
LEMMA CommitFacts ==
    ASSUME IInv, NEW s \in Split, split[s] = "move", CommitMove(s)
    PROVE  LET moved == plan[s].moved IN
           /\ lock = s /\ moved \subseteq EntriesOf(Source) /\ EntriesOf(s) = {}
           /\ root[s] \in moved
           /\ \A e \in moved \ {root[s]} : parent[e] \in moved
           /\ \A e \in EntriesOf(Source) : parent[e] \in moved => e \in moved
           /\ conv' = [e \in Entry |-> IF e \in moved THEN s ELSE conv[e]]
           /\ index' = [e \in Entry |-> IF e \in moved THEN Rank(e, moved) ELSE index[e]]
           /\ parent' = [parent EXCEPT ![root[s]] = 0]
           /\ EntriesOf(s)' = moved
<1> DEFINE moved == plan[s].moved
<1>1. /\ lock = s /\ moved \subseteq EntriesOf(Source) /\ EntriesOf(s) = {}
      /\ root[s] \in moved
      /\ \A e \in moved \ {root[s]} : parent[e] \in moved
      /\ ChildrenOf(moved) \subseteq moved
  BY DEF IInv, SplitInv, PlanInv
<1>2. \A e \in moved : e \in Entry /\ conv[e] = Source
  BY <1>1 DEF EntriesOf
<1>3. conv' = [e \in Entry |-> IF e \in moved THEN s ELSE conv[e]]
  BY <1>2 DEF CommitMove
<1>4. index' = [e \in Entry |-> IF e \in moved THEN Rank(e, moved) ELSE index[e]]
  BY <1>2 DEF CommitMove
<1>5. EntriesOf(s)' = moved
  BY <1>1, <1>2, <1>3 DEF EntriesOf
<1>6. \A e \in EntriesOf(Source) : parent[e] \in moved => e \in moved
  BY <1>1 DEF ChildrenOf
<1> QED BY <1>1, <1>3, <1>4, <1>5, <1>6 DEF CommitMove

\* The batch of a split: what moves keeps its order and its parents, what
\* stays is as it was.
LEMMA CommittedInv ==
    ASSUME IInv, NEW s \in Split, Move(s), CommitMove(s), Goto(s, "recompute")
    PROVE  IInv'
<1> DEFINE moved == plan[s].moved
<1>1. /\ split[s] = "move" /\ lock' = "free" /\ born' = born
      /\ plan' = [plan EXCEPT ![s] = NoPlan] /\ split' = [split EXCEPT ![s] = "recompute"]
      /\ UNCHANGED <<exists, writers, views, root>>
  BY DEF Move, Goto
<1>2. /\ lock = s /\ moved \subseteq EntriesOf(Source) /\ EntriesOf(s) = {}
      /\ root[s] \in moved
      /\ \A e \in moved \ {root[s]} : parent[e] \in moved
      /\ \A e \in EntriesOf(Source) : parent[e] \in moved => e \in moved
      /\ conv' = [e \in Entry |-> IF e \in moved THEN s ELSE conv[e]]
      /\ index' = [e \in Entry |-> IF e \in moved THEN Rank(e, moved) ELSE index[e]]
      /\ parent' = [parent EXCEPT ![root[s]] = 0]
      /\ EntriesOf(s)' = moved
  BY <1>1, CommitFacts
<1>3. /\ moved \in SUBSET Entry
      /\ \A e \in moved : conv[e] = Source
      /\ s # Source /\ s # Unborn /\ s # Gone /\ s \in Conv
      /\ parent \in [Entry -> 0..MaxEntry] /\ index \in [Entry -> 0..MaxEntry]
      /\ born \in Nat
  BY <1>2, EntryTreeAssumption DEF EntriesOf, Conv, IInv, TypeOK
<1>4. /\ \A e \in Entry : Rank(e, moved) \in 0..MaxEntry
      /\ \A a, b \in moved : index[a] < index[b] => Rank(a, moved) < Rank(b, moved)
  BY <1>3, RankOrdered DEF IInv
<1>5. \A x \in Split : x # s => split'[x] = split[x] /\ split[x] # "move"
  BY <1>1, <1>2, EntryTreeAssumption DEF IInv, TypeOK, SplitInv
<1>6. \A x \in Split : x # s => EntriesOf(x)' = EntriesOf(x)
  BY <1>2, <1>3, EntryTreeAssumption DEF EntriesOf
<1>7. /\ anchor' \in [Conv -> 0..MaxEntry] /\ anchor'[s] \in moved
      /\ \A x \in Split : x # s => anchor'[x] = anchor[x]
  <2>1. /\ root[s] \in 0..MaxEntry /\ plan[s].fork \in 0..MaxEntry
        /\ plan[s].anchor \in 0..MaxEntry
    BY DEF IInv, TypeOK, Plan
  <2>2. \A x \in Split : x # Source /\ x \in Conv
    BY EntryTreeAssumption DEF Conv
  <2> QED BY <1>2, <1>3, <2>1, <2>2 DEF CommitMove, IInv, TypeOK, Conv
<1>8. TypeOK'
  <2>1. NoPlan \in Plan
    BY EntryTreeAssumption DEF NoPlan, Plan
  <2>2. conv' \in [Entry -> Conv \cup {Gone, Unborn}]
    BY <1>2, <1>3 DEF IInv, TypeOK
  <2>3. index' \in [Entry -> 0..MaxEntry]
    BY <1>2, <1>3, <1>4
  <2>4. parent' \in [Entry -> 0..MaxEntry]
    BY <1>2, <1>3, EntryTreeAssumption
  <2> QED BY <1>1, <1>7, <2>1, <2>2, <2>3, <2>4 DEF IInv, TypeOK, writers, views
<1>9. BirthInv'
  <2>1. ASSUME NEW e \in Entry
        PROVE  /\ conv'[e] = Unborn <=> born < e
               /\ parent'[e] <= born
               /\ born < e => parent'[e] = 0
    BY <1>2, <1>3 DEF IInv, BirthInv, Source, Unborn
  <2> QED BY <1>1, <2>1 DEF IInv, BirthInv, writers
<1>10. IndexInv'
  BY <1>2, <1>3 DEF IInv, IndexInv, EntriesOf
<1>11. SplitInv' /\ PlanInv'
  <2>1. \A x \in Split : split'[x] # "move"
    BY <1>1, <1>5 DEF IInv, TypeOK
  <2>2. SplitInv'
    BY <1>1, <1>5, <1>6, <2>1 DEF IInv, TypeOK, SplitInv
  <2> QED BY <2>1, <2>2 DEF PlanInv
<1>12. IndexIsUnique'
  <2> SUFFICES ASSUME NEW a \in Entry, NEW b \in Entry, conv'[a] = conv'[b],
                      conv'[a] \in Conv, index'[a] = index'[b]
               PROVE  a = b
    BY DEF IndexIsUnique
  <2>1. a \in moved <=> b \in moved
    BY <1>2, <1>3 DEF EntriesOf
  <2>2. CASE a \in moved
    <3>1. index'[a] = Rank(a, moved) /\ index'[b] = Rank(b, moved)
      BY <1>2, <2>1, <2>2
    <3>2. conv[a] = Source /\ conv[b] = Source /\ Source \in Conv
      BY <1>3, <2>1, <2>2 DEF Conv
    <3>3. /\ index[a] \in 0..MaxEntry /\ index[b] \in 0..MaxEntry
          /\ Rank(a, moved) \in 0..MaxEntry /\ Rank(b, moved) \in 0..MaxEntry
      BY <1>3, <1>4
    <3>4. ~ (index[a] < index[b]) /\ ~ (index[b] < index[a])
      <4>1. Rank(a, moved) = Rank(b, moved)
        BY <3>1
      <4>2. ~ (Rank(a, moved) < Rank(b, moved)) /\ ~ (Rank(b, moved) < Rank(a, moved))
        BY <3>3, <4>1, EntryTreeAssumption
      <4> QED BY <1>4, <2>1, <2>2, <4>2
    <3>5. index[a] = index[b]
      BY <3>3, <3>4, EntryTreeAssumption
    <3> QED BY <3>2, <3>5 DEF IInv, IndexIsUnique
  <2>3. CASE a \notin moved
    BY <1>2, <2>1, <2>3 DEF IInv, IndexIsUnique
  <2> QED BY <2>2, <2>3
<1>13. LineageAscends'
  <2> SUFFICES ASSUME NEW e \in Entry, parent'[e] # 0, conv'[e] \in Conv,
                      conv'[parent'[e]] = conv'[e]
               PROVE  index'[parent'[e]] < index'[e]
    BY DEF LineageAscends
  <2>1. parent'[e] = parent[e] /\ parent[e] \in Entry
    BY <1>2, <1>3, EntryTreeAssumption DEF Entry
  <2>2. e \in moved <=> parent[e] \in moved
    BY <1>2, <1>3, <2>1 DEF EntriesOf
  <2>3. index[parent[e]] < index[e]
    BY <1>2, <1>3, <2>1, <2>2 DEF IInv, LineageAscends, Conv
  <2>4. CASE e \in moved
    BY <1>2, <1>4, <2>1, <2>2, <2>3, <2>4
  <2>5. CASE e \notin moved
    BY <1>2, <2>1, <2>2, <2>3, <2>5
  <2> QED BY <2>4, <2>5
<1>14. TargetIsOneTree'
  <2> SUFFICES ASSUME NEW x \in Split, split'[x] \in {"recompute", "done"}
               PROVE  /\ anchor'[x] \in EntriesOf(x)'
                      /\ \A e \in EntriesOf(x)' : IF e = root'[x] THEN parent'[e] = 0
                                                  ELSE parent'[e] \in EntriesOf(x)'
    BY DEF TargetIsOneTree
  <2>1. CASE x = s
    BY <1>1, <1>2, <1>3, <1>7, <2>1
  <2>2. CASE x # s
    <3>1. \A e \in EntriesOf(x) : e \in Entry /\ e # root[s]
      BY <1>2, <1>3, EntryTreeAssumption DEF EntriesOf
    <3>2. \A e \in EntriesOf(x) : parent'[e] = parent[e]
      BY <1>2, <1>3, <3>1
    <3> QED BY <1>1, <1>5, <1>6, <1>7, <2>2, <3>2 DEF IInv, TargetIsOneTree
  <2> QED BY <2>1, <2>2
<1> QED BY <1>8, <1>9, <1>10, <1>11, <1>12, <1>13, <1>14 DEF IInv

LEMMA FailedMoveInv ==
    ASSUME IInv, NEW s \in Split, Move(s), Goto(s, "cleanup"),
           UNCHANGED <<conv, index, parent, anchor>>
    PROVE  IInv'
<1>1. /\ split[s] = "move" /\ lock' = "free"
      /\ plan' = [plan EXCEPT ![s] = NoPlan] /\ split' = [split EXCEPT ![s] = "cleanup"]
      /\ UNCHANGED <<tree, anchor, exists, writers, views, root>>
  BY DEF Move, Goto, tree
<1>2. NoPlan \in Plan
  BY EntryTreeAssumption DEF NoPlan, Plan
<1>3. TypeOK'
  BY <1>1, <1>2 DEF IInv, TypeOK, tree, writers, views
<1>4. BirthInv' /\ IndexInv' /\ IndexIsUnique' /\ LineageAscends'
  BY <1>1 DEF IInv, BirthInv, IndexInv, IndexIsUnique, LineageAscends, EntriesOf, tree, writers
<1>5. \A x \in Split : split'[x] # "move"
  BY <1>1 DEF IInv, TypeOK, SplitInv
<1>6. SplitInv' /\ TargetIsOneTree'
  BY <1>1, <1>5 DEF IInv, TypeOK, SplitInv, TargetIsOneTree, EntriesOf, tree
<1> QED BY <1>3, <1>4, <1>5, <1>6 DEF IInv, PlanInv

LEMMA RecomputeInv ==
    ASSUME IInv, NEW s \in Split, Recompute(s)
    PROVE  IInv'
<1>1. PICK where \in {"done", "cleanup"} : split' = [split EXCEPT ![s] = where]
  BY DEF Recompute, Goto
<1>2. /\ split[s] = "recompute"
      /\ UNCHANGED <<tree, anchor, exists, writers, views, lock, root, plan>>
  BY DEF Recompute
<1>3. TypeOK'
  BY <1>1, <1>2 DEF IInv, TypeOK, tree, writers, views
<1>4. BirthInv' /\ IndexInv' /\ IndexIsUnique' /\ LineageAscends'
  BY <1>2 DEF IInv, BirthInv, IndexInv, IndexIsUnique, LineageAscends, EntriesOf, tree, writers
<1>5. SplitInv'
  BY <1>1, <1>2 DEF IInv, TypeOK, SplitInv, EntriesOf, tree
<1>6. PlanInv'
  BY <1>1, <1>2 DEF IInv, TypeOK, PlanInv, EntriesOf, ChildrenOf, tree
<1>7. TargetIsOneTree'
  BY <1>1, <1>2 DEF IInv, TypeOK, TargetIsOneTree, EntriesOf, tree
<1> QED BY <1>3, <1>4, <1>5, <1>6, <1>7 DEF IInv

\* Deleting the target takes entries away from it and from nobody else.
LEMMA CleanupInv ==
    ASSUME IInv, NEW s \in Split, Cleanup(s)
    PROVE  IInv'
<1>1. /\ split[s] = "cleanup" /\ split' = [split EXCEPT ![s] = "failed"]
      /\ exists' = exists \ {s}
      /\ conv' = [e \in Entry |-> IF conv[e] = s THEN Gone ELSE conv[e]]
      /\ UNCHANGED <<born, parent, index, anchor, writers, views, lock, root, plan>>
  BY DEF Cleanup, Goto
<1>2. \A x \in Split : x # Source /\ x # Gone /\ x # Unborn /\ x \in Conv
  BY EntryTreeAssumption DEF Conv
<1>3. Gone \notin Conv /\ Gone # Unborn
  BY EntryTreeAssumption DEF Conv, Gone, Unborn, Source
<1>4. \A c \in Conv : EntriesOf(c)' = IF c = s THEN {} ELSE EntriesOf(c)
  BY <1>1, <1>3 DEF EntriesOf
<1>5. EntriesOf(Source)' = EntriesOf(Source)
  BY <1>2, <1>4 DEF Conv
<1>6. TypeOK'
  BY <1>1 DEF IInv, TypeOK, writers, views
<1>7. BirthInv' /\ IndexInv'
  <2>1. \A e \in Entry : conv'[e] = Unborn <=> conv[e] = Unborn
    BY <1>1, <1>2, <1>3
  <2> QED BY <1>1, <1>5, <2>1 DEF IInv, BirthInv, IndexInv, writers
<1>8. SplitInv'
  BY <1>1, <1>2, <1>4 DEF IInv, TypeOK, SplitInv
<1>9. PlanInv'
  BY <1>1, <1>5 DEF IInv, TypeOK, PlanInv, ChildrenOf
<1>10. IndexIsUnique' /\ LineageAscends'
  <2>1. \A e \in Entry : conv'[e] \in Conv => conv[e] = conv'[e]
    BY <1>1, <1>3
  <2>2. IndexIsUnique'
    BY <1>1, <2>1 DEF IInv, IndexIsUnique
  <2>3. ASSUME NEW e \in Entry, parent[e] # 0, conv'[e] \in Conv, conv'[parent[e]] = conv'[e]
        PROVE  index[parent[e]] < index[e]
    <3>1. parent[e] \in Entry
      BY <2>3, EntryTreeAssumption DEF IInv, TypeOK, Entry
    <3> QED BY <2>1, <2>3, <3>1 DEF IInv, LineageAscends
  <2> QED BY <1>1, <2>2, <2>3 DEF LineageAscends
<1>11. TargetIsOneTree'
  <2>1. \A x \in Split : split'[x] \in {"recompute", "done"} =>
          x # s /\ split[x] = split'[x] /\ EntriesOf(x)' = EntriesOf(x)
    BY <1>1, <1>2, <1>4 DEF IInv, TypeOK
  <2> QED BY <1>1, <2>1 DEF IInv, TargetIsOneTree
<1> QED BY <1>6, <1>7, <1>8, <1>9, <1>10, <1>11 DEF IInv

LEMMA StepInv == IInv /\ [Next]_vars => IInv'
<1> SUFFICES ASSUME IInv, [Next]_vars PROVE IInv'
  OBVIOUS
<1>1. CASE UNCHANGED vars
  <2>1. TypeOK' /\ BirthInv' /\ IndexInv' /\ SplitInv' /\ PlanInv'
    BY <1>1 DEF IInv, TypeOK, BirthInv, IndexInv, SplitInv, PlanInv, EntriesOf, ChildrenOf,
       vars, tree, writers, views, splits
  <2>2. IndexIsUnique' /\ LineageAscends' /\ TargetIsOneTree'
    BY <1>1 DEF IInv, IndexIsUnique, LineageAscends, TargetIsOneTree, EntriesOf,
       vars, tree, splits
  <2> QED BY <2>1, <2>2 DEF IInv
<1>2. ASSUME NEW w \in Writer, StartWriting(w) \/ AppendAtCursor(w) \/ StopWriting(w)
      PROVE  IInv'
  BY <1>2, WriterInv, AppendInv
<1>3. ASSUME NEW v \in Viewer, CheckView(v) \/ SetView(v)
      PROVE  IInv'
  BY <1>3, ViewerInv
<1>4. ASSUME NEW s \in Split, Move(s)
      PROVE  IInv'
  <2>1. CASE CommitMove(s) /\ Goto(s, "recompute")
    BY <1>4, <2>1, CommittedInv
  <2>2. CASE Goto(s, "cleanup") /\ UNCHANGED <<conv, index, parent, anchor>>
    BY <1>4, <2>2, FailedMoveInv
  <2> QED BY <1>4, <2>1, <2>2 DEF Move
<1>5. ASSUME NEW s \in Split, CreateTarget(s) \/ PlanMove(s) \/ Recompute(s) \/ Cleanup(s)
      PROVE  IInv'
  BY <1>5, CreateTargetInv, PlanMoveInv, RecomputeInv, CleanupInv
<1> QED BY <1>1, <1>2, <1>3, <1>4, <1>5 DEF Next

LEMMA Invariance == Spec => []IInv
BY InitInv, StepInv, PTL DEF Spec

\* Only an append, a committed move and a clean-up touch the tree.
LEMMA TreeSteps ==
    ASSUME IInv, [Next]_vars
    PROVE  \/ UNCHANGED <<conv, parent, index>>
           \/ \E w \in Writer : AppendAtCursor(w)
           \/ \E s \in Split : split[s] = "move" /\ CommitMove(s) /\ born' = born
           \/ \E s \in Split : Cleanup(s)
<1>1. CASE UNCHANGED vars
  BY <1>1 DEF vars, tree
<1>2. ASSUME NEW w \in Writer, StartWriting(w) \/ StopWriting(w)
      PROVE  UNCHANGED <<conv, parent, index>>
  BY <1>2 DEF StartWriting, StopWriting, tree
<1>3. ASSUME NEW v \in Viewer, CheckView(v) \/ SetView(v)
      PROVE  UNCHANGED <<conv, parent, index>>
  BY <1>3 DEF CheckView, SetView, tree
<1>4. ASSUME NEW s \in Split, CreateTarget(s) \/ PlanMove(s) \/ Recompute(s)
      PROVE  UNCHANGED <<conv, parent, index>>
  BY <1>4 DEF CreateTarget, PlanMove, Recompute, tree
<1>5. ASSUME NEW s \in Split, Move(s)
      PROVE  \/ UNCHANGED <<conv, parent, index>>
             \/ split[s] = "move" /\ CommitMove(s) /\ born' = born
  BY <1>5 DEF Move
<1> QED BY <1>1, <1>2, <1>3, <1>4, <1>5 DEF Next

\* The step that FamiliesStayTogether allows.
LEMMA FamilyStep ==
    ASSUME IInv, [Next]_vars, NEW e \in Entry,
           parent[e] # 0, parent'[e] = parent[e], conv[e] = conv[parent[e]]
    PROVE  conv'[e] = conv'[parent[e]]
<1> DEFINE p == parent[e]
<1>1. p \in Entry /\ p <= born /\ born \in Nat /\ e <= born
  BY EntryTreeAssumption DEF IInv, TypeOK, BirthInv, Entry
<1>2. ASSUME NEW w \in Writer, AppendAtCursor(w)
      PROVE  conv'[e] = conv'[p]
  BY <1>1, <1>2 DEF AppendAtCursor, IInv, TypeOK
<1>3. ASSUME NEW s \in Split, split[s] = "move", CommitMove(s)
      PROVE  conv'[e] = conv'[p]
  <2> DEFINE moved == plan[s].moved
  <2>1. /\ \A x \in moved \ {root[s]} : parent[x] \in moved
        /\ \A x \in EntriesOf(Source) : parent[x] \in moved => x \in moved
        /\ moved \subseteq EntriesOf(Source) /\ root[s] \in moved
        /\ conv' = [x \in Entry |-> IF x \in moved THEN s ELSE conv[x]]
        /\ parent' = [parent EXCEPT ![root[s]] = 0]
    BY <1>3, CommitFacts
  <2>2. e # root[s]
    BY <2>1 DEF IInv, TypeOK
  <2>3. e \in moved <=> p \in moved
    BY <2>1, <2>2, <1>1 DEF EntriesOf
  <2> QED BY <1>1, <2>1, <2>3
<1>4. ASSUME NEW s \in Split, Cleanup(s)
      PROVE  conv'[e] = conv'[p]
  BY <1>1, <1>4 DEF Cleanup
<1> QED BY <1>2, <1>3, <1>4, TreeSteps

\* The step that OrderIsKept allows.
LEMMA OrderStep ==
    ASSUME IInv, [Next]_vars, NEW a \in 1..born, NEW b \in 1..born,
           conv[a] = conv[b], conv'[a] = conv'[b], index[a] < index[b]
    PROVE  index'[a] < index'[b]
<1>1. a \in Entry /\ b \in Entry /\ a <= born /\ b <= born /\ born \in Nat
  BY EntryTreeAssumption DEF IInv, TypeOK, Entry
<1>2. ASSUME NEW w \in Writer, AppendAtCursor(w)
      PROVE  index'[a] < index'[b]
  BY <1>1, <1>2 DEF AppendAtCursor, IInv, TypeOK
<1>3. ASSUME NEW s \in Split, split[s] = "move", CommitMove(s)
      PROVE  index'[a] < index'[b]
  <2> DEFINE moved == plan[s].moved
  <2>1. /\ moved \subseteq EntriesOf(Source) /\ EntriesOf(s) = {}
        /\ conv' = [x \in Entry |-> IF x \in moved THEN s ELSE conv[x]]
        /\ index' = [x \in Entry |-> IF x \in moved THEN Rank(x, moved) ELSE index[x]]
    BY <1>3, CommitFacts
  <2>2. a \in moved <=> b \in moved
    BY <1>1, <2>1 DEF EntriesOf
  <2>3. moved \in SUBSET Entry
    BY <2>1 DEF EntriesOf
  <2>4. a \in moved => Rank(a, moved) < Rank(b, moved)
    BY <2>2, <2>3, RankOrdered DEF IInv
  <2> QED BY <1>1, <2>1, <2>2, <2>4
<1>4. ASSUME NEW s \in Split, Cleanup(s)
      PROVE  index'[a] < index'[b]
  BY <1>4 DEF Cleanup
<1> QED BY <1>2, <1>3, <1>4, TreeSteps
---------------------------------------------------------------------------
(* Theorems *)

\* Every variable has its type in every reachable state.
THEOREM TypeCorrect == Spec => []TypeOK
BY Invariance, PTL DEF IInv

\* However many runs append between splits, no two entries of a conversation
\* get one index, although indexes are freed by splits and computed from the
\* rows that are left.
THEOREM IndexUnique == Spec => []IndexIsUnique
BY Invariance, PTL DEF IInv

\* A lineage sorted by index reads from root to leaf, in the source and in
\* every split-off conversation.
THEOREM LineagesAscend == Spec => []LineageAscends
BY Invariance, PTL DEF IInv

\* A committed split leaves one whole tree in its target, and its view in it,
\* whatever the other splits, runs and view requests do.
THEOREM TargetWhole == Spec => []TargetIsOneTree
BY Invariance, PTL DEF IInv

\* No step parts a child from its parent: the append lock keeps a plan whole
\* until it is committed.
THEOREM FamiliesTogether == Spec => FamiliesStayTogether
<1>1. IInv /\ [Next]_vars =>
        [\A e \in Entry :
           parent[e] # 0 /\ parent'[e] = parent[e] /\ conv[e] = conv[parent[e]]
             => conv'[e] = conv'[parent[e]]]_vars
  BY FamilyStep
<1> QED BY <1>1, Invariance, PTL DEF Spec, FamiliesStayTogether

\* Two entries that stay together keep their order through every append,
\* renumbering and clean-up.
THEOREM OrderKept == Spec => OrderIsKept
<1>1. IInv /\ [Next]_vars =>
        [\A a, b \in 1..born :
           conv[a] = conv[b] /\ conv'[a] = conv'[b] /\ index[a] < index[b]
             => index'[a] < index'[b]]_vars
  BY OrderStep
<1> QED BY <1>1, Invariance, PTL DEF Spec, OrderIsKept
===========================================================================
