------------------------- MODULE Knowledge_proofs -------------------------
(* Safety of the knowledge index, for any files, roots and faults.          *)
EXTENDS Knowledge, TLAPS

(* The part of a run before the pruning. *)
Before == {"walking", "embedding", "extracting"}

(* Nothing watches a process that is down or a storage that has gone. *)
WatcherInv == watcher => alive /\ exists /\ watch

(* No run goes on in a process that is down. *)
DownInv == ~alive => ingest = NoRun

(* The run and the index keep within the roots of the manifest, which only  *)
(* grow.                                                                    *)
RootsInv ==
    /\ granted = roots
    /\ ingest.todo \cup ingest.present \subseteq Covered(roots)
    /\ ingest.todo \cap ingest.present = {}
    /\ \A i \in Item \ Covered(roots) : hash[i] = 0

(* A row the pruning would delete is of a file the run has found missing. *)
WalkInv ==
    /\ Running => \A i \in Item : file[i] = 0 => i \in lapsed
    /\ ingest.stage \in Before =>
           \A i \in Item : i \in ingest.todo \cup ingest.present \cup lapsed \/ hash[i] = 0
    /\ ingest.stage = "embedding" => ingest.text # 0
    /\ ingest.item # NoItem => ingest.item \in ingest.present

(* No change is on its way to the runner. *)
Clean == watcher /\ ~changed /\ ~debounce /\ ~again

(* What the walk has done with an item of a clean run. *)
Done(i) ==
    IF i \in ingest.present
    THEN file[i] = IF ingest.stage = "embedding" /\ ingest.item = i THEN ingest.text ELSE hash[i]
    ELSE file[i] = 0

(* A clean run has seen every file it has come by as it is now. *)
FreshInv ==
    Clean => /\ ingest.stage \in Before => \A i \in Covered(roots) \ ingest.todo : Done(i)
             /\ (ingest.stage = "summarizing" \/ (~Running /\ ~failed)) => \A i \in Item : Current(i)

(* The inductive invariant. *)
IInv == KnowledgeTypeOK /\ WatcherInv /\ DownInv /\ RootsInv /\ WalkInv /\ FreshInv
---------------------------------------------------------------------------
(* The type invariant in parts the provers can take one at a time. *)
SourceOK == file \in [Item -> Version] /\ edits \in 0..MaxEdit
IndexOK  == hash \in [Item -> Version] /\ graph \in [Item -> Version] /\ graphOk \in [Item -> BOOLEAN]
FlagsOK  == /\ exists \in BOOLEAN /\ roots \in BOOLEAN /\ granted \in BOOLEAN /\ watch \in BOOLEAN
            /\ watcher \in BOOLEAN /\ changed \in BOOLEAN /\ debounce \in BOOLEAN
            /\ again \in BOOLEAN /\ cancelled \in BOOLEAN /\ failed \in BOOLEAN /\ alive \in BOOLEAN
RunOK    == ingest \in [stage : Stage, todo : SUBSET Item, present : SUBSET Item,
                        item : Item \cup {NoItem}, text : Version]
StageOK  == /\ ingest.item # NoItem <=> ingest.stage \in {"embedding", "extracting"}
            /\ again => ingest.stage # "none"
BoundsOK == lapsed \subseteq Item /\ deaths \in 0..MaxDeath

LEMMA TypeParts ==
  KnowledgeTypeOK <=> SourceOK /\ IndexOK /\ FlagsOK /\ RunOK /\ StageOK /\ BoundsOK
BY DEF KnowledgeTypeOK, SourceOK, IndexOK, FlagsOK, RunOK, StageOK, BoundsOK

LEMMA Values ==
    /\ 0 \in Version /\ 1 \in Version /\ Stage = Before \cup {"none", "summarizing"}
    /\ Late \subseteq Item /\ NoItem \notin Item
BY KnowledgeAssumption DEF Version, Stage, Before

LEMMA NoRunIsRun ==
    /\ NoRun \in [stage : Stage, todo : SUBSET Item, present : SUBSET Item,
                   item : Item \cup {NoItem}, text : Version]
    /\ NoRun.stage = "none" /\ NoRun.todo = {} /\ NoRun.present = {}
    /\ NoRun.item = NoItem /\ NoRun.text = 0
BY Values DEF NoRun

LEMMA CoveredItems == \A late \in BOOLEAN : Covered(late) \subseteq Item
BY Values DEF Covered

(* What a fresh run is. *)
LEMMA LaunchShape ==
  ASSUME NEW late \in BOOLEAN, Launch(late)
  PROVE  /\ RunOK'
         /\ ingest'.stage = "walking" /\ ingest'.todo = Covered(late) /\ ingest'.present = {}
         /\ ingest'.item = NoItem /\ ingest'.text = 0
         /\ ~again' /\ ~cancelled' /\ again' \in BOOLEAN /\ cancelled' \in BOOLEAN
         /\ lapsed' = {i \in Item : file[i] = 0}
<1>1. ingest' = [stage |-> "walking", todo |-> Covered(late), present |-> {},
                 item |-> NoItem, text |-> 0]
  BY DEF Launch, NoRun
<1>2. RunOK'
  BY <1>1, Values, CoveredItems DEF RunOK, Before
<1>3. ~again' /\ ~cancelled' /\ again' \in BOOLEAN /\ cancelled' \in BOOLEAN
  BY DEF Launch
<1>4. lapsed' = {i \in Item : file[i] = 0}
  BY DEF Launch
<1> QED
  BY <1>1, <1>2, <1>3, <1>4

(* The steps of the walk. *)
LEMMA VisitShape ==
  ASSUME KnowledgeTypeOK, NEW i \in Item, Visit(i)
  PROVE  /\ UNCHANGED <<source, manifest, watching, index, again, cancelled, failed, lapsed, lifetime>>
         /\ ingest.stage = "walking" /\ i \in ingest.todo /\ alive
         /\ RunOK' /\ ingest'.todo = ingest.todo \ {i}
         /\ \/ /\ file[i] = 0 /\ ingest'.present = ingest.present
               /\ ingest'.stage = "walking" /\ ingest'.item = ingest.item
            \/ /\ hash[i] = file[i] /\ ingest'.present = ingest.present \cup {i}
               /\ ingest'.stage = "walking" /\ ingest'.item = ingest.item
            \/ /\ file[i] # 0 /\ ingest'.present = ingest.present \cup {i}
               /\ ingest'.stage = "embedding" /\ ingest'.item = i /\ ingest'.text = file[i]
<1>1. RunOK /\ SourceOK
  BY TypeParts
<1>2. PICK k \in {1, 2, 3} :
        /\ k = 1 => file[i] = 0 /\ ingest' = [ingest EXCEPT !.todo = @ \ {i}]
        /\ k = 2 => hash[i] = file[i] /\ ingest' = [ingest EXCEPT !.todo = @ \ {i}, !.present = @ \cup {i}]
        /\ k = 3 => file[i] # 0 /\ ingest' = [ingest EXCEPT !.todo = @ \ {i}, !.present = @ \cup {i},
                                                 !.stage = "embedding", !.item = i, !.text = file[i]]
  <2>1. CASE file[i] = 0
    BY <2>1 DEF Visit
  <2>2. CASE file[i] # 0 /\ Unchanged(i)
    BY <2>2 DEF Visit, Seen, Unchanged
  <2>3. CASE file[i] # 0 /\ ~Unchanged(i)
    BY <2>3 DEF Visit, Seen
  <2> QED
    BY <2>1, <2>2, <2>3
<1>3. CASE k = 1
  BY <1>1, <1>2, <1>3 DEF RunOK, Visit
<1>4. CASE k = 2
  <2>1. hash[i] = file[i] /\ ingest' = [ingest EXCEPT !.todo = @ \ {i}, !.present = @ \cup {i}]
    BY <1>2, <1>4
  <2>2. RunOK'
    BY <1>1, <2>1 DEF RunOK
  <2>3. /\ ingest'.todo = ingest.todo \ {i} /\ ingest'.present = ingest.present \cup {i}
        /\ ingest'.stage = ingest.stage /\ ingest'.item = ingest.item
    BY <1>1, <2>1 DEF RunOK
  <2> QED
    BY <2>1, <2>2, <2>3 DEF Visit
<1>5. CASE k = 3
  <2>1. file[i] \in Version /\ "embedding" \in Stage
    BY <1>1, Values DEF SourceOK, Before
  <2>2. /\ file[i] # 0
        /\ ingest' = [ingest EXCEPT !.todo = @ \ {i}, !.present = @ \cup {i},
                                    !.stage = "embedding", !.item = i, !.text = file[i]]
    BY <1>2, <1>5
  <2>3. RunOK'
    BY <1>1, <2>1, <2>2 DEF RunOK
  <2>4. /\ ingest'.todo = ingest.todo \ {i} /\ ingest'.present = ingest.present \cup {i}
        /\ ingest'.stage = "embedding" /\ ingest'.item = i /\ ingest'.text = file[i]
    BY <1>1, <2>2 DEF RunOK
  <2> QED
    BY <2>2, <2>3, <2>4 DEF Visit
<1> QED
  BY <1>3, <1>4, <1>5

LEMMA EmbeddedShape ==
  ASSUME KnowledgeTypeOK, Embedded
  PROVE  /\ UNCHANGED <<source, manifest, watching, graph, graphOk, again, cancelled, failed, lapsed, lifetime>>
         /\ ingest.stage = "embedding" /\ ingest.item \in Item /\ ingest.text \in Version /\ alive
         /\ hash' = [hash EXCEPT ![ingest.item] = ingest.text]
         /\ RunOK' /\ ingest'.stage = "extracting" /\ ingest'.todo = ingest.todo
         /\ ingest'.present = ingest.present /\ ingest'.item = ingest.item /\ ingest'.text = ingest.text
<1>1. RunOK /\ StageOK /\ ingest.stage = "embedding" /\ ingest' = [ingest EXCEPT !.stage = "extracting"]
  BY TypeParts DEF Embedded
<1>2. RunOK'
  BY <1>1, Values DEF RunOK, Before
<1>3. /\ ingest'.stage = "extracting" /\ ingest'.todo = ingest.todo
      /\ ingest'.present = ingest.present /\ ingest'.item = ingest.item /\ ingest'.text = ingest.text
  BY <1>1 DEF RunOK
<1>4. ingest.item \in Item /\ ingest.text \in Version
  BY <1>1 DEF RunOK, StageOK
<1> QED
  BY <1>1, <1>2, <1>3, <1>4 DEF Embedded

LEMMA BuiltShape ==
  ASSUME KnowledgeTypeOK, Extracted \/ ExtractFails
  PROVE  /\ UNCHANGED <<source, manifest, watching, hash, again, cancelled, failed, lapsed, lifetime>>
         /\ ingest.stage = "extracting" /\ alive /\ IndexOK'
         /\ RunOK' /\ ingest'.stage = "walking" /\ ingest'.todo = ingest.todo
         /\ ingest'.present = ingest.present /\ ingest'.item = NoItem
<1>1. /\ RunOK /\ StageOK /\ IndexOK /\ ingest.stage = "extracting"
      /\ ingest' = [ingest EXCEPT !.stage = "walking", !.item = NoItem, !.text = 0]
  BY TypeParts DEF Extracted, ExtractFails, NextItem
<1>2. RunOK'
  BY <1>1, Values DEF RunOK, Before
<1>3. /\ ingest'.stage = "walking" /\ ingest'.todo = ingest.todo
      /\ ingest'.present = ingest.present /\ ingest'.item = NoItem
  BY <1>1 DEF RunOK
<1>4. ingest.item \in Item /\ ingest.text \in Version
  BY <1>1 DEF RunOK, StageOK
<1>5. CASE Extracted
  <2>1. IndexOK'
    BY <1>1, <1>4, <1>5 DEF IndexOK, Extracted
  <2> QED
    BY <1>1, <1>2, <1>3, <1>5, <2>1 DEF Extracted
<1>6. CASE ExtractFails
  <2>1. IndexOK'
    BY <1>1, <1>4, <1>6, Values DEF IndexOK, ExtractFails
  <2> QED
    BY <1>1, <1>2, <1>3, <1>6, <2>1 DEF ExtractFails
<1> QED
  BY <1>5, <1>6

LEMMA PruneShape ==
  ASSUME KnowledgeTypeOK, Prune
  PROVE  /\ UNCHANGED <<source, manifest, watching, again, cancelled, failed, lapsed, lifetime>>
         /\ ingest.stage = "walking" /\ ingest.todo = {} /\ alive /\ IndexOK'
         /\ hash' = [i \in Item |-> IF i \in ingest.present THEN hash[i] ELSE 0]
         /\ RunOK' /\ ingest'.stage = "summarizing" /\ ingest'.todo = {}
         /\ ingest'.present = ingest.present /\ ingest'.item = ingest.item
<1>1. /\ RunOK /\ IndexOK /\ ingest.stage = "walking" /\ ingest.todo = {}
      /\ ingest' = [ingest EXCEPT !.stage = "summarizing"]
  BY TypeParts DEF Prune
<1>2. RunOK'
  BY <1>1, Values DEF RunOK
<1>3. /\ ingest'.stage = "summarizing" /\ ingest'.todo = {}
      /\ ingest'.present = ingest.present /\ ingest'.item = ingest.item
  BY <1>1 DEF RunOK
<1>4. IndexOK'
  <2>1. hash' \in [Item -> Version] /\ graph' \in [Item -> Version]
    BY <1>1, Values DEF IndexOK, Prune
  <2>2. graphOk' \in [Item -> BOOLEAN]
    BY <1>1 DEF IndexOK, Prune
  <2> QED
    BY <2>1, <2>2 DEF IndexOK
<1> QED
  BY <1>1, <1>2, <1>3, <1>4 DEF Prune

(* What requests and ends do to the run: a fresh one, none, or one to come. *)
Requested == Fire \/ Ingest \/ AddSource
Ended     == Complete \/ Throw

LEMMA RequestShape ==
  ASSUME KnowledgeTypeOK, Requested
  PROVE  /\ UNCHANGED <<source, index, exists, watch, failed, lifetime>> /\ alive
         /\ \/ roots' = roots /\ granted' = granted /\ watcher' = watcher
            \/ /\ roots' = TRUE /\ granted' = TRUE /\ exists
               /\ \/ watcher' = TRUE /\ debounce' = TRUE /\ watch = TRUE
                  \/ watcher' = watcher /\ watch = FALSE
         /\ changed' \in BOOLEAN /\ debounce' \in BOOLEAN /\ roots' \in BOOLEAN
         /\ \/ Launch(roots') /\ ~Running
            \/ again' = TRUE /\ UNCHANGED <<ingest, cancelled, lapsed>> /\ Running
<1>1. FlagsOK
  BY TypeParts
<1>2. CASE Fire
  <2>1. UNCHANGED <<source, index, manifest, watcher, changed, failed, lifetime>> /\ alive /\ debounce' = FALSE
    BY <1>2 DEF Fire
  <2>2. \/ Launch(roots) /\ ~Running
        \/ again' = TRUE /\ UNCHANGED <<ingest, cancelled, lapsed>> /\ Running
    BY <1>2 DEF Fire, RequestRun
  <2>3. roots' = roots
    BY <2>1 DEF manifest
  <2> QED
    BY <1>1, <2>1, <2>2, <2>3 DEF manifest, FlagsOK
<1>3. CASE Ingest
  <2>1. UNCHANGED <<source, manifest, watching, index, failed, lifetime>> /\ alive
    BY <1>3 DEF Ingest
  <2>2. \/ Launch(roots) /\ ~Running
        \/ again' = TRUE /\ UNCHANGED <<ingest, cancelled, lapsed>> /\ Running
    BY <1>3 DEF Ingest, RequestRun
  <2>3. roots' = roots
    BY <2>1 DEF manifest
  <2> QED
    BY <1>1, <2>1, <2>2, <2>3 DEF manifest, watching, FlagsOK
<1>4. CASE AddSource
  <2>1. /\ UNCHANGED <<source, exists, watch, index, failed, lifetime>> /\ alive /\ exists
        /\ roots' = TRUE /\ granted' = TRUE
    BY <1>4 DEF AddSource
  <2>2. \/ Launch(TRUE) /\ ~Running
        \/ again' = TRUE /\ UNCHANGED <<ingest, cancelled, lapsed>> /\ Running
    BY <1>4 DEF AddSource, RequestRun
  <2>3. CASE watch
    <3>1. watcher' = TRUE /\ changed' = FALSE /\ debounce' = TRUE
      BY <1>4, <2>3 DEF AddSource, Subscribe
    <3> QED
      BY <1>1, <2>1, <2>2, <2>3, <3>1 DEF FlagsOK
  <2>4. CASE ~watch
    <3>1. UNCHANGED <<watcher, changed, debounce>>
      BY <1>4, <2>4 DEF AddSource, watching
    <3> QED
      BY <1>1, <2>1, <2>2, <2>4, <3>1 DEF FlagsOK
  <2> QED
    BY <2>3, <2>4
<1> QED
  BY <1>2, <1>3, <1>4 DEF Requested

LEMMA EndShape ==
  ASSUME KnowledgeTypeOK, Ended
  PROVE  /\ UNCHANGED <<source, manifest, watching, index, lifetime>> /\ alive /\ Running
         /\ failed' = TRUE \/ (failed' = FALSE /\ ingest.stage = "summarizing")
         /\ \/ again /\ Launch(roots)
            \/ ~again /\ ingest' = NoRun /\ UNCHANGED <<again, lapsed>> /\ cancelled' = FALSE
<1>1. CASE Complete
  BY <1>1 DEF Complete, EndRun, Running
<1>2. CASE Throw
  BY <1>2 DEF Throw, EndRun, Running
<1> QED
  BY <1>1, <1>2 DEF Ended

(* Every other step leaves the index and the walk alone, or ends both. *)
Aside ==
    \/ Notify \/ ToggleWatch \/ CancelIngest \/ Restart
    \/ DeleteStorage \/ Die

LEMMA AsideShape ==
  ASSUME KnowledgeTypeOK, Aside
  PROVE  /\ UNCHANGED <<file, roots, granted, failed, lapsed>>
         /\ FlagsOK' /\ IndexOK' /\ BoundsOK' /\ SourceOK'
         /\ \/ UNCHANGED <<ingest, again>>
            \/ ingest' = NoRun /\ again' = FALSE /\ alive' = FALSE
         /\ \/ UNCHANGED hash
            \/ hash' = [i \in Item |-> 0] /\ exists' = FALSE /\ UNCHANGED ingest
         /\ alive' = FALSE => ingest' = NoRun \/ (alive = FALSE /\ UNCHANGED ingest)
         /\ watcher' => \/ debounce' /\ alive' /\ exists' /\ watch'
                        \/ /\ UNCHANGED <<watcher, alive, exists, watch>>
                           /\ debounce' \/ UNCHANGED <<debounce, changed>>
<1> USE DEF SourceOK, IndexOK, FlagsOK, BoundsOK, source, manifest, watching, index, runner, lifetime
<1>1. SourceOK /\ IndexOK /\ FlagsOK /\ BoundsOK
  BY TypeParts
<1>2. CASE Notify
  <2>1. /\ UNCHANGED <<file, edits, exists, roots, granted, watch, watcher, hash, graph, graphOk>>
        /\ UNCHANGED <<ingest, again, cancelled, failed, lapsed, alive, deaths>>
        /\ changed' = FALSE /\ debounce' = TRUE
    BY <1>2 DEF Notify
  <2>2. FlagsOK' /\ IndexOK' /\ BoundsOK' /\ SourceOK'
    BY <1>1, <2>1
  <2> QED
    BY <1>2, <2>1, <2>2 DEF Notify
<1>3. CASE ToggleWatch
  BY <1>1, <1>3 DEF ToggleWatch, Subscribe
<1>4. CASE CancelIngest
  BY <1>1, <1>4 DEF CancelIngest
<1>5. CASE Restart
  BY <1>1, <1>5 DEF Restart, Subscribe
<1>6. CASE DeleteStorage
  BY <1>1, <1>6, Values DEF DeleteStorage, Subscribe
<1>7. CASE Die
  <2>1. deaths' \in 0..MaxDeath
    BY <1>1, <1>7, KnowledgeAssumption DEF Die
  <2>2. /\ UNCHANGED <<file, edits, exists, roots, granted, watch, hash, graph, graphOk, failed, lapsed>>
        /\ ingest' = NoRun /\ again' = FALSE /\ cancelled' = FALSE /\ alive' = FALSE
        /\ watcher' = FALSE /\ changed' = FALSE /\ debounce' = FALSE
    BY <1>7 DEF Die, Subscribe
  <2>3. FlagsOK' /\ IndexOK' /\ BoundsOK' /\ SourceOK'
    BY <1>1, <2>1, <2>2
  <2> QED
    BY <2>2, <2>3
<1> QED
  BY <1>2, <1>3, <1>4, <1>5, <1>6, <1>7 DEF Aside

LEMMA EditShape ==
  ASSUME KnowledgeTypeOK, NEW i \in Item, Edit(i)
  PROVE  /\ UNCHANGED <<manifest, watcher, debounce, index, ingest, again, cancelled, failed, lifetime>>
         /\ SourceOK' /\ \A j \in Item : j # i => file'[j] = file[j]
         /\ lapsed' = IF file'[i] = 0 THEN lapsed \cup {i} ELSE lapsed
         /\ changed' \in BOOLEAN /\ (changed' <=> changed \/ (watcher /\ i \in Covered(roots)))
<1>1. SourceOK /\ FlagsOK
  BY TypeParts
<1>2. SourceOK' /\ \A j \in Item : j # i => file'[j] = file[j]
  <2>1. PICK v \in Version : file' = [file EXCEPT ![i] = v]
    BY DEF Edit
  <2>2. edits' \in 0..MaxEdit
    BY <1>1, KnowledgeAssumption DEF Edit, SourceOK
  <2> QED
    BY <1>1, <2>1, <2>2 DEF SourceOK
<1>3. changed' \in BOOLEAN /\ (changed' <=> changed \/ (watcher /\ i \in Covered(roots)))
  BY <1>1 DEF Edit, FlagsOK
<1>4. lapsed' = IF file'[i] = 0 THEN lapsed \cup {i} ELSE lapsed
  BY DEF Edit
<1> QED
  BY <1>2, <1>3, <1>4 DEF Edit

LEMMA StepCases ==
  ASSUME [KnowledgeNext]_knowledgeVars
  PROVE  \/ \E i \in Item : Visit(i) \/ Edit(i)
         \/ Embedded \/ Extracted \/ ExtractFails \/ Prune \/ Requested \/ Ended \/ Aside
         \/ UNCHANGED knowledgeVars
BY DEF KnowledgeNext, KnowledgeWork, Requested, Ended, Aside
---------------------------------------------------------------------------
LEMMA KnowledgeStart == KnowledgeInit => IInv
<1> SUFFICES ASSUME KnowledgeInit PROVE IInv
  OBVIOUS
<1>1. /\ ingest.stage = "none" /\ ingest.todo = {} /\ ingest.present = {} /\ ingest.item = NoItem
      /\ RunOK
  BY NoRunIsRun DEF KnowledgeInit, RunOK
<1>2. SourceOK /\ IndexOK
  BY Values, KnowledgeAssumption DEF KnowledgeInit, SourceOK, IndexOK
<1>3. FlagsOK /\ BoundsOK
  <2>1. BoundsOK
    BY KnowledgeAssumption DEF KnowledgeInit, BoundsOK
  <2>2. watcher \in BOOLEAN /\ debounce \in BOOLEAN /\ watch \in BOOLEAN
    BY DEF KnowledgeInit
  <2>3. FlagsOK
    BY <2>2 DEF KnowledgeInit, FlagsOK
  <2> QED
    BY <2>1, <2>3
<1>4. StageOK
  BY <1>1 DEF KnowledgeInit, StageOK
<1>5. KnowledgeTypeOK
  BY <1>1, <1>2, <1>3, <1>4, TypeParts
<1>6. WatcherInv /\ DownInv
  BY DEF KnowledgeInit, WatcherInv, DownInv
<1>7. RootsInv
  BY <1>1 DEF KnowledgeInit, RootsInv
<1>8. WalkInv
  BY <1>1 DEF WalkInv, Running, Before
<1>9. FreshInv
  BY DEF KnowledgeInit, FreshInv, Clean
<1> QED
  BY <1>5, <1>6, <1>7, <1>8, <1>9 DEF IInv

LEMMA TypeStep == KnowledgeTypeOK /\ [KnowledgeNext]_knowledgeVars => KnowledgeTypeOK'
<1> SUFFICES ASSUME KnowledgeTypeOK, [KnowledgeNext]_knowledgeVars PROVE KnowledgeTypeOK'
  OBVIOUS
<1> USE DEF source, manifest, watching, index, runner, lifetime
<1>1. SourceOK /\ IndexOK /\ FlagsOK /\ RunOK /\ StageOK /\ BoundsOK
  BY TypeParts
<1>2. SUFFICES SourceOK' /\ IndexOK' /\ FlagsOK' /\ RunOK' /\ StageOK' /\ BoundsOK'
  BY DEF KnowledgeTypeOK, SourceOK, IndexOK, FlagsOK, RunOK, StageOK, BoundsOK
<1>3. ASSUME NEW i \in Item, Visit(i)
      PROVE SourceOK' /\ IndexOK' /\ FlagsOK' /\ RunOK' /\ StageOK' /\ BoundsOK'
  <2>1. SourceOK' /\ IndexOK' /\ FlagsOK' /\ BoundsOK' /\ RunOK'
    BY <1>1, <1>3, VisitShape DEF SourceOK, IndexOK, FlagsOK, BoundsOK
  <2>2. StageOK'
    BY <1>1, <1>3, VisitShape, Values DEF StageOK
  <2> QED
    BY <2>1, <2>2
<1>4. CASE Embedded
  <2>1. SourceOK' /\ FlagsOK' /\ BoundsOK' /\ RunOK'
    BY <1>1, <1>4, EmbeddedShape DEF SourceOK, FlagsOK, BoundsOK
  <2>2. StageOK' /\ IndexOK'
    BY <1>1, <1>4, EmbeddedShape DEF StageOK, IndexOK
  <2> QED
    BY <2>1, <2>2
<1>5. CASE Extracted \/ ExtractFails
  <2>1. SourceOK' /\ FlagsOK' /\ BoundsOK' /\ RunOK' /\ IndexOK'
    BY <1>1, <1>5, BuiltShape DEF SourceOK, FlagsOK, BoundsOK
  <2>2. StageOK'
    BY <1>1, <1>5, BuiltShape DEF StageOK
  <2> QED
    BY <2>1, <2>2
<1>6. CASE Prune
  <2>1. SourceOK' /\ FlagsOK' /\ BoundsOK' /\ RunOK' /\ IndexOK'
    BY <1>1, <1>6, PruneShape DEF SourceOK, FlagsOK, BoundsOK
  <2>2. StageOK'
    BY <1>1, <1>6, PruneShape DEF StageOK
  <2> QED
    BY <2>1, <2>2
<1>7. CASE Requested
  <2>1. SourceOK' /\ IndexOK'
    BY <1>1, <1>7, RequestShape DEF SourceOK, IndexOK
  <2>2. CASE Launch(roots')
    <3>1. roots' \in BOOLEAN
      BY <1>7, RequestShape
    <3>2. /\ RunOK' /\ ingest'.stage = "walking" /\ ingest'.item = NoItem /\ ~again'
          /\ again' \in BOOLEAN /\ cancelled' \in BOOLEAN /\ lapsed' = {i \in Item : file[i] = 0}
      BY <2>2, <3>1, LaunchShape
    <3>3. FlagsOK'
      BY <1>1, <1>7, <3>2, RequestShape DEF FlagsOK
    <3>4. BoundsOK'
      BY <1>1, <1>7, <3>2, RequestShape DEF BoundsOK
    <3> QED
      BY <2>1, <3>2, <3>3, <3>4 DEF StageOK
  <2>3. CASE again' = TRUE /\ UNCHANGED <<ingest, cancelled, lapsed>> /\ Running
    <3>1. FlagsOK'
      BY <1>1, <1>7, <2>3, RequestShape DEF FlagsOK
    <3>2. RunOK' /\ BoundsOK' /\ StageOK'
      BY <1>1, <1>7, <2>3, RequestShape DEF RunOK, BoundsOK, StageOK, Running
    <3> QED
      BY <2>1, <3>1, <3>2
  <2> QED
    BY <1>7, <2>2, <2>3, RequestShape
<1>8. CASE Ended
  <2>1. SourceOK' /\ IndexOK'
    BY <1>1, <1>8, EndShape DEF SourceOK, IndexOK
  <2>2. CASE again /\ Launch(roots)
    <3>1. roots \in BOOLEAN
      BY <1>1 DEF FlagsOK
    <3>2. /\ RunOK' /\ ingest'.stage = "walking" /\ ingest'.item = NoItem /\ ~again'
          /\ again' \in BOOLEAN /\ cancelled' \in BOOLEAN /\ lapsed' = {i \in Item : file[i] = 0}
      BY <2>2, <3>1, LaunchShape
    <3>3. FlagsOK'
      BY <1>1, <1>8, <3>2, EndShape DEF FlagsOK
    <3>4. BoundsOK'
      BY <1>1, <1>8, <3>2, EndShape DEF BoundsOK
    <3> QED
      BY <2>1, <3>2, <3>3, <3>4 DEF StageOK
  <2>3. CASE ~again /\ ingest' = NoRun /\ UNCHANGED <<again, lapsed>> /\ cancelled' = FALSE
    <3>1. FlagsOK'
      BY <1>1, <1>8, <2>3, EndShape DEF FlagsOK
    <3>2. RunOK' /\ BoundsOK' /\ StageOK'
      BY <1>1, <1>8, <2>3, EndShape, NoRunIsRun DEF RunOK, BoundsOK, StageOK
    <3> QED
      BY <2>1, <3>1, <3>2
  <2> QED
    BY <1>8, <2>2, <2>3, EndShape
<1>9. CASE Aside
  <2>1. CASE UNCHANGED <<ingest, again>>
    BY <1>1, <1>9, <2>1, AsideShape DEF RunOK, StageOK
  <2>2. CASE ingest' = NoRun /\ again' = FALSE
    <3>1. RunOK' /\ ingest'.stage = "none" /\ ingest'.item = NoItem
      BY <2>2, NoRunIsRun DEF RunOK
    <3>2. StageOK'
      BY <2>2, <3>1 DEF StageOK
    <3> QED
      BY <1>9, <3>1, <3>2, AsideShape
  <2> QED
    BY <1>9, <2>1, <2>2, AsideShape
<1>10. ASSUME NEW i \in Item, Edit(i)
       PROVE SourceOK' /\ IndexOK' /\ FlagsOK' /\ RunOK' /\ StageOK' /\ BoundsOK'
  <2>1. FlagsOK'
    BY <1>1, <1>10, EditShape DEF FlagsOK
  <2>2. IndexOK' /\ RunOK' /\ StageOK' /\ BoundsOK'
    BY <1>1, <1>10, EditShape DEF IndexOK, RunOK, StageOK, BoundsOK
  <2> QED
    BY <1>10, <2>1, <2>2, EditShape
<1>11. CASE UNCHANGED knowledgeVars
  BY <1>1, <1>11 DEF knowledgeVars, SourceOK, IndexOK, FlagsOK, RunOK, StageOK, BoundsOK
<1> QED
  BY <1>3, <1>4, <1>5, <1>6, <1>7, <1>8, <1>9, <1>10, <1>11, StepCases

LEMMA WatcherStep == IInv /\ [KnowledgeNext]_knowledgeVars => WatcherInv' /\ DownInv'
<1> SUFFICES ASSUME KnowledgeTypeOK, WatcherInv, DownInv, [KnowledgeNext]_knowledgeVars
             PROVE  WatcherInv' /\ DownInv'
  BY DEF IInv
<1> USE DEF source, manifest, watching, index, runner, lifetime
<1>1. FlagsOK
  BY TypeParts
<1>2. CASE \E i \in Item : Visit(i) \/ Edit(i)
  <2>1. UNCHANGED <<watcher, alive, exists, watch>> /\ (UNCHANGED ingest \/ alive)
    BY <1>2, VisitShape, EditShape
  <2> QED
    BY <2>1 DEF WatcherInv, DownInv
<1>3. CASE Embedded \/ Extracted \/ ExtractFails \/ Prune \/ Ended
  <2>1. UNCHANGED <<watcher, alive, exists, watch>> /\ alive
    BY <1>3, EmbeddedShape, BuiltShape, PruneShape, EndShape
  <2> QED
    BY <2>1 DEF WatcherInv, DownInv
<1>4. CASE Requested
  <2>1. UNCHANGED <<alive, exists, watch>> /\ alive
    BY <1>4, RequestShape
  <2>2. watcher' = watcher \/ (exists /\ watch = TRUE)
    BY <1>4, RequestShape
  <2> QED
    BY <2>1, <2>2 DEF WatcherInv, DownInv
<1>5. CASE Aside
  <2>1. WatcherInv'
    BY <1>1, <1>5, AsideShape DEF WatcherInv, FlagsOK
  <2>2. DownInv'
    BY <1>1, <1>5, AsideShape DEF DownInv, FlagsOK
  <2> QED
    BY <2>1, <2>2
<1>6. CASE UNCHANGED knowledgeVars
  BY <1>6 DEF knowledgeVars, WatcherInv, DownInv
<1> QED
  BY <1>2, <1>3, <1>4, <1>5, <1>6, StepCases

LEMMA RootsStep == IInv /\ [KnowledgeNext]_knowledgeVars => RootsInv'
<1> SUFFICES ASSUME IInv, [KnowledgeNext]_knowledgeVars PROVE RootsInv'
  OBVIOUS
<1> USE DEF source, manifest, watching, index, runner, lifetime
<1>1. SourceOK /\ IndexOK /\ FlagsOK /\ RunOK /\ RootsInv /\ WalkInv /\ KnowledgeTypeOK
  BY TypeParts DEF IInv
<1>2. ASSUME NEW i \in Item, Visit(i) PROVE RootsInv'
  BY <1>1, <1>2, VisitShape DEF RootsInv
<1>3. CASE Embedded
  <2>1. /\ UNCHANGED <<roots, granted>> /\ ingest'.todo = ingest.todo /\ ingest'.present = ingest.present
        /\ \A i \in Item : i # ingest.item => hash'[i] = hash[i]
    BY <1>1, <1>3, EmbeddedShape DEF IndexOK
  <2>2. ingest.item \in Covered(roots)
    BY <1>1, <1>3, EmbeddedShape, Values DEF RootsInv, WalkInv
  <2> QED
    BY <1>1, <2>1, <2>2 DEF RootsInv
<1>4. CASE Extracted \/ ExtractFails
  BY <1>1, <1>4, BuiltShape DEF RootsInv
<1>5. CASE Prune
  BY <1>1, <1>5, PruneShape DEF RootsInv
<1>6. CASE Requested
  <2>1. granted' = roots' /\ UNCHANGED hash /\ roots' \in BOOLEAN
    BY <1>1, <1>6, RequestShape DEF RootsInv
  <2>2. Covered(roots) \subseteq Covered(roots')
    BY <1>1, <1>6, RequestShape DEF Covered, FlagsOK
  <2>3. CASE Launch(roots')
    BY <1>1, <2>1, <2>2, <2>3, LaunchShape DEF RootsInv
  <2>4. CASE UNCHANGED ingest
    BY <1>1, <2>1, <2>2, <2>4 DEF RootsInv
  <2> QED
    BY <1>1, <1>6, <2>3, <2>4, RequestShape
<1>7. CASE Ended
  <2>1. UNCHANGED <<roots, granted, hash>> /\ roots \in BOOLEAN
    BY <1>1, <1>7, EndShape DEF FlagsOK
  <2>2. ingest'.todo \subseteq Covered(roots) /\ ingest'.present = {}
    BY <1>1, <1>7, <2>1, EndShape, LaunchShape, NoRunIsRun
  <2> QED
    BY <1>1, <2>1, <2>2 DEF RootsInv
<1>8. CASE Aside
  <2>1. UNCHANGED <<roots, granted>>
    BY <1>1, <1>8, AsideShape
  <2>2. \/ UNCHANGED ingest
        \/ ingest'.todo = {} /\ ingest'.present = {}
    BY <1>1, <1>8, AsideShape, NoRunIsRun
  <2>3. UNCHANGED hash \/ hash' = [i \in Item |-> 0]
    BY <1>1, <1>8, AsideShape
  <2> QED
    BY <1>1, <2>1, <2>2, <2>3 DEF RootsInv
<1>9. CASE \E i \in Item : Edit(i)
  BY <1>1, <1>9, EditShape DEF RootsInv
<1>10. CASE UNCHANGED knowledgeVars
  BY <1>1, <1>10 DEF knowledgeVars, RootsInv
<1> QED
  BY <1>2, <1>3, <1>4, <1>5, <1>6, <1>7, <1>8, <1>9, <1>10, StepCases

LEMMA WalkStep == IInv /\ [KnowledgeNext]_knowledgeVars => WalkInv'
<1> SUFFICES ASSUME IInv, [KnowledgeNext]_knowledgeVars PROVE WalkInv'
  OBVIOUS
<1> USE DEF source, manifest, watching, index, runner, lifetime
<1>1. SourceOK /\ IndexOK /\ FlagsOK /\ RunOK /\ StageOK /\ RootsInv /\ WalkInv /\ KnowledgeTypeOK
  BY TypeParts DEF IInv
<1>2. ASSUME NEW i \in Item, Visit(i) PROVE WalkInv'
  <2>1. UNCHANGED <<file, hash, lapsed>> /\ i \in ingest.todo /\ ingest.stage = "walking"
    BY <1>1, <1>2, VisitShape
  <2>2. ingest.item = NoItem /\ \A j \in Item : file[j] = 0 => j \in lapsed
    BY <1>1, <2>1 DEF StageOK, WalkInv, Running
  <2>3. /\ ingest'.todo = ingest.todo \ {i}
        /\ \/ i \in lapsed /\ ingest'.present = ingest.present
           \/ ingest'.present = ingest.present \cup {i}
        /\ ingest'.stage = "embedding" => ingest'.text # 0
        /\ ingest'.item # NoItem => ingest'.item \in ingest'.present
    BY <1>1, <1>2, <2>1, <2>2, VisitShape
  <2> QED
    BY <1>1, <2>1, <2>2, <2>3 DEF WalkInv, Before
<1>3. CASE Embedded
  <2>1. /\ UNCHANGED <<file, lapsed>> /\ ingest'.todo = ingest.todo /\ ingest'.present = ingest.present
        /\ ingest.stage = "embedding" /\ ingest'.stage = "extracting" /\ ingest'.item = ingest.item
        /\ ingest.item \in Item /\ \A i \in Item : i # ingest.item => hash'[i] = hash[i]
    BY <1>1, <1>3, EmbeddedShape DEF IndexOK
  <2>2. ingest.item \in ingest.present
    BY <1>1, <2>1, Values DEF WalkInv
  <2> QED
    BY <1>1, <2>1, <2>2 DEF WalkInv, Before, Running
<1>4. CASE Extracted \/ ExtractFails
  BY <1>1, <1>4, BuiltShape DEF WalkInv, Before, Running
<1>5. CASE Prune
  <2>1. ingest.item = NoItem
    BY <1>1, <1>5, PruneShape DEF StageOK
  <2> QED
    BY <1>1, <1>5, <2>1, PruneShape DEF WalkInv, Before, Running
<1>6. ASSUME NEW late \in BOOLEAN, Launch(late), UNCHANGED <<file, hash>>,
             \A i \in Item \ Covered(late) : hash[i] = 0
      PROVE  WalkInv'
  BY <1>1, <1>6, LaunchShape DEF WalkInv, Before, Running
<1>7. CASE Requested
  <2>1. UNCHANGED <<file, hash>> /\ roots' \in BOOLEAN
    BY <1>1, <1>7, RequestShape
  <2>2. CASE Launch(roots')
    <3>1. \A i \in Item \ Covered(roots') : hash[i] = 0
      BY <1>1, <1>7, RequestShape DEF RootsInv, Covered, FlagsOK
    <3> QED
      BY <1>6, <2>1, <2>2, <3>1
  <2>3. CASE UNCHANGED <<ingest, lapsed>>
    BY <1>1, <2>1, <2>3 DEF WalkInv, Running
  <2> QED
    BY <1>1, <1>7, <2>2, <2>3, RequestShape
<1>8. CASE Ended
  <2>1. UNCHANGED <<file, hash>> /\ roots \in BOOLEAN /\ \A i \in Item \ Covered(roots) : hash[i] = 0
    BY <1>1, <1>8, EndShape DEF FlagsOK, RootsInv
  <2>2. CASE Launch(roots)
    BY <1>6, <2>1, <2>2
  <2>3. CASE ingest' = NoRun
    BY <2>3, NoRunIsRun DEF WalkInv, Before, Running
  <2> QED
    BY <1>1, <1>8, <2>2, <2>3, EndShape
<1>9. CASE Aside
  <2>1. CASE ingest' = NoRun
    BY <2>1, NoRunIsRun DEF WalkInv, Before, Running
  <2>2. CASE UNCHANGED ingest
    <3>1. UNCHANGED <<file, lapsed>> /\ (UNCHANGED hash \/ hash' = [i \in Item |-> 0])
      BY <1>1, <1>9, AsideShape
    <3> QED
      BY <1>1, <2>2, <3>1 DEF WalkInv, Before, Running
  <2> QED
    BY <1>1, <1>9, <2>1, <2>2, AsideShape
<1>10. ASSUME NEW i \in Item, Edit(i) PROVE WalkInv'
  BY <1>1, <1>10, EditShape DEF WalkInv, Before, Running
<1>11. CASE UNCHANGED knowledgeVars
  BY <1>1, <1>11 DEF knowledgeVars, WalkInv, Running
<1> QED
  BY <1>2, <1>3, <1>4, <1>5, <1>7, <1>8, <1>9, <1>10, <1>11, StepCases

LEMMA FreshStep == IInv /\ [KnowledgeNext]_knowledgeVars => FreshInv'
<1> SUFFICES ASSUME IInv, [KnowledgeNext]_knowledgeVars, Clean' PROVE FreshInv'
  BY DEF FreshInv
<1> USE DEF source, manifest, watching, index, runner, lifetime
<1>1. /\ SourceOK /\ IndexOK /\ FlagsOK /\ RunOK /\ StageOK /\ RootsInv /\ WalkInv /\ FreshInv
      /\ KnowledgeTypeOK
  BY TypeParts DEF IInv
<1>2. watcher' /\ ~changed' /\ ~debounce' /\ ~again'
  BY DEF Clean
<1> HIDE DEF watching
<1>0. UNCHANGED <<watching, again>> => Clean
  BY <1>2 DEF watching, Clean
<1>3. ASSUME NEW i \in Item, Visit(i) PROVE FreshInv'
  <2>1. /\ UNCHANGED <<file, hash, roots, granted>> /\ Clean /\ ingest.stage = "walking"
        /\ ingest.item = NoItem /\ ingest'.todo = ingest.todo \ {i} /\ ingest'.stage \in Before
    BY <1>1, <1>3, <1>0, VisitShape DEF StageOK, Before
  <2>2. \A j \in Covered(roots) \ ingest.todo : IF j \in ingest.present THEN hash[j] = file[j] ELSE file[j] = 0
    BY <1>1, <2>1 DEF FreshInv, Before, Done
  <2>3. i \in ingest.todo /\ i \notin ingest.present
    BY <1>1, <1>3, VisitShape DEF RootsInv
  <2>4. \A j \in Covered(roots) \ ingest'.todo : Done(j)'
    BY <1>1, <1>3, <2>1, <2>2, <2>3, VisitShape DEF Done
  <2> QED
    BY <2>1, <2>4 DEF FreshInv, Before, Running
<1>4. CASE Embedded
  <2>1. /\ UNCHANGED <<file, roots, granted>>
        /\ ingest.stage = "embedding" /\ ingest'.stage = "extracting"
        /\ ingest'.todo = ingest.todo /\ ingest'.present = ingest.present
        /\ ingest.item \in Item /\ hash'[ingest.item] = ingest.text
        /\ \A i \in Item : i # ingest.item => hash'[i] = hash[i]
    BY <1>1, <1>4, EmbeddedShape DEF IndexOK
  <2>4. Clean
    BY <1>1, <1>4, <1>0, EmbeddedShape
  <2>2. \A j \in Covered(roots) \ ingest.todo : Done(j) /\ j \in Item
    BY <1>1, <2>1, <2>4, CoveredItems DEF FreshInv, Before, FlagsOK
  <2>3. \A j \in Covered(roots) \ ingest.todo : Done(j)'
    <3> SUFFICES ASSUME NEW j \in Covered(roots) \ ingest.todo PROVE Done(j)'
      OBVIOUS
    <3>1. CASE j = ingest.item
      BY <2>1, <2>2, <3>1, <1>1, Values DEF Done, WalkInv
    <3>2. CASE j # ingest.item
      BY <2>1, <2>2, <3>2 DEF Done
    <3> QED
      BY <3>1, <3>2
  <2> QED
    BY <2>1, <2>3 DEF FreshInv, Running
<1>5. CASE Extracted \/ ExtractFails
  <2>1. /\ UNCHANGED <<file, hash, roots, granted>> /\ Clean
        /\ ingest.stage = "extracting" /\ ingest'.stage = "walking"
        /\ ingest'.todo = ingest.todo /\ ingest'.present = ingest.present
    BY <1>1, <1>5, <1>0, BuiltShape
  <2>2. \A j \in Covered(roots) \ ingest.todo : Done(j)
    BY <1>1, <2>1 DEF FreshInv, Before
  <2>3. \A j \in Covered(roots) \ ingest.todo : Done(j)'
    BY <2>1, <2>2 DEF Done
  <2> QED
    BY <2>1, <2>3 DEF FreshInv, Running
<1>6. CASE Prune
  <2>1. /\ UNCHANGED <<file, roots, granted>> /\ Clean
        /\ ingest.stage = "walking" /\ ingest'.stage = "summarizing" /\ ingest.todo = {}
        /\ hash' = [i \in Item |-> IF i \in ingest.present THEN hash[i] ELSE 0]
    BY <1>1, <1>6, <1>0, PruneShape
  <2>2. \A j \in Covered(roots) : IF j \in ingest.present THEN hash[j] = file[j] ELSE file[j] = 0
    BY <1>1, <2>1 DEF FreshInv, Before, Done
  <2>3. \A j \in Item : Current(j)'
    BY <1>1, <2>1, <2>2 DEF Current, RootsInv
  <2> QED
    BY <2>1, <2>3 DEF FreshInv, Before
<1>7. ASSUME NEW late \in BOOLEAN, Launch(late), roots' = late PROVE FreshInv'
  BY <1>7, LaunchShape DEF FreshInv, Running
<1>8. CASE Requested
  BY <1>1, <1>2, <1>7, <1>8, RequestShape
<1>9. CASE Ended
  <2>1. CASE again /\ Launch(roots)
    BY <1>1, <1>7, <1>9, <2>1, EndShape DEF FlagsOK
  <2>2. CASE ~again /\ ingest' = NoRun
    <3>1. Clean /\ UNCHANGED <<file, hash, granted>>
      BY <1>1, <1>9, <1>0, <2>2, EndShape
    <3>2. ~failed' => ingest.stage = "summarizing"
      BY <1>1, <1>9, EndShape
    <3>3. ~failed' => \A i \in Item : Current(i)'
      BY <1>1, <3>1, <3>2 DEF FreshInv, Current
    <3> QED
      BY <2>2, <3>3, NoRunIsRun DEF FreshInv, Before, Running
  <2> QED
    BY <1>1, <1>9, <2>1, <2>2, EndShape
<1>10. CASE Aside
  <2>1. UNCHANGED <<file, roots, granted, failed, ingest, hash, watcher, changed, debounce, again>>
    <3>1. watcher' /\ alive' /\ exists'
      BY <1>2, WatcherStep DEF WatcherInv
    <3>2. ~debounce'
      BY <1>2
    <3>3. UNCHANGED <<watcher, debounce, changed, alive>>
      BY <1>1, <1>10, <3>1, <3>2, AsideShape
    <3>4. UNCHANGED <<file, roots, granted, failed>>
      BY <1>1, <1>10, AsideShape
    <3>5. UNCHANGED <<ingest, again, hash>>
      BY <1>1, <1>10, <3>1, AsideShape
    <3> QED
      BY <3>3, <3>4, <3>5
  <2> QED
    BY <1>1, <1>2, <2>1 DEF FreshInv, Clean, Done, Current, Running
<1>11. ASSUME NEW i \in Item, Edit(i) PROVE FreshInv'
  <2>1. /\ UNCHANGED <<roots, granted, failed, ingest, hash>> /\ i \notin Covered(roots)
        /\ \A j \in Item : j # i => file'[j] = file[j]
    BY <1>1, <1>2, <1>11, EditShape
  <2>2. Clean
    BY <1>1, <1>2, <1>11, EditShape DEF Clean
  <2> QED
    BY <1>1, <2>1, <2>2, CoveredItems DEF FreshInv, Done, Current, Running, RootsInv, FlagsOK
<1>12. CASE UNCHANGED knowledgeVars
  BY <1>1, <1>2, <1>12 DEF knowledgeVars, watching, FreshInv, Clean, Done, Current, Running
<1> QED
  BY <1>3, <1>4, <1>5, <1>6, <1>8, <1>9, <1>10, <1>11, <1>12, StepCases
---------------------------------------------------------------------------
LEMMA InvHolds == KnowledgeSpec => []IInv
<1>1. IInv /\ [KnowledgeNext]_knowledgeVars => IInv'
  BY TypeStep, WatcherStep, RootsStep, WalkStep, FreshStep DEF IInv
<1> QED
  BY <1>1, KnowledgeStart, PTL DEF KnowledgeSpec

THEOREM KnowledgeTypeCorrect == KnowledgeSpec => []KnowledgeTypeOK
<1>1. IInv => KnowledgeTypeOK
  BY DEF IInv
<1> QED
  BY <1>1, InvHolds, PTL

(* A watched storage at rest holds the present content of its files,        *)
(* whatever is edited, added, asked for or cancelled during an ingest.      *)
THEOREM QuietIsIndexed == KnowledgeSpec => []QuietMeansIndexed
<1>1. IInv => QuietMeansIndexed
  <2>1. KnowledgeTypeOK /\ ~Running => ~again
    BY DEF KnowledgeTypeOK, Running
  <2> QED
    BY <2>1 DEF IInv, QuietMeansIndexed, FreshInv, Clean
<1> QED
  BY <1>1, InvHolds, PTL

(* An ingest deletes no row of a file that was there all along. *)
THEOREM OnlyGonePruned == KnowledgeSpec => PrunesOnlyGone
<1>1. IInv /\ [KnowledgeNext]_knowledgeVars =>
        [\A i \in Item : (hash[i] # 0 /\ hash'[i] = 0 /\ exists') => i \in lapsed]_knowledgeVars
  <2> SUFFICES ASSUME IInv, [KnowledgeNext]_knowledgeVars,
                      NEW i \in Item, hash[i] # 0, hash'[i] = 0, exists'
               PROVE  i \in lapsed
    OBVIOUS
  <2> USE DEF source, manifest, watching, index, runner, lifetime
  <2>1. IndexOK /\ WalkInv /\ KnowledgeTypeOK
    BY TypeParts DEF IInv
  <2>2. CASE Embedded
    BY <2>1, <2>2, EmbeddedShape DEF IndexOK, WalkInv
  <2>3. CASE Prune
    BY <2>1, <2>3, PruneShape DEF WalkInv, Before
  <2>4. CASE UNCHANGED hash
    BY <2>4
  <2>5. CASE Aside
    BY <2>1, <2>4, <2>5, AsideShape
  <2> QED
    BY <2>1, <2>2, <2>3, <2>4, <2>5, StepCases, VisitShape, BuiltShape, RequestShape, EndShape,
       EditShape DEF knowledgeVars
<1> QED
  BY <1>1, InvHolds, PTL DEF KnowledgeSpec, PrunesOnlyGone
=============================================================================
