---------------------------- MODULE Knowledge ----------------------------
(* One knowledge storage: the index that ingests build from a source of     *)
(* files, the runner that lets one ingest run at a time and remembers that  *)
(* another is wanted, and the watcher that asks for one a while after a     *)
(* change.                                                                  *)
(*                                                                          *)
(* A file's content is a version number, 0 when there is no file; a row of  *)
(* the index holds the version it was made from, 0 when there is no row.    *)
(* Chunks, vectors and the rows of the graph are abstracted to the version  *)
(* they come from.  An action is the code between two awaits; the store     *)
(* itself is synchronous.                                                   *)
EXTENDS Naturals, FiniteSets

CONSTANTS
    Item,         \* files under the roots of the storage
    Late,         \* those under a root that add_source adds
    KEnv,         \* a subset of KnowledgeEvent
    MaxVersion,   \* bound on the versions of a file
    MaxEdit,      \* bound on the number of changes to files
    MaxDeath      \* bound on the number of process crashes

KnowledgeEvent == {"embed failure", "extract failure", "cancel", "delete", "manual", "toggle"}
NoItem == "no item"

ASSUME KnowledgeAssumption ==
    /\ Late \subseteq Item /\ NoItem \notin Item /\ KEnv \subseteq KnowledgeEvent
    /\ MaxVersion \in Nat \ {0} /\ MaxEdit \in Nat /\ MaxDeath \in Nat

VARIABLES
    file,      \* item -> the version on disk
    exists,    \* the storage has its file
    roots,     \* the manifest names the late root
    granted,   \* history: add_source was answered
    watch,     \* the manifest's watch flag
    watcher,   \* a subscription to the source is active
    changed,   \* the subscription has a change to report
    debounce,  \* the timer of the quiet period is set
    hash,      \* item -> content_hash of its row
    graph,     \* item -> the version its graph rows come from
    graphOk,   \* item -> graph_ok of its row
    ingest,    \* the run in progress
    again,     \* pending: another run is wanted
    cancelled, \* the run's task is told to stop
    failed,    \* history: the last run to end has failed
    lapsed,    \* history: items that were not there at some time of the run
    edits, alive, deaths

source == <<file, edits>>
manifest == <<exists, roots, granted, watch>>
watching == <<watcher, changed, debounce>>
index == <<hash, graph, graphOk>>
runner == <<ingest, again, cancelled, failed, lapsed>>
lifetime == <<alive, deaths>>
knowledgeVars == <<source, manifest, watching, index, runner, lifetime>>

Version == 0..MaxVersion
Stage   == {"none", "walking", "embedding", "extracting", "summarizing"}

KnowledgeTypeOK ==
    /\ file \in [Item -> Version] /\ hash \in [Item -> Version]
    /\ graph \in [Item -> Version] /\ graphOk \in [Item -> BOOLEAN]
    /\ exists \in BOOLEAN /\ roots \in BOOLEAN /\ granted \in BOOLEAN /\ watch \in BOOLEAN
    /\ watcher \in BOOLEAN /\ changed \in BOOLEAN /\ debounce \in BOOLEAN
    /\ ingest \in [stage : Stage, todo : SUBSET Item, present : SUBSET Item,
                   item : Item \cup {NoItem}, text : Version]
    /\ again \in BOOLEAN /\ cancelled \in BOOLEAN /\ failed \in BOOLEAN /\ alive \in BOOLEAN
    /\ ingest.item # NoItem <=> ingest.stage \in {"embedding", "extracting"}
    /\ again => ingest.stage # "none"
    /\ lapsed \subseteq Item /\ edits \in 0..MaxEdit /\ deaths \in 0..MaxDeath

NoRun == [stage |-> "none", todo |-> {}, present |-> {}, item |-> NoItem, text |-> 0]

KnowledgeInit ==
    /\ file = [i \in Item |-> 1] /\ edits = 0
    /\ exists = TRUE /\ roots = FALSE /\ granted = FALSE /\ watch \in BOOLEAN
    /\ watcher = watch /\ debounce = watch /\ changed = FALSE
    /\ hash = [i \in Item |-> 0] /\ graph = [i \in Item |-> 0] /\ graphOk = [i \in Item |-> TRUE]
    /\ ingest = NoRun /\ again = FALSE /\ cancelled = FALSE /\ failed = FALSE
    /\ lapsed = {} /\ alive = TRUE /\ deaths = 0
---------------------------------------------------------------------------
Running == ingest.stage # "none"

(* What the roots of the manifest lead to. *)
Covered(late) == IF late THEN Item ELSE Item \ Late

(* execute and ingest, up to the first await: the manifest is read here. *)
Launch(late) ==
    /\ ingest' = [NoRun EXCEPT !.stage = "walking", !.todo = Covered(late)]
    /\ cancelled' = FALSE /\ again' = FALSE
    /\ lapsed' = {i \in Item : file[i] = 0}

(* Mutant: a request during a run is answered by that run alone. *)
RequestJoins(late) ==
    IF Running THEN UNCHANGED <<ingest, again, cancelled, lapsed>> ELSE Launch(late)

(* IngestRunner.run. *)
RequestRun(late) ==
    IF Running THEN again' = TRUE /\ UNCHANGED <<ingest, cancelled, lapsed>> ELSE Launch(late)

(* Mutant: the run that is wanted stays wanted. *)
EndRunPending(fails) ==
    /\ failed' = fails
    /\ ingest' = NoRun /\ cancelled' = FALSE /\ UNCHANGED <<again, lapsed>>

(* The finally of the run: the next one starts in the same tick. *)
EndRun(fails) ==
    /\ failed' = fails
    /\ IF again THEN Launch(roots)
       ELSE ingest' = NoRun /\ cancelled' = FALSE /\ UNCHANGED <<again, lapsed>>
---------------------------------------------------------------------------
(* IngestionService.ingest. *)

(* Mutant: an item that is skipped is not counted as present. *)
SeenIfStale(i) == IF hash[i] = file[i] /\ graphOk[i] THEN {} ELSE {i}

Seen(i) == {i}

Unchanged(i) == hash[i] = file[i] /\ graphOk[i]

(* The walk comes to an item: it has gone, or is unchanged and skipped, or  *)
(* is read to be embedded.  A file that appears behind the walk's back is   *)
(* as one visited before it appeared.                                       *)
Visit(i) ==
    /\ alive /\ exists /\ ingest.stage = "walking" /\ i \in ingest.todo /\ ~cancelled
    /\ LET rest == [ingest EXCEPT !.todo = @ \ {i}]
           seen == [rest EXCEPT !.present = @ \cup Seen(i)]
       IN \/ file[i] = 0 /\ ingest' = rest
          \/ file[i] # 0 /\ Unchanged(i) /\ ingest' = seen
          \/ /\ file[i] # 0 /\ ~Unchanged(i)
             /\ ingest' = [seen EXCEPT !.stage = "embedding", !.item = i, !.text = file[i]]
    /\ UNCHANGED <<source, manifest, watching, index, again, cancelled, failed, lapsed, lifetime>>

(* embed returns: replaceSource keeps the row's graph_ok, and the old graph. *)
Embedded ==
    /\ alive /\ exists /\ ingest.stage = "embedding"
    /\ hash' = [hash EXCEPT ![ingest.item] = ingest.text]
    /\ ingest' = [ingest EXCEPT !.stage = "extracting"]
    /\ UNCHANGED <<source, manifest, watching, graph, graphOk, again, cancelled, failed, lapsed, lifetime>>

NextItem == [ingest EXCEPT !.stage = "walking", !.item = NoItem, !.text = 0]

(* replaceSourceGraph with what the builder extracted: graph_ok stays. *)
Extracted ==
    /\ alive /\ exists /\ ingest.stage = "extracting"
    /\ graph' = [graph EXCEPT ![ingest.item] = ingest.text]
    /\ ingest' = NextItem
    /\ UNCHANGED <<source, manifest, watching, hash, graphOk, again, cancelled, failed, lapsed, lifetime>>

(* The extraction fails: an empty graph and a flag for the next ingest. *)
ExtractFails ==
    /\ alive /\ exists /\ ingest.stage = "extracting" /\ ~cancelled /\ "extract failure" \in KEnv
    /\ graph' = [graph EXCEPT ![ingest.item] = 0]
    /\ graphOk' = [graphOk EXCEPT ![ingest.item] = FALSE]
    /\ ingest' = NextItem
    /\ UNCHANGED <<source, manifest, watching, hash, again, cancelled, failed, lapsed, lifetime>>

(* The walk is over: the rows of what it has not come by are deleted.  There *)
(* is no look at the signal before.                                          *)
Prune ==
    /\ alive /\ exists /\ ingest.stage = "walking" /\ ingest.todo = {}
    /\ hash' = [i \in Item |-> IF i \in ingest.present THEN hash[i] ELSE 0]
    /\ graph' = [i \in Item |-> IF i \in ingest.present THEN graph[i] ELSE 0]
    /\ graphOk' = [i \in Item |-> i \in ingest.present => graphOk[i]]
    /\ ingest' = [ingest EXCEPT !.stage = "summarizing"]
    /\ UNCHANGED <<source, manifest, watching, again, cancelled, failed, lapsed, lifetime>>

(* updateManifest merges the run's two fields into the manifest of now. *)
Complete ==
    /\ alive /\ exists /\ ingest.stage = "summarizing"
    /\ EndRun(FALSE)
    /\ UNCHANGED <<source, manifest, watching, index, lifetime>>

(* The run throws: its signal, an embedding that fails, a store closed under *)
(* it.  A completed walk does not look at the signal, a pass over long       *)
(* descriptions does.                                                        *)
Throw ==
    /\ alive /\ Running
    /\ \/ ~exists
       \/ cancelled /\ (ingest.stage # "walking" \/ ingest.todo # {})
       \/ ingest.stage = "embedding" /\ "embed failure" \in KEnv
    /\ EndRun(TRUE)
    /\ UNCHANGED <<source, manifest, watching, index, lifetime>>

(* TaskRegistryService.cancel. *)
CancelIngest ==
    /\ alive /\ Running /\ ~cancelled /\ "cancel" \in KEnv
    /\ cancelled' = TRUE
    /\ UNCHANGED <<source, manifest, watching, index, ingest, again, failed, lapsed, lifetime>>
---------------------------------------------------------------------------
(* The watcher and the requests. *)

(* A file changes.  The watcher reports each change under a watched root:   *)
(* a root that fs.watch cannot watch, or stops watching, is left out.       *)
Edit(i) ==
    /\ edits < MaxEdit /\ edits' = edits + 1
    /\ \E v \in Version \ {file[i]} : file' = [file EXCEPT ![i] = v]
    /\ changed' = (changed \/ (watcher /\ i \in Covered(roots)))
    /\ lapsed' = IF file'[i] = 0 THEN lapsed \cup {i} ELSE lapsed
    /\ UNCHANGED <<manifest, watcher, debounce, index, ingest, again, cancelled, failed, lifetime>>

(* schedule: the timer starts anew. *)
Notify ==
    /\ alive /\ changed
    /\ changed' = FALSE /\ debounce' = TRUE
    /\ UNCHANGED <<source, manifest, watcher, index, runner, lifetime>>

Fire ==
    /\ alive /\ debounce
    /\ debounce' = FALSE /\ RequestRun(roots)
    /\ UNCHANGED <<source, manifest, watcher, changed, index, failed, lifetime>>

Ingest ==
    /\ alive /\ exists /\ "manual" \in KEnv
    /\ RequestRun(roots)
    /\ UNCHANGED <<source, manifest, watching, index, failed, lifetime>>

(* Mutant: watching starts without an ingest. *)
SubscribeQuietly(wanted) ==
    /\ watcher' = wanted /\ changed' = FALSE /\ debounce' = FALSE

(* A fresh subscription catches up; the end of one drops what it held. *)
Subscribe(wanted) ==
    /\ watcher' = wanted /\ changed' = FALSE /\ debounce' = wanted

(* addSource: the manifest, the watcher's restart, a run. *)
AddSource ==
    /\ alive /\ exists /\ ~roots
    /\ roots' = TRUE /\ granted' = TRUE
    /\ IF watch THEN Subscribe(TRUE) ELSE UNCHANGED watching
    /\ RequestRun(TRUE)
    /\ UNCHANGED <<source, exists, watch, index, failed, lifetime>>

ToggleWatch ==
    /\ alive /\ exists /\ "toggle" \in KEnv
    /\ watch' = ~watch /\ Subscribe(~watch)
    /\ UNCHANGED <<source, exists, roots, granted, index, runner, lifetime>>

(* The file goes, and reconcile ends the subscription. *)
DeleteStorage ==
    /\ alive /\ exists /\ "delete" \in KEnv
    /\ exists' = FALSE /\ Subscribe(FALSE)
    /\ hash' = [i \in Item |-> 0] /\ graph' = hash' /\ graphOk' = [i \in Item |-> TRUE]
    /\ UNCHANGED <<source, roots, granted, watch, runner, lifetime>>

Die ==
    /\ alive /\ deaths < MaxDeath
    /\ alive' = FALSE /\ deaths' = deaths + 1
    /\ ingest' = NoRun /\ again' = FALSE /\ cancelled' = FALSE
    /\ Subscribe(FALSE)
    /\ UNCHANGED <<source, manifest, index, failed, lapsed>>

(* onModuleInit: reconcile. *)
Restart ==
    /\ ~alive /\ alive' = TRUE
    /\ Subscribe(exists /\ watch)
    /\ UNCHANGED <<source, manifest, index, runner, deaths>>
---------------------------------------------------------------------------
(* What goes on without anybody asking for it. *)
KnowledgeWork ==
    \/ \E i \in Item : Visit(i)
    \/ Embedded \/ Extracted \/ ExtractFails \/ Prune \/ Complete \/ Throw
    \/ Notify \/ Fire \/ Restart

KnowledgeNext ==
    \/ KnowledgeWork
    \/ \E i \in Item : Edit(i)
    \/ CancelIngest \/ Ingest \/ AddSource \/ ToggleWatch \/ DeleteStorage \/ Die

KnowledgeSpec == KnowledgeInit /\ [][KnowledgeNext]_knowledgeVars

(* Promises and timers settle as long as there are any; nobody has to edit, *)
(* ask or cancel.                                                           *)
KnowledgeFairSpec == KnowledgeSpec /\ WF_knowledgeVars(KnowledgeWork)
---------------------------------------------------------------------------
(* Properties. *)

Current(i) == hash[i] = IF i \in Covered(granted) THEN file[i] ELSE 0

(* IngestRunner and KnowledgeWatchService: a watched storage at rest, whose *)
(* last run has not failed, holds the present content of every file, also   *)
(* of one that changed while it was being ingested and of a root added then. *)
QuietMeansIndexed ==
    (alive /\ exists /\ watcher /\ ~changed /\ ~debounce /\ ~Running /\ ~failed)
        => \A i \in Item : Current(i)

(* The pruning of ingest: a row goes only if its file was missing at some   *)
(* time of the run.                                                         *)
PrunesOnlyGone ==
    [][\A i \in Item : (hash[i] # 0 /\ hash'[i] = 0 /\ exists') => i \in lapsed]_knowledgeVars

(* A change to a watched file reaches the index, unless a run fails or the  *)
(* watching ends.                                                           *)
ChangesGetIndexed ==
    \A i \in Item :
        (watcher /\ ~Current(i)) ~> (Current(i) \/ ~watcher \/ failed)

(* Disagreements with the comment on IngestionService.                      *)

(* "the next ingest retries it instead of hash-skipping a half-ingested     *)
(* item": at rest, a row without the graph of its content is flagged.       *)
HalfIngestedFlagged ==
    (alive /\ ~Running) => \A i \in Item : graph[i] = hash[i] \/ ~graphOk[i]

(* "Unchanged items are skipped": an item whose row and graph both come     *)
(* from its present content is not embedded again.                          *)
UnchangedSkipped ==
    [][\A i \in Item :
        (ingest'.stage = "embedding" /\ ingest'.item = i /\ ingest.stage = "walking")
            => ~(hash[i] = file[i] /\ graph[i] = file[i])]_knowledgeVars
=============================================================================
