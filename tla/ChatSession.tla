--------------------------- MODULE ChatSession ---------------------------
(* One browser's view of a conversation: the rows of its session store, the *)
(* branch it shows, the messages it sends ahead of the server, and the      *)
(* stream that brings the server's entries.                                 *)
(*                                                                          *)
(* Entries are numbered 1, 2, ... in conversation_index order and never     *)
(* change here, so the number of entries is also the stream cursor.  The    *)
(* k-th message the user sends has the optimistic row -k until its entry    *)
(* arrives.  0 is no row: the parent of a root.  A turn has the number of   *)
(* its message; turn 0 may be under way at the start.                       *)
EXTENDS Integers, FiniteSets, Sequences

CONSTANTS
    MaxSessionEntry,  \* bound on the entries of the conversation
    MaxMessage,       \* bound on the messages the user sends or edits
    MaxSwitch,        \* bound on the branch switches
    MaxOpen,          \* bound on the times the stream is opened
    MaxWire           \* bound on the events under way

SessionEntry == 1..MaxSessionEntry
Message == 1..MaxMessage
Turn == 0..MaxMessage
Row == -MaxMessage .. MaxSessionEntry

ASSUME SessionAssumption ==
    /\ MaxSessionEntry \in Nat /\ MaxSessionEntry >= 2
    /\ MaxMessage \in Nat /\ MaxSwitch \in Nat /\ MaxOpen \in Nat /\ MaxWire \in Nat

VARIABLES
    (* the server *)
    written,   \* entries so far
    parentId,  \* entry -> its parentId, as the request named it
    sideLane,  \* entries of the side lane
    serverAnchor,  \* default_view_leaf_entry_id
    registered, \* the turn whose scope was installed last
    runCursor, \* turn -> where its run's next entry goes, 0 when it does not run
    handler,   \* post -> where its handler stands
    asked,     \* post -> the parent the request names
    entryOf,   \* post -> the entry it became
    unsent,    \* entries whose upsert is not published yet
    stale,     \* turns that have an update of the conversation to publish
    readAnchor, \* turn -> the anchor it has read and is about to publish, or 0
    (* the stream *)
    conn,      \* "down", "opening" (subscribed, snapshot not sent), "live"
    snap,      \* what is read of the snapshot being opened, 0 where nothing yet
    wire,      \* events on their way to the browser
    opened,
    (* the browser *)
    rows,      \* rows of the store
    chosen,    \* rows with isChosen
    view,      \* viewAnchorId
    lastSeq,   \* watermark
    pending,   \* messages whose optimistic row awaits its entry
    switch,    \* where the branch switch under way stands
    target,    \* the tip it chose
    switches

runs    == <<registered, runCursor, unsent, stale, readAnchor>>
server  == <<written, parentId, sideLane, serverAnchor, handler, asked, entryOf, runs>>
stream  == <<conn, snap, wire, opened>>
browser == <<rows, chosen, view, lastSeq, pending>>
branch  == <<switch, target, switches>>
sessionVars == <<server, stream, browser, branch>>

Event ==
    [type : {"snapshot"}, seq : SessionEntry, anchor : SessionEntry, leaf : SessionEntry]
      \cup [type : {"updated"}, seq : SessionEntry, anchor : SessionEntry]
      \cup [type : {"message"}, seq : SessionEntry, entry : SessionEntry, request : Message]
      \cup [type : {"upsert"}, seq : SessionEntry, entry : SessionEntry]

SessionTypeOK ==
    /\ written \in SessionEntry
    /\ parentId \in [SessionEntry -> Row]
    /\ sideLane \subseteq 1..written
    /\ serverAnchor \in SessionEntry /\ registered \in Turn
    /\ runCursor \in [Turn -> 0..MaxSessionEntry] /\ readAnchor \in [Turn -> 0..MaxSessionEntry]
    /\ handler \in [Message -> {"unsent", "posted", "begun", "appended", "anchored", "done",
                             "failed"}]
    /\ asked \in [Message -> Row] /\ entryOf \in [Message -> 0..MaxSessionEntry]
    /\ unsent \subseteq 1..written /\ stale \subseteq Turn
    /\ conn \in {"down", "opening", "live"}
    /\ snap \in [seq : 0..MaxSessionEntry, anchor : 0..MaxSessionEntry, leaf : 0..MaxSessionEntry]
    /\ wire \in Seq(Event) /\ Len(wire) <= MaxWire + 1 /\ opened \in 0..MaxOpen
    /\ rows \subseteq Row \ {0} /\ chosen \subseteq rows
    /\ view \in 0..MaxSessionEntry /\ lastSeq \in 0..MaxSessionEntry
    /\ pending \subseteq Message
    /\ switch \in {"idle", "sent", "answered"} /\ target \in Row
    /\ switches \in 0..MaxSwitch

----------------------------------------------------------------------------
(* Trees of rows *)

\* An optimistic row has conversationIndex -1: before every entry, and among
\* its like by time.
Key(x) == IF x > 0 THEN x ELSE -(MaxMessage + 1) - x
Last(S)  == CHOOSE x \in S : \A y \in S : Key(y) <= Key(x)
First(S) == CHOOSE x \in S : \A y \in S : Key(x) <= Key(y)

ParentOf(x) == IF x > 0 THEN parentId[x] ELSE asked[-x]
SpineKids(R, p) == {x \in R \ sideLane : ParentOf(x) = p}
SideKids(R, p)  == {x \in R \cap sideLane : ParentOf(x) = p}

\* f applied to x as often as there are rows: every walk has ended by then.
Walk(f, x) ==
    LET at[k \in 0..Cardinality(Row)] == IF k = 0 THEN x ELSE f[at[k - 1]]
    IN  at[Cardinality(Row)]

\* Down to the latest spine child until there is none.
WalkToLatestLeaf(R, start) ==
    Walk([x \in Row |-> IF SpineKids(R, x) = {} THEN x ELSE Last(SpineKids(R, x))],
         start)

\* The rows from a leaf up to a root, or up to a parent that is not there.
Lineage(R, leaf) ==
    LET above == [x \in Row |-> IF x \in R THEN ParentOf(x) ELSE x]
        up[k \in 0..Cardinality(Row)] == IF k = 0 THEN leaf ELSE above[up[k - 1]]
    IN  {up[k] : k \in 0..Cardinality(R)} \ {0}
Rooted(R, leaf) == Lineage(R, leaf) \subseteq R

\* Mutant: siblings keep their flag.
ChooseAlso(R, C, path) == C \cup path

\* chooseEntry on every row of a lineage: each clears its siblings.
Choose(R, C, path) ==
    (C \ UNION {SpineKids(R, ParentOf(x)) : x \in path}) \cup path

\* The tip of the path the transcript shows: chosen rows from a root down.
PathTip(R, C) ==
    LET roots == SpineKids(R, 0)
        next == [x \in Row |-> IF SpineKids(R, x) \cap C = {} THEN x
                               ELSE First(SpineKids(R, x) \cap C)]
    IN  IF roots = {} THEN 0
        ELSE Walk(next, IF roots \cap C # {} THEN First(roots \cap C) ELSE Last(roots))

Path(R, C) == IF PathTip(R, C) = 0 THEN {} ELSE Lineage(R, PathTip(R, C))

\* The last row of the transcript: the tip, or the end of the side thoughts
\* shown below it.
LastRow(R, C) ==
    Walk([x \in Row |-> IF SideKids(R, x) = {} THEN x ELSE Last(SideKids(R, x))],
         PathTip(R, C))

\* Mutant: the anchor itself is the tip.
SyncViewAnchorOnly(R, C, v) ==
    IF v \notin R \/ ~Rooted(R, v) THEN C ELSE Choose(R, C, Lineage(R, v))

\* Show the branch of the view anchor, if every row up to the root is there.
SyncView(R, C, v) ==
    LET roots == SpineKids(R, 0)
        start == IF v \in R THEN v ELSE Last(roots)
        tip == WalkToLatestLeaf(R, start)
    IN  IF (v \notin R /\ roots = {}) \/ ~Rooted(R, tip) THEN C
        ELSE Choose(R, C, Lineage(R, tip))

\* The server's resolution of its anchor.
ServerTip == WalkToLatestLeaf(1..written, serverAnchor)

----------------------------------------------------------------------------

Unread == [seq |-> 0, anchor |-> 0, leaf |-> 0]

\* A first turn, a message and its answer, or a message and the thought of a
\* run that goes on, with no browser; an earlier page may have used up some of
\* the openings.
SessionInit ==
    /\ written = 2
    /\ parentId = [e \in SessionEntry |-> IF e = 2 THEN 1 ELSE 0]
    /\ sideLane = {} /\ serverAnchor \in {1, 2} /\ registered = 0
    /\ runCursor = [r \in Turn |-> IF r = 0 /\ serverAnchor = 1 THEN 2 ELSE 0]
    /\ readAnchor = [r \in Turn |-> 0]
    /\ handler = [m \in Message |-> "unsent"]
    /\ asked = [m \in Message |-> 0] /\ entryOf = [m \in Message |-> 0]
    /\ unsent = {} /\ stale = {r \in Turn : runCursor[r] # 0}
    /\ conn = "down" /\ snap = Unread /\ wire = <<>> /\ opened \in 0..MaxOpen
    /\ rows = {} /\ chosen = {} /\ view = 0 /\ lastSeq = 0 /\ pending = {}
    /\ switch = "idle" /\ target = 0 /\ switches = 0

\* The hub hands an event to the subscribers there are.
Publish(events) ==
    /\ Len(wire) + Len(events) <= MaxWire
    /\ wire' = IF conn = "down" THEN wire ELSE wire \o events
    /\ UNCHANGED <<conn, snap, opened>>

\* The anchor is read an await before the event is stamped.
Updated(r) == [type |-> "updated", seq |-> written, anchor |-> readAnchor[r]]

AppendEntry(p, lane) ==
    /\ written < MaxSessionEntry
    /\ written' = written + 1
    /\ parentId' = [parentId EXCEPT ![written + 1] = p]
    /\ sideLane' = IF lane = "side" THEN sideLane \cup {written + 1} ELSE sideLane

(* A posted message or an edit of one: append, set the anchor, publish.     *)

\* "parentId is required when conversation already has messages" (an edit
\* takes its source's).
Orphan(m) == asked[m] = 0 /\ m \in pending

Handling(r) == r # 0 /\ handler[r] \in {"begun", "appended", "anchored"}
Publishing(r) == r \in stale \/ readAnchor[r] # 0
HandlerTo(m, s) == handler' = [handler EXCEPT ![m] = s]

\* beginRun: the turn that is registered is aborted and has finished.  Those
\* that awaited the same one are all installed, and the last is registered; a
\* turn that is not registered is left alone.
PostBegin(S, last) ==
    /\ \A m \in S : handler[m] = "posted"
    /\ ~Handling(registered) /\ ~Publishing(registered)
    /\ S = {last} \/ runCursor[registered] # 0
    /\ handler' = [m \in Message |-> IF m \in S THEN "begun" ELSE handler[m]]
    /\ runCursor' = [runCursor EXCEPT ![registered] = 0] /\ registered' = last
    /\ UNCHANGED <<written, parentId, sideLane, serverAnchor, asked, entryOf, unsent, stale,
                   readAnchor, stream, browser, branch>>

PostReject(m) ==
    /\ handler[m] = "begun" /\ Orphan(m)
    /\ HandlerTo(m, "failed")
    /\ UNCHANGED <<written, parentId, sideLane, serverAnchor, asked, entryOf, runs,
                   stream, browser, branch>>

PostAppend(m) ==
    /\ handler[m] = "begun" /\ ~Orphan(m)
    /\ AppendEntry(asked[m], "spine")
    /\ entryOf' = [entryOf EXCEPT ![m] = written + 1]
    /\ HandlerTo(m, "appended")
    /\ UNCHANGED <<serverAnchor, asked, runs, stream, browser, branch>>

PostAnchor(m) ==
    /\ handler[m] = "appended"
    /\ serverAnchor' = entryOf[m]
    /\ HandlerTo(m, "anchored")
    /\ UNCHANGED <<written, parentId, sideLane, asked, entryOf, runs, stream, browser, branch>>

PostPublish(m) ==
    /\ handler[m] = "anchored" /\ readAnchor[m] # 0
    /\ Publish(<<Updated(m), [type |-> "message", seq |-> written,
                              entry |-> entryOf[m], request |-> m]>>)
    /\ HandlerTo(m, "done")
    /\ runCursor' = [runCursor EXCEPT ![m] = entryOf[m]]
    /\ readAnchor' = [readAnchor EXCEPT ![m] = 0]
    /\ UNCHANGED <<written, parentId, sideLane, serverAnchor, asked, entryOf, registered, unsent,
                   stale, browser, branch>>

(* The runs: spine entries at their cursors, side thoughts at a message, at *)
(* the tip of the chain, or, recategorizing, at the resolved leaf.          *)

\* A step that used tokens is followed by an update of the conversation.
UsedTokens(r) == stale' \in {stale} \cup {stale \cup {o} : o \in {r} \ {m \in Message : Handling(m)}}

RunAppend(r) ==
    /\ runCursor[r] # 0
    /\ AppendEntry(runCursor[r], "spine")
    /\ runCursor' = [runCursor EXCEPT ![r] = written + 1]
    /\ unsent' = unsent \cup {written + 1} /\ UsedTokens(r)
    /\ UNCHANGED <<serverAnchor, handler, asked, entryOf, registered, readAnchor,
                   stream, browser, branch>>

SideAppend ==
    /\ \E a \in {ServerTip} \cup {runCursor[r] : r \in Turn} \cup {entryOf[m] : m \in Message} :
         a # 0 /\ AppendEntry(a, "side")
    /\ unsent' = unsent \cup {written + 1}
    /\ \E r \in Turn : (r = registered \/ runCursor[r] # 0) /\ UsedTokens(r)
    /\ UNCHANGED <<serverAnchor, handler, asked, entryOf, registered, runCursor, readAnchor,
                   stream, browser, branch>>

UpsertPublish ==
    /\ \E e \in unsent :
         /\ Publish(<<[type |-> "upsert", seq |-> written, entry |-> e]>>)
         /\ unsent' = unsent \ {e}
    /\ UNCHANGED <<written, parentId, sideLane, serverAnchor, handler, asked, entryOf, registered,
                   runCursor, stale, readAnchor, browser, branch>>

\* The final answer becomes the anchor.  A run has appended its thought and
\* the answer by then.
Answer(r) ==
    /\ runCursor[r] \notin {0} \cup {entryOf[m] : m \in Message}
    /\ serverAnchor' = runCursor[r] /\ runCursor' = [runCursor EXCEPT ![r] = 0]
    /\ stale' = stale \cup {r}
    /\ UNCHANGED <<written, parentId, sideLane, handler, asked, entryOf, registered, unsent,
                   readAnchor, stream, browser, branch>>

\* A run is cancelled or fails: no answer, and the anchor stays.
StopRun(r) ==
    /\ runCursor[r] # 0
    /\ runCursor' = [runCursor EXCEPT ![r] = 0]
    /\ UNCHANGED <<written, parentId, sideLane, serverAnchor, handler, asked, entryOf, registered,
                   unsent, stale, readAnchor, stream, browser, branch>>

\* After the anchor was set, and after a step that used tokens.
ReadAnchor(r) ==
    /\ readAnchor[r] = 0
    /\ r \in stale \/ (r # 0 /\ handler[r] = "anchored")
    /\ readAnchor' = [readAnchor EXCEPT ![r] = serverAnchor]
    /\ stale' = stale \ {r}
    /\ UNCHANGED <<written, parentId, sideLane, serverAnchor, handler, asked, entryOf, registered,
                   runCursor, unsent, stream, browser, branch>>

UpdatePublish(r) ==
    /\ readAnchor[r] # 0 /\ ~Handling(r)
    /\ wire # <<>> => wire[Len(wire)] # Updated(r)
    /\ Publish(<<Updated(r)>>)
    /\ readAnchor' = [readAnchor EXCEPT ![r] = 0]
    /\ UNCHANGED <<written, parentId, sideLane, serverAnchor, handler, asked, entryOf, registered,
                   runCursor, unsent, stale, browser, branch>>

----------------------------------------------------------------------------
(* The stream *)

\* The page subscribes, and again whenever the connection is lost: the server
\* subscribes to the hub before it reads the snapshot.
Open ==
    /\ conn # "opening" /\ opened < MaxOpen
    /\ conn' = "opening" /\ snap' = Unread /\ wire' = <<>> /\ opened' = opened + 1
    /\ UNCHANGED <<server, browser, branch>>

\* Entries and watermark are read in one transaction; beside it the
\* conversation with its anchor, then the leaf, from a look at the anchor of
\* its own.  With all of them the snapshot goes out, ahead of what was buffered
\* meanwhile.
Took(s) ==
    /\ IF s.seq # 0 /\ s.leaf # 0
       THEN /\ conn' = "live" /\ snap' = Unread
            /\ wire' = <<[type |-> "snapshot", seq |-> s.seq,
                          anchor |-> s.anchor, leaf |-> s.leaf]>> \o wire
       ELSE snap' = s /\ UNCHANGED <<conn, wire>>
    /\ UNCHANGED <<opened, server, browser, branch>>

ReadEntries ==
    /\ conn = "opening" /\ snap.seq = 0
    /\ Took([snap EXCEPT !.seq = written])

ReadView ==
    /\ conn = "opening" /\ snap.anchor = 0
    /\ snap' = [snap EXCEPT !.anchor = serverAnchor]
    /\ UNCHANGED <<conn, wire, opened, server, browser, branch>>

ReadLeaf ==
    /\ conn = "opening" /\ snap.anchor # 0 /\ snap.leaf = 0
    /\ Took([snap EXCEPT !.leaf = ServerTip])

----------------------------------------------------------------------------
(* The browser *)

Show(R, C, v) == rows' = R /\ view' = v /\ chosen' = SyncView(R, C, v)

\* The whole store is replaced; a leaf whose lineage has a gap throws, and the
\* store stays as it was.
ApplySnapshot(ev) ==
    LET R == 1..ev.seq
        start == IF ev.leaf \in R THEN ev.leaf
                 ELSE WalkToLatestLeaf(R, Last(SpineKids(R, 0)))
    IN  IF Rooted(R, start)
        THEN /\ Show(R, Choose(R, {}, Lineage(R, start)), ev.anchor)
             /\ lastSeq' = ev.seq
             /\ UNCHANGED pending
        ELSE UNCHANGED browser

\* Mutant: the optimistic row stays.
RekeyedBeside(m, e) ==
    LET R == rows \cup {e}
    IN  [rows |-> R, chosen |-> SyncView(R, Choose(R, chosen, {e}), view)]

\* The entry takes its optimistic row's place and its flag.
Rekeyed(m, e) ==
    LET R == (rows \ {-m}) \cup {e}
        C == chosen \ {-m}
    IN  [rows |-> R,
         chosen |-> SyncView(R, IF -m \in chosen THEN Choose(R, C, {e}) ELSE C, view)]

\* A row that is there already is not appended, and nothing is synced.
Appended(e) ==
    [rows |-> rows \cup {e},
     chosen |-> IF e \in rows THEN chosen ELSE SyncView(rows \cup {e}, chosen, view)]

ApplyMessage(ev) ==
    LET next == IF ev.request \in pending /\ -ev.request \in rows
                THEN Rekeyed(ev.request, ev.entry)
                ELSE Appended(ev.entry)
    IN  /\ Show(next.rows, next.chosen, ev.entry)
        /\ pending' = pending \ {ev.request}
        /\ UNCHANGED lastSeq

ApplyUpsert(ev) ==
    /\ Show(rows \cup {ev.entry}, chosen, view)
    /\ UNCHANGED <<lastSeq, pending>>

ApplyUpdated(ev) ==
    /\ Show(rows, chosen, ev.anchor)
    /\ UNCHANGED <<lastSeq, pending>>

\* Mutant: off by one.
GatedNext(ev) == ev.type # "snapshot" /\ ev.seq <= lastSeq + 1

\* The watermark gate.
Gated(ev) == ev.type # "snapshot" /\ ev.seq <= lastSeq

Receive ==
    /\ conn = "live" /\ wire # <<>>
    /\ wire' = Tail(wire)
    /\ LET ev == Head(wire) IN
         \/ Gated(ev) /\ UNCHANGED browser
         \/ /\ ~Gated(ev)
            /\ \/ ev.type = "snapshot" /\ ApplySnapshot(ev)
               \/ ev.type = "message"  /\ ApplyMessage(ev)
               \/ ev.type = "upsert"   /\ ApplyUpsert(ev)
               \/ ev.type = "updated"  /\ ApplyUpdated(ev)
    /\ UNCHANGED <<conn, snap, opened, server, branch>>

Fresh(m) == handler[m] = "unsent" /\ \A o \in 1..(m - 1) : handler[o] # "unsent"

\* The composer sends one message at a time: an optimistic row below the last
\* row of the transcript, and a request that names that row as the parent.
Send(m) ==
    /\ Fresh(m)
    /\ \A o \in pending : handler[o] \in {"done", "failed"}
    /\ asked' = [asked EXCEPT ![m] = LastRow(rows, chosen)]
    /\ handler' = [handler EXCEPT ![m] = "posted"]
    /\ pending' = pending \cup {m}
    /\ rows' = rows \cup {-m}
    /\ UNCHANGED <<written, parentId, sideLane, serverAnchor, entryOf, runs, stream, view, lastSeq, branch>>
    \* The new row's parent is asked', so the sync is of the next state.
    /\ \E C \in {chosen} : chosen' = SyncView(rows, C, view)'

\* An edited message becomes a sibling of the one it edits, without an
\* optimistic row.  Entry 1 is a message.
SendEdit(m) ==
    /\ Fresh(m)
    /\ \E e \in rows \cap ({1} \cup {entryOf[o] : o \in Message}) :
          asked' = [asked EXCEPT ![m] = parentId[e]]
    /\ handler' = [handler EXCEPT ![m] = "posted"]
    /\ UNCHANGED <<written, parentId, sideLane, serverAnchor, entryOf, runs, stream, browser, branch>>

SwitchBranch ==
    /\ switch = "idle" /\ switches < MaxSwitch
    /\ \E e \in rows \ sideLane :
         LET tip == WalkToLatestLeaf(rows, e)
             line == {x \in Lineage(rows, tip) : e \in Lineage(rows, x)}
         IN  /\ SpineKids(rows, ParentOf(e)) # {e}
             /\ chosen' = Choose(rows, chosen, line)
             /\ target' = tip
    /\ switch' = "sent" /\ switches' = switches + 1
    /\ UNCHANGED <<server, stream, rows, view, lastSeq, pending>>

\* Mutant: the server takes any tip.
SwitchArrivesUnchecked ==
    /\ switch = "sent"
    /\ serverAnchor' = target /\ switch' = "answered"
    /\ UNCHANGED <<written, parentId, sideLane, handler, asked, entryOf, runs, stream, browser,
                   target, switches>>

\* An optimistic row is unknown to the server, and the request fails.
SwitchArrives ==
    /\ switch = "sent"
    /\ \/ /\ target \in 1..written
          /\ serverAnchor' = target /\ switch' = "answered"
          /\ UNCHANGED target
       \/ /\ target \notin 1..written
          /\ switch' = "idle" /\ target' = 0
          /\ UNCHANGED serverAnchor
    /\ UNCHANGED <<written, parentId, sideLane, handler, asked, entryOf, runs, stream, browser,
                   switches>>

SwitchDone ==
    /\ switch = "answered"
    /\ Show(rows, chosen, target)
    /\ switch' = "idle" /\ target' = 0
    /\ UNCHANGED <<server, stream, lastSeq, pending, switches>>

Run ==
    \/ \E r \in Turn : RunAppend(r) \/ Answer(r) \/ StopRun(r) \/ ReadAnchor(r) \/ UpdatePublish(r)
    \/ SideAppend \/ UpsertPublish

SessionNext ==
    \/ \E S \in SUBSET Message : \E last \in S : PostBegin(S, last)
    \/ \E m \in Message : PostReject(m) \/ PostAppend(m) \/ PostAnchor(m) \/ PostPublish(m)
    \/ Run
    \/ Open \/ ReadEntries \/ ReadView \/ ReadLeaf
    \/ Receive
    \/ \E m \in Message : Send(m) \/ SendEdit(m)
    \/ SwitchBranch \/ SwitchArrives \/ SwitchDone

SessionSpec == SessionInit /\ [][SessionNext]_sessionVars

----------------------------------------------------------------------------
(* Properties *)

\* Nothing under way: the browser has all it will get.
Settled ==
    /\ conn = "live" /\ wire = <<>> /\ unsent = {}
    /\ \A r \in Turn : runCursor[r] = 0 /\ ~Publishing(r)
    /\ \A m \in Message : handler[m] \in {"unsent", "done", "failed"}
    /\ switch = "idle"

\* Every parent the server was told of is an entry of its own.
Whole == \A e \in 1..written : parentId[e] \in 0..written

\* No spine entry hangs below a side thought.
Straight == \A e \in 1..written : e \notin sideLane => parentId[e] \notin sideLane

\* At most one row is chosen at a fork, whatever order optimistic rows,
\* events, snapshots and branch switches come in (pathFromChosen follows the
\* first).
OneChosenPerFork ==
    \A x, y \in chosen \ sideLane : ParentOf(x) = ParentOf(y) => x = y

\* A message and its optimistic row are never both shown.
NoDoubleBubble ==
    \A m \in Message : -m \in rows => entryOf[m] \notin rows

\* The watermark gate drops nothing the snapshot lacks: once everything is
\* delivered the store holds exactly the server's entries, and no optimistic
\* row but one whose request failed.
SettledShowsAll ==
    Settled /\ Whole => rows \ {-m : m \in {o \in Message : handler[o] = "failed"}} = 1..written

\* "Reload after a run yields the same branch tip as the live SSE stream
\* produced": from the same anchor the browser, by chosen flags and events in
\* any order, and the server, by walking, come to the same tip, where no
\* branch switch races the run.
ReloadAgrees ==
    Settled /\ Whole /\ Straight /\ switches = 0 /\ view = serverAnchor
        => PathTip(rows, chosen) = ServerTip

\* "... so reload shows the just-sent message": the message the anchor is on is
\* on the path the browser shows.
SentMessageIsShown ==
    \A m \in Message :
        view = entryOf[m] /\ view \in rows /\ switches = 0 => view \in Path(rows, chosen)
==========================================================================
