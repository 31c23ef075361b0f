------------------------ MODULE ChatSession_proofs ------------------------
(* A browser's session, for any number of entries, messages, switches,      *)
(* connections and events under way: the types, a message and its           *)
(* optimistic row, the branch that is shown, what a settled session shows,  *)
(* and what a reload would.  The invariant has three layers: IInv is about  *)
(* messages and rows, SessionInv about the tree, the branch and who knows   *)
(* what, DeliveryInv about the events under way and the cursor.             *)
EXTENDS ChatSession, FiniteSetTheorems, TLAPS

Events(s) == {s[n] : n \in 1..Len(s)}
IsSeq(s) == \E S : s \in Seq(S)

(* An entry of the run, which is no message's. *)
OfTheRun(e) == e \in 1..written /\ \A m \in Message : entryOf[m] # e

HandlerState == {"unsent", "posted", "begun", "appended", "anchored", "done", "failed"}
USE DEF HandlerState

(* What an event under way can say of entries. *)
Sound(ev) ==
    /\ ev.type = "snapshot" => ev.seq \in 0..written
    /\ ev.type = "message"  =>
           ev.request \in Message /\ ev.entry = entryOf[ev.request] /\ ev.entry # 0
    /\ ev.type = "upsert"   => OfTheRun(ev.entry)

SessionTypes ==
    /\ written \in Nat /\ entryOf \in [Message -> Nat] /\ rows \subseteq Int
    /\ handler \in [Message -> HandlerState]
    /\ IsSeq(wire) /\ DOMAIN snap = {"seq", "anchor", "leaf"} /\ snap.seq \in 0..written

(* A message has an entry of its own from its append on. *)
EntryInv ==
    /\ \A m \in Message : entryOf[m] <= written
    /\ \A m \in Message : handler[m] \in {"unsent", "posted", "begun"} => entryOf[m] = 0
    /\ \A m \in Message : handler[m] \in {"appended", "anchored", "done"} => entryOf[m] # 0
    /\ \A m, o \in Message : entryOf[m] = entryOf[o] /\ entryOf[m] # 0 => m = o
    /\ \A e \in unsent : OfTheRun(e)

WireInv == \A ev \in Events(wire) : Sound(ev)

(* Rows are of entries there are, or of messages that are awaited. *)
RowInv ==
    /\ \A x \in rows : x # 0 /\ x <= written
    /\ \A m \in Message : -m \in rows => m \in pending

(* The inductive invariant. *)
IInv == SessionTypes /\ EntryInv /\ WireInv /\ RowInv /\ NoDoubleBubble
---------------------------------------------------------------------------
(* Sequences of events. *)

LEMMA Joined ==
  ASSUME NEW s, NEW t, IsSeq(s), IsSeq(t)
  PROVE  IsSeq(s \o t) /\ Events(s \o t) \subseteq Events(s) \cup Events(t)
<1>1. PICK S, T : s \in Seq(S) /\ t \in Seq(T)
  BY DEF IsSeq
<1>2. s \in Seq(S \cup T) /\ t \in Seq(S \cup T)
  BY <1>1
<1>3. s \o t \in Seq(S \cup T)
  BY <1>2
<1>4. ASSUME NEW n \in 1..Len(s \o t) PROVE (s \o t)[n] \in Events(s) \cup Events(t)
  <2>1. Len(s \o t) = Len(s) + Len(t) /\ Len(s) \in Nat /\ Len(t) \in Nat
    BY <1>2
  <2>2. CASE n <= Len(s)
    BY <1>2, <2>1, <2>2 DEF Events
  <2>3. CASE n > Len(s)
    <3>1. n - Len(s) \in 1..Len(t) /\ (s \o t)[n] = t[n - Len(s)]
      BY <1>2, <2>1, <2>3
    <3> QED
      BY <3>1 DEF Events
  <2> QED
    BY <2>1, <2>2, <2>3
<1> QED
  BY <1>3, <1>4 DEF IsSeq, Events

LEMMA Received ==
  ASSUME NEW s, IsSeq(s), s # <<>>
  PROVE  IsSeq(Tail(s)) /\ Head(s) \in Events(s) /\ Events(Tail(s)) \subseteq Events(s)
<1>1. PICK S : s \in Seq(S)
  BY DEF IsSeq
<1>2. Len(s) \in Nat /\ Len(s) # 0
  BY <1>1
<1>3. Tail(s) \in Seq(S) /\ Len(Tail(s)) = Len(s) - 1
  BY <1>1
<1>4. ASSUME NEW n \in 1..Len(Tail(s)) PROVE Tail(s)[n] \in Events(s)
  <2>1. n + 1 \in 1..Len(s) /\ Tail(s)[n] = s[n + 1]
    BY <1>1, <1>2, <1>3
  <2> QED
    BY <2>1 DEF Events
<1>5. Head(s) = s[1] /\ 1 \in 1..Len(s)
  BY <1>1, <1>2
<1> QED
  BY <1>3, <1>4, <1>5 DEF IsSeq, Events

LEMMA Few ==
  /\ IsSeq(<<>>) /\ Events(<<>>) = {}
  /\ \A a : IsSeq(<<a>>) /\ Events(<<a>>) = {a}
  /\ \A a, b : IsSeq(<<a, b>>) /\ Events(<<a, b>>) = {a, b}
<1>1. <<>> \in Seq({})
  OBVIOUS
<1>2. ASSUME NEW a PROVE IsSeq(<<a>>) /\ Events(<<a>>) = {a}
  <2>1. <<a>> \in Seq({a}) /\ Len(<<a>>) = 1 /\ <<a>>[1] = a
    OBVIOUS
  <2>2. 1..1 = {1}
    OBVIOUS
  <2> QED
    BY <2>1, <2>2 DEF IsSeq, Events
<1>3. ASSUME NEW a, NEW b PROVE IsSeq(<<a, b>>) /\ Events(<<a, b>>) = {a, b}
  <2>1. <<a, b>> \in Seq({a, b}) /\ Len(<<a, b>>) = 2 /\ <<a, b>>[1] = a /\ <<a, b>>[2] = b
    OBVIOUS
  <2>2. 1..2 = {1, 2}
    OBVIOUS
  <2> QED
    BY <2>1, <2>2 DEF IsSeq, Events
<1>4. Events(<<>>) = {}
  BY <1>1 DEF Events
<1> QED
  BY <1>1, <1>2, <1>3, <1>4 DEF IsSeq

LEMMA Published ==
  ASSUME IsSeq(wire), NEW events, IsSeq(events), Publish(events)
  PROVE  /\ IsSeq(wire') /\ Events(wire') \subseteq Events(wire) \cup Events(events)
         /\ snap' = snap
<1>1. wire' = wire \/ wire' = wire \o events
  BY DEF Publish
<1> QED
  BY <1>1, Joined DEF Publish
---------------------------------------------------------------------------
(* The steps. *)

LEMMA Bubbles ==
  ASSUME NEW m \in Message, NEW o \in Message
  PROVE  m \in Int /\ -m \in Int /\ -m < 0 /\ (-m = -o => m = o)
BY SessionAssumption DEF Message

(* What is said of entries stays true while entries are appended. *)
LEMMA SoundKept ==
  ASSUME SessionTypes, EntryInv, written' \in Nat, written <= written',
         entryOf' = entryOf \/ (\E m \in Message : entryOf[m] = 0 /\
                                   entryOf' = [entryOf EXCEPT ![m] = written + 1])
  PROVE  /\ \A e : OfTheRun(e) => OfTheRun(e)'
         /\ \A ev : Sound(ev) => Sound(ev)'
<1>1. ASSUME NEW e, OfTheRun(e) PROVE OfTheRun(e)'
  BY <1>1 DEF OfTheRun, SessionTypes
<1>2. ASSUME NEW ev, Sound(ev), ev.type = "message"
      PROVE  ev.request \in Message /\ ev.entry = entryOf'[ev.request] /\ ev.entry # 0
  BY <1>2 DEF Sound, SessionTypes
<1>3. ASSUME NEW ev, Sound(ev) PROVE Sound(ev)'
  <2>1. ev.type = "snapshot" => ev.seq \in 0..written'
    BY <1>3 DEF Sound, SessionTypes
  <2>2. ev.type = "upsert" => OfTheRun(ev.entry)'
    BY <1>1, <1>3 DEF Sound
  <2> QED
    BY <1>2, <1>3, <2>1, <2>2 DEF Sound
<1> QED
  BY <1>1, <1>3

(* Steps that only move a handler, and those that leave all this alone. *)
LEMMA HandlerStep ==
  ASSUME IInv, UNCHANGED <<written, entryOf, unsent, snap, wire, rows, pending>>,
         \/ handler' = handler
         \/ \E m \in Message :
               \/ handler[m] = "begun" /\ handler' = [handler EXCEPT ![m] = "failed"]
               \/ handler[m] = "appended" /\ handler' = [handler EXCEPT ![m] = "anchored"]
               \/ handler[m] = "unsent" /\ handler' = [handler EXCEPT ![m] = "posted"]
         \/ \E S \in SUBSET Message :
               /\ \A m \in S : handler[m] = "posted"
               /\ handler' = [m \in Message |-> IF m \in S THEN "begun" ELSE handler[m]]
  PROVE  IInv'
<1>1. SessionTypes'
  BY DEF IInv, SessionTypes, IsSeq
<1>2. EntryInv'
  BY DEF IInv, SessionTypes, EntryInv, OfTheRun
<1>3. WireInv'
  BY DEF IInv, WireInv, Sound, OfTheRun, Events
<1>4. RowInv' /\ NoDoubleBubble'
  BY DEF IInv, RowInv, NoDoubleBubble
<1> QED
  BY <1>1, <1>2, <1>3, <1>4 DEF IInv

(* Steps that publish events, which are sound. *)
LEMMA PublishStep ==
  ASSUME IInv, UNCHANGED <<written, entryOf, rows, pending>>, unsent' \subseteq unsent,
         IsSeq(wire'), \A ev \in Events(wire') : Sound(ev),
         DOMAIN snap' = {"seq", "anchor", "leaf"}, snap'.seq \in 0..written,
         \/ handler' = handler
         \/ \E m \in Message : handler[m] = "anchored" /\ handler' = [handler EXCEPT ![m] = "done"]
  PROVE  IInv'
<1>1. SessionTypes'
  BY DEF IInv, SessionTypes, IsSeq
<1>2. EntryInv'
  BY DEF IInv, SessionTypes, EntryInv, OfTheRun
<1>3. WireInv'
  BY DEF IInv, WireInv, Sound, OfTheRun, Events
<1>4. RowInv' /\ NoDoubleBubble'
  BY DEF IInv, RowInv, NoDoubleBubble
<1> QED
  BY <1>1, <1>2, <1>3, <1>4 DEF IInv

LEMMA AppendStep ==
  ASSUME IInv, NEW p, NEW lane, AppendEntry(p, lane), unsent' = unsent \cup {written + 1},
         UNCHANGED <<entryOf, handler, snap, wire, rows, pending>>
  PROVE  IInv'
<1>1. written' = written + 1 /\ written \in Nat
  BY DEF AppendEntry, IInv, SessionTypes
<1>2. /\ \A e : OfTheRun(e) => OfTheRun(e)'
      /\ \A ev : Sound(ev) => Sound(ev)'
  BY <1>1, SoundKept DEF IInv
<1>3. ASSUME NEW e, e = written + 1 PROVE OfTheRun(e)'
  BY <1>1, <1>3 DEF OfTheRun, IInv, EntryInv, SessionTypes
<1>4. SessionTypes'
  BY <1>1 DEF IInv, SessionTypes, IsSeq
<1>5. EntryInv'
  <2>1. ASSUME NEW e \in unsent' PROVE OfTheRun(e)'
    BY <1>2, <1>3 DEF IInv, EntryInv
  <2> QED
    BY <1>1, <2>1 DEF IInv, EntryInv, SessionTypes
<1>6. WireInv'
  <2>1. Events(wire)' = Events(wire)
    BY DEF Events
  <2> QED
    BY <1>2, <2>1 DEF IInv, WireInv
<1>7. RowInv' /\ NoDoubleBubble'
  BY <1>1 DEF IInv, RowInv, NoDoubleBubble, SessionTypes
<1> QED
  BY <1>4, <1>5, <1>6, <1>7 DEF IInv

(* The entry of a message is new: no row, no event and no other message has it. *)
LEMMA PostAppendStep ==
  ASSUME IInv, NEW m \in Message, PostAppend(m)
  PROVE  IInv'
<1>1. /\ written' = written + 1 /\ written \in Nat /\ entryOf[m] = 0
      /\ entryOf' = [entryOf EXCEPT ![m] = written + 1]
      /\ handler' = [handler EXCEPT ![m] = "appended"]
      /\ UNCHANGED <<unsent, snap, wire, rows, pending>>
  BY DEF PostAppend, HandlerTo, AppendEntry, IInv, SessionTypes, EntryInv, runs, stream, browser
<1>2. /\ \A e : OfTheRun(e) => OfTheRun(e)'
      /\ \A ev : Sound(ev) => Sound(ev)'
  <2>1. written' \in Nat /\ written <= written'
    BY <1>1
  <2> QED
    BY <1>1, <2>1, SoundKept DEF IInv
<1>3. SessionTypes'
  BY <1>1 DEF IInv, SessionTypes, IsSeq
<1>4. EntryInv'
  <2>1. ASSUME NEW e \in unsent' PROVE OfTheRun(e)'
    BY <1>1, <1>2 DEF IInv, EntryInv
  <2>2. \A o, q \in Message : entryOf'[o] = entryOf'[q] /\ entryOf'[o] # 0 => o = q
    BY <1>1 DEF IInv, EntryInv, SessionTypes
  <2>3. \A o \in Message : entryOf'[o] <= written'
    BY <1>1 DEF IInv, EntryInv, SessionTypes
  <2>4. \A o \in Message :
          /\ handler'[o] \in {"unsent", "posted", "begun"} => entryOf'[o] = 0
          /\ handler'[o] \in {"appended", "anchored", "done"} => entryOf'[o] # 0
    BY <1>1 DEF IInv, EntryInv, SessionTypes
  <2> QED
    BY <2>1, <2>2, <2>3, <2>4 DEF EntryInv
<1>5. WireInv'
  <2>1. Events(wire)' = Events(wire)
    BY <1>1 DEF Events
  <2> QED
    BY <1>2, <2>1 DEF IInv, WireInv
<1>6. RowInv'
  BY <1>1 DEF IInv, RowInv, SessionTypes
<1>7. NoDoubleBubble'
  <2>1. written + 1 \notin rows
    BY <1>1 DEF IInv, RowInv, SessionTypes
  <2> QED
    BY <1>1, <2>1 DEF IInv, NoDoubleBubble, SessionTypes
<1> QED
  BY <1>3, <1>4, <1>5, <1>6, <1>7 DEF IInv

LEMMA SnapshotStep ==
  ASSUME IInv, ReadEntries \/ ReadLeaf
  PROVE  IInv'
<1>1. PICK s : /\ Took(s) /\ DOMAIN s = {"seq", "anchor", "leaf"} /\ s.seq \in 0..written
  <2>1. CASE ReadEntries
    <3>1. Took([snap EXCEPT !.seq = written])
      BY <2>1 DEF ReadEntries
    <3>2. DOMAIN [snap EXCEPT !.seq = written] = {"seq", "anchor", "leaf"}
      BY DEF IInv, SessionTypes
    <3>3. [snap EXCEPT !.seq = written].seq \in 0..written
      BY DEF IInv, SessionTypes
    <3> QED
      BY <3>1, <3>2, <3>3
  <2>2. CASE ReadLeaf
    <3> DEFINE s == [snap EXCEPT !.leaf = ServerTip]
    <3>1. Took(s)
      BY <2>2 DEF ReadLeaf
    <3>2. DOMAIN s = {"seq", "anchor", "leaf"} /\ s.seq = snap.seq
      BY DEF IInv, SessionTypes
    <3> HIDE DEF s
    <3> QED
      BY <3>1, <3>2 DEF IInv, SessionTypes
  <2> QED
    BY <2>1, <2>2
<1> DEFINE ev == [type |-> "snapshot", seq |-> s.seq, anchor |-> s.anchor, leaf |-> s.leaf]
<1>2. UNCHANGED <<written, entryOf, rows, pending, unsent, handler>>
  BY <1>1 DEF Took, server, runs, browser
<1>3. Sound(ev)
  BY <1>1 DEF Sound
<1>4. \/ snap' = Unread /\ wire' = <<ev>> \o wire
      \/ snap' = s /\ wire' = wire
  BY <1>1 DEF Took
<1> HIDE DEF ev
<1>5. IsSeq(wire') /\ Events(wire') \subseteq Events(wire) \cup {ev}
  <2>1. CASE wire' = <<ev>> \o wire
    BY <2>1, Few, Joined DEF IInv, SessionTypes
  <2>2. CASE wire' = wire
    BY <2>2 DEF IInv, SessionTypes
  <2> QED
    BY <1>4, <2>1, <2>2
<1>6. \A e \in Events(wire') : Sound(e)
  BY <1>3, <1>5 DEF IInv, WireInv
<1>7. DOMAIN snap' = {"seq", "anchor", "leaf"} /\ snap'.seq \in 0..written
  <2>1. DOMAIN Unread = {"seq", "anchor", "leaf"} /\ Unread.seq = 0
    BY DEF Unread
  <2> QED
    BY <1>1, <1>4, <2>1 DEF IInv, SessionTypes
<1> QED
  BY <1>2, <1>5, <1>6, <1>7, PublishStep

LEMMA EventStep ==
  ASSUME IInv,
         \/ \E m \in Message : PostPublish(m)
         \/ UpsertPublish \/ Open \/ ReadView
         \/ \E r \in Turn : UpdatePublish(r)
  PROVE  IInv'
<1>1. CASE \E m \in Message : PostPublish(m)
  <2>1. PICK m \in Message : PostPublish(m)
    BY <1>1
  <2> DEFINE ev == [type |-> "message", seq |-> written, entry |-> entryOf[m], request |-> m]
  <2>2. Sound(Updated(m)) /\ Sound(ev)
    BY <2>1 DEF Sound, Updated, PostPublish, IInv, EntryInv
  <2>3. Publish(<<Updated(m), ev>>)
    BY <2>1 DEF PostPublish
  <2> HIDE DEF ev
  <2>4. /\ IsSeq(wire') /\ Events(wire') \subseteq Events(wire) \cup {Updated(m), ev}
        /\ snap' = snap
    BY <2>3, Few, Published DEF IInv, SessionTypes
  <2>5. \A e \in Events(wire') : Sound(e)
    BY <2>2, <2>4 DEF IInv, WireInv
  <2>6. /\ UNCHANGED <<written, entryOf, rows, pending, unsent>>
        /\ handler[m] = "anchored" /\ handler' = [handler EXCEPT ![m] = "done"]
    BY <2>1 DEF PostPublish, HandlerTo, browser
  <2>7. DOMAIN snap' = {"seq", "anchor", "leaf"} /\ snap'.seq \in 0..written
    BY <2>4 DEF IInv, SessionTypes
  <2> QED
    BY <2>4, <2>5, <2>6, <2>7, PublishStep
<1>2. CASE UpsertPublish
  <2>1. PICK e \in unsent :
          /\ Publish(<<[type |-> "upsert", seq |-> written, entry |-> e]>>)
          /\ unsent' = unsent \ {e}
    BY <1>2 DEF UpsertPublish
  <2> DEFINE ev == [type |-> "upsert", seq |-> written, entry |-> e]
  <2>2. Sound(ev)
    BY DEF Sound, IInv, EntryInv
  <2>3. Publish(<<ev>>)
    BY <2>1
  <2> HIDE DEF ev
  <2>4. /\ IsSeq(wire') /\ Events(wire') \subseteq Events(wire) \cup {ev}
        /\ snap' = snap
    BY <2>3, Few, Published DEF IInv, SessionTypes
  <2>5. \A x \in Events(wire') : Sound(x)
    BY <2>2, <2>4 DEF IInv, WireInv
  <2>6. UNCHANGED <<written, entryOf, rows, pending, handler>> /\ unsent' \subseteq unsent
    BY <1>2, <2>1 DEF UpsertPublish, browser
  <2>7. DOMAIN snap' = {"seq", "anchor", "leaf"} /\ snap'.seq \in 0..written
    BY <2>4 DEF IInv, SessionTypes
  <2> QED
    BY <2>4, <2>5, <2>6, <2>7, PublishStep
<1>3. ASSUME NEW r \in Turn, UpdatePublish(r) PROVE IInv'
  <2>1. Sound(Updated(r)) /\ Publish(<<Updated(r)>>)
    BY <1>3 DEF Sound, Updated, UpdatePublish
  <2>2. /\ IsSeq(wire') /\ Events(wire') \subseteq Events(wire) \cup {Updated(r)}
        /\ snap' = snap
    BY <2>1, Few, Published DEF IInv, SessionTypes
  <2>3. \A x \in Events(wire') : Sound(x)
    BY <2>1, <2>2 DEF IInv, WireInv
  <2>4. UNCHANGED <<written, entryOf, rows, pending, handler, unsent>>
    BY <1>3 DEF UpdatePublish, browser
  <2>5. DOMAIN snap' = {"seq", "anchor", "leaf"} /\ snap'.seq \in 0..written
    BY <2>2 DEF IInv, SessionTypes
  <2> QED
    BY <2>2, <2>3, <2>4, <2>5, PublishStep
<1>4. CASE Open
  <2>1. /\ UNCHANGED <<written, entryOf, rows, pending, handler, unsent>>
        /\ wire' = <<>> /\ snap' = Unread
    BY <1>4 DEF Open, server, runs, browser
  <2>2. DOMAIN Unread = {"seq", "anchor", "leaf"} /\ Unread.seq = 0
    BY DEF Unread
  <2>3. IsSeq(wire') /\ \A x \in Events(wire') : Sound(x)
    BY <2>1, Few
  <2>4. DOMAIN snap' = {"seq", "anchor", "leaf"} /\ snap'.seq \in 0..written
    BY <2>1, <2>2 DEF IInv, SessionTypes
  <2> QED
    BY <2>1, <2>3, <2>4, PublishStep
<1>5. CASE ReadView
  <2>1. /\ UNCHANGED <<written, entryOf, rows, pending, handler, unsent, wire>>
        /\ snap' = [snap EXCEPT !.anchor = serverAnchor]
    BY <1>5 DEF ReadView, server, runs, browser
  <2>2. \A x \in Events(wire') : Sound(x)
    BY <2>1 DEF IInv, WireInv
  <2>3. DOMAIN snap' = {"seq", "anchor", "leaf"} /\ snap'.seq \in 0..written /\ IsSeq(wire')
    BY <2>1 DEF IInv, SessionTypes
  <2> QED
    BY <2>1, <2>2, <2>3, PublishStep
<1> QED
  BY <1>1, <1>2, <1>3, <1>4, <1>5

(* What an event makes of the rows and of what is awaited. *)
RowsKept == rows' = rows /\ pending' = pending
RowsRead(n) == rows' = 1..n /\ pending' = pending
RowsRekeyed(m, e) ==
    /\ -m \notin rows' /\ rows' \subseteq rows \cup {e} /\ pending' = pending \ {m}
RowsAdded(e) == rows' = rows \cup {e} /\ pending' = pending

LEMMA ReceiveShape ==
  ASSUME IInv, Receive
  PROVE  \/ RowsKept
         \/ \E n \in 0..written : RowsRead(n)
         \/ \E m \in Message : entryOf[m] # 0 /\ RowsRekeyed(m, entryOf[m])
         \/ \E e : OfTheRun(e) /\ RowsAdded(e)
<1> DEFINE ev == Head(wire)
<1>1. Sound(ev)
  BY Received DEF Receive, IInv, WireInv, SessionTypes
<1>2. \/ UNCHANGED browser
      \/ ev.type = "snapshot" /\ ApplySnapshot(ev)
      \/ ev.type = "message"  /\ ApplyMessage(ev)
      \/ ev.type = "upsert"   /\ ApplyUpsert(ev)
      \/ ev.type = "updated"  /\ ApplyUpdated(ev)
  BY DEF Receive
<1> HIDE DEF ev
<1>3. CASE UNCHANGED browser
  BY <1>3 DEF browser, RowsKept
<1>4. CASE ev.type = "snapshot" /\ ApplySnapshot(ev)
  <2>1. RowsKept \/ RowsRead(ev.seq)
    BY <1>4 DEF ApplySnapshot, Show, browser, RowsKept, RowsRead
  <2> QED
    BY <1>1, <1>4, <2>1 DEF Sound
<1>5. CASE ev.type = "message" /\ ApplyMessage(ev)
  <2>1. ev.request \in Message /\ ev.entry = entryOf[ev.request] /\ ev.entry # 0
    BY <1>1, <1>5 DEF Sound
  <2>2. pending' = pending \ {ev.request}
    BY <1>5 DEF ApplyMessage
  <2>3. CASE ev.request \in pending /\ -ev.request \in rows
    <3>1. rows' = (rows \ {-ev.request}) \cup {ev.entry}
      BY <1>5, <2>3 DEF ApplyMessage, Show, Rekeyed
    <3>2. -ev.request # ev.entry
      BY <2>1, Bubbles DEF IInv, SessionTypes
    <3> QED
      BY <2>1, <2>2, <3>1, <3>2 DEF RowsRekeyed
  <2>4. CASE ~(ev.request \in pending /\ -ev.request \in rows)
    <3>1. rows' = rows \cup {ev.entry}
      BY <1>5, <2>4 DEF ApplyMessage, Show, Appended
    <3>2. -ev.request \notin rows
      BY <2>1, <2>4 DEF IInv, RowInv
    <3>3. -ev.request # ev.entry
      BY <2>1, Bubbles DEF IInv, SessionTypes
    <3> QED
      BY <2>1, <2>2, <3>1, <3>2, <3>3 DEF RowsRekeyed
  <2> QED
    BY <2>3, <2>4
<1>6. CASE ev.type = "upsert" /\ ApplyUpsert(ev)
  <2>1. OfTheRun(ev.entry)
    BY <1>1, <1>6 DEF Sound
  <2> QED
    BY <1>6, <2>1 DEF ApplyUpsert, Show, RowsAdded
<1>7. CASE ev.type = "updated" /\ ApplyUpdated(ev)
  BY <1>7 DEF ApplyUpdated, Show, RowsKept
<1> QED
  BY <1>2, <1>3, <1>4, <1>5, <1>6, <1>7

LEMMA RowStep ==
  ASSUME IInv, UNCHANGED <<written, entryOf>>,
         \/ RowsKept
         \/ \E n \in 0..written : RowsRead(n)
         \/ \E m \in Message : entryOf[m] # 0 /\ RowsRekeyed(m, entryOf[m])
         \/ \E e : OfTheRun(e) /\ RowsAdded(e)
  PROVE  rows' \subseteq Int /\ RowInv' /\ NoDoubleBubble'
<1> USE DEF IInv, SessionTypes, RowInv, NoDoubleBubble
<1>1. CASE RowsKept
  BY <1>1 DEF RowsKept
<1>2. ASSUME NEW n \in 0..written, RowsRead(n) PROVE rows' \subseteq Int /\ RowInv' /\ NoDoubleBubble'
  <2>1. \A m \in Message : -m \notin rows'
    BY <1>2, Bubbles DEF RowsRead
  <2> QED
    BY <1>2, <2>1 DEF RowsRead
<1>3. ASSUME NEW m \in Message, entryOf[m] # 0, RowsRekeyed(m, entryOf[m])
      PROVE  rows' \subseteq Int /\ RowInv' /\ NoDoubleBubble'
  <2>1. entryOf[m] \in 1..written
    BY <1>3 DEF EntryInv
  <2>2. ASSUME NEW o \in Message, -o \in rows'
        PROVE  o # m /\ -o \in rows /\ o \in pending' /\ entryOf[o] # entryOf[m]
    <3>1. o # m
      BY <1>3, <2>2 DEF RowsRekeyed
    <3>2. -o # entryOf[m]
      BY <2>1, Bubbles
    <3>3. entryOf[o] # entryOf[m]
      BY <1>3, <3>1 DEF EntryInv
    <3> QED
      BY <1>3, <2>2, <3>1, <3>2, <3>3 DEF RowsRekeyed
  <2>3. rows' \subseteq Int /\ \A x \in rows' : x # 0 /\ x <= written'
    BY <1>3, <2>1 DEF RowsRekeyed
  <2>4. \A o \in Message : -o \in rows' => o \in pending' /\ entryOf'[o] \notin rows'
    BY <1>3, <2>2 DEF RowsRekeyed
  <2> QED
    BY <2>3, <2>4
<1>4. ASSUME NEW e, OfTheRun(e), RowsAdded(e)
      PROVE  rows' \subseteq Int /\ RowInv' /\ NoDoubleBubble'
  <2>1. \A o \in Message : -o # e /\ entryOf[o] # e
    BY <1>4, Bubbles DEF OfTheRun
  <2>2. \A o \in Message : -o \in rows' => o \in pending' /\ entryOf'[o] \notin rows'
    BY <1>4, <2>1 DEF RowsAdded
  <2>3. rows' \subseteq Int /\ \A x \in rows' : x # 0 /\ x <= written'
    BY <1>4 DEF RowsAdded, OfTheRun
  <2> QED
    BY <2>2, <2>3
<1> QED
  BY <1>1, <1>2, <1>3, <1>4

LEMMA ReceiveStep ==
  ASSUME IInv, Receive
  PROVE  IInv'
<1>1. UNCHANGED <<written, entryOf, handler, unsent, snap>> /\ wire' = Tail(wire)
  BY DEF Receive, server, runs
<1>2. IsSeq(wire') /\ Events(wire') \subseteq Events(wire)
  BY <1>1, Received DEF Receive, IInv, SessionTypes
<1>3. rows' \subseteq Int /\ RowInv' /\ NoDoubleBubble'
  BY <1>1, ReceiveShape, RowStep
<1>4. SessionTypes'
  BY <1>1, <1>2, <1>3 DEF IInv, SessionTypes, IsSeq
<1>5. EntryInv'
  BY <1>1 DEF IInv, EntryInv, OfTheRun
<1>6. WireInv'
  <2>1. \A ev : Sound(ev) => Sound(ev)'
    BY <1>1 DEF Sound, OfTheRun
  <2> QED
    BY <1>2, <2>1 DEF IInv, WireInv, Events
<1> QED
  BY <1>3, <1>4, <1>5, <1>6 DEF IInv

(* A message that is sent has no entry yet. *)
LEMMA SendStep ==
  ASSUME IInv, NEW m \in Message, Send(m)
  PROVE  IInv'
<1>1. /\ handler[m] = "unsent" /\ handler' = [handler EXCEPT ![m] = "posted"]
      /\ rows' = rows \cup {-m} /\ pending' = pending \cup {m}
      /\ UNCHANGED <<written, entryOf, unsent, snap, wire>>
  BY DEF Send, Fresh, runs, stream
<1>2. entryOf[m] = 0
  BY <1>1 DEF IInv, EntryInv
<1>3. SessionTypes'
  <2>1. rows' \subseteq Int
    <3>1. -m \in Int /\ rows \subseteq Int
      BY Bubbles DEF IInv, SessionTypes
    <3> QED
      BY <1>1, <3>1
  <2>2. handler' \in [Message -> HandlerState]
    BY <1>1 DEF IInv, SessionTypes
  <2> QED
    BY <1>1, <2>1, <2>2 DEF IInv, SessionTypes, IsSeq
<1>4. EntryInv'
  BY <1>1 DEF IInv, SessionTypes, EntryInv, OfTheRun
<1>5. WireInv'
  BY <1>1 DEF IInv, WireInv, Sound, OfTheRun, Events
<1>6. RowInv'
  <2>1. \A o \in Message : -o \in rows' => o \in pending'
    BY <1>1, Bubbles DEF IInv, RowInv
  <2>2. \A x \in rows' : x # 0 /\ x <= written'
    BY <1>1, Bubbles DEF IInv, RowInv, SessionTypes
  <2> QED
    BY <2>1, <2>2 DEF RowInv
<1>7. ASSUME NEW o \in Message, -o \in rows' PROVE entryOf'[o] \notin rows'
  <2>1. CASE o = m
    BY <1>1, <1>2, <1>6, <2>1 DEF RowInv
  <2>2. CASE o # m
    <3>1. -o \in rows /\ entryOf[o] \notin rows
      BY <1>1, <1>7, <2>2, Bubbles DEF IInv, NoDoubleBubble
    <3>2. entryOf[o] # -m
      BY Bubbles DEF IInv, SessionTypes
    <3> QED
      BY <1>1, <3>1, <3>2
  <2> QED
    BY <2>1, <2>2
<1> QED
  BY <1>3, <1>4, <1>5, <1>6, <1>7 DEF IInv, NoDoubleBubble
---------------------------------------------------------------------------
LEMMA InitInv == SessionInit => IInv
<1> SUFFICES ASSUME SessionInit PROVE IInv
  OBVIOUS
<1>1. SessionTypes
  BY Few DEF SessionInit, SessionTypes, Unread
<1>2. EntryInv
  BY DEF SessionInit, EntryInv
<1>3. WireInv
  BY Few DEF SessionInit, WireInv
<1>4. RowInv /\ NoDoubleBubble
  BY DEF SessionInit, RowInv, NoDoubleBubble
<1> QED
  BY <1>1, <1>2, <1>3, <1>4 DEF IInv

LEMMA NextInv == IInv /\ [SessionNext]_sessionVars => IInv'
<1> SUFFICES ASSUME IInv, [SessionNext]_sessionVars PROVE IInv'
  OBVIOUS
<1>1. CASE UNCHANGED sessionVars
  BY <1>1, HandlerStep DEF sessionVars, server, runs, stream, browser
<1>2. ASSUME NEW m \in Message, PostReject(m) PROVE IInv'
  BY <1>2, HandlerStep DEF PostReject, HandlerTo, runs, stream, browser
<1>3. ASSUME NEW m \in Message, PostAppend(m) PROVE IInv'
  BY <1>3, PostAppendStep
<1>4. ASSUME NEW m \in Message, PostAnchor(m) PROVE IInv'
  BY <1>4, HandlerStep DEF PostAnchor, HandlerTo, runs, stream, browser
<1>5. ASSUME NEW m \in Message, PostPublish(m) PROVE IInv'
  BY <1>5, EventStep
<1>6. ASSUME NEW r \in Turn, RunAppend(r) PROVE IInv'
  <2>1. AppendEntry(runCursor[r], "spine")
    BY <1>6 DEF RunAppend
  <2>2. /\ unsent' = unsent \cup {written + 1}
        /\ UNCHANGED <<entryOf, handler, snap, wire, rows, pending>>
    BY <1>6 DEF RunAppend, stream, browser
  <2> QED
    BY <2>1, <2>2, AppendStep
<1>7. CASE SideAppend
  <2>1. PICK a : AppendEntry(a, "side")
    BY <1>7 DEF SideAppend
  <2>2. /\ unsent' = unsent \cup {written + 1}
        /\ UNCHANGED <<entryOf, handler, snap, wire, rows, pending>>
    BY <1>7 DEF SideAppend, stream, browser
  <2> QED
    BY <2>1, <2>2, AppendStep
<1>8. CASE UpsertPublish \/ Open \/ ReadView \/ \E r \in Turn : UpdatePublish(r)
  BY <1>8, EventStep
<1>9. ASSUME NEW r \in Turn, Answer(r) \/ StopRun(r) \/ ReadAnchor(r) PROVE IInv'
  BY <1>9, HandlerStep DEF Answer, StopRun, ReadAnchor, stream, browser
<1>10. CASE ReadEntries \/ ReadLeaf
  BY <1>10, SnapshotStep
<1>11. CASE Receive
  BY <1>11, ReceiveStep
<1>12. ASSUME NEW m \in Message, Send(m) PROVE IInv'
  BY <1>12, SendStep
<1>13. ASSUME NEW m \in Message, SendEdit(m) PROVE IInv'
  BY <1>13, HandlerStep DEF SendEdit, Fresh, runs, stream, browser
<1>14. CASE SwitchBranch \/ SwitchArrives \/ SwitchDone
  BY <1>14, HandlerStep DEF SwitchBranch, SwitchArrives, SwitchDone, Show, server, runs, stream, browser
<1>15. ASSUME NEW S \in SUBSET Message, NEW last \in S, PostBegin(S, last) PROVE IInv'
  BY <1>15, HandlerStep DEF PostBegin, stream, browser
<1> QED
  BY <1>1, <1>2, <1>3, <1>4, <1>5, <1>6, <1>7, <1>8, <1>9, <1>10, <1>11, <1>12, <1>13, <1>14, <1>15
  DEF SessionNext, Run

(* The store's handling of USER_MESSAGE with rekey and append: in whatever  *)
(* order the request, its event, snapshots and reconnects come, a message   *)
(* and its optimistic row are never both in the store.                      *)
THEOREM NoDoubleBubbleProved == SessionSpec => []NoDoubleBubble
<1>1. IInv => NoDoubleBubble
  BY DEF IInv
<1> QED
  BY <1>1, InitInv, NextInv, PTL DEF SessionSpec
---------------------------------------------------------------------------
(* A set of numbers has a smallest one: the one with the fewest below it. *)
LEMMA Smallest ==
  ASSUME NEW S \in SUBSET Nat, S # {}
  PROVE  \E m \in S : \A x \in S : m <= x
<1>1. PICK n \in S : TRUE
  OBVIOUS
<1> DEFINE T == S \cap (0..n)
           Below(x) == {y \in T : y < x}
           Belows == {Below(x) : x \in T}
<1>2. IsFiniteSet(T)
  <2>1. IsFiniteSet(0..n) /\ T \in SUBSET (0..n)
    BY FS_Interval
  <2> QED
    BY <2>1, FS_Subset
<1>3. \E A \in Belows : \A B \in Belows : ~ (<<B, A>> \in StrictSubsetOrdering(T))
  <2>1. IsWellFoundedOn(StrictSubsetOrdering(T), SUBSET T)
    BY <1>2, FS_StrictSubsetOrderingWellFounded, FS_FiniteSubsetsOfFinite
  <2>2. Belows \subseteq SUBSET T
    OBVIOUS
  <2>3. n \in T /\ Below(n) \in Belows
    BY <1>1
  <2> QED
    BY <2>1, <2>2, <2>3, WFMin
<1>4. PICK m \in T : \A x \in T : ~ (<<Below(x), Below(m)>> \in StrictSubsetOrdering(T))
  BY <1>3
<1>5. ASSUME NEW x \in T, x < m PROVE FALSE
  <2>1. Below(x) \subseteq Below(m) /\ x \in Below(m) /\ x \notin Below(x)
    BY <1>5
  <2> QED
    BY <1>4, <2>1 DEF StrictSubsetOrdering
<1>6. \A x \in T : m <= x
  BY <1>5
<1>7. \A x \in S : m <= x
  BY <1>6
<1> QED
  BY <1>7

LEMMA Induction ==
  ASSUME NEW S, 0 \in S, \A n \in Nat : n \in S => n + 1 \in S
  PROVE  Nat \subseteq S
<1> SUFFICES ASSUME Nat \ S # {} PROVE FALSE
  OBVIOUS
<1>1. PICK m \in Nat \ S : \A x \in Nat \ S : m <= x
  BY Smallest
<1>2. m # 0 /\ m - 1 \in Nat /\ m - 1 \notin S
  BY <1>1
<1>3. m - 1 \in Nat \ S /\ ~ (m <= m - 1)
  BY <1>2
<1> QED
  BY <1>1, <1>3

IsWalk(g, f, x, n) == g = [k \in 0..n |-> IF k = 0 THEN x ELSE f[g[k - 1]]]

LEMMA Iterates ==
  ASSUME NEW f, NEW x
  PROVE  \A n \in Nat : \E g : IsWalk(g, f, x, n)
<1> DEFINE S == {n \in Nat : \E g : g = [k \in 0..n |-> IF k = 0 THEN x ELSE f[g[k - 1]]]}
<1>1. 0 \in S
  <2> DEFINE g == [k \in 0..0 |-> x]
  <2>1. g = [k \in 0..0 |-> IF k = 0 THEN x ELSE f[g[k - 1]]]
    <3>1. \A k \in 0..0 : k = 0
      OBVIOUS
    <3> QED
      BY <3>1
  <2> HIDE DEF g
  <2> QED
    BY <2>1
<1>2. ASSUME NEW n \in Nat, n \in S PROVE n + 1 \in S
  <2>1. PICK g : g = [k \in 0..n |-> IF k = 0 THEN x ELSE f[g[k - 1]]]
    BY <1>2
  <2> DEFINE h == [k \in 0..(n + 1) |-> IF k = n + 1 THEN f[g[n]] ELSE g[k]]
  <2>2. \A k \in 0..n : k # n + 1 /\ k \in 0..(n + 1)
    OBVIOUS
  <2>3. \A k \in 0..(n + 1) : h[k] = IF k = 0 THEN x ELSE f[h[k - 1]]
    <3> SUFFICES ASSUME NEW k \in 0..(n + 1) PROVE h[k] = IF k = 0 THEN x ELSE f[h[k - 1]]
      OBVIOUS
    <3>1. CASE k = n + 1
      <4>1. h[k] = f[g[n]] /\ k # 0 /\ k - 1 = n /\ h[n] = g[n]
        BY <3>1
      <4> QED
        BY <4>1
    <3>2. CASE k = 0
      <4>1. 0 \in 0..n /\ h[0] = g[0]
        OBVIOUS
      <4>2. g[0] = x
        BY <2>1, <4>1
      <4> QED
        BY <3>2, <4>1, <4>2
    <3>3. CASE k # 0 /\ k # n + 1
      <4>1. k \in 0..n /\ k - 1 \in 0..n
        BY <3>3
      <4>2. g[k] = f[g[k - 1]]
        BY <2>1, <3>3, <4>1
      <4>3. h[k] = g[k] /\ h[k - 1] = g[k - 1]
        BY <3>3, <4>1, <2>2
      <4> QED
        BY <3>3, <4>2, <4>3
    <3> QED
      BY <3>1, <3>2, <3>3
  <2>4. h = [k \in 0..(n + 1) |-> h[k]]
    OBVIOUS
  <2> HIDE DEF h
  <2>5. h = [k \in 0..(n + 1) |-> IF k = 0 THEN x ELSE f[h[k - 1]]]
    BY <2>3, <2>4
  <2> QED
    BY <2>5
<1> HIDE DEF S
<1>3. Nat \subseteq S
  BY <1>1, <1>2, Induction
<1> QED
  BY <1>3 DEF S, IsWalk


LEMMA Rowly ==
  /\ IsFiniteSet(Row) /\ Cardinality(Row) \in Nat
  /\ 0 \in Row /\ Row \subseteq Int
<1>1. -MaxMessage \in Int /\ MaxSessionEntry \in Int
  BY SessionAssumption
<1>2. IsFiniteSet(Row) /\ Row \subseteq Int
  BY <1>1, FS_Interval DEF Row
<1> QED
  BY <1>2, FS_CardinalityType, SessionAssumption DEF Row

LEMMA WalkIs ==
  ASSUME NEW f, NEW x
  PROVE  \E g : IsWalk(g, f, x, Cardinality(Row)) /\ Walk(f, x) = g[Cardinality(Row)]
<1> DEFINE n == Cardinality(Row)
           W == CHOOSE g : g = [k \in 0..n |-> IF k = 0 THEN x ELSE f[g[k - 1]]]
<1> HIDE DEF n
<1>1. n \in Nat
  BY Rowly DEF n
<1>2. \E g : g = [k \in 0..n |-> IF k = 0 THEN x ELSE f[g[k - 1]]]
  <2>1. \E g : IsWalk(g, f, x, n)
    BY <1>1, Iterates, Zenon
  <2> QED
    BY <2>1 DEF IsWalk
<1>3. W = [k \in 0..n |-> IF k = 0 THEN x ELSE f[W[k - 1]]]
  BY <1>2
<1>4. Walk(f, x) = W[n]
  BY DEF Walk, n
<1> QED
  BY <1>3, <1>4 DEF IsWalk, n

LEMMA WalkStep ==
  ASSUME NEW f, NEW x, NEW g, NEW n \in Nat, IsWalk(g, f, x, n)
  PROVE  g[0] = x /\ \A k \in Nat : k < n => g[k + 1] = f[g[k]]
<1>1. ASSUME NEW k \in Nat, k < n PROVE g[k + 1] = f[g[k]]
  <2>1. k + 1 \in 0..n /\ k + 1 # 0 /\ (k + 1) - 1 = k
    BY <1>1
  <2> QED
    BY <2>1 DEF IsWalk
<1> QED
  BY <1>1 DEF IsWalk

(* A walk does not leave a set that f does not leave. *)
LEMMA WalkWithin ==
  ASSUME NEW f, NEW x, NEW g, NEW n \in Nat, IsWalk(g, f, x, n),
         NEW Q, x \in Q, \A y \in Q : f[y] \in Q
  PROVE  \A k \in 0..n : g[k] \in Q
<1> DEFINE S == {k \in Nat : k <= n => g[k] \in Q}
<1>1. 0 \in S
  BY WalkStep
<1>2. ASSUME NEW k \in Nat, k \in S PROVE k + 1 \in S
  BY <1>2, WalkStep
<1> HIDE DEF S
<1>3. Nat \subseteq S
  BY <1>1, <1>2, Induction
<1> QED
  BY <1>3 DEF S

(* It stays where f does. *)
LEMMA WalkStays ==
  ASSUME NEW f, NEW x, NEW g, NEW n \in Nat, IsWalk(g, f, x, n),
         NEW i \in 0..n, f[g[i]] = g[i]
  PROVE  \A k \in i..n : g[k] = g[i]
<1> DEFINE S == {k \in Nat : i + k <= n => g[i + k] = g[i]}
<1>1. 0 \in S
  OBVIOUS
<1>2. ASSUME NEW k \in Nat, k \in S PROVE k + 1 \in S
  <2> SUFFICES ASSUME i + (k + 1) <= n PROVE g[i + (k + 1)] = g[i]
    OBVIOUS
  <2>1. i + k \in Nat /\ i + k < n /\ (i + k) + 1 = i + (k + 1)
    OBVIOUS
  <2>2. g[(i + k) + 1] = f[g[i + k]]
    BY <2>1, WalkStep
  <2> QED
    BY <1>2, <2>1, <2>2
<1> HIDE DEF S
<1>3. Nat \subseteq S
  BY <1>1, <1>2, Induction
<1>4. ASSUME NEW k \in i..n PROVE g[k] = g[i]
  <2>1. k - i \in S /\ i + (k - i) = k
    BY <1>3
  <2> QED
    BY <2>1 DEF S
<1> QED
  BY <1>4

(* A set that f goes round in. *)
Circle(S, f) == S # {} /\ \A y \in S : f[y] \in S /\ \E z \in S : f[z] = y

(* In a finite set a walk comes to a member for the second time, and walks  *)
(* a loop.                                                                  *)
LEMMA WalkLoops ==
  ASSUME NEW f, NEW x, NEW g, NEW n \in Nat, IsWalk(g, f, x, n),
         NEW Q, IsFiniteSet(Q), Cardinality(Q) <= n, \A k \in 0..n : g[k] \in Q
  PROVE  \E S \in SUBSET Q : Circle(S, f) /\ S \subseteq {g[k] : k \in 0..n}
<1>1. PICK i \in 0..n, j \in 0..n : i < j /\ g[i] = g[j]
  <2>1. IsFiniteSet(0..n) /\ Cardinality(0..n) = n + 1
    BY FS_Interval
  <2> DEFINE h == [k \in 0..n |-> g[k]]
  <2>2. h \in [0..n -> Q] /\ \A k \in 0..n : h[k] = g[k]
    OBVIOUS
  <2> HIDE DEF h
  <2>3. Cardinality(Q) < Cardinality(0..n)
    BY <2>1, FS_CardinalityType
  <2>4. \E a, b \in 0..n : a # b /\ h[a] = h[b]
    BY <2>1, <2>2, <2>3, FS_PigeonHole
  <2>5. PICK a, b \in 0..n : a # b /\ g[a] = g[b]
    BY <2>2, <2>4
  <2>6. a < b \/ b < a
    BY <2>5
  <2> QED
    BY <2>5, <2>6
<1> DEFINE S == {g[k] : k \in i..j}
<1>2. S \subseteq Q /\ S # {} /\ S \subseteq {g[k] : k \in 0..n}
  <2>1. i \in i..j /\ \A k \in i..j : k \in 0..n
    BY <1>1
  <2> QED
    BY <2>1
<1>3. \A k \in i..j : k < j => k + 1 \in i..j /\ g[k + 1] = f[g[k]]
  BY <1>1, WalkStep
<1>4. ASSUME NEW k \in i..j PROVE f[g[k]] \in S
  <2>1. CASE k < j
    BY <1>3, <2>1
  <2>2. CASE k = j
    <3>1. f[g[i]] = g[i + 1] /\ i + 1 \in i..j
      BY <1>1, <1>3
    <3> QED
      BY <1>1, <2>2, <3>1
  <2> QED
    BY <2>1, <2>2
<1>5. ASSUME NEW k \in i..j PROVE \E z \in S : f[z] = g[k]
  <2>1. CASE k > i
    <3>1. k - 1 \in i..j /\ k - 1 < j /\ (k - 1) + 1 = k
      BY <2>1
    <3>2. g[k] = f[g[k - 1]]
      BY <1>3, <3>1
    <3> QED
      BY <3>1, <3>2
  <2>2. CASE k = i
    <3>1. j - 1 \in i..j /\ j - 1 < j /\ (j - 1) + 1 = j
      BY <1>1
    <3>2. g[j] = f[g[j - 1]]
      BY <1>3, <3>1
    <3> QED
      BY <1>1, <2>2, <3>1, <3>2
  <2> QED
    BY <2>1, <2>2
<1>6. Circle(S, f)
  BY <1>2, <1>4, <1>5 DEF Circle
<1> HIDE DEF S
<1> QED
  BY <1>2, <1>6

(* f goes round in no circle but a step on the spot. *)
Loopless(f) == \A S \in SUBSET Row : Circle(S, f) => \E y \in S : f[y] = y

(* A walk of as many steps as there are rows stays among them and ends. *)
LEMMA WalkEnds ==
  ASSUME NEW f, NEW x \in Row, \A y \in Row : f[y] \in Row, Loopless(f)
  PROVE  f[Walk(f, x)] = Walk(f, x)
<1> DEFINE n == Cardinality(Row)
<1>1. PICK g : IsWalk(g, f, x, n) /\ Walk(f, x) = g[n]
  BY WalkIs
<1> HIDE DEF n
<1>2. n \in Nat /\ IsFiniteSet(Row) /\ Cardinality(Row) <= n
  BY Rowly DEF n
<1>3. \A k \in 0..n : g[k] \in Row
  BY <1>1, <1>2, WalkWithin
<1>4. PICK S \in SUBSET Row : Circle(S, f) /\ S \subseteq {g[k] : k \in 0..n}
  BY <1>1, <1>2, <1>3, WalkLoops
<1>5. PICK i \in 0..n : f[g[i]] = g[i]
  BY <1>4 DEF Loopless
<1>6. n \in i..n
  BY <1>2
<1>7. g[n] = g[i]
  BY <1>1, <1>2, <1>5, <1>6, WalkStays
<1> QED
  BY <1>1, <1>5, <1>7

LEMMA WalkIn ==
  ASSUME NEW f, NEW x, NEW Q, x \in Q, \A y \in Q : f[y] \in Q
  PROVE  Walk(f, x) \in Q
<1>1. PICK g : IsWalk(g, f, x, Cardinality(Row)) /\ Walk(f, x) = g[Cardinality(Row)]
  BY WalkIs
<1>2. Cardinality(Row) \in Nat /\ Cardinality(Row) \in 0..Cardinality(Row)
  BY Rowly
<1> QED
  BY <1>1, <1>2, WalkWithin

(* Two walks from one place that take the same steps. *)
LEMMA WalkSame ==
  ASSUME NEW f, NEW h, NEW x, NEW Q, x \in Q, \A y \in Q : f[y] \in Q /\ f[y] = h[y]
  PROVE  Walk(f, x) = Walk(h, x)
<1> DEFINE n == Cardinality(Row)
<1>1. PICK g : IsWalk(g, f, x, n) /\ Walk(f, x) = g[n]
  BY WalkIs
<1>2. PICK j : IsWalk(j, h, x, n) /\ Walk(h, x) = j[n]
  BY WalkIs
<1> HIDE DEF n
<1>3. n \in Nat
  BY Rowly DEF n
<1>4. \A k \in 0..n : g[k] \in Q
  BY <1>1, <1>3, WalkWithin
<1> DEFINE S == {k \in Nat : k <= n => g[k] = j[k]}
<1>5. 0 \in S
  BY <1>1, <1>2, <1>3, WalkStep
<1>6. ASSUME NEW k \in Nat, k \in S PROVE k + 1 \in S
  <2> SUFFICES ASSUME k + 1 <= n PROVE g[k + 1] = j[k + 1]
    OBVIOUS
  <2>1. k < n /\ k \in 0..n
    BY <1>3
  <2>2. g[k + 1] = f[g[k]] /\ j[k + 1] = h[j[k]]
    BY <1>1, <1>2, <1>3, <2>1, WalkStep
  <2> QED
    BY <1>4, <1>6, <2>1, <2>2
<1> HIDE DEF S
<1>7. n \in S
  BY <1>3, <1>5, <1>6, Induction
<1> QED
  BY <1>1, <1>2, <1>3, <1>7 DEF S
---------------------------------------------------------------------------
(* Trees of rows. *)

(* The rows there are for the server's entries and for messages sent. *)
Sent  == {m \in Message : handler[m] # "unsent"}
Known == 1..written \cup {-m : m \in Sent}

(* Parents lead to a root: there is no set of rows that has all its parents. *)
Grown == \A S \in SUBSET Known : S # {} => \E x \in S : ParentOf(x) \notin S

Family ==
    /\ Known \subseteq Row \ {0}
    /\ \A x \in Known : ParentOf(x) \in Known \cup {0}
    /\ Grown

(* Sorting by conversation index, and time: there is a last and a first. *)
LEMMA Keyed ==
  ASSUME NEW x \in Row
  PROVE  /\ Key(x) \in Int /\ MaxSessionEntry - Key(x) \in Nat
         /\ Key(x) + MaxMessage + 1 \in Nat
BY SessionAssumption DEF Row, Key

LEMMA LastIs ==
  ASSUME NEW S \in SUBSET Row, S # {}
  PROVE  Last(S) \in S /\ \A y \in S : Key(y) <= Key(Last(S))
<1> DEFINE T == {MaxSessionEntry - Key(x) : x \in S}
<1>1. T \in SUBSET Nat /\ T # {}
  BY Keyed
<1>2. PICK m \in T : \A y \in T : m <= y
  BY <1>1, Smallest
<1>3. PICK x \in S : m = MaxSessionEntry - Key(x)
  BY <1>2
<1>4. ASSUME NEW y \in S PROVE Key(y) <= Key(x)
  <2>1. MaxSessionEntry - Key(x) <= MaxSessionEntry - Key(y)
    BY <1>2, <1>3
  <2> QED
    BY <2>1, Keyed, SessionAssumption
<1> QED
  BY <1>4 DEF Last

LEMMA FirstIs ==
  ASSUME NEW S \in SUBSET Row, S # {}
  PROVE  First(S) \in S
<1> DEFINE T == {Key(x) + MaxMessage + 1 : x \in S}
<1>1. T \in SUBSET Nat /\ T # {}
  BY Keyed
<1>2. PICK m \in T : \A y \in T : m <= y
  BY <1>1, Smallest
<1>3. PICK x \in S : m = Key(x) + MaxMessage + 1
  BY <1>2
<1>4. ASSUME NEW y \in S PROVE Key(x) <= Key(y)
  <2>1. Key(x) + MaxMessage + 1 <= Key(y) + MaxMessage + 1
    BY <1>2, <1>3
  <2> QED
    BY <2>1, Keyed, SessionAssumption
<1> QED
  BY <1>4 DEF First

(* A function from rows to children of theirs, or to themselves. *)
Downward(f) ==
    \A x \in Row : f[x] = x \/ (f[x] \in Known /\ ParentOf(f[x]) = x)

LEMMA DownwardLoopless ==
  ASSUME Family, NEW f, Downward(f)
  PROVE  Loopless(f) /\ \A x \in Row : f[x] \in Row
<1>1. ASSUME NEW S \in SUBSET Row, Circle(S, f), \A y \in S : f[y] # y
      PROVE  FALSE
  <2>1. \A y \in S : y \in Known /\ ParentOf(y) \in S
    BY <1>1 DEF Circle, Downward
  <2>2. S \in SUBSET Known /\ S # {}
    BY <1>1, <2>1 DEF Circle
  <2> QED
    BY <2>1, <2>2 DEF Family, Grown
<1>2. \A x \in Row : f[x] \in Row
  BY DEF Downward, Family
<1> QED
  BY <1>1, <1>2 DEF Loopless

LEMMA NotOwnParent ==
  ASSUME Family, NEW x \in Known
  PROVE  ParentOf(x) # x
<1>1. {x} \in SUBSET Known /\ {x} # {}
  OBVIOUS
<1> QED
  BY <1>1 DEF Family, Grown

(* walkToLatestLeaf ends at a spine row without spine children. *)
LEMMA LeafIs ==
  ASSUME Family, NEW R \in SUBSET Known, NEW s \in Row
  PROVE  /\ WalkToLatestLeaf(R, s) \in (R \ sideLane) \cup {s}
         /\ SpineKids(R, WalkToLatestLeaf(R, s)) = {}
<1> DEFINE f == [x \in Row |-> IF SpineKids(R, x) = {} THEN x ELSE Last(SpineKids(R, x))]
           tip == Walk(f, s)
<1>1. WalkToLatestLeaf(R, s) = tip
  BY DEF WalkToLatestLeaf
<1>2. \A x \in Row : IF SpineKids(R, x) = {} THEN f[x] = x ELSE f[x] \in SpineKids(R, x)
  <2>1. \A x : SpineKids(R, x) \in SUBSET Row
    BY DEF SpineKids, Family
  <2> QED
    BY <2>1, LastIs
<1> HIDE DEF f
<1>3. Downward(f)
  BY <1>2 DEF Downward, SpineKids
<1>4. Loopless(f) /\ \A x \in Row : f[x] \in Row
  BY <1>3, DownwardLoopless
<1>5. f[tip] = tip
  BY <1>4, WalkEnds
<1>6. tip \in (R \ sideLane) \cup {s}
  <2> DEFINE Q == (R \ sideLane) \cup {s}
  <2>1. \A y \in Q : y \in Row /\ f[y] \in Q
    BY <1>2 DEF SpineKids, Family
  <2> HIDE DEF Q
  <2>2. s \in Q
    BY DEF Q
  <2>3. tip \in Q
    BY <2>1, <2>2, WalkIn
  <2> QED
    BY <2>3 DEF Q
<1>7. tip \in Row
  BY <1>6 DEF Family
<1>8. ASSUME SpineKids(R, tip) # {} PROVE FALSE
  <2>1. tip \in SpineKids(R, tip)
    BY <1>2, <1>5, <1>7, <1>8
  <2> QED
    BY <2>1, NotOwnParent DEF SpineKids
<1> QED
  BY <1>1, <1>6, <1>8

(* Where the parents of the rows lead, as far as they are among the rows. *)
Above(R) == [x \in Row |-> IF x \in R THEN ParentOf(x) ELSE x]

LEMMA LineageIs ==
  ASSUME NEW R, NEW leaf
  PROVE  \E g : /\ IsWalk(g, Above(R), leaf, Cardinality(Row))
                /\ Lineage(R, leaf) = {g[k] : k \in 0..Cardinality(R)} \ {0}
<1> DEFINE n == Cardinality(Row)
           a == Above(R)
           W == CHOOSE g : g = [k \in 0..n |-> IF k = 0 THEN leaf ELSE a[g[k - 1]]]
<1>4. Lineage(R, leaf) = {W[k] : k \in 0..Cardinality(R)} \ {0}
  BY DEF Lineage, Above
<1> HIDE DEF n, a
<1>1. n \in Nat
  BY Rowly DEF n
<1>2. \E g : g = [k \in 0..n |-> IF k = 0 THEN leaf ELSE a[g[k - 1]]]
  <2>1. \E g : IsWalk(g, a, leaf, n)
    BY <1>1, Iterates, Zenon
  <2> QED
    BY <2>1 DEF IsWalk
<1>3. W = [k \in 0..n |-> IF k = 0 THEN leaf ELSE a[W[k - 1]]]
  BY <1>2
<1> HIDE DEF W
<1>5. IsWalk(W, a, leaf, n)
  BY <1>3 DEF IsWalk
<1>6. IsWalk(W, Above(R), leaf, Cardinality(Row))
  BY <1>5 DEF n, a
<1> QED
  BY <1>4, <1>6, Zenon

LEMMA RowsFinite ==
  ASSUME NEW R \in SUBSET Row
  PROVE  /\ IsFiniteSet(R) /\ Cardinality(R) \in Nat
         /\ Cardinality(R) <= Cardinality(Row)
BY Rowly, FS_Subset, FS_CardinalityType

LEMMA AboveIs ==
  ASSUME Family, NEW R \in SUBSET Known
  PROVE  \A x \in Row : /\ x \in R => Above(R)[x] = ParentOf(x) /\ Above(R)[x] \in Row
                        /\ x \notin R => Above(R)[x] = x
<1>1. \A x \in R : ParentOf(x) \in Row
  BY Rowly DEF Family
<1> QED
  BY <1>1 DEF Above

(* buildEntryLineage: the leaf, and with each row that is there its parent. *)
LEMMA LineageWithin ==
  ASSUME Family, NEW R \in SUBSET Known, NEW leaf \in Row, NEW Q \in SUBSET Row,
         leaf \in Q, \A x \in Q \cap R : ParentOf(x) \in Q \cup {0}
  PROVE  Lineage(R, leaf) \subseteq Q
<1>1. PICK g : /\ IsWalk(g, Above(R), leaf, Cardinality(Row))
               /\ Lineage(R, leaf) = {g[k] : k \in 0..Cardinality(R)} \ {0}
  BY LineageIs
<1>2. \A y \in Q \cup {0} : Above(R)[y] \in Q \cup {0}
  <2>1. \A y \in Q \cup {0} : y \in Row /\ (y \in R => y \in Q)
    BY Rowly DEF Family
  <2> QED
    BY <2>1, AboveIs
<1>3. Cardinality(Row) \in Nat /\ \A k \in 0..Cardinality(R) : k \in 0..Cardinality(Row)
  <2>1. R \in SUBSET Row
    BY DEF Family
  <2> QED
    BY <2>1, RowsFinite, Rowly
<1>4. \A k \in 0..Cardinality(Row) : g[k] \in Q \cup {0}
  <2> DEFINE P == Q \cup {0}
             a == Above(R)
  <2>1. leaf \in P /\ \A y \in P : a[y] \in P
    BY <1>2
  <2>2. IsWalk(g, a, leaf, Cardinality(Row))
    BY <1>1
  <2> HIDE DEF P, a
  <2>3. \A k \in 0..Cardinality(Row) : g[k] \in P
    BY <1>3, <2>1, <2>2, WalkWithin
  <2> QED
    BY <2>3 DEF P
<1> QED
  BY <1>1, <1>3, <1>4

LEMMA LineageClosed ==
  ASSUME Family, NEW R \in SUBSET Known, NEW leaf \in Row \ {0}
  PROVE  /\ leaf \in Lineage(R, leaf)
         /\ \A x \in Lineage(R, leaf) \cap R : ParentOf(x) \in Lineage(R, leaf) \cup {0}
         /\ \A x \in Lineage(R, leaf) :
               x = leaf \/ \E y \in Lineage(R, leaf) \cap R : ParentOf(y) = x
         /\ \A x, y \in Lineage(R, leaf) \cap R : ParentOf(x) = ParentOf(y) => x = y
<1> DEFINE n == Cardinality(Row)
           c == Cardinality(R)
           a == Above(R)
           L == Lineage(R, leaf)
<1>1. PICK g : IsWalk(g, a, leaf, n) /\ L = {g[k] : k \in 0..c} \ {0}
  BY LineageIs
<1>2. n \in Nat /\ c \in Nat /\ c <= n /\ IsFiniteSet(R) /\ R \in SUBSET Row /\ 0 \notin R
  <2>1. R \in SUBSET Row /\ 0 \notin R
    BY DEF Family
  <2> QED
    BY <2>1, RowsFinite, Rowly
<1>3. \A x \in Row : a[x] \in Row /\ (x \in R => a[x] = ParentOf(x)) /\ (x \notin R => a[x] = x)
  BY AboveIs
<1>4. \A k \in 0..n : g[k] \in Row
  <2>1. \A x \in Row : a[x] \in Row
    BY <1>3
  <2> HIDE DEF a, n
  <2> QED
    BY <1>1, <1>2, <2>1, WalkWithin
<1> HIDE DEF n, c, a, L
<1>5. g[0] = leaf /\ \A k \in Nat : k < n => g[k + 1] = a[g[k]]
  BY <1>1, <1>2, WalkStep
(* Once outside the rows it stays there. *)
<1>6. ASSUME NEW i \in 0..n, g[i] \notin R, NEW k \in i..n PROVE g[k] = g[i]
  <2>1. a[g[i]] = g[i]
    BY <1>3, <1>4, <1>6
  <2> QED
    BY <1>1, <1>2, <1>6, <2>1, WalkStays
<1>7. ASSUME NEW i \in 0..n, NEW j \in 0..n, i < j, g[i] \in R, g[j] \in R,
             ParentOf(g[i]) = ParentOf(g[j])
      PROVE  FALSE
  <2> DEFINE S == {g[k] : k \in (i + 1)..j}
  <2>1. ASSUME NEW k \in i..j PROVE g[k] \in R
    <3>1. k \in 0..n /\ j \in k..n
      BY <1>2, <1>7
    <3> QED
      BY <1>6, <1>7, <3>1
  <2>2. ASSUME NEW k \in i..j, k < j PROVE ParentOf(g[k]) = g[k + 1] /\ k + 1 \in (i + 1)..j
    <3>1. k \in Nat /\ k < n /\ k \in 0..n
      BY <1>2, <2>2
    <3> QED
      BY <1>3, <1>4, <1>5, <2>1, <2>2, <3>1
  <2>3. ASSUME NEW k \in (i + 1)..j PROVE ParentOf(g[k]) \in S
    <3>1. k \in i..j
      BY <1>7
    <3>2. CASE k < j
      BY <2>2, <3>1, <3>2
    <3>3. CASE k = j
      <4>1. i \in i..j
        BY <1>7
      <4>2. ParentOf(g[i]) \in S
        BY <1>7, <2>2, <4>1
      <4> QED
        BY <1>7, <3>3, <4>2
    <3> QED
      BY <3>2, <3>3
  <2>4. S # {} /\ S \in SUBSET R
    <3>1. j \in (i + 1)..j /\ \A k \in (i + 1)..j : k \in i..j
      BY <1>7
    <3> QED
      BY <2>1, <3>1
  <2>5. \A x \in S : ParentOf(x) \in S
    BY <2>3
  <2> HIDE DEF S
  <2> QED
    BY <2>4, <2>5 DEF Family, Grown
(* After as many steps as there are rows it is outside. *)
<1>8. g[c] \notin R
  <2> SUFFICES ASSUME g[c] \in R PROVE FALSE
    OBVIOUS
  <2>1. ASSUME NEW k \in 0..c PROVE g[k] \in R
    <3>1. k \in 0..n /\ c \in k..n
      BY <1>2
    <3> QED
      BY <1>6, <3>1
  <2>2. IsFiniteSet(0..c) /\ Cardinality(0..c) = c + 1
    BY <1>2, FS_Interval
  <2> DEFINE h == [k \in 0..c |-> g[k]]
  <2>3. h \in [0..c -> R] /\ \A k \in 0..c : h[k] = g[k]
    BY <2>1
  <2> HIDE DEF h
  <2>4. Cardinality(R) < Cardinality(0..c)
    BY <1>2, <2>2 DEF c
  <2>5. \E x, y \in 0..c : x # y /\ h[x] = h[y]
    BY <1>2, <2>2, <2>3, <2>4, FS_PigeonHole
  <2>6. PICK x, y \in 0..c : x # y /\ g[x] = g[y]
    BY <2>3, <2>5
  <2>7. x \in 0..n /\ y \in 0..n /\ (x < y \/ y < x)
    BY <1>2, <2>6
  <2> QED
    BY <1>7, <2>1, <2>6, <2>7
<1>9. leaf \in L
  <2>1. 0 \in 0..c
    BY <1>2
  <2> QED
    BY <1>1, <1>5, <2>1
<1>10. ASSUME NEW x \in L \cap R PROVE ParentOf(x) \in L \cup {0}
  <2>1. PICK k \in 0..c : x = g[k]
    BY <1>1
  <2>2. k # c
    BY <1>8, <2>1
  <2>3. k \in Nat /\ k < n /\ k + 1 \in 0..c /\ k \in 0..n
    BY <1>2, <2>2
  <2>4. g[k + 1] = ParentOf(x)
    BY <1>3, <1>4, <1>5, <2>1, <2>3
  <2> QED
    BY <1>1, <2>3, <2>4
<1>11. ASSUME NEW x \in L, x # leaf PROVE \E y \in L \cap R : ParentOf(y) = x
  <2> DEFINE S == {k \in Nat : k <= c => g[k] = leaf \/ g[k] = 0 \/ \E y \in L \cap R : ParentOf(y) = g[k]}
  <2>1. 0 \in S
    BY <1>5
  <2>2. ASSUME NEW k \in Nat, k \in S PROVE k + 1 \in S
    <3> SUFFICES ASSUME k + 1 <= c
                 PROVE  g[k + 1] = leaf \/ g[k + 1] = 0 \/ \E y \in L \cap R : ParentOf(y) = g[k + 1]
      OBVIOUS
    <3>1. k \in 0..n /\ k \in 0..c /\ k < n /\ k <= c
      BY <1>2
    <3>2. g[k + 1] = a[g[k]]
      BY <1>5, <3>1
    <3>3. CASE g[k] \in R
      <4>1. g[k] \in L
        BY <1>1, <1>2, <3>1, <3>3
      <4> QED
        BY <1>3, <1>4, <3>1, <3>2, <3>3, <4>1
    <3>4. CASE g[k] \notin R
      BY <1>3, <1>4, <2>2, <3>1, <3>2, <3>4
    <3> QED
      BY <3>3, <3>4
  <2> HIDE DEF S
  <2>3. Nat \subseteq S
    BY <2>1, <2>2, Induction
  <2>4. PICK k \in 0..c : x = g[k] /\ x # 0
    BY <1>1
  <2>5. k \in S /\ k <= c
    BY <1>2, <2>3
  <2> QED
    BY <1>11, <2>4, <2>5 DEF S
<1>12. ASSUME NEW x \in L \cap R, NEW y \in L \cap R, ParentOf(x) = ParentOf(y), x # y
       PROVE  FALSE
  <2>1. PICK i \in 0..c, j \in 0..c : x = g[i] /\ y = g[j]
    BY <1>1
  <2>2. i \in 0..n /\ j \in 0..n /\ (i < j \/ j < i)
    BY <1>2, <1>12, <2>1
  <2> QED
    BY <1>7, <1>12, <2>1, <2>2
<1> QED
  BY <1>9, <1>10, <1>11, <1>12 DEF L---------------------------------------------------------------------------
(* What is true of the rows, the flags and the places of a session. *)

OnePer(C) == \A x, y \in C \ sideLane : ParentOf(x) = ParentOf(y) => x = y

TreeInv ==
    /\ written \in SessionEntry /\ written >= 2
    /\ parentId \in [SessionEntry -> Row] /\ asked \in [Message -> Row]
    /\ handler \in [Message -> HandlerState]
    /\ sideLane \subseteq 1..written /\ 1 \notin sideLane
    /\ parentId[1] = 0 /\ \A e \in 1..written : parentId[e] < e
    /\ Family

(* Anchors, cursors and messages are on the spine; what failed was a root. *)
PlaceInv ==
    /\ serverAnchor \in (1..written) \ sideLane
    /\ runCursor \in [Turn -> (0..written) \ sideLane] /\ readAnchor \in [Turn -> 0..written]
    /\ entryOf \in [Message -> (0..written) \ sideLane]
    /\ unsent \subseteq 1..written /\ stale \subseteq Turn /\ registered \in Turn
    /\ \A m \in Message : handler[m] = "failed" => asked[m] = 0

StreamInv ==
    /\ conn \in {"down", "opening", "live"}
    /\ snap \in [seq : 0..MaxSessionEntry, anchor : 0..MaxSessionEntry, leaf : 0..MaxSessionEntry]
    /\ snap.leaf # 0 => snap.anchor # 0
    /\ wire \in Seq(Event) /\ Len(wire) <= MaxWire + 1 /\ opened \in 0..MaxOpen
    /\ conn # "live" => Len(wire) <= MaxWire

(* The branch of the view anchor is flagged, wherever it can be. *)
ViewShown ==
    LET tip == WalkToLatestLeaf(rows, view)
    IN  switches = 0 /\ view \in rows /\ Rooted(rows, tip) => Lineage(rows, tip) \subseteq chosen

BrowserInv ==
    /\ rows \subseteq Known /\ chosen \subseteq rows
    /\ view \in 0..MaxSessionEntry /\ lastSeq \in 0..MaxSessionEntry /\ pending \subseteq Message
    /\ OnePer(chosen) /\ ViewShown

BranchInv ==
    /\ switch \in {"idle", "sent", "answered"} /\ switches \in 0..MaxSwitch
    /\ target \in (Known \cup {0}) \ sideLane
    /\ switch = "answered" => target \in 1..written

SessionInv == TreeInv /\ PlaceInv /\ StreamInv /\ BrowserInv /\ BranchInv
---------------------------------------------------------------------------
(* Flags. *)

(* chooseEntry on rows of which no two are siblings. *)
LEMMA ChooseIs ==
  ASSUME NEW R, NEW C \in SUBSET R, NEW P \in SUBSET R
  PROVE  /\ Choose(R, C, P) \subseteq R /\ P \subseteq Choose(R, C, P)
         /\ OnePer(C) /\ OnePer(P) => OnePer(Choose(R, C, P))
<1>1. Choose(R, C, P) \subseteq R /\ P \subseteq Choose(R, C, P)
  BY DEF Choose
<1>2. ASSUME OnePer(C), OnePer(P), NEW x \in Choose(R, C, P) \ sideLane,
             NEW y \in Choose(R, C, P) \ sideLane, ParentOf(x) = ParentOf(y)
      PROVE  x = y
  <2>1. ASSUME NEW a \in P, NEW b \in Choose(R, C, P) \ sideLane, ParentOf(a) = ParentOf(b)
        PROVE  b \in P
    <3>1. b \in R
      BY <1>1
    <3>2. b \in SpineKids(R, ParentOf(a))
      BY <2>1, <3>1 DEF SpineKids
    <3> QED
      BY <2>1, <3>2 DEF Choose
  <2>2. CASE x \in P \/ y \in P
    <3>1. x \in P /\ y \in P
      BY <1>2, <2>1, <2>2
    <3> QED
      BY <1>2, <3>1 DEF OnePer
  <2>3. CASE x \notin P /\ y \notin P
    <3>1. x \in C /\ y \in C
      BY <2>3 DEF Choose
    <3> QED
      BY <1>2, <3>1 DEF OnePer
  <2> QED
    BY <2>2, <2>3
<1> QED
  BY <1>1, <1>2 DEF OnePer

LEMMA LineageOnePer ==
  ASSUME Family, NEW R \in SUBSET Known, NEW leaf \in Row \ {0},
         NEW P \in SUBSET (Lineage(R, leaf) \cap R)
  PROVE  OnePer(P)
BY LineageClosed DEF OnePer

(* syncChosenPathToViewAnchor. *)
LEMMA SyncIs ==
  Family => \A R \in SUBSET Known : \A C \in SUBSET R : \A v \in Row :
      /\ SyncView(R, C, v) \subseteq R
      /\ OnePer(C) => OnePer(SyncView(R, C, v))
      /\ v \in R /\ Rooted(R, WalkToLatestLeaf(R, v)) =>
             Lineage(R, WalkToLatestLeaf(R, v)) \subseteq SyncView(R, C, v)
<1> SUFFICES ASSUME Family, NEW R \in SUBSET Known, NEW C \in SUBSET R, NEW v \in Row
             PROVE  /\ SyncView(R, C, v) \subseteq R
                    /\ OnePer(C) => OnePer(SyncView(R, C, v))
                    /\ v \in R /\ Rooted(R, WalkToLatestLeaf(R, v)) =>
                           Lineage(R, WalkToLatestLeaf(R, v)) \subseteq SyncView(R, C, v)
  OBVIOUS
<1> DEFINE roots == SpineKids(R, 0)
           start == IF v \in R THEN v ELSE Last(roots)
           tip == WalkToLatestLeaf(R, start)
           skip == (v \notin R /\ roots = {}) \/ ~Rooted(R, tip)
<1>1. SyncView(R, C, v) = IF skip THEN C ELSE Choose(R, C, Lineage(R, tip))
  BY DEF SyncView
<1>2. CASE skip
  BY <1>1, <1>2
<1>3. CASE ~skip
  <2>1. start \in R /\ R \subseteq Row \ {0}
    <3>1. roots \in SUBSET Row /\ roots \subseteq R /\ R \subseteq Row \ {0}
      BY DEF SpineKids, Family
    <3>2. v \notin R => Last(roots) \in roots
      BY <1>3, <3>1, LastIs
    <3> QED
      BY <3>1, <3>2
  <2> HIDE DEF start
  <2>2. tip \in R
    BY <2>1, LeafIs
  <2>3. Lineage(R, tip) \in SUBSET R
    BY <1>3 DEF Rooted
  <2> HIDE DEF tip
  <2>4. OnePer(Lineage(R, tip))
    BY <2>1, <2>2, <2>3, LineageOnePer
  <2>5. SyncView(R, C, v) = Choose(R, C, Lineage(R, tip))
    BY <1>1, <1>3
  <2>6. /\ SyncView(R, C, v) \subseteq R /\ Lineage(R, tip) \subseteq SyncView(R, C, v)
        /\ OnePer(C) => OnePer(SyncView(R, C, v))
    BY <2>3, <2>4, <2>5, ChooseIs
  <2>7. v \in R => tip = WalkToLatestLeaf(R, v)
    BY DEF tip, start
  <2> QED
    BY <2>6, <2>7
<1> QED
  BY <1>2, <1>3

LEMMA SyncNext ==
  (Family => \A R \in SUBSET Known : \A C \in SUBSET R : \A v \in Row :
      /\ SyncView(R, C, v) \subseteq R
      /\ OnePer(C) => OnePer(SyncView(R, C, v))
      /\ v \in R /\ Rooted(R, WalkToLatestLeaf(R, v)) =>
             Lineage(R, WalkToLatestLeaf(R, v)) \subseteq SyncView(R, C, v))'
BY SyncIs, PTL
---------------------------------------------------------------------------
(* How the tree grows. *)

TreeExtends ==
    /\ Known \subseteq Known'
    /\ \A x \in Known : ParentOf(x)' = ParentOf(x) /\ (x \in sideLane' <=> x \in sideLane)

TreeStays == UNCHANGED <<written, parentId, asked, sideLane>> /\ Sent' = Sent

LEMMA StaysExtends ==
  ASSUME TreeInv, TreeStays, handler' \in [Message -> HandlerState]
  PROVE  TreeInv' /\ TreeExtends /\ Known' = Known
<1>1. Known' = Known /\ \A x : ParentOf(x)' = ParentOf(x)
  BY DEF TreeStays, Known, ParentOf
<1>2. Family'
  BY <1>1 DEF TreeInv, Family, Grown
<1> QED
  BY <1>1, <1>2 DEF TreeStays, TreeExtends, TreeInv

(* A new row below one that is known, or at the root. *)
LEMMA FamilyGrows ==
  ASSUME Family, NEW x \in Row \ {0}, x \notin Known, Known' = Known \cup {x},
         \A y \in Known : ParentOf(y)' = ParentOf(y), ParentOf(x)' \in Known \cup {0}
  PROVE  Family'
<1>1. ASSUME NEW S \in SUBSET Known', S # {}
      PROVE  \E y \in S : ParentOf(y)' \notin S
  <2>1. CASE S \ {x} = {}
    <3>1. x \in S /\ ParentOf(x)' \notin S
      BY <1>1, <2>1
    <3> QED
      BY <3>1
  <2>2. CASE S \ {x} # {}
    <3>1. PICK y \in S \ {x} : ParentOf(y) \notin S \ {x}
      BY <2>2 DEF Family, Grown
    <3>2. y \in Known
      BY <1>1, <3>1
    <3>3. ParentOf(y) # x
      BY <3>2 DEF Family
    <3> QED
      BY <3>1, <3>2, <3>3
  <2> QED
    BY <2>1, <2>2
<1>2. Grown'
  BY <1>1 DEF Grown
<1>3. \A y \in Known' : ParentOf(y)' \in Known' \cup {0}
  BY DEF Family
<1>4. Known' \subseteq Row \ {0}
  BY DEF Family
<1> QED
  BY <1>2, <1>3, <1>4 DEF Family

LEMMA AppendGrows ==
  ASSUME TreeInv, NEW p \in Known \cup {0}, NEW lane, AppendEntry(p, lane),
         asked' = asked, Sent' = Sent,
         handler' \in [Message -> HandlerState]
  PROVE  /\ TreeInv' /\ TreeExtends
         /\ written \in Nat /\ written' = written + 1 /\ written' \in SessionEntry
         /\ sideLane \subseteq sideLane' /\ sideLane' \subseteq sideLane \cup {written'}
         /\ lane # "side" => sideLane' = sideLane
<1>1. /\ written \in Nat /\ written' = written + 1 /\ written' \in SessionEntry
      /\ parentId' = [parentId EXCEPT ![written'] = p]
      /\ sideLane' = IF lane = "side" THEN sideLane \cup {written'} ELSE sideLane
  BY SessionAssumption DEF AppendEntry, TreeInv, SessionEntry
<1>2. 1..written' = 1..written \cup {written'} /\ written' \notin 1..written
  BY <1>1
<1>3. Known' = Known \cup {written'}
  BY <1>2 DEF Known
<1>4. written' \notin Known /\ p <= written /\ p \in Row
  <2>1. \A m \in Message : -m < 0 /\ -m \in Int
    BY Bubbles
  <2>2. \A x \in Known : x <= written
    BY <1>1, <2>1 DEF Known, Sent
  <2>3. Known \subseteq Row /\ 0 \in Row
    BY Rowly DEF TreeInv, Family
  <2> QED
    BY <1>1, <2>2, <2>3
<1>5. \A x \in Known : x # written' /\ x \in Int
  BY <1>4, Rowly DEF TreeInv, Family
<1>6. ASSUME NEW x \in Known PROVE ParentOf(x)' = ParentOf(x)
  <2>1. CASE x > 0
    <3>1. x \in SessionEntry
      BY <2>1, <1>5, SessionAssumption DEF TreeInv, Family, Row, SessionEntry
    <3> QED
      BY <1>1, <1>5, <2>1, <3>1 DEF ParentOf, TreeInv
  <2>2. CASE ~(x > 0)
    BY <2>2 DEF ParentOf
  <2> QED
    BY <2>1, <2>2
<1>7. ASSUME NEW x, x = written' PROVE ParentOf(x)' = p
  <2>1. x > 0 /\ x \in SessionEntry
    BY <1>1, <1>7
  <2> QED
    BY <1>1, <1>7, <2>1 DEF ParentOf, TreeInv
<1>8. Family'
  <2>1. PICK x : x = written' /\ x \in Row \ {0}
    BY <1>1, SessionAssumption DEF SessionEntry, Row
  <2> QED
    BY <1>3, <1>4, <1>6, <1>7, <2>1, FamilyGrows DEF TreeInv
<1>9. /\ parentId' \in [SessionEntry -> Row] /\ parentId'[1] = 0
      /\ \A e \in 1..written' : parentId'[e] < e
  <2>1. 1..written \subseteq SessionEntry /\ written' # 1
    BY <1>1, SessionAssumption DEF SessionEntry, TreeInv
  <2>2. parentId' \in [SessionEntry -> Row] /\ parentId'[written'] = p
    BY <1>1, <1>4 DEF TreeInv
  <2>3. \A e \in 1..written : parentId'[e] = parentId[e]
    BY <1>1, <1>2, <2>1 DEF TreeInv
  <2>4. p < written' /\ p \in Int
    BY <1>1, <1>4, Rowly
  <2>5. 1 \in 1..written
    BY <1>1 DEF TreeInv
  <2> QED
    BY <1>2, <2>2, <2>3, <2>4, <2>5 DEF TreeInv
<1>10. written' >= 2 /\ 1 # written'
  BY <1>1 DEF TreeInv
<1>11. /\ sideLane' \subseteq 1..written' /\ 1 \notin sideLane'
       /\ \A x \in Known : x \in sideLane' <=> x \in sideLane
  BY <1>1, <1>2, <1>4, <1>10 DEF TreeInv
<1> QED
  BY <1>1, <1>3, <1>6, <1>8, <1>9, <1>10, <1>11 DEF TreeInv, TreeExtends

LEMMA AskGrows ==
  ASSUME TreeInv, NEW m \in Message, handler[m] = "unsent", NEW p \in Known \cup {0},
         asked' = [asked EXCEPT ![m] = p], handler' = [handler EXCEPT ![m] = "posted"],
         UNCHANGED <<written, parentId, sideLane>>
  PROVE  TreeInv' /\ TreeExtends /\ Known' = Known \cup {-m} /\ -m \notin Known
<1>1. -m \in Int /\ -m < 0 /\ -m \in Row \ {0} /\ -m \notin 1..written /\ -m \notin sideLane
  BY Bubbles, SessionAssumption DEF TreeInv, Message, Row
<1>2. Sent' = Sent \cup {m} /\ m \notin Sent
  BY DEF Sent, TreeInv
<1>3. Known' = Known \cup {-m}
  BY <1>2 DEF Known
<1>4. \A o \in Message : -o = -m => o = m
  BY Bubbles
<1>5. -m \notin Known
  BY <1>1, <1>2, <1>4 DEF Known, Sent
<1>6. ASSUME NEW x \in Known PROVE ParentOf(x)' = ParentOf(x)
  <2>1. CASE x \in 1..written
    <3>1. x > 0
      BY <2>1 DEF TreeInv, SessionEntry
    <3> QED
      BY <3>1 DEF ParentOf
  <2>2. ASSUME NEW o \in Sent, x = -o PROVE ParentOf(x)' = ParentOf(x)
    <3>1. o \in Message /\ o # m /\ ~(x > 0) /\ -x = o
      BY <1>2, <2>2, Bubbles DEF Sent
    <3> QED
      BY <3>1 DEF ParentOf, TreeInv
  <2> QED
    BY <2>1, <2>2 DEF Known
<1>7. ParentOf(-m)' = p
  <2>1. ~(-m > 0) /\ -(-m) = m
    BY <1>1, Bubbles
  <2> QED
    BY <2>1 DEF ParentOf, TreeInv
<1>8. Family'
  BY <1>1, <1>3, <1>5, <1>6, <1>7, FamilyGrows DEF TreeInv
<1>9. p \in Row
  BY Rowly DEF TreeInv, Family
<1> QED
  BY <1>3, <1>5, <1>6, <1>8, <1>9 DEF TreeInv, TreeExtends
---------------------------------------------------------------------------
(* What the browser shows. *)

(* Rows there are already have the leaf and the lineage they had. *)
LEMMA TreeSame ==
  ASSUME TreeExtends, NEW R \in SUBSET Known, NEW v
  PROVE  /\ WalkToLatestLeaf(R, v)' = WalkToLatestLeaf(R, v)
         /\ Lineage(R, v)' = Lineage(R, v)
         /\ Rooted(R, v)' = Rooted(R, v)
<1>1. \A x \in R : ParentOf(x)' = ParentOf(x) /\ (x \in sideLane' <=> x \in sideLane)
  BY DEF TreeExtends
<1>2. ASSUME NEW x PROVE SpineKids(R, x)' = SpineKids(R, x)
  BY <1>1 DEF SpineKids
<1>3. WalkToLatestLeaf(R, v)' = WalkToLatestLeaf(R, v)
  BY <1>2 DEF WalkToLatestLeaf
<1>4. [x \in Row |-> IF x \in R THEN ParentOf(x)' ELSE x] = [x \in Row |-> IF x \in R THEN ParentOf(x) ELSE x]
  BY <1>1
<1>5. Lineage(R, v)' = Lineage(R, v)
  BY <1>4 DEF Lineage
<1> QED
  BY <1>3, <1>5 DEF Rooted

LEMMA OnePerSame ==
  ASSUME TreeExtends, NEW C \in SUBSET Known, OnePer(C)
  PROVE  OnePer(C)'
BY DEF OnePer, TreeExtends

(* The session does not move while the tree grows. *)
LEMMA BrowserKept ==
  ASSUME TreeInv, BrowserInv, TreeExtends, UNCHANGED browser, switches' = 0 => switches = 0
  PROVE  BrowserInv'
<1>1. PICK R, C, v : R = rows /\ C = chosen /\ v = view
  OBVIOUS
<1>2. rows' = R /\ chosen' = C /\ view' = v /\ lastSeq' = lastSeq /\ pending' = pending
  BY <1>1 DEF browser
<1>3. R \in SUBSET Known /\ C \in SUBSET R
  BY <1>1 DEF BrowserInv
<1>4. OnePer(C)' /\ R \subseteq Known'
  BY <1>1, <1>3, OnePerSame DEF BrowserInv, TreeExtends
<1> DEFINE tip == WalkToLatestLeaf(R, v)
<1>5. tip' = tip
  BY <1>3, TreeSame
<1> HIDE DEF tip
<1>6. PICK t : t = tip
  OBVIOUS
<1>7. Lineage(R, t)' = Lineage(R, t) /\ Rooted(R, t)' = Rooted(R, t)
  BY <1>3, TreeSame
<1>8. switches' = 0 /\ v \in R /\ Rooted(R, t) => Lineage(R, t) \subseteq C
  BY <1>1, <1>6 DEF BrowserInv, ViewShown, tip
<1>9. ViewShown'
  <2>1. WalkToLatestLeaf(rows, view)' = t
    BY <1>2, <1>5, <1>6 DEF tip
  <2> QED
    BY <1>2, <1>7, <1>8, <2>1 DEF ViewShown
<1>10. view' \in 0..MaxSessionEntry /\ lastSeq' \in 0..MaxSessionEntry /\ pending' \subseteq Message
  BY <1>1, <1>2 DEF BrowserInv
<1> QED
  BY <1>2, <1>3, <1>4, <1>9, <1>10 DEF BrowserInv

(* It shows the branch of an anchor. *)
LEMMA BrowserShows ==
  ASSUME TreeInv, TreeExtends, NEW R \in SUBSET Known, NEW C \in SUBSET R, OnePer(C),
         NEW v \in 0..MaxSessionEntry, Show(R, C, v),
         lastSeq' \in 0..MaxSessionEntry, pending' \subseteq Message
  PROVE  BrowserInv'
<1>1. v \in Row
  BY SessionAssumption DEF Row
<1>2. PICK D : D = SyncView(R, C, v)
  OBVIOUS
<1>3. rows' = R /\ view' = v /\ chosen' = D
  BY <1>2 DEF Show
<1> DEFINE tip == WalkToLatestLeaf(R, v)
<1>4. /\ D \subseteq R /\ OnePer(D)
      /\ v \in R /\ Rooted(R, tip) => Lineage(R, tip) \subseteq D
  BY <1>1, <1>2, SyncIs DEF TreeInv
<1>5. tip' = tip
  BY TreeSame
<1> HIDE DEF tip
<1>6. PICK t : t = tip
  OBVIOUS
<1>7. Lineage(R, t)' = Lineage(R, t) /\ Rooted(R, t)' = Rooted(R, t)
  BY TreeSame
<1>8. ViewShown'
  <2>1. WalkToLatestLeaf(rows, view)' = t
    BY <1>3, <1>5, <1>6 DEF tip
  <2> QED
    BY <1>3, <1>4, <1>6, <1>7, <2>1 DEF ViewShown
<1>9. OnePer(D)' /\ R \subseteq Known'
  BY <1>4, OnePerSame DEF TreeExtends
<1> QED
  BY <1>3, <1>4, <1>8, <1>9 DEF BrowserInv

(* What is flagged of a snapshot, of a rekeyed row and of a chosen branch. *)
LEMMA Singles ==
  ASSUME NEW x
  PROVE  OnePer({}) /\ OnePer({x})
BY DEF OnePer

LEMMA OnePerSubset ==
  ASSUME NEW C, NEW D \in SUBSET C, OnePer(C)
  PROVE  OnePer(D)
BY DEF OnePer
---------------------------------------------------------------------------
(* The server's steps and the stream. *)

LEMMA ServerTipIs ==
  ASSUME TreeInv, PlaceInv
  PROVE  ServerTip \in 1..written /\ ServerTip \in SessionEntry /\ 1..written \subseteq Known
<1>1. 1..written \in SUBSET Known /\ serverAnchor \in 1..written /\ serverAnchor \in Row
  BY DEF Known, TreeInv, PlaceInv, Family
<1>2. ServerTip \in 1..written
  BY <1>1, LeafIs DEF ServerTip, TreeInv
<1>3. 1..written \subseteq SessionEntry
  BY SessionAssumption DEF TreeInv, SessionEntry
<1> QED
  BY <1>1, <1>2, <1>3

LEMMA StreamKept ==
  ASSUME StreamInv, UNCHANGED stream
  PROVE  StreamInv'
BY DEF StreamInv, stream

LEMMA StreamPublishes ==
  ASSUME StreamInv, NEW events \in Seq(Event), Publish(events)
  PROVE  StreamInv'
<1>1. wire \in Seq(Event) /\ Len(events) \in Nat /\ Len(wire) \in Nat
  BY DEF StreamInv
<1>2. wire \o events \in Seq(Event) /\ Len(wire \o events) = Len(wire) + Len(events)
  BY <1>1
<1>3. wire' \in Seq(Event) /\ Len(wire') <= MaxWire
  BY <1>1, <1>2, SessionAssumption DEF Publish
<1>4. Len(wire') <= MaxWire + 1
  BY <1>3, SessionAssumption
<1> QED
  BY <1>3, <1>4 DEF StreamInv, Publish

LEMMA BranchKept ==
  ASSUME TreeInv, BranchInv, UNCHANGED branch, TreeExtends, written' \in Nat, written <= written',
         0 \notin sideLane'
  PROVE  BranchInv'
<1>1. switch' = switch /\ switches' = switches /\ target' = target
  BY DEF branch
<1>2. target \in 1..written => target \in 1..written'
  BY DEF TreeInv, SessionEntry
<1> QED
  BY <1>1, <1>2 DEF BranchInv, TreeExtends

(* Steps of the server that leave the tree as it is. *)
LEMMA ServerStays ==
  ASSUME SessionInv, TreeStays,
         handler' \in [Message -> HandlerState],
         PlaceInv', StreamInv', UNCHANGED <<browser, branch>>
  PROVE  SessionInv'
<1>1. TreeInv' /\ TreeExtends /\ Known' = Known
  BY StaysExtends DEF SessionInv
<1>2. BrowserInv'
  BY <1>1, BrowserKept DEF SessionInv, branch
<1>3. BranchInv'
  <2>1. written' \in Nat /\ written <= written' /\ 0 \notin sideLane'
    BY SessionAssumption DEF TreeStays, SessionInv, TreeInv, SessionEntry
  <2> QED
    BY <1>1, <2>1, BranchKept DEF SessionInv
<1> QED
  BY <1>1, <1>2, <1>3 DEF SessionInv

(* Steps that append an entry. *)
LEMMA ServerAppends ==
  ASSUME SessionInv, NEW p \in Known \cup {0}, NEW lane, AppendEntry(p, lane),
         asked' = asked, Sent' = Sent,
         handler' \in [Message -> HandlerState],
         \A m \in Message : handler'[m] = "failed" => handler[m] = "failed",
         \/ entryOf' = entryOf
         \/ lane = "spine" /\ \E m \in Message : entryOf' = [entryOf EXCEPT ![m] = written'],
         \/ runCursor' = runCursor
         \/ lane = "spine" /\ \E r \in Turn : runCursor' = [runCursor EXCEPT ![r] = written'],
         unsent' \subseteq unsent \cup {written'}, stale' \subseteq Turn,
         UNCHANGED <<serverAnchor, registered, readAnchor, stream, browser, branch>>
  PROVE  SessionInv'
<1>1. /\ TreeInv' /\ TreeExtends
      /\ written \in Nat /\ written' = written + 1 /\ written' \in SessionEntry
      /\ sideLane \subseteq sideLane' /\ sideLane' \subseteq sideLane \cup {written'}
      /\ lane # "side" => sideLane' = sideLane
  BY AppendGrows DEF SessionInv
<1>2. BrowserInv' /\ StreamInv'
  BY <1>1, BrowserKept, StreamKept DEF SessionInv, branch
<1>3. BranchInv'
  <2>1. written' \in Nat /\ written <= written' /\ 0 \notin sideLane'
    BY <1>1 DEF SessionInv, TreeInv
  <2> QED
    BY <1>1, <2>1, BranchKept DEF SessionInv
<1>4. PlaceInv'
  <2>1. \A e \in (0..written) \ sideLane : e \in (0..written') \ sideLane'
    BY <1>1
  <2>2. \A e \in (1..written) \ sideLane : e \in (1..written') \ sideLane'
    BY <1>1
  <2>3. lane = "spine" => written' \in (0..written') \ sideLane'
    <3>1. written' \notin sideLane
      BY <1>1 DEF SessionInv, TreeInv
    <3> QED
      BY <1>1, <3>1
  <2>4. /\ runCursor' \in [Turn -> (0..written') \ sideLane']
        /\ readAnchor' \in [Turn -> 0..written']
    <3>1. runCursor \in [Turn -> (0..written') \ sideLane']
      BY <2>1 DEF SessionInv, PlaceInv
    <3>2. readAnchor \in [Turn -> 0..written']
      BY <1>1 DEF SessionInv, PlaceInv
    <3> QED
      BY <2>3, <3>1, <3>2
  <2>5. entryOf' \in [Message -> (0..written') \ sideLane']
    <3>1. entryOf \in [Message -> (0..written') \ sideLane']
      BY <2>1 DEF SessionInv, PlaceInv
    <3> QED
      BY <2>3, <3>1
  <2>6. unsent' \subseteq 1..written'
    BY <1>1 DEF SessionInv, PlaceInv
  <2>7. serverAnchor' \in (1..written') \ sideLane' /\ registered' \in Turn
    BY <2>2 DEF SessionInv, PlaceInv
  <2>8. \A m \in Message : handler'[m] = "failed" => asked'[m] = 0
    BY DEF SessionInv, PlaceInv
  <2> QED
    BY <2>4, <2>5, <2>6, <2>7, <2>8 DEF PlaceInv
<1> QED
  BY <1>1, <1>2, <1>3, <1>4 DEF SessionInv
---------------------------------------------------------------------------
LEMMA EventsTyped ==
  ASSUME IInv, SessionInv
  PROVE  /\ \A r \in Turn : readAnchor[r] # 0 => Updated(r) \in Event
         /\ \A m \in Message : handler[m] = "anchored" =>
               [type |-> "message", seq |-> written, entry |-> entryOf[m], request |-> m] \in Event
         /\ \A e \in unsent : [type |-> "upsert", seq |-> written, entry |-> e] \in Event
<1>1. written \in SessionEntry /\ 1..written \subseteq SessionEntry
  BY SessionAssumption DEF SessionInv, TreeInv, SessionEntry
<1>2. serverAnchor \in SessionEntry /\ unsent \subseteq SessionEntry
  BY <1>1 DEF SessionInv, PlaceInv
<1>3. \A m \in Message : handler[m] = "anchored" => entryOf[m] \in SessionEntry
  <2> SUFFICES ASSUME NEW m \in Message, handler[m] = "anchored" PROVE entryOf[m] \in SessionEntry
    OBVIOUS
  <2>1. entryOf[m] \in 0..written /\ entryOf[m] # 0
    BY DEF IInv, EntryInv, SessionInv, PlaceInv
  <2> QED
    BY <1>1, <2>1
<1>4. ASSUME NEW r \in Turn, readAnchor[r] # 0 PROVE Updated(r) \in Event
  <2>1. readAnchor[r] \in SessionEntry
    BY <1>1, <1>4 DEF SessionInv, PlaceInv
  <2> QED
    BY <1>1, <2>1 DEF Updated, Event
<1>5. \A m \in Message : handler[m] = "anchored" =>
        [type |-> "message", seq |-> written, entry |-> entryOf[m], request |-> m] \in Event
  BY <1>1, <1>3 DEF Event
<1>6. \A e \in unsent : [type |-> "upsert", seq |-> written, entry |-> e] \in Event
  BY <1>1, <1>2 DEF Event
<1> QED
  BY <1>4, <1>5, <1>6

LEMMA PostsSession ==
  ASSUME IInv, SessionInv, NEW m \in Message,
         PostReject(m) \/ PostAppend(m) \/ PostAnchor(m) \/ PostPublish(m)
  PROVE  SessionInv'
<1>0. 0 \in (0..written) \ sideLane /\ handler[m] \in HandlerState /\ m \in Turn
  BY SessionAssumption DEF SessionInv, TreeInv, SessionEntry, Message, Turn
<1>1. CASE PostReject(m)
  <2>1. TreeStays
    BY <1>1 DEF PostReject, HandlerTo, TreeStays, Sent, SessionInv, TreeInv
  <2>2. PlaceInv'
    BY <1>0, <1>1 DEF PostReject, HandlerTo, Orphan, runs, SessionInv, PlaceInv, TreeInv
  <2>3. StreamInv' /\ UNCHANGED <<browser, branch>>
    BY <1>1, StreamKept DEF PostReject, SessionInv
  <2>4. handler' \in [Message -> HandlerState]
    BY <1>1 DEF PostReject, HandlerTo, SessionInv, TreeInv
  <2> QED
    BY <2>1, <2>2, <2>3, <2>4, ServerStays
<1>2. CASE PostAppend(m)
  <2>1. AppendEntry(asked[m], "spine") /\ handler[m] = "begun"
    BY <1>2 DEF PostAppend
  <2>2. asked[m] \in Known \cup {0}
    <3>1. m \in Sent /\ -m \in Known /\ ~(-m > 0) /\ -(-m) = m
      BY <2>1, Bubbles DEF Sent, Known
    <3>2. ParentOf(-m) = asked[m]
      BY <3>1 DEF ParentOf
    <3> QED
      BY <3>1, <3>2 DEF SessionInv, TreeInv, Family
  <2>3. handler' \in [Message -> HandlerState]
    BY <1>2 DEF PostAppend, HandlerTo, SessionInv, TreeInv
  <2>4. Sent' = Sent /\ \A o \in Message : handler'[o] = "failed" => handler[o] = "failed"
    BY <1>2, <2>1 DEF PostAppend, HandlerTo, Sent, SessionInv, TreeInv
  <2>5. /\ entryOf' = [entryOf EXCEPT ![m] = written'] /\ stale' \subseteq Turn
        /\ UNCHANGED <<asked, unsent, serverAnchor, runCursor, registered, readAnchor, stream,
                       browser, branch>>
    BY <1>2, <2>1 DEF PostAppend, AppendEntry, runs, SessionInv, PlaceInv
  <2> QED
    BY <2>1, <2>2, <2>3, <2>4, <2>5, ServerAppends
<1>3. CASE PostAnchor(m)
  <2>1. TreeStays
    BY <1>3 DEF PostAnchor, HandlerTo, TreeStays, Sent, SessionInv, TreeInv
  <2>2. entryOf[m] \in (1..written) \ sideLane
    BY <1>3 DEF PostAnchor, IInv, EntryInv, SessionInv, PlaceInv
  <2>3. PlaceInv'
    BY <1>3, <2>2 DEF PostAnchor, HandlerTo, runs, SessionInv, PlaceInv, TreeInv
  <2>4. StreamInv' /\ UNCHANGED <<browser, branch>>
    BY <1>3, StreamKept DEF PostAnchor, SessionInv
  <2>5. handler' \in [Message -> HandlerState]
    BY <1>3 DEF PostAnchor, HandlerTo, SessionInv, TreeInv
  <2> QED
    BY <2>1, <2>3, <2>4, <2>5, ServerStays
<1>4. CASE PostPublish(m)
  <2>1. TreeStays
    BY <1>4 DEF PostPublish, HandlerTo, TreeStays, Sent, SessionInv, TreeInv
  <2>2. PlaceInv'
    <3>1. runCursor' \in [Turn -> (0..written) \ sideLane] /\ readAnchor' \in [Turn -> 0..written]
      BY <1>0, <1>4 DEF PostPublish, SessionInv, PlaceInv
    <3>2. \A o \in Message : handler'[o] = "failed" => handler[o] = "failed"
      BY <1>4 DEF PostPublish, HandlerTo, SessionInv, TreeInv
    <3> QED
      BY <1>4, <3>1, <3>2 DEF PostPublish, SessionInv, PlaceInv
  <2> DEFINE ev == [type |-> "message", seq |-> written, entry |-> entryOf[m], request |-> m]
  <2>3. Publish(<<Updated(m), ev>>) /\ Updated(m) \in Event /\ ev \in Event
    BY <1>0, <1>4, EventsTyped DEF PostPublish
  <2> HIDE DEF ev
  <2>4. StreamInv'
    <3>1. <<Updated(m), ev>> \in Seq(Event)
      BY <2>3
    <3> QED
      BY <2>3, <3>1, StreamPublishes DEF SessionInv
  <2>5. /\ UNCHANGED <<browser, branch>>
        /\ handler' \in [Message -> HandlerState]
    BY <1>4 DEF PostPublish, HandlerTo, SessionInv, TreeInv
  <2> QED
    BY <2>1, <2>2, <2>4, <2>5, ServerStays
<1> QED
  BY <1>1, <1>2, <1>3, <1>4

LEMMA BeginSession ==
  ASSUME IInv, SessionInv, NEW S \in SUBSET Message, NEW last \in S, PostBegin(S, last)
  PROVE  SessionInv'
<1>0. 0 \in (0..written) \ sideLane /\ last \in Turn
  BY SessionAssumption DEF SessionInv, TreeInv, SessionEntry, Message, Turn
<1>1. /\ \A m \in S : handler[m] = "posted"
      /\ handler' = [m \in Message |-> IF m \in S THEN "begun" ELSE handler[m]]
  BY DEF PostBegin
<1>2. TreeStays
  BY <1>1 DEF PostBegin, TreeStays, Sent
<1>3. /\ handler' \in [Message -> HandlerState]
      /\ \A m \in Message : handler'[m] = "failed" => handler[m] = "failed"
  BY <1>1 DEF SessionInv, TreeInv
<1>4. runCursor' \in [Turn -> (0..written) \ sideLane] /\ registered' \in Turn
  BY <1>0 DEF PostBegin, SessionInv, PlaceInv
<1>5. PlaceInv'
  BY <1>3, <1>4 DEF PostBegin, SessionInv, PlaceInv
<1>6. StreamInv' /\ UNCHANGED <<browser, branch>>
  BY StreamKept DEF PostBegin, SessionInv
<1> QED
  BY <1>2, <1>3, <1>5, <1>6, ServerStays

LEMMA RunsSession ==
  ASSUME IInv, SessionInv, Run
  PROVE  SessionInv'
<1>0. /\ 0 \in (0..written) \ sideLane /\ 1..written \subseteq Known
      /\ handler \in [Message -> HandlerState]
  BY SessionAssumption DEF SessionInv, TreeInv, SessionEntry, Known
<1>1. ASSUME NEW r \in Turn, RunAppend(r) PROVE SessionInv'
  <2>1. AppendEntry(runCursor[r], "spine") /\ runCursor[r] \in Known \cup {0}
    BY <1>0, <1>1 DEF RunAppend, SessionInv, PlaceInv
  <2>2. /\ runCursor' = [runCursor EXCEPT ![r] = written'] /\ unsent' = unsent \cup {written'}
        /\ stale' \subseteq Turn
        /\ UNCHANGED <<handler, asked, entryOf, serverAnchor, registered, readAnchor, stream,
                       browser, branch>>
    BY <1>1, <2>1 DEF RunAppend, AppendEntry, UsedTokens, SessionInv, PlaceInv
  <2>3. Sent' = Sent
    BY <2>2 DEF Sent
  <2> QED
    BY <1>0, <2>1, <2>2, <2>3, ServerAppends
<1>2. CASE SideAppend
  <2>1. PICK a \in {ServerTip} \cup {runCursor[r] : r \in Turn} \cup {entryOf[m] : m \in Message} :
          a # 0 /\ AppendEntry(a, "side")
    BY <1>2 DEF SideAppend
  <2>2. a \in Known \cup {0}
    BY <1>0, <2>1, ServerTipIs DEF SessionInv, PlaceInv
  <2>3. /\ unsent' = unsent \cup {written'}
        /\ stale' \subseteq Turn
        /\ UNCHANGED <<handler, runCursor, asked, entryOf, serverAnchor, registered, readAnchor,
                       stream, browser, branch>>
    BY <1>2, <2>1 DEF SideAppend, AppendEntry, UsedTokens, SessionInv, PlaceInv
  <2>4. Sent' = Sent
    BY <2>3 DEF Sent
  <2> QED
    BY <1>0, <2>1, <2>2, <2>3, <2>4, ServerAppends
<1>3. CASE UpsertPublish
  <2>1. TreeStays
    BY <1>3 DEF UpsertPublish, TreeStays, Sent
  <2>2. PICK e \in unsent :
          /\ Publish(<<[type |-> "upsert", seq |-> written, entry |-> e]>>)
          /\ unsent' = unsent \ {e}
    BY <1>3 DEF UpsertPublish
  <2> DEFINE ev == [type |-> "upsert", seq |-> written, entry |-> e]
  <2>3. Publish(<<ev>>) /\ ev \in Event
    BY <2>2, EventsTyped
  <2> HIDE DEF ev
  <2>4. StreamInv'
    <3>1. <<ev>> \in Seq(Event)
      BY <2>3
    <3> QED
      BY <2>3, <3>1, StreamPublishes DEF SessionInv
  <2>5. PlaceInv'
    BY <1>3, <2>2 DEF UpsertPublish, SessionInv, PlaceInv, TreeInv
  <2>6. UNCHANGED <<browser, branch, handler>>
    BY <1>3 DEF UpsertPublish
  <2> QED
    BY <1>0, <2>1, <2>4, <2>5, <2>6, ServerStays
<1>4. ASSUME NEW r \in Turn, Answer(r) \/ StopRun(r) \/ ReadAnchor(r) PROVE SessionInv'
  <2>1. TreeStays
    BY <1>4 DEF Answer, StopRun, ReadAnchor, TreeStays, Sent
  <2>2. /\ runCursor[r] # 0 => runCursor[r] \in (1..written) \ sideLane
        /\ serverAnchor \in 0..written
    BY SessionAssumption DEF SessionInv, PlaceInv, TreeInv, SessionEntry
  <2>3. PlaceInv'
    <3>1. CASE Answer(r)
      BY <1>0, <2>2, <3>1 DEF Answer, SessionInv, PlaceInv
    <3>2. CASE StopRun(r)
      BY <1>0, <3>2 DEF StopRun, SessionInv, PlaceInv
    <3>3. CASE ReadAnchor(r)
      BY <2>2, <3>3 DEF ReadAnchor, SessionInv, PlaceInv
    <3> QED
      BY <1>4, <3>1, <3>2, <3>3
  <2>4. StreamInv' /\ UNCHANGED <<browser, branch, handler>>
    BY <1>4, StreamKept DEF Answer, StopRun, ReadAnchor, SessionInv
  <2> QED
    BY <1>0, <2>1, <2>3, <2>4, ServerStays
<1>5. ASSUME NEW r \in Turn, UpdatePublish(r) PROVE SessionInv'
  <2>1. TreeStays
    BY <1>5 DEF UpdatePublish, TreeStays, Sent
  <2>2. Publish(<<Updated(r)>>) /\ Updated(r) \in Event
    BY <1>5, EventsTyped DEF UpdatePublish
  <2>3. StreamInv'
    <3>1. <<Updated(r)>> \in Seq(Event)
      BY <2>2
    <3> QED
      BY <2>2, <3>1, StreamPublishes DEF SessionInv
  <2>4. readAnchor' \in [Turn -> 0..written]
    BY <1>0, <1>5 DEF UpdatePublish, SessionInv, PlaceInv
  <2>5. PlaceInv'
    BY <1>5, <2>4 DEF UpdatePublish, SessionInv, PlaceInv
  <2>6. UNCHANGED <<browser, branch, handler>>
    BY <1>5 DEF UpdatePublish
  <2> QED
    BY <1>0, <2>1, <2>3, <2>5, <2>6, ServerStays
<1> QED
  BY <1>1, <1>2, <1>3, <1>4, <1>5 DEF Run

(* The whole server stands still. *)
LEMMA ServerRests ==
  ASSUME SessionInv, UNCHANGED server
  PROVE  TreeInv' /\ PlaceInv' /\ TreeExtends /\ Known' = Known /\ written' = written
<1>1. UNCHANGED <<written, parentId, sideLane, serverAnchor, handler, asked, entryOf, registered,
                  runCursor, unsent, stale, readAnchor>>
  BY DEF server, runs
<1>2. TreeStays
  BY <1>1 DEF TreeStays, Sent
<1>3. handler' \in [Message -> HandlerState]
  BY <1>1 DEF SessionInv, TreeInv
<1>4. PlaceInv'
  BY <1>1 DEF SessionInv, PlaceInv
<1> QED
  BY <1>1, <1>2, <1>3, <1>4, StaysExtends DEF SessionInv

LEMMA StreamSession ==
  ASSUME IInv, SessionInv, Open \/ ReadEntries \/ ReadView \/ ReadLeaf
  PROVE  SessionInv'
<1>1. UNCHANGED <<server, browser, branch>>
  BY DEF Open, ReadEntries, ReadView, ReadLeaf, Took
<1>2. TreeStays /\ PlaceInv' /\ handler' \in [Message -> HandlerState]
  BY <1>1, ServerRests DEF TreeStays, Sent, server, TreeInv
<1>3. CASE Open
  <2>1. conn' = "opening" /\ snap' = Unread /\ wire' = <<>> /\ opened' = opened + 1 /\ opened < MaxOpen
    BY <1>3 DEF Open
  <2>2. wire' \in Seq(Event) /\ Len(wire') = 0
    BY <2>1
  <2>3. /\ Unread \in [seq : 0..MaxSessionEntry, anchor : 0..MaxSessionEntry, leaf : 0..MaxSessionEntry]
        /\ Unread.leaf = 0
    BY SessionAssumption DEF Unread
  <2>4. StreamInv'
    BY <2>1, <2>2, <2>3, SessionAssumption DEF SessionInv, StreamInv
  <2> QED
    BY <1>1, <1>2, <2>4, ServerStays
<1>4. ASSUME NEW s \in [seq : 0..MaxSessionEntry, anchor : 0..MaxSessionEntry, leaf : 0..MaxSessionEntry],
             Took(s), s.leaf # 0 => s.anchor # 0, conn = "opening"
      PROVE  SessionInv'
  <2>1. wire \in Seq(Event) /\ Len(wire) \in Nat /\ Len(wire) <= MaxWire
    BY <1>4 DEF SessionInv, StreamInv
  <2>2. CASE s.seq # 0 /\ s.leaf # 0
    <3> DEFINE ev == [type |-> "snapshot", seq |-> s.seq, anchor |-> s.anchor, leaf |-> s.leaf]
    <3>1. ev \in Event
      BY <1>4, <2>2, SessionAssumption DEF Event, SessionEntry
    <3>2. conn' = "live" /\ snap' = Unread /\ wire' = <<ev>> \o wire /\ opened' = opened
      BY <1>4, <2>2 DEF Took
    <3> HIDE DEF ev
    <3>3. wire' \in Seq(Event) /\ Len(wire') <= MaxWire + 1
      BY <2>1, <3>1, <3>2, SessionAssumption
    <3>4. /\ Unread \in [seq : 0..MaxSessionEntry, anchor : 0..MaxSessionEntry, leaf : 0..MaxSessionEntry]
          /\ Unread.leaf = 0
      BY SessionAssumption DEF Unread
    <3>5. StreamInv'
      BY <3>2, <3>3, <3>4 DEF SessionInv, StreamInv
    <3> QED
      BY <1>1, <1>2, <3>5, ServerStays
  <2>3. CASE ~(s.seq # 0 /\ s.leaf # 0)
    <3>1. snap' = s /\ conn' = conn /\ wire' = wire /\ opened' = opened
      BY <1>4, <2>3 DEF Took
    <3>2. StreamInv'
      BY <1>4, <3>1 DEF SessionInv, StreamInv
    <3> QED
      BY <1>1, <1>2, <3>2, ServerStays
  <2> QED
    BY <2>2, <2>3
<1>5. written \in 0..MaxSessionEntry /\ serverAnchor \in 0..MaxSessionEntry /\ ServerTip \in 0..MaxSessionEntry /\ ServerTip # 0
  BY ServerTipIs, SessionAssumption DEF SessionInv, TreeInv, PlaceInv, SessionEntry
<1>6. CASE ReadEntries
  <2> DEFINE s == [snap EXCEPT !.seq = written]
  <2>1. Took(s) /\ conn = "opening"
    BY <1>6 DEF ReadEntries
  <2>2. /\ s \in [seq : 0..MaxSessionEntry, anchor : 0..MaxSessionEntry, leaf : 0..MaxSessionEntry]
        /\ s.leaf # 0 => s.anchor # 0
    BY <1>5 DEF SessionInv, StreamInv
  <2> HIDE DEF s
  <2> QED
    BY <1>4, <2>1, <2>2
<1>7. CASE ReadView
  <2>1. /\ snap' = [snap EXCEPT !.anchor = serverAnchor] /\ conn' = conn /\ wire' = wire
        /\ opened' = opened /\ serverAnchor # 0
    BY <1>7, SessionAssumption DEF ReadView, SessionInv, PlaceInv
  <2>2. /\ snap' \in [seq : 0..MaxSessionEntry, anchor : 0..MaxSessionEntry, leaf : 0..MaxSessionEntry]
        /\ snap'.leaf # 0 => snap'.anchor # 0
    BY <1>5, <2>1 DEF SessionInv, StreamInv
  <2>3. StreamInv'
    BY <2>1, <2>2 DEF SessionInv, StreamInv
  <2> QED
    BY <1>1, <1>2, <2>3, ServerStays
<1>8. CASE ReadLeaf
  <2> DEFINE s == [snap EXCEPT !.leaf = ServerTip]
  <2>1. Took(s) /\ conn = "opening"
    BY <1>8 DEF ReadLeaf
  <2>2. /\ s \in [seq : 0..MaxSessionEntry, anchor : 0..MaxSessionEntry, leaf : 0..MaxSessionEntry]
        /\ s.leaf # 0 => s.anchor # 0
    BY <1>5, <1>8 DEF ReadLeaf, SessionInv, StreamInv
  <2> HIDE DEF s
  <2> QED
    BY <1>4, <2>1, <2>2
<1> QED
  BY <1>3, <1>6, <1>7, <1>8
---------------------------------------------------------------------------
(* The browser's steps. *)

(* A snapshot's rows: the whole lineage of its leaf is there, or it throws. *)
LEMMA SnapshotRows ==
  ASSUME SessionInv, NEW n \in 1..written, NEW leaf
  PROVE  LET R == 1..n
             start == IF leaf \in R THEN leaf ELSE WalkToLatestLeaf(R, Last(SpineKids(R, 0)))
         IN  /\ R \subseteq Known /\ start \in R
             /\ Rooted(R, start) => /\ Choose(R, {}, Lineage(R, start)) \subseteq R
                                    /\ OnePer(Choose(R, {}, Lineage(R, start)))
<1> DEFINE R == 1..n
           roots == SpineKids(R, 0)
           start == IF leaf \in R THEN leaf ELSE WalkToLatestLeaf(R, Last(roots))
<1>1. /\ R \subseteq 1..written /\ R \in SUBSET Known /\ R \subseteq Row \ {0} /\ 1 \in R
      /\ Family
  BY DEF SessionInv, TreeInv, SessionEntry, Known, Family
<1>2. 1 \in roots /\ roots \in SUBSET Row /\ roots \subseteq R
  BY <1>1 DEF SpineKids, ParentOf, SessionInv, TreeInv
<1>3. Last(roots) \in R
  BY <1>2, LastIs
<1>4. start \in R
  <2> HIDE DEF R
  <2>1. WalkToLatestLeaf(R, Last(roots)) \in R
    BY <1>1, <1>3, LeafIs DEF roots
  <2> QED
    BY <2>1
<1>5. ASSUME Rooted(R, start)
      PROVE  /\ Choose(R, {}, Lineage(R, start)) \subseteq R
             /\ OnePer(Choose(R, {}, Lineage(R, start)))
  <2> HIDE DEF R, start
  <2>1. Lineage(R, start) \in SUBSET R
    BY <1>5 DEF Rooted
  <2>2. OnePer(Lineage(R, start)) /\ OnePer({})
    BY <1>1, <1>4, <2>1, LineageOnePer, Singles
  <2> QED
    BY <2>1, <2>2, ChooseIs
<1> QED
  BY <1>1, <1>4, <1>5

(* Everything the store does with an event. *)
LEMMA ReceiveBrowser ==
  ASSUME IInv, SessionInv, Receive
  PROVE  BrowserInv'
<1>0. /\ TreeInv /\ TreeExtends /\ Known' = Known /\ BrowserInv
      /\ switches' = switches
  BY ServerRests DEF SessionInv, Receive, branch
<1>1. /\ chosen \subseteq rows /\ rows \in SUBSET Known /\ OnePer(chosen)
      /\ view \in 0..MaxSessionEntry /\ lastSeq \in 0..MaxSessionEntry /\ pending \subseteq Message
  BY <1>0 DEF BrowserInv
<1>2. PICK ev \in Event : ev = Head(wire) /\ Sound(ev)
  <2>1. Head(wire) \in Event
    BY DEF Receive, SessionInv, StreamInv
  <2>2. Head(wire) \in Events(wire)
    BY Received DEF Receive, IInv, SessionTypes
  <2> QED
    BY <2>1, <2>2 DEF IInv, WireInv
<1>3. SessionEntry \subseteq 0..MaxSessionEntry /\ 1..written \subseteq Known /\ written \in Nat
  BY DEF SessionEntry, Known, SessionInv, TreeInv
<1>4. CASE UNCHANGED browser
  BY <1>0, <1>4, BrowserKept
<1>5. CASE ev.type = "snapshot" /\ ApplySnapshot(ev)
  <2> DEFINE R == 1..ev.seq
             start == IF ev.leaf \in R THEN ev.leaf ELSE WalkToLatestLeaf(R, Last(SpineKids(R, 0)))
             C == Choose(R, {}, Lineage(R, start))
  <2>1. /\ ev.seq \in 1..written /\ ev.anchor \in 0..MaxSessionEntry
        /\ ev.seq \in 0..MaxSessionEntry
    BY <1>2, <1>3, <1>5 DEF Event, SessionEntry, Sound
  <2>2. CASE Rooted(R, start)
    <3>1. Show(R, C, ev.anchor) /\ lastSeq' = ev.seq /\ pending' = pending
      BY <1>5, <2>2 DEF ApplySnapshot
    <3>2. R \in SUBSET Known /\ C \in SUBSET R /\ OnePer(C)
      BY <2>1, <2>2, SnapshotRows
    <3> HIDE DEF R, C
    <3> QED
      BY <1>0, <1>1, <2>1, <3>1, <3>2, BrowserShows
  <2>3. CASE ~Rooted(R, start)
    BY <1>4, <1>5, <2>3 DEF ApplySnapshot
  <2> QED
    BY <2>2, <2>3
<1>6. CASE ev.type = "message" /\ ApplyMessage(ev)
  <2>1. /\ ev.entry \in 1..written /\ ev.entry \in Known /\ ev.entry \in 0..MaxSessionEntry
        /\ pending \ {ev.request} \subseteq Message
    <3>1. ev.entry = entryOf[ev.request] /\ ev.request \in Message /\ ev.entry # 0
      BY <1>2, <1>6 DEF Sound
    <3>2. PICK e : e = ev.entry
      OBVIOUS
    <3>3. e \in 0..written /\ e # 0 /\ written <= MaxSessionEntry /\ written \in Nat
      BY <3>1, <3>2, SessionAssumption DEF SessionInv, PlaceInv, TreeInv, SessionEntry
    <3>4. e \in 1..written /\ e \in 0..MaxSessionEntry
      BY <3>3, SessionAssumption
    <3>5. pending \ {ev.request} \subseteq Message
      BY <1>1
    <3> QED
      BY <1>3, <3>2, <3>4, <3>5
  <2>2. lastSeq' = lastSeq /\ pending' = pending \ {ev.request}
    BY <1>6 DEF ApplyMessage
  <2>3. PICK R, C :
          /\ R \in SUBSET Known /\ C \in SUBSET R /\ OnePer(C)
          /\ Show(R, SyncView(R, C, view), ev.entry) \/ Show(R, C, ev.entry)
    <3>1. CASE ev.request \in pending /\ -ev.request \in rows
      <4> DEFINE m == ev.request
                 R == (rows \ {-m}) \cup {ev.entry}
                 C == chosen \ {-m}
                 D == IF -m \in chosen THEN Choose(R, C, {ev.entry}) ELSE C
      <4>1. Show(R, SyncView(R, D, view), ev.entry)
        BY <1>6, <3>1 DEF ApplyMessage, Rekeyed
      <4>2. R \in SUBSET Known /\ C \in SUBSET R /\ OnePer(C) /\ {ev.entry} \in SUBSET R
        BY <1>1, <2>1, OnePerSubset
      <4>3. D \in SUBSET R /\ OnePer(D)
        <5>1. D = C \/ D = Choose(R, C, {ev.entry})
          OBVIOUS
        <5> HIDE DEF R, C, D
        <5>2. OnePer({ev.entry})
          BY Singles
        <5>3. Choose(R, C, {ev.entry}) \subseteq R /\ OnePer(Choose(R, C, {ev.entry}))
          BY <4>2, <5>2, ChooseIs
        <5> QED
          BY <4>2, <5>1, <5>3
      <4> HIDE DEF R, D
      <4> QED
        BY <4>1, <4>2, <4>3
    <3>2. CASE ~(ev.request \in pending /\ -ev.request \in rows)
      <4>1. Show(rows \cup {ev.entry},
                 IF ev.entry \in rows THEN chosen ELSE SyncView(rows \cup {ev.entry}, chosen, view),
                 ev.entry)
        BY <1>6, <3>2 DEF ApplyMessage, Appended
      <4>2. rows \cup {ev.entry} \in SUBSET Known /\ chosen \in SUBSET (rows \cup {ev.entry})
        BY <1>1, <2>1
      <4> QED
        BY <1>1, <4>1, <4>2
    <3> QED
      BY <3>1, <3>2
  <2>4. PICK D : Show(R, D, ev.entry) /\ R \in SUBSET Known /\ D \in SUBSET R /\ OnePer(D)
    <3>1. CASE Show(R, SyncView(R, C, view), ev.entry) /\ R \in SUBSET Known /\ C \in SUBSET R /\ OnePer(C)
      <4>1. view \in Row
        BY <1>1, SessionAssumption DEF Row
      <4>2. SyncView(R, C, view) \in SUBSET R /\ OnePer(SyncView(R, C, view))
        BY <3>1, <4>1, SyncIs DEF SessionInv, TreeInv
      <4> QED
        BY <3>1, <4>2
    <3> QED
      BY <2>3, <3>1
  <2> QED
    BY <1>0, <1>1, <2>1, <2>2, <2>4, BrowserShows
<1>7. CASE ev.type = "upsert" /\ ApplyUpsert(ev)
  <2>1. ev.entry \in Known
    BY <1>2, <1>3, <1>7 DEF Sound, OfTheRun
  <2>2. Show(rows \cup {ev.entry}, chosen, view) /\ lastSeq' = lastSeq /\ pending' = pending
    BY <1>7 DEF ApplyUpsert
  <2>3. rows \cup {ev.entry} \in SUBSET Known /\ chosen \in SUBSET (rows \cup {ev.entry})
    BY <1>1, <2>1
  <2> QED
    BY <1>0, <1>1, <2>2, <2>3, BrowserShows
<1>8. CASE ev.type = "updated" /\ ApplyUpdated(ev)
  <2>1. ev.anchor \in 0..MaxSessionEntry
    BY <1>2, <1>3, <1>8 DEF Event
  <2>2. Show(rows, chosen, ev.anchor) /\ lastSeq' = lastSeq /\ pending' = pending
    BY <1>8 DEF ApplyUpdated
  <2> QED
    BY <1>0, <1>1, <2>1, <2>2, BrowserShows
<1> QED
  BY <1>2, <1>4, <1>5, <1>6, <1>7, <1>8 DEF Receive

LEMMA ReceiveSession ==
  ASSUME IInv, SessionInv, Receive
  PROVE  SessionInv'
<1>1. UNCHANGED <<server, conn, snap, opened, branch>> /\ wire' = Tail(wire) /\ wire # <<>> /\ conn = "live"
  BY DEF Receive
<1>2. TreeInv' /\ PlaceInv' /\ TreeExtends /\ Known' = Known /\ written' = written
  BY <1>1, ServerRests
<1>3. StreamInv'
  <2>1. wire' \in Seq(Event) /\ Len(wire') <= MaxWire + 1
    <3>1. wire \in Seq(Event) /\ Len(wire) \in Nat /\ Len(wire) # 0 /\ Len(wire) <= MaxWire + 1
      BY <1>1 DEF SessionInv, StreamInv
    <3>2. wire' \in Seq(Event) /\ Len(wire') = Len(wire) - 1
      BY <1>1, <3>1
    <3> QED
      BY <3>1, <3>2, SessionAssumption
  <2> QED
    BY <1>1, <2>1 DEF SessionInv, StreamInv
<1>4. BranchInv'
  <2>1. written' \in Nat /\ written <= written' /\ 0 \notin sideLane'
    BY <1>2 DEF TreeInv, SessionEntry
  <2> QED
    BY <1>1, <1>2, <2>1, BranchKept DEF SessionInv
<1> QED
  BY <1>2, <1>3, <1>4, ReceiveBrowser DEF SessionInv

(* The last row of the transcript is a row, if there is any. *)
LEMMA TipIsRow ==
  ASSUME Family, NEW R \in SUBSET Known, NEW C \in SUBSET R
  PROVE  PathTip(R, C) \in R \cup {0} /\ LastRow(R, C) \in R \cup {0}
<1>1. /\ R \in SUBSET Row /\ \A x : SpineKids(R, x) \in SUBSET Row /\ SideKids(R, x) \in SUBSET Row
      /\ \A x : SpineKids(R, x) \subseteq R /\ SideKids(R, x) \subseteq R
      /\ R \cup {0} \subseteq Row
  BY Rowly DEF Family, SpineKids, SideKids
<1>2. PathTip(R, C) \in R \cup {0}
  <2> DEFINE roots == SpineKids(R, 0)
             next == [x \in Row |-> IF SpineKids(R, x) \cap C = {} THEN x ELSE First(SpineKids(R, x) \cap C)]
             top == IF roots \cap C # {} THEN First(roots \cap C) ELSE Last(roots)
  <2>1. PathTip(R, C) = IF roots = {} THEN 0 ELSE Walk(next, top)
    BY DEF PathTip
  <2>2. \A x \in Row : next[x] = x \/ next[x] \in R
    <3> SUFFICES ASSUME NEW x \in Row, SpineKids(R, x) \cap C # {} PROVE First(SpineKids(R, x) \cap C) \in R
      OBVIOUS
    <3>1. SpineKids(R, x) \cap C \in SUBSET Row
      BY <1>1
    <3> QED
      BY <1>1, <3>1, FirstIs
  <2>3. roots # {} => top \in R
    <3>1. roots \cap C \in SUBSET Row /\ roots \in SUBSET Row /\ roots \subseteq R
      BY <1>1
    <3> QED
      BY <3>1, FirstIs, LastIs
  <2> HIDE DEF next, top
  <2>4. \A y \in R : next[y] \in R
    BY <1>1, <2>2
  <2>5. roots # {} => Walk(next, top) \in R
    BY <2>3, <2>4, WalkIn
  <2> QED
    BY <2>1, <2>5
<1>3. LastRow(R, C) \in R \cup {0}
  <2> DEFINE next == [x \in Row |-> IF SideKids(R, x) = {} THEN x ELSE Last(SideKids(R, x))]
             Q == R \cup {0}
             tip == PathTip(R, C)
  <2>1. LastRow(R, C) = Walk(next, tip)
    BY DEF LastRow
  <2>2. \A y \in Q : next[y] \in Q
    <3> SUFFICES ASSUME NEW y \in Q, SideKids(R, y) # {} PROVE Last(SideKids(R, y)) \in R
      BY <1>1
    <3> QED
      BY <1>1, LastIs
  <2>3. tip \in Q
    BY <1>2
  <2> HIDE DEF next, Q, tip
  <2>4. Walk(next, tip) \in Q
    BY <2>2, <2>3, WalkIn
  <2> QED
    BY <2>1, <2>4 DEF Q
<1> QED
  BY <1>2, <1>3

LEMMA SendSession ==
  ASSUME IInv, SessionInv, NEW m \in Message, Send(m)
  PROVE  SessionInv'
<1>1. /\ handler[m] = "unsent" /\ handler' = [handler EXCEPT ![m] = "posted"]
      /\ asked' = [asked EXCEPT ![m] = LastRow(rows, chosen)]
      /\ pending' = pending \cup {m} /\ rows' = rows \cup {-m}
      /\ UNCHANGED <<written, parentId, sideLane, serverAnchor, entryOf, runs, stream, view, lastSeq,
                     branch>>
      /\ chosen' \in {SyncView(rows, C, view)' : C \in {chosen}}
  BY DEF Send, Fresh
<1>2. LastRow(rows, chosen) \in Known \cup {0}
  BY TipIsRow DEF SessionInv, TreeInv, BrowserInv
<1>3. TreeInv' /\ TreeExtends /\ Known' = Known \cup {-m} /\ -m \notin Known
  BY <1>1, <1>2, AskGrows DEF SessionInv
<1>4. PlaceInv'
  BY <1>1 DEF SessionInv, PlaceInv, TreeInv, runs
<1>5. StreamInv' /\ BranchInv'
  <2>1. written' \in Nat /\ written <= written' /\ 0 \notin sideLane'
    BY <1>1 DEF SessionInv, TreeInv, SessionEntry
  <2> QED
    BY <1>1, <1>3, <2>1, StreamKept, BranchKept DEF SessionInv
<1>6. PICK C : C = chosen /\ chosen' = SyncView(rows, C, view)'
  BY <1>1
<1>7. PICK R, D, v : R = rows' /\ D = chosen' /\ v = view'
  OBVIOUS
<1>8. /\ R \in SUBSET Known' /\ C \in SUBSET R /\ v \in 0..MaxSessionEntry /\ v \in Row
      /\ R = rows \cup {-m}
  BY <1>1, <1>3, <1>6, <1>7, SessionAssumption DEF SessionInv, BrowserInv, Row
<1>9. OnePer(C)'
  <2>1. C \in SUBSET Known /\ OnePer(C)
    BY <1>6 DEF SessionInv, BrowserInv
  <2> QED
    BY <1>3, <2>1, OnePerSame
<1>10. SyncView(R, C, v)' = SyncView(rows, C, view)'
  BY <1>7
<1>11. /\ D \subseteq R /\ OnePer(D)'
       /\ v \in R /\ Rooted(R, WalkToLatestLeaf(R, v))' => Lineage(R, WalkToLatestLeaf(R, v))' \subseteq D
  BY <1>3, <1>6, <1>7, <1>8, <1>9, <1>10, SyncNext DEF TreeInv
<1>12. BrowserInv'
  <2>1. ViewShown'
    BY <1>7, <1>11 DEF ViewShown
  <2>2. /\ view' \in 0..MaxSessionEntry /\ lastSeq' \in 0..MaxSessionEntry /\ pending' \subseteq Message
    BY <1>1 DEF SessionInv, BrowserInv
  <2>3. OnePer(chosen)' /\ rows' \subseteq Known' /\ chosen' \subseteq rows'
    BY <1>7, <1>8, <1>11
  <2> QED
    BY <2>1, <2>2, <2>3 DEF BrowserInv
<1> QED
  BY <1>3, <1>4, <1>5, <1>12 DEF SessionInv

LEMMA SendEditSession ==
  ASSUME IInv, SessionInv, NEW m \in Message, SendEdit(m)
  PROVE  SessionInv'
<1>1. PICK e \in rows \cap ({1} \cup {entryOf[o] : o \in Message}) :
        asked' = [asked EXCEPT ![m] = parentId[e]]
  BY DEF SendEdit
<1>2. /\ handler[m] = "unsent" /\ handler' = [handler EXCEPT ![m] = "posted"]
      /\ UNCHANGED <<written, parentId, sideLane, serverAnchor, entryOf, runs, stream, browser, branch>>
  BY DEF SendEdit, Fresh
<1>3. parentId[e] \in Known \cup {0}
  <2>1. e \in Known /\ e > 0
    <3>1. e \in Known /\ e # 0
      BY DEF SessionInv, BrowserInv, TreeInv, Family
    <3>2. e \in 0..written
      <4>1. CASE e = 1
        BY <4>1 DEF SessionInv, TreeInv, SessionEntry
      <4>2. CASE \E o \in Message : e = entryOf[o]
        BY <4>2 DEF SessionInv, PlaceInv
      <4> QED
        BY <1>1, <4>1, <4>2
    <3> QED
      BY <3>1, <3>2 DEF SessionInv, TreeInv, SessionEntry
  <2>2. ParentOf(e) = parentId[e]
    BY <2>1 DEF ParentOf
  <2> QED
    BY <2>1, <2>2 DEF SessionInv, TreeInv, Family
<1>4. TreeInv' /\ TreeExtends
  BY <1>1, <1>2, <1>3, AskGrows DEF SessionInv
<1>5. PlaceInv'
  BY <1>1, <1>2 DEF SessionInv, PlaceInv, TreeInv, runs
<1>6. StreamInv' /\ BranchInv' /\ BrowserInv'
  <2>1. written' \in Nat /\ written <= written' /\ 0 \notin sideLane'
    BY <1>2 DEF SessionInv, TreeInv, SessionEntry
  <2>2. switches' = switches
    BY <1>2 DEF branch
  <2> QED
    BY <1>2, <1>4, <2>1, <2>2, StreamKept, BranchKept, BrowserKept DEF SessionInv
<1> QED
  BY <1>4, <1>5, <1>6 DEF SessionInv

(* The branch of a chosen row, from the row down. *)
LEMMA SwitchSession ==
  ASSUME IInv, SessionInv, SwitchBranch
  PROVE  SessionInv'
<1>1. PICK e \in rows \ sideLane :
        LET tip == WalkToLatestLeaf(rows, e)
            line == {x \in Lineage(rows, tip) : e \in Lineage(rows, x)}
        IN  chosen' = Choose(rows, chosen, line) /\ target' = tip
  BY DEF SwitchBranch
<1>2. /\ switch' = "sent" /\ switches' = switches + 1 /\ switches < MaxSwitch
      /\ UNCHANGED <<server, stream, rows, view, lastSeq, pending>>
  BY DEF SwitchBranch
<1>3. TreeInv' /\ PlaceInv' /\ TreeExtends /\ Known' = Known /\ written' = written
  BY <1>2, ServerRests
<1> DEFINE tip == WalkToLatestLeaf(rows, e)
           line == {x \in Lineage(rows, tip) : e \in Lineage(rows, x)}
<1>4. /\ rows \in SUBSET Known /\ chosen \in SUBSET rows /\ OnePer(chosen) /\ Family
      /\ rows \subseteq Row \ {0}
  BY DEF SessionInv, BrowserInv, TreeInv, Family
<1>5. tip \in rows \ sideLane
  BY <1>4, LeafIs
<1>6. line \in SUBSET (Lineage(rows, tip) \cap rows)
  <2> SUFFICES ASSUME NEW x \in Lineage(rows, tip), e \in Lineage(rows, x), x \notin rows PROVE FALSE
    OBVIOUS
  <2> HIDE DEF tip
  <2>1. x \in Row
    <3>1. Lineage(rows, tip) \subseteq Row
      <4>1. \A y \in Row \cap rows : ParentOf(y) \in Row \cup {0}
        BY <1>4 DEF Family
      <4> QED
        BY <1>4, <1>5, <4>1, LineageWithin
    <3> QED
      BY <3>1
  <2>2. Lineage(rows, x) \subseteq {x}
    <3>1. {x} \in SUBSET Row /\ x \in {x} /\ \A y \in {x} \cap rows : ParentOf(y) \in {x} \cup {0}
      BY <2>1
    <3> QED
      BY <1>4, <2>1, <3>1, LineageWithin
  <2> QED
    BY <2>2
<1>7. OnePer(line)
  <2> HIDE DEF tip, line
  <2> QED
    BY <1>4, <1>5, <1>6, LineageOnePer
<1>8. chosen' \subseteq rows /\ OnePer(chosen')
  <2>1. chosen' = Choose(rows, chosen, line)
    BY <1>1
  <2>2. line \in SUBSET rows
    BY <1>6
  <2> HIDE DEF line
  <2>3. /\ Choose(rows, chosen, line) \subseteq rows /\ OnePer(Choose(rows, chosen, line))
    BY <1>4, <1>7, <2>2, ChooseIs
  <2> QED
    BY <2>1, <2>3
<1>9. BrowserInv'
  <2>1. PICK D : D = chosen'
    OBVIOUS
  <2>2. OnePer(D)'
    BY <1>3, <1>4, <1>8, <2>1, OnePerSame
  <2>3. ViewShown'
    <3>1. switches' # 0
      BY <1>2 DEF SessionInv, BranchInv
    <3> QED
      BY <3>1 DEF ViewShown
  <2> QED
    BY <1>2, <1>3, <1>8, <2>1, <2>2, <2>3 DEF SessionInv, BrowserInv
<1>10. BranchInv'
  <2>1. sideLane' = sideLane
    BY <1>2 DEF server
  <2>2. target' \in (Known' \cup {0}) \ sideLane'
    BY <1>1, <1>3, <1>4, <1>5, <2>1
  <2>3. switches' \in 0..MaxSwitch
    BY <1>2, SessionAssumption DEF SessionInv, BranchInv
  <2> QED
    BY <1>2, <2>2, <2>3 DEF BranchInv
<1> QED
  BY <1>2, <1>3, <1>9, <1>10, StreamKept DEF SessionInv

LEMMA SwitchesSession ==
  ASSUME IInv, SessionInv, SwitchArrives \/ SwitchDone
  PROVE  SessionInv'
<1>1. CASE SwitchArrives
  <2>1. /\ TreeStays /\ UNCHANGED <<handler, stream, browser>> /\ switches' = switches
    BY <1>1 DEF SwitchArrives, TreeStays, Sent
  <2>2. TreeInv' /\ TreeExtends /\ Known' = Known
    BY <2>1, StaysExtends DEF SessionInv, TreeInv
  <2>3. PlaceInv'
    <3>1. serverAnchor' \in (1..written) \ sideLane
      BY <1>1 DEF SwitchArrives, SessionInv, PlaceInv, BranchInv
    <3> QED
      BY <1>1, <3>1 DEF SwitchArrives, SessionInv, PlaceInv, runs
  <2>4. StreamInv' /\ BrowserInv'
    BY <2>1, <2>2, StreamKept, BrowserKept DEF SessionInv
  <2>5. BranchInv'
    <3>1. 0 \notin sideLane
      BY DEF SessionInv, TreeInv, SessionEntry
    <3> QED
      BY <1>1, <2>1, <2>2, <3>1 DEF SwitchArrives, SessionInv, BranchInv, TreeStays
  <2> QED
    BY <2>2, <2>3, <2>4, <2>5 DEF SessionInv
<1>2. CASE SwitchDone
  <2>1. /\ UNCHANGED <<server, stream, lastSeq, pending, switches>> /\ Show(rows, chosen, target)
        /\ switch' = "idle" /\ target' = 0 /\ switch = "answered"
    BY <1>2 DEF SwitchDone
  <2>2. TreeInv' /\ PlaceInv' /\ TreeExtends /\ Known' = Known /\ written' = written
    BY <2>1, ServerRests
  <2>3. BrowserInv'
    <3>1. target \in 0..MaxSessionEntry
      BY <2>1, SessionAssumption DEF SessionInv, BranchInv, TreeInv, SessionEntry
    <3>2. /\ rows \in SUBSET Known /\ chosen \in SUBSET rows /\ OnePer(chosen)
          /\ lastSeq' \in 0..MaxSessionEntry /\ pending' \subseteq Message
      BY <2>1 DEF SessionInv, BrowserInv
    <3> QED
      BY <2>1, <2>2, <3>1, <3>2, BrowserShows DEF SessionInv
  <2>4. BranchInv'
    <3>1. 0 \notin sideLane'
      BY <2>2 DEF TreeInv, SessionEntry
    <3> QED
      BY <2>1, <3>1 DEF SessionInv, BranchInv
  <2> QED
    BY <2>1, <2>2, <2>3, <2>4, StreamKept DEF SessionInv
<1> QED
  BY <1>1, <1>2
---------------------------------------------------------------------------
LEMMA InitSession == SessionInit => SessionInv
<1> SUFFICES ASSUME SessionInit PROVE SessionInv
  OBVIOUS
<1>1. 1 \in SessionEntry /\ 2 \in SessionEntry /\ 0 \in Row /\ 1 \in Row /\ 2 \in Row
  BY SessionAssumption DEF SessionEntry, Row
<1>2. Known = {1, 2} /\ ParentOf(1) = 0 /\ ParentOf(2) = 1
  BY <1>1 DEF SessionInit, Known, Sent, ParentOf
<1>3. Family
  <2>1. ASSUME NEW S \in SUBSET Known, S # {} PROVE \E x \in S : ParentOf(x) \notin S
    <3>1. CASE 1 \in S
      BY <1>2, <2>1, <3>1
    <3>2. CASE 1 \notin S
      BY <1>2, <2>1, <3>2
    <3> QED
      BY <3>1, <3>2
  <2> QED
    BY <1>1, <1>2, <2>1 DEF Family, Grown
<1>4. TreeInv
  BY <1>1, <1>3 DEF SessionInit, TreeInv
<1>5. PlaceInv
  <2>1. 1 \in 1..2 /\ 2 \in 1..2 /\ 0 \in 0..2 /\ 2 \in 0..2 /\ 0 \in Turn
    BY SessionAssumption DEF Turn
  <2>2. /\ entryOf \in [Message -> 0..2]
        /\ runCursor \in [Turn -> 0..2] /\ readAnchor \in [Turn -> 0..2]
    BY <2>1 DEF SessionInit
  <2>3. \A m \in Message : asked[m] = 0
    BY DEF SessionInit
  <2> QED
    BY <2>1, <2>2, <2>3 DEF SessionInit, PlaceInv
<1>6. StreamInv
  BY SessionAssumption DEF SessionInit, StreamInv, Unread
<1>7. BrowserInv
  <2>1. rows = {} /\ chosen = {} /\ view = 0 /\ lastSeq = 0 /\ pending = {}
    BY DEF SessionInit
  <2>2. ViewShown
    BY <2>1 DEF ViewShown
  <2>3. OnePer(chosen)
    BY <2>1 DEF OnePer
  <2> QED
    BY <2>1, <2>2, <2>3, SessionAssumption DEF BrowserInv
<1>8. BranchInv
  <2>1. switch = "idle" /\ switches = 0 /\ target = 0 /\ sideLane = {}
    BY DEF SessionInit
  <2> QED
    BY <2>1, SessionAssumption DEF BranchInv
<1> QED
  BY <1>4, <1>5, <1>6, <1>7, <1>8 DEF SessionInv

LEMMA NextSession == IInv /\ SessionInv /\ [SessionNext]_sessionVars => SessionInv'
<1> SUFFICES ASSUME IInv, SessionInv, [SessionNext]_sessionVars PROVE SessionInv'
  OBVIOUS
<1>1. CASE UNCHANGED sessionVars
  <2>1. UNCHANGED server /\ UNCHANGED stream /\ UNCHANGED browser /\ UNCHANGED branch
    BY <1>1 DEF sessionVars
  <2>2. TreeInv' /\ PlaceInv' /\ TreeStays /\ handler' = handler
    BY <2>1, ServerRests DEF TreeStays, Sent, server
  <2> QED
    BY <2>1, <2>2, StreamKept, ServerStays DEF SessionInv, TreeInv
<1>2. ASSUME NEW m \in Message, PostReject(m) \/ PostAppend(m) \/ PostAnchor(m) \/ PostPublish(m)
      PROVE  SessionInv'
  BY <1>2, PostsSession
<1>3. CASE Run
  BY <1>3, RunsSession
<1>4. CASE Open \/ ReadEntries \/ ReadView \/ ReadLeaf
  BY <1>4, StreamSession
<1>5. CASE Receive
  BY <1>5, ReceiveSession
<1>6. ASSUME NEW m \in Message, Send(m) \/ SendEdit(m) PROVE SessionInv'
  BY <1>6, SendSession, SendEditSession
<1>7. CASE SwitchBranch \/ SwitchArrives \/ SwitchDone
  BY <1>7, SwitchSession, SwitchesSession
<1>8. ASSUME NEW S \in SUBSET Message, NEW last \in S, PostBegin(S, last) PROVE SessionInv'
  BY <1>8, BeginSession
<1> QED
  BY <1>1, <1>2, <1>3, <1>4, <1>5, <1>6, <1>7, <1>8 DEF SessionNext

(* Every variable of a session has its type. *)
THEOREM SessionTypeCorrect == SessionSpec => []SessionTypeOK
<1>1. SessionInv => SessionTypeOK
  <2> SUFFICES ASSUME SessionInv PROVE SessionTypeOK
    OBVIOUS
  <2>1. Known \subseteq Row \ {0} /\ 1..written \subseteq SessionEntry /\ written <= MaxSessionEntry /\ 0 \in Row
    BY SessionAssumption, Rowly DEF SessionInv, TreeInv, Family, SessionEntry
  <2>2. entryOf \in [Message -> 0..MaxSessionEntry]
    BY <2>1, SessionAssumption DEF SessionInv, PlaceInv, TreeInv, SessionEntry
  <2>3. /\ serverAnchor \in SessionEntry
        /\ runCursor \in [Turn -> 0..MaxSessionEntry] /\ readAnchor \in [Turn -> 0..MaxSessionEntry]
    BY <2>1, SessionAssumption DEF SessionInv, PlaceInv, TreeInv, SessionEntry
  <2>4. rows \subseteq Row \ {0} /\ target \in Row
    BY <2>1 DEF SessionInv, BrowserInv, BranchInv
  <2> QED
    BY <2>1, <2>2, <2>3, <2>4 DEF SessionInv, TreeInv, PlaceInv, StreamInv, BrowserInv, BranchInv, SessionTypeOK
<1> QED
  BY <1>1, InitInv, NextInv, InitSession, NextSession, PTL DEF SessionSpec

(* chooseEntry, syncChosenPathToViewAnchor and switchToEntryBranch: at most *)
(* one row is chosen at a fork, in whatever order messages are sent and     *)
(* edited, events and snapshots arrive and branches are switched.           *)
THEOREM OneChosenPerForkProved == SessionSpec => []OneChosenPerFork
<1>1. SessionInv => OneChosenPerFork
  BY DEF SessionInv, BrowserInv, OnePer, OneChosenPerFork
<1> QED
  BY <1>1, InitInv, NextInv, InitSession, NextSession, PTL DEF SessionSpec
---------------------------------------------------------------------------
(* Nothing is lost on the way to the browser. *)

(* An entry that is still to come. *)
InFlight(e) ==
    \/ e \in unsent
    \/ \E m \in Message : entryOf[m] = e /\ handler[m] \in {"appended", "anchored"}
    \/ \E ev \in Events(wire) : ev.type \in {"message", "upsert"} /\ ev.entry = e

AtHead == wire # <<>> /\ wire[1].type = "snapshot"

(* A snapshot goes first on its connection, an entry's event is stamped     *)
(* after the entry, and the store holds what the watermark says.            *)
OrderInv ==
    /\ \A n \in 1..Len(wire) : wire[n].type = "snapshot" => n = 1 /\ conn = "live"
    /\ \A ev \in Events(wire) : ev.type \in {"message", "upsert"} => ev.entry <= ev.seq
    /\ 1..lastSeq \subseteq rows

(* What a snapshot lacks is on its way, from the moment it is read. *)
SnapshotInv ==
    /\ conn = "opening" /\ snap.seq # 0 => \A e \in 1..written : e <= snap.seq \/ InFlight(e)
    /\ conn = "live" /\ AtHead => \A e \in 1..written : e <= wire[1].seq \/ InFlight(e)

(* What the store lacks is on its way, once it has a snapshot. *)
StoreInv ==
    conn = "live" /\ ~AtHead /\ Whole =>
        /\ \A e \in 1..written : e \in rows \/ InFlight(e)
        /\ \A m \in Message : -m \in rows /\ handler[m] = "done" =>
              \E ev \in Events(wire) : ev.type = "message" /\ ev.request = m

DeliveryInv == OrderInv /\ SnapshotInv /\ StoreInv

LEMMA JoinedAll ==
  ASSUME NEW S, NEW s \in Seq(S), NEW t \in Seq(S)
  PROVE  /\ Events(s) \subseteq Events(s \o t) /\ Events(t) \subseteq Events(s \o t)
         /\ \A n \in 1..Len(s \o t) :
               \/ n \in 1..Len(s) /\ (s \o t)[n] = s[n]
               \/ (s \o t)[n] \in Events(t) /\ n > Len(s)
<1>1. s \o t \in Seq(S) /\ Len(s \o t) = Len(s) + Len(t) /\ Len(s) \in Nat /\ Len(t) \in Nat
  OBVIOUS
<1>2. ASSUME NEW n \in 1..Len(s) PROVE s[n] \in Events(s \o t)
  <2>1. n \in 1..Len(s \o t) /\ (s \o t)[n] = s[n]
    BY <1>1
  <2> QED
    BY <2>1 DEF Events
<1>3. ASSUME NEW n \in 1..Len(t) PROVE t[n] \in Events(s \o t)
  <2>1. n + Len(s) \in 1..Len(s \o t) /\ (s \o t)[n + Len(s)] = t[n]
    BY <1>1
  <2> QED
    BY <2>1 DEF Events
<1>4. ASSUME NEW n \in 1..Len(s \o t)
      PROVE  \/ n \in 1..Len(s) /\ (s \o t)[n] = s[n]
             \/ (s \o t)[n] \in Events(t) /\ n > Len(s)
  <2>1. CASE n <= Len(s)
    BY <1>1, <2>1
  <2>2. CASE n > Len(s)
    <3>1. n - Len(s) \in 1..Len(t) /\ (s \o t)[n] = t[n - Len(s)]
      BY <1>1, <2>2
    <3> QED
      BY <2>2, <3>1 DEF Events
  <2> QED
    BY <1>1, <2>1, <2>2
<1> QED
  BY <1>2, <1>3, <1>4 DEF Events

LEMMA ReceivedAll ==
  ASSUME NEW S, NEW s \in Seq(S), s # <<>>
  PROVE  /\ Events(s) \subseteq {Head(s)} \cup Events(Tail(s))
         /\ Head(s) = s[1]
         /\ \A n \in 1..Len(Tail(s)) : n + 1 \in 1..Len(s) /\ n + 1 # 1 /\ Tail(s)[n] = s[n + 1]
<1>1. Len(s) \in Nat /\ Len(s) # 0 /\ Tail(s) \in Seq(S) /\ Len(Tail(s)) = Len(s) - 1
  OBVIOUS
<1>2. Head(s) = s[1]
  OBVIOUS
<1>3. \A n \in 1..Len(Tail(s)) : n + 1 \in 1..Len(s) /\ n + 1 # 1 /\ Tail(s)[n] = s[n + 1]
  BY <1>1
<1>4. ASSUME NEW n \in 1..Len(s) PROVE s[n] \in {Head(s)} \cup Events(Tail(s))
  <2>1. CASE n = 1
    BY <1>2, <2>1
  <2>2. CASE n # 1
    <3>1. n - 1 \in 1..Len(Tail(s)) /\ (n - 1) + 1 = n
      BY <1>1, <2>2
    <3>2. Tail(s)[n - 1] = s[n]
      BY <1>3, <3>1
    <3> QED
      BY <3>1, <3>2 DEF Events
  <2> QED
    BY <2>1, <2>2
<1> QED
  BY <1>2, <1>3, <1>4 DEF Events

(* Steps that leave the stream alone: what they append is still to come. *)
LEMMA DeliveryKept ==
  ASSUME DeliveryInv, UNCHANGED stream, lastSeq' = lastSeq, rows \subseteq rows', Whole' => Whole,
         \A e \in 1..written : InFlight(e) => InFlight(e)',
         \A e \in 1..written' : e \in 1..written \/ InFlight(e)',
         \A m \in Message : -m \in rows' /\ handler'[m] = "done" => -m \in rows /\ handler[m] = "done"
  PROVE  DeliveryInv'
<1>1. conn' = conn /\ snap' = snap /\ wire' = wire
  BY DEF stream
<1>2. Events(wire)' = Events(wire) /\ AtHead' = AtHead
  BY <1>1 DEF Events, AtHead
<1>3. OrderInv'
  BY <1>1, <1>2 DEF DeliveryInv, OrderInv
<1>4. SnapshotInv'
  BY <1>1, <1>2 DEF DeliveryInv, SnapshotInv
<1>5. StoreInv'
  BY <1>1, <1>2 DEF DeliveryInv, StoreInv
<1> QED
  BY <1>3, <1>4, <1>5 DEF DeliveryInv

(* Nothing in flight changes, or only a message's own state on its way. *)
LEMMA FlightKept ==
  ASSUME UNCHANGED <<unsent, entryOf, wire>>,
         \A m \in Message : handler[m] \in {"appended", "anchored"} => handler'[m] \in {"appended", "anchored"}
  PROVE  \A e : InFlight(e) => InFlight(e)'
BY DEF InFlight, Events

(* Entries' events go to whoever is subscribed, behind what is on its way. *)
LEMMA DeliveryPublishes ==
  ASSUME DeliveryInv, SessionInv, NEW events \in Seq(Event), Publish(events),
         UNCHANGED <<written, parentId, rows, lastSeq>>,
         \A ev \in Events(events) :
            ev.type # "snapshot" /\ (ev.type \in {"message", "upsert"} => ev.entry <= ev.seq),
         conn # "down" => \A e \in 1..written : InFlight(e) => InFlight(e)',
         \A m \in Message : handler'[m] = "done" =>
            \/ handler[m] = "done"
            \/ \E ev \in Events(events) : ev.type = "message" /\ ev.request = m
  PROVE  DeliveryInv'
<1>1. /\ conn' = conn /\ snap' = snap
      /\ \/ conn = "down" /\ wire' = wire
         \/ conn # "down" /\ wire' = wire \o events
  BY DEF Publish
<1>2. wire \in Seq(Event) /\ Len(wire) \in Nat /\ (wire # <<>> => 1 \in 1..Len(wire))
  BY DEF SessionInv, StreamInv
<1>3. /\ Events(wire) \subseteq Events(wire \o events) /\ Events(events) \subseteq Events(wire \o events)
      /\ \A n \in 1..Len(wire \o events) :
            \/ n \in 1..Len(wire) /\ (wire \o events)[n] = wire[n]
            \/ (wire \o events)[n] \in Events(events) /\ n > Len(wire)
  BY <1>2, JoinedAll
<1>4. Whole' = Whole
  BY DEF Whole
<1>5. CASE conn = "down"
  <2>1. Events(wire)' = Events(wire) /\ AtHead' = AtHead
    BY <1>1, <1>5 DEF Events, AtHead
  <2>2. OrderInv'
    BY <1>1, <1>5, <2>1 DEF DeliveryInv, OrderInv
  <2> QED
    BY <1>1, <1>5, <2>2 DEF DeliveryInv, SnapshotInv, StoreInv
<1>6. CASE conn # "down"
  <2>1. wire' = wire \o events
    BY <1>1, <1>6
  <2>2. /\ Events(wire) \subseteq Events(wire)' /\ Events(events) \subseteq Events(wire)'
        /\ \A ev \in Events(wire)' : ev \in Events(wire) \/ ev \in Events(events)
    <3>1. PICK w : w = wire \o events
      OBVIOUS
    <3>2. Events(wire)' = Events(w)
      BY <2>1, <3>1 DEF Events
    <3>3. \A n \in 1..Len(w) : w[n] \in Events(wire) \/ w[n] \in Events(events)
      BY <1>3, <3>1 DEF Events
    <3>4. \A ev \in Events(w) : ev \in Events(wire) \/ ev \in Events(events)
      BY <3>3 DEF Events
    <3>5. Events(wire) \subseteq Events(w) /\ Events(events) \subseteq Events(w)
      BY <1>3, <3>1
    <3> QED
      BY <3>2, <3>4, <3>5
  <2>3. OrderInv'
    <3>1. ASSUME NEW n \in 1..Len(wire'), wire'[n].type = "snapshot" PROVE n = 1 /\ conn' = "live"
      <4>1. n \in 1..Len(wire) /\ wire'[n] = wire[n]
        BY <1>3, <2>1, <3>1
      <4> QED
        BY <1>1, <3>1, <4>1 DEF DeliveryInv, OrderInv
    <3>2. \A ev \in Events(wire)' : ev.type \in {"message", "upsert"} => ev.entry <= ev.seq
      BY <2>2 DEF DeliveryInv, OrderInv
    <3>3. Events(wire') = Events(wire)'
      BY DEF Events
    <3>4. 1..lastSeq' \subseteq rows'
      BY DEF DeliveryInv, OrderInv
    <3> QED
      BY <3>1, <3>2, <3>3, <3>4 DEF OrderInv
  <2>4. AtHead' => AtHead /\ wire'[1] = wire[1]
    <3> SUFFICES ASSUME wire' # <<>>, wire'[1].type = "snapshot"
                 PROVE  wire # <<>> /\ wire'[1] = wire[1]
      BY DEF AtHead
    <3>1. 1 \in 1..Len(wire')
      <4>1. wire' \in Seq(Event)
        BY <1>2, <2>1
      <4> QED
        BY <4>1
    <3>2. 1 \in 1..Len(wire) /\ wire'[1] = wire[1]
      BY <1>3, <2>1, <3>1
    <3> QED
      BY <1>2, <3>2
  <2>5. AtHead => AtHead'
    <3> SUFFICES ASSUME wire # <<>>, wire[1].type = "snapshot"
                 PROVE  wire' # <<>> /\ wire'[1].type = "snapshot"
      BY DEF AtHead
    <3>1. wire' \in Seq(Event) /\ 1 \in 1..Len(wire') /\ wire'[1] = wire[1] /\ Len(wire') # 0
      BY <1>2, <2>1
    <3> QED
      BY <3>1
  <2>6. SnapshotInv'
    <3>1. \A e \in 1..written' : InFlight(e) => InFlight(e)'
      BY <1>6
    <3> QED
      BY <1>1, <2>4, <3>1 DEF DeliveryInv, SnapshotInv
  <2>7. StoreInv'
    BY <1>1, <1>4, <1>6, <2>2, <2>5 DEF DeliveryInv, StoreInv
  <2> QED
    BY <2>3, <2>6, <2>7 DEF DeliveryInv
<1> QED
  BY <1>5, <1>6

(* Entries are appended with their parents: a tree that is whole was whole. *)
LEMMA WholeBefore ==
  ASSUME TreeInv, NEW a, NEW lane, AppendEntry(a, lane)
  PROVE  (Whole' => Whole) /\ written \in Nat /\ written' = written + 1
<1>1. written \in Nat /\ written' = written + 1 /\ parentId' = [parentId EXCEPT ![written + 1] = a]
  BY DEF TreeInv, SessionEntry, AppendEntry
<1>2. ASSUME Whole', NEW e \in 1..written PROVE parentId[e] \in 0..written
  <2>1. e \in SessionEntry /\ e # written + 1 /\ e \in 1..written'
    BY <1>1, SessionAssumption DEF TreeInv, SessionEntry
  <2>2. parentId'[e] = parentId[e]
    BY <1>1, <2>1 DEF TreeInv
  <2>3. parentId'[e] \in 0..written' /\ parentId[e] < e
    BY <1>2, <2>1 DEF Whole, TreeInv
  <2> QED
    BY <1>1, <2>2, <2>3
<1> QED
  BY <1>1, <1>2 DEF Whole

LEMMA StillDelivers ==
  ASSUME DeliveryInv, UNCHANGED <<written, parentId, handler, entryOf, unsent, stream, rows, lastSeq>>
  PROVE  DeliveryInv'
<1>1. (Whole' => Whole) /\ \A e : InFlight(e) => InFlight(e)'
  BY DEF Whole, InFlight, stream, Events
<1> QED
  BY <1>1, DeliveryKept

(* Steps of the server, and those of the browser that receive nothing. *)
LEMMA PostsDeliver ==
  ASSUME IInv, SessionInv, DeliveryInv, NEW m \in Message,
         PostReject(m) \/ PostAppend(m) \/ PostAnchor(m) \/ PostPublish(m)
  PROVE  DeliveryInv'
<1>0. handler \in [Message -> HandlerState]
  BY DEF SessionInv, TreeInv
<1>1. CASE PostReject(m) \/ PostAnchor(m)
  <2>1. /\ UNCHANGED <<written, parentId, entryOf, unsent, stream, browser>>
        /\ \/ handler[m] = "begun" /\ handler' = [handler EXCEPT ![m] = "failed"]
           \/ handler[m] = "appended" /\ handler' = [handler EXCEPT ![m] = "anchored"]
    BY <1>1 DEF PostReject, PostAnchor, HandlerTo, runs
  <2>2. \A e : InFlight(e) => InFlight(e)'
    BY <1>0, <2>1, FlightKept DEF stream
  <2>3. Whole' = Whole /\ rows' = rows /\ lastSeq' = lastSeq /\ written' = written
    BY <2>1 DEF Whole, browser
  <2>4. \A o \in Message : -o \in rows' /\ handler'[o] = "done" => -o \in rows /\ handler[o] = "done"
    BY <1>0, <2>1, <2>3
  <2> QED
    BY <2>1, <2>2, <2>3, <2>4, DeliveryKept
<1>2. CASE PostAppend(m)
  <2>1. /\ AppendEntry(asked[m], "spine")
        /\ entryOf' = [entryOf EXCEPT ![m] = written + 1]
        /\ handler[m] = "begun" /\ handler' = [handler EXCEPT ![m] = "appended"]
        /\ UNCHANGED <<unsent, stream, browser>>
    BY <1>2 DEF PostAppend, HandlerTo, runs
  <2>2. (Whole' => Whole) /\ written \in Nat /\ written' = written + 1
    BY <2>1, WholeBefore DEF SessionInv
  <2>3. ASSUME NEW e \in 1..written, InFlight(e) PROVE InFlight(e)'
    <3>1. wire' = wire /\ Events(wire)' = Events(wire) /\ unsent' = unsent
      BY <2>1 DEF stream, Events
    <3>2. ASSUME NEW o \in Message, entryOf[o] = e, handler[o] \in {"appended", "anchored"}
          PROVE  entryOf'[o] = e /\ handler'[o] \in {"appended", "anchored"}
      <4>1. o # m
        BY <2>1, <3>2
      <4> QED
        BY <2>1, <3>2, <4>1, <1>0 DEF SessionInv, PlaceInv
    <3> QED
      BY <2>3, <3>1, <3>2 DEF InFlight
  <2>4. ASSUME NEW e \in 1..written' PROVE e \in 1..written \/ InFlight(e)'
    <3>1. entryOf'[m] = written + 1 /\ handler'[m] = "appended"
      BY <1>0, <2>1 DEF SessionInv, PlaceInv
    <3>2. e \in 1..written \/ e = written + 1
      BY <2>2
    <3> QED
      BY <3>1, <3>2 DEF InFlight
  <2>5. rows' = rows /\ lastSeq' = lastSeq
    BY <2>1 DEF browser
  <2>6. \A o \in Message : -o \in rows' /\ handler'[o] = "done" => -o \in rows /\ handler[o] = "done"
    BY <1>0, <2>1, <2>5
  <2> QED
    BY <2>1, <2>2, <2>3, <2>4, <2>5, <2>6, DeliveryKept
<1>3. CASE PostPublish(m)
  <2> DEFINE ev == [type |-> "message", seq |-> written, entry |-> entryOf[m], request |-> m]
  <2>1. /\ Publish(<<Updated(m), ev>>)
        /\ handler[m] = "anchored" /\ handler' = [handler EXCEPT ![m] = "done"]
        /\ UNCHANGED <<written, parentId, entryOf, unsent, browser>>
    BY <1>3 DEF PostPublish, HandlerTo
  <2>2. Updated(m) \in Event /\ ev \in Event
    <3>1. m \in Turn /\ readAnchor[m] # 0
      BY <1>3, SessionAssumption DEF PostPublish, Message, Turn
    <3> QED
      BY <2>1, <3>1, EventsTyped
  <2>3. /\ ev.type = "message" /\ ev.entry = entryOf[m] /\ ev.request = m /\ ev.entry <= ev.seq
        /\ Updated(m).type = "updated"
    BY DEF Updated, IInv, EntryInv
  <2> HIDE DEF ev
  <2>4. <<Updated(m), ev>> \in Seq(Event) /\ Events(<<Updated(m), ev>>) = {Updated(m), ev}
    BY <2>2, Few
  <2>5. ASSUME conn # "down", NEW e \in 1..written, InFlight(e) PROVE InFlight(e)'
    <3>1. wire' = wire \o <<Updated(m), ev>>
      BY <2>1, <2>5 DEF Publish
    <3>2. Events(wire) \subseteq Events(wire)' /\ ev \in Events(wire)'
      <4>1. wire \in Seq(Event)
        BY DEF SessionInv, StreamInv
      <4> QED
        BY <2>4, <3>1, <4>1, JoinedAll
    <3>3. ASSUME NEW o \in Message, entryOf[o] = e, handler[o] \in {"appended", "anchored"}
          PROVE  InFlight(e)'
      <4>1. CASE o = m
        BY <2>3, <3>2, <3>3, <4>1 DEF InFlight
      <4>2. CASE o # m
        <5>1. entryOf'[o] = e /\ handler'[o] \in {"appended", "anchored"}
          BY <1>0, <2>1, <3>3, <4>2
        <5> QED
          BY <5>1 DEF InFlight
      <4> QED
        BY <4>1, <4>2
    <3> QED
      BY <2>1, <2>5, <3>2, <3>3 DEF InFlight
  <2>6. \A x \in Events(<<Updated(m), ev>>) :
          x.type # "snapshot" /\ (x.type \in {"message", "upsert"} => x.entry <= x.seq)
    BY <2>3, <2>4
  <2>7. \A o \in Message : handler'[o] = "done" =>
          \/ handler[o] = "done"
          \/ \E x \in Events(<<Updated(m), ev>>) : x.type = "message" /\ x.request = o
    BY <1>0, <2>1, <2>3, <2>4
  <2>8. rows' = rows /\ lastSeq' = lastSeq
    BY <2>1 DEF browser
  <2> QED
    BY <2>1, <2>4, <2>5, <2>6, <2>7, <2>8, DeliveryPublishes
<1> QED
  BY <1>1, <1>2, <1>3

LEMMA BeginDelivers ==
  ASSUME SessionInv, DeliveryInv, NEW S \in SUBSET Message, NEW last \in S, PostBegin(S, last)
  PROVE  DeliveryInv'
<1>1. /\ UNCHANGED <<written, parentId, entryOf, unsent, stream, browser>>
      /\ \A m \in S : handler[m] = "posted"
      /\ handler' = [m \in Message |-> IF m \in S THEN "begun" ELSE handler[m]]
  BY DEF PostBegin
<1>2. wire' = wire /\ rows' = rows /\ lastSeq' = lastSeq
  BY <1>1 DEF stream, browser
<1>3. \A m \in Message : handler[m] \in {"appended", "anchored"} => handler'[m] = handler[m]
  BY <1>1
<1>4. \A e : InFlight(e) => InFlight(e)'
  BY <1>1, <1>2, <1>3, FlightKept
<1>5. \A m \in Message : handler'[m] = "done" => handler[m] = "done"
  BY <1>1
<1>6. Whole' = Whole
  BY <1>1 DEF Whole
<1> QED
  BY <1>1, <1>2, <1>4, <1>5, <1>6, DeliveryKept

LEMMA RunsDeliver ==
  ASSUME IInv, SessionInv, DeliveryInv, Run
  PROVE  DeliveryInv'
<1>1. ASSUME NEW a, NEW lane, AppendEntry(a, lane), unsent' = unsent \cup {written + 1},
             UNCHANGED <<handler, entryOf, stream, browser>>
      PROVE  DeliveryInv'
  <2>1. (Whole' => Whole) /\ written \in Nat /\ written' = written + 1
    BY <1>1, WholeBefore DEF SessionInv
  <2>2. \A e : InFlight(e) => InFlight(e)'
    BY <1>1 DEF InFlight, stream, Events
  <2>3. \A e \in 1..written' : e \in 1..written \/ InFlight(e)'
    BY <1>1, <2>1 DEF InFlight
  <2>4. rows' = rows /\ lastSeq' = lastSeq
    BY <1>1 DEF browser
  <2> QED
    BY <1>1, <2>1, <2>2, <2>3, <2>4, DeliveryKept
<1>2. ASSUME NEW r \in Turn, RunAppend(r) PROVE DeliveryInv'
  <2>1. AppendEntry(runCursor[r], "spine") /\ unsent' = unsent \cup {written + 1}
    BY <1>2 DEF RunAppend
  <2>2. UNCHANGED <<handler, entryOf, stream, browser>>
    BY <1>2 DEF RunAppend
  <2> QED
    BY <1>1, <2>1, <2>2
<1>3. CASE SideAppend
  <2>1. PICK a : AppendEntry(a, "side")
    BY <1>3 DEF SideAppend
  <2>2. unsent' = unsent \cup {written + 1} /\ UNCHANGED <<handler, entryOf, stream, browser>>
    BY <1>3 DEF SideAppend
  <2> QED
    BY <1>1, <2>1, <2>2
<1>4. CASE UpsertPublish
  <2>1. PICK e \in unsent :
          /\ Publish(<<[type |-> "upsert", seq |-> written, entry |-> e]>>)
          /\ unsent' = unsent \ {e}
    BY <1>4 DEF UpsertPublish
  <2>2. UNCHANGED <<written, parentId, entryOf, handler, browser>>
    BY <1>4 DEF UpsertPublish
  <2> DEFINE ev == [type |-> "upsert", seq |-> written, entry |-> e]
  <2>3. ev \in Event /\ Publish(<<ev>>)
    BY <2>1, EventsTyped
  <2>4. ev.type = "upsert" /\ ev.entry = e /\ ev.entry <= ev.seq
    BY DEF SessionInv, PlaceInv, TreeInv, SessionEntry
  <2> HIDE DEF ev
  <2>5. <<ev>> \in Seq(Event) /\ Events(<<ev>>) = {ev}
    BY <2>3, Few
  <2>6. ASSUME conn # "down", NEW x \in 1..written, InFlight(x) PROVE InFlight(x)'
    <3>1. wire' = wire \o <<ev>>
      BY <2>3, <2>6 DEF Publish
    <3>2. Events(wire) \subseteq Events(wire)' /\ ev \in Events(wire)'
      <4>1. wire \in Seq(Event)
        BY DEF SessionInv, StreamInv
      <4> QED
        BY <2>5, <3>1, <4>1, JoinedAll
    <3> QED
      BY <2>1, <2>2, <2>4, <2>6, <3>2 DEF InFlight
  <2>7. \A x \in Events(<<ev>>) :
          x.type # "snapshot" /\ (x.type \in {"message", "upsert"} => x.entry <= x.seq)
    BY <2>4, <2>5
  <2>8. rows' = rows /\ lastSeq' = lastSeq
    BY <2>2 DEF browser
  <2> QED
    BY <2>2, <2>3, <2>5, <2>6, <2>7, <2>8, DeliveryPublishes
<1>5. ASSUME NEW r \in Turn, Answer(r) \/ StopRun(r) \/ ReadAnchor(r) PROVE DeliveryInv'
  <2>1. UNCHANGED <<written, parentId, handler, entryOf, unsent, stream, browser>>
    BY <1>5 DEF Answer, StopRun, ReadAnchor
  <2> QED
    BY <2>1, StillDelivers DEF browser
<1>6. ASSUME NEW r \in Turn, UpdatePublish(r) PROVE DeliveryInv'
  <2>1. Publish(<<Updated(r)>>) /\ UNCHANGED <<written, parentId, handler, entryOf, unsent, browser>>
    BY <1>6 DEF UpdatePublish
  <2>2. /\ <<Updated(r)>> \in Seq(Event) /\ Events(<<Updated(r)>>) = {Updated(r)}
        /\ Updated(r).type = "updated"
    BY <1>6, EventsTyped, Few DEF Updated, UpdatePublish
  <2>3. ASSUME conn # "down", NEW x \in 1..written, InFlight(x) PROVE InFlight(x)'
    <3>1. wire' = wire \o <<Updated(r)>> /\ wire \in Seq(Event)
      BY <2>1, <2>3 DEF Publish, SessionInv, StreamInv
    <3>2. Events(wire) \subseteq Events(wire)'
      BY <2>2, <3>1, JoinedAll
    <3> QED
      BY <2>1, <2>3, <3>2 DEF InFlight
  <2>4. rows' = rows /\ lastSeq' = lastSeq
    BY <2>1 DEF browser
  <2>5. \A x \in Events(<<Updated(r)>>) :
          x.type # "snapshot" /\ (x.type \in {"message", "upsert"} => x.entry <= x.seq)
    BY <2>2
  <2> QED
    BY <2>1, <2>2, <2>3, <2>4, <2>5, DeliveryPublishes
<1> QED
  BY <1>2, <1>3, <1>4, <1>5, <1>6 DEF Run

LEMMA StreamDelivers ==
  ASSUME IInv, SessionInv, DeliveryInv, Open \/ ReadEntries \/ ReadView \/ ReadLeaf
  PROVE  DeliveryInv'
<1>1. /\ UNCHANGED <<server, browser>> /\ UNCHANGED <<written, parentId, handler, entryOf, unsent>>
      /\ rows' = rows /\ lastSeq' = lastSeq
  BY DEF Open, ReadEntries, ReadView, ReadLeaf, Took, server, runs, browser
<1>2. CASE Open
  <2>1. conn' = "opening" /\ snap'.seq = 0 /\ wire' = <<>>
    BY <1>2 DEF Open, Unread
  <2>2. Events(wire)' = {} /\ \A n \in 1..Len(wire') : FALSE
    BY <2>1, Few
  <2> QED
    BY <1>1, <2>1, <2>2 DEF DeliveryInv, OrderInv, SnapshotInv, StoreInv
<1>3. ASSUME NEW s, Took(s), conn = "opening",
             s.seq # 0 => \A e \in 1..written : e <= s.seq \/ InFlight(e)
      PROVE  DeliveryInv'
  <2>1. wire \in Seq(Event)
    BY DEF SessionInv, StreamInv
  <2>2. CASE s.seq # 0 /\ s.leaf # 0
    <3> DEFINE ev == [type |-> "snapshot", seq |-> s.seq, anchor |-> s.anchor, leaf |-> s.leaf]
    <3>1. conn' = "live" /\ wire' = <<ev>> \o wire /\ ev.type = "snapshot" /\ ev.seq = s.seq
      BY <1>3, <2>2 DEF Took
    <3> HIDE DEF ev
    <3>2. PICK S : S = Event \cup {ev}
      OBVIOUS
    <3>3. wire \in Seq(S) /\ <<ev>> \in Seq(S) /\ Events(<<ev>>) = {ev} /\ Len(<<ev>>) = 1
      BY <2>1, <3>2, Few
    <3>4. wire' # <<>> /\ wire'[1] = ev /\ AtHead'
      <4>1. wire' # <<>> /\ wire'[1] = ev
        BY <3>1, <3>3
      <4> QED
        BY <3>1, <4>1 DEF AtHead
    <3>5. /\ Events(wire) \subseteq Events(wire)'
          /\ \A n \in 1..Len(wire') : n = 1 \/ wire'[n] \in Events(wire)
      <4>1. /\ Events(wire) \subseteq Events(<<ev>> \o wire)
            /\ \A n \in 1..Len(<<ev>> \o wire) :
                  \/ n \in 1..Len(<<ev>>) /\ (<<ev>> \o wire)[n] = <<ev>>[n]
                  \/ (<<ev>> \o wire)[n] \in Events(wire) /\ n > Len(<<ev>>)
        BY <3>3, JoinedAll
      <4> QED
        BY <3>1, <3>3, <4>1
    <3>6. \A x \in Events(wire) : x.type # "snapshot"
      BY <1>3 DEF DeliveryInv, OrderInv, Events
    <3>7. \A x \in Events(wire)' : x = ev \/ x \in Events(wire)
      BY <3>4, <3>5 DEF Events
    <3>8. OrderInv'
      BY <1>1, <3>1, <3>5, <3>6, <3>7 DEF DeliveryInv, OrderInv
    <3>9. SnapshotInv'
      <4>1. \A e : InFlight(e) => InFlight(e)'
        BY <1>1, <3>5 DEF InFlight
      <4> QED
        BY <1>1, <1>3, <2>2, <3>1, <3>4, <4>1 DEF SnapshotInv
    <3>10. StoreInv'
      BY <3>4 DEF StoreInv
    <3> QED
      BY <3>8, <3>9, <3>10 DEF DeliveryInv
  <2>3. CASE ~(s.seq # 0 /\ s.leaf # 0)
    <3>1. snap' = s /\ conn' = conn /\ wire' = wire
      BY <1>3, <2>3 DEF Took
    <3>2. Events(wire)' = Events(wire) /\ \A e : InFlight(e)' = InFlight(e)
      BY <1>1, <3>1 DEF Events, InFlight
    <3> QED
      BY <1>1, <1>3, <3>1, <3>2 DEF DeliveryInv, OrderInv, SnapshotInv, StoreInv
  <2> QED
    BY <2>2, <2>3
<1>4. CASE ReadEntries
  <2> DEFINE s == [snap EXCEPT !.seq = written]
  <2>1. Took(s) /\ conn = "opening"
    BY <1>4 DEF ReadEntries
  <2>2. s.seq = written
    BY DEF SessionInv, StreamInv
  <2> HIDE DEF s
  <2>3. \A e \in 1..written : e <= s.seq
    BY <2>2
  <2> QED
    BY <1>3, <2>1, <2>3
<1>5. CASE ReadView
  <2>1. snap'.seq = snap.seq /\ conn' = conn /\ wire' = wire
    BY <1>5 DEF ReadView, SessionInv, StreamInv
  <2>2. Events(wire)' = Events(wire) /\ \A e : InFlight(e)' = InFlight(e)
    BY <1>1, <2>1 DEF Events, InFlight
  <2> QED
    BY <1>1, <2>1, <2>2 DEF DeliveryInv, OrderInv, SnapshotInv, StoreInv, Whole, AtHead
<1>6. CASE ReadLeaf
  <2> DEFINE s == [snap EXCEPT !.leaf = ServerTip]
  <2>1. Took(s) /\ conn = "opening"
    BY <1>6 DEF ReadLeaf
  <2>2. s.seq = snap.seq
    BY DEF SessionInv, StreamInv
  <2> HIDE DEF s
  <2> QED
    BY <1>3, <2>1, <2>2 DEF DeliveryInv, SnapshotInv
<1> QED
  BY <1>2, <1>4, <1>5, <1>6

(* A snapshot of a tree that is whole has the lineage of each of its rows. *)
LEMMA SnapshotRooted ==
  ASSUME TreeInv, Whole, NEW n \in 1..written, NEW leaf \in 1..n
  PROVE  Rooted(1..n, leaf)
<1>1. 1..n \in SUBSET Known /\ 1..n \in SUBSET Row /\ leaf \in Row
  BY DEF TreeInv, SessionEntry, Known, Family
<1>2. \A x \in 1..n \cap 1..n : ParentOf(x) \in 1..n \cup {0}
  <2> SUFFICES ASSUME NEW x \in 1..n PROVE ParentOf(x) \in 1..n \cup {0}
    OBVIOUS
  <2>1. x \in 1..written /\ ParentOf(x) = parentId[x] /\ written \in Nat
    BY DEF TreeInv, SessionEntry, ParentOf
  <2>2. parentId[x] \in 0..written /\ parentId[x] < x
    BY <2>1 DEF Whole, TreeInv
  <2> QED
    BY <2>1, <2>2
<1>3. Lineage(1..n, leaf) \subseteq 1..n
  <2>1. PICK R : R = 1..n
    OBVIOUS
  <2>2. R \in SUBSET Known /\ R \in SUBSET Row /\ leaf \in Row /\ leaf \in R /\ Family
        /\ \A x \in R \cap R : ParentOf(x) \in R \cup {0}
    BY <1>1, <1>2, <2>1 DEF TreeInv
  <2>3. Lineage(R, leaf) \subseteq R
    BY <2>2, LineageWithin
  <2> QED
    BY <2>1, <2>3
<1> QED
  BY <1>3 DEF Rooted

(* The watermark gate and the store's handlers. *)
LEMMA ReceiveDelivers ==
  ASSUME IInv, SessionInv, DeliveryInv, Receive
  PROVE  DeliveryInv'
<1>1. /\ UNCHANGED <<written, parentId, handler, entryOf, unsent>> /\ conn' = "live" /\ conn = "live"
      /\ snap' = snap /\ wire' = Tail(wire) /\ wire # <<>> /\ wire \in Seq(Event)
  BY DEF Receive, server, runs, SessionInv, StreamInv
<1>2. PICK ev \in Event :
        /\ ev = Head(wire) /\ ev = wire[1] /\ Sound(ev) /\ ev \in Events(wire)
        /\ Events(wire) \subseteq {ev} \cup Events(wire')
        /\ Events(wire') \subseteq Events(wire)
        /\ \A n \in 1..Len(wire') : n + 1 \in 1..Len(wire) /\ n + 1 # 1 /\ wire'[n] = wire[n + 1]
  <2>1. Head(wire) \in Event /\ IsSeq(wire)
    BY <1>1 DEF IsSeq
  <2>2. Head(wire) \in Events(wire) /\ Events(Tail(wire)) \subseteq Events(wire)
    BY <1>1, <2>1, Received
  <2>3. Sound(Head(wire))
    BY <2>2 DEF IInv, WireInv
  <2> QED
    BY <1>1, <2>1, <2>2, <2>3, ReceivedAll
<1>3. Events(wire)' = Events(wire') /\ Whole' = Whole /\ ~AtHead'
  <2>1. Events(wire)' = Events(wire') /\ Whole' = Whole
    BY <1>1 DEF Events, Whole
  <2>2. \A n \in 1..Len(wire') : wire'[n].type # "snapshot"
    BY <1>2 DEF DeliveryInv, OrderInv
  <2>3. wire' # <<>> => 1 \in 1..Len(wire')
    <3>1. wire' \in Seq(Event)
      BY <1>1
    <3> QED
      BY <3>1
  <2> QED
    BY <2>1, <2>2, <2>3 DEF AtHead
<1>4. AtHead <=> ev.type = "snapshot"
  BY <1>1, <1>2 DEF AtHead
<1>5. \/ UNCHANGED browser /\ Gated(ev)
      \/ ev.type = "snapshot" /\ ApplySnapshot(ev)
      \/ ev.type = "message"  /\ ApplyMessage(ev)
      \/ ev.type = "upsert"   /\ ApplyUpsert(ev)
      \/ ev.type = "updated"  /\ ApplyUpdated(ev)
  BY <1>2 DEF Receive
<1>6. 1..lastSeq \subseteq rows /\ \A x \in 1..lastSeq : x > 0
  BY DEF DeliveryInv, OrderInv, SessionInv, BrowserInv
<1>7. \A m \in Message : -m \notin 1..lastSeq /\ -m \notin 1..written
  BY Bubbles DEF SessionInv, BrowserInv, TreeInv, SessionEntry
<1>8. ASSUME ev.type # "snapshot"
      PROVE  /\ 1..lastSeq' \subseteq rows' /\ rows \cap 1..written \subseteq rows'
             /\ \A m \in Message : -m \in rows' => -m \in rows
             /\ ev.type \in {"message", "upsert"} => ev.entry \in 1..written /\ ev.entry \in rows'
             /\ \A m \in Message : -m \in rows' => ev.type # "message" \/ ev.request # m
  <2>1. ev.type \in {"message", "upsert"} => ev.entry \in 1..written
    <3>1. CASE ev.type = "upsert"
      BY <1>2, <3>1 DEF Sound, OfTheRun
    <3>2. CASE ev.type = "message"
      <4>1. PICK e : e = ev.entry
        OBVIOUS
      <4>2. e \in 0..written /\ e # 0 /\ written \in Nat
        BY <1>2, <3>2, <4>1 DEF Sound, SessionInv, PlaceInv, TreeInv, SessionEntry
      <4> QED
        BY <4>1, <4>2
    <3> QED
      BY <3>1, <3>2
  <2>2. CASE UNCHANGED browser /\ Gated(ev)
    <3>1. rows' = rows /\ lastSeq' = lastSeq /\ ev.seq <= lastSeq
      BY <2>2 DEF browser, Gated
    <3>2. ev.type \in {"message", "upsert"} => ev.entry \in rows
      <4> SUFFICES ASSUME ev.type \in {"message", "upsert"} PROVE ev.entry \in rows
        OBVIOUS
      <4>1. PICK e, s : e = ev.entry /\ s = ev.seq
        OBVIOUS
      <4>2. e \in 1..written /\ e <= s /\ s \in SessionEntry /\ s <= lastSeq
        BY <1>2, <2>1, <3>1, <4>1 DEF DeliveryInv, OrderInv, Event
      <4>3. e \in 1..lastSeq
        BY <4>2 DEF SessionEntry, SessionInv, BrowserInv, TreeInv
      <4> QED
        BY <1>6, <4>1, <4>3
    <3>3. \A m \in Message : -m \in rows => ev.type # "message" \/ ev.request # m
      BY <1>2, <3>2 DEF Sound, IInv, NoDoubleBubble
    <3> QED
      BY <1>6, <2>1, <3>1, <3>2, <3>3
  <2>3. CASE ev.type = "message" /\ ApplyMessage(ev)
    <3>1. lastSeq' = lastSeq /\ ev.request \in Message
      BY <1>2, <2>3 DEF ApplyMessage, Sound
    <3>2. CASE ev.request \in pending /\ -ev.request \in rows
      <4>1. rows' = (rows \ {-ev.request}) \cup {ev.entry}
        BY <2>3, <3>2 DEF ApplyMessage, Rekeyed, Show
      <4>2. ev.entry \in 1..written /\ \A m \in Message : -m # ev.entry
        BY <1>7, <2>1, <2>3
      <4> QED
        BY <1>6, <1>7, <2>3, <3>1, <4>1, <4>2
    <3>3. CASE ~(ev.request \in pending /\ -ev.request \in rows)
      <4>1. rows' = rows \cup {ev.entry}
        BY <2>3, <3>3 DEF ApplyMessage, Appended, Show
      <4>2. ev.entry \in 1..written /\ \A m \in Message : -m # ev.entry
        BY <1>7, <2>1, <2>3
      <4>3. -ev.request \notin rows
        BY <3>1, <3>3 DEF IInv, RowInv
      <4> QED
        BY <1>6, <1>7, <2>3, <3>1, <4>1, <4>2, <4>3
    <3> QED
      BY <3>2, <3>3
  <2>4. CASE ev.type = "upsert" /\ ApplyUpsert(ev)
    <3>1. rows' = rows \cup {ev.entry} /\ lastSeq' = lastSeq
      BY <2>4 DEF ApplyUpsert, Show
    <3>2. ev.entry \in 1..written /\ \A m \in Message : -m # ev.entry
      BY <1>7, <2>1, <2>4
    <3> QED
      BY <1>6, <2>4, <3>1, <3>2
  <2>5. CASE ev.type = "updated" /\ ApplyUpdated(ev)
    <3>1. rows' = rows /\ lastSeq' = lastSeq
      BY <2>5 DEF ApplyUpdated, Show
    <3> QED
      BY <1>6, <2>5, <3>1
  <2> QED
    BY <1>5, <1>8, <2>2, <2>3, <2>4, <2>5
<1>9. ASSUME ev.type = "snapshot"
      PROVE  /\ \/ 1..lastSeq' \subseteq rows' /\ rows' = 1..ev.seq
                \/ rows' = rows /\ lastSeq' = lastSeq /\ ~Whole
             /\ ev.seq \in 1..written
  <2>1. ev.seq \in 1..written
    <3>1. PICK n : n = ev.seq
      OBVIOUS
    <3>2. n \in SessionEntry /\ n \in 0..written /\ written \in Nat
      BY <1>2, <1>9, <3>1 DEF Sound, Event, SessionInv, TreeInv, SessionEntry
    <3>3. n \in 1..written
      BY <3>2 DEF SessionEntry
    <3> QED
      BY <3>1, <3>3
  <2>2. ApplySnapshot(ev)
    BY <1>5, <1>9 DEF Gated
  <2> DEFINE R == 1..ev.seq
             start == IF ev.leaf \in R THEN ev.leaf ELSE WalkToLatestLeaf(R, Last(SpineKids(R, 0)))
  <2>3. start \in R
    BY <2>1, SnapshotRows
  <2>4. CASE Rooted(R, start)
    BY <2>1, <2>2, <2>4 DEF ApplySnapshot, Show
  <2>5. CASE ~Rooted(R, start)
    <3>1. UNCHANGED browser
      BY <2>2, <2>5 DEF ApplySnapshot
    <3>2. ~Whole
      BY <2>1, <2>3, <2>5, SnapshotRooted DEF SessionInv
    <3> QED
      BY <2>1, <3>1, <3>2 DEF browser
  <2> QED
    BY <2>4, <2>5
<1>10. OrderInv'
  <2>1. \A n \in 1..Len(wire') : wire'[n].type # "snapshot"
    BY <1>2 DEF DeliveryInv, OrderInv
  <2>2. \A x \in Events(wire)' : x.type \in {"message", "upsert"} => x.entry <= x.seq
    BY <1>2, <1>3 DEF DeliveryInv, OrderInv
  <2>3. 1..lastSeq' \subseteq rows'
    BY <1>6, <1>8, <1>9
  <2> QED
    BY <2>1, <2>2, <2>3 DEF OrderInv
<1>11. SnapshotInv'
  BY <1>1, <1>3 DEF SnapshotInv
<1>12. StoreInv'
  <2> SUFFICES ASSUME Whole
               PROVE  /\ \A e \in 1..written : e \in rows' \/ InFlight(e)'
                      /\ \A m \in Message : -m \in rows' /\ handler[m] = "done" =>
                            \E x \in Events(wire') : x.type = "message" /\ x.request = m
    BY <1>1, <1>3 DEF StoreInv
  <2>1. ASSUME NEW e, InFlight(e)
        PROVE  InFlight(e)' \/ (ev.type \in {"message", "upsert"} /\ ev.entry = e)
    BY <1>1, <1>2, <1>3, <2>1 DEF InFlight
  <2>2. CASE ev.type = "snapshot"
    <3>1. rows' = 1..ev.seq /\ ev.seq \in 1..written
      BY <1>9, <2>2
    <3>2. \A e \in 1..written : e <= ev.seq \/ InFlight(e)
      BY <1>1, <1>2, <1>4, <2>2 DEF DeliveryInv, SnapshotInv
    <3>3. \A e \in 1..written : e \in rows' \/ InFlight(e)'
      <4> SUFFICES ASSUME NEW e \in 1..written PROVE e \in rows' \/ InFlight(e)'
        OBVIOUS
      <4>1. PICK n : n = ev.seq
        OBVIOUS
      <4>2. CASE e <= n
        BY <3>1, <4>1, <4>2
      <4>3. CASE InFlight(e)
        BY <2>1, <2>2, <4>3
      <4> QED
        BY <3>2, <4>1, <4>2, <4>3
    <3>4. \A m \in Message : -m \notin rows'
      <4>1. PICK n : n = ev.seq
        OBVIOUS
      <4>2. rows' \subseteq 1..written
        BY <3>1, <4>1 DEF SessionInv, TreeInv, SessionEntry
      <4> QED
        BY <1>7, <4>2
    <3> QED
      BY <3>3, <3>4
  <2>3. CASE ev.type # "snapshot"
    <3>1. /\ \A e \in 1..written : e \in rows \/ InFlight(e)
          /\ \A m \in Message : -m \in rows /\ handler[m] = "done" =>
                \E x \in Events(wire) : x.type = "message" /\ x.request = m
      BY <1>1, <1>4, <2>3 DEF DeliveryInv, StoreInv
    <3>2. \A e \in 1..written : e \in rows' \/ InFlight(e)'
      BY <1>8, <2>1, <2>3, <3>1
    <3>3. \A m \in Message : -m \in rows' /\ handler[m] = "done" =>
              \E x \in Events(wire') : x.type = "message" /\ x.request = m
      BY <1>2, <1>8, <2>3, <3>1
    <3> QED
      BY <3>2, <3>3
  <2> QED
    BY <2>2, <2>3
<1> QED
  BY <1>10, <1>11, <1>12 DEF DeliveryInv

(* Messages are sent and branches are switched without an event. *)
LEMMA UserDelivers ==
  ASSUME IInv, SessionInv, DeliveryInv,
         \/ \E m \in Message : Send(m) \/ SendEdit(m)
         \/ SwitchBranch \/ SwitchArrives \/ SwitchDone
  PROVE  DeliveryInv'
<1>0. handler \in [Message -> HandlerState]
  BY DEF SessionInv, TreeInv
<1>1. ASSUME NEW m \in Message, Send(m) \/ SendEdit(m) PROVE DeliveryInv'
  <2>1. /\ handler[m] = "unsent" /\ handler' = [handler EXCEPT ![m] = "posted"]
        /\ UNCHANGED <<written, parentId, entryOf, unsent, stream>>
        /\ rows' \in {rows, rows \cup {-m}} /\ lastSeq' = lastSeq
    BY <1>1 DEF Send, SendEdit, Fresh, runs, browser
  <2>2. \A e : InFlight(e) => InFlight(e)'
    BY <1>0, <2>1, FlightKept DEF stream
  <2>3. Whole' = Whole /\ rows \subseteq rows'
    BY <2>1 DEF Whole
  <2>4. ASSUME NEW o \in Message, -o \in rows', handler'[o] = "done"
        PROVE  -o \in rows /\ handler[o] = "done"
    <3>1. o # m
      BY <1>0, <2>1, <2>4
    <3> QED
      BY <1>0, <2>1, <2>4, <3>1, Bubbles
  <2> QED
    BY <2>1, <2>2, <2>3, <2>4, DeliveryKept
<1>2. CASE SwitchBranch \/ SwitchArrives \/ SwitchDone
  <2>1. UNCHANGED <<written, parentId, handler, entryOf, unsent, stream, rows, lastSeq>>
    BY <1>2 DEF SwitchBranch, SwitchArrives, SwitchDone, Show, server, runs, browser
  <2> QED
    BY <2>1, StillDelivers
<1> QED
  BY <1>1, <1>2

LEMMA InitDelivers == SessionInit => DeliveryInv
<1> SUFFICES ASSUME SessionInit PROVE DeliveryInv
  OBVIOUS
<1>1. conn = "down" /\ wire = <<>> /\ lastSeq = 0 /\ Events(wire) = {} /\ 1..Len(wire) = {}
  BY Few DEF SessionInit
<1> QED
  BY <1>1 DEF DeliveryInv, OrderInv, SnapshotInv, StoreInv

LEMMA NextDelivers == IInv /\ SessionInv /\ DeliveryInv /\ [SessionNext]_sessionVars => DeliveryInv'
<1> SUFFICES ASSUME IInv, SessionInv, DeliveryInv, [SessionNext]_sessionVars PROVE DeliveryInv'
  OBVIOUS
<1>1. CASE UNCHANGED sessionVars
  <2>1. UNCHANGED <<written, parentId, handler, entryOf, unsent, stream, rows, lastSeq>>
    BY <1>1 DEF sessionVars, server, runs, browser
  <2> QED
    BY <2>1, StillDelivers
<1>2. ASSUME NEW m \in Message, PostReject(m) \/ PostAppend(m) \/ PostAnchor(m) \/ PostPublish(m)
      PROVE  DeliveryInv'
  BY <1>2, PostsDeliver
<1>3. CASE Run
  BY <1>3, RunsDeliver
<1>4. CASE Open \/ ReadEntries \/ ReadView \/ ReadLeaf
  BY <1>4, StreamDelivers
<1>5. CASE Receive
  BY <1>5, ReceiveDelivers
<1>6. CASE \/ \E m \in Message : Send(m) \/ SendEdit(m)
           \/ SwitchBranch \/ SwitchArrives \/ SwitchDone
  BY <1>6, UserDelivers
<1>7. ASSUME NEW S \in SUBSET Message, NEW last \in S, PostBegin(S, last) PROVE DeliveryInv'
  BY <1>7, BeginDelivers
<1> QED
  BY <1>1, <1>2, <1>3, <1>4, <1>5, <1>6, <1>7 DEF SessionNext

(* What is left when nothing is under way. *)
LEMMA SettledRows ==
  ASSUME IInv, SessionInv, DeliveryInv, Settled, Whole
  PROVE  rows \ {-m : m \in {o \in Message : handler[o] = "failed"}} = 1..written
<1>1. Events(wire) = {} /\ conn = "live" /\ ~AtHead /\ unsent = {}
  BY Few DEF Settled, AtHead
<1>2. \A m \in Message : handler[m] \in {"unsent", "done", "failed"}
  BY DEF Settled
<1>3. 1..written \subseteq rows
  BY <1>1, <1>2 DEF DeliveryInv, StoreInv, InFlight
<1>4. ASSUME NEW x \in rows, x \notin 1..written
      PROVE  x \in {-m : m \in {o \in Message : handler[o] = "failed"}}
  <2>1. PICK m \in Sent : x = -m
    BY <1>4 DEF SessionInv, BrowserInv, Known
  <2>2. handler[m] # "done"
    BY <1>1, <2>1 DEF DeliveryInv, StoreInv, Sent
  <2> QED
    BY <1>2, <2>1, <2>2 DEF Sent
<1>5. \A m \in Message : -m \notin 1..written
  BY Bubbles DEF SessionInv, TreeInv, SessionEntry
<1> QED
  BY <1>3, <1>4, <1>5

(* The stream's subscribe-then-snapshot, its watermark gate and the store:  *)
(* once everything is delivered the store has every entry, and nothing but  *)
(* entries and the rows of requests that failed.                            *)
THEOREM SettledShowsAllProved == SessionSpec => []SettledShowsAll
<1>1. IInv /\ SessionInv /\ DeliveryInv => SettledShowsAll
  BY SettledRows DEF SettledShowsAll
<1> QED
  BY <1>1, InitInv, NextInv, InitSession, NextSession, InitDelivers, NextDelivers, PTL DEF SessionSpec
---------------------------------------------------------------------------
(* The browser and the server come to the same tip. *)

(* Where the branch of a spine row is flagged down to its leaf, the path of *)
(* the chosen rows ends at that leaf.                                       *)
LEMMA PathFollows ==
  ASSUME Family, NEW R \in SUBSET Known, NEW C \in SUBSET R, OnePer(C), NEW tip \in R,
         SpineKids(R, tip) = {}, Lineage(R, tip) \subseteq C \ sideLane
  PROVE  PathTip(R, C) = tip
<1> DEFINE L == Lineage(R, tip)
           roots == SpineKids(R, 0)
           next == [x \in Row |-> IF SpineKids(R, x) \cap C = {} THEN x ELSE First(SpineKids(R, x) \cap C)]
<1>1. /\ L \subseteq C \ sideLane /\ L \subseteq R /\ L \subseteq Known /\ R \subseteq Row \ {0}
      /\ C \subseteq R
  BY DEF Family
<1>2. /\ tip \in L
      /\ \A x \in L : ParentOf(x) \in L \cup {0}
      /\ \A x \in L : x = tip \/ \E y \in L : ParentOf(y) = x
  BY <1>1, LineageClosed
<1> HIDE DEF L
<1>3. ASSUME NEW x, NEW y \in L, ParentOf(y) = x
      PROVE  SpineKids(R, x) \cap C = {y} /\ First(SpineKids(R, x) \cap C) = y
  <2>1. y \in SpineKids(R, x) \cap C
    BY <1>1, <1>3 DEF SpineKids
  <2>2. \A z \in SpineKids(R, x) \cap C : z = y
    BY <1>1, <1>3 DEF SpineKids, OnePer
  <2>3. PICK S : S = SpineKids(R, x) \cap C
    OBVIOUS
  <2>4. S = {y} /\ y \in Row
    BY <1>1, <2>1, <2>2, <2>3
  <2>5. First(S) \in S
    BY <2>4, FirstIs
  <2> QED
    BY <2>3, <2>4, <2>5
<1>4. PICK r \in L : ParentOf(r) = 0
  <2>1. PICK r \in L : ParentOf(r) \notin L
    BY <1>1, <1>2 DEF Family, Grown
  <2> QED
    BY <1>2, <2>1
<1>5. roots \cap C # {} /\ First(roots \cap C) = r
  BY <1>3, <1>4
<1>6. \A x \in L : x \in Row /\ next[x] \in L
  <2> SUFFICES ASSUME NEW x \in L PROVE x \in Row /\ next[x] \in L
    OBVIOUS
  <2>1. x \in Row
    BY <1>1
  <2>2. CASE x = tip
    BY <2>1, <2>2
  <2>3. CASE \E y \in L : ParentOf(y) = x
    BY <1>3, <2>1, <2>3
  <2> QED
    BY <1>2, <2>1, <2>2, <2>3
<1>7. Downward(next)
  <2> SUFFICES ASSUME NEW x \in Row, SpineKids(R, x) \cap C # {}
               PROVE  next[x] \in Known /\ ParentOf(next[x]) = x
    BY DEF Downward
  <2>1. PICK S : S = SpineKids(R, x) \cap C
    OBVIOUS
  <2>2. S \in SUBSET Row /\ S # {} /\ next[x] = First(S)
    BY <1>1, <2>1
  <2>3. next[x] \in S
    BY <2>2, FirstIs
  <2> QED
    BY <1>1, <2>1, <2>3 DEF SpineKids
<1>8. PathTip(R, C) = Walk(next, r)
  BY <1>5 DEF PathTip
<1>9. ASSUME NEW w \in L, next[w] = w PROVE w = tip
  <2> SUFFICES ASSUME NEW y \in L, ParentOf(y) = w PROVE FALSE
    BY <1>2
  <2>1. next[w] = y
    BY <1>3, <1>6
  <2> QED
    BY <1>1, <1>9, <2>1, NotOwnParent
<1> HIDE DEF next
<1>10. Loopless(next) /\ \A x \in Row : next[x] \in Row
  BY <1>7, DownwardLoopless
<1>11. next[Walk(next, r)] = Walk(next, r)
  BY <1>6, <1>10, WalkEnds
<1>12. Walk(next, r) \in L
  BY <1>6, WalkIn
<1> QED
  BY <1>8, <1>9, <1>11, <1>12

LEMMA SameTip ==
  ASSUME IInv, SessionInv, DeliveryInv, Settled, Whole, Straight, switches = 0, view = serverAnchor
  PROVE  PathTip(rows, chosen) = ServerTip
<1> DEFINE N == 1..written
           Spine == N \ sideLane
           F == {-m : m \in {o \in Message : handler[o] = "failed"}}
<1>1. rows \ F = N
  BY SettledRows
<1>2. /\ Family /\ rows \in SUBSET Known /\ chosen \in SUBSET rows /\ OnePer(chosen)
      /\ Known \subseteq Row \ {0} /\ view \in Spine /\ 0 \in Row
  BY Rowly DEF SessionInv, TreeInv, PlaceInv, BrowserInv, Family
<1>3. \A x \in N : x \in Row \ {0} /\ ParentOf(x) = parentId[x] /\ x \in Known
  BY <1>2 DEF Known, ParentOf, SessionInv, TreeInv, SessionEntry
<1>4. \A x \in F : ParentOf(x) = 0
  <2> SUFFICES ASSUME NEW m \in Message, handler[m] = "failed" PROVE ParentOf(-m) = 0
    OBVIOUS
  <2>1. ~(-m > 0) /\ -(-m) = m
    BY Bubbles
  <2> QED
    BY <2>1 DEF ParentOf, SessionInv, PlaceInv
<1>5. \A x \in Spine : ParentOf(x) \in Spine \cup {0}
  <2> SUFFICES ASSUME NEW x \in Spine PROVE ParentOf(x) \in Spine \cup {0}
    OBVIOUS
  <2>1. parentId[x] \in 0..written /\ parentId[x] \notin sideLane
    BY DEF Whole, Straight
  <2>2. parentId[x] \in N \cup {0}
    BY <2>1 DEF SessionInv, TreeInv, SessionEntry
  <2> QED
    BY <1>3, <2>1, <2>2
<1> HIDE DEF N, F
<1>6. \A x \in N : SpineKids(rows, x) = SpineKids(N, x)
  <2>1. \A x \in N : x # 0
    BY <1>3
  <2> QED
    BY <1>1, <1>4, <2>1 DEF SpineKids
<1>7. N \in SUBSET Known /\ N \in SUBSET Row /\ Spine \subseteq N /\ Spine \subseteq rows /\ N \subseteq rows
  BY <1>1, <1>3
<1>8. ServerTip = WalkToLatestLeaf(N, view)
  BY DEF ServerTip, N
<1>9. WalkToLatestLeaf(rows, view) = WalkToLatestLeaf(N, view)
  <2> DEFINE f == [x \in Row |-> IF SpineKids(rows, x) = {} THEN x ELSE Last(SpineKids(rows, x))]
             h == [x \in Row |-> IF SpineKids(N, x) = {} THEN x ELSE Last(SpineKids(N, x))]
  <2>1. \A x \in N : f[x] \in N /\ f[x] = h[x]
    <3> SUFFICES ASSUME NEW x \in N PROVE f[x] \in N /\ f[x] = h[x]
      OBVIOUS
    <3>1. x \in Row /\ SpineKids(rows, x) = SpineKids(N, x) /\ SpineKids(N, x) \in SUBSET Row
          /\ SpineKids(N, x) \subseteq N
      BY <1>3, <1>6, <1>7 DEF SpineKids
    <3>2. SpineKids(N, x) # {} => Last(SpineKids(N, x)) \in N
      BY <3>1, LastIs
    <3> QED
      BY <3>1, <3>2
  <2>2. WalkToLatestLeaf(rows, view) = Walk(f, view) /\ WalkToLatestLeaf(N, view) = Walk(h, view)
    BY DEF WalkToLatestLeaf
  <2> HIDE DEF f, h
  <2> QED
    BY <1>2, <1>7, <2>1, <2>2, WalkSame
<1>10. PICK tip : tip = ServerTip
  OBVIOUS
<1>11. tip \in Spine /\ SpineKids(rows, tip) = {}
  <2>1. view \in Row
    BY <1>2, <1>7
  <2>2. tip \in (N \ sideLane) \cup {view}
    BY <1>2, <1>7, <1>8, <1>10, <2>1, LeafIs
  <2>3. SpineKids(rows, tip) = {}
    BY <1>2, <1>8, <1>9, <1>10, <2>1, LeafIs
  <2> QED
    BY <1>2, <2>2, <2>3
<1>12. Lineage(rows, tip) \subseteq Spine
  <2>1. tip \in Row /\ Spine \in SUBSET Row
    BY <1>7, <1>11
  <2> HIDE DEF Spine
  <2> QED
    BY <1>2, <1>5, <1>11, <2>1, LineageWithin
<1>13. Lineage(rows, tip) \subseteq chosen
  <2>1. Rooted(rows, tip) /\ view \in rows
    BY <1>2, <1>7, <1>12 DEF Rooted
  <2> QED
    BY <1>8, <1>9, <1>10, <2>1 DEF SessionInv, BrowserInv, ViewShown
<1> QED
  BY <1>2, <1>7, <1>10, <1>11, <1>12, <1>13, PathFollows

(* "Reload after a run yields the same branch tip as the live SSE stream    *)
(* produced": the browser, by its chosen flags, and the server, by walking  *)
(* down from its anchor, show the same tip.                                 *)
THEOREM ReloadAgreesProved == SessionSpec => []ReloadAgrees
<1>1. IInv /\ SessionInv /\ DeliveryInv => ReloadAgrees
  BY SameTip DEF ReloadAgrees
<1> QED
  BY <1>1, InitInv, NextInv, InitSession, NextSession, InitDelivers, NextDelivers, PTL DEF SessionSpec
=============================================================================
