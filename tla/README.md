# Formal models of runvane

runvane is a self-hosted assistant: a NestJS backend keeps every conversation as
a tree of entries in SQLite, lets a planner model call tools, and streams the
changes to a Svelte frontend.  The backend is one Node process; its concurrency
is that of promises.  What is hard in it is not the arithmetic of any one
function but what happens *between two awaits*: a state that was read before an
await and is acted upon after it, two requests about one row, a scope that
finishes while something still wants to run on it, and a process that dies with
half of that written down.  These models are about those things.

## The system

| Component | State | Operations | What is hard, what makes it correct |
|---|---|---|---|
| Tool fan-out and fan-in (`tools/run-tool.service.ts`, `plannerProvider.ts`, `toolParamsProvider.ts`, `guardrailProvider.ts`) | the tool-invocation entries of a batch (persisted), the per-conversation chain of fan-in checks (memory) | create the chain, dispatch each member, resolve its arguments, vet, ask, run; approve, deny, retry; continue the planner | members and requests settle in any order; one continuation, never two, never none; a restart in the middle |
| Conversation runs (`conversation-processor.service.ts`, `lifecycle-scope.ts`) | active run per conversation, post gate, lifecycle scopes (memory) | post, steer, enqueue, cancel, reprocess, summarize, join a run | replacing a run needs an await; joined runs end on their own; a scope may be used after it has finished; the slot must hold a live run |
| Pending messages (`pending-messages.repo.ts`) | rows (persisted) | enqueue, drain, dequeue | check-then-act around the run that is ending; each row delivered once |
| Entry store (`chat-entries-base.repo.ts`, `conversations.service.ts`, `conversations.repo.ts`) | entries, parents, indexes, view anchors, stream cursor (persisted), append lock (memory) | append, merge a payload, set the view anchor, split off a subtree | the append lock covers some writers only; a split plans and commits around an await; unique indexes, whole trees |
| Live stream (`sse-hub.service.ts`, `stream-cursor.service.ts`, `conversations.controller.ts`) | cursor mirror, subscribers | subscribe, snapshot, publish | the snapshot and the live tail overlap; nothing lost, nothing twice |
| Browser session (`chatSessionStore.ts`, `chatSessionState.svelte.ts`, `linkedChatEntry.ts`) | rows, chosen flags, view anchor, watermark, optimistic rows | seed, apply events, send, edit, switch branch, reconnect | the same events in another order; the branch shown is the branch the server would show |
| Thoughts (`thought-processing.service.ts`, `steps/*`, providers, `batchBarrier.ts`) | thought entries | prepare, reason, decide, reprocess, boot sweep | abort at any step; the attachment barrier that starts the planner; read-modify-write of a payload |
| Tasks (`task-registry.service.ts`) | running tasks, abort controllers | run, cancel, cancel all | abort chained to the parent scope |
| Knowledge (`ingest-runner`, `knowledge-watch`, `ingestion`, `knowledge-store`, `storage-registry`) | runs per source, watchers, index | ingest, rerun, watch, re-attach | single flight with a pending rerun; a source removed while it is read; a graph not rebuilt after a cancel |
| Tool host and sandboxes (`tool-host/*`, `toolhost/`) | connections, containers | route a call, start and stop a sandbox | a process that dies under a call; two starts of one sandbox |
| Serial console (`tools/builtins/serial`) | one session and its lock | log in, run, time out, run again | a command that may have run is sent again |
| Subagents (`tools/builtins/subagent`) | a child conversation and its run | start, poll, collect | a run that ends between two polls |
| Terminal gateway (`terminal.gateway.ts`) | sockets and ttys | attach, detach | a tty that starts after its socket has closed |
| LLM switch leases, summarize range, parsing | none: functions of a lineage or a text | | boundaries |
| Everything else: settings, agents, presets, uploads, LLM providers, import, context injection | configuration rows, I/O | create, read, update | plain request handlers |

Fully or partly modelled are the tools' fan-out and fan-in, conversation runs with
their queue, the entry store, the live stream and the browser session,
thoughts, knowledge, tool host, serial console and subagents.

How they interact: a posted message passes the gate, `beginRun` takes the
conversation's slot with a lifecycle scope, and thoughts and tools are spawned
on that scope.  A planner decision writes a batch of entries and dispatches it;
each dispatch ends in `RunToolService`, whose fan-in check starts the next
planner on the scope of whoever settled last.  Every entry write bumps the
stream cursor in its transaction and is then published with the cursor as its
sequence number; clients drop what is not newer than their snapshot.  A scope
that finishes frees the slot and drains the queue.  `PROJECT.json` lists every
component with its state of modelling, and every hazard at its line.

## The modules

Each module describes one component and holds its properties; an `MC...` module
instantiates modules for TLC.  They meet at interfaces that each of them
abstracts: to `ConversationRuns` a run's work is one task, to `EntryTree` a run is
a writer with a cursor, to `ChatSession` it is a source of entries, to `Thoughts` a
turn is a scope and the number of planners started.  An operator marked
"Mutant" is a variant of the definition after it with a plausible mistake; no
specification uses it.

| Module | Models | Proofs | Instance |
|---|---|---|---|
| `ToolFanIn` | a planner decision's batch of tool calls | `ToolFanIn_proofs` | `MCToolFanIn`, `MCTurn` |
| `Batch` | what that batch promises, without the machinery | `BatchImplemented` | through `ToolFanIn` |
| `Subagent` | a tool call that drives another conversation; extends `ToolFanIn` | `Turn_proofs` | `MCTurn`, itself |
| `Thoughts` | the thoughts before a turn's planner, and their retries | `Thoughts_proofs` | `MCTurn` |
| `ToolHost` | calls, clients and host processes of one sandbox | `Turn_proofs` | `MCTurn` |
| `SerialLine` | commands on one serial console | `SerialLine_proofs` | `MCTurn` |
| `ConversationRuns` | runs and queued messages of one conversation | `ConversationRuns_proofs` | `MCConversationRuns`, `MCTasks` |
| `Knowledge` | ingests, watcher and index of one storage | `Knowledge_proofs` | `MCTasks` |
| `EntryTree` | the rows of a conversation and its splits | `EntryTree_proofs` | `MCEntryTree`, `MCEntries` |
| `ChatSession` | one browser's copy, its stream and the server behind | `ChatSession_proofs` | `MCChatSession`, `MCEntries` |

`MCTurn`, `MCTasks` and `MCEntries` put several components *side by side*: a
variable `part` says which of them takes all the steps of a behaviour, the
others stand still in one initial state.  They share no state there, so this
is a union of the components' own behaviours, not a composition; it keeps the
number of runs small and adds nothing to what the properties say.  The
compositions proper are `Subagent` with `ToolFanIn` (the call's deadline and cancel act
on the child's run, its poll reads the child's slot and entries), and the
server, the stream and the browser inside `ChatSession`.

### ToolFanIn

One batch of `N` members.  `entry` is the persisted state of each member's
tool-invocation row; `blocked` stands for `error` with a permission state other
than `allow`, `failed` for a tool that ran and failed.  `pc` is where each *job*
stands: the dispatch of member `m` is job `m`, every approve/deny/retry request
is a job of its own, because each has a scope of its own.  `checks` is the promise
chain of `memberResolved`, `stage` the await at which its head stands: the
terminal count, the look for a spine child, the insert.  `reaction[j]` is the
continuation that job `j`'s check started: `tracked` if its scope still counts it,
`detached` if the scope had finished.

An action is the code between two awaits.  `executeTool` writes `running`
*before* it looks at the abort signal, so `StartTool` has no such guard;
`ToolAborts` fails the entry and does not resolve the member; a dispatch that is
lost (`DispatchLost`) leaves the entry alone.  `Accept` is `beginRun` with
`joinActive`: it takes the slot only if nothing is active.  The edited approval
reads the payload and merges it back in two steps, so it can write an old state.
`Crash` forgets all that is in memory, `BootSweep` fails the running tools and
nothing else.  The guardrail may flag with an empty reason (`bare`): `run()` tests
the reason's truth, so such a call may run at once.

`Env` names what may happen beside the normal course: LLM calls that fail, a
cancelled run, a cancelled tool task, a turn of the user at the tail, edited
approvals, a retry of a tool that the user has switched off meanwhile (refused, and the
entry stays as it is), and any request whose agent's stored rules no longer parse.

### Batch

What all this machinery is for, as a specification of its own.  A call's verdict
is open, decided or refused; the user has calls run, or run anew (`Rerun`); verdicts
are reached and a refusal is final (`Judge`); the planner answers a decided batch
once (`Answer`), and again only for a retry (`Repeat`).  `ToolFanIn`'s
`ImplementsBatch` maps entries, jobs and continuations onto it; every step of the
detailed module is a step of `Batch` or none.

### ConversationRuns

The runs of one conversation and its queue.  `slot` is `activeExecutions`, `gate`
is `messagePostLocks`, `scope`, `task` and `aborted` are the lifecycle scopes,
`queue` is the `pending_messages` table.  What a run works on is one task,
"main", that ends or goes on with another round, and "side" thoughts.  A drain
is a process of its own named after the run whose end started it, because
`onFinished` starts one per finished scope.  Steps that only await promises
(`Resume`) run before any I/O callback, as promise reactions do in Node.
`accepted` is a history: the messages that were ever queued.

### EntryTree

The rows of one conversation, and the conversations split off it.  `conv`,
`parent` and `index` are an entry's `conversation_id`, `parent_id` and
`conversation_index`; `anchor` is `default_view_leaf_entry_id`.  Entries are
numbered in the order they are appended.  A `Writer` is a run: it chooses its
cursor (`StartWriting`) and appends below it, awaiting in between, so that the
cursor may be stale; `AppendAtCursor` waits for the append lock and computes the index
inside its INSERT.  A `Viewer` is a request that sets the default view: an
existence check, then an update, outside the lock.  A `Split` follows
`splitConversation`: `CreateTarget`, then under the lock `PlanMove` (the
root's parent, the anchor, the recursive query over `parent_id`) and, after the
await, `Move` (one batch: conversation and index of every moved entry, the
root's parent, both anchors), then `Recompute` of the token totals outside the
lock.  A failure in any of them leads to `Cleanup`, which deletes the target; the
foreign key's cascade deletes what is in it.  `Fault` says which of the
database calls may fail.  A batch is one action: SQLite commits it whole or not
at all.

A writer that keeps its cursor through a split goes on appending to the source,
below a parent that has left it.  The model has this step, and no property
speaks of it: the code does nothing against it and promises nothing about it.

### ChatSession

One browser's copy of a conversation, in three parts.

*The server*: a turn has the number of its message; turn 0 may be under way at the
start.  `PostBegin` is `beginRun`: posts and edits that awaited the same registered
turn go on together, the last of them is registered, and a turn that is not
registered is left alone, so the handlers and runs of several turns interleave (an
edit takes no gate, and the composer sends one post at a time).  A post then appends, sets the anchor, reads it again for the update and
publishes (`PostAppend`, `PostAnchor`, `ReadAnchor`, `PostPublish`: an await
each); a run appends to its cursor, has side
thoughts hang entries off the message, the tip or the resolved leaf, publishes
each entry some time after its commit, and ends with an `Answer`, which moves the
anchor, or with `StopRun`, which does not.  `stale` are the turns that owe an update of the
conversation; `ReadAnchor` takes the anchor it will carry and `UpdatePublish` stamps
it, an await later, so that an old anchor may go out with a newer sequence number.
Entries do not change here, so their number is the cursor.

*The stream*: `Open` subscribes to the hub, then `ReadEntries` (entries and
watermark, one transaction) runs beside `ReadView` (the conversation with its anchor) and
`ReadLeaf` (the leaf, from a look at the anchor of its own), with writes and events
between them; the walk to the leaf is one step; the snapshot goes out ahead of what
was buffered.  A reconnect is another `Open`.  Events carry the cursor at the
time they are *published*.

*The browser*: `Send` shows an optimistic row `-k` below the last row of the
transcript and names that row as the parent, `Receive` applies the next event
behind the watermark gate, `SwitchBranch` sets the flags at once and the anchor
when its request returns.  `Choose`, `SyncView`, `PathTip` and
`WalkToLatestLeaf` are the functions of `linkedChatEntry.ts` as functions of a
set of rows and a set of chosen rows.  A message whose request names a row the server cannot
resolve while messages exist is rejected (`PostReject`).

Left out: deltas and progress (they change no row set), the bubbles of queued
messages, checkpoint and summarize anchors, `setActiveLeaf`, the lag of the
cursor's in-memory mirror behind the database, and requests that fail on the network.

### Thoughts

The thoughts that a message starts before its planner: attachment summaries, which
meet at a barrier (`BatchBarrier`), or the planning of a retrieval; `owner` says which.
A plan is delivered when it is decided and once more when its thought settles
(`DecidePlan`, `PlanCompleted`); the first delivery spawns the retrieval (`Deliver`,
guarded by `claimed`), and `Retrieve` starts the planner.  `at` is where a
thought's pipeline stands, `status` and `results` what its entry shows.  The actions
are those of `startThought` and the three steps: `Create`, `Prepare`, `Completion`
or `NoCompletion`, `Keep`, then a decision.  `Settled` is `onThoughtSettled`, which
every thought reaches whose input is known; one whose append fails is not among
them (`CreateFails`).

Two writes of one entry overlap: `mergeEntryPayload` reads, merges and writes, so the
completion's merge keeps the status it has read in `stale` while the abort listener
writes "cancelled" (`LateWrite`), over a payload that may be older than
the summary, whose results it then undoes (`OnePlannerAfterAll` therefore excepts
thoughts that were stopped).  An abort takes the run's scope (`AbortScope`), a cancelled
task only the LLM call (`CancelTask`).  `Reprocess` starts a retry, with a scope of
its own and without barrier or continuation.  `CrashNow` and `Sweep` are the
restart.

### Subagent

`run_subagent` on top of `ToolFanIn`: the child conversation is the batch, the call
is `wait`.  A poll that finds no active run (`PollIdle`) and the reading of the
child's entries (`ReadEntries`) are awaits apart and the child goes on in
between.  A deadline or the abort of the call's own run makes it overdue; then it
cancels the child's registered run (`CancelChild`).

### ToolHost

Calls of host tools that share one external sandbox.  `invokeForConversation` looks
for a cached client (`Lookup`), deploys and starts one (`Start`), waits until the host
says `ready` and sends (`Ready`, `Invoke`).  A client is named by the call that started it,
so that two calls which both miss the cache are two clients.  `wire` and `reply`
are the two pipes; the host takes messages in order (`Take`), its command ends when
nothing holds its output (`Finish`).  A process may fail to deploy, start too slowly,
die (`HostDies`, noticed in `Exit`, which answers what waits: `Teardown`), or be shut
down.  The sandbox stays mapped to a client that has died, so calls keep coming to it:
`NoneWaitForTheDead` says that none of them stays.

### SerialLine

Commands on one `SerialConnection`.  `order` is the chain of promises that is its
lock, `step` where a command stands, `open` the sockets in the order they
connected; the guest behind them (external) serves the first.  A command
connects, logs in, sends and waits; a failure on the first attempt leads to
a fresh socket and one retry (`Fail`), a cancelled command is given up.  The guest
may hang, drop its sockets or drop one client alone, be it one the tool has left behind
(`Outage`), and come back; any socket that closes marks the connection disconnected.

### Knowledge

One storage over files.  A file's content is a version, a row holds the version it
was made from, and so do the rows of the graph.  `RequestRun` is
`IngestRunner.run`: at most one ingest, and the memory that another is wanted
(`again`), which `EndRun` turns into the next run in the same tick.  The run walks
(`Visit`), embeds (`Embedded`), extracts (`Extracted`, `ExtractFails`), deletes the rows of
what it has not met (`Prune`) and ends.  Between any two of these files change,
`add_source` adds a root, the task is cancelled, the storage is deleted under the
run, or the process dies.  `Notify` and `Fire` are the watcher with its quiet
period; subscribing schedules an ingest that catches up (`Subscribe`).  The watcher
is a reliable one: it reports each change under a root it watches.

## The runs

| Run | Instance | Shows |
|---|---|---|
| FanIn | N=2, two racing requests; LLM failures, cancel, a user turn at the tail, edited approvals, a retry whose tool was switched off, one crash | one continuation per batch, on decided members only; no running entry without an executor; refusals stay; every step is one `Batch` allows |
| Runs | two messages (plain, enqueued or steering), one joining approval, dequeue, cancel, failing roots, side thoughts, one planner round, one crash | the slot holds a live run; a row is delivered once; an approval disturbs nobody; queued text is always somewhere |
| Entries | one writer, one view request, two splits, four entries, both faults; beside it four session entries, two messages or edits, one branch switch, two connections, two events under way | indexes are unique and ascend, a target is one tree with its view in it, no split parts child from parent, order is kept; one chosen row per fork, no message beside its own bubble, at rest the store is the server's and a reload shows the same tip |
| Turn | two thoughts and a retry; a batch of two under a subagent's call, with a request and refusals; two host calls; two serial commands with one outage; each with its aborts and failures, thoughts and batch with one crash; fairness | one planner, after all summaries; settled thoughts have a final status; the turn goes on; a settled batch reacts; a subagent's call, host calls and commands return; an abort reaches its command; a cancelled command is not typed; one command at a time; no call waits for a process that is gone |
| Tasks | two messages (enqueued or steering) and a reprocess with failing roots; two files, one under a root added later, one change, cancel, failures, deletion, watch toggled, one crash of the storage; fairness | posts return and the queue drains; a watched storage at rest holds what is on disk; rows go only with their files; a change gets indexed |
| DeniedRuns, StrandedMember, QueuedInterrupts, RestartLosesQueued, SplitLoses, MessageHidden, EarlyAnswer | small | each a disagreement with a comment or document, below |

Why the bounds are enough:

* *Fan-in.*  A check reads "all terminal" and "has a child", and every race is
  between two settling jobs or between a settling job and a request; two
  requests on one entry are the smallest number that race with each other.  The
  passing runs take the follow-up mode "continue"; under "finalize" members lead to no
  check and only requests do, which the proofs cover.
* *Runs.*  Two messages, a request without a gate (`Tasks`) and a joining request
  (`Runs`) are the four ways to enter a run; one crash is enough because a restart
  rebuilds its state from the rows.
* *Tree.*  Four entries give a fork, a chain of three and a subtree of two
  with something outside it; two splits race each other for one root, for a root
  and its descendant, and for two siblings.  A second writer adds no race (the
  lock admits one append at a time, and a writer may stop and start anywhere).
* *Session.*  Two messages make a fork of one message and its edit, or a
  message sent while another is posted; two connections are a page load and a
  reconnect, with an event of each order before, between and after the three reads.  A
  run that goes on from the start is seen by one of the two connections only.
* *Thoughts.*  Two peers are a barrier with somebody to wait for; a retry excludes
  the turn it retries, so a second retry meets nothing new.
* *Tool host.*  Two calls miss the cache together or one after the other, share a
  client or do not.
* *Serial line.*  One command holds the lock and one waits; each may use two
  sockets.  One outage, with the guest silent or not at the start, covers a hang
  before, between and after the two attempts.
* *Knowledge.*  One file that the first root covers and one that only the second does;
  a file exists, changes or goes away at any point of a walk over both.  One change
  is enough: what matters is where it falls in the run.

Deadlock is checked in `SplitLoses`.  The other configurations switch it off because
the system may really stop: a batch whose members have all settled or wait for
the user, a conversation with no run and no queued message, a session nobody
writes to, a tree that has all the entries of its bound, an idle console.

Fairness is, in each module, one weak fairness condition on the module's `Work`:
the steps that go on without anybody asking for them.  Every promise whose I/O
completes is resumed; LLM calls and tools of the fan-in settle, since they have
timeouts or a signal; a dead process is restarted.  Nothing is fair that depends
on a user or on something outside: requests, aborts, changes to files, crashes,
the answers of the serial guest, the end of a command on a host, its
deadline.  Progress properties therefore name what excuses them: `CallsSettle` a
command that has not ended, `TurnGoesOn` an abort, a crash or an entry that could
not be appended, `ChangesGetIndexed` a failed run or the end of the watching.  A
weak condition on the disjunction is enough because no module can take `Work` steps for
ever without coming to rest, but for the subagent's poll of a child that waits for an
approval.  `EntryTree` and `ChatSession` have
safety properties only; what "eventually" would say of the stream,
`SettledShowsAll` and `ReloadAgrees` say of every state in which nothing is under
way.

### Disagreements

* **DeniedRuns.** `approveAndRun` and `denyToolInvocation` check the entry's
  state and write it some awaits later; an approval accepted before the denial is
  written runs the denied call (`run-tool.service.ts:410`).
* **StrandedMember.** A guarded call whose arguments the schema rejects throws in
  the guardrail's decision; only the thought is marked failed and the entry stays
  `resolving` (`toolParamsProvider.ts:79`).
* **QueuedInterrupts.** A drain tests `isProcessing`, awaits three times and posts
  the message as a plain one, which aborts a run registered meanwhile
  (`conversation-processor.service.ts:443`).
* **RestartLosesQueued.** The row is deleted before the message is appended
  (`pending-messages.repo.ts:9`).
* **SplitLoses.** "The move failed; don't leave an orphan empty conversation
  behind" (`conversations.service.ts:124`), but the same handler runs when the
  move has committed and only the recomputation of the totals failed: the
  conversation it deletes holds the moved entries.
* **MessageHidden.** The anchor is set "so reload shows the just-sent message"
  (`chat-entries-base.repo.ts:315`); the composer takes the last row of the
  transcript as the parent (`chatSessionState.svelte.ts:253`), and when that row
  is a side thought the message hangs below it, where no path of spine entries
  leads.
* **EarlyAnswer.** "Only settle or timeout ends" a subagent's wait
  (`subagent/tool.ts:29`), but the poll asks `isProcessing` (line 123), which is false
  while the child's fan-in check, or the continuation it started on a finished scope,
  goes on: the call answers and the child's planner starts afterwards.

Eight more are stated in the modules beside the comments they quote and are violated by
the instances above; they have no run of their own:

* `Thoughts!PeersReleased`: "fires from the spawn-task finally for EVERY thought
  run ... so peers waiting on completion can't deadlock"; a thought whose append
  fails settles nothing (`thought-processing.service.ts:182`), its peers wait at the
  barrier, the run's scope never finishes and later posts wait for it until a restart.
* `Thoughts!NoneLeftRunning`: an abort that arrives during prepare leaves the
  entry "running" (`prepareStep.ts:28`), as does one whose listener's write
  is overtaken by the completion's merge.
* `Thoughts!RetriesComplete`: a retried summary is decided, then looks for a
  barrier it does not have, and is marked failed (`summarizeAttachmentProvider.ts:115`).
* `ToolHost!AbortEnds`: exec "kills the process on cancel or timeout, and returns", but
  it kills the shell; a process the shell started holds the output (`exec.ts:88`).
* `ToolHost!OneClientPerSandbox`: two calls that miss the cache each start a
  client (`tool-host.service.ts:114`).
* `SerialLine!OneSocketPerConsole`: a login that times out leaves its socket
  open, and the next command opens another (`connection.ts:170`).
* `Knowledge!HalfIngestedFlagged` and `Knowledge!UnchangedSkipped`: a cancel during
  extraction leaves new text with an old graph and no flag (`ingestion.service.ts:134`);
  a flag once set is never cleared, so the item is embedded anew by each ingest
  (`ingestion.service.ts:141`).

Seen while modelling, and part of the models' behaviour:

* *Fan-in and runs.*  After a crash the tool sweep leaves `resolving` members, whose
  batch can never complete; two requests that await the same replaced run, as an edit
  and a post can, both install themselves; a message enqueued while the run is ending may be inserted after
  the last drain; drains of joined scopes may post out of order; a drain whose row the
  user has just removed gets a rejection nobody handles; a flag with an empty reason
  does not block; a dequeued message whose root throws is gone (`QueuedTextHandedOn`
  therefore ends at the handler that refuses it).
* *Tree.*  A view request between a split's plan and its move is not serialized with it,
  although the plan's comment says that every mutation is
  (`chat-entries-base.repo.ts:401`), and leaves the source's anchor on an entry
  that has moved away.
* *Session.*  Setting the anchor does not advance the cursor, so an update published
  between two appends can carry the snapshot's own watermark and be dropped, which leaves
  a reconnecting page with the old anchor (`ReloadAgrees` therefore speaks of a page that
  has the anchor); a message sent before the first snapshot has arrived names no parent,
  is rejected, and its bubble stays; the id of an optimistic row can reach the server as
  a parent, so the entry hangs below nothing (`Whole` excludes it); with an anchor that
  is not among its rows the browser starts from the *latest* root where the server, which
  the comment says it mirrors, starts from the earliest.
* *Thoughts.*  When every summary of a message fails, no planner starts and the turn
  ends without an answer (`TurnGoesOn` asks for one that is written).
* *Tool host and console.*  The client of a process that has died stays in the map, so
  that every later call to its sandbox is refused until the server restarts; a write to
  a process that has ended and is not reaped yet is lost, and answered by the reaping (in
  the code the stream also has no `error` listener, `tool-host-client.ts:49`, so that such
  a write might end the server: the model leaves that out); a serial
  command that timed out is sent once more although the guest may have run it.
* *Knowledge.*  A root or a file that cannot be read looks like one that is absent
  (`files.source.ts:87`) and its rows are pruned; cancelling an ingest that has a
  follow-up pending starts a fresh run at once.  A root that does not exist, or on which
  `fs.watch` fails at once or later, is left with a subscription that reports nothing
  (`files.source.ts:55`): its changes wait for the next request.  The model has no such root, so
  `QuietMeansIndexed` and `ChangesGetIndexed` hold where the watcher works.

## The proofs

Each theorem holds for all values of the constants that satisfy the module's own
`ASSUME`, and for behaviours of the plain specification (no fairness is used).  All
follow one scheme: an inductive invariant (`IInv`, or named after its module), a lemma
that the initial states have it, for each action a lemma on what it does to the state the invariant speaks
of (its "shape"), a lemma per conjunct over all actions, and a last step in
temporal logic.

**`ToolFanIn_proofs`**, for every batch size, set of requests, mode and environment:

* `TypeCorrect`: the type invariant, with no further assumption.
* `OneReactionHolds`, `RunningHasExecutorHolds`, `BlockedStays`, `ReactsDecided`, and
  `BatchImplemented`, the refinement of `Batch`: under `NoEditRefused`, which says that
  edited approvals ("edit") and requests refused for unparsable rules ("refuse") do not
  both occur.  The assumption is needed: an edited approval whose merge brings back an
  old `requested` or `failed` state and which is then refused leaves an entry that
  contradicts its jobs.  A retry refused because its tool is switched off is within it.

The invariant: the chain of entries exists as far as the planner has created it; a
dispatch is under way only for members that were dispatched; each member has an *owner*
while it is open; a request that is past its click has a click's pc; the state an edited
approval has seen is one the member could have had; a blocked member has no granted
request; a running member has an executor; and a check past its count implies that
the members are terminal or being redone, which is what makes the second check find the
first's continuation.  `OneReaction` alone is not inductive: nothing in it stops two
checks at stage `start`; only the queue's head has a stage.  For the refinement,
`LateInv` adds that whoever is in the queue or has started a continuation is past its
start: the jobs that a step of `Batch` names exist.

**`EntryTree_proofs`** proves all the properties of `EntryTree` that hold: `TypeCorrect`,
`IndexUnique`, `LineagesAscend`, `TargetWhole`, and the two about steps,
`FamiliesTogether` and `OrderKept`.  The argument:

* On numbers and sets: a finite nonempty set of numbers has a greatest member and
  `Max` is it (`MaxOf`); hence `NextIndex` is above every index in use and never
  more than the number of entries appended (`NextIndexAbove`), which needs the
  invariant that an entry of the source has an index below its own number;
  and `Rank` is strictly monotone in the old index (`RankOrdered`).
* On the tree: the least set closed under children contains, with each entry but
  the root, its parent (`SubtreeWhole`).  This is what the recursive query
  returns.
* `IInv` adds to the properties themselves that nothing points to an
  entry before it is appended (`BirthInv`), that a target is empty before its move
  and that a planned split holds the lock (`SplitInv`), and that what was planned
  *still is* a whole subtree of the source (`PlanInv`).  `PlanInv` is where the
  append lock enters: an append between plan and move could put a child below a
  planned entry.  `FamiliesTogether` follows from `PlanInv` for a move, and is
  immediate for the other steps.

**`ConversationRuns_proofs`**: `TypeCorrect`, `SlotLive`, `RowsDeliveredOnce`,
`JoinsKeepOwner`, `QueuedTextKept`, the five properties of the run `Runs`.  `LifeInv` ties
a run's scope to its handler (a scope is open only after the root was run, only a run
that replaces waits for another) and says that the drain named after a run starts after
that run's scope has finished, hence once.  `RowsInv` ties a message's row and text to its
handler: rows are distinct and belong to handlers that have queued; what is posted
is past its append.  With it, once one drain has deleted a row no second row is left for
another to take, which is `DeliveredOnce`; `WithoutOne` is the lemma on sequences behind it.

**`Thoughts_proofs`**: `OnePlannerProved` and `SettledStatusProved`.  `PlannerInv`: a
planner that has started has claimed the start, a claim at a barrier means that all peers
have signaled, and whoever has signaled has a result or is over.  `StatusInv`
strengthens `SettledStatus` to thoughts that have not been created.

`ThoughtsTypeCorrect` takes its types from the same invariant, whose `PlannerInv`
also says that what is counted is a number.

**`SerialLine_proofs`**: `OneCommandProved`, `CancelledNotTypedProved`, `SerialTypeCorrect`.
A call that waits or works is in `order`, and one that works is its head; two of them are
one.  The types are more than bookkeeping here: that sockets are numbered
up to `2 * Cardinality(SerialCall)` and that the guest runs a command at most twice has
to be earned.  A call goes one way through its steps (`Onward`), so the sets of calls
that have begun, been sent, been retried only grow (`MarksKept`).  `SocketBudget` pays
each socket from one call that has begun or been retried; `CommandBudget` says that the
runs of a command and the sockets that still hold it unread are together at most the
times it was sent, which is what survives a command that is given up while its text is
still in a socket.

**`Turn_proofs`**: `SubagentTypeCorrect`, `ToolHostTypeCorrect`, `NoneWaitProved`,
`TurnImplementsParts`, `TurnTypeCorrect`.  A `cancel` is written by the abort of its call,
which happens once, so the pipe of a call holds one invoke and at most one cancel behind
it (`PipeInv`).  For `NoneWaitForTheDead`, a process that is reaped has been
closed (`ReapedClosed`), `invoke` looks at that, `Exit` answers whoever waits, and no step
reaps a process another way (`NoneReaped`).  `TurnImplementsParts` shows that
`TurnSpec`, which puts the parts side by side, implements the specification of each, so
that what is proved of a part holds in the run; `TurnTypeCorrect` is the parts' type
theorems through it.

**`Knowledge_proofs`**: `KnowledgeTypeCorrect`, `QuietIsIndexed`, `OnlyGonePruned`.
`QuietMeansIndexed` says nothing of a run in progress, so a run would be free to end in a
bad state; `FreshInv` says what the run knows as long as nothing has changed since it
began and no change is on its way (`Clean`): every item it has passed is `Done`, and
after the pruning the index is current.  A change makes the state unclean until the
follow-up has begun.  `WalkInv` says that an item the walk has passed is present, was
missing at some time of the run, or has no row, which is `PrunesOnlyGone` at the pruning;
`RootsInv` keeps run and index within the manifest's roots.

**`ChatSession_proofs`** proves all the properties of `ChatSession` that hold:
`NoDoubleBubbleProved`, `SessionTypeCorrect`, `OneChosenPerForkProved`,
`SettledShowsAllProved`, `ReloadAgreesProved`.  The invariant has three layers, each
inductive on top of those below it.

* `IInv` is about messages and rows.  Rows on screen come from snapshots, message events
  and upserts.  An optimistic row is of a message that is awaited, a message has an entry
  of its own from its append on, an upsert under way is never of a message's entry, and
  a message event names the entry of its request (`Sound`); so the only event that can
  bring a message's entry beside its bubble is its own, which takes the bubble
  away, or a snapshot, which takes all away.
* `SessionInv` is about the tree and the branch.  Whatever rows are known, parents lead to
  a root (`Grown`: no set of rows has all its parents in it), which an append and a
  message that is sent both keep (`FamilyGrows`).  Anchors and cursors are never
  in a side lane (`PlaceInv`), and the chosen rows are one per fork (`OnePer`).  `ViewShown`
  is what makes the choice of the branch inductive: the path to the tip below the view
  anchor is chosen, wherever that tip has its whole lineage in the store.
* `DeliveryInv` is about what is under way.  An entry that the browser lacks is
  `InFlight`: held by the run, by a request's handler or by an event on the stream.
  `SnapshotInv` says so from the moment a snapshot is read, `StoreInv` from the
  moment it has been applied, and `OrderInv` what lets the watermark drop an event:
  an entry's event is stamped after the entry, and the store holds what the
  watermark says.  At rest nothing is in flight, hence `SettledShowsAll`.
* `ReloadAgrees` compares two walks.  From the spine's root the chosen path and
  the lineage of the server's tip are the same steps as long as both go on
  (`PathFollows`), and they end at the same row (`SameTip`).

Two walks over rows, `Walk` down and `Lineage` up, are recursive functions of as many
steps as there are rows.  What they compute is proved without the library's induction
theorems, whose operator parameters none of the provers can instantiate.
Induction is over *sets* of numbers (`Smallest`, `Induction`): `Iterates` shows by it
that the recursive function is the sequence of iterates (`IsWalk`).  That it has come to an end
is a pigeonhole argument: a walk longer than the set it stays in goes round a circle
(`WalkLoops`), and a step function whose only circles are steps on the spot, as one that
goes up in a tree or down in it (`DownwardLoopless`, `AboveIs`), ends (`WalkEnds`).

*Only model-checked.*  Every invariant and every property of single steps that a passing
run checks is proved.  Liveness under fairness is out of the prover's reach:
`SettledBatchReacts`, `TurnGoesOn`, `CallReturns`, `CallsSettle`,
`AbortReachesCommand`, `CommandsReturn`, `PostsReturn`, `RegisteredRunDrains`,
`ChangesGetIndexed`.  The negative results are TLC's alone.

## Not modelled

* *Live stream*: deltas and tool progress (they change no row set), the bubbles of queued
  messages, `setActiveLeaf`, and the lag of the cursor's in-memory mirror behind the
  database.  The last two are hazards without a property; they need an entry's content
  and a second cursor in `ChatSession`, which multiplies a state space that is at its
  limit.
* *Terminal gateway*: sockets and ttys passed through.  Its one race, a client that leaves
  while its session opens, is listed as a hazard.
* *LLM switch leases, summarize range, planner syntax, prompts, tool rules*: functions of a
  lineage or a text, with unit tests over their few cases.
* *Tool runs*: rows that record attempts; nothing reads them to decide.
* *Payloads*: usage, costs, token totals, parameters and answers of tools; what happens
  inside a sandbox; ranking, vectors and prompts of the knowledge index.
* *Settings, agents, presets, uploads, import, LLM providers, context injection*: create,
  read, update and delete of single rows, conversions, adapters.
* *The rest of the repository*: most of its lines are generated database code, adapters,
  wiring and the frontend's rendering, which keep no state a model could say more about
  than a reader sees.  The share of lines that the models cover is small for that reason.

What could come next: the mirror's lag and `setActiveLeaf` in `ChatSession`; the pure
functions against reference definitions.
