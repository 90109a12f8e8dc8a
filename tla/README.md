# SU-Oriel: models and proofs of the console's server

SU-Oriel is a console (Fastify, Prisma/SQLite, React) that drives coding agents. Each
project has a *ccbd* process whose agents are grouped in one to sixteen **slots**. A
requirement is bound to a slot while it is worked on; the commands for it
(`su-plan`, `su-dispatch`, `su-cancel`, `su-reactivate`, ...) go through the table
`anchor_dispatch_queue` and are submitted by a worker loop to the slot's agent.

The server is one Node process, so two pieces of code never run at the same instant, but
every `await` lets any other request, timer or hook run. What is hard is what happens
*between* the awaits: a row, a binding or a slot count that was read before and is
written, or relied on, after. That is what these modules model.

Around the dispatcher the console shows what the agents do: it streams the panes of
tmux to browsers, and an indexer keeps the database in step with the project's markdown
files. Every write to the database goes through one *primitive executor*, which audits it
and answers a repeated idempotency key from its table. The events of a task are streamed
from the journal to the browsers that show it, and the journal's rows come from a file
that the agents' plugin appends to. These parts are modelled too.

Paths below are relative to `src/server/src/modules/` unless they start with `src/`.

## 1. Inventory

| Component | State | Operations | Talks to |
|---|---|---|---|
| mutation lock (`project-ccbd/managed-config-mutation-lock.ts`, `slot-resize/resize-lock.ts`) | a Map from project to the tail of a promise chain | `runExclusive`, `runWithSlotResizeLock` (with a timer), `waitForSlotResizeLock` | held by resizes, managed configuration writes and the worker's submission; only waited for by enqueue, tick, bind |
| slot binding (`slot-binding/slot-binding.service.ts`) | `slot_binding`: requirement and state (idle, bound, busy, unhealthy) of each slot | bind, mark busy, mark bound, release, activity of an outcome, reconciliation of a cancelled requirement | called by the router, routes, worker, indexer and hooks; a release triggers a drain tick |
| job slot router (`slot-binding/job-slot-router.ts`) and drain loop (`src/server/src/server-bootstrap.ts`) | `anchor_dispatch_queue` (rows without a slot) | `enqueue`, `tick` | lock, binding, policy |
| queue policy (`anchor-broker/anchor-dispatch-queue-policy.ts`) | none of its own | refuse a command, supersede the queued rows of a cancelled requirement | requirement status, queue |
| dispatch worker (`anchor-broker/anchor-dispatch-worker.ts`) | the batch it read | poll, check, submit under the lock, commit, fail | lock, ccbd, queue, binding |
| routes (`slot-binding/slot.routes.ts`, `user-intent/user-intent.routes.ts`, `anchor-broker/anchor.routes.ts`) | none | bind-slot, release, cancel-current-job, stop-and-append, resume, planning start | binding, ccbd, queue |
| stale detector (`slot-binding/slot-stale-detector.ts`) | none | mark a slot that is busy too long unhealthy | binding |
| slot resize (`slot-resize/slot-resize.service.ts`) | `project.slotCount`, `.ccb/ccb.config`, the running ccbd | grow, shrink | lock, binding, queue, ccbd |
| slot tips sync (`slot-binding/slot-tips-projection.service.ts`) | hashes of the tips it wrote last | sync, by timer and after slot changes | binding, lock, managed file |
| ccbd manager and managed file (`project-ccbd/`) | `.ccb/ccb.config` | startup recovery, confirmed restore, stop | lock, ccbd |
| outcomes (`plugin-hooks`, `src/server/src/indexer`, `requirement/requirement-reindex.service.ts`) | the event journal file | deliver an outcome, replay the journal, reconcile | binding, queue |
| journal intake (`plugin-hooks/plugin-hooks.routes.ts`, `syncPluginEventJournal` and `checkPluginJournalWatermark` of the indexer) | rows of `EventJournal`; per project a debounce timer; per last line a cooldown | receive a hook, compare the file's last line with its row, ask for a scan, write a row for each line | the plugin's file, indexer, binding, executor |
| stream recorder (`slot-terminal/slot-terminal-stream-recorder.ts`) | per pane: the pipe it owns, a FIFO, a ring of chunks, subscribers, an idle and a retry timer | subscribe, pause, resume, release, start, break, retry, idle close | tmux (pipe-pane, an option naming the owner); gives chunks, gaps and modes to the websockets |
| slot websocket and frame pump (`slot-terminal/slot-terminal.ws.ts`, `slot-terminal.frame-stream.ts`) | per connection: mode, a promise chain of what is to be sent, buffered chunks, timers | open, first picture, chunk, gap, fallback to polling, reconcile, visibility hint, close | recorder, tmux (captures), the browser |
| primitive executor (`primitive/primitive-wrapper.ts`) | `primitiveAudit`; a Map of the runs under way | run, in a transaction or not | every service that writes |
| event stream (`events/event-stream.service.ts`, `src/web/src/components/task-detail-v2/hooks/useSharedTaskEventStream.ts`) | per connection a cursor into `EventJournal`; per tab a connection and a retry timer; in localStorage the id received last, for all tabs | resolve an id, poll, write, end; connect, receive, retry, ask whether an id is gone | journal; panels of the task |
| indexer (`src/server/src/indexer`), file watcher (`src/server/src/fs`) | `Document`, `Requirement`, `Task`; `syncStatus`, `lastScanAt` of the project | ask for a scan, scan, check at startup, notice a change | the project's files, executor |

`PROJECT.json` lists every component with what is left out of it; those that are not
modelled at all are named, with the reason, in section 6.

What makes each component correct, and what can go wrong:

* **Lock.** One call at a time, in order of arrival; no entry of the Map left behind or
  dropped early; a caller that was answered 409 never has its work run later.
* **Binding.** A requirement has at most one slot, a slot one requirement, and a slot
  changes hands only by being free. Most writers write a slot by its id without looking
  at who holds it now.
* **Queue and policy.** No command enters behind a cancellation, a cancellation leaves
  nothing waiting. The policy is asked twice, with a slot claim awaited in between.
* **Worker.** What has a slot is handled, whatever fails; what was read is old by the
  time it is used; a crash may fall between ccbd's answer and the commit.
* **Resize.** The slot that goes is clear; file, database and runtime agree afterwards,
  and whatever fails in between can be undone and does not block the next startup.
* **Stream.** A viewer gets each chunk once and in order or learns of a gap; it knows the
  mode the recorder is in; a stream that broke comes back while somebody watches, and
  nothing is left behind when nobody does. Five awaited calls of tmux set a pipe up, two
  take it down, and viewers, failures and timers come between any two.
* **Websocket.** From the subscription to the first picture nothing is lost; a socket that
  closes at any step of its opening leaves no subscription, pump or timer; whoever stays
  gets a picture.
* **Executor.** Whoever asks with a key is answered a run of that key; once a result is
  kept, who asks from then on is answered it, also after a crash in any step. The look at
  the table and the look at the runs under way are apart, and the first may be stale.
* **Journal intake.** Scans overlap, fail and are lost between any two lines, and a hook
  looks at the last line only: a row must vouch for the lines before it. Requests for a
  scan are lost to a scan under way, to a cooldown and to failures; later ones must still
  bring every line in.
* **Event stream.** Connections end at any step, by overflow, backpressure, failure or
  reconnection, and the next one begins where the browser says; nothing a browser is owed
  may be skipped, and one that stays comes to have it all, although several tabs move one
  id and late answers drop it.
* **Indexer.** Scans overlap because the startup's scan claims nothing; what a scan writes
  it read before. A scan that was alone leaves the rows as the files are, in what an update
  writes of a row, and scans heal what overlapping ones left.

`PROJECT.json` lists the hazards with their lines and the properties that guard them.

## 2. Modules

| Module | Models |
|---|---|
| `ProjectMutex` | abstract: a first-come-first-served mutex |
| `ConfigLock` | the promise chain and the timer |
| `SlotPool` | abstract: slots that are claimed and released |
| `SlotBinding` | the `slot_binding` table and the operations on it, as action operators that other modules compose |
| `SlotDispatch` | queue, router, worker, routes, outcomes, stale detector and topology around the table |
| `SlotDispatchProofs` | theorems about `SlotDispatch` |
| `MCSlotSafety`, `MCSlotLiveness` | instances of it for TLC |
| `MCSlotFindings` | four claims of the repository that the code does not keep |
| `SlotTopology` | abstract: a slot count that one resize at a time moves by one |
| `SlotResize` | slot count, managed file and running ccbd under resizes, syncs, restores, startup and crashes |
| `SlotResizeProofs` | theorems about `SlotResize` |
| `MCSlotResize` | an instance of it, and a claim of the contract that the code does not keep |
| `PaneFeed` | abstract: chunks of a pane, each given once and in order, or a gap |
| `SlotStream` | the stream recorder of one pane and its subscribers, with tmux outside |
| `SlotViewer` | one websocket that shows a pane, its frame pump and its client's screen |
| `SlotTerminalProofs` | theorems about `SlotStream` and `SlotViewer` |
| `RunOnce` | abstract: what an idempotency key is worth |
| `PrimitiveExecutor` | the audit table, the runs under way and the calls |
| `PrimitiveExecutorProofs` | theorems about `PrimitiveExecutor` |
| `ProjectScan` | scans of a project, what asks for them, and the rows they write |
| `ProjectScanProofs` | theorems about `ProjectScan` |
| `MCProjectScan` | an instance of it, and a claim of the indexer that the executor's memory does not let it keep |
| `JournalIntake` | the plugin's lines on their way to rows of `EventJournal`: hooks, timers, cooldowns, scans |
| `MCLockAndJournal` | an instance of `ConfigLock` and one of `JournalIntake`, one of them per behaviour |
| `LockAndJournalProofs` | theorems about `ConfigLock`, `JournalIntake` and the two side by side |
| `EventStream` | the events of a task, the streams that serve them and the tabs that read them |
| `EventStreamProofs` | theorems about `EventStream` |
| `MCConsole` | an instance of these four (stream, viewer, executor, events), one of them per behaviour |
| `ConsoleProofs` | theorems about the four side by side |

`SlotDispatch` and `SlotResize` look at resizes from two sides. `SlotDispatch` has what
races with them over queue and bindings and folds file and runtime into the choice
whether a step succeeds; `SlotResize` has every write and its failure and leaves the
queue out. `LockFree` stands in both for `ConfigLock`. `SlotStream` and `SlotViewer` meet
in the recorder's callbacks: what `PaneFeed` promises a subscriber is what `SlotViewer`
takes as its environment. `ProjectScan` writes task rows through the executor and has of
it that a kept key is not run again; that a scan whose look at the table was stale might
write a task's row once more is left out, since no property is about the task rows of
scans that overlap. `EventStream` takes from the
executor only that an event is recorded once. `ProjectScan` and `JournalIntake` are two
parts of one scan: the first leaves out its lines, the second its documents. What the
outcomes of the lines do to slots is in `SlotDispatch`.

### How SlotDispatch corresponds to the code

* **Variables.** `slotCount` is `project.slotCount`; `holder` and `state` are the
  columns of `slot_binding`; `rows` is `anchor_dispatch_queue` (a row's slot 0 is
  `slot-unassigned`); `reqStatus` tells a cancelled requirement from any other;
  `running` are the rows whose jobs ccbd's agents hold, `resumed` the slots whose agents
  hold a job of the resume route, which has no row; `journal` is the outcomes in the journal
  file; `act[p]` is what one request, tick, scan or hook delivery is about to do, with
  what it has read; `worker` is the same for the worker loop.
* **Steps.** Each action is the code between two awaits that touches shared state: one
  transaction or one statement. `act[p].at` names the step that comes next.
  `EnqueueStart -> Claim -> Record` is `enqueue`; `TickStart -> (TickClaim ->
  TickAssign)*` is `tick`; `WorkerPoll -> (WorkerCheck -> WorkerSubmit ->
  WorkerCommit | WorkerFail)*` is the worker; `ReconcileStatus -> Supersede ->
  ReadBinding -> FreeCancelled` is `reconcileCancelledRequirementProjection`;
  `ReleaseStart -> Release -> TickStart` is the release route and the tick it triggers;
  `ResumeStart -> ResumeSubmit -> MarkSlot` is the resume route.
* **The lock** appears as `LockFree`: the worker (in step `commit`) and a resize, over
  all its steps, hold it; enqueue, ticks and bind need it free at one moment and do not
  hold it, as `waitForSlotResizeLock` does; the resume route submits without asking for
  it. That the lock itself works is `ConfigLock`'s
  matter. `ShrinkEnds` is the end of a shrink with or without `restoreProject`.
* **Agents** are external. A job ends well, and then its outcome is in the journal and
  the requirement's status is what the command says, or ends without a trace.
* **Crash** loses `act` and `worker` and keeps database, journal and agents' jobs.

Abstractions, each of which drops data no property distinguishes, or is a bound:

* The order of `queuedAt` is the order of recording. Commands are `work`, `cancel`,
  `reactivate`. Subtasks are folded into their requirement.
* `findBindingForRequirement` followed by `bindRequirement` is one step: the second
  repeats the first in its transaction, so the earlier answer only saves the transaction.
* `BindManually` waits for the lock and binds in one step: the model lets a resize come
  between wait and bind for enqueue, whose claim is the same operation.
* A row in `slot_binding` that does not exist is an idle slot. `recovering` and
  `draining` are written by no code.
* A scan's reindex of a requirement's document is folded into the agent's end: the status
  is projected at once.
* A stale scan looks at one slot per process; the idle mark, renewals, history rows,
  timestamps and events are left out. `submitImmediately` is set by no caller.
* The three reads of a shrink's inspection (binding, queue, runtime) are one step.
* A tick's branch for a row whose subject has no scope any more is left out.
* Which submitted row `cancel-current-job` picks is left open.
* Failures of single database statements, rows whose subject was deleted, and the
  worker's path for the older anchors are not modelled.
* `MaxRows` bounds the rows of a behaviour; `RoomForRow` keeps requests from starting
  that could not be recorded, so that the bound blocks nothing halfway.

### How SlotResize corresponds to the code

* **Variables.** `slotCount` is the column; `file` the windows and the tips in
  `.ccb/ccb.config` (zero windows: no file); `runtime` the slots of the running ccbd;
  `projected` the tips the bindings call for; `written` is `lastWrittenTipHashes`;
  `server` is the process: down, in its startup recovery, or taking requests; `act[p]`
  is one request or timer with what it has read.
* **Steps.** One action per awaited call of `grow`, `shrink` and `restoreProject`, each
  with its success and its failure; `SyncStart -> SyncTips -> SyncWrite` is
  `syncSlotTips`; `RestoreStart -> RestoreTips -> RestoreWrite -> RestoreLaunch` is
  `confirmRestore`; `StartupWrite -> StartupLaunch` is `ensureStarted`, which the server
  awaits before it listens, so that nothing else runs beside it.
* **Lock.** Steps named in `Locked` hold it; a sync and a restore take it for their write
  alone, which is one step.
* **Failures.** A write of the file is a rename, so it happened or it did not. A reload
  that fails, is rejected or times out may have changed the runtime or not. A ccbd that
  runs may not answer a ping.
* Left out: per-agent overrides and preserved agent fields, the context reset after a
  grow (it changes none of these variables), hand edits of the file.

### How SlotStream corresponds to the code

* **Variables.** `recorder` is the recorder's state, with `none` for a pane whose recorder
  the registry has dropped; `oldest` and `nextSeq` delimit the ring; `sub`, `cursor` and
  `got` are a subscription, its `cursorSeq` and what its viewer has seen; `task` holds the
  coroutines that await tmux: `startAttempt`, the handlers of a broken stream's two events
  (`break`, `echo`) and the close of an idle recorder. `pipe`, `owner` and `fifo` are
  tmux's and the file system's side.
* **Steps.** `Probe -> Reclaim -> Unown | Forget -> OpenFifo -> StartPipe -> SetOwner` is
  `startAttempt`, one awaited call each, and any of them may fail into
  `CloseStop -> CloseClear -> CloseEnds`, which is `closePipeResources` and what its
  caller does after it.
* **Left out.** Bytes and utf-8 boundaries of a chunk; how many chunks the ring keeps is
  left open. A subscription is made and released once. A start is assumed to be over
  within the five minutes of the idle timer.

### How SlotViewer corresponds to the code

* **Variables.** The names are those of `startSlotTerminalStreamMode`; `seen` is how far
  the first task of `streamQueue` has come, `screen` what the client shows: up to which
  output, and whether some is missing before it (`hole`). `alike` says whether what a check
  compares, the last complete lines as plain text, is the same as tmux has: a picture makes
  it so, if tmux did not go on meanwhile, and output, chunks and resizes leave it open.
  `resized` is whether `lastDimensions` is still the pane's size, and whether the size that
  `getPaneDimensions` keeps for a second hides that it is not. `skipped` is history: a gap
  was told before the first picture.
* **Steps.** `Resolve -> SubscribeReturns` opens; the seam, a chunk, a gap, an error and a
  check are tasks with one step per awaited capture; `PumpFires -> PumpEnds` is a polled
  picture. Callbacks of the recorder (`FeedDelivers`, `FeedFails`, `FeedStarts`), hints and
  the end of the connection come between any two. `Resumes` is what a paused subscription
  gets when it goes on: what the ring kept, or one gap where it ran over, which `onGap`
  passes over before the first picture although the cursor has moved.
* **Left out.** Typed input and its audit, how pictures are encoded, and the routes of the
  older anchors in the same file. The stream is free within what a recorder does; a
  recorder that starts ends starting, well or not.

### How PrimitiveExecutor corresponds to the code

* **Variables.** `audit` is the row of each key, `inFlight` the Map, `call` each caller with
  the step it is at and what it has read; `runs` (which runs of each key succeeded) and
  `ran` (how many did) are history.
* **Steps.** `Begin -> Lookup -> Decide -> InsertAudit -> RunSucceeds | RunFails ->
  Complete | Fail` is `runPrimitiveWithAudit`; a second caller goes from `Decide` to
  `joined`. `Lookup` is the moment at which the database reads, `Decide` the one at which
  the call goes on with what was read and looks at the Map. Anything may come between:
  SQLite is in WAL mode behind a pool of connections (`src/server/src/db/prisma.ts:58-63`),
  so that a row read before a run ended may be delivered after it left the Map.
  `RunInTransaction` is `runWithTransactionAudit`, one step because SQLite has one writer.
* **Assumed.** A call site either
  always runs in a transaction or never does (`TxKeys`), which is how the keyed call sites
  are written. A run that calls the executor again passes no key on, so that nested runs
  are part of the run that contains them.

### How ProjectScan corresponds to the code

* **Variables.** `disk` is the project's files; `documents`, `requirements`, `taskRows`
  the three tables. A row of `Requirement` is found by the id its file names (`IdOf`) and
  has parts that come from different readings and scans: its fields, its text, its status,
  and its origin (`source`, `createdAt`); `rowId` tells the incarnations of a row of
  `Document`, whose id is part of what a task's key is made of; `applied` is the keys the
  executor keeps; `modified` is what the startup's comparison of file times with
  `lastScanAt` would say; `noticed` a timer of the watcher or a hook; `settled` is
  history.
* **Steps.** `scanProject` reads file by file, writes the document map, removes rows whose
  file it did not find, upserts row by row, reads the requirements' texts again, upserts
  them, and derives the tasks from the rows of `Document`. An update of a requirement's row
  leaves its origin, and its status unless the file states a valid one (`Stating`). A file
  without an id, or with the id of a file before it, gets no row (`HasRow`).
* **Left out.** Design documents, breakdown drafts, the rollup of statuses, the analysis
  marks of a requirement (`analysisInputHash`, `analysisStaleAt`) and the job rows. The
  replay of the journal during a scan is in `SlotDispatch`.

### How JournalIntake corresponds to the code

* **Variables.** `journal` is the plugin's file, a line being broken or the id of its
  event; `stored` says whose row of `EventJournal` an id has, since `eventId` is unique
  among all projects and an upsert leaves a row with the project that created it;
  `applied` is the outcomes that reached the slots; `hook` is a request between reading
  the file and looking for the last line's row; `cooldown` is `journalReconcileCooldowns`
  as far as it still refuses; `debounce` the timer of `queueProjectScan`; `scanning` the
  claim in `syncStatus`; `reader` each scan, with how many lines its `readFile` returned
  (`upto`) and the one it is at.
* **Steps.** `HookArrives -> HookDecides | HookFails` is a request; `DebounceFires`,
  `UserScans` and `StartupScans` begin a scan, the last without a claim; `ReadJournal ->
  (SkipLine | RecordLine -> ApplyLine)* -> ScanEnds` is `syncPluginEventJournal` in
  `scanProject`; `UpsertFails` is an attempt of `withProjectionRetry`, which may have
  written the row, `ReaderFails` the end of a scan by any failure.
* **Left out.** What a row holds. After a failed first attempt the executor keeps no
  result for its key, so that a later line with that key overwrites the row; otherwise
  the first line stays; neither changes which ids have rows. A last line that is only
  half written counts as broken until it is complete. Blank lines. A file that is
  replaced or truncated.

### How EventStream corresponds to the code

* **Variables.** An event's number is its place in the order of (`emittedAt`, `id`).
  `recorded` is the task's rows of `EventJournal`; `lastEventId` the key in localStorage;
  `panel[p]` the life of a `StreamEntry`, one per tab, with its `reconnectTimer`;
  `link[p]` is its `EventSource` together with the stream that serves it: asked for, open
  or ended, the id it was asked with (`since`), the server's `cursor` and the events
  written and not yet received (`wire`); `checks` the calls of `cursorGone` under way.
  `born`, `given` and `excused` are history.
* **Steps.** `StartConnection` is in every action that connects; `ResolveNewest` and
  `ResolveId` are `resolveEventStreamCursor`; `Poll`, `PollOverflows`, `PollBackpressured`
  and `QueryFails` are the ways a poll ends; `Receive` and `LinkErrs` the two listeners.
* **Excused** are the events the code does not promise, each by the action that makes it
  so: those recorded behind a place already reached, those that were there when a stream
  began without an id, and those a restored database has lost.
* **Left out.** Projection signals, which no code publishes; the branch for an error event
  with status 410, which no browser sends (`cursorGone` is what replaces it); heartbeats;
  the length of a retry's wait; a task's other readers (the fallback polling of the page).

### Fairness

Nobody owes a request, a resize, an agent's answer or a crash. `FairSpec` assumes: the
worker loop takes a step whenever it can (`startAnchorDispatchWorker` is a `while` loop
that catches every error of a tick); the event loop runs the continuation of every
process that has started; the server does not crash for ever. In `ConfigLock`: the
event loop runs continuations and the work under the lock returns or throws.

`StreamFairness`: awaited calls of tmux return, timers fire, the end of a stream is
delivered. `ViewerFairness`: the same for a websocket's coroutine, tasks and timers, and
the recorder delivers what it read. `ExecutorFairness`: what a call awaits (a statement,
`input.run`) is settled. `EventFairness`: requests are answered, polls run each second,
bytes that were written arrive, timers fire and checks are answered. `IntakeFairness`:
requests and scans that began go on, 30 seconds pass, the timer fires (it is armed anew by
each request, so this assumes that requests do not follow each other within its delay for
ever). None of them owes an action of a user, a viewer, tmux, a pane, an event's sender or
the plugin. `RowsHeal` assumes no fairness but states what it needs: files that rest and
scans that go on ending. `MCConsole` and `MCLockAndJournal` let a behaviour pick one part;
the other parts stay at their initial states, where none of their fair actions is enabled,
so that the conjunction of the fairness conditions asks of each behaviour only what its
part asks.

## 3. Runs

| Run | Instance | Question |
|---|---|---|
| `lock_and_journal` | 4 calls, each timed or not; a file of 3 lines, 2 scans, 1 hook at a time, 1 failure | does the promise chain implement the mutex, with liveness; does a row vouch for the lines before it, do hooks bring in every line |
| `slot_safety` | a behaviour picks one of two: 2 requirements, 2 slots, 2 rows, 3 processes that enqueue, drain and release; or 2 requirements, 1 slot, 1 row, 3 processes, everything but resizes, incl. crashes | claims and the policy under concurrent requests, with the worker; stale reads of all routes, hooks and loops |
| `slot_liveness` | 2 requirements, 2 slots, 1 row, 1 process, resizes and crashes, fairness | do rows with a slot and requests come to an end; does the slot count keep its bounds |
| `cancel_forever` | 1 requirement, 1 slot, 3 rows | violation: a finished cancellation blocks the requirement |
| `overlapping_drain` | 2 requirements, 1 slot, 2 rows, 2 processes | violation: a failed row is made pending again |
| `shrink_race` | 2 requirements, 2 slots, 2 processes | violation: shrink removes a slot that was just claimed |
| `busy_release` | 1 requirement, 1 slot, 2 rows, 2 processes | violation: a busy slot is released under its job |
| `slot_resize` | up to 3 slots, 3 processes, 2 tips, crashes, every write may fail | do file, count and runtime agree, can failures be undone |
| `stale_sync` | 2 slots, 2 processes | violation: a sync takes back a grow in the file |
| `console_parts` | see below | stream against `PaneFeed`, its recovery and its end; holes, pictures and leftovers of a websocket; executor against `RunOnce`; events skipped or never received |
| `project_scan` | 2 requirement files that may name one requirement, 1 task file, 3 versions, 3 scans, 1 change, 1 failure or crash | do scans that overlap leave rows that a later scan heals; what does a scan that ran alone owe; are there ever three |
| `frozen_projection` | 1 task file, 3 versions, 2 changes | violation: content that returns is not written |

Bounds. Two requirements that compete and two slots that one of them might come to hold
are what a conflict over a claim takes; two rows are what the policy relates (a
cancellation and another command); three processes give a reader, a writer in between and
a tick. The second way of `slot_safety` trades slots and rows for every operation at once:
what stale writes may do to a slot is about one slot and one row at a time. Three slots
let a resize start from the least, the most and a count between; beside a resize two
processes can have read something before it; two tips can differ. Four calls give the lock
a holder, two waiters and a newcomer; mutual exclusion is part of `ImplementsMutex` there.
Three lines are what it takes for a line that repeats the id of an earlier one (a, b, a),
which is when a row vouches for less than it seems to; two scans are as many as the code
lets run (one by the claim, one by the startup); one hook, one failure or crash, an id
that another project has, too, and an outcome. Runs with symmetry check only safety.

`console_parts`: two viewers, one of which may pause, so that one can hold back while the
other streams or leaves; two FIFOs, so that a start can come beside one that still has to
be removed; two chunks, so that the ring can drop one and keep one; one failure, which
already gives the two handlers of one break and a start beside them. A websocket: two
outputs, one before and one after a picture, and two upsets (failed captures, failures of
the stream, resizes, hints), since one hides what the next finds. Two calls, a key of
either kind, two runs and one crash or failed statement: a second run of a key is the case
that counts. Two tabs, three events of which the middle one cannot be read, and a buffer
of one: a poll can pass over an event it does not send, overflow, or stop half-way, and a
tab can be behind the other. One break (a failed query, a lost connection, a reconnection
by hand, a restored database) and one check of each id under way; a fourth event, two
checks and no break were tried too. With three events the premise of `CatchesUp` about the
buffer excludes nothing that an id already received leaves to wait for; with four it does.

`project_scan`: two files of requirements, because an id is taken by the first file that
has it, and one of a task; a version that states a status, one that does not and one that
names no requirement (a file comes to be so only by a change, since one that is so from
the start is never written); three scans where the code lets two run; one change and one
failure or crash, which is what it takes to have two scans that read different files.

`CHECK_DEADLOCK` is
off in all of them because the system may rest: a bounded number of rows or calls has
been used and nothing is owed.

### What the violation runs show

1. **cancel_forever**: `submitted` is final for a row unless a user cancels the job by
   hand, so the policy's test for an active cancellation stays true after the
   cancellation is done; after `su-reactivate` no command of the requirement is accepted.
2. **overlapping_drain**: `tick` writes `pending` by row id; two ticks overlap because the
   timer does not wait for the last one.
3. **shrink_race**: enqueue and bind wait for the lock without taking it.
4. **busy_release**: the reconciliation's test for `busy` is on a snapshot, its release is
   unconditional, and a scan's replay of old outcomes makes busy slots `bound`.
5. **stale_sync**: syncs and restores read the slot count before they ask for the lock.
6. **frozen_projection**: a task's row is written under a key made of its content. A file
   that goes from A to B and back has, the second time, the key that was applied before;
   the executor answers from its table and the row keeps B.

Each finding in `PROJECT.json` quotes the line of the repository that says otherwise.

## 4. Proofs

`tlapm` checks every proof; the theorems hold for any number of calls, requirements,
slots, rows, tips, viewers, chunks, tabs and processes and any batch size. Every safety
property that a passing run checks, state invariant, action property or refinement, is
stated by a theorem. Assumptions: `MaxCallsAssumption`,
`SlotAssumption` (at least one slot, `NoReq` is no requirement),
`DispatchAssumption` (rows and batches are positive), and those below; each says only that
names differ and bounds are numbers.

* **Lock.** The invariant describes the chain: calls before the tail, each linked to the
  one before it unless that one had left and dropped its entry, settled only when
  released, and all earlier calls released when one is settled. From it follow mutual
  exclusion, the order of arrival, the Map entry, the timeout and, step by step, the
  refinement of `ProjectMutex`. `LockNeverStalls` needs one part more (`HeadInv`): every
  call whose chain is not settled is linked, call by call, to one at or before it whose own
  predecessor is settled. When that one settles, the next takes its place; so a call that
  waits, waits for one that can go on.
* **Slots.** `IInv` has three parts. `TableInv` (types, a free slot is nobody's, a
  requirement has one slot) is kept by each operation of `SlotBinding`: five lemmas,
  which also show that each is a step of `SlotPool` or none. `QueueInv` says that what
  processes, worker and agents have read are rows that were recorded, with arguments of
  the right kind; without it the operations would not be known to be applied to slots and
  requirements that exist. It is inductive because a recorded row stays recorded.
  `ResizeInv` says that at most one resize is under way and that the slot count leaves
  room for the step it takes next, from which the count keeps its bounds although
  resizes and everything else interleave.
  `NextKeepsIInv` has one lemma per action. The theorems follow: types, `NoTwoSlots`,
  `FreeSlotsAreFree` and `DispatchImplementsPool`.
* **Topology lock.** `LockInv` says that a submission and a resize never overlap
  (`SubmissionAlone`) and that no row's job is in the slot a shrink is taking away
  (`NoRowInLeavingSlot`): the inspection saw none, and the worker holds the lock when it
  gives an agent a row. The resume route does not, so that its jobs may be in that slot.
  Neither a run's property nor a consequence of `IInv`; TLC checked it on small
  instances. It holds although the worker compares slot and count before the lock, and it
  ends with the shrink: a worker that compared before may submit to the slot afterwards. Nor
  does it keep the slot from being claimed meanwhile (`shrink_race`).
* **Policy.** `OnlyRecordAdds` shows that no other step adds a row, `RecordedRow` what the
  row and the rest of the queue look like; the two action properties follow.
* **Resize.** The invariant says what a process relies on at each of its steps (`Agrees`):
  under the lock the count is still the one it read, or one less once it has shrunk, and
  the file has the windows it wrote. It is inductive because at most one process is at a
  step under the lock (`Exclusive`), the others write the file only when nobody is
  (`StepKeeps`, `Undisturbed`), and nothing runs beside the startup (`IdleUnlessUp`).
  `NextKeepsIInv` goes action by action; the action properties and the refinement of
  `SlotTopology` follow, the phase being that of the lock's holder (`PhaseFollows`). TLC
  checked the invariant on the instance of `slot_resize` before it was proved.
  Assumption: `ResizeAssumption` (at least one slot, `NoTips` is no tips).

* **Stream.** `SInv` is the types, `TaskInv` (while a start is under way the recorder is
  starting or degraded, and the tasks of a recorder that was dropped know it), `ViewInv`
  (a viewer that is on has a cursor at the end of the ring, one that is on or paused has
  seen just what is before its cursor, and the idle timer runs only when nobody is
  subscribed), `ToldMode` and `RetryPending`. Refinement of `PaneFeed`
  needs `ViewInv`: `EmitData` gives a viewer the chunk that is due only if its cursor says
  so, and a replay from the ring leaves no hole only if the cursor is what was seen last.
  `ToldMode` is inductive because every change of `recorder` to a mode tells every
  subscriber in the same turn. Assumption: `StreamAssumption`.
* **Websocket.** `VInv` has two halves. `ControlInv` is about who is at work: what each
  stage of the opening holds and has not got yet (`StageInv`, `ClosedInv`, `WaitInv`),
  that the pump runs just when the connection has fallen back (`PumpInv`, `FallInv`), that
  the first picture is the task at the head of the chain or the pump's (`SeamInv`,
  `PictureUnderWay`). `ClosedHoldsNothing` and `SomeoneDraws` need no more.
  `NoHoleWhileStreaming` alone is not inductive: a chunk is sent without a look at the
  screen, and leaves a hole if the client is not where the chunk begins. So `ShowInv`
  says, for a connection that is open, never fell back and passed over no gap (`Alive`),
  that the chunks it keeps, for its first picture or while it is paused, are the last ones
  delivered, in order (`InOrder`), that each task of the chain begins where the tasks
  before it will have brought the client (`Seamless`), and that the whole chain brings it
  to where the kept chunks begin (`Reaches`, in `QueueInv`); a picture that is still to be
  taken brings it as far as the output is by then. `RestsUpToDate` is what is left of it
  when the chain is empty and nothing is kept. `CheckInv` is the next comparison with
  tmux, armed or queued; it needs no more than a connection that is open and never fell
  back (`Streams`). Each part has a lemma, with a step for each action; the lemmas on
  chains (a task is added, the first one ends) carry most of them. TLC checked `VInv` with
  two and with three outputs before it was proved. Assumption: `ViewerAssumption`.
* **Executor.** `EInv` is the types and nine named parts: who runs a key is the call that
  `inFlight` names (`Runners`, `InFlightRuns`), the row that a call under way
  inserted still says that it runs (`OwnRow`), no run belongs to two keys (`Numbers`), what
  a look found is kept for good (`Found`), a run about to be completed is its key's and the
  newest of it (`RunsEnd`), a kept result is a run of its key (`KeptIsRun`), an answer that
  is cut off has a key (`CutHasKey`), and `AnswersAreRuns`. A kept run need not stay the
  newest: a call whose look was stale runs the key once more, and its result is not kept,
  because the row is not its own. The refinement of `RunOnce` allows just that; a crash
  forgets the runs under way, but what it forgets was never kept.
  `JoinedWaitForARun` is `Runners` and `InFlightRuns` together. Assumption:
  `ExecutorAssumption`.
* **Event stream.** `EventInv` adds to `NothingLost` what each connection owes it
  (`LinkSafe`): everything owed up to the id it was asked with was given; everything owed up
  to an open stream's cursor was given or is on the wire; and so is everything owed up to an
  event that was written. `NothingLost` alone is not inductive: a tab that receives an event
  moves the id past all events before it, which must have been given or be due on that very
  wire first. `OpenPanelsAreAttended` is inductive with the types, as an equivalence: that a
  closed panel has no connection and no timer is what keeps an answer that comes late from
  reviving it. Assumption: `EventAssumption`.
* **Journal intake.** `JInv` is the types, `ReaderInv` (a scan that is at a line has stored
  every line before it and applied their outcomes) and `OwnInv` (an id whose row is the
  project's occurs in the file, and every line before its first occurrence has a row).
  `RecordedPrefix` alone is not inductive, because a scan writes the row of a line without
  looking at those before it: it relies on having written them itself, and on rows never
  going away. `ScansInv` counts the scans, as for the indexer below, so that two readers in
  the run are all there can be (`TwoReadersSuffice`). Assumption: `IntakeAssumption`.
* **Indexer.** `PInv` has two parts beside the types: `CountInv` (at most two scans run,
  one fewer until the startup has checked, and one fewer while the project is not marked
  as being scanned) and `AloneInv`, which says for a scan that has been alone since it
  began how far the rows agree with the files at each of its steps (`Progress`), row by
  row of the files that have one: two such files name different ids, so that no upsert
  undoes another. `NeverThreeScans` needs the first, `CleanScanAgrees` the second.
  Assumption: `ScanAssumption`.

* **Side by side.** `MCLockAndJournal` and `MCConsole` run parts that share no variable.
  `PartsImplementBoth` and `ConsoleImplementsParts` show that each of their behaviours is
  one of every part, so that what is proved of a part alone holds of the instance that the
  run checks (`PartsAreSafe`, `ConsoleIsSafe` and the two theorems on types).

Only model-checked, because liveness under fairness is outside the prover's reach:
`EveryCallEnds`, `LinesGetRecorded`, `AssignedRowIsHandled`, `EveryRequestEnds`, `Recovers`,
`LastViewerLeavesNothing`, `FirstPicture`, `Converges`, `EveryCallSettles`, `RowsHeal`,
`CatchesUp`. For some of them the safety at their core is proved, namely that somebody who
is owed a step has one coming: `LockNeverStalls` (`EveryCallEnds`), `RetryIsPending`
(`Recovers`), `SomeoneDraws` (`FirstPicture`), `ChecksGoOn` (`Converges`),
`JoinedWaitForARun` (`EveryCallSettles`), `OpenPanelsAreAttended` (`CatchesUp`). What they
leave to TLC is that the steps are taken in the end and that there is an end to them. The
violations are counterexamples and have nothing to prove.

## 5. What the code does not promise

Met while modelling; nothing in the repository claims otherwise unless it is said here.

* **Slots.** A slot may be left bound or busy without a requirement (stop-and-append and
  resume write the slot they read). The resume route submits its job without the topology
  lock, so that the job may reach a slot that a shrink has inspected as clear. A row that
  was superseded after the worker read its batch is submitted all the same. Rows without a
  slot may starve behind twenty that cannot be placed.
* **Websocket.** A connection that fell back to polling once and returned to the stream is
  not compared with tmux again, because the check that found it in fallback did not arm
  the next one; `Converges` therefore speaks of connections that never fell back, although
  `ACCEPTANCE-e057f6-slot-terminal-live-history.md:69-78` describes the self-healing
  without that limit. A visibility hint that comes while `subscribe()` is awaited is
  dropped, so that a subscription that was paused by an earlier one stays paused although
  the client is visible. When a paused subscription goes on before the first picture and
  its ring ran over, the gap it is told is passed over (`onGap`), and what was dropped is
  missing until a check notices. A check compares the last complete lines as plain text:
  colours and the line being written are not corrected, nor is a resize noticed while the
  size is cached.
* **Stream.** `pipe-pane -o` toggles: a pipe that somebody else opened after the recorder
  looked is closed by its start.
* **Executor.** A run that succeeded and whose audit row could not be completed is run
  again by the next call with its key. So is a kept key, once, by a call whose look at the
  table was answered before the run ended and delivered after it left the Map. A kept
  result above 50 KB is answered cut off.
* **Event stream.** Without an id that was received, a stream begins at the newest row, so
  that what is recorded while the browser is disconnected is missed. More than 1024 rows
  that wait after an id end every stream unsent, so that the browser never catches up. A row
  recorded with an `emittedAt` before the cursor is never sent. The answer that an id is
  gone drops whatever id is kept by then, a newer one too. What one tab received the other
  may never be given, because they keep one id.
* **Journal intake.** A broken line, for good or not, leaves the file without a watermark:
  hooks ask for nothing while it is there. A last line that repeats the id of an earlier
  one counts as current although lines between the two have no row. When another project
  has an event of the same id, the row stays that project's and the file lags for ever,
  which costs a scan each time the cooldown ends. A row is written before its outcome is
  applied to the slots; if the scan is lost in between, only a later scan applies it.
  After a crash during a scan the project stays `scanning`; the startup scans only when a
  document is newer than the last scan, and until some scan has ended every request for
  one is skipped (`LinesGetRecorded` asks that this does not last).
* **Indexer.** A request that claimed the project and then failed to create its job leaves
  `syncStatus` at `scanning`, and every later request is skipped until the server restarts.
  A change that is noticed while a scan runs asks for no other scan. The `source` and
  `createdAt` of a requirement stay as they were first written, and so does its status as
  long as the file states no valid one: no scan heals them. A requirement file without an
  id, or with the id of another one, has no row of its own.

## 6. Not modelled

* *Requirement documents and transitions* (`kernel`, `transitions`, `requirement`
  edit): next in the plan.
* *Attention inbox, checkpoints*: queries over the journal. Of the journal itself only which
  events have a row, and that each has one.
* *Tasks, task runs and breakdown drafts*: no code path creates rows of task runs any more
  (their dispatch answers 410); drafts and derivation are single transactions.
* *Anchor lifecycle, allocation, anchor terminals, ai-cli sessions*: the predecessor of the
  slots, still served; its terminals are pseudo-terminals with no shared state.
* *Read models and settings*: queries and edits of single rows.
* *Web client*: views over the HTTP API, but for the event stream's connection.

## 7. Plan

1. *(done)* Lock, slot binding, queue, worker and routes; their proofs.
2. *(done)* `SlotResize` over `SlotTopology`, with proofs.
3. *(done)* Slot terminals: `SlotStream` over `PaneFeed`, with proofs; `SlotViewer`.
4. *(done)* `PrimitiveExecutor` over `RunOnce`, with proofs; `ProjectScan`, with proofs.
5. *(done)* `EventStream`: what a reconnecting client receives, with proofs;
   `JournalIntake`: how events get into the journal, with proofs.
6. Requirement documents: edits against transitions and reindexes.
7. Release without force, the worker's topology check before the lock, subtask gates.
8. *(done)* An inductive invariant for `SlotViewer`; the instances for TLC shown to
   implement their parts.
9. The safety at the core of the liveness that is left: rows with a slot, lines that wait
   for a scan.
