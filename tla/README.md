# Formal models of TubeMail

TubeMail lets one orchestrator talk to many Claude Code sessions ("workers").
A hub keeps a timeline of events per worker and fans events out over SSE; on
each worker's machine a channel plugin relays between Claude Code's stdio and
the hub, and a manager owns the terminal and restarts the session.  This
directory holds TLA+ models of that system, TLC configurations for them and
proofs checked by TLAPS.  Paths below are relative to the repository.

## 1. The system

| Component | State | Operations | Talks to |
|---|---|---|---|
| Bridge engine (`src/tubemail_hub/bridge/engine.py`, `models.py`) | `_workers` (events, pending permissions, flags), one JSON file each, subscriber queues, one lock | register, goodbye, unregister, record_*, resolve, interrupt, status pushes, sweeps, purges, subscribe | everything |
| SSE and HTTP endpoints (`bridge/http.py`) | none of their own | one engine call each; the worker stream | channel, manager, hook |
| Server lifecycle (`server.py`) | background tasks | periodic sweep, start-up and periodic purge | engine |
| MCP tools, REST API (`tools/`, `bridge/api.py`) | none | single engine calls; a few multi-step tools | engine |
| Terminal bridge (`bridge/ws.py`, `pty_registry.py`) | a queue per browser | attach, detach, push_output | manager, recorder |
| Tickets, flows, recorder | single-use tickets; flow and run files; rotating recordings | small stores | API |
| Channel plugin (`channel/src/tubemail/channel.py`, `jsonrpc.py`) | one handler at a time, one SSE task | initialized, permission_request, permission, tools, pump | Claude Code, hub |
| Hub client, permission durability (`hub_client.py`, `permission_durability.py`) | health counters; spool files | posts, reconnecting stream; retry, spool, drain | hub |
| Approval exchange, hook server (`permission_bridge.py`) | banked requests and approvals per tool | offer_request, offer_approval, expiry | hook, channel, hub |
| Manager (`manager.py`), `claude_tm.py`, local IPC | restart flags, child, stream thread, timers | restart loop, signals, pty stream, status loop, reconnect | hub, child, channel |
| Stop hook (`channel/hooks/post_stop_relay.py`) | spool files | drain, post, retry, read back, spool | hub |
| Web UI, scripts, installers, configuration | - | - | REST API |

What is hard in it:

- **One event loop, no atomicity across awaits.**  Engine operations run whole,
  except where `goodbye` and `unregister` await a put on a full queue with the
  lock in hand; subscribe and its `finally` take no lock at all.
- **Memory and files.**  Each operation changes memory and then writes a file;
  the write may raise, the process may die, a worker may be missing from memory
  and present on disk.
- **Bounded queues.**  A slow SSE client meets a full queue.
- **Several deciders of one prompt** (terminal, hook, orchestrator, web UI) on
  both sides of a network that loses, delays and repeats posts.
- **Time.**  Sweeps, purges and freshness windows drop state by age.
- **Threads and signals** in the manager: flags read and cleared, streams
  detached late, children replaced.

What makes each component correct:

- engine: an acknowledged event is never lost; a request is decided at most once
  per asking and no pending entry outlives its decision or its worker; one
  forwarder per worker; a stream has no gap and ends at its sentinel; the lock
  is always released;
- permission path: a decision at the terminal reaches the hub, or is in the
  channel's hands; an open prompt stays known to the hub; nothing but a hub that
  hangs holds up the stdio loop for good;
- manager: no restart, stop or fresh flag is lost or applied twice; goodbye
  means a clean exit; a browser that is attached sees the running child;
- stop relay: every reply reaches the timeline, in order, at least once;
- exchange: an approval resolves the request it belongs to;
- readers: paging with a cursor sees every event once;
- stores: single use, atomic files, byte bounds.

`PROJECT.json` lists every component with its status and every hazard with its
line and the properties that cover it, or why none does.

## 2. Modules

### BridgeEngine

One action per engine operation, named after it; the state is the code's.

| Model | Code |
|---|---|
| `mem`, `disk` | `engine._workers`, the files under `workers/` |
| `stream[s]` | a subscription: its queue and its generator |
| `lock` | which full queue the lock's holder awaits, if any |
| `purging` | candidates of `purge_stale_workers` waiting for the lock |
| `now`, `lastSweep` | the clock, the periodic sweep's last round |
| `acked`, `dirty` | history: what callers were told; failed last writes |

`Record` stands for the record_* family: append, save, fan out, and for
`outbound` the sweep in between.  `Commit` is `_persist`: a temporary file and a
rename, so a file is the old or the new state; a write that raises
(bounded by `MaxFaults`) leaves memory changed, nobody told and nothing fanned
out.  A crash inside an operation is `Restart` before it or after a failed
write.  `Finalise` is the `finally` of `subscribe`, without the lock.  Events
carry kind, request id, time and a number in place of their id; contents and
metadata are left out, and so are fields that only readers use.

`MCBridgeEngine` is the instance for TLC.  `MCEnginePresence` adds one history
variable, when each worker was last online.

### PermissionFlow

A prompt's life on one worker, from Claude Code to the hub and back.

| Model | Code |
|---|---|
| `prompt`, `inbox` | Claude Code's prompts; the channel's stdin |
| `handler` | the handler `_dispatch` awaits: its next post, its tries |
| `spool` | `permission-*.json`, oldest first |
| `passed`, `condemned` | how far the drain in progress is; the first files the Stop hook has listed to evict |
| `link`, `downlink` | the SSE task of `HubClient.stream`; decisions on their way |
| `listed`, `evicted` | the hub's subscription; a replaced generator not yet ended |
| `pending` | the hub's pending list |
| `wire` | posts that raised at the client and the hub may still carry out |

A post succeeds, or raises; one that raises never arrived or is carried out
later (`ApplyLate`), which also covers a lost reply and a channel that dies
between a post and the removal of the spool file.  The hub is what BridgeEngine
says, cut down to the pending list: `Handle` for the three posts, `GeneratorEnds`
for the `finally`, `Sweep` for any removal.  What Claude Code does is external:
it opens a prompt once, sends request before resolution, and obeys the first
decision it hears.  Whether the approval exchange matches a request is left
open.  A write unlinks the oldest files before it writes and may fail after it;
any unlink may fail (`stuck`, bounded by `MaxStuck`); a drain passes over what it
cannot remove and removes what it cannot read.  The directory is the Stop hook's
too: `HookLists` and `HookEvicts` are its making room, file by file, while the
channel posts, writes or drains.  `HookCap` counts permission files only: replies
come first in the order of names, so the hook evicts as many permission files as
if it found no reply.

### ManagerLoop

The main thread of the manager, its listener and its signal handlers, under
`claude-tm`.

| Model | Code |
|---|---|
| `sup`, `crashes`, `continues` | claude-tm's loop, `crash_count`, `--continue` in its arguments |
| `phase` | where `run` is: `top` of the loop, flags `cleared`, child `started`, known to the listener (`running`), `reaped`, `ending`, `leaving` |
| `flags`, `signals` | the listener's events; `_signal_restart`, `_signal_stop` |
| `handler` | the event `_handle_event` is at: its steps that are left, whether it saw a child |
| `child`, `code` | the pty child, told to exit or not; its exit status |
| `recent` | the restart debounce window |

A handler sets its flags and types `/exit` one step at a time, so the main
thread may clear, read or act on the flags between any two of them.  `typed`,
`signalled`, `told`, `freshOwed` and `begun` are history.

### Terminal

The terminal bridge of one worker, from the browsers to the child's queue.

| Model | Code |
|---|---|
| `attached`, `recording` | the registry's clients; the recorder |
| `link`, `cmds`, `heard` | the manager's subscription, the commands in its queue, the last one sent, if that was not dropped |
| `child`, `tap`, `data` | a child is set; its `_stream_queue` exists; holds something |
| `current`, `pending` | `_pty_stream_thread`, `_pty_attach_pending` |
| `thread[t]` | a stream thread: where it is, its stop event, whose queue it holds, its failures |
| `sse`, `main` | where the two threads that start streams are between their check and their start |

A thread may hold the `tap`, or an `orphan`: a queue of a child that is gone or
one taken off by another thread.  Threads are a pool that is reused.  Keystrokes
are left out, but share the queue of 256 with the commands, so `Tell` may find it
full at any time: the command is then dropped, as in `_safe_put`, and the hub goes
on.

### Outbox and StopRelay

`Outbox` says what a relay promises: a reply it accepts is held until it is
delivered, at least once, or counted as lost.  `StopRelay` is the hook: `Stop`
begins a turn with the drain, `Posting` is the body it is at, a try may fail,
be recorded without the hook knowing, or succeed; what was posted is unlinked,
what was not is spooled, at the cap and on a full disk with losses, and the
hook may be killed anywhere.  The channel's permission files appear as a count.
`StopRelay!Box` is the refinement mapping: held is what is spooled or in the
hook's hands.

### ApprovalExchange

Calls of tools, each with a hook connection (`hookAt`) and perhaps a permission
request (`asks`, `handling`, `step`), and the two lists of the exchange in
order.  The hook server serves connections concurrently, the channel one
notification at a time; each `await` of the hub is a point where others run.
Posts may be lost or carried out late (`onWire`), the channel may restart.

### ReconnectDialog

Drives of the `/mcp` dialog, any number of them over one screen.  The screen
keeps confirmations only; every other text a drive looks for is there or not.
A drive goes on with the pty it opened, also when the child was replaced
(`left`).  `ClearForDigit` clears the buffer under its lock, `PressReconnect`
types the digit after the lock is released, and a confirmation may be printed in
between: what an ok proves is a confirmation since the clear, not since the digit.
The TUI is external.

### StatusLoop

The two signals the loop reads off the screen and pushes on change, each post
lost on either side of the hub, and a hub that purges or never knew the worker
and answers 200 all the same.

### TimelineReaders

`EventsSince` is `events_since` with cursor, limit and boundary.  `Asks`,
`Answers` and `Poll` are the tools that put a request on the manager's timeline
and wait for an answer, two callers at a time.

### SessionRecorder

Recordings of one worker as files with sizes in chunks and modification times
in ticks.  Files of one tick are collected in any order; opening and removing
may fail.  When as many files as the limit allows already have the time of a
session that is being opened - with `keep_files` 1, one does - the sort may put
the new file first and the collection take it (see the findings); `crowded`
records that, and the next chunk creates the file again.

### FlowShell

A flow's file, the logs of its runs, and the run that waits for the engine
between reading the body and recording itself.

`Selections` holds the one operator the exchange and the flow shell share, the
filtering of a list (`Kept`), in a form that can be proved about.

`MCWorkerServices` holds the relay, the exchange, the dialog and the status
loop, `MCHubServices` the readers, the recorder and the flows: they share no
state, and each behaviour runs one of them, chosen at the start.

## 3. Runs

| Run | Checks | Bounds |
|---|---|---|
| `engine_timeline` | types, durability, file = memory, decisions, no zombie entries, files only grow | 1 worker, 1 request, 3 events, 4 ticks, 1 failed write; sweep every tick, grace 1, heartbeat 2, purge age 3; no streams |
| `engine_fanout` | one forwarder, no gap, sentinel last, the lock waits only for a live reader | 1 worker, 2 subscriptions, queues of 2, 3 events, no clock |
| `slow_subscriber` (violated) | a lossy stream is closed | queue of 1 |
| `goodbye_hang` (violated) | a held lock is released | queue of 1 |
| `idle_worker_purged` (violated) | the stale purge drops only what was gone long | 4 ticks, purge age 2 |
| `permission_flow` | types, no forgotten resolution, spool outlives the process, a handler's work runs out | 2 prompts, 2 sessions, 2 tries, spool cap 2, the hook's cap 1, 1 failed unlink, 1 late post, 1 break |
| `spool_not_drained` (violated) | a delivered resolution leaves no spool | as above, but both decisions, spool cap 1, the hook's cap out of reach, no failed unlink |
| `reconnect_drops_prompts` (violated) | registering spares open prompts | as `spool_not_drained` |
| `manager_loop` | types; what was typed is honoured; one newborn per debounce window; a conversation is dropped only when asked; no goodbye for an update or a signal; a stop ends the manager | crash limit 2; events, signals and crashes unbounded |
| `terminal` | types; the last command says whether anybody watches; no tap without a reader; a lonely stream ends | 1 browser, 2 threads, 1 failure, a queue of 1 |
| `worker_services` | types; the relay refines the outbox and drains in order; an approval is spent once and what it resolved is not pending; ok means reconnected, a drive ends; the hub learns the screen | 4 replies, cap 2, 2 tries, 3 permission files; 2 calls, 2 tools; 2 drives, 1 server, 2 attempts; 2 changes, 1 purge |
| `hub_services` | types; a caller gets its next answer; a boundary read is the newest unsettled; the written session survives collections; recording follows the flag; flow files are true | 2 callers, 2 topics, 5 events, pages of 2; 3 files of 2 chunks, limits 1 and 2, 4 ticks, 2 purges; 2 runs, 2 bodies, 7 ticks |

Why these bounds.  Engine operations touch one worker and, for fan-out, the
streams of that worker, its manager and the web UI, so one worker sees every
interleaving of its own state (the theorems of section 4 are for any number).
Three events and one request allow ask, decide, ask again; four ticks let an
entry pass grace, heartbeat and purge age in turn.  Two short queues allow an
eviction, a full queue and a sentinel behind waiting messages.  Two tries are
the first and the last one; a prompt that the exchange approves and the terminal
decides leaves two files, so two prompts overfill a spool of two, and the hook's cap of one condemns what the channel has just written; two
sessions let a spool file outlive its process.  `permission_flow`
uses one decision value because no property of that run reads it.  Two stream
threads are an old one that ends late and the one that took its place; a second
browser would change nothing the hub asks of them (it asks whether any is
attached), and the theorems are for any number of both.  Four replies fill a
spool of two with one evicted and one in hand; three permission files exceed the
cap by themselves.  Two drives are enough to type into each other's dialog.
Five events are more than two pages and leave room for an ask, another caller's
answer and a boundary.  Three files with limits of one and two make
a collection that takes one, two or none, beside files of its own tick and of
older ones.

The violated runs are disagreements between a statement in the repository and
the code; `PROJECT.json` quotes each statement under "findings".  Shortest traces:

- `slow_subscriber`: subscribe, fill the queue, one more message.  It is
  dropped and so is the sentinel.
- `goodbye_hang`: subscribe, fill the queue, goodbye, the client disconnects.
  The lock stays taken.
- `idle_worker_purged`: a connected worker with nothing to report; the hub
  restarts; the start-up purge removes it with its timeline.
- `spool_not_drained`: two prompts decided, the first resolution spooled, the
  second delivered; the file stays.
- `reconnect_drops_prompts`: initialized registers, the prompt is posted, the
  SSE task registers before its first connect, and the entry is gone.

### Fairness

- BridgeEngine, `Fairness`: a put that can complete does (the event loop runs),
  and a client that stays connected reads on (`Deliver`).  Disconnecting is
  always possible and never fair.
- PermissionFlow: none.  The client sets no read timeout, so a hub that hangs
  (`goodbye_hang`) hangs the dispatch loop: that a handler returns is no promise of
  the code.  `HandlerWorkRunsOut` says instead that each step of a handler leaves
  it less to do, whatever fails and whatever the Stop hook does meanwhile.
- ManagerLoop, `FairSpec`: the main thread and the listener run on, and Claude
  Code exits when it is told to.  Crashes, signals and events are never fair.
- Terminal, `FairSpec`: each thread runs on (its posts time out after 2 s), and
  a tapped child prints now and then; a stream is ended by the 404 of a post,
  so a child that is silent for ever keeps its thread.
- ReconnectDialog, `DialogFairness`: each drive runs on; its waits time out.
- StatusLoop, `StatusFairness`: the loop turns (strongly, as it may be restarted
  and lose its child), and not every post of a signal fails for ever.

## 4. Proofs

`BridgeEngineProofs`, for every number of workers, streams and requests and all
bounds, from `EngineAssumption` and `NoneIsNoState` alone:

| Theorem | Statement |
|---|---|
| `TypeCorrect` | `Spec => []TypeOK` |
| `EventsStayStored` | `Spec => []AckedEventsDurable` |
| `FilesStayCurrent` | `Spec => []FileIsCurrent` |
| `PendingIsUndecided` | `Spec => []PendingAwaitsDecision` |
| `DecisionsAreUnique` | `Spec => []EveryDecisionAnswersARequest` |
| `HistoriesGrow` | `Spec => TimelineOnlyGrows` |
| `ZombiesAreSwept` | `Spec => []NoZombiePending` |

`TypeOK` is inductive: one lemma per family of actions, each citing what the
operators return (`SweptShape`, `FanOutType`, `ExtendedShape`...).  All later
proofs rest on `TimelineSteps`, which says that a step changes a worker's state
and file in one of four ways only: commit a touched state, record an event,
sweep, or purge.  With it `AckedEventsDurable` is inductive beside `TypeOK`: an
acknowledged event is both in memory and on disk, so a failed write, which
leaves an older file, still leaves the event there, and a restart finds it.
The two decision properties are not inductive alone: a resolve needs to know
that what is pending was asked after the last decision, and a restart loads the
file, so the same must hold there.  `DecisionInv` is their conjunction on
memory and file, and is inductive.  `HistoriesGrow` rests on `FilesBegin`: what a
file holds is where memory begins, also after a write that failed.
`ZombiesAreSwept` rests on `ActivitySteps` (every state written with pending
entries is dated now or was there) and on `DecisionInv`: an entry that was asked
for is judged by the heartbeat window, not by the shorter grace of orphans.

Seven more modules hold proofs, each for all values of its constants under the
named assumptions of the module:

| Theorem | Statement |
|---|---|
| `BridgeStreamProofs!OnlyOneForwards` | `Spec => []OneForwarder` |
| `BridgeStreamProofs!NothingFollowsTheSentinel` | `Spec => []SentinelIsLast` |
| `BridgeStreamProofs!StreamsHaveNoGap` | `Spec => []NoGapInStream` |
| `WorkerServicesProofs!RelayDrainsInOrder` | `RelaySpec => []SpoolGoesOldestFirst` |
| `WorkerServicesProofs!RelayImplementsOutbox` | `RelaySpec => RelayIsOutbox` |
| `WorkerServicesProofs!RelayAccountsForReplies` | `RelaySpec => []Box!Accounted` |
| `WorkerServicesProofs!DialogReportsTruly` | `DialogSpec => []OkMeansReconnected` |
| `WorkerServicesProofs!ExchangeResolvesForGood` | `ExchangeSpec => []ResolvedIsNotPending` |
| `WorkerServicesProofs!ExchangeSpendsOnce` | `ExchangeSpec => []ApprovalSpentOnce` |
| `WorkerServicesProofs!StatusAgrees` | `StatusSpec => []StatusInv` |
| `WorkerServicesProofs!ServicesKeepTheirPromises` | the composition keeps the four safety invariants above |
| `HubServicesProofs!SessionsSurviveCollections` | `RecorderSpec => []RecordingIsKept` |
| `HubServicesProofs!RecorderObeysTheFlag` | `RecorderSpec => []RecordingFollowsFlag` |
| `HubServicesProofs!FlowsAreKept` | `FlowsSpec => []FlowFilesAreTrue` |
| `HubServicesProofs!CallsGetTheNextAnswer` | `ReadersSpec => []AnswerIsNext` |
| `HubServicesProofs!BoundaryReadsAreNewest` | `ReadersSpec => []BoundaryReadIsNewest` |
| `HubServicesProofs!HubServicesKeepTheirPromises` | the composition keeps its safety invariants |
| `TerminalProofs!TapsAreServed` | `Spec => []TapIsServed` |
| `TerminalProofs!ManagerHearsTheAudience` | `Spec => []CommandsMatchAudience` |
| `ManagerLoopProofs!NewbornsAreSpared` | `Spec => []NewbornIsSpared` |
| `ManagerLoopProofs!UpdatesAndSignalsSayNoGoodbye` | `Spec => []NoGoodbyeForUpdateOrSignal` |
| `ManagerLoopProofs!ConversationsAreKept` | `Spec => KeepsConversation` |
| `ManagerLoopProofs!TypedExitsAreHonoured` | `Spec => TypedExitIsHonoured` |
| `PermissionFlowProofs!NoResolutionIsForgotten` | `Spec => []NoResolutionForgotten` |
| `PermissionFlowProofs!SpoolOutlivesTheProcess` | `Spec => SpoolKeepsWhatTheHubLacks` |
| `PermissionFlowProofs!HandlersRunOut` | `Spec => HandlerWorkRunsOut` |

and the type correctness of each component and of the two compositions.

- `StreamsMove` says that a step of the engine moves a stream in one of eight ways
  and opens at most one.  `SentinelIsLast` then needs one thing more: the queue on
  which the lock's holder waits is off the list and has no sentinel yet, or the
  waiting put would be a second one (`LockIsOnAClosing`).
- `GapInv` tells `NoGapInStream` by event ids.  Every timeline, in memory and in
  every file, has increasing ids below `nextId` (`Ordered`), so what is stored for
  the forwarder is a set of ids, and a listed stream that lost nothing holds those
  beyond `seen`, increasing (`Carries`).  A step records an event or is quiet
  (`QuietSteps`).  A quiet step leaves what is stored for a worker, or leaves none
  of its streams listed (a purge, a restart); the id of a recorded event is above
  all others, so behind the queue is where it belongs.  Files must be ordered
  too, because `_get_or_create_worker` and a restart load them.
- The refinement needs to know, when a spooled file is removed or skipped over,
  that the hub has it: `RelayInv` adds to the types that the file to be unlinked
  was recorded, that what a drain has behind it was recorded or unreadable, and
  that only a drain has files in hand.  A lemma per action then shows it to be
  a step of the outbox or none.
- `ConfirmationIsFresh` strengthens `OkMeansReconnected`: what a drive sees once it
  has cleared the buffer for its digit was printed since, because other drives can
  only clear it again.
- `CollectionSparesTheNew` says, from the theorems on finite sets, when a
  collection may take the session it was made for: what it leaves is then not
  older than that file, hence of its time, and as many files as the limit - which
  is `Crowds`.  `RecorderInv` adds that a session that is not on disk is known to
  come back without a collection, so the limit stays accounted for.
- `TapIsServed` needs `HoldersDetach`: who holds the child's queue will take it
  off when it ends.  `CommandsMatchAudience` needs that a lost link forgets what
  was sent.
- `LoopInv` says what a handler may have left to do (a suffix of its steps), that
  one that can reach the child has its flags up by the time it types
  (`ReachesFlagged`), that they stay up until they are cleared for the next child
  (`TypedIsFlagged`), that only the event that opened a debounce window tells a
  child to restart in it (`WindowHolds`), and who continues which conversation.
- `FlowInv` follows a request: unread, being posted, late, pending or decided, it
  is in one place at a time (`InOnePlace`), it is asked once and its resolution
  comes behind it (`AskedOnceFirst`).  So a request that reaches the hub's list
  after its prompt was decided still has its resolution unread behind it
  (`DecidedIsAnswered`), and a decision of the hub is on a prompt no longer
  listed.  `NoNewAsk` covers the many steps that only take away.

- Filtering.  `SelectSeq` is recursive and out of the provers' reach, so the
  models write Python's `[x for x in s if ...]` as `Kept(s, S)` (module
  Selections): the k-th element is the one at the k-th position of `S`, found by
  counting.  `KeptIsSubsequence` shows that it keeps exactly the elements at the
  positions of `S`, each once and in order, from the theorems on cardinalities;
  the exchange's expiry and a run's log rest on it.
- `ExchangeInv` is an account per tool.  `ApprovalSpentOnce` counts calls, so a
  step that moves a call from one count to another must know that it was in the
  one and not yet in the other: a permission_request is read once
  (`AsksAreReadOnce`), a request that is banked, matched, answered or past its post
  is not posted again (`PostedOnce`), and a hook resolves the request of a call of
  its own tool (`PairsAreOfOneTool`).  A post that may still arrive late is one
  whose answer was lost (`onWire \subseteq unsure`), which leaves
  `ResolvedIsNotPending` its one exception.
- `FlowsInv`: the timeline is in the order of time and past (`HeardInOrder`,
  `LogsArePast`), and what a log lacks of it since its run began is later than all
  it holds (`LacksOnlyLater`), so what a second reading adds belongs at the end.
- `ReadersInv`: a waiting call's cursor is at an event of the timeline, or all of it
  is news after a purge (`CursorIsAPlace`).  `AnswerIsNext` then rests on what a
  page of `events_since` returns: the next stretch after the cursor, cut at the
  limit; `BoundaryReadIsNewest` needs only the types, and that without a cursor the
  cut is made at the other end (`ReadIsAStretch`).
- `StatusInv` is the part of `HubLearnsTheScreen` that is safety: a signal the hub is not
  excused for is there what the loop sent last.
- A composition runs one service per behaviour.  Each step is a step of one service
  and leaves the others' variables alone (`ServicesAreKept`), so all invariants
  hold together.

Every invariant of a passing run is proved, and so are the action properties and
the refinement.  Model-checked only is all liveness (`LockWaitsForItsReader`,
`StopEndsTheManager`, `LonelyStreamEnds`, `DriveEnds`, `HubLearnsTheScreen`): it rests on ENABLED under fairness, which is out of the provers'
reach.  The five violated runs are TLC's.

## 5. Assumptions

The clock does not go back, that of the file system included; event and request ids are unique; state files can be
read; `pending_permissions` is a set because it is deduplicated by id; a hub
process serves one data directory.  Bounds are the constants marked "bound" in
each module and appear as guards only.  `NoneIsNoState`, `NoneIsNoHandler` and the
like say that the constant for "nothing" is not a value it stands beside.

## 6. Not modelled, and what is left

Not modelled: the web UI (keeps nothing the system depends on), installers,
environment and pid files, TLS and origin checks, screen parsing, recording
formats, the risk policy's remote model, scripts.  Tickets are left out because
each operation is one dictionary access on the event loop.  `status_state` and
the rate-limit timers are functions of time without other actors.

Left for later, in this order:

1. The health latch of the hub client and two channels of one name, which evict
   each other for ever.
2. PermissionFlow's hub shown to be an abstraction of BridgeEngine (pending
   list, subscription and `finally`), and BridgeEngine to refine an abstract
   timeline.
3. `tm_clear_and_send`, whose idle check is stale after its sleeps.

Disagreements between the code and what it says of itself that no run shows
(the order in which a relay's replies arrive after an outage, the shared spool
directory, the missing fallback of a local reconnect, its latency, a reused
stream queue, the inbound event of a run log, a limit of one recording, the
byte bound of recordings) are in `PROJECT.json` under "findings".
