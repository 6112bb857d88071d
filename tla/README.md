# LearnAgent: a verification development

TLA+ specifications of the LearnAgent runtime (`copilot_agent/`), the TLC
configurations that check them on small instances, and proofs, checked by TLAPS,
that hold for every instance. Paths below are relative to `src/copilot_agent/`
unless they start with `docs/`.

Contents: 1 inventory, 2 modules, 3 how the modules read the code, 4 runs and
bounds, 5 fairness, 6 divergences found, 7 proofs, 8 what is not modelled, 9 plan.

## 1. Inventory

LearnAgent is a FastAPI server that answers chat requests with an LLM agent
(LangGraph) which calls tools, retrieves documents and remembers facts. One
process, one asyncio loop, a few worker threads, and SQLite files.

| Component | State | Operations | Correct when |
|---|---|---|---|
| **ExecutionEngine** `runtime/execution_engine.py` | `_runs` (run id to `ManagedRun`), slot semaphore, one asyncio task per working run | create, cancel, approve, reject, stream; tasks `_execute`, `_continue_after_approval`; finalisation; startup recovery | one run at a time per thread; slots never lost or doubled; dangerous tools only with consent; each run ends, with evidence |
| **Run state machine** `runtime/run_state.py` | none | transition check | terminal statuses are final |
| **EventStore** `runtime/event_store.py` | tables threads, runs, events; subscribers | create run (idempotent), append event, update status, close threads, page events, subscribe | active-run check and insertion are one transaction; sequences have no duplicates; pages lose nothing |
| **HTTP API** `server.py` | globals set in `lifespan` | handlers, SSE and WebSocket streams | an error leaves no half-done work |
| **Thread lifecycle** `runtime/thread_lifecycle.py`, `thread_checkpoint.py`, `checkpoint_store.py` | thread status, checkpoint rows | end idle threads, archive, purge | no archived thread keeps a checkpoint, no live run loses one |
| **Projections** `runtime/timeline.py`, `side_effects.py`, `policy_audit.py` | none | folds over events | agree with the events |
| **Agent graph** `agent/` | graph state in checkpoints | plan, safety gate, tool loop, answer | a dangerous call is not executed before the gate |
| **Event mapper** `agent/stream/event_mapper.py` | pending call ids, per stream | graph events to runtime events | each tool_start gets its tool_end |
| **Tool execution** `agent/tool_handlers.py`, `tools/` | audit, side-effect events | retry, reuse by key, record | a side effect is recorded as what it was (that a key keeps it from being repeated is not so, 6.18) |
| **Policy** `policy/registry.py` | loaded rules | evaluate calls, credentials, skills | deny beats confirm beats allow |
| **Context manager** `context/` | none of its own; writes the graph's checkpoint | compose the input of a run, shrink the checkpoint, then the input | within the budget, or nothing left to shrink; the last turns are kept |
| **Memory items** `memory/item_store.py`, `item_writer.py` | items, tombstones, history | write, merge, confirm, delete, evict | no lost update; deleted stays deleted |
| **Memory summaries, recall** `memory/` | summaries | extract, score | heuristic |
| **Checkpoint compactor** `memory/checkpoint_compactor.py` | graph checkpoint | shrink after a run | never a checkpoint in use |
| **RAG reload** `rag/reload.py` | chunks, fingerprint, worker thread, pending flag | startup, poll, reload, vector sync | what a stored fingerprint or stamp vouches for is served and embedded; every change is served in the end |
| **RAG documents** `rag/document_lifecycle.py`, `ingest.py` | load order, files, vectors | upload, delete | a removed document is neither served nor embedded |
| **RAG retrieval** `rag/` | none | rank, fuse, filter | empirical |
| **MCP** `tools/extensions/mcp/` | session, tasks for health and reconnect, server map | call, ping, reconnect, add, remove | a connected client has a session; a lost one comes back, a removed one does not |
| **Contracts, scenario, skills, credentials, LLM, observability, eval** | configuration | load, validate | out of a model checker's reach or plain data |

Interaction. `server.py` calls the engine and the store. The engine's coroutines
run on one loop and interleave only where they really suspend. The engine calls
`ChatRunner.run_stream`, whose mapper appends events to the store and raises
`GraphInterrupted` at an interrupt. Synchronous handlers (end, archive, reads)
run in the server's thread pool, beside the loop, and meet the engine only in
the store. `ThreadLifecycleCleaner` runs as a task on the loop. The RAG store is
shared by the startup, a polling task that reloads in a thread (`watch`), the
reload and delete handlers in the thread pool, the upload handler on the loop and
a thread that embeds (`worker`). They share the files, `rag_manifest.json`, the
vector collection and the fields of `RagStoreManager`, and only the pending flag
is under a lock.

Hard behaviours. A cancellation arrives at any suspension point, including a
task that never began and an `except` clause. A verdict comes twice, or from
both sides, or with no slot free. The process dies between any two commits, and
also during its own recovery. An archive deletes the checkpoint under a run, and a
purge of a batch fails half-way. A replayed idempotency key makes a second object
for a live run. Files change while they are read, and reloads, deletions and the
vector worker overlap. `PROJECT.json` lists every hazard at its line.

## 2. Modules

| Module | What it is |
|---|---|
| `RunState` | `run_state.py`: statuses and transitions, as operators |
| `RunLifecycle` | abstract: what a client that looks only at run rows is promised |
| `ExecutionEngine` | the engine, with the part of the store and of the server it uses |
| `MCExecutionEngine` | instances of `ExecutionEngine` for TLC |
| `ExecutionEngineProofs` | theorems about `ExecutionEngine` |
| `RagReload` | reloads, vector sync and document lifecycle of `rag/` |
| `MCRagReload` | instances of `RagReload` for TLC |
| `RagReloadProofs` | theorems about `RagReload` |
| `EventStream` | the event table, its subscribers, the WebSocket of a run, and pages |
| `MCEventStream` | instances of `EventStream` for TLC |
| `EventStreamProofs` | theorems about `EventStream` |
| `ThreadLifecycle` | threads from creation to archive: cleaner, handlers, checkpoints, purge, compaction |
| `MCThreadLifecycle` | instances of `ThreadLifecycle` for TLC |
| `ThreadLifecycleProofs` | theorems about `ThreadLifecycle` |
| `ToolLoop` | the tool calls of one run: policy gate, approval, tools, mapper, side-effect ledger |
| `MCToolLoop` | instances of `ToolLoop` for TLC |
| `ToolLoopProofs` | theorems about `ToolLoop` |
| `MemoryItems` | memory items of one user: writer, handlers, eviction, expiry |
| `MCMemoryItems` | instances of `MemoryItems` for TLC |
| `MemoryItemsProofs` | theorems about `MemoryItems` |
| `McpClient` | the client of one MCP server: addition with its listings, calls, health check, reconnection, removal |
| `MCMcpClient` | instances of `McpClient` for TLC |
| `McpClientProofs` | theorems about `McpClient` |
| `ContextPack` | what a run puts before the model: composition, the checkpoint and the input under a budget |
| `MCContextPack` | instances of `ContextPack` for TLC |
| `ContextPackProofs` | theorems about `ContextPack` |

`ExecutionEngine` extends `RunState` and instantiates `RunLifecycle` with a
refinement mapping. `RagReload` shares no state with the engine: the engine reads
the RAG store through a tool call only. `EventStream` looks at the store from the
other side: `ExecutionEngine` says *which* events a run gets and in which order,
`EventStream` lets any writer append any event and asks what a reader gets. Of
the engine it uses one fact, that a status change is followed by an event.

The other five modules each look closely at what the engine leaves abstract.
`ThreadLifecycle` reduces a run to what matters to its thread and keeps the
checkpoint. `ToolLoop` opens up the graph of one run, which in `ExecutionEngine`
is a single suspension point with three outcomes. `MemoryItems` is what happens
after a run and in the memory handlers, `McpClient` what is behind one kind of
tool, `ContextPack` what is before the graph starts: it takes the checkpoint of
`ThreadLifecycle` apart into messages with ids. They share no state with one another in the code, except for the store and
the event loop, so they are not composed; each says in its comments what it takes
from the others (the order of verdict and resumption, the active thread, the loop).

## 3. How the modules read the code

### ExecutionEngine

State:

| Variable | Code |
|---|---|
| `status` | column `runs.status`, `"absent"` before the row |
| `log` | the kinds of events stored for a run; `approval_resolved` is split by its verdict, `recovered_at` stands for the column |
| `closed` | threads whose status is ended or archived |
| `registry` | the dict `_runs` |
| `managed` | `ManagedRun` objects: their flags, whether `task.cancel()` was called, and where the task stands |
| `freeSlots` | value of `_run_slots` |
| `writes` | commits that the running stretch of code has still to make |
| `phase`, `restarts` | `__init__` (recovery), serving, stopping; crashes so far |

Granularity. The engine is asyncio code: between two real suspension points
nothing else runs on the loop. Several `await`s never suspend: an uncontended
`asyncio.Lock`, `put` on an unbounded queue, and `acquire` after the test that
the semaphore is positive. So one action is one stretch of code between
suspensions. What a stretch leaves in SQLite is *not* atomic: each
`append_event` and each `update_run_status` commits by itself. The stretch puts
its commits in `writes`; `Commit` performs one; no other coroutine moves before
the queue is empty; `Crash` may come at any time. An HTTP thread of the pool can
act between two commits (`CloseThread`).

Whether a status change will be accepted is decided when the stretch begins
(`CanMove`). That is exact because only the loop changes the status of a run. A
refused change raises `InvalidRunTransitionError`, which is then handled by the
clause that would catch it: `Fail` in the `try` body, nothing in a handler
(`Unhandled`).

Actions:

| Action | Code |
|---|---|
| `CreateRun` | `create_run` for a new row: slot, active thread, no run that is not over, row, `run_created`, registration, task |
| `ReplayCreate`, `StreamReplay` | `create_run` that finds the row of its key, and the end of `stream` for such a request |
| `Cancel`, `Approve`, `Reject` (`Decide`) | the three methods; `Decide` has one disjunct per way `_start_approval_continuation` can go: wake the task, start a continuation, find no slot |
| `CloseThread` | `end_thread`, `archive_thread` in the thread pool |
| `ExecuteStart`, `ContinueStart`, `ExecuteWake` | from the start of a task, or from the approval event, to the first suspension in the graph |
| `GraphInterrupt`, `GraphDone`, `GraphFail` | how the graph can end, with the handler that follows and the `finally` clause |
| `Killed` | `CancelledError` at the suspension point, in a task that began or did not |
| `VerifyCheckpoint`, `Compact` | `_finalize_memory` and the removal of the entry |
| `Shutdown`, `Crash` | tasks cancelled as the loop closes; memory lost |
| `RecoverCancelledRun`, `RecoverFailedRun`, `Rehydrate`, `EndRecovery` | `_cleanup_orphan_runs`, in its order |

`Leave` is the `finally` clause. `LeaveWith` is a last status change followed by
it. `Fail` is the shared body of the failure clauses.

Abstracted: what the graph computes, message contents, event payloads and
sequence numbers, and time (a timeout is one of the causes of `GraphFail`).
`cancel_requested` is not kept: it is set only in a call that also cancels the
task, so the tests of it after a suspension are never reached. Where no task
exists the status `cancelling` already bars what would read it. The blocked side
effects of a rejection are one event kind: which calls they name is not modelled.

Assumed: SQLite answers (no database errors); one server process per database;
`MaxRestarts` and the number of `ManagedRun` objects are bounds of the model.
An object that nothing refers to any more may be used again for a new one.

### RagReload

| Variable | Code |
|---|---|
| `disk`, `registered`, `edits` | the documents, `load_order` of `docs_manifest.json`, and how many writes there were: a document *is* the number of its write, 0 when absent |
| `manifest` | `rag_manifest.json`: for each file the version its fingerprint was taken of, and the version its chunk ids stand for |
| `vectors` | rows of the collection, as file and version |
| `chunks`, `fingerprint`, `enabled`, `vectorStatus`, `pending` | fields of `RagStore` and `RagStoreManager` |
| `at`, `local` | where each thread is, and the local variables it goes on with |
| `deleted` | history: documents unlinked by a deletion that did not raise |

Granularity: an action is what a thread does between two points where another
thread or an editor of the files matters. `reload` is `TakeFingerprint`,
`LoadChunks`, `ReplaceChunks`, `Publish`, `ScheduleSync` or, for a deletion, the
sync itself. `sync_vector_index` is `SyncStart` (read the manifest, compute the
delta), `SyncDrop`, then `SyncPick`, `SyncUpsert`, `SyncStamp` for each file, and
`SyncSave`. `delete_rag_document` is `DeleteRequest`, `ForgetEntry`,
`PurgeVectors`, `SaveManifest`, `UnlinkFile` and a reload. `WorkerTest` and
`WorkerExit` are separate because `is_alive` stays true between them. `Fail` is
an exception with what its handler does; `Crash` may come at any time, and
`BootLoad`, the sync and `BootFingerprint` follow it. Editors of the files
(`EditFile`) are the environment.

Assumed: modification time and size tell two writes of a file apart, and a chunk
id determines its text. A pass over all files (fingerprint, load) is one action,
which hides only edits in the middle of a pass.

### EventStream

| Variable | Code |
|---|---|
| `events` | the table `events`, an id being a place in it: run and sequence of each row |
| `row`, `unannounced` | changes of each run row, and the runs whose last change no event followed yet |
| `posting` | for each writer inside `append_event`, past its commit: the event, and the subscribers it has still to call |
| `subscribers` | `_subscribers` |
| `ws` | each `run_events_ws`: where it is, its queue, and what was sent |
| `pager` | each client of the event pages: its cursor, what it read, the last `has_more` |

`Insert` is the locked transaction of `append_event`; `CopySubscribers` and
`CallBack` are `_notify`, which runs after the lock is released. Writers are the
loop and other threads: LangGraph runs the synchronous nodes (`agent/nodes.py`) in
an executor, and synchronous handlers run in the server's pool. A socket is a
coroutine, so `Connect`, `Subscribe`, `SendStored`, `SendEvent`, `SendRow` and
`Leave`, the code between its suspensions, need the loop outside `append_event`.
`call_soon_threadsafe` keeps the order of the calls, so `CallBack` puts the event
into the queue directly. `ReadPage` is one query; the pager, which is not part of
the repository, passes `next_after_id` back and keeps its cursor after an empty
page. Not modelled: the rejection of a socket for an unknown run, payloads, and
`append_event` returning the stored `tool_end` of a call instead of a second one,
which is in `ToolLoop`.

### ThreadLifecycle

| Variable | Code |
|---|---|
| `thread`, `now` | the table `threads`: status, last activity, end; the clock |
| `run` | the latest run of each thread: working, waiting or over, the number of its turn, the turns in the memory of its graph |
| `checkpoint` | the checkpoint rows of each thread: the turns in the messages, whether `state.next` is empty, whether there is a summary |
| `chat` | the chat request that is between its two commits |
| `cleaner`, `purger`, `compaction` | where `run_once` is, what it or a handler has still to purge, each `compact_if_needed` |
| `excused` | history: threads that a crash, or the failure of a purge, kept from theirs, or that a run wrote to after it |

A call of the event store is one transaction, so is a purge; a compaction is a read
and a write with awaits around them. `CreateThread`, `Chat`, `CreateRun`,
`RefuseRun`, `EndThread`, `ArchiveThread` and `Verdict` are the requests,
`GraphWrite`, `Interrupt` and `EndRun` the graph, `Wake`, `CompactNext`, `EndIdle`,
`ArchiveEnded`, `Purge`, `Sleep` one pass of `ThreadLifecycleCleaner.run_once`. A purge
may raise in its delete, or in the event that tells of it (`PurgeFails`); in the cleaner
this ends the pass, and what was archived with it is not purged.
The cleaner and the chat handler keep the loop (`LoopIsFree`), the archive and end
handlers act from the thread pool. The end of an idle thread does not look at its
runs. With `active_idle_ttl` 0 nothing is compacted, and threads still end.
Abstracted: the events about compaction and purge, and `archived_at`, which nothing
reads. External: a graph that is resumed without a checkpoint has no input and its
run fails; removing a message that is not there raises. Not modelled: a second
finalisation of the same thread while the first one still compacts.

### ToolLoop

| Variable | Code |
|---|---|
| `calls`, `at` | the tool calls the LLM has made, in rounds; where the run is |
| `created`, `confirmed`, `asked`, `verdict`, `approved` | the run's flag, the graph's flag, the calls of the stored `approval_required`, the engine's verdict, whether an approval is stored |
| `tool` | what became of each call |
| `queue`, `tracker` | events of the graph the mapper has not read, and its `_ToolTracker` |
| `starts`, `ends`, `ledger` | the stored `tool_start`, `tool_end` and `tool_side_effect_recorded` |
| `library` | what the events of LangChain tell: call ids, plain results, errors |
| `named`, `forgotten` | history: the id a start was read under; calls of a rejection a crash made the engine forget |

`Propose` and `Answer` are the assistant, the `Gate...` actions `safety_gate` with
`evaluate_tool_calls` and `tool_allowed`, `Approve`, `Reject`, `Resume` the verdict,
`StartTool`, `FinishTool`, `ToolsDone` the tool node, `MapStart`, `MapEnd`,
`StreamEnds` the mapper. A resumed graph runs the interrupted node again, with a new
mapper; the approval confirms the rest of the run. LangChain is not part of the
repository, and which fields its events have depends on its version; the mapper
has branches for all of them, so three Booleans are chosen at the start and
`SomeLibraries` holds the four combinations that reach all branches.
Assumed: the LLM answers over the network, and by then the mapper has read what
is queued. Not modelled: sanitisation, credential audits, policy events, the retries
of read-only tools, the recursion limit, and the mapper's branch for the text of
an older gate, which nothing produces any more.

Keys. `http_post` looks for a successful `tool_end` with its key, and the mapper stores
the key of a call with its end if the `ToolSpec` names the argument that holds it. The server
registers both HTTP tools through `HttpCapability.register`, which names none
(`KeyFields`), so that no end has a key and `Reusable` never holds; only
`ToolRegistry.from_agent_tools`, used by scripts, names it. And the metadata
`idempotency_reused` would not reach the ledger: `to_tool_result` keeps the status code
alone, so `Status` has no "reused".

### MemoryItems

| Variable | Code |
|---|---|
| `rows`, `supersedes`, `expired` | `memory_items`: text, `pending_confirmation`, `is_deprecated`; `supersedes_id`; rows whose `expires_at` has passed |
| `inserted` | insertions so far; an item is the number of its insertion |
| `writer` | `persist_run_memories` on the loop: candidates left, the copy and the new row in hand, the victims of the eviction |
| `handlers` | the confirm, reject and delete handlers in the thread pool, and the copy each holds |
| `proofs` | items with a stored delete proof |
| `out`, `confirmed`, `contested` | history: items that were pending or deprecated; whose confirmation was requested; that somebody held while they were deleted |

The lock of the store is held for one statement. A change of a row is `get` and a
later `update` of all its columns: `ReadOld`/`WriteOld`, `ReadVictim`/`Evict`,
`Request`/`WriteVerdict`. `Compare` is `list_active` and the decision on what it
returned, `Insert` the new row, `CountLive` the start of `evict_lowest_score`.
`Record` is the governance event and the proof, stored as one step; `RecordFails`
is `create_run` raising `ThreadNotActiveError` after the row was written.
Abstracted: scores and times (where the code sorts by them any order may come
out), and which texts are similar, conflict or contradict (relations given as
constants). One user, user-scope items. The gate in front of the writer decides
which candidates there are and is an input.

### McpClient

| Variable | Code |
|---|---|
| `connected`, `session`, `failures` | `_connected`, `_session`, `_failure_count` |
| `stack`, `lost` | connections whose exit is on `_stack`, or on a stack nobody closes |
| `lock`, `dial` | who holds `_connect_lock`, and what it is connecting |
| `at`, `on`, `attempt`, `closed` | where each task is, the session a call uses, the attempt of the loop, whether an exit was run |
| `health`, `command`, `registered` | the health check, what the handler does, the client's place in `McpRuntime.clients` |
| `listings` | what the handler that adds the client has still to ask the server for |
| `up`, `broken` | the server, and connections it no longer serves |
| `overtaken`, `forsaken`, `contested` | history, see the properties |

An action is what a coroutine does between two suspensions; a lock that is free and
for which nobody waits is taken without one. `Connect`, `Granted`, `DialUp`,
`DialDone`, `DialFails` are `connect()` for whoever calls it, `HealthWakes`,
`PingReturns`, `PingFails` the health check, `LoopWakes`, `CloseOne`, `LoopClosed`,
`LoopCloseRaises` the reconnect loop, `Command`, `CommandGranted`, `AdminClosed`,
`CloseRaises` `force_reconnect` and `remove_server` with `aclose`. `add_server` is the task
`adder`: it connects, registers the client (`DialDone`), and then lists resources and prompts,
if the definition of the server does not name them (`Listed`). Each listing begins with
`connect()`, and the client may be removed, or lose its connection, in between. All transports and all
requests have the shape of the one modelled. Whether an exit raises because another
task opened the connection is the library's choice, so both happen. A cancelled loop
is unwound at once, and the exit of an empty stack by a handler, which holds the lock,
is suspended once more than in the code. Assumed: an `initialize()` that the server
does not answer fails in the end; it has no timeout, and whoever waits for it keeps
the lock.

### ContextPack

| Variable | Code |
|---|---|
| `checkpoint` | the `messages` of the thread's checkpoint: id, kind, text, size |
| `run` | where `assemble` or the graph is: the input, the messages read last, the remaining budget, the messages in the memory of the graph |
| `compaction` | `compact_if_needed` of a run that is over, and what it read |
| `turns`, `archived` | runs so far, the number of a turn being its text; whether the thread was archived |
| `answered`, `split` | history: turns that were stored since the last purge; turns whose tool call was dropped |

Each `aget_state` and `aupdate_state` is an await, and what is between two of them is
one action. `CreateRun` is the insertion of the row, which the archive of a thread rules out,
and `Assemble` is `assemble` to the end of `build_graph_turn_messages`. `Load`
to `Measure` are `pack_checkpoint_for_budget`: the compactor when there are many
messages (`ReadState`, `CompactForRun`, `Reload`), then the summary of the older turns
(`Summarize`, `LoadSummarized`), then single messages (`DropOldest`), the oldest
first. `StartGraph` is `pack_graph_messages` and the first step of the graph, `EndGraph`
its last. `CompactionReads` and `CompactionWrites` are the compaction after a run.
`Write` is a write that names the messages to remove by id: LangGraph raises a
`ValueError` when one is not there, which fails the run and is ignored in a
compaction. A summary in the compactor comes last, behind messages that keep their
ids; one of the run comes first, before copies with new ids, as in the code. `Archive` is
the purge by the handler or the cleaner: neither asks for a run in progress, so it comes at
any time, under an assembly, a graph or a compaction.

Abstracted: a text is what it is about, and a size in place of its characters; the
snippets of all hits are one message. What a summary tells is left out: each of its sections
takes the last `KeepTurns` items, cut to 240 characters, all of them 2000 together, and an earlier
summary is one such item, so that what old turns said may be lost with the next compaction, as
`docs/memory-checkpoint-design.md` (section 11) says. External: `add_messages`, and that the graph ends
by storing what it has in memory, over whatever was written meanwhile. Not modelled: the
messages of router and skills, which are deduplicated like the memory and never
trimmed; graphs that are cut off. `_truncate_oldest_non_user` is not there because it
has no effect once a user has spoken: the loop before it ends with nothing left that
it could truncate, or within the budget, or with one message.

## 4. Runs and bounds

Deadlock is not checked: when every client has stopped asking, nobody edits files
and no restart is left, the system rightly rests. The runs of the engine use
`MCExecutionEngine`, those named `rag_*` use
`MCRagReload`, and `event_stream`, `threads`, `tools`, `memory`, `mcp` and `context` use the MC
module of their component.

| Run | Instance | Properties |
|---|---|---|
| `safety` | one thread, two requests, the second confirmed, 2 objects, 1 slot, 2 restarts | `ActiveRunIsManaged`, `OneActiveRunPerThread`, `TerminalEvidence`, `DangerNeedsConsent`, `RejectionHolds`, `CompletedAfterAnswer`, `ImplementsRunLifecycle` |
| `two_threads` | two threads that compete for one slot, one request keyed and replayed, no restart, threads stay open | `SlotAccounting` |
| `liveness` | as `safety`, 1 restart, threads stay open, under `FairSpec` | `RunSettles`, `CancelOfGraphConverges` |
| `rag_watch` | watcher and worker, two files, 3 edits, 1 failure, 1 crash, under `FairSpec` | `KeywordFresh`, `OrphansNeedAFailure`, `KeywordCatchesUp` |
| `rag_delete` | deletions and edits without the watcher, two files, 3 edits, 1 failure, 1 crash | `DeletedIsNotServed`, `DeletedHasNoRows`, `LostRowsNeedAFailure` |
| `rag_uploads` | uploads, reloads and edits beside the worker, without the watcher, two files, 2 edits, 1 failure, 1 crash | `SkippedIsEmbedded` |
| `event_stream` | the loop and one more thread, two runs, one socket, one pager of one run, pages of at most 2, limits 0 and 5, 3 events, 1 change of each row, under `FairSpec` | `NothingMissed`, `RowCatchesUp`, `PagesAreComplete`, `EventsArrive` |
| `threads` | two threads, one with 3 turns that clients may end and archive, one archive handler, both times to live at most 1 tick, batches of 1, 1 turn kept, 1 crash, under `FairSpec` | `LeftoverHasACause`, `ThreadsMoveForward`, `OnlyArchivedIsPurged`, `RecentTurnsStay`, `NoThreadStaysOverdue` |
| `tools` | 3 calls in batches of at most 2, out of one per policy rule and a keyed pair, 4 libraries, 1 crash | `GateHolds`, `BlockedStaysBlocked`, `LedgerTells` |
| `memory` | 4 texts of which two say the same, one the opposite and one is protected, 3 items, room for 1, two handlers, 2 requests, 1 crash | `OnlyConfirmActivates`, `DeletedTextIsGone`, `CapacityHolds` |
| `mcp` | the adding handler with 2 listings, one caller, the health check, the loop and one command, 4 retries, 1 fault, under `FairSpec` | `SessionIsThere`, `RemovedRests`, `Recovers` |
| `context` | 4 turns, small or large; memory and snippets recalled or not; budget 6 where a message is 1, a result of a tool or snippets are 2 and a summary is 4; 1 turn kept, compaction above 3 messages; an archive at any time | `LastTurnsAreThere`, `OnlyDroppingSplits`, `FitsOrBare`, `FailsOnlyWhenCrossed` |

Why these bounds. A property of a run's own history needs one run and two
restarts: the first crash comes at any commit of the run's life, the second at
any commit of the recovery that follows, or of the life of the recovered run.
Where the question is not about recovery, one restart is enough. A second request on the same thread
is what the active-run check is about, and a second run on another thread with a
single slot is the smallest instance in which a verdict finds no slot. Two
objects are enough for two runs, or for a run and its replay: `two_threads` has
two runs and a replay that finds its own object or a new one.

For `RagReload`: a second file is needed where the manifest of one file is written
while another is embedded; the races of one file need its first version and one
change of it, the third edit lets a change of the second file come in between.
One failure and one crash each are placed anywhere, alone and together. In
`rag_uploads` a reload, an upload and the worker overlap freely; in
`rag_delete` and `rag_watch` only one thread reloads. `MCRagTwoSyncs` needs three edits:
with two of them, uploads and deletions of one file look harmless (6.11).

For `EventStream`: two writers overlap inside `_notify` and their events arrive in
either order; sockets do not influence each other, so one is enough; a second run
makes ids and sequences differ. Three events fill a page of two and leave one, and
put one event each before the listing, between it and the queue, and after. The
limits are clamped to 1 and to the maximum.

For `ThreadLifecycle`: three turns are what two compactions can disagree about, one
that keeps the last turn and one that read before it was there. Batches of one make
two threads compete for a pass of the cleaner; the second thread needs no runs for
that. One tick tells idle from used. `Closing` keeps clients from closing the second
thread, which would only repeat the first.

For `ToolLoop`: a batch of two is the smallest in which a denied call stands behind one
that asks, in which two calls share a name, and in which ends come in another order
than starts; a third call comes before or after the pause. One crash is enough: a run
that does not wait is over after it.

For `MemoryItems`: three items and one place make the eviction choose; two requests by
two handlers, beside the writer, put three stale copies of one row in flight. The
four texts realise each branch of `upsert_candidate`.

For `McpClient`: one call and one ping are two requests that fail at once, which is what
`_on_call_failure` counts to, and one fault, the server going away, breaks both, the listings and
each attempt of the loop until the server returns. With a second fault the
invariants hold as well, and with `Listings` 0 so does `Recovers`. `MaxRetries` is above the number of failures that can
come together (6.22 shows what happens when it is not; by default it is 10). Two listings are what
`add_server` does at most.

For `ContextPack`: a budget of six holds one turn with a tool and its snippets and not
two, so that each stage of the shrinking is reached with and without the others; a
user's message of five leaves less than the input needs, with nothing to drop. A summary
of four is longer than the prompt and a short turn it may stand for, as its six headings are
in the code (`memory/schema.py:154`). Four turns are a summary that
summarizes a summary, and a compaction beside a run that shrinks.

`TypeOK` of every module holds on its instance too; where it is not a theorem it was
checked with the configuration of the run (add it to `INVARIANTS`).

Symmetry: files and `ManagedRun` objects are interchangeable (the initial state and
all actions treat them alike, no property names one), so `FileSymmetry` and
`ManagedSymmetry` are used where no liveness is checked; the refinement has no
liveness part. For the same reason the two handlers of `memory` are interchangeable
(`HandlerSymmetry`).
`ThreadsStayOpen` drops states in which a thread was closed, in two runs whose
properties do not depend on it, for size; `safety` closes it.

What the properties mean:

- `OneActiveRunPerThread`: no two runs of a thread that are not over.
- `SlotAccounting`: free slots plus held slots are `max_concurrent_runs`, and
  the graph runs only inside a slot. A leaked slot (6.6) still counts as held:
  its object keeps `slot_acquired` though its task is over.
- `TerminalEvidence`: a terminal status is never ahead of its events, in any
  state between two commits and after any crash.
- `DangerNeedsConsent`: `confirm_dangerous=True` reaches the graph only for a run
  created with it or one whose approval is *in the store*.
- `RejectionHolds`: after a rejection no task of that object starts the graph
  with `confirm_dangerous`.
- `CompletedAfterAnswer`: a run that asked completes only after an answer, and
  a rejection is complete in the store, even with a crash inside `reject`.
- `ActiveRunIsManaged`: a run that is not over has an entry in `_runs` while the
  engine serves. True without keys (`safety`), false with them (6.7).
- `RunSettles`, `CancelOfGraphConverges`: liveness, below. The first includes that the
  entry of a run that is over leaves `_runs`.
- `ImplementsRunLifecycle`: the status column refines `RunLifecycle`; a thread
  is busy with its run that is not over, and the outcome is the terminal status.
- `KeywordFresh`: a stored fingerprint that equals the directory's, which is what
  silences the watcher, means that every document is served as it is.
- `SkippedIsEmbedded`: what the sync will skip has its rows, also after a sync
  that failed or died anywhere between the two stores. Checked and proved where nothing
  is deleted. A deletion takes rows away first and saves the manifest later, so that
  with deletions, one at a time, it needs that nothing failed (`LostRowsNeedAFailure`,
  checked and proved), and beside the worker it is false (6.11).
- `OrphansNeedAFailure`, `DeletedHasNoRows`: rows that nobody can find again, or
  that belong to a removed document, need a failure or a crash. The first is
  checked, and proved, where nothing is deleted, the second for deletions one at a
  time, without uploads; with a worker that embeds at the same time it fails (6.11).
- `DeletedIsNotServed`: once the reloads are over, a removed document is served
  only if the watcher is still going to notice. True (and proved) while deletions,
  one at a time, are the only reloads (`rag_delete`), false beside the watcher's
  (6.4) and, with two pool threads, for two deletions at once.
- `KeywordCatchesUp`: under the watcher, `chunks` converges to the files.
- `NothingMissed`: a socket that was sent the stored events has every event of its
  run, sent or queued, unless the event's writer is still in `_notify`.
- `RowCatchesUp`: a socket with an empty queue that has been sent an event shows the
  row as it is, if the last change of the row was followed by an event.
- `PagesAreComplete`: following the cursor yields each event up to it once and in
  order, while events are appended, and a page that says it is the last one leaves
  nothing behind. True for the pages of a run, false for those of a thread (6.13).
- `EventsArrive`: every event reaches every socket of its run that has not gone.
- `ThreadsMoveForward`: active, ended, archived and never back, with the time of the
  end written once, although handlers, chat and cleaner each commit on what they read.
- `OnlyArchivedIsPurged`, `LeftoverHasACause`: rows of a checkpoint go only after the
  archive, and an archived thread keeps or regains rows only through a crash before
  the purge, a purge that failed, its own or one before it in the batch, or a run that was
  still going on; a compaction brings nothing back.
- `RecentTurnsStay`: two compactions at once, or one beside a run, never remove one of
  the turns to be kept.
- `NoThreadStaysOverdue`: batches, touches and crashes starve no idle or ended thread.
- `GateHolds`: a denied or misrouted call, and every call of its batch, never runs,
  wherever it stands and although a human approved the batch; a dangerous one only
  with a confirmation at creation or a stored approval.
- `BlockedStaysBlocked`: what the ledger calls blocked does not run, unless a crash made
  the engine forget the rejection.
- `LedgerTells`: in a run that ended by itself each call has one end, each write one
  record that says what happened, in any order of ends. Its premises (starts stored
  under their own ids, no failure lost with an earlier stream) are where 6.18 begins.
- `OnlyConfirmActivates`: what was pending, superseded, evicted, rejected or deleted is
  recalled only if its confirmation was requested, whatever stale row is written back.
- `DeletedTextIsGone`: behind a delete proof the row is a tombstone or gone for ever,
  unless somebody held the row while it was deleted (6.19).
- `CapacityHolds`: after the writer there are no more items than allowed, but for
  protected ones; a confirmation or a crash may leave more.
- `SessionIsThere`: connected means that there is a session, unless the loop threw one
  away (6.21).
- `RemovedRests`: neither the health check nor the loop nor a call that is under way
  brings a removed client back, unless a call was connecting when it was removed or the
  handler that adds it had it to list again (6.29).
- `Recovers`: once the server answers for good the client has a session that works,
  unless the loop threw one away, a forced reconnection failed, or calls connect in each
  moment in which the loop closes.

- `LastTurnsAreThere`: what users said in the last `KeepTurns` turns that were answered since
  the last purge is in the checkpoint, although a run, the compaction of the run before it, a
  graph that stores what it read and an archive all rewrite the checkpoint.
- `OnlyDroppingSplits`: summaries take whole turns; only the dropping of single messages
  leaves a result of a tool without its call (6.24).
- `FitsOrBare`: a graph starts over the budget only when nothing is left to take away, or
  when the checkpoint fills the budget by itself (6.25). The exception is a run after whose
  last read the compaction of the run before it wrote (6.28), or the thread was archived.
- `FailsOnlyWhenCrossed`: the removals of a run name a message that is gone only if another
  run's compaction wrote, or the thread was archived, after its last read (6.27).

Each property of each passing run has a mutant: a variant of one definition,
next to it in the module (`Leave_KeepSlotOfUnfinished`, `Fail_StatusFirst`, ...),
that a plausible slip in the code would produce and that breaks the property.

## 5. Fairness

`FairSpec` assumes weak fairness of `Commit` (SQLite answers), of `Recovery`
(`__init__` is straight-line code), of the exit of a process told to stop, and
strong fairness of each task's steps. The last is strong because a task step is
disabled while another coroutine has commits to make; asyncio runs ready
callbacks in order, and `asyncio.timeout` bounds the graph, so a task that is
ready again and again does run. Nothing is assumed of clients (an approval may
never come) nor of crashes.

`RagReload`'s `FairSpec` is weak fairness of each thread's own steps: the
operating system schedules threads, none of them waits for a lock that another
holds for long, and the watcher's loop catches exceptions and polls on. Editors,
clients, failures and crashes are not fair; they are bounded, so the property is
about what happens once they stop.

`EventStream`'s `FairSpec` is weak fairness of `_notify` in each writer and of each
socket's steps: a thread inside `_notify` waits for nothing, and the loop comes to
every ready coroutine. The queue of a socket and a send have no timeout, so this
assumes a client that reads. Nothing forces a new event, which is what 6.15 turns on.

`ThreadLifecycle`'s `FairSpec` is weak fairness of the answer to a request that has
begun, of a purge (which ends or fails) and of a compaction, which wait for nothing, and strong fairness of
the cleaner's pass: it runs on the loop that also answers requests, so it is not
ready at each moment, but its timer brings it back again and again. Clients, the clock and
crashes are not fair.

`McpClient`'s `FairSpec` is weak fairness of what a coroutine does once it has what it
waits for (dialing, an answer or a failure, also of a listing, closing, the health check, the end of the
loop and of a handler), and strong fairness of the loop and of a handler where they
wait for the client's lock: `asyncio.Lock` serves in order, so that who waits is served
although calls take the lock in between. Nothing is assumed of calls, commands and
faults; `Recovers` asks only for what happens when the faults have stopped.

`ToolLoop`, `MemoryItems` and `ContextPack` state no liveness: each is a bounded sequence of steps
that no other party holds up, except for a human.

## 6. Where code and documentation differ

TLC's trace shows the steps. The document is `docs/runtime-design.md` for 1 to 7. Each
item is a configuration kept beside the runs, to be started by hand
(`tlc -config <cfg> <MC module>`). A file that lists several properties has all but one of
them commented out; to see another one, exchange the comments.

1. `MCEngineKept`, `CancelOfAskedRunConverges`: cancelling a run that waits for its
   approval. `CancelledError` rises at the wait inside `except GraphInterrupted`
   (`execution_engine.py:290`); the sibling clause `except asyncio.CancelledError` does not
   see it, and a rehydrated run has no task at all. The run stays `cancelling` and, being
   active, blocks its thread until a restart. Line 118 of the document has
   `queued/running/waiting_approval --> cancelling --> cancelled`, and line 168 says
   that the run converges to `cancelled`.
2. `MCEngineKept`, `RunningEnds`: an exception, timeout or second interrupt after the approval,
   in the same handler: the run stays `running`, with no `error` event.
3. `MCEngineReplay`, `OneTaskPerRun`: a replayed streamed request replaces the object of a live run;
   an approval then starts a second task for it.
4. `MCRagDeleteWatched`, `DeletedIsNotServed`: a watcher's reload that loaded before the unlink replaces
   the chunks after the deletion's reload did; the document stays retrievable
   (`README.md`: not retrievable after deletion).

5. `MCRagRebuilding`, `RebuildingEnds`: the pending flag is set for a worker past
   its last test; the sync it asked for never runs (`docs/rag-design.md`).
6. `MCEngineKept`, `CancelOfNewRunConverges`: cancelling before the task's
   first step. A coroutine that has not started runs neither handler nor
   `finally`; the run stays `cancelling` and the slot is lost.
7. `MCEngineReplay`, `ActiveRunIsManaged`: the end of a replayed stream
   removes the entry of a live run.
8. `MCEngineKept`, `FailureIsTerminal`: a continuation that fails
   after a rejection stores `run_failed_meta`, and is then refused
   `waiting_approval -> failed`.
9. `MCEngineKept`, `CompletedDidNotFail`: an exception with an empty
   message is a failure in the events and `completed` in the row.
10. `MCRagStartup`, `KeywordFresh`: the startup takes its fingerprint after it has
    loaded. A file written in between stays served in its old version, unnoticed
    by the watcher.
11. `MCRagDeleteRows`, `DeletedHasNoRows`: a deletion and the worker rewrite
    `rag_manifest.json` from copies; rows of the removed document stay, and no
    entry leads to them. `MCRagTwoSyncs`, `SkippedIsEmbedded`: the sync that ends a
    deletion (`reload.py:77`) does not exclude the worker's. The file is written while
    both embed its old text; the deletion's sync stamps the new version, the worker
    saves first and, starting again, drops the rows before the deletion's sync saves its
    entry: a stamp that matches, without rows, so that `compute_delta` skips the file from
    then on unless the worker still saves its own entry. `SkippedIsEmbedded` also fails
    in the instance of `rag_delete` (put it in place of `LostRowsNeedAFailure`): the
    process dies after a deletion took the rows and before it saves the manifest, with the
    file still there.
12. `MCRagStamp`, `SkippedIsCurrent`: the stamp of a file is taken after its old
    text was embedded.
13. `MCEventThreadPages`, `PagesLoseNothing`: pages of a thread with two runs are
    ordered by the sequence inside a run, and cut by the global id. The first page
    ends with a row of the second run whose id is above those of rows it left out,
    and these never come.
14. `MCEventFirstRow`, `FirstRowCatchesUp`: the row of the run is read before the
    connection is accepted. A run that ends in between is shown with its old status
    beside all its events, and nothing corrects it.
15. `MCEventGone`, `GoneIsForgotten`: a socket notices that its client has gone only
    by sending; after the last event of its run it is subscribed until the server
    stops.
16. `MCThreadsKept`, `WaitingKeepsCheckpoint`: archiving purges the checkpoint of a
    thread whose run waits for an approval, and from which the run would resume.
    `NoCompactionUnderRun`: the compaction after a run works
    when slot and thread are free again, so it may shorten the checkpoint under the
    next run.
17. `MCThreadsKept`, `ArchivedIsPurged`: the purge follows the commit of the
    archive. After a crash in between nobody comes back to the thread, and a run still
    going on stores its checkpoint again (`docs/runtime-design.md`, line 87: the
    checkpoint is purged when a thread is archived). When the purge of one thread raises in
    the cleaner, the rest of its batch, archived already, keeps its checkpoints: the loop
    over the batch is left (`thread_lifecycle.py:64`), and the next batch lists ended
    threads only.
18. `MCToolsKept`. `KeyIsPostedOnce`: a write whose key belongs to one that succeeded is
    sent again. `HttpCapability.register` (`tools/capability/http.py:38`) gives the specification
    of `http_post` no `idempotency_key_field`, so that no end is stored with a key and the
    lookup finds nothing (`docs/agent-learning-guide.md`, lines 393 and 404, and the script
    `runtime_durability_v1.py`, line 252, say that the key removes duplicates).
    `StartsAreNamed`: after an approval the mapper takes the id of a start
    from the calls of the `approval_required`, by the name of the tool, even if the
    event has an id of its own; with two calls of one tool a start is stored under
    another call's id, and the success of one as the failure of its neighbour.
    `BlockedIsFinal`: a crash makes
    the engine forget a rejection whose blocked record is stored, and the run may be
    approved after all. `WritesAreRecorded`: the start of a tool that raised without an
    event is known to its stream only, and lost with it at a pause. `NoneMeansNone`: a
    request that failed with an exception is recorded as no side effect, though the
    server may have acted.
19. `MCMemoryKept`. `ProofIsTrue`: the writer or another handler writes back the row it
    read before a deletion, and the text is there again, behind the proof.
    `DeletedStaysOut`: confirming an item that was deleted meanwhile makes it active.
20. `MCMemoryKept`. `NoRivals`: a confirmed contradiction leaves both items active.
    `PendingReplacesNothing`: a candidate that waits for a confirmation supersedes the
    old item at once. `DeletionIsProven`: the deletion of an item whose thread has
    ended fails after the row became a tombstone, before the proof is stored.
21. `MCMcpKept`. `ConnectedHasSession`: the loop closes the connection outside the lock;
    a task that connects meanwhile is left connected without a session, the loop ends
    content, and calls fail at their assertion (`sdk_client.py:322`) until a reconnection is
    forced. `RemovedIsClosed`: a
    connection that failed half-way, or one of a client that is not connected, is not
    closed by `aclose`.
22. `MCMcpGivesUp`, `Recovers`: with two failures at once the count passes the maximum
    and the health check ends; nothing reconnects later. `MCMcpForced`,
    `AlwaysRecovers`: a forced reconnection that fails leaves neither health check nor
    loop.

23. `MCContextKept`. `PromptStays`: the system prompt comes with the first run only and is
    summarized or dropped like any old message, after which no run has it
    (`docs/context-manager-design.md`, line 132: the safety constraints of the system are
    always kept). `RecalledIsThere`: a memory message is left out of the input because the
    checkpoint has it, and the checkpoint is then shrunk.
24. `MCContextKept`, `ToolsHaveCalls`: dropping the oldest messages one by one takes a call
    and leaves its result.
25. A checkpoint that fills the budget leaves a remainder of zero, which
    `pack_graph_messages` takes for no limit (`packing.py:59`); `FitsOrBare` says so.
    `MCContextKept`, `MemoryGoesFirst`: the memory message begins with `[MemoryContext]`,
    which `packing._kind` does not know, so it is never trimmed and the snippets go instead
    (the comment at `packing.py:95` says memory first; the design document, line 137, says
    memory last).
26. `MCContextKept`, `CachedIsShown`: the cache by which `search_docs` leaves out what was
    shown already names the hits, though packing cut or dropped their message.
27. `MCContextKept`, `AssemblySucceeds`: the compaction after a run removes messages that
    the next run, which is shrinking the checkpoint, then removes again; that run fails. So
    does a run that is shrinking the checkpoint while its thread is archived: `archive_thread`
    (`server.py:551`) purges the checkpoint whether there is a run or not.
28. `MCContextKept`, `StartsFittingOrBare`: when that compaction writes after the last read
    of the next run, the run starts with a checkpoint it did not measure. The summary has its
    headings even when it stands for a short turn, so that the graph may begin over the
    budget although there are messages left to drop.
29. `MCMcpKept`, `NoComeback`: `add_server` registers the client and then lists its
    resources and prompts (`runtime.py:234` to `241`). A removal during the first listing pops
    and closes the client; that listing fails, which is swallowed, and the second begins with
    `connect()`: the client that is in no runtime any more dials again, with a health check, and
    nobody will close it (the docstring at `runtime.py:249`: disconnect and remove). A call that
    is connecting when the client is removed does the same; with `Caller = {}` the listing alone
    is left.

The liveness properties that hold are stated for the cases the code does handle,
so that together with the runs above they draw the line exactly:
`CancelOfGraphConverges` for a cancellation that meets a running graph,
`RunSettles` for a run that neither asked nor was cancelled.

## 7. Proofs

`ExecutionEngineProofs` proves, for every finite set of objects and all other
constants allowed by `EngineAssumption`:

| Theorem | Statement |
|---|---|
| `EngineInvariant` | `Spec => []EngineInv` |
| `TypeCorrectness` | `Spec => []TypeOK` |
| `SlotsAreAccountedFor` | `Spec => []SlotAccounting` |
| `OneActiveRun` | `Spec => []OneActiveRunPerThread` |
| `Implementation` | `Spec => ImplementsRunLifecycle` |
| `EvidenceComesFirst` | `Spec => []TerminalEvidence` |
| `DangerIsConsented` | `Spec => []DangerNeedsConsent` |
| `ActiveRunsAreManaged` | `KeyedRun = {} => (Spec => []ActiveRunIsManaged)` |
| `RejectionIsFinal` | `KeyedRun = {} => (Spec => []RejectionHolds)` |
| `CompletionIsAnswered` | `KeyedRun = {} => (Spec => []CompletedAfterAnswer)` |

Beside `KeyedRun = {}` in the last three, which says that no request carries an idempotency
key, the only assumption is `EngineAssumption` (a finite set of objects, a thread for
each request, the two absence values outside their sets, at least one slot). TLC
evaluates it in every run of the engine.

The argument. `SlotAccounting` alone is not inductive: when a `finally` clause
returns a slot one must know that its object held it, and when a new object or a
continuation takes one that it held none. `EngineInv` adds

- `SlotSum`: free plus held slots are the maximum;
- `HeldByTask`: a task that has not reached `finally` holds a slot, one in
  `_finalize_memory` holds none;
- `TaskHasRun`, `RegistryRun`: a task and an entry of `_runs` know their run;
- `FinalizingIsOver`: a task in `_finalize_memory` belongs to a run that is over
  or that one of the queued commits ends. Without it a verdict could reach an
  object in finalisation and give it a slot, which breaks `HeldByTask`.
  `TerminalStays` (no transition leaves a terminal status) makes it inductive.

The step from `EngineInv` to `EngineInv'` has one lemma per action; those that
leave through `finally` share `LeaveStep`, those that suspend share `ObjectStep`,
and counting is confined to `SameSlots`, `TakeSlot` and `GiveSlot`.

`OneActiveRun` needs only types: a run becomes active in `CreateRun` alone, whose
guard excludes another, because no transition leads from a terminal or absent
status to an active one (`ActiveWasActive`). `Implementation` maps `CreateRun`
to `Begin`, the `Commit` of a terminal status to `End` and every other step to
a stutter; it uses `OneActiveRunPerThread`, so that the run chosen as the busy
one of a thread is the one that ends.

The five other theorems have an invariant each, on top of `EngineInv`:

- `EvidenceInv`: `TerminalEvidence` says nothing of the queue, and a commit would break
  it. `Proven` says that each terminal status in the queue is preceded, in the store or in
  the queue, by its events. One lemma per helper (`Leave`, `LeaveWith`, `Fail`).
- `ReachInv`: an entry is removed only when its run is over (`FinalizingIsOver` again), and
  `EndRecovery` comes when each run that waits has one. A replayed request removes the
  entry of a live run, hence no keys.
- `ConsentInv`: `approved` is set only with its event in the queue or in the store
  (`ConsentIsStored`); a task past its first pause has a verdict (`Verdicts`); and a task
  before its first pause belongs to a run that does not wait and has no other object
  (`FirstDoesNotWait`, `FirstIsAlone`), so that no rejection can wake it. This one holds
  with keys too.
- `RejectInv`: a run has one object (`OneObjectPerRun`), and while it runs dangerously it
  does not wait for a verdict, nor does a queued commit make it wait
  (`DangerDoesNotWait`), so that no rejection is accepted then.
- `AnswerInv`: the first task of a run has not asked and does not complete it
  (`FirstDidNotAsk`), a rejection is stored with what it blocked (`RejectionIsStored`). With
  keys the object of a replayed request has no payload to read the blocked calls from.

`RagReloadProofs` proves, for all files, bounds and settings that
`RagAssumption` allows:

| Theorem | Statement |
|---|---|
| `TypeCorrectness` | `Spec => []TypeOK` |
| `KeywordFreshness` | `WatcherOnly` implies `Spec => []KeywordFresh` |
| `SkippedFilesAreEmbedded` | `NoDeletion` implies `Spec => []SkippedIsEmbedded` |
| `EveryRowHasItsEntry` | `NoDeletion` implies `Spec => []OrphansNeedAFailure` |
| `DeletedStopsBeingServed` | `OneDeletion` implies `Spec => []DeletedIsNotServed` |
| `DeletedRowsAreGone` | `OneDeletion` implies `Spec => []DeletedHasNoRows` |
| `StampsSurviveDeletions` | `OneDeletion` implies `Spec => []LostRowsNeedAFailure` |

`WatcherOnly` says that clients make no requests and that no file is edited while
the process starts, as in `rag_watch`. The second part is needed (6.10). The first
excludes two reloads at once, and 6.4 shows what two can do. Edits at any other
time, failures and crashes are unrestricted. `KeywordFresh` speaks of one moment and is not inductive.
`KeywordInv` adds `Phases` (only the watcher reloads, only the worker and the
startup sync, and the startup is alone), `NoPrintAhead` (no fingerprint is newer
than the last write, so that a write makes every fingerprint of its file
worthless) and `Vouched`: each fingerprint, the stored one and the one the reload
carries, describes the chunks it lies, or is about to lie, beside. The order of
`reload` (fingerprint, load, replace, store) is what makes `Vouched` inductive.
The steps of a sync are out of its view (`SameView`, `ViewStep`).

`NoDeletion` says that clients do not delete; uploads, reloads, the watcher, edits at any
time, failures and crashes are unrestricted. A deletion writes the manifest and the
collection beside the worker, and with it both statements can fail
(6.11). `IndexInv` follows one sync at a time (`OneSyncs`: the worker, or the startup
before the process serves). Between two syncs every entry of the manifest is outdated or has its
rows, and without failures every row has its entry (`RowsHold`). During one
(`SyncHolds`) the copy of the manifest in memory has the rows of all its entries; the
rows about to go belong to files that are embedded again or are gone, so that the
manifest on disk, if the sync dies now, makes the next one embed them; and a row is one of
an entry of the copy, about to go, or about to get its entry. `NoneIsNewer` is what an
edit in the middle needs: no stamp, stored or held, is newer than the last write, so that
an outdated entry never becomes current by an edit.

`OneDeletion` says that clients delete, one after another, and that nobody else reloads, as
in `rag_delete`; edits are unrestricted, and so are failures and crashes as far as the
properties do not except them. The first two statements are false for two deletions at once, as TLC
shows with two handlers: the reload of one may have loaded the document the other
unlinks, and both write the manifest from copies. `ServedInv` is the argument about the
chunks: whoever serves a document that is gone has yet to replace them, and what it
loaded, or will load, is without the document (`NotServed`); a deletion that fails before
that answers with an error. `DeletionInv` is the argument about the rows: the manifest
names every row whenever a deletion begins (`NoRowsLeft`), so that the rows it drops are
all rows of its file, and no sync embeds a file that is not there (`DeletionHolds`). `StampInv`
is the argument about the stamps, above `DeletionInv`: an entry that matches its file has its
rows, except between `PurgeVectors` and `SaveManifest` of a deletion of that file
(`StampsHold`); what the deletion is going to save is the manifest on disk without that
entry, for nobody else wrote it meanwhile, and what a sync is going to save has its rows
(`StampHolds`). `NoneIsNewer` is needed again for edits in the middle.

`EventStreamProofs` proves, for any runs, writers, sockets, pagers and numbers of events:

| Theorem | Statement |
|---|---|
| `TypeCorrectness` | `Spec => []TypeOK` |
| `NoEventIsMissed` | `Spec => []NothingMissed` |
| `TheRowCatchesUp` | `Spec => []RowCatchesUp` |
| `PagesReadAll` | `OfOneRun` implies `Spec => PagesAreComplete` |

`NothingMissed` excuses an event whose writer
is in `_notify`, which is not inductive: the writer might have passed this socket
by. `StreamInv` is sharper: the writer has not copied the list of subscribers yet,
or this socket is among those it has still to call (`WillTell`). That needs
`SubscribedOK`, a socket past `Subscribe` is in the list until it leaves, which is
where the order of `subscribe` and `list_run_events` enters.

For `RowCatchesUp`: a socket that reads the row of its run before the row is written shows
an old status, and what corrects it is an event on its way: in its queue, or held by a
writer that will hand it over (`OnItsWay`). `RowInv` says so of every socket that waits
and was answered, unless the event that has to follow the change is not stored yet
(`unannounced`). No writer loses an event that is on its way (`WaysAreKept`); the event
that a client takes from its queue is the one that makes it read the row again.

For `PagesAreComplete`: `OfOneRun` says that each query selects the events of one run, as
`GET /v1/runs/{id}/events` does. For the pages of a thread with two runs the property is
false (6.13), so the assumption is needed. The cursor is an id and the order of the query
is by sequence; what makes them agree is `SequencesAscend`: within a run a greater id has
a greater sequence, because `append_event` takes the next one under the lock
(`LatestIsGreatest`, `InsertKeepsTable`). Hence the query lists the ids of a run in ascending order
(`RunIsListed`), and a page is the beginning of what is above the cursor, all of it unless a
row more was found (`PageBegins`). Put after what was read before, it is again the listing
of all up to the new cursor (`PageContinues`), since a set of ids has one ascending
listing (`OneListing`). `Listed` is a choice, and that there is something to choose is
proved: the place of an id in its set, a cardinality, is a bijection
(`RanksAreTaken`, `QueryLists`).

`MemoryItemsProofs` proves, for any texts, relations among them, handlers and numbers
of items that `MemoryAssumption` allows:

| Theorem | Statement |
|---|---|
| `TypeCorrectness` | `Spec => []TypeOK` |
| `ConfirmationActivates` | `Spec => []OnlyConfirmActivates` |
| `DeletionIsFinal` | `Spec => []DeletedTextIsGone` |
| `CapacityIsKept` | `Spec => []CapacityHolds` |

The writer and the handlers write back whole rows that they read some steps before, so
what a row may become depends on the copies in flight. `WellFormed` says where these
come from: a copy in hand is a row of an item that was inserted (`CopiesAreRows`,
`ItemsAreInserted`), and the writer inserts only where there is room (`RoomIsLeft`).
`OutStaysOut` carries `OnlyConfirmActivates` over the copies: an item that was out, and
that nobody asked to confirm, is out in its row and in every copy of it.
`DeletedIsTombstone` does the same for a tombstone, from the moment of the deletion and
not only from its proof, for the proof is stored two steps later. Both have one
lemma per kind of write. `CapacityHolds` speaks of the moment the writer is done;
`CapacityInv` carries it through the evictions one by one: the live items that the writer
does not mean to evict (`Staying`) are few enough, or none of them may be evicted
(`EnoughRoom`), from the choice of the victims to the end. Handlers may delete
meanwhile, which only makes them fewer; a confirmation could bring an item back, and
that is what the property excuses (`NoneComesBack` uses `OutStaysOut`).

`ContextPackProofs` proves, for all budgets, sizes and numbers of turns that
`ContextAssumption` allows:

| Theorem | Statement |
|---|---|
| `TypeCorrectness` | `Spec => []TypeOK` |
| `AssemblyFailsOnlyWhenCrossed` | `Spec => FailsOnlyWhenCrossed` |
| `SummariesKeepPairs` | `Spec => []OnlyDroppingSplits` |
| `GraphsFitOrAreBare` | `Spec => FitsOrBare` |

For the second, the invariant `HeldIsThere` says that what a run holds for its next removal is in the
checkpoint, unless a compaction wrote, or the thread was archived, since it was read. It needs no types of messages,
only that a run is a record (`RunShape`). `ReadStep` and `WriteStep` are the two kinds of
step; that each write is followed by a read before the next one is what carries it.

The others stand on `MemInv`, which has three parts. `TypeInv` is stronger than `TypeOK`: messages that speak
of a turn name one. `SameIds`: a number names one message wherever it is held, in
the checkpoint, by the run or by a compaction that read some time ago. The checkpoint
replaces and removes by number, and a compaction writes after others did. `Kept`: of every
turn that was answered since the last purge the user's message, or some summary, is in the
checkpoint, and a run carries its own turn in its input and then in its graph. That is less than
a promise about old turns, which the code does not give; it says that something lasts, and the fit
needs that. The step that matters is `UpdateTells`: compactions
add a summary; dropping puts back every user's message and summary,
which `_drop_oldest_trimable` spares; `PackKeeps` is the counterpart for the input, whose
packing takes away memory and snippets only.

`OnlyDroppingSplits` is not inductive: a split keeps a call beside its result only because
nobody speaks between the two and a split is at what a user said. `Paired` says so.
It holds of the graph's messages too, which overwrite the checkpoint. And a write must
remove what its author saw at the place where it saw it. `ReadIsThere` says that
what a run holds is the checkpoint as it is, and that what a compaction holds is
what the checkpoint (or the graph that will overwrite it) begins with, unless it can
no longer be removed, so that the write fails. `WriteTakesTheFirst` keeps it so: every
write takes away the first message, which the other one holds, and its number is not
given again while anybody holds it.

`FitsOrBare` takes all of these, and `FitInv`: a run that measured the checkpoint, or is about
to, has left one that fits or in which nothing may be dropped (`Settled`), unless a
compaction or an archive crossed it. `DroppedSuffices` is the argument about the loop of
`pack_checkpoint_for_budget`: it may also stop at a single message, and then nothing is
left to drop only if that message is a user's or a summary. It is, since a checkpoint that
is not empty belongs to an answered turn (`StoredIsAnswered` with `Kept`). The same
argument shows that `_truncate_oldest_non_user` finds nothing to truncate. The second half is
`PackFits`, about the four steps of `pack_graph_messages`, and that the characters of
joined messages add up (`CharsConcat`). The proof showed that the exception is needed: a
first version of the property had none, and held on an instance only because
a summary there was shorter than what it replaced (6.28).

`ThreadLifecycleProofs` proves, for any finite set of threads and all other constants that
`LifecycleAssumption` allows:

| Theorem | Statement |
|---|---|
| `TypeCorrectness` | `Spec => []TypeOK` |
| `ForwardOnly` | `Spec => ThreadsMoveForward` |
| `PurgeAfterArchive` | `Spec => OnlyArchivedIsPurged` |
| `LeftoversAreExcused` | `Spec => []LeftoverHasACause` |
| `RecentTurnsAreKept` | `Spec => RecentTurnsStay` |

`Moves` lists what a step can do to the row of a thread; with `OpenHasNoEnd` (a thread that
was not closed has no time of its end) it gives the first two parts of the argument: rows
move forward, and an archived row stays. `PurgedIsArchived` says that what the cleaner
and the handlers still have to purge was archived, which is the order of the two
commits in `archive_thread_and_purge_checkpoint` and in `run_once`. `PassesAreDone` says that
the cleaner begins a pass with nothing left to purge; without it a new batch could
replace one that is not purged yet, and rows would be left without a cause.

`RecentTurnsStay` has an invariant of its own, `TurnInv`. A compaction writes long after it
read, and removes what it read only if all of it is still there. `PrefixesFit` says that
then none of it is recent (`MayGo`), neither in the checkpoint nor in what the graph of a run
holds, since a superstep stores that over the checkpoint. `TurnsKnown` adds that the graph
holds all that is stored, and that a run's own turn is new. The lemmas about
`_split_messages_for_compaction` carry it: more turns only make more of them old
(`PrefixGrows`), and when another compaction takes some of the old turns, the rest of them
stay old (`PrefixShrinks`), for the turns after the last old one are enough
and none of them goes. `TurnsMove` lists what a step can do to the turns of a thread.

`ToolLoopProofs` proves every invariant the runs of `ToolLoop` check, for any calls, policy
rules, keys and libraries and any number of calls and crashes; `ToolAssumption` is the only
assumption:

| Theorem | Statement |
|---|---|
| `TypeCorrectness` | `Spec => []TypeOK` |
| `GateHolding` | `Spec => []GateHolds` |
| `BlockedRests` | `Spec => []BlockedStaysBlocked` |
| `LedgerIsTrue` | `Spec => []LedgerTells` |

`GateHolds` speaks of the calls that started, which may be of any earlier
round, while the gate looks at the last one. `GateInv` adds what connects them:
`RoundsGrow` and `StartedIsMade` (a new batch has a round of its own, so that it never
joins a call that has started), `BatchIsCleared` (while tools run the whole last batch
passed `evaluate_tool_calls` and `tool_allowed`) and `ConfirmationIsEarned`
(`confirm_dangerous` in the configuration comes from the request or from a stored
approval, and so does the verdict from which a resumption sets it). A resumption that went
to the tools and not through the gate again would break `BatchIsCleared`: that is
the mutant of the property.

The other two stand on each other, each with an invariant that contains the one before:

- `BlockInv`: a blocked call rests because the run is over, or was rejected and will be
  (`BlockingHolds`), and a run that is rejected does not get back to the tools, because
  `asked` still holds the very batch the gate sees again (`AskedOnce`).
- `LifeInv`: the events of a call are read in the order in which the graph emitted them, and
  no later than the next answer of the LLM (`EventsInOrder`); an end is stored under the
  id of its own call (`OwnIds`), with a library that sends no ids because the calls of one
  batch are told apart by their tools (`WellNamed`); and no end has a key, so that nothing
  is answered from the store (`Keyless`).
- `LedgerInv`: each start and each end is stored once (`StoredOnce`); no start or end is lost
  while the run is not dead (`NoneIsLost`): it is stored or still queued, unless the call
  raised and the library tells nothing of that; and the ledger, apart from what was
  blocked, has one record for each stored end of an `http_post` (`Reports`), except for
  a call of an earlier stream that the end of the run closes (`LostWithStream`).

Two lemmas carry the last step. `StreamEnds` looks for calls without an end only if fewer
ends than starts are stored: where the numbers agree, each start has its end, because
the ends belong to different starts (`EnoughEnds`). And a resumption begins with an empty
mapper: what it forgets belongs to rounds before the one that was asked about
(`PauseOvertakes`), which is the excuse of `LedgerTells`.

`McpClientProofs` proves `RemovalHolds`: `Spec => []RemovedRests`, for any callers,
connections, retries, failures and commands that `McpAssumption` allows. The invariant adds
`LockIsHeld`: whoever connects, and a handler that closes, holds `_connect_lock`, and nobody
else holds it. A removal that finds the lock free therefore finds nobody connecting, and
the handler that ends gives back a lock that is its own. `UsersCall` and `NewIsAdded` keep
the callers, the adding handler and the first connection out of the closing, and `NoListing` says
that the adding handler has nothing left to list, or its next listing would connect. That a removed client is at rest
needs `_stop_health_check` and `_cancel_reconnect` to come first, as they do.
It also proves the types (`TypeCorrectness`) and, from them, `ConnectedIsInSession`:
`Spec => []SessionIsThere`. Of the types it takes that a session is a connection, hence not
`None`, where `connect()` succeeds; every other step that gives up the session clears
`_connected` with it, or is the loop's, which the property excepts. That the connection
handed out exists is where well-foundedness of `<` is used: `Free` has a least element.

Proved only without idempotency keys: the last three of the engine's invariants. With
keys `ActiveRunIsManaged` is false (6.7), and the other two are not claimed.

Only model-checked: everything about liveness, which is out of the prover's reach, and
`LastTurnsAreThere`.

## 8. Not modelled

The components marked `not_modelled` in `PROJECT.json`, with reasons there. Beside what
is modelled:

- engine and store: database errors, event payloads (and with them the stale
  `interrupt_payload` of a second pause), migrations, and the record of RAG audit
  events, whose run two first requests at once would both create (`server.py:462`);
- `rag/`: the reset for another embedding model and `RAG_REBUILD_INDEX`, set between two
  starts; two handlers rewriting `docs_manifest.json` at once; a file that lives only
  while a reload runs; collisions of fingerprints or ids; edits in the middle of one
  pass over the files; what retrieval makes of the chunks;
- threads: the events a purge stores, the read-only `checkpoint_reader.py`, the text of
  a compaction's summary;
- tools: every tool but `http_post` is a call without a side effect; retries of
  read-only tools, credentials, the scope audits of the policy;
- stream mapper: deltas, usage, policy events, the final answer;
- memory: extraction, scores, summaries and recall; items of one session, their
  histories and access counts;
- MCP: what the listings return and the stores that cache it, the listing of tools and the two
  listings at once when the process starts, before a request can remove a client, the mock client, two additions of one
  server name at once (`server.py:309`), and the shutdown, in which one `aclose` that raises
  leaves the remaining clients open;
- context: the choice of route and skills, the decision to retrieve, `preview`, the
  blocks and events that describe a context, and the texts themselves.

Timeline, projections, contracts and configuration are sequential
transformations of plain data without state of their own, and together with the scripts of
evaluation and verification they are by far the largest part of the repository; what
could go wrong in them is a matter of unit tests.

## 9. Plan

1. Done: `RunState`, `RunLifecycle`, `ExecutionEngine`, their runs, the slot,
   active-run and refinement theorems; `RagReload`, its runs, its types and the
   freshness of the keyword corpus; `EventStream`, its run and the theorem about
   subscriptions.
2. Done: `ThreadLifecycle`, `ToolLoop`, `McpClient` with their runs; `MemoryItems` with
   its run and its theorems; `ContextPack` with its run and its theorems; five
   theorems about `ThreadLifecycle` and three about `McpClient`. Every invariant that the
   runs of `ToolLoop` and `MemoryItems` check is proved, and every safety property of the
   run of `ThreadLifecycle`.
3. Done: the types and every safety property of the run of `EventStream`, the pages for
   queries of one run. Every property of the run of `ContextPack` but `LastTurnsAreThere`.
4. Done: every safety invariant of the engine that a run checks is proved, three of them
   for requests without keys.
5. Done: the vector index without deletions, and deletions one at a time. Left:
   `docs_manifest.json` with two handlers.
6. The fold of side-effect statuses (`runtime/side_effects.py`) as an operator over the
   ledger of `ToolLoop`.
