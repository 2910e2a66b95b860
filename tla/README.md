# A TLA+ verification of Casparian Flow

Casparian Flow finds files (Scout), runs parser plugins over them and writes the
results to sinks. Its guarantees are carried by a job queue in SQLite, a
**Sentinel** that hands jobs to **workers** over ZeroMQ, the parser processes and
sinks the workers use, and the programs around them that start jobs: the CLI, the
terminal interface and the MCP server. This directory models these parts, checks
them with TLC on small instances, and proves with TLAPS what matters most about
most of them, for every value of the constants.

## 1. Inventory

### What is modelled

| Component | State | Operations | Correct when |
|---|---|---|---|
| Job queue (`casparian_state_store/src/queue.rs`) | rows of `cf_processing_queue` (status, lease token, owner, retry count, schedule), dead letters, parser health, run status, materializations | enqueue, lease, set lease, ack, complete/fail/abort/defer under a token, unconditional defer, cancel, expire, retry, dead-letter, replay, pause/resume | one lease has one outcome; a running row names its lease; retries are bounded |
| Sentinel reactor (`casparian_sentinel/src/sentinel.rs`, `run`) | registry of workers with their tracked job, pending plans, pending cancels, restart grace, seen and reconciled workers | one handler per message, control request and timer | no job is lost or run under a forgotten lease |
| Database thread (`sqlite_executor.rs`) | a channel of 256 closures | runs closures one at a time | FIFO; a crash keeps a prefix of a closure's statements |
| Worker (`casparian_worker/src/worker.rs`) | `active_jobs`, result channel, one job thread (`MAX_CONCURRENT_JOBS` is 1) | IDENTIFY, HEARTBEAT, DISPATCH, ABORT, run, CONCLUDE, reap, shut down | every accepted lease is concluded; what is reported as aborted did not finish committing |
| Parser processes (`bridge.rs`, `shim/bridge_shim.py`, `native_runtime.rs`, `runtime.rs`) | socket, pipes and control channel, position of host and guest, batches read | connect, publish, log, error, metrics, close; accept, read header and body, wait, kill | an output is taken whole or not at all; nobody runs on; the run ends |
| Sinks (`casparian_sinks/src/lib.rs`, `casparian_sinks_duckdb/src/lib.rs`, `casparian_db/src/lock.rs`) | temporary and final files, stage and destination tables, database locks | split and check quarantine, create, init, prepare, guard, commit, checkpoint, rollback, drop | final files are whole; success is complete; a failed group publishes nothing |
| Parser registry and materializations (`state_store.rs`, `plugin.rs`, `storage.rs`, `pipeline.rs`, `sentinel.rs`) | manifests, contracts, bundles on disk, sink configuration, recorded keys, jobs | deploy, import in four steps, unpublish, enqueue with skip, dispatch with sink resolution, execute, record | contracts stay; what is skipped was done; native jobs run what was registered |
| Scout (`casparian_scout/src/scanner.rs`, `db.rs`; scan jobs in `sentinel.rs`) | files on disk, `scout_files`, source row, file count, folder cache, scans and their jobs | start, walk, persist a batch, mark deleted, rebuild caches, report, cancel, delete the source | an undisturbed scan leaves the catalog as the disk is; a failed one deletes nothing |
| MCP server (`casparian_mcp`, `api_storage.rs`) | `cf_api_jobs`, `cf_api_approvals`, the tool call being served, the executor's channel, thread and cancel map, the decisions of other servers on the same store | request, decide, cancel, pick up, start, run file by file, complete, fail, expire | life cycles hold; an approval gives a server one job; a queued job is picked up |
| TUI Discover view (`cli/tui/app.rs`, `views/discover.rs`, `views/home.rs`) | what is shown, what is selected, one receiver per background load, scan progress | keys, ticks that poll each receiver in order, answers and refusals | nothing of another workspace is shown; "loading" ends |

### How they interact

The reactor never touches the database. It submits closures and later *drains*
their answers, so what it decides is decided on state that may be stale when it
takes effect. Reactor and worker exchange FIFO messages; heartbeats cross
dispatches, receipts arrive from workers already removed, and a lease can expire
while its worker is executing. The worker's job thread runs a parser process,
splits and checks its rows, and writes them group by group. The CLI inserts jobs
and reads materializations from a process of its own; the MCP server and the TUI
reach the tables through the Control API; scans run in threads of the Sentinel,
the CLI and the TUI over one catalog, without a lock. The hazards:

* interleaving: cancel against dispatch, heartbeat against dispatch, scan against
  scan and against removal of the source, decisions of one approval;
* failure: the Sentinel dies between two autocommitted statements, a worker dies
  holding a job, a parser dies inside a frame, an import dies half way, one of
  several outputs cannot be committed;
* time-outs: lease expiry, stale workers, restart grace, worker shutdown, bridge
  accept and read time-outs, expiry of approvals;
* stale state: answers for another workspace, sinks resolved while parsers are
  deployed, keys computed by two programs;
* limits: retries, circuit breaker, the executor's channel, pipes and sockets,
  quarantine thresholds.

`PROJECT.json` lists each at its line, with the properties that would catch it.

## 2. Modules

| Module | Models |
|---|---|
| `QueueStore` | the queue's tables, as one record, and each SQL statement as an operator from tables to tables |
| `SentinelTasks` | the closures the Sentinel submits, as the sequence of tables after each statement |
| `JobQueue` | the queue under all those tasks in the most hostile environment: an **abstract specification** |
| `Dispatch` | reactor, database thread, pipes, workers, crash and restart: the **detailed specification**, proved to implement `JobQueue` |
| `SinkCommit` | attempts to write a job's outputs, down to inodes, tables and locks |
| `Bridge`, `NativeRuntime` | one run of a Python or a native parser, frame by frame |
| `PluginRun` | their composition in `execute_job_inner`, with the job's cancellation token |
| `Materialize` | publishing parsers, resolving sinks, recording and skipping |
| `Scout` | scans of a source, its catalog and its removal |
| `Lifecycle` | what a table of records with a status column promises: an **abstract specification** |
| `ApiStore` | the tables of API jobs and approvals, statement by statement |
| `McpServer` | the MCP server's two threads over `ApiStore`, shown to implement two instances of `Lifecycle` |
| `TuiDiscover` | the Discover view, its keys, its tick and its background loads |
| `JobQueueProofs`, `DispatchProofs`, `SinkCommitProofs`, `MaterializeProofs`, `ScoutProofs`, `McpServerProofs`, `PluginRunProofs`, `TuiDiscoverProofs` | the theorems |
| `MC...` | bounds, sets and symmetry for TLC |

`JobQueue` extends `SentinelTasks`, which extends `QueueStore`. `Dispatch` extends
`JobQueue`: it has the same `db`, `issued` and `settled`, its own steps change them
by closures of `SentinelTasks`, and the abstract specification stays available to
it as `QueueInit`, `QueueNext` and `QueueSpec`. `PluginRun` instantiates `Bridge` and `NativeRuntime`.

Operators that carry a "Mutant" comment are plausible bugs, used to show that
each property can fail. No specification uses them. The `TypeOK` of `Dispatch`,
`SinkCommit`, `Scout`, `PluginRun` and `TuiDiscover` documents the shape of the
state; those runs check only the deeper properties.

### How state corresponds to the code

* `db` is the database. A token is a UUID, an element of `Token` that no lease
  has had. `due` says that `scheduled_at` has passed. All rows are inserted with
  priority 0, so the order of the queue is the order of ids.
* A closure is a sequence of tables. `Done` is its last element; `Torn` is the set
  of what a crash in the middle can leave.
* `mem` is the Sentinel's memory, all lost in a crash. What pipes had received but
  not handled, or accepted but not delivered, may be lost with it.
* `tasks` is the executor's channel. `Submit` waits for room, as `sync_channel` does.
* `wk[w]` is a worker: idle, running a job, *finished* (the result is in the
  channel) or *sent* (concluded, but still in `active_jobs` until it is reaped).
* `issued`, `settled`, `promoted` and `committed` are history: leases handed out,
  outcomes applied per token, tokens under which some outputs were promoted
  (`write_outputs_grouped` commits one sink URI after the other), and tokens under
  which all were.
* In `SinkCommit` a file is an inode: `by` is its last creator, `writers` those who
  have it open, `mixed` that two wrote into it, `full` that its creator closed it.
  A table is the set of attempts whose rows it holds. Rows are counts: valid,
  quarantined, or a batch without an error column.
* In `Bridge` a message is a header and a body that travel separately, and the
  shim publishes a frame at a time; in `NativeRuntime` control frames and Arrow data are
  two channels, and the parser, any program that speaks the protocol, writes an output
  at a time. `guest.uv` is the process the host spawned, waits for and kills, when that
  is `uv run` and not the interpreter: to kill it leaves the parser alive. How
  large a message is, is settled when the host reads its length (`refuse_size`).
* In `Scout` a file on disk has an identity (inode) and a version (size and mtime);
  a scan is its position, the paths still to be visited, and the entries found but
  not yet written. A batch commits without the rows the table refuses, whose errors the
  code only counts; `lost` has their paths. `missed`, `lost` and `quiet` are history:
  paths edited during a scan, rows refused in it, and scans that nothing disturbed.
* In `Materialize` a publication is a version, a code and a schema per output;
  hashes are injective and tagged by what they hash, so that two hash functions
  over the same columns differ. A job has the tables its parser named (`tables`), and
  a key the table it was computed with, by the Sentinel from the receipt and by the CLI
  from the topic. A job is completed first; then its keys are recorded, a statement
  each, and any of them may fail (`RecordingFails`). `written` is history.
* In `McpServer` each command of the Core thread is a step; `faults` counts lost
  commands and crashes. `others` are the decide calls of other servers on the same
  store, `foreign` the jobs they made. `hung` is an executor whose parser does not
  return.
* In `TuiDiscover` data on the screen is the *question* that fetched it: workspace,
  source, page, filter. A receiver that was dropped silences its thread.

### What is abstracted

* Time. Leases expire, workers go stale, the grace ends, time-outs fire at any
  moment at which the code would look at the clock.
* Payloads. A receipt has one of five statuses; log artifacts, metrics, Arrow
  bytes, drawing and JSON are left out.
* Errors of single statements that the code only logs or counts, except those of
  recording materializations (`Materialize`) and of the rows of a batch (`Scout`).
* Receipts without a lease token and ERR messages: no worker of this repository
  sends them.
* In `Dispatch`, a job's execution is two steps: outputs of some sink URIs are promoted
  (`write_outputs_grouped`, unless the guard sees a cancellation), and the job ends
  (`execute_job`), with all outputs committed if it succeeds; `PluginRun` and
  `SinkCommit` look inside. `execute_job` stands for jobs with at least one output: one
  that has none never reaches the commit guard.
* In `McpServer`, the executors of other servers, and their cancellations of jobs of
  this one, are left out; their decision tools are there.
* In `Materialize`, the write mode of a sink is part of its uri, and an output whose
  rows were all quarantined, which has no artifact, counts as one whose table the
  parser did not name.
* `Materialize` has one parser name and one file, `Scout` one source.
* `TuiDiscover` leaves out the explorer's glob search, the extraction preview and
  the other views, whose loads have the same shape. `app.ingest` is the Ingest mode on
  a tab other than Sources; of `tick`, the polls that concern sources and their data
  are there.

## 3. Properties and runs

| Run | Shows |
|---|---|
| `queue` | `AtMostOneOutcome`, `RunningIsOwned`, `RetriesBounded`, the inductive `LeaseInv` and the types, whatever is duplicated, delayed, lost or cut |
| `calm` | `OutcomeOnItsWay`: with nobody dying, a RUNNING row always has its outcome on its way, across heartbeats, expiry and false stale sweeps |
| `fence` | `CompletedWasCommitted`, `MaterializedWasCommitted`, `AbortedDidNotFinish`, `ImplementsJobQueue`, with two mortal workers, all failures and a cancel |
| `crash` | `ReconcileSparesLiveJobs`, `ImplementsJobQueue`, with the Sentinel crashing inside and between tasks |
| `lease_ends` | `LeaseEnds` (liveness) |
| `sink` | `FilesAreWhole`, `SuccessIsComplete`, `FailedGroupPublishesNothing`, `TablesHoldCommittedRows`, `QuarantineWithinPolicy` |
| `plugin_run` | `OutputsAreWhole`, `ProtocolAgrees`, `GuestsAreReaped`, `RunEnds` (liveness) |
| `materialize` | `ContractsNeverChange`, `NamedSinksAreChecked`, `SkippedWasProcessed`, `NativeRunsItsBundle`, `NamedUpToDateIsSkipped`, with imports cut off, tables named by parsers and keys recorded one by one |
| `up_to_date` | violated: the finding below |
| `scout` | `QuietScanAgrees`, `DeletedWasMissing`, `RemovedLeavesNothing`, `JobsTellTheOutcome` |
| `mcp` | `OneJobPerApproval`, `TokensAreLive`, `JobsKeepLifecycle` and `ApprovalsDecidedOnce` (refinements), `QueuedIsPickedUp` (liveness) |
| `tui` | `WorkspaceIsolation`, `LoadingEnds` (liveness) |

Deadlock checking is off: every instance stops when its jobs have ended and its
bounds are used up.

### The finding

`up_to_date`: *Check materializations → skip already-processed* (ARCHITECTURE.md:182).
For the default sink the CLI puts the content hash of the manifest's outputs into
the key (SHA-256), the Sentinel the `schema_hash` of the sink's schema (blake3).
The keys never match, and a file that is up to date is processed by every run.
With a sink named for every output, and a parser that names no table, the keys agree,
which is `NamedUpToDateIsSkipped`.

### Known deviations without a run

These were met while modelling. The models have the behaviour; the properties are
stated so that they say what the code does keep.

Job engine
* A row cancelled while DISPATCHING becomes ABORTED, but no ABORT is sent and its
  plan is still delivered (`queue.rs:2153`; ARCHITECTURE.md, "Cancel means stop").
* *Aborted job cannot commit outputs* (ARCHITECTURE.md:139): sink URIs are committed one
  after the other, with a look at the cancellation before each. A job cancelled
  between two of them is ABORTED with the outputs of the first in place
  (`worker.rs:1862-1893`, `1790-1797`), and so may be one whose worker gives up waiting
  for it while shutting down. What holds is `AbortedDidNotFinish`.
* A plan that finds its worker busy or gone calls `defer_job`, which compares
  neither status nor token: a job cancelled meanwhile is QUEUED again.
* `update_pipeline_run_status` does not count DISPATCHING as active: a run can be
  `completed` while one of its jobs is being dispatched (specs/pipelines.md:237).
* An Idle heartbeat that crosses a DISPATCH lets a second plan replace the tracked
  job; if the worker then dies, the first job stays RUNNING (`sentinel.rs:2715`).
  `calm` and `lease_ends` therefore have no deaths.
* `replay_dead_letter` cut between its two statements can replay a letter twice. A
  stale failure receipt counts for the circuit breaker.

Sinks
* *Staged output is promoted only on success* (ARCHITECTURE.md:138): when a later sink
  URI fails, only its own sinks are rolled back and the outputs of the earlier ones
  stay. What holds is `FailedGroupPublishesNothing`, from the URI being written on.
* When the Parquet writer cannot be made, the temporary file that was just created is
  known neither to `rollback` nor to `Drop` (`casparian_sinks/src/lib.rs:389-407`): an
  empty file stays until the name is written again.
* Temporary and final names contain only output and job id: attempts that overlap
  share them. With `Overlap = TRUE`, `FilesAreWhole` fails.
* Every DuckDB sink locks its database for itself. A job with two items in one
  database, two outputs or one with quarantined rows, locks itself out, on each
  retry (`casparian_sinks_duckdb/src/lib.rs:82`; docs/schema_rfc.md:1596).
* The rollback of a DuckDB sink does not undo a transaction whose CHECKPOINT
  failed; in Append mode the retry adds the rows a second time, as it does after a
  crash between two groups.
* The quarantine file of an earlier attempt stays when a later one succeeds
  without bad rows.

Parsers, registry and keys
* The bridge reads the guest's stderr only after the socket, and its stdout never:
  a parser that prints enough blocks for good. Cancellation does not reach a
  native runtime that is reading a stream. `RunEnds` names these states (`Stuck`).
* The host refuses a batch of more than 100 MB and a long error (`bridge.rs:950`, `1094`),
  the shim limits neither in bytes. It then waits in `sendall` while the host waits for
  its standard error, another of the stuck states.
* *Abort kills subprocess* (ARCHITECTURE.md:93): with uv installed the process that is
  killed is `uv run`, and the interpreter below it runs on (`bridge.rs:608-611`,
  `635-716`). `GuestsAreReaped` excepts exactly that.
* A native parser that exits early with status 0 passes; errors other than
  cancellation leave it running.
* The table name is part of a materialization key. When the parser names the table, the
  Sentinel takes that name from the receipt (`sentinel.rs:717`) and the CLI makes
  one from the topic (`pipeline.rs:994`): the file is processed by every run.
* A job is completed before its keys are recorded, and an error there is only logged
  (`sentinel.rs:4583`): the file is processed again.
* The generation of a file is read when its job concludes, not when it is parsed.
* An import that dies between manifest and contracts leaves an ACTIVE parser
  without contracts, and importing it again is refused; importing an installed
  version again replaces its binary before it is refused.

Scout
* A directory the walk could not read makes its files look deleted
  (`scanner.rs:739`; specs/features/streaming_scanner.md:86).
* *Only mark files as deleted if ALL batches were persisted successfully*
  (`scanner.rs:739`): errors of single rows are only counted (`db.rs:1706-1718`), the
  batch counts as persisted, and a file whose row was refused is marked deleted while
  it is on disk. `DeletedWasMissing` names the refused rows.
* A deleted file that reappears unchanged keeps its deleted status. Renames onto a
  tracked path make the batch fail on its UNIQUE constraint in each scan.
* A scan job whose source is removed before its thread starts makes a new source of
  the same path (`sentinel.rs:2333-2383`).

MCP and TUI
* The runners return their outputs as a map, `complete_job` parses a list
  (`jobs/manager.rs:248`): such a job stays running.
* *Human must approve via CLI before the job runs* (`tools/run.rs:4`): the decide tool
  reads `pending` and later drops the answer of `approve` (`approval.rs:323`), so a
  request rejected in between is run, and two servers on one store that both read it as
  pending make a job each. The executor
  ignores its time-out (`jobs/executor.rs:271`), so a parser that hangs keeps all
  queued jobs waiting, and a cancellation that arrives before the token is
  registered does not stop the run. Approvals given outside the MCP server create no job. After a restart, queued rows stay queued.
* Within one workspace, files of an earlier filter, or the error of another source,
  can be applied; a scan of a new folder loads the cache of the old source; when
  the Sentinel cannot be reached a load stays pending until it comes back.

## 4. Bounds

* `queue`: 2 jobs, 2 workers, 2 tokens, 1 parser, 1 run, retry limit 1, breaker at 2.
  Two tokens let a job be leased again while receipts of its first lease are
  still arriving. `MaxFails` and `MaxLetters` cap the counters.
* `Dispatch`: 2 tokens, so 2 leases. `Capacity` 1 or 2 replaces 256, so that
  blocking happens. `MaxStarts` 2 gives one crash. A pipe holds at most one
  IDENTIFY or HEARTBEAT of a worker at a time; `Beating` says whose timers fire and
  is the largest factor of the state space, so `fence` goes without heartbeats and
  with two workers, `calm` and `crash` use one worker with heartbeats.
* `SinkCommit`: an output in files and one in a database, each with its quarantine:
  four items, so that a commit can fail with items before and after it in another
  group. One valid and up to two bad rows reach both sides of a limit of one row and
  of 50 per cent. Two attempts, since files and tables carry at most the traces of
  the previous one.
* `PluginRun`: 2 outputs of up to 2 batches, a socket of 3 messages and pipes of 1:
  less than a run needs, so every writer can find its channel full. Any batch or error
  may be too large.
* `Materialize`: 3 publications (two codes for one version, two versions, of an output
  each), 2 jobs of which one is dispatched, 2 configurations, a table a parser may
  name, 2 changes of the environment: enough for one change between any two reads of a
  run or of a dispatch, for an import to die and be repeated, and for a run to look
  for the keys a job recorded. A job has two keys where both outputs have a sink of
  their own, so that recording can stop between them.
* `Scout`: 2 paths, 2 inodes, 2 versions, a scan of the Sentinel and one of the CLI,
  batches of up to 2, one trouble (edit, rename, failed read, refused rows, failed batch or
  thread).
* `McpServer`: 2 jobs, 1 approval, 2 files per job, 2 faults, one other server, which
  is enough for both to read the approval as pending.
* `TuiDiscover`: 2 workspaces, 3 sources (one of them new), 2 pages, 2 filters, 2
  keys or outages: a question, a change of what is looked at, and the late answer.

Symmetry is used over tokens, over workers where both may do the same things, over
attempts, and over Scout's paths, inodes and versions; never in a liveness run.

## 5. Fairness

* `Dispatch`: the database thread always takes its next closure (weak); the
  reactor's loop gives each handler its turn, and one that keeps finding a message
  or plan and room in the channel does its work (strong, since room comes and
  goes); a worker's loop never stops and job threads end (weak); a Sentinel that
  went down is started again; a sweep eventually finds a lease that nobody has
  taken up to be expired (strong: leases last 60 seconds and sweeps recur).
  Nothing is assumed of stale cleanup, the end of the grace, timers, users or
  deaths.
* `McpServer`: the thread that serves a call and the executor thread go on (weak), but
  a parser that is running a file may hang at any time (`ExecHangs`, which is not
  forced and from which nothing leads on); `QueuedIsPickedUp` allows for it. Nobody has
  to call or decide anything. `QueuedIsPickedUp` is about a time
  without faults.
* `PluginRun`: host and guest take their next step when they can (weak); a parser
  that may return does so some time (strong: it may hang instead, which `RunEnds`
  allows for).
* `TuiDiscover`: ticks recur and background threads answer or are refused (weak);
  no key has to be pressed. `LoadingEnds` assumes that the Sentinel stays
  reachable, because the view waits for it by design.

## 6. Refinement

* `ImplementsJobQueue` is `QueueSpec`, over the variables `db`, `issued` and `settled`
  that `Dispatch` shares with `JobQueue`; the refinement mapping is the identity on
  them and forgets reactor, pipes, channel and workers. Each closure of `Dispatch` is
  an action of `JobQueue`, each crash inside one is one of its torn outcomes, and
  everything else is a stutter. It carries the theorems about `JobQueue` over to the
  detailed system. Checked by TLC and proved.
* `JobsKeepLifecycle` and `ApprovalsDecidedOnce` are `Lifecycle!Spec` over the status
  columns of `McpServer`'s tables. Checked by TLC and proved.

## 7. What is proved

For all values of the constants that satisfy the modules' assumptions.

`JobQueueProofs` (`StoreAssumption`): `QueueInvariant`, `QueueTypesKept`,
`OutcomesAreFenced`, `RunningRowsAreOwned`, `RetriesAreBounded`.
`AtMostOneOutcome` is not inductive: a state in which a RUNNING row carries a token
that was already settled satisfies it, and the next receipt breaks it. The missing
parts are that a settled token is in no active row (`SettledIsInactive`), that a
queued row carries no token (`QueuedIsUnleased`), that a row's token was issued for
that row's job (`RowTokenIssued`), that no token is issued twice (`TokensUnique`) and
that only issued tokens are settled (`SettledWasIssued`): together `LeaseInv`. The
steps of `Next` fall into two kinds, each with one lemma. A *benign* step leaves
`settled` alone and brings no token into an active row except a fresh one. A
*settling* step applies one outcome under the token of an active row and leaves the
row inactive or without token. `RetriesAreBounded` follows statement by statement:
only `schedule_retry` raises the count, and `RetriesLeft` guards it.

`DispatchProofs` (`StoreAssumption`, `DispatchAssumption`):
`DispatchImplementsJobQueue`, `CompletedWasCommittedAlways`,
`MaterializedWasCommittedAlways`, `AbortedDidNotFinishAlways`,
`ReconcileSparesLiveJobsAlways`, `OutcomeOnItsWayWhileUp`, `OutcomeOnItsWayWhenCalm`,
`DispatchTypeCorrect`. None of the first three outcome properties is inductive: they relate
a row of the database to what a worker did some time ago, and between the two lies a
receipt in a pipe, a closure in the channel, or an unwritten half of a closure. The
inductive invariant has two parts.
* `SystemInv` follows a lease along its way. Mail and closures name leases that were
  issued to the worker they come from or go to; a plan in the Sentinel's memory, an
  order in a pipe and a job on a worker are three *places* of a lease, of which it
  has at most one at a time, and once it left them all it never comes back
  (`PlacesInv`); a receipt that is in a pipe or in the channel is *credible*: success
  names a committed token, and an abort names a lease that is *barren*, which
  means that it has not committed all its outputs (some may be promoted) and nothing is
  left that could still do so.
* `RowsInv` says the same of the rows: `CompletedWasCommitted`,
  `MaterializedWasCommitted`, and that a row aborted under its token names a barren
  lease.

Every step is shown to be an `Advance` (leases, tokens and commits are only added,
and a barren lease stays barren), so that what a receipt says stays true while it
travels, across expiry, restarts and later leases of the same job. What a closure
makes of the rows is then stated once per closure, for every prefix a crash may leave
(`Fate`): a row ends by a credible receipt under its own token, by a cancel, or not at
all. `DispatchImplementsJobQueue` needs only `SystemInv`, because each closure names
leases that were issued.

`ReconcileSparesLiveJobs` and `OutcomeOnItsWay` are about the order of what is said of
a lease. The Sentinel hears of it in one line: the closures of its database thread,
and behind them the messages in the pipe from the lease's worker. `LineInv` says where
in that line a heartbeat may stand that does not name the lease's job: before the
DISPATCH_ACK, and then the row is not RUNNING yet, or behind the CONCLUDE, and then
the worker has the job no more. So when a reconciliation is at the head of the line
and finds the row RUNNING, everything said of the job has been said. `AwaitInv` is the
converse, which holds only while nothing is lost: behind a DISPATCH_ACK, and for a
RUNNING row, there is a CONCLUDE in the line or the worker still has the job. There is
one lemma for each invariant and kind of step (`Quiet`, `Heard`, `Ran`, `Told`, and for
losses `Cut` and `Died`), stated for any line; every action of `Dispatch` is then shown
to be one of these for every lease (`LinesMove`). This needs that only the
DISPATCH_ACK of a lease makes its row RUNNING and that a receipt other than a
rejection always stops it (`TaskStarts`, `ReportStops`).
`OutcomeOnItsWayWhileUp` assumes `[]AllUp` (the Sentinel and all workers are up);
`OutcomeOnItsWayWhenCalm` derives it from the constants of the run `calm`, where
no worker is `Mortal` and `MaxStarts` is 1. With a crash the property is false: a
CONCLUDE may be lost, and the row waits for the reconciliation.

`SinkCommitProofs` (`SinkAssumption`, `NoFileIsNoInode`). However attempts overlap:
`SharedInvariant`, `TablesHoldCommittedRowsAlways`, `QuarantineWithinPolicyAlways`,
`TypeCorrect`. The invariant adds who holds which lock: an attempt that works in a
database has locked it, a stage table has rows only of the attempt that has, and an
attempt that the quarantine policy rejected touches nothing. For attempts one at a
time, which is what the queue's leases give as long as no lease expires under a live
worker (`~Overlap`, a constant and a hypothesis of the theorems, since with overlap
they are false): `FilesAreWholeAlways`, `SuccessIsCompleteAlways`,
`FailedGroupPublishesNothingAlways`. Here the invariant `SerialInv` says of every
temporary file whose it is (an open sink's, one of an attempt that died, or the empty one of
a writer that could not be made), that
final files are closed, and of every item of the last attempt where it is, as a
function of the attempt's phase and group.

`ScoutProofs` (`ScoutAssumption`): `QuietScanAgreesAlways`, `DeletedWasMissingAlways`,
`RemovedLeavesNothingAlways`, `JobsTellTheOutcomeAlways`, `TypeCorrect`. The invariant
dates every row by the scan that saw it last, says of an ended scan that its final
event is the last one in the channel about it, and of a scan that is walking that a
path it has passed is either in the table with its date, in the batch still to be
written, refused by the table (`lost`), or was edited meanwhile. For an undisturbed scan that becomes equality of
table and disk, which marking the missing files completes. What a batch does to the
table is proved by taking the least row at which a claim would fail: the rows of a
batch are a function on an interval, and the renames it begins with a recursive
function over it.

`McpServerProofs` (`McpAssumption`): `McpTypeOK`, `McpOneJobPerApproval`,
`McpLinkAgrees`, `McpCancelledOnce`, `McpTokensAreLive`, `McpJobsKeepLifecycle`,
`McpApprovalsDecidedOnce`. The invariant adds what the two threads know of each
other: a job the executor holds is not queued any more once it was started, an
approval that has a job is no longer pending, the tool call that creates a job works
on an approval that was pending when it was read and for which this server has no
job. Other servers may move an approval on and link jobs of their own at any moment;
what the invariant says of them (`OthersInv`) is that what they are about to link is
a job they made for that approval. The two life-cycle
theorems are refinements: the initial tables map to `Lifecycle!Init`, each step moves
statuses along the edges or not at all.

`MaterializeProofs` (the module's assumptions): `MaterializeTypeOK`,
`MaterializeContracts`, `MaterializeNamedSinks`, `MaterializeSkips`,
`MaterializeNativeBundle`, `MaterializeUpToDate`. The invariant says that a registry has one row per code
and one native row per version, that bundles on disk are those of the registered
version or of an import under way, that jobs carry an artifact that was registered
and sinks resolved for it, that what a job produced was written, and that every
recorded key stands for a job that is completed. The converse is what skipping rests on
(`KeysComplete`): a job whose recording ended has all its keys on record, those of
named sinks without rows included; one whose recording failed is not called done. When
the parser named no table, the table of each key is the one of the topic, whether it
came from the receipt or was made up by the Sentinel (`NamedKeys`). A run's named targets are the keys of the sinks it
resolved with the contracts it saw (`RunAgrees`), and with no default sink to expand
both programs resolve the configured topics only; so under the same configuration
and contracts a run computes nothing but recorded keys and has at least one, which is
`NamedUpToDateIsSkipped`.

`PluginRunProofs` (`BoundsAreNatural`, `NoneIsNothing`): `RunInvariant`,
`WholeOutputs`, `FramesAgree`, `NoGuestRunsOn`. Parser and host do not look at each
other: the host judges a run by the messages it has read, and those may be cut off
anywhere, in the parser's own buffer, the socket or the pipe. The invariant gives each
side a *position*: how many outputs are complete, and how far the next one is. Every
message leads from one position to another, and the messages under way (the header
already read, the socket or pipe, what a living parser still has to send) form a chain
from the position of the host to that of the parser, whatever the sizes of the
buffers (`Flow`). A death cuts the chain off but does not break it. That
`read_arrow_batches` never meets a frame out of order is then one step of the chain; the
metrics stand at its end, so a run that has them has all outputs. A refusal for size
ends the reading, so it needs no place in the chain. A host that has returned leaves a
parser running only if it was cancelled and what it killed was uv (`LeftRunning`): on
every other way out it has waited for the end of the standard error, which the parser
holds open, or for a success of the process. For the native
runtime the Arrow pieces form the chain, and the control lines, which overtake them
on a channel of their own, are tied to it by one more fact (`Lines`): an
`output_end` that is on its way stands behind its own stream, in order, and once
only. So an output that `read_arrow_stream` took from a truncated pipe has no
`output_end` to come, and is never pushed.

`TuiDiscoverProofs` (`DiscoverAssumption`, `NoneIsNothing`):
`WorkspaceIsolationAlways`, `TypeCorrect`. `WorkspaceIsolation` alone is not
inductive: what is shown next is what a receiver delivers. The invariant (`AppInv`)
is a type that depends on the active workspace. The view (`Discovers`) holds only
origins of that workspace. The receivers of sources, searches, caches and folders,
which a switch drops, carry only questions about it; those of files, tags and scans,
which outlive a switch, may carry questions about any, and their answers have to pass
the comparison in the poll before they are shown. A tick is a chain of operators on
the `App` record, each with a lemma that it keeps a good record good; a switch is the
one step that moves a good record from one workspace to another.

## 8. What is not proved

* Liveness (`LeaseEnds`, `QueuedIsPickedUp`, `RunEnds`, `LoadingEnds`), which is out of
  the prover's reach.
* The types of `PluginRun`: its `TypeOK` is documentation only, no run lists it and no
  theorem states it. The shapes its proofs need are conjuncts of the invariant.

## 9. What is not modelled, and why

Most of the repository's 142 thousand lines are user interface, data conversion and
display: the drawing code and snapshot states of the TUI (over ten thousand lines),
the CLI's listings, the desktop application, AI prompts, pattern and path-field
inference, type inference, Arrow conversion, schema amendments (a library without a
caller that stores anything), serialisation of messages, an older copy of the queue
and storage code in `casparian_sentinel/src/db`, and tests. There is no interleaving,
failure or protocol in them that a model would explore; their correctness is about
the values they print or convert. The intent tools of the MCP server keep a session
state but do not act on the pipeline yet. Signing is cryptography; virtual
environments are the package manager's work. `PROJECT.json` gives the reason for each
component.

Open, in the order in which they would add most:

1. Reconnection of a worker under a new ZeroMQ identity, and panics of job threads.
2. Composition of `SinkCommit` with the worker, so that the outputs of overlapping
   attempts are followed to the end.
3. Tags and rules of Scout against concurrent scans.
