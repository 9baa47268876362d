# TLA+ models of the graph orchestrator

This directory holds TLA+ models of the orchestrator in `src/src/orchestrator`,
the TLC configurations that check them on small instances, and theorems about
them that the TLA+ proof system checks for every instance.

The orchestrator runs *graphs* of agent executions over one git worktree per
run. Its own logic, the part that is neither an external agent nor a view, is
an event-sourced kernel (`graph/`), a runtime that executes what the kernel
decides (`graph_runtime/`), a driver and signal consumer that start, pause,
cancel and resume runs (`workflow/`), and the database they share (`db/`).

## Inventory

| Component | State | Operations | Talks to | What is hard |
|---|---|---|---|---|
| Graph kernel (`graph/_commands.py`, `graph/commands/boundary.py`, `callbacks.py`, `scheduler.py`, `retry_policy.py`, `projections.py`) | none of its own; a projection folded from the run's events: run lifecycle, nodes, leases, execution attempts, records | pure commands: lifecycle, `schedule_tick`, `acknowledge_start`, `record_heartbeat`, `agent_died`, baseline / stage / witness / finalize, request and complete recovery, `submit_patch` | called by the controller | late, repeated and reordered commands of executions that expired or died |
| Controller and event store (`graph_runtime/controller.py`, `store.py`) | `events_v2` (per-run versions), projection checkpoint, `graph_outbox` | load projection and tail, plan, re-check the head and append in one write transaction, retry when stale | kernel, outbox, journal | optimistic concurrency between the driver, tasks and callbacks; a disposable cache that readers also write |
| Outbox (`graph_runtime/outbox.py`) | rows with status, attempts, `next_attempt_at` | insert, blanket reset, bounded claim, acknowledge, fail with backoff, start-up requeue of cleanups | executor | overlapping dispatchers, crash between effect and acknowledgement |
| Dispatch executor (`graph_runtime/dispatch.py`) | tasks, worktree lock, in-memory baselines, process registry | dispatch a row, run an agent, deliver recovery, reconcile after restart, quiesce | controller, git, runners | one worktree shared by all executions; cancellation at any await |
| Driver and recovery (`workflow/graph_driver.py`, `graph_runtime/recovery.py`) | none durable | bootstrap, drive to quiescence, renew leases, recover orphans, recover and reconcile at start | controller, outbox, executor | leases whose owner is gone; work left by an earlier process |
| Signal consumer (`workflow/signals/`) | run status row, signal rows, driver tasks and generations | arm, pause, cancel, resume, crash pause | driver, executor, service | the stop fence against everything above |
| Event journal (`db/access/jsonl_outbox.py`, `event_outbox.py`, `db/bootstrap.py`, `db/recovery/backup.py`) | JSONL segments, delivery checkpoint | post-commit append, rotation, start-up drain, rebuild of an empty database, restored backup | event store | torn writes, crash between link and unlink, gaps, a table that went back |
| Scheduling, repair and acceptance (`graph/_commands.py`, `scheduler.py`, `projections.py`, `macros.py`) | nodes, edges, bindings, records of the run's graph | patches, callbacks with their repair, tick, reconcile, complete | planners, verifiers, driver | repairs made at source or at reconcile, acceptance derived from the whole graph |
| Durable signals (`workflow/signals/signals.py`, `runtime.py`) | signal rows | enqueue, read the head, acknowledge | consumer, API | a handler that failed, crashed or came too late |
| Workflow service (`workflow/service.py`) | the run's row | stop, pause, cancel, resume, recover, start, complete, fail | API, consumer, driver | every transition reads and writes in two statements |
| Start-up and shutdown (`api/app.py`, `workflow/graph_recovery.py`) | none | select and arm runs, fence and pause them | consumer, driver | rows left by the last process |
| Legacy workflow engine (`engine/`, `commands/`) | steps, tasks | step and task transitions, gates | runners, API | not modelled |
| Artifacts (`artifacts/`, the reference rows of `graph_runtime/store.py`) | content-addressed files, reference rows, one lock file | publish, read, collect after the deletion of a run | dispatch, service | collection racing publication; a lock waited for in the threads its holder needs |
| Supervision (`db/access/graph_runtime_supervision.py`, `cli/server_supervisor.py`) | the last observation of a run, child process | observe, count attempts, restart | consumer | an observation that is old when used |
| Reliable-plan qualification | grants | issue, consume | driver | not modelled |
| Runners, monitors, git, env files, config, API, CLI, UI | external processes, files, views | | | effects and text; only their outcomes are modelled |

What makes each part correct, in one line each:

- kernel: one active lease per node, at most one outcome per node, bounded
  retries, no late command reopens or duplicates what was decided;
- controller: every batch of events was decided on exactly the events before it;
- outbox: at-least-once delivery, acknowledged only after the effect, settled in
  the end;
- executor: the worktree belongs to one execution at a time, recovery removes
  what a failed execution wrote and nothing else;
- graph: every failure has one owner, nothing is completed that was not passed or
  repaired, and nothing that was repaired is failed;
- service, consumer and driver: the row says completed only when the graph is,
  a stopped run stays stopped, and an active run has a driver;
- driver and executor: every lease is resolved, every recovery completes, every
  stop takes effect, and a stopped run is quiet;
- artifacts: what an undeleted run refers to is stored, and what nobody refers to is
  collected in the end;
- journal: exactly the committed events, each once, with every gap closed at the
  next start.

The hazards, each with its source line and the properties that watch it, are
listed in `PROJECT.json`.

## Modules

| Module | Models | Runs |
|---|---|---|
| `GraphOutbox` | `outbox.py`, the start-up part of `recovery.py` | `outbox` |
| `GraphExecution` | kernel leases and attempts, dispatch, driver, recovery, stop fence | `execution_*` |
| `SerialLog` | what the controller promises: a log to which commands are applied one after the other, each at most once | as a property of `controller` |
| `GraphController` | `controller.py`, the transactions of `store.py`, the retry loops around them | `controller` |
| `EventJournal` | `jsonl_outbox.py`, `event_outbox.py`, `bootstrap.py`, start-up of `app.py`, `restore_backup` | `journal` |
| `GraphDataflow` | the graph of one run: patches, readiness, bindings, the repair sweeps, task acceptance, completion | `dataflow` |
| `RunControl` | the run row, signal queue, consumer, driver, liveness reconciler, start-up and shutdown | `control*` |
| `ArtifactStore` | `coordination.py`, `artifacts/store.py`, `gc.py`, its publishers in `dispatch.py` and `rejection_evidence.py`, `delete_run` | `artifacts` |
| `GraphOutboxProofs`, `GraphExecutionProofs`, `GraphControllerProofs`, `RunControlProofs`, `ArtifactStoreProofs`, `EventJournalProofs`, `GraphDataflowProofs` | theorems about the seven | |
| `GraphExecutionFileProofs` | theorems about the worktree's files in `GraphExecution` | |
| `MC*` | small instances for TLC | |

Where a type invariant is proved and says nothing else than types and bounds, no
run checks it. An operator that stands next to the definition it varies and is used nowhere
(`NextItemUncounted`, `ParkedAsReady`, ...) is a plausible bug in that
definition; `PROJECT.json` says which property it breaks.

How the modules fit together: `GraphExecution` takes each kernel command as one
atomic append, which is what `GraphController` shows (`IsSerial`); it delivers
dispatch rows at least once, which is what `GraphOutbox` shows; and
`GraphController` leaves failed journal observers to the next start, where
`EventJournal` takes over. `GraphDataflow` takes a command as one step for the same reason, and leaves
leases and retries to `GraphExecution`; `RunControl` keeps of the graph only its
lifecycle state and whether a lease is active, and opens the fence, the arming
and the bridges that `GraphExecution` has as `RequestStop`, `Quiesce` and
`Resume`. Each of these assumptions is a checked property of another module, so
the modules are not composed into one state space. `ArtifactStore` meets the
others through the event that carries a reference: `GraphController` commits it
with its row.

### `GraphOutbox`

State: the columns of the outbox rows (`status`, `attempts`, `due` for
`next_attempt_at`), the set `applied` of rows whose effect has happened, and for
each overlapping caller of `dispatch_pending` or `recover` its program counter
and locals. One action per transaction: `Append`, `BeginDispatch` (with the
blanket reset), `CaptureBound`, `ClaimNext`, `ExecuteOk`/`ExecuteRaises`,
`MarkCompleted`, `MarkFailedAttempt`, the paged requeue of failed cleanups,
`Abort` (a database error or a cancellation ends the call) and `Crash`. Time is
the bit `due`.

### `GraphExecution`

State: the projection of the run's events (`run`, `node`, `tries`, `issued`,
`lease`, `attempt`, `after`), the dispatch rows, the worktree (`tree`, and what
baselines, staged submissions and recovery requests captured of it), and the
volatile process (`proc` for the driver, `task`, `holder` of the worktree lock,
`todo` of a reconciliation). A task step is what `_run_agent_serialized` does
between two awaits that matter; a driver step is one command or delivery of
`drive_to_quiescence`, `recover` or the consumer's fence. `Crash` loses the
volatile part only, and may lose it after a restore and before its
acknowledgement.

What is coarser than the code: the lock is granted in any order (asyncio serves
waiters first come, first served) and rows are redelivered in any order;
`Quiesce` waits for all tasks where the code waits for those of active leases;
`CancelTasks` cancels all tasks in one step; a recovery delivery may be delayed
but does not fail for good (three failures do wedge a run: see the hazard at
`outbox.py:546`); facts of recovered attempts are forgotten; backoff, health
evidence, edges, claims, rate limits, planner shortcuts and decision-v1 nodes
are left out, and `try_reattach`, which always refuses, is too. `STOPPING` rows
of a run whose kernel is still active are the lifecycle values `pausing` and
`cancelling`.

### `GraphController` and `SerialLog`

State: the run's `log`, the checkpoint row (`rowPos`, `rowState`), which
commands are `issued`, `applied`, owed to the journal, and per caller its phase,
the position and projection it read, its plan, retries and answer. Reading the
checkpoint and reading the tail are two steps; a reader's write of the
checkpoint is one step, since the session's flush takes the write lock before
the row is read again, but it may move the row backwards. `Write` is the write
transaction: it compares the head with the planned position and appends, or
raises stale. `Decide` is any function of the command and the log before it;
`DecideByLength` in the MC module makes two different prefixes visible. A
missing or invalid row is position 0. A command's batch has a fixed size
(`Size`, 0 for a command with nothing to append), patches are always accepted, a
commit that happens although its caller was cancelled is not modelled, and the
position is read again and the command resent in one step. Summaries, archival
views and usage rows, written in the same transaction and read by no command,
are left out.

### `EventJournal`

State: the table (`rows`), the journal files (`active`, `tail` for what follows
the last newline, `archives` whose `twin` bit says that the archive and the
active name are one inode), the delivery `checkpoint`, the server's `phase`, its
queued batches and the lock holder's `step`. The lock holder's steps are those
of `_write_events_under_lock` and `reconcile` between which a crash or an I/O
error makes a difference: recover a linked rotation, select, rotate (link, then
unlink), append, rotate again. `AppendTears` is the append that stops part-way.
Start-up is the sequence of `api/app.py`: rebuild, drain, checkpoint, commit.
Two read errors are swallowed by the code and are faults of their own: a rebuild
that cannot read a file logs it and goes on with the lines it has
(`BootstrapMisreads`; the model lets any records be missing, since it does not
keep the order of a file's lines), and a checkpoint that cannot be read counts as
none (`MisreadCheckpoint`). `misread` remembers a rebuild that left records out,
until its start has failed, or for good once it was committed. After an unreadable
checkpoint start-up adopts the whole table as legacy range, which no later start
looks at again (`OutsideLegacy` in the properties).
Every event has an identity (`id`) of its own, so that a position given out
twice is seen. Not modelled: power loss between a write and its fsync, records
without positions, the explicit legacy audit (tests call it, the program does
not), the projections rebuilt beside the table.

### `GraphDataflow`

State: `graph`, the projection as one value (run state, `nodes` with kind, task
region, state, outcome, what they recover and `at`, the position of their
record; `edges`, `bound` for the ports that have their record, `records` for how
many there are), the driver's `drive`, and the history bit `missed`: a verdict
was accepted while another node was leased or ready, or a gap planner died for
good. A node's id says what it is for (the worker of region 1, the second
correction's verifier, the recovery of a check), as the code's ids are derived
from the record or region they serve. `Reachable` is the graph walk of the
code's breadth-first searches. The operators on a graph `g` are the
functions of `projections.py` and `_commands.py` on a projection: `Ticked` is
`schedule_tick`, `Repaired(g, S)` the five sweeps restricted to the records of
one command (`_source_repair_events`), `Reconciled` the same sweeps over the
whole graph (`_apply_reconcile`), `Accepted` one region's `_derive_task_states`.
An action is a command: `SubmitPlan` and `SubmitCorrection` are accepted
patches, `CompleteWorker`, `Judge` and `CompletePlanner` are callbacks, whose
events and repair are one append (`Finish`), `Die` is a death; the driver's are
`Tick`, `DriveComplete`, `DriveReconcile`, `Park`, and `Rearm` is the reconcile
at a restart or resume.

`Plans` says what the root planner may submit, per work region: a worker and a
verifier (`plain`), and a static gap planner for a failed verdict (`gap`), a
check of the passed candidate (`check`), or a check with a gap planner of its
own (`guarded`). A gap planner's patch targets the corrective region, and may or
may not be wired to the classified gap (`Wirings`): the validator allows both.
The whole graph is finite, so liveness is stated over the states in which the
driver has parked: `SequentialStall` and `FailureIsAnswered` say what such a
state has behind it. (`TLC` evaluates a fairness condition over these graphs
much more slowly than the graphs themselves.)

Left out: reliable plans, declared batches, semantic corrections, successor
planners, human patches, failure records and environment failures, budgets and
backoff, `supersedes_task_region_ids`, file states of candidates, the death of a
planner whose patch was already accepted (the shortcut in `agent_died` completes
it), and with the declared batches `_apply_accepted_region_supersessions` and
`_apply_accepted_corrective_recovery_regions`, which accept a region because
another one was (a correction of a gap planner does not meet their conditions).
Semantic corrections have a region accepted over its superseded failed verdict
(`projections.py:6150`, `:6305`): `CompletedMeansPassed` is about the modelled
plans only, and would be false with them.

### `RunControl`

State: the run's row (`status`, `reason`), the kernel's lifecycle (`kernel`,
`leased`, `moved`), the finalization `receipt`, the signal queue (`signals`, not
yet marked processed), the reconciler's `attempts`; and of the process, the
next step `pc[p]` and purpose `want[p]` of every coroutine: clients, `consumer`,
`driver`, `reconciler`, `boot` (start-up recovery) and `halt` (shutdown), the
admission block and the quiescence lock. A service method is two steps, the read
(`ReadFor...`) and the write that does not look again (`Apply...`), because that
is how the code does it; so is a commit and the next one. `Crash` and `Exit`
lose the process; `Mishap` bounds them together with failed steps. `proved` and
`resumed` are history.

Of the reconciler, the stall of a lease is a choice; a run whose kernel is
terminal has its attempts reset each time, as in the code. Not modelled: the
executor of non-graph runs, cascades to child runs, completion gates and human
input, `STOPPING` cascades, more than one run (the consumer has a task and a
lock per run, and nothing is shared between runs but the database).

### `ArtifactStore`

State: per content the blob (`none`, `young`, or `old` past the grace period),
per run its row, the reference rows (`refs`) and what a later finalization or
replay will read (`needed`); of the process, the next step of every publication
and every collection (`pc`), what is published, who has the flock (`lock`), the
threads whose waiter is gone (`abandoned`), and the blobs older than the cutoff
of each collection (`aged`). The cutoff is computed from the clock as the
deletion read it (`service.py:4022`), before the wait for the flock: what
becomes old during the wait is not swept. A job waits for a thread of
asyncio's default pool (`wait`), in that thread for the flock (`flock`), and
needs a thread again to put a blob and to release. `Publish` starts one of five
kinds: a check, a callback and a decision append their event before they
release (`Locked`); receipts of rejected answers and evidence of rejected
patches are appended after it. A decision or a rejection stores its question
context first; the rejection does so in a publication of its own (`Requeue`).
The sweep probes each old blob and unlinks it in a later step, since the probe is
awaited. Its faults are those of the code: a cancelled waiter leaves its
thread (`CancelWaiter`, `AbandonedThreadAcquires`), a cancelled holder (a check, or a
runner whose answer or patch was rejected) releases if it gets a thread, a raised append releases, a crash closes the descriptors.

`DayPasses` only while nobody is between acquire and append: the grace period is
a day, and longer than a publication. A wait for the lock may take longer.
Receipts and evidence name their attempt, so their content is new each time
(`Unique`). Left out: integrity checkpoints and reads by range, temporary files,
the resolution of the root, projects (there is one), and `collect`,
`collect_after_mark` and `sweep_artifacts`, which the program does not call.

## Runs

| Run | Instance | Distinct states | Question |
|---|---|---|---|
| `outbox` | 2 rows of two kinds, 2 callers, 2 attempts, batches of 1, 1 fault | 155,215 | acknowledgement; every row is settled in the end |
| `execution_kernel` | 2 nodes, 2 attempts, 3 leases each, 1 expiry, 1 dropped attempt, 1 crash | 1,535,087 | leases, retries, outcomes, stop fence, files |
| `execution_faults` | 1 node, each fault once, overflowing scans | 9,260 | recoveries and leases end |
| `execution_contention` | 2 nodes, 1 expiry, 1 dropped attempt | 39,411 | a stop, and what it waits for, ends when two executions want the lock |
| `controller` | 2 callers, 3 commands, tail cap 2, 2 retries, 2 faults | 371,122 | serial history, true answers, faithful checkpoint; every call ends |
| `journal` | 3 events of 2 runs, up to 2 of them older, segments of 2, 3 faults, 1 lost database, 1 restored backup | 951,006 | each event once, true checkpoint, faithful rebuild; start-up ends |
| `control` | 2 clients, 3 requests, 1 mishap, 1 attempt of the reconciler | 3,082,146 | completion is true, the fence holds, reopens are not replayed |
| `control_live` | 1 client, 2 requests, 1 mishap | 311,842 | the queue drains, an active run is driven, a failure is reported |
| `dataflow` | 6 plans of up to 2 work regions, 1 correction, 1 lost runner or restart | 262,060 | one owner per failure, true completion, no repaired run failed, stalls are genuine |
| `artifacts` | 2 runs, 1 recurring and 1 unique content, 4 threads, 2 publications, 1 day, 1 fault | 449,240 | recorded artifacts are kept, collections are thorough; publications and collections end |
| `execution_dropped_attempt`, `control_shutdown` | | | the findings below |

Why these bounds: two overlapping callers are enough to steal a claim, to be
stale and to race a checkpoint, since each of these is about a pair; a third
lease of a node is one more than its budget; a third event leaves a gap before
an event that was appended; a segment of two lets a batch be rotated away
before it is retried; three journal faults are a failed observer, its failed
retry and the crash that ends the process, or a rebuild that misreads a segment,
the crash before its commit and another read error; three requests are a stop, what
undoes it and one that comes too late; two regions let one be judged while
the other still runs, repair or be retired because of it; and two publications
are one that leaves an old blob and one that reuses it while the first one's run
is collected. One day is enough for a blob that is old at the deletion, or
that turns old while the collection waits; with two (`MaxDays = 2`, 832,086
states, checked by hand) both happen in one behaviour. `artifacts` has as many
threads as jobs, so it says nothing about an exhausted pool (`JobsEnd` is refuted
with one thread fewer, see below): there it shows that a lock is released
whatever raises or dies under it. The theorems remove the bounds for
safety. Deadlock is not checked: a completed or cancelled run, a drained table,
a set of answered commands, two deleted runs and a stopped server are ends.

## Fairness

- `GraphOutbox`: a call that runs goes on (`WF` of its steps), a backoff
  elapses, and the drive loop keeps calling `dispatch_pending` for all kinds
  (`SF`, since another call may be in the way each time). Nothing is assumed of
  calls for cleanups only.
- `GraphExecution`: driver, tasks and consumer are coroutines of one event loop
  (`WF`); a waiter for the worktree lock is served in the end (`SF`,
  `asyncio.Lock` is first come, first served); a runner ends, one
  way or the other (a hanging agent is the monitors' business, which are not
  modelled). Nothing forces a write, an expiry, a stop, a resume
  or a crash. A crashed server is started again (supervisor).
- `GraphController`: a started call goes on (`WF` of its steps).
- `RunControl`: the consumer's poll, the reconciler's loop, the driver, the
  shutdown and a client's request that was accepted go on (`WF` of each
  coroutine's next step, one event loop). Nobody has to ask for anything, and an
  execution need not end. `QueueDrains` is stated for runs in which the
  reconciler comes to rest (`Settled`): its attempts are not counted while the
  kernel is terminal, so it may lift a fence between `Block` and `Prove` again
  and again.
- `GraphDataflow`: none, see above.
- `ArtifactStore`: a publication and a collection that began go on (`WF` of each,
  one event loop; nobody else can take the last thread for ever, since there are
  as many threads as jobs). Nobody has to publish, end or delete a run.
- `EventJournal`: start-up and the lock's holder go on and an exception reaches
  its handler. Nobody promises that a server that is down is started again:
  `StartCompletes` allows the process to end instead.

## Proofs

The theorems hold for every value of the constants under the named assumptions
of the modules (`OutboxAssumption`, `ExecutionAssumption`,
`ControllerAssumption`, `ControlAssumption`, `ArtifactAssumption`,
`JournalAssumption`, `DataflowAssumption`): a finite non-empty set of nodes, a finite set of runs, at
least one dispatcher, positive budgets and sizes, natural bounds.

**Outbox.** `IInv` is typing, the two safety invariants, `NotInserted` (rows
above `appended` have no status) and `ClaimsRemembered`: a caller past its claim
holds an inserted row, and one about to acknowledge holds an applied one. The
last is what makes `CompletedWasApplied` inductive, since a reset row may be
executed and acknowledged by two callers. The action properties follow from the
invariant step by step.

**Execution.** The safety properties are consequences of a description of a
node's leases that is not visible in any single command: leases are issued in
order (`IssuedInOrder`), only the last can be unresolved (`OnlyLastIsOpen`), a
ready node's last lease was recovered (`ReadyIsClean`), a resolved attempt
settles its lease (`SettledLease`), a ready node has counted its next attempt
(`ReadyHasAttempt`), and completed nodes have an outcome (`CompletedHasOutcome`).
`TaskOwnsLock`, `RestIsIdle` and `StopIsArmed` add the worktree lock and the
fence. Each is needed: without `LeaveIsCancel`, for instance, a recovery could
complete with the disposition `leave` in an active run and strand its node.
`UndisturbedWorkSurvives` has an invariant of its own (`FInv`), of runs without a
crash, a lost task or an overflowing scan, on top of that one. Its heart is
`OpenAlone`: there is one open attempt at a time, although leases overlap,
because an attempt whose task a stop has cancelled is only captured and nobody
can take the worktree until it is reconciled (`Orphans`, `Quietly`,
`RowOfLease`). Hence the baseline of an open attempt holds every accepted file
(`OpenKeeps`), and a request that waits for its delivery names no file of an
attempt that is still open and none that was accepted unless its baseline has it
(`RequestKeeps`).

**Controller.** The refinement (`ControllerIsSerial`) rests on one lemma,
`DecisionIsCurrent`: when `Write` passes the head check, the planned batch is
`Decide` of the log as it is now, although it was computed on a checkpoint some
reader wrote plus a tail read by another statement. It needs that rows and
readers hold folds of prefixes (`RowIsFold`, `ReadIsFold`), that a plan is the
decision on its prefix (`PlanIsSound`), and bookkeeping that no submission is
applied twice (`SubmissionsDiffer`, `OpenIsUnapplied`, ...).

**Run control.** `FenceHolds` is inductive by itself once `Owned` and `leased`
are followed through every coroutine: `CreateDriver` looks at `blocked` in the
step that starts the driver, and only a driver grants leases. `CompletedIsTrue`
needs `CompletionFollows`: a driver that is several steps away from writing
COMPLETED has seen a completed kernel, which no step leaves, and its receipt.
`NoReplayedReopen` needs to know where an old marker can be: not on the row of a
kernel that has not failed yet (`FreshUnmarked`), and not under a driver that is
past clearing it (`WorkUnmarked`), so that a kernel that fails now finds no
marker, and one found later was set since (`MarkedResumed`). `RetryBudget`,
`AskersWant` and `HasSignal` carry the types of the reconciler's counter and of
the queue.

**Artifacts.** `ReferencesResolve` holds because of what happens elsewhere: a
publication between put and append has its blob (`AppendsStored`), under the
lock because no sweep runs (`HolderLocks`), without it because the blob is
young, which it is as its content is nobody else's (`OwnContent`, `NotYetPut`).
A sweep that is about to unlink knows that nobody refers to the blob
(`VictimIsOrphan`), and nobody can start to. `SweepIsThorough` follows from
`SweptSoFar`: a blob older than its cutoff that the sweep has passed is referred
to, or its last run was deleted since, and then that deletion's collection is not
idle and has the blob in its own cutoff, since what is old stays old until it is
unlinked, which takes it out of every cutoff. That the pool
is never exceeded (`Pool`) counts the waiting jobs, so it is proved with the
library's facts about finite sets.

**Journal.** `EachPositionOnce` does not hold because a writer looks whether a
record is there: the drain does not read the archives that lie below its page.
It needs that the lock's holder writes only while no twin exists (`Twins`), that
what the drain is about to append lies beyond those archives (`DrainAhead`), and
that an archive's name covers its records (`Segments`).
While there is one history (`OneHistory`: no restored backup, no committed
rebuild that misread the journal), table, journal, session and queued batches are
records of one set of events (`OneJournal`); a start whose rebuild misread is
part of it until it commits, and leaves no trace if it fails (`MisreadKnown`); `StartTable` says what start-up's
transaction sees, `Drained` that the drain has everything below its cursor
outside the legacy gap, and from these follow `CheckpointIsTrue` and, at the
commit of start-up, `ReadyMeansDelivered`. That a rebuilt table is the lost one
needs `VersionsCount`: a version is the number of the run's events up to its
position, in a table that only grew by commits. The extreme positions of
sets (`Highest`, `Lowest`) exist because the intervals that end or begin at
their elements are finite sets, whose strict subset ordering is well-founded
(`FiniteSetTheorems`).

**Dataflow.** The invariant (`Sound`) says of each node that it is what its id
says (`ShapedNode`: a recovery planner is a gap planner of the recovery region
of what it recovers, a correction's nodes are in the corrective region, and who
proposed a node has an accepted patch), that state, record and patch agree
(`RecordedNode`), that an edge joins what the model wires (`RoutedEdge`: a
failed record has the plan's own gap planner, if its region has one, and its
recovery planner, and no other), and that a recovery planner exists only for a
failed record that no planner of the plan can answer any more (`OwnedNode`),
which makes `FailureHasOneOwner` inductive: every command creates recoveries
from the failures it sees at that moment, and a reconcile may see the same
failure three times. A command is a chain of graph functions, so each has a
lemma of its own (`RecordedSound`, `ExtendedSound`, `RetiredSound`, ...), about
what it leaves alone (`Grows`) as well as about `Sound`, and an action's proof
puts them together. `CompletedRunPassed` holds, for the modelled plans, because the region of a recovery
planner is never accepted, so a superseded failed verdict keeps the run from
completing, as does a failed check. `FailedRunUnrepaired` is about wired
corrections: then the correction is downstream of the failed record it answers,
so a passed one removes the failure from the current ones and its dead end with
it. `ReachableIsClosure` (the search ends in the least closed set) uses
that the strict subset ordering of a finite set is well-founded.

`StallsAreGenuine` and `FailuresAreAnswered` are about parked runs and need a
second invariant, for runs that are still active. `Linked`: a port is bound as
soon as one of its edges has its record, and to no other (`Delivered`), a planner
that answers a verdict, or a check, has an edge to what it waits for (`Sourced`),
and it began only with that (`BegunNode`). `Attends`, as long as nothing was
`missed`: a failed verification has a gap planner that is neither failed nor
retired, a passed verdict none that could still run, and every check that waits
has an edge from each passed verification or would close a cycle. A callback
meets this for the verdict it brings (`FinishCloses`) because nothing else is
leased or ready then: the sweeps see the same quiet graph as a reconcile would,
the verdict is the latest, and a failed one leaves its run unaccepted
(`FailingBlocks`; for a correction, because a gap planner only begins after a
failure). `ParkedRests` says of a parked run that nothing is leased, that a reconcile
changes nothing if all nodes have ended, and a tick nothing if some have not. A
reconcile that leaves nothing to run has changed nothing: a recovery planner is
never in the graph before it is made, so it would be there to run
(`ReconcileExhausted`). For a node that still waits, `Attends` leaves each of the
five sweeps empty (`WaitingIdle`), and a gap planner of a failed verification
that had not begun would be ready (`AnswerReady`).

Only model-checked: all liveness (`EventuallySettled`, `RecoveryCompletes`,
`LeaseResolved`, `StopTakesEffect`, `EveryCallEnds`, `StartCompletes`,
`QueueDrains`, `ActiveIsDriven`, `FailureIsReported`, `JobsEnd`), which is
out of the prover's reach.

## Findings

1. `execution_dropped_attempt`: a task that ends without asking for recovery
   leaves its attempt with a baseline. A later stop or reconciliation computes
   the paths to restore against that old baseline, so files accepted from
   another execution in between are removed. What remains true, and is checked
   in `execution_kernel`, is `UndisturbedWorkSurvives`: accepted files stay as
   long as no attempt is dropped, no process dies and no scan overflows.
2. `control_shutdown`: a run that a graceful shutdown paused is selected by
   start-up recovery and handed to `arm_graph_run`, which arms ACTIVE rows only:
   it stays paused.

### Other disagreements

Each of these is a definition of a module that the code violates; put it into
the named configuration to see the behaviour.

| Definition | Instance | What happens |
|---|---|---|
| `AcceptedWorkSurvives` | `MCGraphExecution_dropped_attempt.cfg` with `MaxDropped = 0`, `ScanOverflows = TRUE` | a full-baseline recovery is requested under the worktree lock and delivered after the lock went to another execution, whose accepted work it removes (`git/snapshot.py:508` asks for the lock) |
| `RecoveredLeavesNothing` | the same with `ScanOverflows = FALSE`, `MaxDropped = 0` | a baseline captured between a failure and its recovery contains the residue and puts it back |
| `RefusalIsTerminal` | the same with `MaxAttempts = 2`, `MaxIssue = 2`, `MaxDropped = 1` | a node failed for an invalid contract after its baseline was recorded is retried when the run is resumed |
| `MissingEventsAreAppended` | `MCEventJournal.cfg` with `OldEvents = 0`, `MaxLosses = 0` | after `restore_backup` positions are given out twice and the new events never reach the journal |
| `MissingEventsAreAppended` | `MCEventJournal.cfg` with `MaxRestores = 0` | a rebuild that cannot read a segment logs a warning and goes on (`db/bootstrap.py:113`); the server serves the partial table, gives the missing positions out again, and the new events never reach the journal |
| `TerminalIsFinal` | `MCRunControl_shutdown.cfg` | `pause_run` reads ACTIVE, the driver commits COMPLETED, `apply_stop_run` overwrites it with STOPPING |
| `BlockedMeansStarted` | `MCRunControl_shutdown.cfg` | the driver is lost between `seed_run` and the kernel's start; the re-armed one finds a position that is not 0, does not finish the bootstrap, and pauses the run as blocked |
| `RepairedRunNotFailed` | `MCGraphDataflow.cfg` with `Plans <- TwoPlain`, `Wirings <- Unwired`, `MaxMishaps = 0` | a correction that is not wired to the classified gap, as in the planner prompt's own example, passes in the corrective region; the old failure stays current and the recovery planner counts as a dead end, so the run is failed |
| `JobsEnd` | `MCArtifactStore.cfg` with `Threads = 3` | as many jobs wait in flock as the pool has threads, and the holder never gets one to put or release: nothing of the project is published or collected until a restart. asyncio's pool has `min(32, cpus + 4)` threads, shared with every other `to_thread` |
| `StallIsGenuine` | `MCGraphDataflow.cfg` with `MaxMishaps = 0` | a verdict accepted while another lease is held gets no repair from its command; if the region's gap planner or a final check is still planned, the driver never asks for a reconcile and parks the run as blocked although there is something to repair. A gap planner that dies for good leaves its verdict without an owner in the same way. Checked is `SequentialStall`: where every verdict is accepted with nothing else leased or ready and no gap planner is lost, a parked run has nothing to repair |
| `RepairedRunCompletes` | `MCGraphDataflow.cfg` with `Plans <- TwoPlain`, `MaxMishaps = 0` | the correction proposed by a recovery planner passes and the failure is repaired, but the recovery planner's own region stays pending, so the run is parked as blocked. `_apply_accepted_corrective_recovery_regions` (`projections.py:6150`) closes such a region only for workers of the semantic stage `corrective_work` (`slice-6f-final-review.md:138` calls a run that stays pending after its repair a defect) |
| `LockIsAtWork` | `MCArtifactStore.cfg` | a stop cancels the task of a check that waits for the artifact root lock in a thread. The thread goes on, takes the flock when it is free and returns a descriptor to nobody: the project's publications and collections wait until the server ends |
| `NeededIsStored` | `MCArtifactStore.cfg` | the question context of a decision is put beside its payload, but only payload and receipt get a reference row. A collection removes it when it is older than a day, because the staged submission outlived a restart or an old run asked the same, and the finalization or replay that reads it fails (`docs/intent/31-decision-runtime/contracts.md:230` calls it protected). Checked is `ReferencesResolve`: recorded references are kept |
| `FinalCheckIsLast` | `MCGraphDataflow.cfg` with `MaxCorrections = 0` | a worker dies and is planned again while nothing is leased; the other region's pass gets the final check, which passes before the lost region is redone (with no lost runner the property holds) |

## Not modelled

Runners, monitors, git, env files, the API, CLI and UI are external effects,
text or views; `GraphExecution` keeps their outcomes (a runner ends or fails, a
scan overflows, a gate fails). Patch, macro and decision validation are large
pure functions of data, of which `GraphDataflow` has the shapes of graph they
let through. Reliable plans, the largest part of `graph/decisions.py`,
`macros.py` and `graph_runtime/reliable_plan_*`, are declarative graphs with
typed answers; their readiness and repair rules are special cases beside those
modelled. The legacy workflow engine shares only the row with graph runs. `PROJECT.json` lists every component with its status.

The map covers a small share of the repository's lines: most of them are
schemas, validators, adapters, routes and views, and the modules model the
control of the core rather than its data.

## Plan

1. Core: outbox, execution, controller, journal; theorems about the first three
   (done).
2. Extension: run control and the artifact store, with their theorems, and
   dataflow (done). What is left to model: reliable
   plans' regions in `GraphDataflow` (declared batches and successor planners),
   a driver that waits by lease in `GraphExecution`, and deliveries of
   recoveries that fail for good.
3. Prove: `EventJournal`, `UndisturbedWorkSurvives` and `GraphDataflow`, with the
   stalls of its parked runs (done).
