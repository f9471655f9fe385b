# pgmcp: TLA+ verification

pgmcp is a daemon that keeps a PostgreSQL index of source trees in step with
the disk and serves it to agents over MCP and REST. This directory holds TLA+
models of the concurrent core of the daemon, TLC configurations that check
them, and TLAPS proofs. Paths below are relative to `src/src/` of the repository
unless they begin with `src/docs/`.

1. [The system](#the-system)
2. [Modules and the code](#modules-and-the-code)
3. [Runs](#runs)
4. [Bounds](#bounds)
5. [Fairness and timing assumptions](#fairness-and-timing-assumptions)
6. [Proofs](#proofs)
7. [Disagreements between code and comments](#disagreements-between-code-and-comments)
8. [What is not modelled](#what-is-not-modelled)
9. [Plan](#plan)

## The system

| part | state | operations | hard behaviours |
|---|---|---|---|
| work pool (`work_pool/pool.rs`, `adaptive.rs`, `monitor.rs`) | two priority channels, one park flag per worker, `active_count`, shutdown flag | submit, worker loop, `unpark_n`, `park_n`, scaling, shutdown and join | park flags and counter are separate atomics; monitor, submitters and shutdown race on them |
| daemon lifecycle (`daemon_state.rs`, `reactive/subject.rs`) | phase, start time, event channel | `transition`, `wait_for`, `subscribe` | four steps per transition; one receiver shared by all subscribers |
| index store (`db/queries/files.rs`, `chunks.rs`, `index_failures.rs`) | `indexed_files` with chunks and duplicate pointers, projects, failure ledger | upsert, rename in place, insert duplicate, delete, record and clear failure | content shared between rows; several transactions per task |
| index workers (`embed/pool.rs`, `embed/pool/dedup.rs`) | task in hand: path, stat, hash, canonical row | `process_index_file_task` | stat, read, look-up and write are separate; the file and the tables move in between |
| event pipeline (`indexer/watcher.rs`, `event_processor.rs`, `reactive/operators.rs`) | debounce buffer, bounded channels, override cache | watcher callback, filter, debounce, submit, workspace commands | events lost, coalesced or late |
| scans (`indexer/event_processor.rs`, `scanner.rs`, `cron/index_reconcile.rs`, stale cleanup) | walk position, metadata map, bounded-failure set, seen set | initial scan, `rescan_workspace`, stale cleanup, prune | two threads per scan, stale maps, stop and restart anywhere |
| cron scheduler (`cron/scheduler.rs`) | queue, channel, last outcomes, locks of heavy bodies and their one gauge | tick, retry, gate, run, disable, `trigger_cron` | deferral and retry under pressure, panics, outcome stamps |
| embedding pool supervision (`embed/pool.rs`, `embed/admission.rs`) | worker slots, permits, intake gate | construct, respawn, admit, shut down | monitor against shutdown; back-pressure |
| health (`health/*`) | breaker, pressure flags, spool files | probe, pause and resume, spool, rotate, replay | crash and second outage during a replay; spool at its cap |
| work-item tracker (`tracker/*`, `db/queries/work_items.rs`) | item status, evidence, claims and leases, history | set status, claim, renew, hand off, sweep, unblock cascade | concurrent transactions, lapsed leases |
| realtime log (`realtime/*`, `db/queries/realtime_events.rs`) | append-only table, sequence, transaction ids | emit, emit in transaction, page by cursor | commit order differs from sequence order |
| A2A mailbox (`a2a/mailbox*.rs`, `delivery.rs`) | messages, receipts | send, inbox, deliver, read, acknowledge | several channels deliver to one session |
| orchestration sessions (`csm/session_store.rs`) | checkpoint rows, leases | save, mark, fork, sweep | sweep against a slow owner |
| CSM and MPST (`csm/*`) | protocol machines, traces | project, check conformance, replay | pure algorithms on trees |

How they interact. The watcher and the scans feed one bounded channel; index
workers take tasks from it and write the index store. The reconcile and
stale-cleanup jobs are run by the cron scheduler, whose heavy jobs run in a work
pool without a scaling monitor. The lifecycle's phase and start time gate the
heavy jobs. Health flags pause index intake and defer heavy jobs. Shutdown sets
one flag that pools, scheduler and scans each read at their own pace.

What must hold. No task is lost or run twice. The pool keeps its minimum of
awake workers. The phase never goes back and whoever waits for it is told the
truth. A file that the scans take for unchanged is indexed with the content it
has. Queries return the content whose hash the row records, and never content
from another project. (Where files share contents the code keeps only the last of
these three: see the disagreements.) Whatever events are lost, the index comes
back into step. Nothing that exists is pruned. Every recurring job stays scheduled exactly once;
heavy bodies under one lock exclude each other; everything stops when told to.

## Modules and the code

| module | models | notes |
|---|---|---|
| `HillClimber` | `adaptive.rs` | the climber as a record and operators; the sampled objective is abstracted to better, worse or flat |
| `WorkPool` | `pool.rs`, `monitor.rs` | one step per load, store, `fetch_add`, channel operation; per-thread program counters `wpc`, `spc`, `mpc`, `dpc` |
| `DaemonLifecycle` | `daemon_state.rs`, `reactive/subject.rs` | `Raise` (fetch_max), `ReadClock`, `Stamp` (store of that reading), `Send` (blocking send), `WaitFor`, `Receive` |
| `IndexStore` | index queries | one operator per statement or transaction: the table before to the table after |
| `IndexWorkers` | `process_index_file_task`, watcher, debounce | extends `IndexStore`; one action per file-system or database access of a worker; `wk` holds program counter and locals |
| `Reconcile` | initial scan, rescans, stale cleanup, stop and restart | extends and composes with `IndexWorkers`: `Pipeline` is its next-state relation beside the scans |
| `Cron` | `cron/scheduler.rs`, `tool_trigger_cron.rs` | scheduler thread with queue and channel, pool workers behind the gate, manual triggers; a job's bodies run under the lock it is registered with |

`MC*` modules give TLC's finite instances; `*Proofs` modules hold the theorems.
The definition-to-line correspondence is in `PROJECT.json` under `map`.
Operators such as `SendTwice` or `Level1SkipOnSize`, which stand directly before
the definition they vary, are used by no specification. They are plausible faults
of that definition, and each property is known to fail when one of them takes its
place (`mutants` in `PROJECT.json`).

Choices that matter when reading the models:

- **Time stamps.** `IndexWorkers` counts one unit of time per change of the
  disk. `Timestamptz` cuts a time to a multiple of `Grain`, as PostgreSQL cuts
  nanoseconds to microseconds. `index_workers` uses `Grain = 2`, so that half of
  the stored times are older than the file's. The scan runs use `Grain = 1`: there
  a failure recorded in the unit in which the file was written would otherwise be
  stamped before it, whereas in the daemon a failed read takes far more than a
  microsecond. See also the disagreement on resolutions below.
- **Content and hash.** A content stands for its own hash; an oversized file is
  recorded with size and mtime in place of a hash, as the code does.
- **Documents.** A path in `Documents` is read through an extractor. If it rejects
  the file, or the file has gone since the stat, the failure is ledgered; a source
  file that has gone is not. A document whose tool is not installed (`NoTool`) is
  neither indexed nor ledgered (`embed/pool.rs:1240`), and `InSync` excepts it.
- **Projects.** `ProjectOf` is constant: the project a path resolves to does not
  change, so the `project_id = EXCLUDED.project_id` of an upsert (`chunks.rs:118`)
  writes the value that is there. After a rename in place it is the project in which
  the row was looked up, which is that of the new path.
- **Faults.** A lost event, an error of the database, file system or model, a
  panic, a stop and a crash each use one unit of `MaxFaults`.
- **Shared receiver.** `subscribe` returns a clone of one crossbeam receiver; a
  message goes to one subscriber. The model has one channel for that reason.
- **Locks of heavy bodies.** `register_heavy_cron` takes the lock of a job's bodies
  as a parameter. It is `heavy_cron_lock` for most jobs and a lock of its own for
  quality-history, topics-size-history and tool-policy-refresh
  (`scheduler.rs:2267`, `:2299`, `:2332`); `LockOf` says which. `trigger_cron`
  always takes `heavy_cron_lock`. All bodies share one `heavy_cron_running` gauge,
  and the cron pool has two workers (`cli/daemon.rs:340`).
- **Steps that are merged.** `HeavyCronTick` reads `is_stopping` (`scheduler.rs:350`)
  and the phase of `heavy_submit_decision` (`:353`) at once: a stop in between would
  submit a task which the gate then turns away. `Examine` makes the stats of the
  Level-1 and Level-0 tests at once: a file that has changed still has after an edit in between.
  `WorkPool` makes the climber, which the monitor's thread makes when it starts
  (`monitor.rs:70`), together with the pool it copies its bounds from.
- **Outcome stamps.** `Cron` does not keep generations of outcomes. It keeps
  `silent`: whether the executing job has had an outcome recorded since the
  snapshot, which is what the comparison in `execute_inline` finds out.

## Runs

| run | expects | shows |
|---|---|---|
| `pool_monitored` | pass | A submitter, two workers, the monitor and a shutdown interleaved at every atomic access: `TaskConservation`, `CounterFloor` (no unsigned wrap), `CounterCoversUnparked`, `ParkRespectsMinThreads`, `UnparkedCoverClimber`. |
| `pool_cron` | pass | The pool without monitor: `SubmittedTasksRun` (LOW tasks included), `ShutdownReleasesWorkers`. |
| `pool_shutdown` | violation | With a monitor, `ShutdownReleasesWorkers` fails: a worker is parked again after it was woken to exit. |
| `lifecycle_daemon` | pass | Two threads racing through the phases and a waiter: `NoPhaseAnnouncedTwice`, `AnnouncementsBounded`, `WaitForSound`, `WaitForReturns`, `ElapsedNeverOverstated`. |
| `index_workers` | pass | Two workers on one file that is edited, removed, rejected and oversized, or on three files in two projects that share contents and move: `UnsharedSkipSound`, `UnsharedServedMatchesHash`, `ProjectIsolation`. |
| `index_pointers` | violation | An edited duplicate keeps its pointer: `PointersServeTheirHash`. |
| `index_rename_race` | violation | The canonical row changes between look-up and rename: `SkipSound`. |
| `reconcile` | pass | Good and unreadable contents, a removal, a lost event, an error, a failing walk, a stop or a crash anywhere: `SelfHeal`; a file that stays unreadable comes to rest at the retry cap: `BadFilesRest`. |
| `reconcile_prunes` | violation | A rescan prunes the row of a file that was created behind its walk: `PruneSound`. |
| `cron_heavy` | pass | Two heavy jobs with different locks and a light one, two workers, a manual trigger, under pressure, panics, disabling and shutdown: `TickScheduledOnce`, `RetriesBounded`, `HeavyBodiesApart`, `SchedulerStops`. |
| `cron_gauge` | violation | A body with a lock of its own takes the gauge down under another body: `GaugeShowsBodies`. |
| `cron_outcome` | violation | The default Ok replaces the skip the pool task has just recorded: `DefaultSparesSkips`. |

`ElapsedNeverOverstated` is about a phase that was entered when every earlier
transition had stored its start time. Without that condition it is false: the
clock is read before the store (`daemon_state.rs:120`), and a thread held up in
between sets back the start of a phase entered meanwhile. In the daemon only
Terminating can overtake Ready in this way, because the thread that enters Ready
is started after the transition to Scanning has returned.

`UnsharedSkipSound` and `UnsharedServedMatchesHash` are about a file that has had
no content in common with another file, among files that may. Without that
condition each is false, which is what `index_rename_race` and `index_pointers` show.

Two instances are explored along two cuts, chosen in the initial state. In
`index_workers` the scenario "apart" has one ordinary file with every sort of
content, a document without its tool, and a fault; "projects" has three files, a
move and no fault. In `cron_heavy` the cut "long" lets time pass and health change
with one worker; "crowded" has both workers and the manual call within one unit of
time. Each cut is the specification with more conjuncts in its next-state relation;
the theorems below have neither.

`CHECK_DEADLOCK FALSE` is set where the system may stop: the index and scan
models end when the bounded user has made all changes and the index is at rest,
`Cron` when the scheduler has ended and the clock is at its bound, and the two
monitored pool runs can end with a worker parked during shutdown,
which is the subject of `pool_shutdown`.

## Bounds

- *Pool.* Two workers with `MinThreads = 1` are the least with which scaling, a
  parked worker and a racing unpark all happen; two tasks of which either can be
  HIGH or LOW; `pool_cron` has two submitters so that two can wake the same
  worker. Tasks are interchangeable, hence the symmetry in `pool_monitored` (which
  checks invariants only).
- *Lifecycle.* All phases the daemon requests except Defunct (see below), two
  threads, a clock of three values so that readings can be stored late. `Capacity` is the
  code's 16.
- *Index.* Two workers suffice for each race between two tasks. Three changes
  (`MaxOps`) make an edit during a task and a second one during the next; four in
  `index_rename_race`, which needs two files with one content, a removal and an
  edit. `SameSize` gives all small contents one size so that size alone never
  tells them apart. `MaxIndexRetries = 2` has a failure below the cap and one at it.
- *Scans.* One worker, and one or two paths: a prune needs a path behind and one
  ahead of the walk; healing is checked per file because no content is shared. Two
  workers on one path race in `index_workers`, not beside the scans. In `reconcile`
  the contents `x` and `y` are interchangeable, and `x` is written first.
- *Cron.* One job per lock, and two workers and a caller so that three bodies can
  ask for two locks. Time is in units of the retry delay. Four units contain several heavy
  ticks, a full chain of retries and a cooldown that delays the first; a start
  with every possible time of a last success is among the initial states.

## Fairness and timing assumptions

- Threads of the operating system that can run do run: weak fairness per worker,
  submitter, monitor and joining thread, per transitioning thread and waiter, for
  the debounce thread per path, for the walk per path and for the scanner.
- `WF(Scan)` and `WF(Cleanup)` in `Reconcile` say that the scheduler goes on
  asking for rescans and stale cleanups. Both are recurring jobs; `cron_heavy`
  checks that a recurring job stays scheduled.
- `WF(Take)` says that a worker takes a queued task in the end. The worker's intake
  gate (`embed/pool.rs:699`), not modelled, holds tasks back while the database is
  down or disk or memory is under pressure; so `SelfHeal` and `BadFilesRest` are
  about a host on which these conditions do not last for ever.
- Nothing is assumed of the pool's workers in `Cron`, of the user, of faults, or of who calls `shutdown`,
  `transition` or `wait_for`.
- `DropEmptyProjects`: deleting a project under a task that is about to insert
  its first file makes the task fail. In `Reconcile` this race costs a fault, so
  it happens finitely often. Sweeps are minutes or hours apart and a task takes
  seconds; without the assumption a sweep could meet every attempt.
- The initial scan and the rescans follow one another in `Reconcile`; in the
  daemon a rescan is requested by a job whose first tick is later than the scan
  usually takes.
- `Cron`'s clock moves only when no task is due and the channel is empty. The
  scheduler polls hundreds of times per unit and its closures only submit work.
  If closures took longer than the intervals, due tasks would keep the channel
  and the termination flag from ever being read (`scheduler.rs:607`), and the
  bound in `RetriesBounded` would not hold.

## Proofs

TLAPS checks the following for all values of the constants that satisfy the
named assumptions of the modules. Those assumptions give types to the constants,
keep sentinels apart from data, and bound nothing the code leaves open.

| theorem | of | argument |
|---|---|---|
| `WorkPoolProofs!TypeCorrect` | `TypeOK` | one step per action; cursors into `worker_parks` stay in range |
| `WorkPoolProofs!CounterNeverBelowMin` | `CounterFloor` | what each thread has still to add or subtract is accounted for by its program counter |
| `WorkPoolProofs!MinThreadsStayUnparked` | `ParkRespectsMinThreads` | the counter that `park_n` tests can be too high, so the property is not inductive; it follows from a bound on unparked workers by the climber's estimate less the parks still to come |
| `WorkPoolProofs!CounterNeverUnderReports` | `CounterCoversUnparked` | unparked workers never outnumber the counter plus pending additions, until shutdown wakes all |
| `WorkPoolProofs!TasksConserved` | `TaskConservation` | the occurrences of a task in the channels, in workers' hands and among those run add up to one; each channel operation moves one |
| `DaemonLifecycleProofs!TypeCorrect` | `TypeOK` | one step per action |
| `DaemonLifecycleProofs!AnnouncementsPaidFor`, `TransitionNeverBlocks` | `AnnouncementsBounded` | each announcement, sent or to be sent, is paid for by a step up of the phase, and there are four |
| `DaemonLifecycleProofs!AnnouncedOnce` | `NoPhaseAnnouncedTwice` | a phase is entered only from below, and every message before it is at most the phase left |
| `DaemonLifecycleProofs!WaitForTellsTheTruth` | `WaitForSound` | every message in the channel or to be sent is at most the phase |
| `DaemonLifecycleProofs!ElapsedNeverTooLong` | `ElapsedNeverOverstated` | unless the last entry overtook another, at most one thread has a start time to store, and what it has read is not before the entry |
| `IndexWorkersProofs!TypeCorrect` | `TypeOK` | strengthened by what a worker carries at each program counter: it writes only hashes it has read or made |
| `IndexWorkersProofs!Isolation` | `ProjectIsolation` | strengthened by: pointers stay within a project, a worker's canonical id names a row of its project as long as it names one, and what a worker has read was held by its project |
| `IndexSharingProofs!UnsharedSkips`, `UnsharedServed` | `UnsharedSkipSound`, `UnsharedServedMatchesHash` | strengthened by: every content on disk, in a row or in a worker's hands is one its path has had, so look-ups of other files find no row of an unshared one; and what a worker has read is the disk's content if the mtime it took before is still the file's |
| `CronProofs!HeavyBodiesExclude` | `HeavyBodiesApart` | whoever is past the gate holds its lock and a lock has one holder; a body that ends leaves the gauge down, and one that raises it is inside |
| `CronProofs!GaugeTrueUnderOneLock` | `GaugeShowsBodies`, as long as only bodies under `heavy_cron_lock` run | then at most one body is inside, so no other drops its gauge |

Each proof has the form Init => IInv, IInv /\ [Next]_vars => IInv', IInv => Inv
with one step per action, and ends with PTL. `IsoInv` for instance is needed
because a row's pointer says nothing of the project it leads to; that the
canonical row was looked up within the project is in the worker's locals, and
that it is still there, or gone for good, follows because ids are not reused and
a rename does not leave the project.

Only model-checked: every liveness property (`SubmittedTasksRun`,
`ShutdownReleasesWorkers`, `WaitForReturns`, `SelfHeal`, `BadFilesRest`,
`SchedulerStops`), which is beyond the prover; and, so far, `TickScheduledOnce`
and `RetriesBounded`. (`UnparkedCoverClimber` is a lemma of `WorkPoolProofs`.)

## Disagreements between code and comments

Six are runs of their own:

- **A parked worker at shutdown** (`pool_shutdown`). The monitor tests the
  shutdown flag before it scales; its `park_n` (`pool.rs:195`) can follow
  `shutdown()`, whose comment is "Wake all parked workers so they can exit"
  (`pool.rs:229`). The join then ends by its timeout.
- **An edited duplicate** (`index_pointers`). The upsert of
  `replace_indexed_file` (`chunks.rs:117`) leaves `duplicate_of_file_id` set, so
  readers are still sent to the old canonical row.
- **Rename against re-index** (`index_rename_race`). `update_file_path_in_place`
  does not test that the canonical row still has the hash it was found by
  (`embed/pool.rs:1423`).
- **Prune behind the walk** (`reconcile_prunes`). A rescan loads its metadata
  after the walk has begun (`event_processor.rs:793`, thread started at `:773`).
- **One gauge, several locks** (`cron_gauge`). The gauge is documented as "1 if a
  heavy cron body is currently executing" (`stats/metrics.rs:250`) and as "exclusive
  via heavy_cron_lock" (`stats/tracker.rs:733`). Three jobs have locks of their own,
  and whichever body ends first stores `false` (`scheduler.rs:105`).
- **A skip overwritten** (`cron_outcome`). The stamps are compared and the default
  Ok is written in two accesses (`scheduler.rs:774`); the comment at `:756` expects the
  pool task of a heavy job to record after both. Light jobs, which record in place,
  are not concerned. The durable ledger is written separately and keeps the skip.

Met while modelling, and not kept as runs:

- `active_count` over-reports after two submitters unpark one worker
  (`pool.rs:144`); its accessor says "number of active (non-parked) workers" (`:208`).
- Two `wait_for` callers share one receiver, and one can block for ever
  (`reactive/subject.rs:39`; `daemon_state.rs:9` says transitions are broadcast
  "to all subscribers"). `wait_for(Terminating)` ignores a Defunct message
  (`daemon_state.rs:205`). Hence one waiter and no Defunct in the run.
- A late store of an earlier reading sets the start of the present phase back
  (`daemon_state.rs:120`; see `ElapsedNeverOverstated` above).
- Phase and start time are read separately, so the settle gate can combine Ready
  with the start of Scanning (`daemon_state.rs:117`; `scheduler.rs:209` speaks of
  a true "N seconds after Ready" gate).
- `insert_duplicate_file` leaves the row's old chunks (`files.rs:545`,
  `migrations.rs:932`); deleting a canonical row orphans its duplicates
  (`files.rs:186`; the promotion named at `migrations.rs:936` does not exist).
- A path can be both in the index and in the failure ledger
  (`embed/pool.rs:1324`, `event_processor.rs:349`).
- An older file of the same size moved over an indexed one is skipped
  (`event_processor.rs:403`). A move makes two files share a content, so
  `UnsharedSkipSound` is not about it.
- A file repaired between a worker's read and its failure record stays bounded if
  the event of the repair is lost (`event_processor.rs:425`).
- A walk that could not read a directory, and an initial scan cut short by a stop,
  are followed by the same prune (`event_processor.rs:460`, `:387`). A restart
  heals both, which is why `SelfHeal` holds.
- The scan compares nanosecond mtimes with a microsecond column
  (`event_processor.rs:403`): a file may be re-read at every
  rescan, and so is a file that was only touched (`embed/pool.rs:1410`), although
  "unchanged files rescan in O(stat)" (`embed/pool.rs:1079`).
- `trigger_cron` can run topics-size-history (`tool_trigger_cron.rs:47`) under
  `heavy_cron_lock` while its scheduled body runs under the job's own lock
  (`scheduler.rs:2299`): two bodies of one job at once.
- A rename whose canonical row has gone updates no row, reports success and clears
  the path's ledger (`files.rs:500`); the next scan indexes the file.
- Memory pressure that rises between the decision on the scheduler thread and the
  gate in the pool skips the run without a retry (`scheduler.rs:274`;
  `stats/tracker/outcomes.rs` calls such a skip "*wait-for-RAM*, not a lost cycle").
- A recurring closure that panics is never scheduled again (`scheduler.rs:790`).
  `TickScheduledOnce` excepts that job.
- A run that ends when the ledger's channel is full or its writer gone leaves no
  row (`cron/history/mod.rs:97`).
- `src/docs/architecture.md` says live edits take precedence through the HIGH
  channel; watcher and scans in fact share one index channel.

## What is not modelled

`PROJECT.json` lists every part with its reason. In short: the filter, override
cache and workspace commands of the event pipeline, embedding supervision,
health, tracker, realtime log, mailbox and sessions are in the plan. The scheduler's `ChannelDisconnected`
events (`scheduler.rs:636`) cannot occur while the daemon holds a `CronHandle`; a
panic of the walk thread and an error of the orphaned-project clean-up are left
out, as is the intake gate. Job bodies,
request handlers, start-up and migrations appear only as environment. Parsing,
graph, quality, search, language-model, rendering and numeric code has no
concurrent state of its own and is out of a model checker's reach.

## Plan

In this order; each new module gets an abstract statement of what it promises, a
run aimed at the hazards listed for it, and, once TLC agrees, a theorem.

1. `HealthOutbox`: prober, breaker, spool and replayer with crashes and a second
   outage during a replay. Promise: a spooled record is posted at least once
   unless counted as dropped. Abstract specification: a bag of records.
2. `WorkItems`: status matrix, evidence gate, claims and leases, unblock cascade
   as READ COMMITTED transactions, with the lease sweep and the session sweep.
   Promise: one live owner per item; judgment states only by their actors;
   an item whose blockers are resolved is not left blocked.
3. `EventPipeline`: filter, override cache, debounce, workspace commands and
   configuration watcher, refined by the pending set `IndexWorkers` uses.
4. `RealtimeLog`: sequence numbers, transaction ids and the reader's watermark.
   Promise: a reader misses no committed event.
5. `Mailbox`: receipts under several delivery channels.
6. `EmbedSupervisor`: construction, respawn, permits, intake gate, shutdown.
7. Composition of shutdown: lifecycle, pools, scheduler and scans.
8. Conformance and projection of small global types, against a reference
   definition.

Theorems to add: `TickScheduledOnce`, and the safety promises
of modules 1, 2 and 4. The number of runs is kept small: new modules take the place of runs
whose question a theorem has come to answer.
