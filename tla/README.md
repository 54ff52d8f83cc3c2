# Verification of the floom run engine

TLA+ modules, TLC configurations and TLAPS proofs about the parts of floom
(`src/apps/api/`) that decide what happens to a *run*: what creates it (the scheduler, the
chat tool), what queues, executes, retries, cancels and recovers it, who may let it act (the
approvals), where its command runs (the sandboxes), and what a client gets to see of it (logs
and streams). Line numbers are those of the sources under `src/apps/api/`.

| module | what it models | composition | proofs |
|---|---|---|---|
| `RunAttempts` | abstract: a trigger's work is attempted one attempt at a time | refined by `RunLifecycle` | |
| `RunLifecycle` | queue, drain, executor threads, retries, reaper, boot, shutdown, cancel | | `RunLifecycle_proofs`, `RunLifecycle_lineage_proofs` |
| `RunApprovals` | the approvals table beside the runs table: propose and execute runs, agents' questions, reviewers, expiry, boot reap | abstracts the executor of `RunLifecycle` | `RunApprovals_proofs` |
| `ScheduleTriggers` | scheduler ticks, claims, failure episodes, the pause policy | | `ScheduleTriggers_proofs` |
| `SandboxPool` | the E2B driver: attempts, warm pool, cancel | | `SandboxPool_proofs` |
| `LogStore` | abstract: an append-only store of log rows | refined by `RunLogs` and `RunStreams` | |
| `RunLogs` | the log pipeline: bounded queue, spool, flusher | | `RunLogs_proofs` |
| `RunStreams` | SSE streams of a run, and the run that writes and publishes | extends `RunLogs` | `RunStreams_proofs` |
| `ChatAuthoring` | idempotent start of worker-author runs, and the shared table of rate limits | | `ChatAuthoring_proofs` |

The `MC*` modules and the `.cfg` files are the instances TLC checks; `PROJECT.json` is the
machine-readable index (components, runs, mutants, source map, findings, hazards, theorems).
To repeat a run: `tlc -workers 2 -config RunApprovals_approvals.cfg MCRunApprovals`, and so on
for each `.cfg`; to repeat a proof: `tlapm SandboxPool_proofs.tla`.

## 1. The system

floom runs user-written workers (a script in an E2B sandbox, or an agent's tool
loop) on request, on a schedule, from chat or from a webhook. One FastAPI program takes two
roles (`WORKEROS_ROLE`, `run_service.py:210-234`): `web` answers requests, `worker` also
executes runs and ticks the schedule, `all` does both. Processes share one database; everything
else is memory of one process.

| component | state it keeps | operations | hard part |
|---|---|---|---|
| run repository (`db/sqlite.py`) | the `runs` table | `create`, `get_queued`, `claim_queued`, `update_status`, `cancel`, three bulk sweeps | only `claim_queued` and the sweeps are conditional on the status; `update_status` reads and writes in two statements |
| drain (`_drain_loop`, `_drain_one_batch`) | two semaphores, the wake event | poll, take permits, claim, register, start a thread, roll back | permits on every path; the row changes between poll and claim |
| executor threads (`execute_run`) | `_active_runs`, `_shutdown_cancelled_runs` | load, set up, call the driver, write one terminal status, retry | other actors write the row while the driver runs; every write may fail |
| E2B driver (`runner_sandbox/e2b_driver.py`) | `_active_sandboxes`, `_warm_pool` | attempts, lease or create, register, command, return or kill | sandboxes are remote: calls fail, connections drop, commands go on |
| agent driver (`runner_sandbox/agent_driver.py`) | its loop | `request_approval`: ask, park, poll, withdraw | it polls a row that others decide |
| retry scheduling (`_schedule_retry*`) | rows with a hashed id | classify, budget, look for a child, insert | look-up and insert are two steps; two askers |
| reaper and startup recovery (`recover_abandoned_runs`) | none | fail stale rows, insert restart retries, reap parked approvals | must not touch what is alive, must find what is dead |
| graceful shutdown (`request_active_run_shutdown`) | a list of threads | mark, flag, kill, join, requeue in place | the status is not read before the requeue |
| cancel endpoint (`cancel_run`) | none | read, flag, kill the sandbox, write a status | decides by a status it read first |
| approvals (`routers/approvals.py`) | the `approvals` table | ask, approve, reject, expire, spawn a follow-up or a feedback retry | claim, settlement and follow-up are separate transactions |
| scheduler (`scheduler.py`) | `worker_triggers`, schedule fields of `workers` | list, claim, fire, record, advance, mirror | double, missed and late fires; claims that run out |
| pause policy (`services/run_pause_policy.py`) | `auto_paused` fields | look back, decide, pause | rows of three origins, read and written in steps |
| run logs (`run_service.py:1640-1990`) | `_log_queue`, the spool file | enqueue, spill, flush, retry | no row may be lost where everything is bounded and may fail |
| run streams (`services/sse_streaming.py`, `routers/runs.py`) | replay buffers, subscribers' queues | publish, replay, subscribe, poll, resume | replay joined with live items; drops; other processes |
| chat authoring (`services/chat_throttle.py`), quota (`services/quota.py`) | `chat_tool_idempotency`, `run_create_rate_limits` | reserve, claim, refund, record, release | one table for windows of different lengths; three-step start |
| alerting, channels, chat, webhooks, contexts and git, registry, connections, auth, web UI, MCP, CLI | their own | I/O around the above | see section 7 |

How they interact: a trigger calls `create_run`, which inserts a `queued` row and wakes the drain;
the drain claims it and starts a thread; the thread calls a driver, which registers what a cancel can
kill and logs and publishes on the way; the thread ends with one terminal status, a retry, or a row
parked as `pending_approval`. Reviewers, cancels, the hourly sweep, the reaper and a booting
process act on the same rows, and none of them holds a lock while it does.

What makes each part correct, in a line: a row is executed by at most one thread and its side
effects happen only when approved, and not again once they are carried out; a lineage of retries is finite and
has one branch; a schedule slot is handled once and no schedule stalls; a sandbox serves one run and none that
the code knows of is forgotten; no log row is lost and a stream that says it is done is complete; a key starts
one run; permits come back; every run ends. Where the code does not keep this, section 6 says so.

## 2. How the models are made

One repository call, or one block under `get_db`, is one step: another thread or process may act
between two of them, and what a function does between two calls belongs to the step before or after.
What the code's control depends on is kept (statuses, flags, sources, ids, claims, slots, sizes);
texts, payloads and wording are not. Outcomes that depend on data the model does not have (does the
setup succeed, what does the driver report, is the failure retryable, is a proposal valid) are free
choices. Faults are steps of their own, counted and bounded (`MaxFaults`, or `MaxEvents` together
with the changes made by users), and each names the call that fails. History variables remember what a
property is about (`begun`, `fired`, `answers`, `killed`, `starts`, `granted`) or which of the
code's documented or observed weak spots a behaviour went through (`stranded`, `crossed`,
`overtaken`, `disordered`, `unended`, `escaped`, `unseen`, `broken`, `unnamed`, `stuck`, `overlap`), so that a
property can say exactly what is promised besides. No guard reads them, but for `faults` and the bounds.

## 3. The modules

### 3.1 `RunLifecycle`: from queue to end

#### State

* `runs`: the table. A row keeps what these properties depend on: `status`,
  `source` (`trigger_source`), `attempt`, a class of error, `cancelRequested`,
  and `executionLog` (whether a durable sandbox log line exists, which the
  dispatch-orphan sweep asks for). Run ids are `[root, path]`: the code derives a
  retry's id by hashing (parent, attempt, source), so the path of sources from the
  root *is* the id, and `RetryRunId` is injective as the hash is meant to be.
* The executor process: `proc`, the semaphores `free` and `llmFree`, `drain` (the
  row the drain has permits for), `thread` (the registry of active runs with each
  thread's program counter), `marked` (`worker_command_started`), `interrupted`
  (`_shutdown_cancelled_runs`), `snapshot` and `unflagged` (the shutdown's list),
  `reaping` and `recreating` (the recovery pass).
* `cancel`: requests inside `cancel_run`, with the status each one read.
* History: `begun`, the runs whose command or tool loop has started.

#### Steps

One repository call is one step, because another thread or process may act between
two of them; what a function does between two calls belongs to the step before or
after. So `update_run_status(completed)` is `ReadForCompletion` and
`WriteCompletion`, `_schedule_retry` is `CheckRetry` and `CreateRetry`, `cancel_run`
is `CancelRead`, `CancelFlag` and `CancelSettle`, the shutdown is `StopLoops`,
`ListActiveRuns`, `MarkActiveRuns`, `FlagActiveRun` for each run, `JoinActiveRuns`,
`RequeueInPlace` for each run, `ExitProcess`.

A thread moves through these stages (the ones in brackets only on some paths):

    claimed -> scoped -> setup -> dispatching -> sandbox -> command -> returned
      |           |        |          |             |                     |
      |           |        |          +-- DriverRaises --> retry_check    +-> completing -> finishing
      |           |        +-- FailSetup --> exit          retry_create   +-> retry_check -> retry_create
      |           +-- ThreadCrashes --> crash_write        fail_write     +-> exit
      +-- early_cancel                  requeue_check
                                        requeue_create     ... all end in exit -> unregistered

The order on the two retry paths is the code's: a driver that *returns* a retryable
failure has its row failed first and its retry made afterwards, an exception that
*leaves* the driver makes the retry first and the failed row afterwards.

#### Faults

`Faults` names the kinds a configuration allows and `MaxFaults` how many may
happen: `crash` (the executor dies at any point), `shutdown` (SIGTERM), `spawn` (a
claim or thread start that raises, and the rollback), `thread` (an exception before
`execute_run`'s own handler is in force), `read` and `write` (a repository call that
fails and is logged), `web` (a web process dies inside a cancel), `slow` (an
executor sits in its pre-sandbox stages longer than the dispatch-orphan timeout).

#### Abstractions

* Time. A retry may be drained any moment after its insert. A running row without
  a thread may be reaped any moment: the stale window and the liveness window by
  recent log lines only delay the reap, and a row whose thread is gone gets no new
  lines.
* Free choices instead of data: whether setup succeeds, what the driver reports,
  whether a failure is retryable, whether a spend cap skips a retry
  (`SkipRetry`, `SkipRestart`, `ReaperSkip`, `SkipInPlace`).
* `MaxAttempts` stands for the largest retry budget; the code gives some error classes
  a smaller one, which only removes steps. A run has at most one cancel request in
  flight; `MaxCancels` bounds how many are made in all.
* Configuration: auto-requeue on and at least one restart retry, the defaults.
  Switching them off removes steps.
* The sandbox: a started command that outlives a crashed executor is not a thread
  of the model; `begun` still remembers it.
* `ReapSlow` lists threads before it updates, so it may hit one that entered its
  driver since. No other listing in the sweeps is stale in a way the model tells
  apart: a thread that ended after the listing is one the next sweep finds.
* One executor process; any number of requests. The single-statement sweeps of the
  boot are one step.

#### The contract: `RunAttempts`

`RunAttempts` says what the engine promises of a job, the work one trigger asks for: its attempts are numbered, each
waits, is worked on or is over, only the newest may move, one whose worker has begun is not tried again, and a new
one comes only after the last is over and within the budget. Under `ImplementsRunAttempts` a job is a root, an
attempt is a row together with its thread, its number is the row's `attempt`, and its worker has begun if the row is
in `begun`. It is worked on while a thread is on its way to the worker or in it (`Executing`), else it waits if the
row is `queued`, else it is over. A job is *loose*, and nothing more is promised of it, once a shutdown has requeued
one of its rows in place, which renames the row's source (section 6).

### 3.2 `RunApprovals`: who lets a run act

`approvals.required` workers run in two phases. The propose run ends parked: `AskForRun` (the approval
row) and `ParkRun` (the status) are two steps, in this order. `approve_run` is `ReadRun`,
`ReadApproval`, `LazyExpire`/`RereadApproval` where the deadline has passed, `ClaimRunApproval` (the
conditional UPDATE), `SettleRun`, `CreateFollowUp` (inserted as `running`, so that no drain takes it),
`AttachFollowUp`, `QueueFollowUp`; `reject_run` shares the claim and ends with `CreateFeedbackRetry`.
An agent asks with `AskInLoop`, parks its own run, polls and goes on (`PollDecided`), or gives up and
withdraws (`PollGivesUp`, `WithdrawAsk`); its reviewers only claim. `StampPhase` and `GateRun` are where
`_is_engine_approved_execution_run` is asked, through the chain of retries. `SweepStale` is the hourly
sweep, `CancelRead`/`CancelFlag`/`CancelSettle` the cancel, `FailInterrupted`, `RestartLost`,
`FailParked`, `RejectOrphaned` and `Resume` the boot.

The executor is the one of `RunLifecycle` without its stages: a thread loads the row, works, fails or ends.
The worker's code is taken to keep its contract: it acts in the execute phase only. Retries are made as for any
run, whatever its phase (`run_service.py:4988-4999`, `875-970`, `978-1030`): a failure that the driver reports, before
the side effect or after it (`WorkFails`, `LoopFails`), is written (`FailReported`) and then retried or not
(`RetryRun`, `SkipRetry`); an exception that leaves the driver (`WorkRaises`) is retried first and written
afterwards (`FailRun`). Retries and restarts are the attempts of a run (`Child`), each with one next at most; a
follow-up's are stamped to execute through the chain of parents.
`Faults` are a crash, a failure of a driver, an aborted request, and writes to the approvals table that fail
and are only logged (an ask, an expiry, a rejection). `SplitRoles` says whether requests are served by another
process than the executor's.

### 3.3 `ScheduleTriggers`: what a schedule does

A tick is a list of rows handled one after the other with the time read at its start; each row goes
through `ClaimRow`, `NoteMissed` if it is late, the busy guard (`SkipFire`), `CheckSetup`, `CreateRun`,
`MarkFired`, or through the failure paths `RecordRowError`, `ConsiderEpisode`, `RecordFireFailure`,
`Advance`. `MirrorRows` is `_sync_legacy_schedule_state`; `ListWorkers` starts the second pass, over the
schedule fields of workers without rows. `ConsiderPause` and `PersistPause` are the pause policy, which
`FailRunForLack` also takes from the executor's side, for a missing secret or a model that is not configured,
while `CheckSetup` foresees a missing secret or connection only (`Foreseen`). Beside it time passes, runs start
and end, and users edit, pause and resume workers, remove what they need, exhaust caps. A cron expression is
a period. Any number of schedulers may tick.

### 3.4 `SandboxPool`: where a command runs

Each run's thread goes round the attempts of the driver: check the flag, lease (`Lease`, `Discard`) or
`Create`, `Register`, prepare, check the flag again, `Start`, `Return` or `Drop` or `Recover`,
`Unregister`, then `Probe` and `Pool`, or `Release`. A cancel is `Flag`, `LookUp`, `KillTarget`: the
lock is released between the last two. `ClearPool` is the shutdown's, `Expire` a sandbox's end of life.
A create may fail and leave nothing, or fail because its answer was lost
(`CreateFails`): its sandbox is then up, no code knows of it (`unseen`; `e2b_driver.py:2358-2471`, `2740`), and
the loop goes on to the next attempt. Kills may fail, which is only logged (`escaped`); a command goes on in its
sandbox until it returns or the sandbox is down (`commands`).

### 3.5 `LogStore`, `RunLogs`, `RunStreams`: what is written and what is seen

`RunLogs` is the pipeline: `Enqueue` (queue, or spool once the queue was full), the flusher's `TakeRow`,
`WriteTaken`, `Peek`, `Written`, `WriteFailed`, `ClearSpill`. `LogStore` is what it promises: rows are
accepted, and stored each once, in their order until the order is given up. `RunLogs` has the refinement
(`Store == INSTANCE LogStore WITH accepted <- logged, stored <- table, orderly <- ~disordered`).

`RunStreams` extends it with one run that logs, publishes and ends, and one client that opens either
`/runs/{id}/logs/stream` or `/runs/{id}/stream`, in the run's process or in another, and who owns the run's worker
or does not. A read of the table returns the oldest `limit` rows (`list_logs`, 10,000; `db/sqlite.py:143`,
`3033-3061`), and the look for the drain marker finds it for the owner only (`LogsDrained`,
`db/sqlite.py:3008-3028`). `WriteStatus`, `EnqueueMarker` and `PublishStatus` are `update_run_status`; `Settle` is
`approve_run`'s direct write beside it. A publication is posted to the event loop and delivered later (`Deliver`),
or dropped when the client's queue is full. The endpoint replays (`StartLogs`, `StartParts`), subscribes, receives,
polls, waits for the drain marker (`Drain`) and says done. A lost connection comes back with its Last-Event-ID,
which counts items. Left out are a spool that cannot be written (its rows are dropped with a line in the process's
log) and, on replay, the collapse of a command's error output that was logged twice (`sse_streaming.py:327`).

### 3.6 `ChatAuthoring`: one run per key, and the rate limits

`_idempotent_worker_author_run` is `Reserve` (INSERT OR IGNORE), `ClaimDraft`, `ClaimRun`, `Refund`,
`Register`, `Create`, `Record`, `Start`, `Release`; every claim first deletes the rows older than *its
own* window, whatever their key (`Recent`), and so do the endpoints' claims (`EndpointClaim`,
`services/quota.py:76`). A claim reads the clock before it waits for the lock of the table
(`chat_throttle.py:32-34`, `quota.py:62-64`), so `Claimed` has any time in `Read`, up to `MaxLag` behind the
clock, and claims commit out of the order of their times. A call may raise, a process may die.

## 4. Runs

| run | instance | checks | result |
| --- | --- | --- | --- |
| `safety` | one root, LLM-intensive, 1 permit, 2 attempts, all faults but `slow`, at most 2; 1 cancel | `TypeOK`, `CommandStartsOnce`, `LineageBounded`, `OneRecognisedChild`, `LiveCommandIsVisible`, `CompletedIsHonest`, `ImplementsRunAttempts`, `EventuallySettledOrStranded` | holds, about 758,000 states |
| `liveness` | two roots (a script, an LLM-intensive agent), 2 permits, 1 LLM slot, 1 attempt, 1 fault of any kind but `spawn` and `web` | `PermitsBalance`, `EventuallySettled`, `EventuallyIdle` | holds, about 105,000 states |
| `approvals` | one proposing worker, one agent that may ask twice, one of which is triggered; two attempts each by policy; two reviewers; one cancel, one fault of six kinds; one process | `EffectIsApproved`, `OneNewRun`, `EffectOnceUnlessCut`, `ParkedIsAttended`, `ApprovedNotAskedAgain`, `DecisionIsFinal`, `EventuallyNoneParked`, `EventuallyCarriedOut` | holds, about 956,000 states |
| `schedules` | one scheduler, one worker with one row, every moment or every other one, that may lack a secret or a model; threshold 2; clock to 3; one change or fault | `SlotHandledOnce`, `PauseIsEarned`, `PauseComesInTime`, `EpisodeIsCoalesced`, `EventuallyAdvanced`; deadlock | holds, about 413,000 states |
| `sandboxes` | two runs with one key, four sandboxes, a pool of one, two attempts, two cancels, three faults, among them creates that fail or whose answer is lost | `UsedByOne`, `NoCommandLeftBehind`, `CommandStartsOnce`, `CancelledIsStopped`, `NoSandboxLost` | holds, about 3,381,000 states |
| `streams` | queue of 1, batch of 1, two rows and a marker (logs) or one and a marker (parts), one part, a client queue of 1, one failed write, one lost connection; six kinds of client: either stream in either process, a log stream of somebody who is not the owner, one that reads one row | `NothingLost`, `DoneIsComplete`, `RowsShownOnce`, `PartsInOrder`, `ClosedWithFinish`, `ImplementsLogStore`, `EventuallyStored`, `EventuallyClosed` | holds, about 766,000 states |
| `authoring` | two calls, two keys, drafts 2 in 3, runs 1 in 3, endpoint 2 in 2 units of time (a request claims up to 2), a wait for the lock of up to 1, clock to 2, one fault | `RatesHeld`, `OneRunPerKey`, `KeyIsFreed` | holds, about 545,000 states |
| `one_child` | one root, 2 attempts, shutdown and lost write | `OneChildPerAttempt` | violated |
| `beside_retry` | one root, 2 attempts, one shutdown | `NeverRequeuedBesideRetry` | violated |
| `agent_again` | one agent root, one shutdown | `NeverReexecuted` | violated |
| `cancel_queued` | one root, one cancel, no fault | `CancelledQueuedNeverStarts` | violated |
| `draft_limit` | two calls, one draft in 2 units of time, no fault | `DraftRateHeld` | violated |

Every property of a passing run has a mistake (a definition marked "Mistake" in the module) that
breaks it in that very instance. For example: a cancel without its flag, a decision that is not conditional
on the row being pending, a follow-up that is drainable before its approval names it, a boot that reaps
proposals only, a slot whose time is not advanced, markers that count as attempts, a pool entry that
stays while it is leased, a flag that is not read again before the command, a spool acknowledged as
a whole, a log stream that takes a logged marker for a stored one, a reservation taken over while pending.

`CHECK_DEADLOCK FALSE`, but for `schedules`: a system whose runs are settled and whose requests and
faults are spent stops. A scheduler ticks for ever.

### What the runs show

* `safety`, `liveness`: starts, lineages, retries, honesty of rows, permits, and that every row ends; however
  drain, threads, retries, sweep, boot, cancels and crashes interleave, a trigger's work is attempted one attempt
  at a time. `RetiredStaysRetired`, the part of that contract which holds of every row whose own source is kept,
  is proved (5.1) and not repeated in a run.
* `approvals`: a side effect is fired only by the follow-up of an approval that stands as approved, or by a retry or
  restart of that; again only where the attempt that had fired it died with its process or its driver failed
  (section 6); however many reviewers, sweeps, deadlines and boots decide at once, the first decides and a parked
  run gets one new run; nothing stays parked, and what is approved is carried out, unless a fault stranded it
  (`stranded` names which run).
* `schedules`: a slot is handled once and reported late once; the policy pauses a worker only when
  the last attempts all failed for the same lack, and then at once, unless markers of late fires crowd the
  failures out of the rows it reads; one exhausted cap leaves one row; and whatever single call
  fails, the schedule is advanced in the end.
* `sandboxes`: no sandbox is shared, or pooled with a command in it, and none whose creation was answered is
  leaked; attempts start one command; a finished cancel has stopped it.
* `streams`: no row is lost whatever fails; done means complete, up to the limit of a read; the joins of replay,
  buffer, live items and polling neither repeat nor swap; the owner's streams close although publications are
  dropped or come from another process.
* `authoring`: limits hold under concurrent claims with other windows and with clocks read out of order, over
  the shortest window less the wait for the lock; a key starts one run and is freed.

### Why the bounds are enough

* `safety`: all its properties speak of one lineage, and lineages meet only at the permits; so it takes
  one root and spends the states on two attempts, a restart on top of them, and pairs of faults (a crash
  during recovery from a crash, a shutdown after a lost write, a cancel that dies while a dispatch is
  rolled back). The restart of a retry and the retry of a restart both need two attempts, and every
  finding needs at most two faults. `liveness` takes two roots because its subject is the
  competition for permits, where one run is light and one is heavy. With two such roots, one permit, two
  attempts and one fault (176,000 states) `ImplementsRunAttempts` holds as well.
* `approvals`: two reviewers are what a race needs; an expiry, a cancel, an agent's deadline and a boot are further
  deciders beside them. With two attempts by policy a follow-up has one retry, and a restart beyond the budget: a
  retry that dies with its process. The run has one fault, so its chains are follow-up -> retry and follow-up ->
  restart; `RetryChainMax = 3` is longer than either. With two faults (a crash and a failure of a driver), no cancel
  and so the chain follow-up -> retry -> restart the safety properties hold as well (351,000 states); with
  `RetryChainMax = 2` TLC finds `ApprovedNotAskedAgain` violated there. Two roots at a time meet nowhere but in the
  sweeps, which treat rows one by one. An agent that may ask twice has an old decided row beside a new one. The
  safety properties are proved for all sizes (5.5).
* `schedules`: a threshold of 2 within a clock of 3 lets a worker fail, be paused, resumed and fail
  again across a change of month; two lacks, one that the scheduler foresees and one that only the executor
  meets, let a series be broken by another code. With two schedulers, a clock to 2 and no
  change or fault (4.0 million states) `SlotHandledOnce` holds, and is violated at once if every claim is granted.
  The safety properties are proved for any number of schedulers, workers and rows and any clock (5.6), which
  showed what these bounds hide (section 6, *Schedules*).
* `sandboxes`: two runs with one key and a pool of one let a sandbox be leased, returned, displaced and killed under
  another's cancel; three faults cover a failed kill after a lost connection after a create that failed or whose
  answer was lost; four sandboxes let each of two runs lose one such. The proved properties do not depend on the
  bounds.
* `streams`: sizes of 1 make the queue overflow, the spool fill and the client's queue drop with two rows; rows
  beyond that add length but no new case of being before or behind a marker, a subscription or a failed batch. A
  limit of 1 is reached by the second row, a limit of 2 is not. The pipeline's properties and the client's are
  proved for all sizes (5.3).
* `authoring`: two calls with one key or with two; three moments and windows of 3 and 2, so that a claim of the
  endpoint deletes rows that a window of 3 still needs; a lag of 1, so that a claim with the later clock is
  first; limits of 1 and 2 so that a claim is refused after another succeeded. With `SafeSpan` replaced by
  `Shortest`, or by the key's own window, TLC finds the limit of the same instance overdrawn. The span that is left
  is one moment long; with windows of 4 and 3 and a clock to 3 it is two, and the two invariants hold there as
  well (2.0 million states, without the liveness property). The theorem has any windows (5.4).

### Fairness

* `RunLifecycle`, `RunApprovals`: `WF_vars(Progress)`: as long as some thread, loop, handler or the service
  manager has something to do, something of it is done. Threads are OS threads, loops wake at fixed
  intervals, a handler runs to its end, the service manager restarts a process that has exited. One weak
  fairness for all is enough where nothing bounded goes round in a circle: every step moves a
  thread, a row or a counter forward. Requests, cancels and faults are not fair.
* `ScheduleTriggers`: time passes, and each scheduler goes on with its tick and starts the next.
* `RunStreams`: the threads go on with what they have begun (publish, enqueue the marker), the flusher
  flushes, the event loop runs its callbacks, and the client comes back. The run need not
  log, publish or end, and no timer need fire.
* `ChatAuthoring`: a handler runs to its end, each for itself. `SandboxPool` has safety only.

## 5. Proofs

Eight modules, no assumption but the named ones on the constants, and the hypotheses of theorems named below.

### 5.1 `RunLifecycle_proofs` and `RunLifecycle_lineage_proofs`

For any roots, permits, budgets, faults and cancels:

| theorem | property | inductive invariant |
|---|---|---|
| `TypeCorrect` | `TypeOK` | `TypeInv` and `PermitsInv` and `Separation` |
| `PermitsAlwaysBalance` | `PermitsBalance` | `PermitsInv` (with `TypeInv`, `Separation`) |
| `CommandsStartOnce` | `CommandStartsOnce` | `CommandInv` |
| `LineagesStayBounded` | `LineageBounded` | `LineageInv` |
| `CompletedHonest` | `CompletedIsHonest` | itself, with `TypeInv` |
| `OneChildRecognised` | `OneRecognisedChild` | `LineagesInv` |
| `RetiredForGood` | `RetiredStaysRetired` | `LineagesInv` |
| `LiveCommandsVisible` | `LiveCommandIsVisible` | `LineagesInv` |
| `AttemptsImplemented` | `ImplementsRunAttempts` | `AttemptsInv` (with `LineagesInv`) |

The last four are in `RunLifecycle_lineage_proofs` and have the hypothesis `"slow" \notin Faults`; with
the fault TLC finds their properties violated (section 6).

*Why strengthening is needed.*

* `TypeOK` bounds the semaphores from above, and a release keeps the bound only if
  somebody held the permit. `PermitsInv` says permits and holders are equinumerous;
  for that a step must add or remove one holder at a time, and the row the drain is
  claiming must not already be one that has a thread: `Separation`. Cardinality
  arguments (`OneMoreHolder`, `Acquiring`, `Releasing`) use `FiniteSetTheorems`.
* `CommandStartsOnce` is about rows and threads at once. `CommandInv` adds that a run
  that has begun is in `marked` as long as it has a thread or a place in the shutdown's
  list, so that the shutdown's test sees it, and that the drain does not hold it, so
  that no rollback puts it back to `queued`.
* `LineageBounded` is not inductive: a row's attempt is bounded only because the row
  whose child is about to be inserted is. `LineageInv` ties what a thread at
  `retry_create`, and the recovery pass at `recreating`, has checked to the row.
* `OneRecognisedChild` compares two look-ups and two inserts. `LineagesInv` says that whoever is
  about to insert has seen no child (`BranchInv`), and that what recovery has failed has no thread and is
  in nobody's hands until it is restarted (`RecoveryInv`), so that a thread and recovery are never about
  to insert for one run. `RecoveryInv` needs that the drain never holds a running row and that a
  process that is down has no thread (`DownInv`). `RetiredStaysRetired` and `LiveCommandIsVisible`
  follow from what the parent is when a child is born, and from what keeps a row in a driver's hands
  `running`.
* `AttemptsImplemented` needs that a root's rows can be told apart by their numbers and that the newest is
  the one without a child (`OrderInv`, which needs that the row of the trigger never goes: `FirstInv`), and that an
  agent's run, too, is never queued or on its way to its worker again once that has begun (`StartedInv`;
  `CommandInv` says so of commands, whatever a shutdown does). Then every step of a root that is not loose either
  adds a row, which is a `Submit` or a `Retry` (`OneNewRow`), or adds none and moves at most its newest attempt
  (`NoNewRow`, from what `AttemptAdvances` says of one row).

*Layout.* A few lemmas say once what any step may do to the table (`TableSteps`), to
the memory (`MemorySteps`), to a thread (`ThreadStepMoves`), by insertion
(`InsertionSteps`) and to `begun` (`StartSteps`); each invariant is then proved from
those effects and not action by action again.

### 5.2 `SandboxPool_proofs`

For any runs, keys, sandboxes, pool sizes, attempts, cancels and faults: `SandboxUsedByOne` (`UsedByOne`),
`NoCommandIsLeft` (`NoCommandLeftBehind`), `CommandStartsAtMostOnce` (`CommandStartsOnce`), `CancelStops`
(`CancelledIsStopped`), `SandboxesAreKept` (`NoSandboxLost`: what is up is used, pooled, or one whose kill failed or
whose create call's answer was lost). One inductive invariant, `PoolInv`, carries all five, since they need each
other: that no command is left in a pooled sandbox needs that the sandbox was the run's alone, which needs that it
left the pool when it was leased. Its further parts: `ShapeInv` (where a thread has a sandbox, and that one it means
to keep has a key), `StartInv` (up to `starting`, and where the attempt will be repeated, no command was started),
`NewInv` (nobody has a sandbox that was not created), `UpInv` (commands go on only in a sandbox that is up),
`KeptInv` (a sandbox to be kept is idle), `OwnerInv` (a command goes on under the run that started it, or its
sandbox has escaped or was kept unended), `CancelInv` (from registration on, a cancel request that is not over finds
the run's sandbox, and one that is over has ended it). The pool is a function to sequences; `PopPool`, `PushPool`
and `ShiftPool` say what its three operations do to the set of pooled sandboxes and to uniqueness, and the step
lemmas use only that.

### 5.3 `RunLogs_proofs` and `RunStreams_proofs`

`PipelineImplementsLogStore`: for every size of queue and batch and any number of failures, the pipeline
implements `LogStore` (initial state to initial state, each step to `Accept`, `StoreNext`, `StoreAny`,
`GiveUpOrder` or a stutter). The invariant `PipelineInv` says that table, hand, queue and spool together
hold every row once, that spooled rows are in spill mode, and that, while ordered, they are in this
order the sequence `1 .. logged`. `RunStreams_proofs` shows that every step of the composition is a step
of the pipeline or leaves it alone, and concludes `StreamsNothingLost` (`NothingLost`),
`StreamsImplementLogStore` (`ImplementsLogStore`) and `DrainHonest`: a log stream that waited for the drain
marker and has left it has every row logged before the terminal status in the table, so that its last
look finds them all.

What the client sees, for either kind of stream, any sizes of its queue and any number of lost connections,
dropped publications and failed writes:

| theorem | property |
|---|---|
| `DoneComplete` | `DoneIsComplete` |
| `RowsOnce` | `RowsShownOnce` |
| `PartsOrdered` | `PartsInOrder` |
| `FinishCloses` | `ClosedWithFinish` |

They share one inductive invariant, `ShownInv`, which counts what was shown together with what is on its way (posted
to the loop, or in the client's queue):

* `ChannelInv`: that queue is registered only while the endpoint waits for items, so nothing that was sent
  to an earlier connection reaches a later one;
* `LogsInv`: of the rows shown and on their way none comes twice, except the row that was stored and not
  yet published when the client subscribed, and that one at most twice;
* `PartsInv`: shown, on its way and buffered, the parts are in an order whose last is the finish part,
  and nothing follows it;
* `DoneInv`: a log stream that has said done shows the rows logged before the status, up to the `limit` of its
  last read, for any limit; from `DrainHonest`'s invariant.

`LogsOf`, the rows of a stored sequence, is defined by rank (the n-th log is the one with n - 1 logs before it) and
not by recursion, so that the prover can reason about it with the cardinality lemmas.

### 5.4 `ChatAuthoring_proofs`

`KeyStartsOneRun` (`OneRunPerKey`): a reservation has one owner at a time and is pending as long as it has
(`OwnerInv`), only a request past the creation has a run (`EarlyInv`), and a created run is named by
its key's row, or its own request is the one that is about to name it (`NamedInv`).
`RatesAreHeld` (`RatesHeld`) has no hypothesis on the windows: for any windows, limits, costs and waits for the
lock, no span of `SafeSpan == Shortest - MaxLag` moments has more grants of a key than its limit, where
`Shortest` is the shortest of all windows. `TableInv` says that of the shortest window that ends now the table
has exactly what was granted: a claim deletes what is older than its own window, counted from a time that is not
later than now. A claim at a time at most `MaxLag` behind the clock therefore counts everything that was granted
in the `SafeSpan` before it *and after it*, up to now, so that a claim that commits behind one with a later time is
counted too. Over a whole window this is false (section 6), and over a window longer than the shortest it is
false even where the order is kept, which is the finding `draft_limit`. `Total` is a cardinality, and induction
over numbers is done with a least counterexample (`LeastNatural`), since the library's induction theorems take
operators.

### 5.5 `RunApprovals_proofs`

For any runs, agents, asks, reviewers, cancels and faults:

| theorem | property | hypothesis |
|---|---|---|
| `TypeCorrect` | `TypeOK` | none |
| `FirstDecisionStands` | `DecisionIsFinal` | none |
| `OneNewRunOnly` | `OneNewRun` | none |
| `OnlyApprovedEffects` | `EffectIsApproved` | `~SplitRoles` |
| `EffectNotRepeated` | `EffectOnceUnlessCut` | `~SplitRoles` |
| `ApprovedIsNotAskedAgain` | `ApprovedNotAskedAgain` | `~SplitRoles`, `RetryChainMax > MaxAttempts` |
| `ParkedAttended` | `ParkedIsAttended` | none |

The hypotheses are needed: with `SplitRoles` TLC finds the properties of these three violated (section 6), and with
a look-back that is shorter than a chain, the last. The code looks back 20 parents
(`run_service.py:4228`); `max_attempts` is at most 10 in a worker's manifest (`models.py:2794`), but
`WORKEROS_INFRA_RETRY_MAX_ATTEMPTS` has no upper bound.

`BaseInv` holds for one process and for two. Its core is `WinnerInv`: of two requests on one run only one gets past
the claim, because the claim finds the one approval of the run pending, leaves it decided, and no row that is
decided is pending again. Of attempts it has that a thread to be retried has a driver that failed (`BrokenInv`) and
that only a restart is beyond the budget (`BudgetInv`). `ProcessInv` adds what the process guarantees when its death
takes the requests with it. A row named by an approval is the follow-up of a request that won (`FollowUpInv`); an
attempt has the attempt before it as its parent (`ParentInv`) and all before it in the table (`LineInv`); whoever
fires, or acts as approved, continues an approved follow-up (`ActorInv`, `ApprovedInv`), and whoever asked does not
(`AskedInv`). That nothing is repeated is `RestartInv`: a run that has a next attempt, or that recovery is about to
give one, was cut short, or will not act any more and never has. It needs `RunningInv`: a row that recovery finds
running, and that has acted, was cut short, by the crash or by its driver. Chains need no induction: a parent is
inserted before its child and never changes, so a chain stays the chain it was (`ChainsKept`), and a chain without
its first run is the chain of the parent (`ChainTail`). As in 5.1, a few lemmas say once what a step may do to rows,
approvals, threads, requests and the rest (`StepMoves`), and each invariant is proved from those effects.

`ParkedIsAttended` relates a parked row to everything that may still release it: its pending approval,
the request that has claimed it, the boot that has yet to look. Its invariant, `AttendInv`, adds to `BaseInv` that
a row that has not been parked has not been seen parked by a reviewer (`FreshInv`), that a thread about to park
has put up an approval that is undecided and not yet due, unless that write was lost, and one that has failed has
not parked its row (`ParkingInv`), that a boot leaves no row parked and a parked agent polls (`BootInv`), and that
only an agent's approval is decided on its own (`ToolInv`).

### 5.6 `ScheduleTriggers_proofs`

For any schedulers, workers, schedule rows, periods, lease, thresholds, changes and faults: `TypeCorrect`;
`SlotsHandledOnce` (`SlotHandledOnce`), and, on the policy and the record of failed fires, `PausesEarned`
(`PauseIsEarned`), `PausesInTime` (`PauseComesInTime`) and `EpisodesCoalesce` (`EpisodeIsCoalesced`).

*Slots.* A slot is fired once and reported late once. The run has one scheduler, whose
ticks cannot interleave; the theorem has any number. The inductive invariant `SlotInv` speaks of a row at a time, a
schedule row or the schedule of a worker without rows:

* the slots that were handled are not later than the last tick (`Known`);
* whoever handles a row is alone with it and holds its claim (`Alone`), handles a slot that is due (`Due`), and that
  slot is later than those before it, or is the one it has just recorded (`Past`);
* the next time of a row that nobody handles is later than all slots that were handled (`Ahead`);
* a worker with rows is handled by them only (`ByRows`).

`Ahead` is what a claim needs: the row has the time it was listed with, nobody has its claim, so the slot is new. It
does not survive a claim on a row that has changed since, an expired lease, a first time computed by a tick that is
behind another one, or the pass over workers' own schedules taking a worker with rows: these steps put the worker into
`crossed`. The proof follows the ways a step may go: a step is calm for a row (`CalmKeepsSlots`), takes it
(`TakeKeepsSlots`) or records its slot (`RecordKeepsSlots`), and each action is one of the three.

*Policy.* What the scheduler reads of a worker's rows is "the newest n": `Newest` picks them by rank, the number of
rows that are newer, so a read is a set of indices and needs no sorted sequence. The lemmas `NewestFound`,
`NewestKept` and `EarnedStays` say when such a set survives a row being added or a run ending. `PolicyInv` consists of

* `RowsInv`: no row is from the future, and rows the scheduler wrote itself have failed, for good;
* `PauseInv`: whoever is paused, or about to be by a tick that has decided, had earned it when the last of those
  rows was written (`EarnedWith`), unless a user resumed it between decision and update (`overtaken`);
* `TimelyInv`: a worker that has earned its pause is in the hands of a tick that will find so: the failed fire
  that completes the series is written by the tick that considers the pause next, and an executor's failure
  considers it in the same step;
* `CodesInv`, `WriteInv`: a tick records only codes of failed fires, and one about to write does not repeat the last
  row of its worker as long as that is the newest.

The proof made three properties precise that held in the run for its small bounds only. `PauseIsEarned` speaks of
the newest attempts at the time of the decision: with several rows or schedulers an older row may be written later.
`PauseComesInTime` needs that markers do not crowd out failures (`FewMarkers`). `EpisodeIsCoalesced` excepts a
failure that was behind a newer row of the same worker when it was written, and is about one scheduler: two of them
read and write in two steps each.

### 5.7 Only model-checked

Every safety invariant and action property of the passing runs is stated by a theorem. What remains with TLC is
liveness: `EventuallySettledOrStranded`, `EventuallySettled`, `EventuallyIdle`, `EventuallyNoneParked`,
`EventuallyCarriedOut`, `EventuallyAdvanced`, `EventuallyStored`, `EventuallyClosed` and `KeyIsFreed`. Liveness
under fairness needs `ENABLED`, which the prover cannot reason about. `TypeOK` of the modules other than
`RunLifecycle` is part of their proofs, or was checked by hand in the same instances; no run repeats it.

## 6. Findings

What the violated runs show:

1. **`agent_again`.** Only the E2B driver calls `mark_run_worker_command_started`
   (`e2b_driver.py:3159-3161`). An agent's tool loop begins, a shutdown lists,
   flags and joins its thread, finds `worker_command_started` false and puts the run
   back to `queued`: it is executed a second time. The comment at
   `run_service.py:4057-4059` promises that this never happens.
2. **`beside_retry`.** A run fails before its command with a retryable error,
   writes `failed` and inserts its retry. Its thread is still registered when the
   shutdown lists the active runs, ends, and is joined; the requeue in place does not
   read the status and puts the failed run back to `queued` beside its retry. The
   comment at 4060-4061 calls such runs safe to requeue.
3. **`one_child`.** A retry that a shutdown requeues in place has its
   `trigger_source` rewritten to `restart_retry` (4014). `_matching_retry_row`
   recognises a child only by the source its id was made from, so when the parent's
   failed write was lost and recovery asks for a restart retry, it sees no child and
   inserts a second. The comment at 589 says one child per attempt.
4. **`cancel_queued`.** `cancel_run` reads `queued`; the drain claims the row, and the
   thread passes every cancel check and starts the command before the flag is set;
   the endpoint then writes `failed`/`cancelled_queued`. The docstring
   (`routers/runs.py:632-634`) says no sandbox is ever spawned.
5. **`draft_limit`.** `_claim_chat_rate_slot` deletes, of all keys, the rows older than its own window
   (`services/chat_throttle.py:46`). A start of the worker-author claims a draft slot (one hour) and then
   a run slot (one minute), so the second claim, like each claim of `services/quota.py:76`, erases the draft
   slots older than a minute. The refusal at 109 speaks of drafts per hour.

The properties that these interleavings touch say so: `RetiredStaysRetired`
and `LiveCommandIsVisible` except rows whose source is no longer the one they were
created with (those a shutdown requeued in place), `ImplementsRunAttempts` the jobs of
such rows, `CommandStartsOnce` excepts agents,
`OneRecognisedChild` counts the children the look-up recognises.
`EventuallySettledOrStranded` admits the one other end that `spawn` and `web` faults
have: a row that is `queued` and `cancel_requested`, which no drain takes and no sweep
looks for. `liveness` leaves out these two kinds and proves the stronger ending.

### Conditions in the properties

The checked properties say what the code promises, and name what it does not:

* **Runs.** With `slow` (one sweep that finds a thread stuck before its sandbox), TLC finds `OneRecognisedChild`,
  `RetiredStaysRetired`, `LiveCommandIsVisible` and `ImplementsRunAttempts` violated: the sweep fails the row of a
  thread that has listed itself as before the sandbox and has gone on since, so the command runs behind a failed
  row, and the thread and the reaper may each insert a child. The last look before the driver (`RecheckStatus`)
  closes most of this window. `safety` leaves `slow` out; the four theorems of 5.1 that need it have it as a
  hypothesis.
* **Approvals.** A failed run is retried by the class of its error, with no look at its phase or at what it has done
  (`run_service.py:4988-4999`), and the retry is stamped to execute through the chain of parents (`4253-4284`). An
  approved follow-up that fires its side effect and whose driver then reports a retryable failure fires it again, in
  one process and without a crash; so does a follow-up that fires and dies with its process, by its restart.
  `docs/APPROVALS.md:30-31` says exactly once. `EffectOnceUnlessCut` excepts both (`broken`, `killed`); without the
  exception of `broken` TLC finds it violated within one fault. With two roles in two processes (`SplitRoles =
  TRUE`) and one crash, a booting worker fails and restarts the follow-up that a web process has created as
  `running` and not yet queued; the web process then queues the original too, and both fire, while
  `docs/APPROVALS.md:30-31` says exactly once. If it happens before the approval names the follow-up, the restart is
  taken for a proposal. A cancel of a follow-up that is not queued yet is overwritten by `QueueFollowUp`: the row is
  `queued` and `cancel_requested`, which no drain takes (`stranded`). A failed approval insert leaves a parked run
  without a row, and a request that dies after its claim leaves its run parked, both until the next boot. An agent
  killed between its approval row and the parking leaves a pending row that never expires. `_lazy_expire`
  (`routers/approvals.py:268-270`) rechecks the status only.
* **Schedules.** The claim compares the row's lease, not its time (`db/sqlite.py:1967-1986`): a scheduler whose list
  was read before the other's advance claims the row and fires the same slot; so does one whose lease, which counts
  from the start of the tick, has run out. A scheduler that finds a row without a time gives it one and releases the
  other's claim (`scheduler.py:752-759`), and one that is behind gives it a time that was handled. A worker's own
  schedule is not claimed at all. If listing rows fails, all workers are handled by their own fields and their rows
  fire again in the next tick (1060-1070). A process that dies after `create_run` and before `mark_trigger_fired`
  leaves the slot to fire again when its lease is over. All these are `crossed`. A worker resumed between the
  policy's decision and its update is paused all the same (`overtaken`). The policy reads twice as many rows as its
  threshold (`services/run_pause_policy.py:156-161`), and a late fire that is skipped because a run is active leaves
  a marker and no attempt. With threshold 2 and a clock to 7 TLC finds a worker whose secret is removed while a long
  run is active: three late fires leave three markers, the run fails, the next fire fails for the same secret, but
  of the newest four rows only one is an attempt, and the worker is not paused (`FewMarkers`). A failed fire is
  compared with the worker's newest row only, so one that is written behind a newer row is recorded again by the
  next (`RowBefore`). Outside the runs: a user's pause clears the worker's own time but `reconcile_triggers` keeps
  the row's (`db/sqlite.py:1814`), so a resumed worker fires its old slot at once and, if it is late, leaves a
  `scheduler_missed` row; a schedule edited during a tick is overwritten by `mark_trigger_fired`.
* **Sandboxes.** A `result.json` found after a dropped connection is taken for a clean end
  (`e2b_driver.py:3187-3203`), so a sandbox whose command may go on can be pooled (`unended`), while the comment at
  3358-3359 says only a cleanly completed run's is. `cancel_sandbox` kills what it looked up before it released the
  lock (1737-1742): by then the sandbox may be pooled, or leased by another run, whose command it ends. A create
  call whose answer is lost (`e2b_driver.py:2358-2471`, `2740`) is repeated, while the first sandbox may be up:
  nobody pools or kills it, and it is there until the provider's time limit (`unseen`). `ClearPool` at shutdown may
  come before a straggler's return (`main.py:1042`).
* **Logs and streams.** Only `update_run_status` enqueues the drain marker. `approve_run`
  (`routers/approvals.py:1528`), the boot and the sweeps write terminal statuses without it, so a log
  stream opened within five minutes of such an end waits for a marker that never comes; the docstring at
  `routers/runs.py:1765-1766` says otherwise (`EventuallyClosed` is for ends with a marker). `logs_drained` finds
  the marker only among runs of the viewer's own workers (`db/sqlite.py:3015`), but a run may also be read by the
  user who started it (`run_access.py:164-210`), on a worker shared with the workspace or a stock one. That
  user's log stream, open when the run ends, waits for ever: the loop at `routers/runs.py:1846-1856` does not look
  again at the five minutes after which it would give up (`EventuallyClosed` is for the owner). `list_logs`
  returns the oldest 10,000 rows, on replay and at the end, so a client of a longer run that did not get the later
  rows live (a new connection, another process, a full queue) is told done without them (`DoneIsComplete`
  speaks of the first `limit` rows). A failed queue batch is put behind newer spooled rows (`run_service.py:1806-1826`, `disordered`). A row published
  while the client subscribes is shown twice (`overlap`). The end of the process loses queue and spool.
* **Chat authoring.** A claim reads the clock before it has the lock, so two may commit in the other order. With a
  limit of 2 in 60 seconds and two grants at 0, a claim with the time 60.01 that gets the lock first deletes both,
  and one with 59.99 then counts one row and is granted: three within 60 seconds. How much can go wrong is bounded
  by the wait for the lock: `RatesHeld` is over the shortest window less `MaxLag`. That the wait is bounded is an
  assumption; for SQLite the busy timeout, 30 seconds by default (`db/_legacy_sqlite.py:30-34`), together with the
  lock within the process. The windows are configured separately (`quota.py:30`, `154`, `166`); a key with a window
  longer than the shortest has its rows deleted early (`draft_limit`). A process that dies, or a release that fails,
  leaves a key pending for ever (`stuck`). If the row cannot be given the run's id, the reservation is released and
  a second call starts a second run (`unnamed`). A refund deletes the newest slot, whoever claimed it.

## 7. Not modelled

In the modelled components: the stop of one deleted worker's runs (`request_worker_run_shutdown`, which
has no caller), the deletion of rows under live threads (`clear_runs`), a second executor process of
`RunLifecycle`, the failure streak of the cancel-flag read in cloud deployments, the Postgres and cloud
repositories, cost accounting and alerts after a terminal write. In a web/worker split `cancel_sandbox` finds
nothing in the web process; `SandboxPool` has both in one. Approvals of destructive deletes, which nothing
in the repository creates, share links, batch views and notifications; a graceful shutdown of a
parked agent. Workers with several schedule rows satisfy the model but are not in a run; disabled owners
and archived workers only skip rows; `_fail_started_schedule_run` (`scheduler.py:450-499`) handles a start that
only wakes the drain. `/runs/{id}/events`, the cap on streams per user, and a part buffer without a
finish part in a web process. A spool file that cannot be written, which loses the row, and the collapse of
repeated error output on replay. The API-key fallback of the driver, and pool entries that only age. The alert
throttle (`services/alert_throttle.py`), which checks and records in two steps and guards mail only.

Components that are not modelled, with the reason in `PROJECT.json`: retry classification (a pure function
over codes and texts, left free in the models, which so hold for every classification), alerting, webhooks,
channels, chat service, contexts and git, connections and secrets, authentication, web UI, MCP server, CLI.
They make up most of the code by volume: request and response models, routing, HTTP and SDK
calls, prompts, formatting, file trees, SQL for reports. Little of it is control over shared state, and
a model of it would restate it line by line; the share of all source lines that the map covers is therefore
small, while most lines that move a run, an approval, a slot, a sandbox or a log row are covered.

## 8. Next

In this order: `ScheduleTriggers` with two rows of one worker; `clear_runs` and worker deletion as
extensions of `RunLifecycle`.
