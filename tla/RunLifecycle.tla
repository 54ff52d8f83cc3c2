---------------------------- MODULE RunLifecycle ----------------------------
(***************************************************************************)
(* The life of a run in the floom API: the rows of the runs table, the     *)
(* queue drain, the executor threads, the retry scheduler, the reaper,     *)
(* startup recovery, graceful shutdown and the cancel endpoint, all as     *)
(* interleaved actors over one shared table (src/apps/api/run_service.py,  *)
(* db/sqlite.py, routers/runs.py, main.py, runner_sandbox/e2b_driver.py).  *)
(*                                                                         *)
(* One executor process (role "all" or "worker") and any number of web     *)
(* requests are modelled.  A repository call is one step; two calls of the *)
(* same function are two steps whenever another actor can act in between.  *)
(* Time is not modelled: a retry row may be drained at any moment after it *)
(* is created, and a row without a thread may look stale at any moment.    *)
(*                                                                         *)
(* A definition marked "Mistake" stands for the definition after it, with  *)
(* a plausible error; it is used by no action.                             *)
(***************************************************************************)
EXTENDS Integers, Sequences, FiniteSets, Functions

CONSTANTS
    Roots,              \* runs created by a trigger; retries descend from them
    HeavyRoots,         \* those of LLM-intensive workers (they take an LLM slot)
    AgentRoots,         \* those of agent-mode workers: a tool loop, not a command
    MaxConcurrentRuns,  \* capacity of the execution semaphore
    MaxLlmRuns,         \* capacity of the LLM semaphore
    MaxAttempts,        \* retry budget: attempts 0 .. MaxAttempts - 1 by policy
    Faults,             \* the kinds of faults that may happen
    MaxFaults,          \* bound: faults in one behaviour
    MaxCancels,         \* bound: calls of the cancel endpoint in one behaviour
    NoRun               \* the drain / the reaper holds no run

\* "spawn" is a dispatch that raises; "thread" an exception in the executor's
\* thread before the run's own handler is in force; "read" and "write" a call of
\* the repository that fails and is only logged; "web" a web process that dies
\* inside the cancel endpoint; "slow" an executor that stays in its pre-sandbox
\* stages longer than the dispatch-orphan timeout.
FaultKinds == {"crash", "shutdown", "spawn", "thread", "read", "write", "web", "slow"}

RetrySource == {"retry", "restart_retry"}

\* A retry's id is a hash of (parent, attempt, source): the path of sources
\* from the root identifies a run.
RunId == [root : Roots, path : Seq(RetrySource)]

ASSUME ConstantsAssumption ==
    /\ HeavyRoots \subseteq Roots
    /\ AgentRoots \subseteq Roots
    /\ MaxConcurrentRuns \in Nat \ {0}
    /\ MaxLlmRuns \in Nat \ {0}
    /\ MaxAttempts \in Nat \ {0}
    /\ Faults \subseteq FaultKinds
    /\ MaxFaults \in Nat
    /\ MaxCancels \in Nat
    /\ NoRun \notin RunId

VARIABLES
    \* --- the database -----------------------------------------------------
    runs,         \* run id -> row of the runs table; its domain is the table
    \* --- memory of the executor process -----------------------------------
    proc,         \* what the process is doing
    free,         \* permits left in the execution semaphore
    llmFree,      \* permits left in the LLM semaphore
    drain,        \* the row the drain loop holds permits for, before its claim
    thread,       \* _active_runs: run id -> executor thread
    marked,       \* runs whose _ActiveRun has worker_command_started
    interrupted,  \* _shutdown_cancelled_runs
    snapshot,     \* the active runs a graceful shutdown is still dealing with
    unflagged,    \* those of them it has not yet flagged as cancelled
    reaping,      \* rows a recovery pass has failed and not yet requeued
    recreating,   \* the row whose restart retry it is about to insert
    \* --- web requests -----------------------------------------------------
    cancel,       \* run id -> cancel request in flight
    \* --- history and bounds -----------------------------------------------
    begun,        \* runs whose worker command or tool loop has started once
    faults,       \* faults so far, at most MaxFaults
    cancels       \* cancel requests so far, at most MaxCancels

permits  == <<free, llmFree>>
shutdown == <<snapshot, unflagged>>
recovery == <<reaping, recreating>>
memory   == <<proc, permits, drain, thread, marked, interrupted, shutdown, recovery>>
bounds   == <<faults, cancels>>
vars     == <<runs, memory, cancel, begun, bounds>>

-----------------------------------------------------------------------------
(* Rows *)

Status == {"queued", "running", "pending_approval", "completed", "failed",
           "cancelled"}
Terminal  == {"completed", "failed", "cancelled"}
Source    == {"manual"} \cup RetrySource
ErrorCode == {"none", "failure", "cancelled_queued", "user_cancel"}

Row == [status : Status, source : Source, attempt : Nat, error : ErrorCode,
        cancelRequested : BOOLEAN, executionLog : BOOLEAN]

NewRow(source, attempt) ==
    [status |-> "queued", source |-> source, attempt |-> attempt,
     error |-> "none", cancelRequested |-> FALSE, executionLog |-> FALSE]

\* f with one more, or another, value.
Extend(f, x, v) == [y \in DOMAIN f \cup {x} |-> IF y = x THEN v ELSE f[y]]

\* runs.update_status with an error: it is not conditional on the old status.
Written(row, status, error) == [row EXCEPT !.status = status, !.error = error]
Failed(row) == Written(row, "failed", "failure")
WithStatus(row, status) == [row EXCEPT !.status = status]
Flagged(row) == [row EXCEPT !.cancelRequested = TRUE]
Logged(row) == [row EXCEPT !.executionLog = TRUE]

\* The WHERE clause of get_queued and, again, of claim_queued.
Drainable(row) == row.status = "queued" /\ ~row.cancelRequested

RetryRunId(r, source) == [r EXCEPT !.path = Append(@, source)]

\* The sources under which a child of r's next attempt is already persisted.
\* A row matches only while it still carries the source its id was made from.
PersistedRetries(r) ==
    {s \in RetrySource : /\ RetryRunId(r, s) \in DOMAIN runs
                         /\ runs[RetryRunId(r, s)].source = s}

\* Mistake: the budget counts retries, not attempts.
RetryAdmittedOnceMore(r) ==
    /\ runs[r].attempt < MaxAttempts
    /\ PersistedRetries(r) = {}

\* The retry policy's budget, and one child per attempt whoever asks first.
RetryAdmitted(r) ==
    /\ runs[r].attempt < MaxAttempts - 1
    /\ PersistedRetries(r) = {}

\* Mistake: recovery does not look for the child the thread has scheduled.
RestartAdmittedUnseen(r) == runs[r].source # "restart_retry"

\* Recovery never restarts a restart retry, and never adds a second child.
RestartAdmitted(r) ==
    /\ runs[r].source # "restart_retry"
    /\ PersistedRetries(r) = {}

\* INSERT of a child; the primary key makes a second INSERT fail, harmlessly.
WithChild(r, source) ==
    LET c == RetryRunId(r, source)
    IN  IF c \in DOMAIN runs THEN runs
        ELSE Extend(runs, c, NewRow(source, runs[r].attempt + 1))

-----------------------------------------------------------------------------
(* Executor threads *)

\* Stages in which a thread has not reached a sandbox yet.
PreSandbox == {"claimed", "early_cancel", "scoped", "setup", "dispatching"}
\* Stages before the worker command: nothing of the worker's own code has run.
PreCommand == PreSandbox \cup {"sandbox"}
PostCommand == {"command", "returned", "completing", "finishing",
                "retry_check", "retry_create", "fail_write", "crash_write",
                "requeue_check", "requeue_create", "exit"}
Result == {"ok", "error", "retryable", "cancelled", "decision", "raised"}

\* res is what the driver returned, or the error read before a completion.
Thread == {t \in [pc : PreCommand \cup PostCommand, res : Result \cup ErrorCode] :
               t.pc = "completing" => t.res \in ErrorCode}

Agent(r) == r.root \in AgentRoots
Heavy(r) == r.root \in HeavyRoots
LlmCost(r) == IF Heavy(r) THEN 1 ELSE 0

At(r, pc) == r \in DOMAIN thread /\ thread[r].pc = pc
Goto(r, pc) == thread' = [thread EXCEPT ![r].pc = pc]
Return(r, result) == thread' = [thread EXCEPT ![r] = [pc |-> "returned", res |-> result]]
SetRow(r, row) == runs' = [runs EXCEPT ![r] = row]

\* Mistake: the LLM slot is forgotten.
ReleaseOnePermit(r) == free' = free + 1 /\ UNCHANGED llmFree

ReleasePermits(r) ==
    /\ free' = free + 1
    /\ llmFree' = llmFree + LlmCost(r)

Unregister(r) == thread' = Restrict(thread, DOMAIN thread \ {r})

\* One fault of the given kind happens and is charged to the budget.
Fault(kind) ==
    /\ kind \in Faults
    /\ faults < MaxFaults
    /\ faults' = faults + 1

\* What a thread step leaves alone.
otherThanThread == <<proc, permits, drain, marked, interrupted, shutdown, recovery,
                     cancel>>

-----------------------------------------------------------------------------
(* Creating, draining and claiming *)

Init ==
    /\ runs = [r \in {} |-> NewRow("manual", 0)]
    /\ proc = "up"
    /\ free = MaxConcurrentRuns
    /\ llmFree = MaxLlmRuns
    /\ drain = NoRun
    /\ thread = [r \in {} |-> [pc |-> "exit", res |-> "none"]]
    /\ marked = {}
    /\ interrupted = {}
    /\ snapshot = {}
    /\ unflagged = {}
    /\ reaping = {}
    /\ recreating = NoRun
    /\ cancel = [r \in {} |-> [seen |-> "queued", flagged |-> FALSE]]
    /\ begun = {}
    /\ faults = 0
    /\ cancels = 0

\* create_run, from a trigger, the API or chat: works whatever the executor does.
CreateRun(root) ==
    LET r == [root |-> root, path |-> <<>>]
    IN  /\ r \notin DOMAIN runs
        /\ runs' = Extend(runs, r, NewRow("manual", 0))
        /\ UNCHANGED <<memory, cancel, begun, bounds>>

\* The drain polled r as drainable and takes the execution permit and, for an
\* LLM-intensive worker, the LLM permit; without the latter it gives the former
\* back and moves on to the next row.
DrainAcquire(r) ==
    /\ proc = "up"
    /\ drain = NoRun
    /\ r \in DOMAIN runs
    /\ Drainable(runs[r])
    /\ free > 0
    /\ Heavy(r) => llmFree > 0
    /\ drain' = r
    /\ free' = free - 1
    /\ llmFree' = llmFree - LlmCost(r)
    /\ UNCHANGED <<runs, proc, thread, marked, interrupted, shutdown, recovery,
                   cancel, begun, bounds>>

\* claim_queued wins: the row is running and its thread is registered as active.
DrainClaim ==
    /\ drain # NoRun
    /\ Drainable(runs[drain])
    /\ SetRow(drain, Written(runs[drain], "running", "none"))
    /\ thread' = Extend(thread, drain, [pc |-> "claimed", res |-> "none"])
    /\ marked' = marked \ {drain}
    /\ drain' = NoRun
    /\ UNCHANGED <<proc, permits, interrupted, shutdown, recovery, cancel,
                   begun, bounds>>

\* claim_queued updates no row: it changed since the poll.
DrainLoseClaim ==
    /\ drain # NoRun
    /\ ~Drainable(runs[drain])
    /\ ReleasePermits(drain)
    /\ drain' = NoRun
    /\ UNCHANGED <<runs, proc, thread, marked, interrupted, shutdown, recovery,
                   cancel, begun, bounds>>

\* claim_queued raises: the drain puts the row back to queued all the same, unless
\* that write fails too.
ClaimRaises ==
    /\ Fault("spawn")
    /\ drain # NoRun
    /\ \/ SetRow(drain, WithStatus(runs[drain], "queued"))
       \/ "write" \in Faults /\ UNCHANGED runs
    /\ ReleasePermits(drain)
    /\ drain' = NoRun
    /\ UNCHANGED <<proc, thread, marked, interrupted, shutdown, recovery, cancel, begun,
                   cancels>>

\* Mistake: the permits are given back where the start fails and again by the drain.
DispatchFailsReleasingTwice(r) ==
    /\ Fault("spawn")
    /\ At(r, "claimed")
    /\ SetRow(r, WithStatus(runs[r], "queued"))
    /\ Unregister(r)
    /\ interrupted' = interrupted \ {r}
    /\ free' = free + 2
    /\ llmFree' = llmFree + 2 * LlmCost(r)
    /\ UNCHANGED <<proc, drain, marked, shutdown, recovery, cancel, begun, cancels>>

\* The thread of a claimed row does not start: the drain unregisters it, puts
\* the row back to queued whatever its status is by now, and releases.
DispatchFails(r) ==
    /\ Fault("spawn")
    /\ At(r, "claimed")
    /\ \/ SetRow(r, WithStatus(runs[r], "queued"))
       \/ "write" \in Faults /\ UNCHANGED runs
    /\ Unregister(r)
    /\ interrupted' = interrupted \ {r}
    /\ ReleasePermits(r)
    /\ UNCHANGED <<proc, drain, marked, shutdown, recovery, cancel, begun,
                   cancels>>

-----------------------------------------------------------------------------
(* The executor thread: _run_thread_entry_with_semaphore and execute_run *)

\* The thread reads the row: a cancel that came first stops it.
EnterThread(r) ==
    /\ At(r, "claimed")
    /\ Goto(r, IF runs[r].cancelRequested THEN "early_cancel" ELSE "scoped")
    /\ UNCHANGED <<runs, otherThanThread, begun, bounds>>

AbortCancelled(r) ==
    /\ At(r, "early_cancel")
    /\ SetRow(r, Failed(runs[r]))
    /\ Goto(r, "exit")
    /\ UNCHANGED <<otherThanThread, begun, bounds>>

\* execute_run reads the row again: one that was settled meanwhile is left alone.
LoadRun(r) ==
    /\ At(r, "scoped")
    /\ Goto(r, IF runs[r].status \in Terminal \cup {"pending_approval"} THEN "exit" ELSE "setup")
    /\ UNCHANGED <<runs, otherThanThread, begun, bounds>>

\* The read fails, and so does not show running: the row is set to running.
LoadBlindly(r) ==
    /\ Fault("read")
    /\ At(r, "scoped")
    /\ Goto(r, "setup")
    /\ SetRow(r, WithStatus(runs[r], "running"))
    /\ UNCHANGED <<otherThanThread, begun, cancels>>

\* Configuration, inputs, secrets, connections or the spend cap of a retry stop
\* the run, or an exception does before the driver is called: no retry.
FailSetup(r) ==
    /\ At(r, "setup")
    /\ SetRow(r, Failed(runs[r]))
    /\ Goto(r, "exit")
    /\ UNCHANGED <<otherThanThread, begun, bounds>>

\* The last look at the row before the sandbox: a stale executor steps back.
RecheckStatus(r) ==
    /\ At(r, "setup")
    /\ Goto(r, IF runs[r].status = "running" THEN "dispatching" ELSE "exit")
    /\ UNCHANGED <<runs, otherThanThread, begun, bounds>>

\* Before execute_run has entered its own handler an exception reaches the
\* thread's: it reads the row ...
ThreadCrashes(r) ==
    /\ Fault("thread")
    /\ At(r, "claimed") \/ At(r, "scoped")
    /\ Goto(r, IF runs[r].status = "running" THEN "crash_write" ELSE "exit")
    /\ UNCHANGED <<runs, otherThanThread, begun, cancels>>

\* ... fails it if it was running, and asks for a restart retry as the reaper would.
FailCrashed(r) ==
    /\ At(r, "crash_write")
    /\ SetRow(r, Failed(runs[r]))
    /\ Goto(r, "requeue_check")
    /\ UNCHANGED <<otherThanThread, begun, bounds>>

-----------------------------------------------------------------------------
(* The drivers, as far as the row and the retries depend on them *)

\* What a driver may report: a sandbox that ended because of a cancel says so, an
\* agent then reports an ordinary failure.
Reported(r, results) ==
    \E result \in results \cup IF runs[r].cancelRequested /\ ~Agent(r)
                             THEN {"cancelled"} ELSE {} : Return(r, result)

\* The first cancel gate; past it the sandbox is created and logged.
GateSpawn(r) ==
    /\ ~Agent(r)
    /\ At(r, "dispatching")
    /\ IF runs[r].cancelRequested
       THEN Return(r, "cancelled") /\ UNCHANGED runs
       ELSE Goto(r, "sandbox") /\ SetRow(r, Logged(runs[r]))
    /\ UNCHANGED <<otherThanThread, begun, bounds>>

\* Bundle, quota, transport, install or model failures: nothing of the worker has
\* run.
DriverFails(r) ==
    /\ At(r, "dispatching") \/ At(r, "sandbox")
    /\ Reported(r, {"error", "retryable"})
    /\ UNCHANGED <<runs, otherThanThread, begun, bounds>>

\* A transient network exception leaves driver.run: the handler around the run
\* schedules the retry first and fails the row afterwards.  The agent driver lets
\* no exception out.
DriverRaises(r) ==
    /\ ~Agent(r)
    /\ At(r, "dispatching")
    /\ thread' = [thread EXCEPT ![r] = [pc |-> "retry_check", res |-> "raised"]]
    /\ UNCHANGED <<runs, otherThanThread, begun, bounds>>

\* The second cancel gate, right before the worker command starts.
GateCommand(r) ==
    /\ At(r, "sandbox")
    /\ IF runs[r].cancelRequested
       THEN Return(r, "cancelled") /\ UNCHANGED <<marked, begun>>
       ELSE Goto(r, "command") /\ marked' = marked \cup {r} /\ begun' = begun \cup {r}
    /\ UNCHANGED <<runs, proc, permits, drain, interrupted, shutdown, recovery,
                   cancel, bounds>>

\* The one gate of an agent run, before its tool loop: nothing marks the run as
\* started.
GateAgentLoop(r) ==
    /\ Agent(r)
    /\ At(r, "dispatching")
    /\ IF runs[r].cancelRequested
       THEN Return(r, "error") /\ UNCHANGED <<runs, begun>>
       ELSE /\ Goto(r, "command")
            /\ SetRow(r, Logged(runs[r]))
            /\ begun' = begun \cup {r}
    /\ UNCHANGED <<otherThanThread, bounds>>

\* The command or the loop ends by itself, or because of a cancel.
CommandReturns(r) ==
    /\ At(r, "command")
    /\ Reported(r, {"ok", "error", "retryable", "decision"})
    /\ UNCHANGED <<runs, otherThanThread, begun, bounds>>

-----------------------------------------------------------------------------
(* Settling the row *)

Returned(r, result) ==
    At(r, "returned") /\ thread[r].res = result /\ r \notin interrupted

\* One terminal write, after which the thread goes to pc.
Settle(r, row, pc) ==
    /\ SetRow(r, row)
    /\ Goto(r, pc)
    /\ UNCHANGED <<otherThanThread, begun, bounds>>

\* A graceful shutdown stopped the run: failed as interrupted, no retry.
SettleInterrupted(r) ==
    At(r, "returned") /\ r \in interrupted /\ Settle(r, Failed(runs[r]), "exit")

SettleCancelled(r) ==
    Returned(r, "cancelled") /\ Settle(r, Written(runs[r], "cancelled", "user_cancel"), "exit")

SettleFailed(r) ==
    Returned(r, "error") /\ Settle(r, Failed(runs[r]), "exit")

SettleRetryable(r) ==
    Returned(r, "retryable") /\ Settle(r, Failed(runs[r]), "retry_check")

\* approvals.required: the run parks; the approval row is not modelled here.
SettlePending(r) ==
    Returned(r, "decision")
    /\ Settle(r, WithStatus(runs[r], "pending_approval"), "exit")

\* update_status(COMPLETED) reads the stored error first ...
ReadForCompletion(r) ==
    /\ Returned(r, "ok")
    /\ thread' = [thread EXCEPT ![r] = [pc |-> "completing", res |-> runs[r].error]]
    /\ UNCHANGED <<runs, otherThanThread, begun, bounds>>

\* Mistake: completed is written over whatever error is stored.
WriteCompletionBlindly(r) ==
    At(r, "completing") /\ Settle(r, WithStatus(runs[r], "completed"), "finishing")

\* ... and writes failed, with that error, if there was one.
WriteCompletion(r) ==
    LET seen == thread[r].res
    IN  /\ At(r, "completing")
        /\ Settle(r, Written(runs[r], IF seen = "none" THEN "completed" ELSE "failed", seen),
                  "finishing")

\* What follows the completion (quality warning, last log lines) changes no status.
FinishRun(r) ==
    /\ At(r, "finishing")
    /\ Goto(r, "exit")
    /\ UNCHANGED <<runs, otherThanThread, begun, bounds>>

\* The failed write of the handler around the run.
FailRaised(r) ==
    At(r, "fail_write") /\ Settle(r, Failed(runs[r]), "exit")

\* A write raises.  In execute_run the handler around the run then fails the row, a
\* completed one too if the write was the warning's; when that write raises as
\* well, or there is no such handler, it is logged.
WriteRaises(r) ==
    /\ Fault("write")
    /\ \/ /\ At(r, "returned") \/ At(r, "completing") \/ At(r, "finishing")
          /\ Goto(r, "fail_write")
       \/ /\ \E pc \in {"early_cancel", "returned", "completing", "fail_write", "crash_write"} :
                At(r, pc)
          /\ Goto(r, "exit")
    /\ UNCHANGED <<runs, otherThanThread, begun, cancels>>

-----------------------------------------------------------------------------
(* Retries asked for by the thread *)

AfterRetry(r) == IF thread[r].res = "raised" THEN "fail_write" ELSE "exit"

\* _schedule_retry reads the child and its sibling ...
CheckRetry(r) ==
    /\ At(r, "retry_check")
    /\ RetryAdmitted(r)
    /\ Goto(r, "retry_create")
    /\ UNCHANGED <<runs, otherThanThread, begun, bounds>>

\* ... or there is none to make: budget spent, child there, spend cap reached.
SkipRetry(r) ==
    /\ At(r, "retry_check")
    /\ Goto(r, AfterRetry(r))
    /\ UNCHANGED <<runs, otherThanThread, begun, bounds>>

\* ... and inserts the child in a second step.
CreateRetry(r) ==
    /\ At(r, "retry_create")
    /\ runs' = WithChild(r, "retry")
    /\ Goto(r, AfterRetry(r))
    /\ UNCHANGED <<otherThanThread, begun, bounds>>

\* The thread's own handler uses _requeue_abandoned_run.
CheckRestart(r) ==
    /\ At(r, "requeue_check")
    /\ RestartAdmitted(r)
    /\ Goto(r, "requeue_create")
    /\ UNCHANGED <<runs, otherThanThread, begun, bounds>>

SkipRestart(r) ==
    /\ At(r, "requeue_check")
    /\ Goto(r, "exit")
    /\ UNCHANGED <<runs, otherThanThread, begun, bounds>>

CreateRestart(r) ==
    /\ At(r, "requeue_create")
    /\ runs' = WithChild(r, "restart_retry")
    /\ Goto(r, "exit")
    /\ UNCHANGED <<otherThanThread, begun, bounds>>

\* Mistake: the permits are released only by runs that ended well.
ExitThreadLeaking(r) ==
    /\ At(r, "exit")
    /\ Unregister(r)
    /\ interrupted' = interrupted \ {r}
    /\ IF runs[r].status = "completed" THEN ReleasePermits(r) ELSE UNCHANGED permits
    /\ UNCHANGED <<runs, proc, drain, marked, shutdown, recovery, cancel, begun, bounds>>

\* The finally block: unregister, release the permits, wake the drain.
ExitThread(r) ==
    /\ At(r, "exit")
    /\ Unregister(r)
    /\ interrupted' = interrupted \ {r}
    /\ ReleasePermits(r)
    /\ UNCHANGED <<runs, proc, drain, marked, shutdown, recovery, cancel,
                   begun, bounds>>

-----------------------------------------------------------------------------
(* The reaper and startup recovery: recover_abandoned_runs *)

\* Mistake: the sweep does not leave out the active runs.
ReapAnyRow(r) ==
    /\ proc = "up"
    /\ r \in DOMAIN runs
    /\ runs[r].status = "running"
    /\ SetRow(r, Failed(runs[r]))
    /\ reaping' = reaping \cup {r}
    /\ UNCHANGED <<proc, permits, drain, thread, marked, interrupted, shutdown,
                   recreating, cancel, begun, bounds>>

\* Mistake: a durable log protects a row whose thread is gone.
ReapUnloggedRow(r) ==
    /\ proc = "up"
    /\ r \in DOMAIN runs \ DOMAIN thread
    /\ runs[r].status = "running"
    /\ ~runs[r].executionLog
    /\ SetRow(r, Failed(runs[r]))
    /\ reaping' = reaping \cup {r}
    /\ UNCHANGED <<proc, permits, drain, thread, marked, interrupted, shutdown,
                   recreating, cancel, begun, bounds>>

\* The periodic sweep fails a running row no thread of this process drives.
ReapRow(r) ==
    /\ proc = "up"
    /\ r \in DOMAIN runs \ DOMAIN thread
    /\ runs[r].status = "running"
    /\ SetRow(r, Failed(runs[r]))
    /\ reaping' = reaping \cup {r}
    /\ UNCHANGED <<proc, permits, drain, thread, marked, interrupted, shutdown,
                   recreating, cancel, begun, bounds>>

\* It also fails the row of a thread stuck before the sandbox for too long,
\* unless a durable log shows that the run reached a sandbox.  The threads were
\* listed before the update, so this one may have entered its driver since.
ReapSlow(r) ==
    /\ Fault("slow")
    /\ proc = "up"
    /\ r \in DOMAIN thread
    /\ thread[r].pc \in PreSandbox
    /\ runs[r].status = "running"
    /\ ~runs[r].executionLog
    /\ SetRow(r, Failed(runs[r]))
    /\ reaping' = reaping \cup {r}
    /\ UNCHANGED <<proc, permits, drain, thread, marked, interrupted, shutdown,
                   recreating, cancel, begun, cancels>>

\* After the sweep each failed row is looked at in turn ...
ReaperCheck(r) ==
    /\ r \in reaping
    /\ recreating = NoRun
    /\ RestartAdmitted(r)
    /\ reaping' = reaping \ {r}
    /\ recreating' = r
    /\ UNCHANGED <<runs, proc, permits, drain, thread, marked, interrupted,
                   shutdown, cancel, begun, bounds>>

\* ... and passed over: a restart retry already, a child there, a spend cap ...
ReaperSkip(r) ==
    /\ r \in reaping
    /\ recreating = NoRun
    /\ reaping' = reaping \ {r}
    /\ UNCHANGED <<runs, proc, permits, drain, thread, marked, interrupted,
                   shutdown, recreating, cancel, begun, bounds>>

\* ... or given a restart retry.
ReaperCreate ==
    /\ recreating # NoRun
    /\ runs' = WithChild(recreating, "restart_retry")
    /\ recreating' = NoRun
    /\ UNCHANGED <<proc, permits, drain, thread, marked, interrupted, shutdown,
                   reaping, cancel, begun, bounds>>

-----------------------------------------------------------------------------
(* The process *)

\* Everything in memory is gone; permits and registries start afresh.
WipeMemory ==
    /\ free' = MaxConcurrentRuns
    /\ llmFree' = MaxLlmRuns
    /\ drain' = NoRun
    /\ thread' = [r \in {} |-> [pc |-> "exit", res |-> "none"]]
    /\ marked' = {}
    /\ interrupted' = {}
    /\ snapshot' = {}
    /\ unflagged' = {}
    /\ reaping' = {}
    /\ recreating' = NoRun

Crash ==
    /\ Fault("crash")
    /\ proc # "down"
    /\ proc' = "down"
    /\ WipeMemory
    /\ UNCHANGED <<runs, cancel, begun, cancels>>

\* fail_interrupted_runs_on_startup: every running row belongs to a dead
\* predecessor, whatever its age.
Boot ==
    /\ proc = "down"
    /\ proc' = "booting"
    /\ reaping' = {r \in DOMAIN runs : runs[r].status = "running"}
    /\ runs' = [r \in DOMAIN runs |-> IF runs[r].status = "running"
                                      THEN Failed(runs[r]) ELSE runs[r]]
    /\ UNCHANGED <<permits, drain, thread, marked, interrupted, shutdown,
                   recreating, cancel, begun, bounds>>

\* reap_abandoned_pending_approval_runs, then the drain and the reaper start.
BootDone ==
    /\ proc = "booting"
    /\ reaping = {}
    /\ recreating = NoRun
    /\ proc' = "up"
    /\ runs' = [r \in DOMAIN runs |-> IF runs[r].status = "pending_approval"
                                      THEN Failed(runs[r]) ELSE runs[r]]
    /\ UNCHANGED <<permits, drain, thread, marked, interrupted, shutdown,
                   recovery, cancel, begun, bounds>>

\* SIGTERM: the reaper and the drain are told to stop.
StopLoops ==
    /\ Fault("shutdown")
    /\ proc = "up"
    /\ proc' = "stopping"
    /\ UNCHANGED <<runs, permits, drain, thread, marked, interrupted, shutdown,
                   recovery, cancel, begun, cancels>>

\* request_active_run_shutdown lists the active runs ...
ListActiveRuns ==
    /\ proc = "stopping"
    /\ proc' = "listed"
    /\ snapshot' = DOMAIN thread
    /\ UNCHANGED <<runs, permits, drain, thread, marked, interrupted, unflagged, recovery,
                   cancel, begun, bounds>>

\* ... takes the lock again to mark them as cancelled by the shutdown ...
MarkActiveRuns ==
    /\ proc = "listed"
    /\ proc' = "cancelling"
    /\ unflagged' = snapshot
    /\ interrupted' = interrupted \cup snapshot
    /\ UNCHANGED <<runs, permits, drain, thread, marked, snapshot, recovery, cancel, begun,
                   bounds>>

\* ... sets cancel_requested on each in turn and kills its sandbox ...
FlagActiveRun(r) ==
    /\ r \in unflagged
    /\ unflagged' = unflagged \ {r}
    /\ SetRow(r, Flagged(runs[r]))
    /\ UNCHANGED <<proc, permits, drain, thread, marked, interrupted, snapshot, recovery,
                   cancel, begun, bounds>>

\* ... which may fail, and is then only logged ...
FlagFails(r) ==
    /\ Fault("write")
    /\ r \in unflagged
    /\ unflagged' = unflagged \ {r}
    /\ UNCHANGED <<runs, proc, permits, drain, thread, marked, interrupted, snapshot,
                   recovery, cancel, begun, cancels>>

\* ... and joins their threads, up to a deadline: those that still run are left
\* alone.
JoinActiveRuns ==
    /\ proc = "cancelling"
    /\ unflagged = {}
    /\ proc' = "requeueing"
    /\ snapshot' = snapshot \ DOMAIN thread
    /\ UNCHANGED <<runs, permits, drain, thread, marked, interrupted, unflagged, recovery,
                   cancel, begun, bounds>>

\* Mistake: a started command does not matter.
InPlaceAlwaysAdmitted(r) == runs[r].source # "restart_retry"

\* A joined run goes back to the queue in place only if its worker command has
\* not started and it has not been restarted before; its status is not read.
InPlaceAdmitted(r) == r \notin marked /\ runs[r].source # "restart_retry"

RequeuedRow(row) ==
    [row EXCEPT !.status = "queued", !.source = "restart_retry", !.error = "none",
                !.cancelRequested = FALSE]

RequeueInPlace(r) ==
    /\ proc = "requeueing"
    /\ r \in snapshot
    /\ InPlaceAdmitted(r)
    /\ snapshot' = snapshot \ {r}
    /\ SetRow(r, RequeuedRow(runs[r]))
    /\ UNCHANGED <<proc, permits, drain, thread, marked, interrupted, unflagged,
                   recovery, cancel, begun, bounds>>

\* Not admitted, or its spend cap is reached.
SkipInPlace(r) ==
    /\ proc = "requeueing"
    /\ r \in snapshot
    /\ snapshot' = snapshot \ {r}
    /\ UNCHANGED <<runs, proc, permits, drain, thread, marked, interrupted,
                   unflagged, recovery, cancel, begun, bounds>>

\* The process ends; threads that outlived the deadline die with it.
ExitProcess ==
    /\ proc = "requeueing"
    /\ snapshot = {}
    /\ proc' = "down"
    /\ WipeMemory
    /\ UNCHANGED <<runs, cancel, begun, bounds>>

-----------------------------------------------------------------------------
(* POST /runs/{id}/cancel *)

\* The endpoint reads the row once and decides by what it read.
CancelRead(r) ==
    /\ cancels < MaxCancels
    /\ r \in DOMAIN runs \ DOMAIN cancel
    /\ runs[r].status \notin Terminal
    /\ cancel' = Extend(cancel, r, [seen |-> runs[r].status, flagged |-> FALSE])
    /\ cancels' = cancels + 1
    /\ UNCHANGED <<runs, memory, begun, faults>>

\* Mistake: the status is written without the flag.
CancelFlagForgotten(r) ==
    /\ r \in DOMAIN cancel
    /\ ~cancel[r].flagged
    /\ cancel' = [cancel EXCEPT ![r].flagged = TRUE]
    /\ UNCHANGED <<runs, memory, begun, bounds>>

\* repos.runs.cancel, and for a run that was not queued the sandbox is killed.
CancelFlag(r) ==
    /\ r \in DOMAIN cancel
    /\ ~cancel[r].flagged
    /\ SetRow(r, Flagged(runs[r]))
    /\ cancel' = [cancel EXCEPT ![r].flagged = TRUE]
    /\ UNCHANGED <<memory, begun, bounds>>

\* The status the endpoint writes for what it read.
CancelOutcome(row, seen) ==
    IF seen = "queued" THEN Written(row, "failed", "cancelled_queued")
                       ELSE Written(row, "cancelled", "user_cancel")

CancelSettle(r) ==
    /\ r \in DOMAIN cancel
    /\ cancel[r].flagged
    /\ SetRow(r, CancelOutcome(runs[r], cancel[r].seen))
    /\ cancel' = Restrict(cancel, DOMAIN cancel \ {r})
    /\ UNCHANGED <<memory, begun, bounds>>

\* The web process dies inside the request.
CancelDies(r) ==
    /\ Fault("web")
    /\ r \in DOMAIN cancel
    /\ cancel' = Restrict(cancel, DOMAIN cancel \ {r})
    /\ UNCHANGED <<runs, memory, begun, cancels>>

-----------------------------------------------------------------------------
(* Next *)

DriverStep(r) ==
    \/ GateSpawn(r) \/ DriverFails(r) \/ DriverRaises(r)
    \/ GateCommand(r) \/ GateAgentLoop(r) \/ CommandReturns(r)

SettleStep(r) ==
    \/ SettleInterrupted(r) \/ SettleCancelled(r) \/ SettleFailed(r)
    \/ SettleRetryable(r) \/ SettlePending(r)
    \/ ReadForCompletion(r) \/ WriteCompletion(r) \/ FailRaised(r)

RetryStep(r) ==
    \/ CheckRetry(r) \/ SkipRetry(r) \/ CreateRetry(r)
    \/ CheckRestart(r) \/ SkipRestart(r) \/ CreateRestart(r)

ThreadStep(r) ==
    \/ EnterThread(r) \/ AbortCancelled(r) \/ LoadRun(r) \/ FailSetup(r)
    \/ RecheckStatus(r) \/ FailCrashed(r) \/ FinishRun(r) \/ ExitThread(r)
    \/ DriverStep(r) \/ SettleStep(r) \/ RetryStep(r)

DrainStep == (\E r \in DOMAIN runs : DrainAcquire(r)) \/ DrainClaim \/ DrainLoseClaim

ReaperStep ==
    \/ \E r \in DOMAIN runs : ReapRow(r) \/ ReaperCheck(r) \/ ReaperSkip(r)
    \/ ReaperCreate

\* Once begun, a shutdown runs to its end and the service manager starts the
\* process again.
ProcessStep ==
    \/ Boot \/ BootDone
    \/ ListActiveRuns \/ MarkActiveRuns \/ JoinActiveRuns \/ ExitProcess
    \/ \E r \in snapshot : FlagActiveRun(r) \/ RequeueInPlace(r) \/ SkipInPlace(r)

CancelStep == \E r \in DOMAIN cancel : CancelFlag(r) \/ CancelSettle(r)

FaultStep ==
    \/ Crash \/ StopLoops \/ ClaimRaises
    \/ \E r \in DOMAIN thread :
          \/ DispatchFails(r) \/ LoadBlindly(r) \/ ThreadCrashes(r)
          \/ WriteRaises(r) \/ ReapSlow(r)
    \/ \E r \in unflagged : FlagFails(r)
    \/ \E r \in DOMAIN cancel : CancelDies(r)

Request ==
    \/ \E root \in Roots : CreateRun(root)
    \/ \E r \in DOMAIN runs : CancelRead(r)

\* What the system does of its own accord, as opposed to requests and faults.
Progress ==
    \/ \E r \in DOMAIN thread : ThreadStep(r)
    \/ DrainStep \/ ReaperStep \/ ProcessStep \/ CancelStep

Next == Progress \/ Request \/ FaultStep

Spec == Init /\ [][Next]_vars

\* Threads, loops, the service manager and request handlers keep running.
FairSpec == Spec /\ WF_vars(Progress)

-----------------------------------------------------------------------------
(* Properties *)

\* Every variable has its type; rows exist for every id held in memory.
TypeOK ==
    /\ runs \in [DOMAIN runs -> Row]
    /\ DOMAIN runs \subseteq RunId
    /\ proc \in {"up", "stopping", "listed", "cancelling", "requeueing", "down", "booting"}
    /\ free \in 0..MaxConcurrentRuns
    /\ llmFree \in 0..MaxLlmRuns
    /\ drain \in DOMAIN runs \cup {NoRun}
    /\ thread \in [DOMAIN thread -> Thread]
    /\ DOMAIN thread \subseteq DOMAIN runs
    /\ marked \subseteq DOMAIN runs
    /\ interrupted \subseteq DOMAIN runs
    /\ snapshot \subseteq DOMAIN runs
    /\ unflagged \subseteq snapshot
    /\ reaping \subseteq DOMAIN runs
    /\ recreating \in DOMAIN runs \cup {NoRun}
    /\ cancel \in [DOMAIN cancel -> [seen : Status, flagged : BOOLEAN]]
    /\ DOMAIN cancel \subseteq DOMAIN runs
    /\ begun \subseteq DOMAIN runs
    /\ faults \in 0..MaxFaults
    /\ cancels \in 0..MaxCancels

\* Runs that hold permits: those with a thread and the one the drain is claiming.
Holders == DOMAIN thread \cup ({drain} \ {NoRun})

\* No permit is lost or given back twice, on any path through the drain and the
\* thread's finally block: run_service.py:3687-3796, 5574-5581.
PermitsBalance ==
    /\ free + Cardinality(Holders) = MaxConcurrentRuns
    /\ llmFree + Cardinality({r \in Holders : Heavy(r)}) = MaxLlmRuns

\* A run whose worker has begun is never back in the queue nor in a stage before
\* the command, so one row never runs its worker twice.
NotStartedAgain(r) ==
    /\ runs[r].status # "queued"
    /\ r \in DOMAIN thread => thread[r].pc \notin PreCommand

\* The command of a sandboxed run is started at most once, across crashes,
\* restarts, retries and requeues in place ("never requeue a run whose sandbox
\* worker command had already started", run_service.py:4057-4058).
CommandStartsOnce == \A r \in begun : ~Agent(r) => NotStartedAgain(r)

\* "Re-running it would re-execute committed side effects (emails, CRM writes,
\* sends)" (run_service.py:4058-4059): the same for every run, agents included.
NeverReexecuted == \A r \in begun : NotStartedAgain(r)

\* Policy retries and restart retries together stay within the budget, plus the
\* one restart: the two kinds of retry count attempts on one scale
\* (run_service.py:909-916, 3422-3430).
LineageBounded ==
    \A r \in DOMAIN runs :
        /\ runs[r].attempt <= MaxAttempts
        /\ runs[r].source # "restart_retry" => runs[r].attempt < MaxAttempts

\* No attempt has two children that the retry scheduler recognises: looking for
\* both kinds before the insert makes the two kinds exclude each other, across
\* crashes and recoveries (run_service.py:506-550, 585-604, 3431-3444).
OneRecognisedChild ==
    \A r \in DOMAIN runs : Cardinality(PersistedRetries(r)) <= 1

\* "One child per lineage attempt, whoever asks first" (run_service.py:589).
OneChildPerAttempt ==
    \A r \in DOMAIN runs :
        \E s \in RetrySource : RetryRunId(r, s) \notin DOMAIN runs

\* The source a row was created with.
BirthSource(r) == IF r.path = <<>> THEN "manual" ELSE r.path[Len(r.path)]

Retired(r) == PersistedRetries(r) # {}
\* A thread of r that may still start, or is inside, the worker's code.
Executing(r) == r \in DOMAIN thread /\ thread[r].pc \in PreCommand \cup {"command"}

\* Once its retry exists a run is over: it is not in the queue and no thread of
\* it can start its command, so two attempts of one lineage never overlap.  A
\* shutdown that requeues a run in place is the exception (NeverRequeuedBesideRetry).
RetiredStaysRetired ==
    \A r \in DOMAIN runs :
        Retired(r) /\ runs[r].source = BirthSource(r)
            => runs[r].status # "queued" /\ ~Executing(r)

\* "Pre-command runs (setup / queued-but-not-yet-executing) are safe to requeue"
\* (run_service.py:4060-4061): requeueing never puts a run beside its own retry.
NeverRequeuedBesideRetry ==
    \A r \in DOMAIN runs : Retired(r) => runs[r].status # "queued"

\* Nothing runs behind its row: while the worker's code runs its row says so,
\* unless somebody has asked to cancel it.  No other actor (reaper, recovery,
\* retry, drain) settles or requeues the row of a live command.  Again a run that
\* a shutdown requeued in place is excepted: that erases a cancel in progress.
LiveCommandIsVisible ==
    \A r \in DOMAIN thread :
        thread[r].pc = "command" /\ runs[r].source = BirthSource(r)
            => runs[r].status = "running" \/ runs[r].cancelRequested

\* "A COMPLETED run must never carry an error" (db/sqlite.py:2855-2864), whoever
\* wrote an error while the run was finishing.
CompletedIsHonest ==
    \A r \in DOMAIN runs : runs[r].status = "completed" => runs[r].error = "none"

\* "immediately marks the run as failed with error_code=cancelled_queued so no
\* sandbox is ever spawned" (routers/runs.py:632-634).
CancelledQueuedNeverStarts ==
    \A r \in DOMAIN runs : runs[r].error = "cancelled_queued" => r \notin begun

\* What the rows of a root, with the threads that execute them, mean as attempts of one
\* job.  The job is loose once a row has lost the source it was created with.
RowsOf(root) == {r \in DOMAIN runs : r.root = root}
PhaseOf(r) ==
    IF Executing(r) THEN "working" ELSE IF runs[r].status = "queued" THEN "waiting" ELSE "over"
AttemptOf(r) == [phase |-> PhaseOf(r), begun |-> r \in begun]
AttemptsOf(root) ==
    [n \in {runs[r].attempt : r \in RowsOf(root)} |->
        AttemptOf(CHOOSE r \in RowsOf(root) : runs[r].attempt = n)]
Loosened == {root \in Roots : \E r \in RowsOf(root) : runs[r].source # BirthSource(r)}

Promise == INSTANCE RunAttempts WITH
    Jobs <- Roots, Budget <- MaxAttempts,
    attempts <- [root \in Roots |-> AttemptsOf(root)], loose <- Loosened

\* A trigger's work is attempted one attempt at a time, whoever drains, reaps, recovers,
\* retries, cancels or crashes meanwhile: attempts never overlap, none is queued or
\* claimed again once its worker has begun, agents included, and none but the newest is
\* revived.  A shutdown that requeues in place is the exception.
ImplementsRunAttempts == Promise!Spec

Settled(row) == row.status \in Terminal \cup {"pending_approval"}
\* The drain will never take this row again.
Stranded(row) == row.status = "queued" /\ row.cancelRequested

\* Every run ends, or waits for its approval, once faults and requests stop.
EventuallySettled == <>[](\A r \in DOMAIN runs : Settled(runs[r]))

\* With dispatches that raise and web processes that die the only other end is a
\* row that is queued and cancel_requested, for ever.
EventuallySettledOrStranded ==
    <>[](\A r \in DOMAIN runs : Settled(runs[r]) \/ Stranded(runs[r]))

\* And the executor is then idle, with all its permits.
EventuallyIdle == <>[](free = MaxConcurrentRuns /\ llmFree = MaxLlmRuns)

=============================================================================
