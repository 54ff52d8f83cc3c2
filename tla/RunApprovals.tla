---------------------------- MODULE RunApprovals ----------------------------
(***************************************************************************)
(* Human approval of runs: the approvals table beside the runs table       *)
(* (src/apps/api/routers/approvals.py, run_service.py, main.py,            *)
(* runner_sandbox/agent_driver.py, db/sqlite.py).                          *)
(*                                                                         *)
(* Two kinds of approval.  A worker with approvals.required runs in two    *)
(* phases: a propose run ends parked as pending_approval, and approving it *)
(* creates a follow-up run that fires the side effect.  An agent asks in   *)
(* the middle of its loop and polls its own approval row for the answer.   *)
(*                                                                         *)
(* The actors are executor threads, review requests (dashboard, chat and   *)
(* public links all end in the same four handlers), the cancel endpoint,   *)
(* the expiry sweep and the recovery of a booting executor.  A repository  *)
(* call is one step, and so are the look-up and the insert of a retry or   *)
(* restart.  RunLifecycle has these apart, and graceful shutdown and the   *)
(* split of update_status into its read and its write.                     *)
(*                                                                         *)
(* A definition marked "Mistake" stands for the definition after it, with  *)
(* a plausible error; it is used by no action.                             *)
(***************************************************************************)
EXTENDS Integers, FiniteSets, Functions

CONSTANTS
    Proposals,      \* runs of approvals.required workers, created by a trigger
    Agents,         \* agent runs, created by a trigger
    Requests,       \* review requests; each may create one more run
    MaxRoots,       \* bound: runs that triggers create in one behaviour
    MaxAsks,        \* bound: approvals an agent run asks for
    MaxAttempts,    \* retry budget: attempts 0 .. MaxAttempts - 1 by policy
    RetryChainMax,  \* how many parents of a run are looked at
    SplitRoles,     \* are the web server and the executor two processes?
    Faults,         \* the kinds of faults that may happen
    MaxFaults,      \* bound: faults in one behaviour
    MaxCancels,     \* bound: calls of the cancel endpoint in one behaviour
    NoRun

\* "crash" ends the executor process; "driver" is a failure of a worker, a model or a
\* sandbox; "abort" is a repository call that raises in a review request and ends it;
\* "ask", "expire" and "reject" are writes to the approvals table that fail and are
\* only logged.
FaultKinds == {"crash", "driver", "abort", "ask", "expire", "reject"}

ASSUME ConstantsAssumption ==
    /\ Proposals \cap Agents = {} /\ Proposals \cap Requests = {} /\ Agents \cap Requests = {}
    /\ MaxRoots \in Nat
    /\ MaxAsks \in Nat \ {0}
    /\ MaxAttempts \in Nat \ {0}
    /\ RetryChainMax \in Nat \ {0}
    /\ SplitRoles \in BOOLEAN
    /\ Faults \subseteq FaultKinds
    /\ MaxFaults \in Nat
    /\ MaxCancels \in Nat

\* An attempt of a run.  The next one is a retry by policy or, when the executor is
\* lost, a restart; each has at most one next (_existing_sibling_retry_id).  A retry
\* with feedback is stamped as attempt 1 and has one attempt fewer, which the choice
\* not to retry covers.
RunId == (Proposals \cup Agents \cup Requests) \X (0 .. MaxAttempts)
First(x) == <<x, 0>>
Child(r) == <<r[1], r[2] + 1>>

\* The approvals of a run, numbered as it asks for them.
ApprovalId == RunId \X (1 .. MaxAsks)

ASSUME NoRunAssumption == NoRun \notin RunId

VARIABLES
    runs,       \* run id -> row of the runs table
    approvals,  \* approval id -> row of the approvals table
    due,        \* approvals whose expires_at has passed
    thread,     \* run id -> executor thread
    executor,   \* what the executor process is doing
    lost,       \* rows a booting executor has failed and not yet restarted
    orphaned,   \* parked rows it has failed and whose approvals it still rejects
    request,    \* review request -> where its handler is
    cancel,     \* run id -> cancel request in flight
    fired,      \* history: how often each run has fired its side effect
    answers,    \* history: agents' approvals that came back to the agent as approved
    killed,     \* history: runs whose thread died with its process
    broken,     \* history: runs whose driver has failed
    stranded,   \* history: runs a fault or a cancel left without anybody to move them
    faults,     \* faults so far, at most MaxFaults
    cancels     \* cancel requests so far, at most MaxCancels

tables  == <<runs, approvals>>
boot    == <<executor, lost, orphaned>>
history == <<fired, answers, killed, broken, stranded>>
bounds  == <<faults, cancels>>
vars    == <<tables, due, thread, boot, request, cancel, history, bounds>>

-----------------------------------------------------------------------------
(* Rows *)

RunStatus == {"queued", "running", "pending_approval", "completed", "failed", "cancelled",
              "rejected"}
Terminal  == {"completed", "failed", "cancelled", "rejected"}
ApprovalStatus == {"pending", "approved", "rejected", "expired"}

\* restart: made by recovery (trigger_source "restart_retry")
Run == [status : RunStatus, parent : RunId \cup {NoRun}, restart : BOOLEAN, error : BOOLEAN,
        cancelRequested : BOOLEAN]
Approval == [status : ApprovalStatus, followUp : RunId \cup {NoRun}]

NewRun(status, parent) ==
    [status |-> status, parent |-> parent, restart |-> FALSE, error |-> FALSE,
     cancelRequested |-> FALSE]

Extend(f, x, v) == [y \in DOMAIN f \cup {x} |-> IF y = x THEN v ELSE f[y]]

\* update_status: a completion of a row that carries an error is a failure.
WithStatus(row, status) ==
    [row EXCEPT !.status = IF status = "completed" /\ row.error THEN "failed" ELSE status]
WithError(row, status) == [row EXCEPT !.status = status, !.error = TRUE]
SetRun(r, row) == runs' = [runs EXCEPT ![r] = row]

Agent(r) == r[1] \in Agents
AsksOf(r) == {a \in DOMAIN approvals : a[1] = r}

\* get_by_run_id: the newest approval of the run.
Newest(r) == CHOOSE a \in AsksOf(r) : \A b \in AsksOf(r) : b[2] <= a[2]

\* approvals.approve and approvals.reject: one conditional UPDATE, which without an
\* approval id decides every pending approval of the run.
Pending(asks) == {a \in asks : approvals[a].status = "pending"}
DecideOnly(asks, status) ==
    [a \in DOMAIN approvals |->
        IF a \in Pending(asks) THEN [approvals[a] EXCEPT !.status = status] ELSE approvals[a]]

\* Mistake: the UPDATE is not conditional on the row being pending.
DecideAll(asks, status) ==
    [a \in DOMAIN approvals |->
        IF a \in asks THEN [approvals[a] EXCEPT !.status = status] ELSE approvals[a]]

Decide(asks, status) == DecideOnly(asks, status)

\* get_by_follow_up_run_id, and its status.
Authorised(r) == \E a \in DOMAIN approvals : /\ approvals[a].followUp = r
                                             /\ approvals[a].status = "approved"

\* r, its parent, its parent's parent, and so on: at most RetryChainMax of them.
Chains(r) ==
    {c \in UNION {[1 .. n -> DOMAIN runs] : n \in 1 .. RetryChainMax} :
        /\ c[1] = r
        /\ \A i \in DOMAIN c \ {1} : c[i] = runs[c[i - 1]].parent}

\* Mistake: only the run itself is looked up, not the runs it retries.
IsFollowUp(r) == Authorised(r)

\* _is_engine_approved_execution_run
IsApprovedExecution(r) == \E c \in Chains(r) : \E i \in DOMAIN c : Authorised(c[i])

-----------------------------------------------------------------------------
(* Faults, processes *)

Fault(kind) ==
    /\ kind \in Faults
    /\ faults < MaxFaults
    /\ faults' = faults + 1

\* One process serves requests only after its startup; two processes always.
Serving == SplitRoles \/ executor = "up"

At(r, pc) == r \in DOMAIN thread /\ thread[r].pc = pc
Goto(r, pc) == thread' = [thread EXCEPT ![r].pc = pc]
Leave(r) == thread' = Restrict(thread, DOMAIN thread \ {r})

ReqAt(q, pc) == Serving /\ request[q].pc = pc
ReqGoto(q, pc) == request' = [request EXCEPT ![q].pc = pc]

otherThanThread  == <<due, boot, request, cancel, killed, broken, stranded>>
otherThanRequest == <<due, thread, boot, cancel, history>>

NoRequest == [pc |-> "idle", decision |-> "approve", run |-> NoRun, ask |-> 1]

Init ==
    /\ runs = [r \in {} |-> NewRun("queued", NoRun)]
    /\ approvals = [a \in {} |-> [status |-> "pending", followUp |-> NoRun]]
    /\ due = {}
    /\ thread = [r \in {} |-> [pc |-> "loading", phase |-> "none", ask |-> 0]]
    /\ executor = "up" /\ lost = {} /\ orphaned = {}
    /\ request = [q \in Requests |-> NoRequest]
    /\ cancel = [r \in {} |-> [seen |-> "queued", flagged |-> FALSE]]
    /\ fired = [r \in RunId |-> 0]
    /\ answers = {} /\ killed = {} /\ broken = {} /\ stranded = {}
    /\ faults = 0 /\ cancels = 0

\* A trigger, the API or chat creates a run.
CreateRun(x) ==
    /\ First(x) \notin DOMAIN runs
    /\ Cardinality({r \in DOMAIN runs : r[1] \notin Requests /\ r[2] = 0}) < MaxRoots
    /\ runs' = Extend(runs, First(x), NewRun("queued", NoRun))
    /\ UNCHANGED <<approvals, due, thread, boot, request, cancel, history, bounds>>

-----------------------------------------------------------------------------
(* The executor thread of a worker with approvals.required *)

\* get_queued and claim_queued: the two conditions are the same.
ClaimRun(r) ==
    /\ executor = "up"
    /\ runs[r].status = "queued"
    /\ ~runs[r].cancelRequested
    /\ SetRun(r, WithStatus(runs[r], "running"))
    /\ thread' = Extend(thread, r, [pc |-> "loading", phase |-> "none", ask |-> 0])
    /\ UNCHANGED <<approvals, due, boot, request, cancel, history, bounds>>

\* The thread reads the row: a cancelled run is failed, a settled one left alone.
LoadRun(r) ==
    /\ At(r, "loading")
    /\ \/ /\ runs[r].cancelRequested
          /\ Goto(r, "failing")
       \/ /\ ~runs[r].cancelRequested
          /\ runs[r].status \in {"completed", "failed", "cancelled", "pending_approval"}
          /\ Leave(r)
       \/ /\ ~runs[r].cancelRequested
          /\ runs[r].status \in {"queued", "running", "rejected"}
          /\ Goto(r, IF Agent(r) THEN "looping" ELSE "stamping")
    /\ UNCHANGED <<tables, otherThanThread, fired, answers, bounds>>

\* _apply_approval_phase_inputs: whatever the caller's inputs say.
StampPhase(r) ==
    /\ At(r, "stamping")
    /\ thread' = [thread EXCEPT ![r].pc = "working",
                                ![r].phase = IF IsApprovedExecution(r) THEN "execute" ELSE "propose"]
    /\ UNCHANGED <<tables, otherThanThread, fired, answers, bounds>>

\* The worker's own contract: it acts in the execute phase and only then.
Fire(r) == IF thread[r].phase = "execute" THEN [fired EXCEPT ![r] = @ + 1] ELSE fired

Work(r) ==
    /\ At(r, "working")
    /\ fired' = Fire(r)
    /\ Goto(r, "gating")
    /\ UNCHANGED <<tables, otherThanThread, answers, bounds>>

\* The driver reports a failure of the worker or of the sandbox, before the side effect
\* or after.
WorkFails(r) ==
    /\ Fault("driver")
    /\ At(r, "working")
    /\ fired' \in {fired, Fire(r)}
    /\ broken' = broken \cup {r}
    /\ Goto(r, "erring")
    /\ UNCHANGED <<tables, due, boot, request, cancel, killed, stranded, answers, cancels>>

\* A transient network exception leaves the driver, before the command has started.
WorkRaises(r) ==
    /\ Fault("driver")
    /\ At(r, "working")
    /\ broken' = broken \cup {r}
    /\ Goto(r, "raised")
    /\ UNCHANGED <<tables, due, boot, request, cancel, killed, stranded, fired, answers, cancels>>

\* An execute-phase run is never gated again; an invalid proposal fails.
GateRun(r) ==
    /\ At(r, "gating")
    /\ \/ IsApprovedExecution(r) /\ Goto(r, "completing")
       \/ ~IsApprovedExecution(r) /\ \E next \in {"asking", "failing"} : Goto(r, next)
    /\ UNCHANGED <<tables, otherThanThread, fired, answers, bounds>>

CompleteRun(r) ==
    /\ At(r, "completing")
    /\ SetRun(r, WithStatus(runs[r], "completed"))
    /\ Leave(r)
    /\ UNCHANGED <<approvals, otherThanThread, fired, answers, bounds>>

FailRun(r) ==
    /\ At(r, "failing")
    /\ SetRun(r, WithError(runs[r], "failed"))
    /\ Leave(r)
    /\ UNCHANGED <<approvals, otherThanThread, fired, answers, bounds>>

\* A failure that the driver reported may be retried when it has been written.
FailReported(r) ==
    /\ At(r, "erring")
    /\ SetRun(r, WithError(runs[r], "failed"))
    /\ Goto(r, "retrying")
    /\ UNCHANGED <<approvals, otherThanThread, fired, answers, bounds>>

\* An exception is retried first and written afterwards.
AfterRetry(r) == IF At(r, "raised") THEN Goto(r, "failing") ELSE Leave(r)

RetryRun(r) ==
    /\ At(r, "retrying") \/ At(r, "raised")
    /\ r[2] < MaxAttempts - 1 /\ Child(r) \notin DOMAIN runs
    /\ runs' = Extend(runs, Child(r), NewRun("queued", r))
    /\ AfterRetry(r)
    /\ UNCHANGED <<approvals, otherThanThread, fired, answers, bounds>>

\* The error is not retryable, a spend cap is reached, the budget spent, a child there.
SkipRetry(r) ==
    /\ At(r, "retrying") \/ At(r, "raised")
    /\ AfterRetry(r)
    /\ UNCHANGED <<tables, otherThanThread, fired, answers, bounds>>

NewApproval == [status |-> "pending", followUp |-> NoRun]

\* The approval row comes first, the status after it ...
AskForRun(r) ==
    /\ At(r, "asking")
    /\ approvals' = Extend(approvals, <<r, 1>>, NewApproval)
    /\ Goto(r, "parking")
    /\ UNCHANGED <<runs, otherThanThread, fired, answers, bounds>>

\* ... whether or not the row could be created.
AskForRunFails(r) ==
    /\ Fault("ask")
    /\ At(r, "asking")
    /\ Goto(r, "parking")
    /\ stranded' = stranded \cup {r}
    /\ UNCHANGED <<tables, due, boot, request, cancel, killed, broken, fired, answers, cancels>>

ParkRun(r) ==
    /\ At(r, "parking")
    /\ SetRun(r, WithStatus(runs[r], "pending_approval"))
    /\ Leave(r)
    /\ UNCHANGED <<approvals, otherThanThread, fired, answers, bounds>>

-----------------------------------------------------------------------------
(* request_approval: an agent asks in the middle of its loop *)

\* The approval it is waiting for.
Asked(r) == <<r, thread[r].ask>>

AskInLoop(r) ==
    /\ At(r, "looping")
    /\ thread[r].ask < MaxAsks
    /\ thread' = [thread EXCEPT ![r].pc = "tool_parking", ![r].ask = @ + 1]
    /\ approvals' = Extend(approvals, <<r, thread[r].ask + 1>>, NewApproval)
    /\ UNCHANGED <<runs, otherThanThread, fired, answers, bounds>>

ParkInLoop(r) ==
    /\ At(r, "tool_parking")
    /\ SetRun(r, WithStatus(runs[r], "pending_approval"))
    /\ Goto(r, "polling")
    /\ UNCHANGED <<approvals, otherThanThread, fired, answers, bounds>>

\* Mistake: it polls the newest decided approval of its run.
PollAnyApproval(r) ==
    /\ At(r, "polling")
    /\ \E a \in AsksOf(r) :
          /\ approvals[a].status \in {"approved", "rejected"}
          /\ answers' = IF approvals[a].status = "approved" THEN answers \cup {Asked(r)} ELSE answers
    /\ SetRun(r, WithStatus(runs[r], "running"))
    /\ Goto(r, "looping")
    /\ UNCHANGED <<approvals, otherThanThread, fired, bounds>>

\* A poll by approval id sees the decision: the run goes on.
PollDecided(r) ==
    /\ At(r, "polling")
    /\ approvals[Asked(r)].status \in {"approved", "rejected"}
    /\ SetRun(r, WithStatus(runs[r], "running"))
    /\ answers' = IF approvals[Asked(r)].status = "approved" THEN answers \cup {Asked(r)} ELSE answers
    /\ Goto(r, "looping")
    /\ UNCHANGED <<approvals, otherThanThread, fired, bounds>>

\* A poll saw no decision and the deadline has passed, or the cancel flag is set;
\* a decision may have come since.
PollGivesUp(r) ==
    /\ At(r, "polling")
    /\ SetRun(r, WithStatus(runs[r], "running"))
    /\ Goto(r, "rejecting")
    /\ UNCHANGED <<approvals, otherThanThread, fired, answers, bounds>>

\* The agent withdraws its question, unless it has been answered.
WithdrawAsk(r) ==
    /\ At(r, "rejecting")
    /\ approvals' = Decide({Asked(r)}, "rejected")
    /\ Goto(r, "looping")
    /\ UNCHANGED <<runs, otherThanThread, fired, answers, bounds>>

WithdrawAskFails(r) ==
    /\ Fault("reject")
    /\ At(r, "rejecting")
    /\ Goto(r, "looping")
    /\ UNCHANGED <<tables, otherThanThread, fired, answers, cancels>>

\* The loop looks for a cancel between two model calls only, so a late one is missed.
FinishLoop(r) ==
    /\ At(r, "looping")
    /\ \/ Goto(r, "completing")
       \/ runs[r].cancelRequested /\ Goto(r, "failing")
    /\ UNCHANGED <<tables, otherThanThread, fired, answers, bounds>>

\* The model or a tool of the loop fails.
LoopFails(r) ==
    /\ Fault("driver")
    /\ At(r, "looping")
    /\ broken' = broken \cup {r}
    /\ Goto(r, "erring")
    /\ UNCHANGED <<tables, due, boot, request, cancel, killed, stranded, fired, answers, cancels>>

ThreadStep(r) ==
    \/ LoadRun(r) \/ StampPhase(r) \/ Work(r) \/ GateRun(r) \/ CompleteRun(r)
    \/ FailRun(r) \/ FailReported(r) \/ RetryRun(r) \/ SkipRetry(r) \/ AskForRun(r) \/ ParkRun(r)
    \/ AskInLoop(r) \/ ParkInLoop(r) \/ PollDecided(r) \/ PollGivesUp(r) \/ WithdrawAsk(r)
    \/ FinishLoop(r)

-----------------------------------------------------------------------------
(* Review requests: approve_run, reject_run and the two for agents *)

\* approve_run and reject_run read the run ...
ReadRun(q, r, decision) ==
    /\ ReqAt(q, "idle")
    /\ runs[r].status = "pending_approval"
    /\ request' = [request EXCEPT ![q] = [pc |-> "reading", decision |-> decision, run |-> r,
                                          ask |-> 1]]
    /\ UNCHANGED <<tables, otherThanRequest, bounds>>

\* ... and its newest approval, which must be pending and not an agent's.
ReadApproval(q) ==
    LET r == request[q].run
        usable == AsksOf(r) # {} /\ approvals[Newest(r)].status = "pending"
    IN  /\ ReqAt(q, "reading")
        /\ \/ usable /\ Newest(r) \in due /\ ReqGoto(q, "expiring")
           \/ usable /\ Newest(r) \notin due /\ ~Agent(r) /\ ReqGoto(q, "claiming")
           \/ ~usable /\ ReqGoto(q, "done")
           \/ usable /\ Newest(r) \notin due /\ Agent(r) /\ ReqGoto(q, "done")
        /\ UNCHANGED <<tables, otherThanRequest, bounds>>

\* Mistake: the approval expires and its run is left parked.
UnparkNothing(asks) == runs

\* A run that waits for a decision on one of these approvals fails.
Unpark(asks) ==
    [r \in DOMAIN runs |->
        IF (\E a \in asks : a[1] = r) /\ runs[r].status = "pending_approval"
        THEN WithError(runs[r], "failed") ELSE runs[r]]

\* expire_if_stale: one transaction over both tables.
LazyExpire(q) ==
    LET stale == Pending({Newest(request[q].run)} \cap due)
    IN  /\ ReqAt(q, "expiring")
        /\ approvals' = DecideOnly(stale, "expired")
        /\ runs' = Unpark(stale)
        /\ ReqGoto(q, "rereading")
        /\ UNCHANGED <<otherThanRequest, bounds>>

\* It fails, which is only logged.
LazyExpireFails(q) ==
    /\ Fault("expire")
    /\ ReqAt(q, "expiring")
    /\ ReqGoto(q, "rereading")
    /\ UNCHANGED <<tables, otherThanRequest, cancels>>

\* The approval is read again: only its status is looked at.
RereadApproval(q) ==
    /\ ReqAt(q, "rereading")
    /\ ReqGoto(q, IF approvals[Newest(request[q].run)].status = "pending" THEN "claiming" ELSE "done")
    /\ UNCHANGED <<tables, otherThanRequest, bounds>>

\* The conditional UPDATE decides who wins: a request that changed no row stops.
Claim(q, asks) ==
    /\ approvals' = Decide(asks, IF request[q].decision = "approve" THEN "approved" ELSE "rejected")
    /\ UNCHANGED <<runs, otherThanRequest, bounds>>

\* Mistake: nobody looks whether the UPDATE changed a row.
ClaimUnchecked(q) ==
    /\ ReqAt(q, "claiming")
    /\ Claim(q, AsksOf(request[q].run))
    /\ ReqGoto(q, "settling")

ClaimRunApproval(q) ==
    LET asks == AsksOf(request[q].run)
    IN  /\ ReqAt(q, "claiming")
        /\ Claim(q, asks)
        /\ ReqGoto(q, IF Pending(asks) = {} THEN "done" ELSE "settling")

\* The proposing run leaves pending_approval.
SettleRun(q) ==
    LET r == request[q].run
    IN  /\ ReqAt(q, "settling")
        /\ SetRun(r, WithStatus(runs[r], IF request[q].decision = "approve" THEN "completed"
                                                                            ELSE "rejected"))
        /\ ReqGoto(q, IF request[q].decision = "approve" THEN "creating" ELSE "feedback")
        /\ UNCHANGED <<approvals, otherThanRequest, bounds>>

\* Mistake: the follow-up run is drainable at once.
CreateFollowUpQueued(q) ==
    /\ ReqAt(q, "creating")
    /\ runs' = Extend(runs, First(q), NewRun("queued", NoRun))
    /\ ReqGoto(q, "attaching")
    /\ UNCHANGED <<approvals, otherThanRequest, bounds>>

\* The follow-up run is created as running, which no drain takes ...
CreateFollowUp(q) ==
    /\ ReqAt(q, "creating")
    /\ runs' = Extend(runs, First(q), NewRun("running", NoRun))
    /\ ReqGoto(q, "attaching")
    /\ UNCHANGED <<approvals, otherThanRequest, bounds>>

\* ... is written into the approval ...
AttachFollowUp(q) ==
    /\ ReqAt(q, "attaching")
    /\ approvals' = [a \in DOMAIN approvals |->
                        IF a[1] = request[q].run /\ approvals[a].status = "approved"
                        THEN [approvals[a] EXCEPT !.followUp = First(q)] ELSE approvals[a]]
    /\ ReqGoto(q, "queueing")
    /\ UNCHANGED <<runs, otherThanRequest, bounds>>

\* Mistake: the follow-up run is not made drainable at all.
QueueFollowUpForgotten(q) ==
    /\ ReqAt(q, "queueing")
    /\ ReqGoto(q, "done")
    /\ UNCHANGED <<tables, otherThanRequest, bounds>>

\* ... and only then made drainable, whatever has become of it: one that has been
\* cancelled meanwhile is queued again and no drain takes it.
QueueFollowUp(q) ==
    LET f == First(q)
    IN  /\ ReqAt(q, "queueing")
        /\ SetRun(f, WithStatus(runs[f], "queued"))
        /\ ReqGoto(q, "done")
        /\ stranded' = IF runs[f].status = "cancelled" THEN stranded \cup {f} ELSE stranded
        /\ UNCHANGED <<approvals, due, thread, boot, cancel, fired, answers, killed, broken, bounds>>

\* A rejection with feedback proposes again; a failure to do so is only logged.
CreateFeedbackRetry(q) ==
    /\ ReqAt(q, "feedback")
    /\ \/ runs' = Extend(runs, First(q), NewRun("queued", request[q].run))
       \/ UNCHANGED runs
    /\ ReqGoto(q, "done")
    /\ UNCHANGED <<approvals, otherThanRequest, bounds>>

\* _load_typed_approval for an agent's approval, which does not expire ...
ReadToolApproval(q, a, decision) ==
    /\ ReqAt(q, "idle")
    /\ Agent(a[1])
    /\ approvals[a].status = "pending"
    /\ request' = [request EXCEPT ![q] = [pc |-> "claiming_tool", decision |-> decision,
                                          run |-> a[1], ask |-> a[2]]]
    /\ UNCHANGED <<tables, otherThanRequest, bounds>>

\* ... and the claim of that one approval.  The run is left to the agent's poll.
ClaimToolApproval(q) ==
    /\ ReqAt(q, "claiming_tool")
    /\ Claim(q, {<<request[q].run, request[q].ask>>})
    /\ ReqGoto(q, "done")

\* A call raises, and the handler with it.
RequestAborts(q) ==
    /\ Fault("abort")
    /\ Serving
    /\ request[q].pc \in {"claiming", "claiming_tool", "settling", "creating", "attaching", "queueing"}
    /\ ReqGoto(q, "done")
    /\ stranded' = stranded \cup {request[q].run, First(q)}
    /\ UNCHANGED <<tables, due, thread, boot, cancel, fired, answers, killed, broken, cancels>>

RequestStep(q) ==
    \/ ReadApproval(q) \/ LazyExpire(q) \/ RereadApproval(q) \/ ClaimRunApproval(q)
    \/ SettleRun(q) \/ CreateFollowUp(q) \/ AttachFollowUp(q) \/ QueueFollowUp(q)
    \/ CreateFeedbackRetry(q) \/ ClaimToolApproval(q)

-----------------------------------------------------------------------------
(* Expiry, cancellation *)

\* expires_at passes, hours after the run was parked; agents' approvals have none.
ComeDue(a) ==
    /\ a \in DOMAIN approvals \ due
    /\ ~Agent(a[1])
    /\ ~At(a[1], "parking")
    /\ due' = due \cup {a}
    /\ UNCHANGED <<tables, thread, boot, request, cancel, history, bounds>>

\* _expire_stale_approvals: one transaction.
SweepStale ==
    /\ Serving
    /\ Pending(due) # {}
    /\ approvals' = DecideOnly(due, "expired")
    /\ runs' = Unpark(Pending(due))
    /\ UNCHANGED <<due, thread, boot, request, cancel, history, bounds>>

\* cancel_run: three calls.
CancelRead(r) ==
    /\ Serving
    /\ cancels < MaxCancels
    /\ r \notin DOMAIN cancel
    /\ runs[r].status \notin Terminal
    /\ cancel' = Extend(cancel, r, [seen |-> runs[r].status, flagged |-> FALSE])
    /\ cancels' = cancels + 1
    /\ UNCHANGED <<tables, due, thread, boot, request, history, faults>>

CancelFlag(r) ==
    /\ Serving
    /\ ~cancel[r].flagged
    /\ SetRun(r, [runs[r] EXCEPT !.cancelRequested = TRUE])
    /\ cancel' = [cancel EXCEPT ![r].flagged = TRUE]
    /\ UNCHANGED <<approvals, due, thread, boot, request, history, bounds>>

CancelSettle(r) ==
    /\ Serving
    /\ cancel[r].flagged
    /\ SetRun(r, WithError(runs[r], IF cancel[r].seen = "queued" THEN "failed" ELSE "cancelled"))
    /\ cancel' = Restrict(cancel, DOMAIN cancel \ {r})
    /\ UNCHANGED <<approvals, due, thread, boot, request, history, bounds>>

-----------------------------------------------------------------------------
(* Loss and boot of the executor *)

\* Its threads die with it, and so do requests and cancels served by the same process.
Crash ==
    /\ Fault("crash")
    /\ executor # "down"
    /\ executor' = "down"
    /\ thread' = Restrict(thread, {})
    /\ killed' = killed \cup DOMAIN thread
    /\ lost' = {} /\ orphaned' = {}
    /\ IF SplitRoles THEN UNCHANGED <<request, cancel>>
       ELSE /\ request' = [q \in Requests |-> IF request[q].pc = "idle" THEN request[q]
                                              ELSE [request[q] EXCEPT !.pc = "done"]]
            /\ cancel' = Restrict(cancel, {})
    /\ stranded' = IF SplitRoles THEN stranded
                   ELSE stranded \cup {r \in DOMAIN cancel : cancel[r].flagged}
    /\ UNCHANGED <<tables, due, fired, answers, broken, cancels>>

\* fail_interrupted_runs_on_startup: every running row belongs to a dead process ...
FailInterrupted ==
    /\ executor = "down"
    /\ executor' = "recovering"
    /\ lost' = {r \in DOMAIN runs : runs[r].status = "running"}
    /\ runs' = [r \in DOMAIN runs |-> IF runs[r].status = "running" THEN WithError(runs[r], "failed")
                                                                    ELSE runs[r]]
    /\ UNCHANGED <<approvals, due, thread, orphaned, request, cancel, history, bounds>>

\* ... and is restarted, unless it is a restart already, has a child, or a cap forbids it.
RestartLost(r) ==
    /\ lost' = lost \ {r}
    /\ \/ /\ ~runs[r].restart /\ Child(r) \notin DOMAIN runs
          /\ runs' = Extend(runs, Child(r), [NewRun("queued", r) EXCEPT !.restart = TRUE])
       \/ UNCHANGED runs
    /\ UNCHANGED <<approvals, due, thread, executor, orphaned, request, cancel, history, bounds>>

\* Mistake: only the runs of approvals.required workers are reaped.
FailParkedProposals ==
    /\ executor = "recovering"
    /\ lost = {}
    /\ executor' = "reaping"
    /\ orphaned' = {r \in DOMAIN runs : runs[r].status = "pending_approval" /\ ~Agent(r)}
    /\ runs' = [r \in DOMAIN runs |-> IF r \in orphaned' THEN WithError(runs[r], "failed") ELSE runs[r]]
    /\ UNCHANGED <<approvals, due, thread, lost, request, cancel, history, bounds>>

\* reap_abandoned_pending_approval_runs: parked rows fail in one transaction ...
FailParked ==
    /\ executor = "recovering"
    /\ lost = {}
    /\ executor' = "reaping"
    /\ orphaned' = {r \in DOMAIN runs : runs[r].status = "pending_approval"}
    /\ runs' = [r \in DOMAIN runs |-> IF runs[r].status = "pending_approval"
                                      THEN WithError(runs[r], "failed") ELSE runs[r]]
    /\ UNCHANGED <<approvals, due, thread, lost, request, cancel, history, bounds>>

\* ... and what is still pending of their approvals is rejected one by one.
RejectOrphaned(r) ==
    /\ approvals' = Decide(AsksOf(r), "rejected")
    /\ orphaned' = orphaned \ {r}
    /\ UNCHANGED <<runs, due, thread, executor, lost, request, cancel, history, bounds>>

\* This may fail for any of them; the crash has been counted.
RejectOrphanedFails(r) ==
    /\ "reject" \in Faults
    /\ orphaned' = orphaned \ {r}
    /\ UNCHANGED <<tables, due, thread, executor, lost, request, cancel, history, bounds>>

Resume ==
    /\ executor = "reaping"
    /\ orphaned = {}
    /\ executor' = "up"
    /\ UNCHANGED <<tables, due, thread, lost, orphaned, request, cancel, history, bounds>>

BootStep ==
    \/ FailInterrupted \/ FailParked \/ Resume
    \/ \E r \in lost : RestartLost(r)
    \/ \E r \in orphaned : RejectOrphaned(r)

-----------------------------------------------------------------------------
(* The specification *)

\* What the system does of its own accord; time passes by itself.
Progress ==
    \/ \E r \in DOMAIN runs : ClaimRun(r)
    \/ \E r \in DOMAIN thread : ThreadStep(r)
    \/ \E q \in Requests : RequestStep(q)
    \/ \E r \in DOMAIN cancel : CancelFlag(r) \/ CancelSettle(r)
    \/ \E a \in DOMAIN approvals : ComeDue(a)
    \/ SweepStale
    \/ BootStep

Input ==
    \/ \E x \in Proposals \cup Agents : CreateRun(x)
    \/ \E q \in Requests, decision \in {"approve", "reject"} :
          \/ \E r \in DOMAIN runs : ReadRun(q, r, decision)
          \/ \E a \in DOMAIN approvals : ReadToolApproval(q, a, decision)
    \/ \E r \in DOMAIN runs : CancelRead(r)

FaultStep ==
    \/ Crash
    \/ \E r \in DOMAIN thread : \/ WorkFails(r) \/ WorkRaises(r) \/ LoopFails(r)
                               \/ AskForRunFails(r) \/ WithdrawAskFails(r)
    \/ \E q \in Requests : LazyExpireFails(q) \/ RequestAborts(q)
    \/ \E r \in orphaned : RejectOrphanedFails(r)

Next == Progress \/ Input \/ FaultStep

Spec == Init /\ [][Next]_vars

FairSpec == Spec /\ WF_vars(Progress)

-----------------------------------------------------------------------------
(* Properties *)

ThreadPc == {"loading", "stamping", "working", "gating", "completing", "failing", "erring",
             "retrying", "raised", "asking", "parking", "looping", "tool_parking", "polling",
             "rejecting"}
RequestPc == {"idle", "reading", "expiring", "rereading", "claiming", "claiming_tool",
              "settling", "creating", "attaching", "queueing", "feedback", "done"}
Decision == {"approve", "reject"}

\* Every variable has its type, threads and cancels belong to rows, and an agent
\* waits for an approval it has asked for.
TypeOK ==
    /\ DOMAIN runs \subseteq RunId /\ runs \in [DOMAIN runs -> Run]
    /\ DOMAIN approvals \subseteq ApprovalId /\ approvals \in [DOMAIN approvals -> Approval]
    /\ \A a \in DOMAIN approvals : a[1] \in DOMAIN runs
    /\ due \subseteq DOMAIN approvals
    /\ DOMAIN thread \subseteq DOMAIN runs
    /\ thread \in [DOMAIN thread -> [pc : ThreadPc, phase : {"none", "propose", "execute"},
                                     ask : 0 .. MaxAsks]]
    /\ \A r \in DOMAIN thread :
          thread[r].pc \in {"tool_parking", "polling", "rejecting"} => Asked(r) \in DOMAIN approvals
    /\ executor \in {"up", "down", "recovering", "reaping"}
    /\ lost \subseteq DOMAIN runs /\ orphaned \subseteq DOMAIN runs
    /\ request \in [Requests -> [pc : RequestPc, decision : Decision, run : RunId \cup {NoRun},
                                 ask : 1 .. MaxAsks]]
    /\ \A q \in Requests : request[q].pc # "idle" => request[q].run \in DOMAIN runs
    /\ DOMAIN cancel \subseteq DOMAIN runs
    /\ cancel \in [DOMAIN cancel -> [seen : RunStatus, flagged : BOOLEAN]]
    /\ fired \in [RunId -> Nat] /\ answers \subseteq DOMAIN approvals
    /\ killed \subseteq DOMAIN runs /\ broken \subseteq DOMAIN runs /\ stranded \subseteq RunId
    /\ faults \in 0 .. MaxFaults /\ cancels \in 0 .. MaxCancels

\* A side effect is fired only by the follow-up run of an approval that stands as
\* approved, or by a retry or restart of that run; an agent is told yes only to what has
\* been approved (approve_run, _is_engine_approved_execution_run).
EffectIsApproved ==
    /\ \A r \in {x \in RunId : fired[x] > 0} : \E a \in DOMAIN approvals :
          approvals[a].followUp = First(r[1]) /\ approvals[a].status = "approved"
    /\ \A a \in answers : approvals[a].status = "approved"

\* Approve, reject, expiry, withdrawal and the boot race for the same row, and
\* whoever decides first has decided (the conditional UPDATEs).
DecisionIsFinal ==
    [][\A a \in DOMAIN approvals :
          approvals[a].status # "pending" => approvals'[a].status = approvals[a].status]_vars

\* However many reviewers answer, a parked run gets one new run: the follow-up of an
\* approval or the retry of a rejection (the claim before the spawn, #280).
OneNewRun ==
    \A q1, q2 \in Requests :
        /\ q1 # q2
        /\ {First(q1), First(q2)} \subseteq DOMAIN runs
        => request[q1].run # request[q2].run

\* An attempt of the follow-up run fires the side effect once, and a later attempt fires
\* it again only where the earlier one died with its process or its driver failed: what
\* has been carried out to its end is not repeated (docs/APPROVALS.md says exactly once).
EffectOnceUnlessCut ==
    \A r, s \in RunId :
        /\ fired[r] <= 1
        /\ r[1] = s[1] /\ r[2] < s[2] /\ fired[r] > 0 /\ fired[s] > 0 => r \in killed \cup broken

\* What has been approved is not put before a reviewer again, not even when it is
\* restarted (_is_engine_approved_execution_run walks the chain of retries).
ApprovedNotAskedAgain ==
    \A a, b \in DOMAIN approvals :
        approvals[a].followUp # NoRun => approvals[a].followUp[1] # b[1][1]

\* Somebody will move a parked run: a reviewer can still answer it, a request has
\* claimed its approval, its agent polls, a boot reaps it, or a fault has stranded it
\* (approve_run: without this the run is stuck at pending_approval for ever).
ParkedIsAttended ==
    \A r \in DOMAIN runs \ stranded :
        runs[r].status = "pending_approval" =>
            \/ Pending(AsksOf(r)) # {}
            \/ \E q \in Requests : request[q].run = r /\ request[q].pc = "settling"
            \/ r \in DOMAIN thread
            \/ executor # "up"

\* No run stays parked for ever (the expiry sweep, the deadline of the poll, the boot).
EventuallyNoneParked ==
    <>[](\A r \in DOMAIN runs \ stranded : runs[r].status # "pending_approval")

\* What has been approved is carried out, or its run is seen to have ended otherwise.
EventuallyCarriedOut ==
    <>[](\A a \in DOMAIN approvals :
            approvals[a].followUp # NoRun =>
                \/ approvals[a].followUp \in stranded
                \/ runs[approvals[a].followUp].status \in Terminal)
=============================================================================
