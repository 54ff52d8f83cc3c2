------------------------- MODULE RunApprovals_proofs -------------------------
(***************************************************************************)
(* The safety of approvals, for any runs, reviewers, asks, faults and      *)
(* cancels: whoever decides first has decided, a parked run gets one new   *)
(* run, and somebody moves every parked run that no fault stranded.  Where *)
(* one process serves the requests and executes the runs: a side effect is *)
(* fired only by what has been approved, once unless its process dies or   *)
(* its driver fails, and what has been approved is not asked again.        *)
(***************************************************************************)
EXTENDS RunApprovals, TLAPS

-----------------------------------------------------------------------------
(* The inductive invariant *)

ProposalPc == {"stamping", "working", "gating", "asking", "parking"}
LoopPc == {"looping", "tool_parking", "polling", "rejecting"}
ErrPc == {"erring", "retrying", "raised"}

\* Nobody has worked for the run yet.
Unbegun(r) == /\ r \notin DOMAIN thread
              /\ AsksOf(r) = {}
              /\ fired[r] = 0

\* A run is queued once: before its thread, and so before anything it asks or does.
QueuedInv == \A r \in DOMAIN runs : runs[r].status = "queued" => Unbegun(r)

\* What a thread at a given place has not done yet.
ThreadOf(r) ==
    /\ thread[r].pc \in {"loading", "stamping", "working"} => fired[r] = 0
    /\ thread[r].pc \in {"loading", "stamping", "working", "gating", "asking"} /\ ~Agent(r)
          => AsksOf(r) = {}
    /\ thread[r].pc \in ProposalPc => ~Agent(r)
    /\ thread[r].pc \in LoopPc => Agent(r)
    /\ Agent(r) => \A a \in AsksOf(r) : a[2] <= thread[r].ask
ThreadInv == \A r \in DOMAIN thread : ThreadOf(r)

HasNewest(r) == \E a \in AsksOf(r) : \A b \in AsksOf(r) : b[2] <= a[2]

\* A run that is not an agent's asks once, and only such approvals expire; an agent
\* that was told yes has been approved.
AsksInv ==
    /\ \A a \in DOMAIN approvals : ~Agent(a[1]) => a[2] = 1
    /\ \A a \in due : ~Agent(a[1])
    /\ \A r \in RunId : AsksOf(r) # {} => HasNewest(r)
    /\ \A a \in answers : approvals[a].status = "approved"

\* The run has asked, and its one approval is decided.
Decided(r) == ~Agent(r) /\ <<r, 1>> \in DOMAIN approvals /\ approvals[<<r, 1>>].status # "pending"

\* The request has won: it decided the approval of its run and owns what follows.
Won(q) ==
    \/ request[q].pc \in {"settling", "creating", "attaching", "queueing", "feedback"}
    \/ First(q) \in DOMAIN runs

RequestOf(q) ==
    /\ request[q].pc \in {"expiring", "rereading", "claiming"} => ~Agent(request[q].run)
    /\ First(q) \in DOMAIN runs => request[q].pc \in {"attaching", "queueing", "done"}
    /\ request[q].pc \in {"attaching", "queueing"} =>
          /\ First(q) \in DOMAIN runs
          /\ runs[First(q)].status # "queued"
          /\ Unbegun(First(q))
    /\ Won(q) => Decided(request[q].run)
RequestInv == \A q \in Requests : RequestOf(q)

\* No two requests have won the same run.
WinnerInv == \A p, q \in Requests : p # q /\ Won(p) /\ Won(q) => request[p].run # request[q].run

\* Work belongs to rows.
FiredInv == \A r \in RunId : fired[r] > 0 => r \in DOMAIN runs

\* A thread that is to be retried has a driver that failed.
BrokenInv == \A r \in DOMAIN thread : thread[r].pc \in ErrPc => r \in broken

\* Only a restart is an attempt beyond the budget.
BudgetInv == \A r \in DOMAIN runs : r[2] < MaxAttempts \/ runs[r].restart

BaseInv ==
    /\ TypeOK
    /\ QueuedInv
    /\ ThreadInv
    /\ AsksInv
    /\ RequestInv
    /\ WinnerInv
    /\ FiredInv
    /\ BrokenInv
    /\ BudgetInv

\* What a request that approves has done so far.
ApprovingOf(q) ==
    LET a == <<request[q].run, 1>>
    IN  /\ request[q].pc \in {"creating", "attaching", "queueing"} =>
              request[q].decision = "approve"
        /\ request[q].pc \in {"settling", "creating", "attaching", "queueing"}
              /\ request[q].decision = "approve" => approvals[a].status = "approved"
        /\ request[q].pc = "queueing" => approvals[a].followUp = First(q)
        /\ request[q].pc \in {"attaching", "queueing"} => Child(First(q)) \notin DOMAIN runs
ApprovingInv == \A q \in Requests : ApprovingOf(q)

\* A follow-up is that of an approved approval, made by the request that approved it.
FollowUpOf(a) ==
    \/ approvals[a].followUp = NoRun
    \/ /\ approvals[a].status = "approved"
       /\ \E q \in Requests : /\ approvals[a].followUp = First(q) /\ a[1] = request[q].run
                              /\ request[q].pc \in {"queueing", "done"}
                              /\ First(q) \in DOMAIN runs
FollowUpInv == \A a \in DOMAIN approvals : FollowUpOf(a)

\* A run continues the attempt before it, or the run that was rejected.
ParentOf(r) ==
    /\ r[2] > 0 => /\ <<r[1], r[2] - 1>> \in DOMAIN runs
                   /\ runs[r].parent = <<r[1], r[2] - 1>>
    /\ r[2] = 0 =>
          \/ runs[r].parent = NoRun
          \/ \E q \in Requests : /\ r = First(q)
                                 /\ runs[r].parent = request[q].run
                                 /\ request[q].pc = "done"
ParentInv == \A r \in DOMAIN runs : ParentOf(r)

\* The attempts before an attempt are there.
LineInv == \A r \in DOMAIN runs : \A n \in 0 .. r[2] : <<r[1], n>> \in DOMAIN runs

\* The process that is down has no thread, and no request either.
ExecutorInv ==
    /\ executor # "up" => DOMAIN thread = {} /\ \A q \in Requests : request[q].pc \in {"idle", "done"}
    /\ executor # "recovering" => lost = {}

\* A running row that has acted has a thread, or its thread was cut short.
RunningInv ==
    \A r \in DOMAIN runs :
        runs[r].status = "running" /\ fired[r] > 0 => r \in DOMAIN thread \/ r \in killed \cup broken

\* A run that will not act any more, and has not.
Dead(r) ==
    /\ fired[r] = 0
    /\ r \notin DOMAIN thread
    /\ runs[r].status # "queued"
    /\ \A q \in Requests : r = First(q) => request[q].pc \notin {"attaching", "queueing"}

\* What is followed by another attempt was cut short or never acted.
RestartInv ==
    \A r \in RunId :
        r \in lost \/ Child(r) \in DOMAIN runs => r \in killed \cup broken \/ Dead(r)

\* A run that asks does not continue one that was approved.
AskedInv ==
    \A r \in DOMAIN runs :
        ~Agent(r) /\ (AsksOf(r) # {} \/ At(r, "asking")) => ~IsApprovedExecution(r)

\* What continues an approved follow-up is a later attempt of it.
ApprovedInv == \A r \in DOMAIN runs : IsApprovedExecution(r) => Authorised(First(r[1]))

\* Only a follow-up and its later attempts act.
ActorInv ==
    \A r \in DOMAIN runs :
        fired[r] > 0 \/ (r \in DOMAIN thread /\ thread[r].phase = "execute")
            => Authorised(First(r[1]))

\* In one process.
ProcessInv ==
    /\ BaseInv
    /\ ApprovingInv
    /\ FollowUpInv
    /\ ParentInv
    /\ LineInv
    /\ ExecutorInv
    /\ RunningInv
    /\ RestartInv
    /\ AskedInv
    /\ ApprovedInv
    /\ ActorInv
    /\ \A r \in RunId : fired[r] <= 1

-----------------------------------------------------------------------------
(* Types, by table *)

RunsType ==
    /\ DOMAIN runs \subseteq RunId
    /\ runs \in [DOMAIN runs -> Run]

ApprovalsType ==
    /\ DOMAIN approvals \subseteq ApprovalId
    /\ approvals \in [DOMAIN approvals -> Approval]
    /\ \A a \in DOMAIN approvals : a[1] \in DOMAIN runs

Thread == [pc : ThreadPc, phase : {"none", "propose", "execute"}, ask : 0 .. MaxAsks]

ThreadType ==
    /\ DOMAIN thread \subseteq DOMAIN runs
    /\ thread \in [DOMAIN thread -> Thread]
    /\ \A r \in DOMAIN thread :
          thread[r].pc \in {"tool_parking", "polling", "rejecting"} => Asked(r) \in DOMAIN approvals

Request == [pc : RequestPc, decision : Decision, run : RunId \cup {NoRun}, ask : 1 .. MaxAsks]

RequestType ==
    /\ request \in [Requests -> Request]
    /\ \A q \in Requests : request[q].pc # "idle" => request[q].run \in DOMAIN runs

RestType ==
    /\ due \subseteq DOMAIN approvals
    /\ executor \in {"up", "down", "recovering", "reaping"}
    /\ lost \subseteq DOMAIN runs /\ orphaned \subseteq DOMAIN runs
    /\ DOMAIN cancel \subseteq DOMAIN runs
    /\ cancel \in [DOMAIN cancel -> [seen : RunStatus, flagged : BOOLEAN]]
    /\ fired \in [RunId -> Nat] /\ answers \subseteq DOMAIN approvals
    /\ killed \subseteq DOMAIN runs /\ broken \subseteq DOMAIN runs /\ stranded \subseteq RunId
    /\ faults \in 0 .. MaxFaults /\ cancels \in 0 .. MaxCancels

LEMMA TypeParts ==
    TypeOK <=> RunsType /\ ApprovalsType /\ ThreadType /\ RequestType /\ RestType
<1> QED
  BY DEF TypeOK, RunsType, ApprovalsType, ThreadType, Thread, RequestType, Request, RestType

LEMMA TypePartsNext ==
    TypeOK' <=> RunsType' /\ ApprovalsType' /\ ThreadType' /\ RequestType' /\ RestType'
<1> QED
  BY DEF TypeOK, RunsType, ApprovalsType, ThreadType, Thread, RequestType, Request, RestType, Asked

-----------------------------------------------------------------------------
(* Rows and functions *)

\* A table with one more row.
LEMMA Extended ==
    ASSUME NEW S, NEW f, f \in [DOMAIN f -> S], NEW x, NEW v \in S
    PROVE  /\ DOMAIN Extend(f, x, v) = DOMAIN f \cup {x}
           /\ Extend(f, x, v) \in [DOMAIN f \cup {x} -> S]
           /\ Extend(f, x, v)[x] = v
           /\ \A y \in DOMAIN f : y # x => Extend(f, x, v)[y] = f[y]
<1> QED BY DEF Extend

\* A table with fewer rows.
LEMMA Restricted ==
    ASSUME NEW S, NEW f, f \in [DOMAIN f -> S], NEW D, D \subseteq DOMAIN f
    PROVE  /\ DOMAIN Restrict(f, D) = D
           /\ Restrict(f, D) \in [D -> S]
           /\ \A y \in D : Restrict(f, D)[y] = f[y]
<1> QED BY DEF Restrict

\* update_status and the updates that set an error keep how a row was made.
LEMMA UpdatedRow ==
    ASSUME NEW row \in Run, NEW s \in RunStatus
    PROVE  /\ WithStatus(row, s) \in Run
           /\ WithStatus(row, s).parent = row.parent
           /\ WithStatus(row, s).restart = row.restart
           /\ WithStatus(row, s).status \in {s, "failed"}
           /\ s # "completed" => WithStatus(row, s).status = s
           /\ WithError(row, s) \in Run
           /\ WithError(row, s).parent = row.parent
           /\ WithError(row, s).restart = row.restart
           /\ WithError(row, s).status = s
<1> QED BY DEF Run, RunStatus, WithStatus, WithError

LEMMA NewRunIsRun ==
    ASSUME NEW s \in RunStatus, NEW p \in RunId \cup {NoRun}
    PROVE  /\ NewRun(s, p) \in Run
           /\ NewRun(s, p).status = s
           /\ NewRun(s, p).parent = p
<1> QED BY DEF NewRun, Run

\* The row that recovery makes.
RestartRow(r) == [NewRun("queued", r) EXCEPT !.restart = TRUE]

LEMMA RestartIsRun ==
    ASSUME NEW p \in RunId
    PROVE  /\ RestartRow(p) \in Run
           /\ RestartRow(p).status = "queued"
           /\ RestartRow(p).parent = p
           /\ RestartRow(p).restart
<1> QED BY DEF RestartRow, NewRun, Run, RunStatus

LEMMA RunIds ==
    /\ \A x \in Proposals \cup Agents \cup Requests :
          First(x) \in RunId /\ First(x)[1] = x /\ First(x)[2] = 0
    /\ \A r \in RunId :
          /\ r[1] \in Proposals \cup Agents \cup Requests
          /\ r[2] \in 0 .. MaxAttempts /\ r[2] \in Nat
          /\ r = <<r[1], r[2]>>
          /\ r[2] = 0 => r = First(r[1])
          /\ \A n \in 0 .. r[2] : <<r[1], n>> \in RunId
          /\ Child(r)[1] = r[1] /\ Child(r)[2] = r[2] + 1
          /\ <<Child(r)[1], Child(r)[2] - 1>> = r
          /\ r[2] < MaxAttempts => Child(r) \in RunId
          /\ \A x : Child(r) # First(x)
    /\ \A r, s \in RunId : Child(r) = Child(s) => r = s
    /\ \A r \in RunId : r[2] > 0 => <<r[1], r[2] - 1>> \in RunId /\ r = Child(<<r[1], r[2] - 1>>)
    /\ \A p, q \in Proposals \cup Agents \cup Requests : First(p) = First(q) => p = q
    /\ \A q \in Requests : q \notin Proposals /\ q \notin Agents
<1>1. MaxAttempts \in Nat
  BY ConstantsAssumption
<1> QED BY <1>1, ConstantsAssumption DEF RunId, First, Child

-----------------------------------------------------------------------------
(* What a step may do to each table *)

\* A row that a step adds.
NewRow(r, row) ==
    \/ /\ \E x \in Proposals \cup Agents : r = First(x)
       /\ row.parent = NoRun
    \/ \E q \in Requests :
          /\ r = First(q)
          /\ \/ /\ request[q].pc = "creating" /\ request'[q].pc = "attaching"
                /\ row = NewRun("running", NoRun)
             \/ /\ request[q].pc = "feedback" /\ request'[q].pc = "done"
                /\ request'[q].run = request[q].run
                /\ row = NewRun("queued", request[q].run)
    \/ \E s \in lost :
          /\ r = Child(s)
          /\ row = RestartRow(s)
    \/ \E s \in DOMAIN thread :
          /\ thread[s].pc \in {"retrying", "raised"}
          /\ s[2] < MaxAttempts - 1 /\ r = Child(s)
          /\ row = NewRun("queued", s)

\* A row that was there: what queues it, and what makes it running.
RowMove(r) ==
    /\ runs'[r].parent = runs[r].parent
    /\ runs'[r].restart = runs[r].restart
    /\ runs'[r].status = "queued" =>
          \/ runs[r].status = "queued"
          \/ \E q \in Requests : /\ r = First(q)
                                 /\ request[q].pc = "queueing" /\ request'[q].pc = "done"
    /\ runs'[r].status = "running" => runs[r].status = "running" \/ r \in DOMAIN thread'

RunsMove ==
    /\ DOMAIN runs \subseteq DOMAIN runs'
    /\ \A r \in DOMAIN runs' : r \in DOMAIN runs \/ NewRow(r, runs'[r])
    /\ \A r \in DOMAIN runs : RowMove(r)

LEMMA RunsStay ==
    ASSUME RunsType, UNCHANGED runs
    PROVE  RunsType' /\ RunsMove
<1> QED BY DEF RunsType, RunsMove, RowMove

LEMMA RowSet ==
    ASSUME RunsType, NEW r \in DOMAIN runs, NEW row \in Run, SetRun(r, row),
           row.parent = runs[r].parent, row.restart = runs[r].restart,
           row.status = "queued" =>
              \/ runs[r].status = "queued"
              \/ \E q \in Requests : /\ r = First(q)
                                     /\ request[q].pc = "queueing" /\ request'[q].pc = "done",
           row.status = "running" => runs[r].status = "running" \/ r \in DOMAIN thread'
    PROVE  RunsType' /\ RunsMove
<1>1. /\ runs' \in [DOMAIN runs -> Run]
      /\ runs'[r] = row
      /\ \A s \in DOMAIN runs : s # r => runs'[s] = runs[s]
  BY DEF RunsType, SetRun
<1>2. DOMAIN runs' = DOMAIN runs
  BY <1>1
<1> QED BY <1>1, <1>2 DEF RunsType, RunsMove, RowMove

LEMMA RowsFail ==
    ASSUME RunsType, NEW S,
           runs' = [r \in DOMAIN runs |-> IF r \in S THEN WithError(runs[r], "failed") ELSE runs[r]]
    PROVE  RunsType' /\ RunsMove
<1>1. ASSUME NEW r \in DOMAIN runs
      PROVE  /\ runs'[r] \in Run
             /\ runs'[r].parent = runs[r].parent
             /\ runs'[r].restart = runs[r].restart
             /\ runs'[r].status \in {"failed", runs[r].status}
  <2>1. runs[r] \in Run /\ "failed" \in RunStatus
    BY DEF RunsType, RunStatus
  <2> QED BY <2>1, UpdatedRow
<1>2. DOMAIN runs' = DOMAIN runs /\ runs' \in [DOMAIN runs -> Run]
  BY <1>1
<1> QED BY <1>1, <1>2 DEF RunsType, RunsMove, RowMove

LEMMA RowAdded ==
    ASSUME RunsType, NEW r \in RunId, r \notin DOMAIN runs, NEW row \in Run, NewRow(r, row),
           runs' = Extend(runs, r, row)
    PROVE  RunsType' /\ RunsMove
<1>1. /\ DOMAIN runs' = DOMAIN runs \cup {r}
      /\ runs' \in [DOMAIN runs \cup {r} -> Run]
      /\ runs'[r] = row
      /\ \A s \in DOMAIN runs : runs'[s] = runs[s]
  BY DEF RunsType, Extend
<1> QED BY <1>1 DEF RunsType, RunsMove, RowMove

LEMMA RunsStep ==
    ASSUME BaseInv, Next
    PROVE  RunsType' /\ RunsMove
<1> RunsType /\ ThreadType /\ RequestType /\ RestType /\ RequestInv /\ BudgetInv
  BY TypeParts DEF BaseInv
<1>1. ASSUME NEW r \in DOMAIN thread,
             \/ LoadRun(r) \/ StampPhase(r) \/ Work(r) \/ WorkFails(r) \/ GateRun(r)
             \/ WorkRaises(r) \/ LoopFails(r) \/ SkipRetry(r)
             \/ AskForRun(r) \/ AskInLoop(r) \/ WithdrawAsk(r) \/ FinishLoop(r)
             \/ AskForRunFails(r) \/ WithdrawAskFails(r)
      PROVE  RunsType' /\ RunsMove
  <2>1. UNCHANGED runs
    BY <1>1 DEF LoadRun, StampPhase, Work, WorkFails, WorkRaises, LoopFails, SkipRetry,
       AfterRetry, GateRun, AskForRun, AskInLoop,
       WithdrawAsk, FinishLoop, AskForRunFails, WithdrawAskFails, Goto, Leave, At, tables,
       boot, bounds, otherThanThread, Fault, Decide, Fire
  <2> QED BY <2>1, RunsStay
<1>2. ASSUME NEW q \in Requests,
             \/ ReadApproval(q) \/ RereadApproval(q) \/ ClaimRunApproval(q)
             \/ AttachFollowUp(q) \/ ClaimToolApproval(q) \/ LazyExpireFails(q)
             \/ RequestAborts(q)
      PROVE  RunsType' /\ RunsMove
  <2>1. UNCHANGED runs
    BY <1>2 DEF ReadApproval, RereadApproval, ClaimRunApproval, AttachFollowUp,
       ClaimToolApproval, LazyExpireFails, RequestAborts, ReqAt, ReqGoto, tables, boot,
       history, bounds, otherThanRequest, Claim, Fault, Decide, Pending, Serving
  <2> QED BY <2>1, RunsStay
<1>3. ASSUME NEW r \in DOMAIN runs, CancelRead(r)
      PROVE  RunsType' /\ RunsMove
  <2>1. UNCHANGED runs
    BY <1>3 DEF CancelRead, tables, boot, history, Serving
  <2> QED BY <2>1, RunsStay
<1>4. ASSUME NEW q \in Requests, NEW decision \in {"approve", "reject"}, NEW r \in DOMAIN runs,
             ReadRun(q, r, decision)
      PROVE  RunsType' /\ RunsMove
  <2>1. UNCHANGED runs
    BY <1>4 DEF ReadRun, ReqAt, tables, boot, history, bounds, otherThanRequest, Serving
  <2> QED BY <2>1, RunsStay
<1>5. ASSUME NEW q \in Requests, NEW decision \in {"approve", "reject"}, NEW a \in DOMAIN approvals,
             ReadToolApproval(q, a, decision)
      PROVE  RunsType' /\ RunsMove
  <2>1. UNCHANGED runs
    BY <1>5 DEF ReadToolApproval, ReqAt, tables, boot, history, bounds, otherThanRequest,
       Serving
  <2> QED BY <2>1, RunsStay
<1>6. ASSUME Resume \/ Crash
      PROVE  RunsType' /\ RunsMove
  <2>1. UNCHANGED runs
    BY <1>6 DEF Resume, Crash, tables, history, bounds, Fault
  <2> QED BY <2>1, RunsStay
<1>7. ASSUME NEW r \in orphaned, RejectOrphaned(r) \/ RejectOrphanedFails(r)
      PROVE  RunsType' /\ RunsMove
  <2>1. UNCHANGED runs
    BY <1>7 DEF RejectOrphaned, RejectOrphanedFails, tables, history, bounds, Decide
  <2> QED BY <2>1, RunsStay
<1>8. ASSUME NEW a \in DOMAIN approvals, ComeDue(a)
      PROVE  RunsType' /\ RunsMove
  <2>1. UNCHANGED runs
    BY <1>8 DEF ComeDue, At, tables, boot, history, bounds
  <2> QED BY <2>1, RunsStay
<1>9. ASSUME NEW r \in DOMAIN thread, CompleteRun(r)
      PROVE  RunsType' /\ RunsMove
  <2>1. runs[r] \in Run /\ "completed" \in RunStatus
    BY DEF RunsType, ThreadType, RunStatus
  <2>2. SetRun(r, WithStatus(runs[r], "completed"))
    BY <1>9 DEF CompleteRun
  <2> QED BY <2>1, <2>2, UpdatedRow, RowSet DEF ThreadType
<1>10. ASSUME NEW r \in DOMAIN thread, ParkRun(r)
      PROVE  RunsType' /\ RunsMove
  <2>1. runs[r] \in Run /\ "pending_approval" \in RunStatus
    BY DEF RunsType, ThreadType, RunStatus
  <2>2. SetRun(r, WithStatus(runs[r], "pending_approval"))
    BY <1>10 DEF ParkRun
  <2> QED BY <2>1, <2>2, UpdatedRow, RowSet DEF ThreadType
<1>11. ASSUME NEW r \in DOMAIN thread, ParkInLoop(r)
      PROVE  RunsType' /\ RunsMove
  <2>1. runs[r] \in Run /\ "pending_approval" \in RunStatus
    BY DEF RunsType, ThreadType, RunStatus
  <2>2. SetRun(r, WithStatus(runs[r], "pending_approval"))
    BY <1>11 DEF ParkInLoop
  <2> QED BY <2>1, <2>2, UpdatedRow, RowSet DEF ThreadType
<1>12. ASSUME NEW r \in DOMAIN thread, PollDecided(r)
      PROVE  RunsType' /\ RunsMove
  <2>1. runs[r] \in Run /\ "running" \in RunStatus
    BY DEF RunsType, ThreadType, RunStatus
  <2>2. SetRun(r, WithStatus(runs[r], "running")) /\ r \in DOMAIN thread'
    BY <1>12 DEF PollDecided, Goto
  <2> QED BY <2>1, <2>2, UpdatedRow, RowSet DEF ThreadType
<1>13. ASSUME NEW r \in DOMAIN thread, PollGivesUp(r)
      PROVE  RunsType' /\ RunsMove
  <2>1. runs[r] \in Run /\ "running" \in RunStatus
    BY DEF RunsType, ThreadType, RunStatus
  <2>2. SetRun(r, WithStatus(runs[r], "running")) /\ r \in DOMAIN thread'
    BY <1>13 DEF PollGivesUp, Goto
  <2> QED BY <2>1, <2>2, UpdatedRow, RowSet DEF ThreadType
<1>14. ASSUME NEW r \in DOMAIN runs, ClaimRun(r)
      PROVE  RunsType' /\ RunsMove
  <2>1. runs[r] \in Run /\ "running" \in RunStatus
    BY DEF RunsType, RunStatus
  <2>2. SetRun(r, WithStatus(runs[r], "running")) /\ r \in DOMAIN thread'
    BY <1>14 DEF ClaimRun, Extend
  <2> QED BY <2>1, <2>2, UpdatedRow, RowSet
<1>15. ASSUME NEW r \in DOMAIN thread, FailRun(r)
      PROVE  RunsType' /\ RunsMove
  <2>1. runs[r] \in Run /\ "failed" \in RunStatus
    BY DEF RunsType, ThreadType, RunStatus
  <2>2. SetRun(r, WithError(runs[r], "failed"))
    BY <1>15 DEF FailRun
  <2> QED BY <2>1, <2>2, UpdatedRow, RowSet DEF ThreadType
<1>16. ASSUME NEW r \in DOMAIN cancel, CancelSettle(r)
      PROVE  RunsType' /\ RunsMove
  <2>1. r \in DOMAIN runs /\ runs[r] \in Run /\ {"failed", "cancelled"} \subseteq RunStatus
    BY DEF RunsType, RestType, RunStatus
  <2>2. PICK s \in {"failed", "cancelled"} : SetRun(r, WithError(runs[r], s))
    BY <1>16 DEF CancelSettle
  <2> QED BY <2>1, <2>2, UpdatedRow, RowSet
<1>17. ASSUME NEW r \in DOMAIN cancel, CancelFlag(r)
      PROVE  RunsType' /\ RunsMove
  <2>1. r \in DOMAIN runs /\ runs[r] \in Run
    BY DEF RunsType, RestType
  <2> DEFINE row == [runs[r] EXCEPT !.cancelRequested = TRUE]
  <2>2. /\ row \in Run /\ row.parent = runs[r].parent
        /\ row.status = runs[r].status /\ row.restart = runs[r].restart
    BY <2>1 DEF Run
  <2>3. SetRun(r, row)
    BY <1>17 DEF CancelFlag
  <2> HIDE DEF row
  <2> QED BY <2>1, <2>2, <2>3, RowSet
<1>18. ASSUME NEW q \in Requests, SettleRun(q)
      PROVE  RunsType' /\ RunsMove
  <2> DEFINE r == request[q].run
  <2>1. r \in DOMAIN runs /\ runs[r] \in Run /\ {"completed", "rejected"} \subseteq RunStatus
    BY <1>18 DEF RunsType, RequestType, RunStatus, SettleRun, ReqAt
  <2>2. PICK s \in {"completed", "rejected"} : SetRun(r, WithStatus(runs[r], s))
    BY <1>18 DEF SettleRun
  <2> HIDE DEF r
  <2> QED BY <2>1, <2>2, UpdatedRow, RowSet
<1>19. ASSUME NEW q \in Requests, QueueFollowUp(q)
      PROVE  RunsType' /\ RunsMove
  <2> DEFINE r == First(q)
  <2>1. r \in DOMAIN runs /\ runs[r] \in Run /\ "queued" \in RunStatus
    BY <1>19 DEF RunsType, RequestInv, RequestOf, RunStatus, QueueFollowUp, ReqAt
  <2>2. SetRun(r, WithStatus(runs[r], "queued"))
    BY <1>19 DEF QueueFollowUp
  <2>3. request[q].pc = "queueing" /\ request'[q].pc = "done"
    BY <1>19 DEF QueueFollowUp, ReqAt, ReqGoto, RequestType, Request
  <2>4. /\ WithStatus(runs[r], "queued").status = "queued"
        /\ WithStatus(runs[r], "queued").parent = runs[r].parent
        /\ WithStatus(runs[r], "queued").restart = runs[r].restart
    BY <2>1, UpdatedRow
  <2>5. WithStatus(runs[r], "queued") \in Run
    BY <2>1, UpdatedRow
  <2>6. \E p \in Requests : r = First(p) /\ request[p].pc = "queueing" /\ request'[p].pc = "done"
    BY <2>3
  <2> HIDE DEF r
  <2> QED BY <2>1, <2>2, <2>4, <2>5, <2>6, RowSet
<1>20. ASSUME NEW q \in Requests, LazyExpire(q)
      PROVE  RunsType' /\ RunsMove
  <2>1. PICK asks : runs' = Unpark(asks)
    BY <1>20 DEF LazyExpire
  <2> DEFINE S == {r \in DOMAIN runs : (\E a \in asks : a[1] = r) /\ runs[r].status = "pending_approval"}
  <2>2. runs' = [r \in DOMAIN runs |-> IF r \in S THEN WithError(runs[r], "failed") ELSE runs[r]]
    BY <2>1 DEF Unpark
  <2> HIDE DEF S
  <2> QED BY <2>2, RowsFail
<1>21. ASSUME SweepStale
      PROVE  RunsType' /\ RunsMove
  <2>1. PICK asks : runs' = Unpark(asks)
    BY <1>21 DEF SweepStale
  <2> DEFINE S == {r \in DOMAIN runs : (\E a \in asks : a[1] = r) /\ runs[r].status = "pending_approval"}
  <2>2. runs' = [r \in DOMAIN runs |-> IF r \in S THEN WithError(runs[r], "failed") ELSE runs[r]]
    BY <2>1 DEF Unpark
  <2> HIDE DEF S
  <2> QED BY <2>2, RowsFail
<1>22. ASSUME FailInterrupted
      PROVE  RunsType' /\ RunsMove
  <2> DEFINE S == {r \in DOMAIN runs : runs[r].status = "running"}
  <2>1. runs' = [r \in DOMAIN runs |-> IF r \in S THEN WithError(runs[r], "failed") ELSE runs[r]]
    BY <1>22 DEF FailInterrupted
  <2> HIDE DEF S
  <2> QED BY <2>1, RowsFail
<1>23. ASSUME FailParked
      PROVE  RunsType' /\ RunsMove
  <2> DEFINE S == {r \in DOMAIN runs : runs[r].status = "pending_approval"}
  <2>1. runs' = [r \in DOMAIN runs |-> IF r \in S THEN WithError(runs[r], "failed") ELSE runs[r]]
    BY <1>23 DEF FailParked
  <2> HIDE DEF S
  <2> QED BY <2>1, RowsFail
<1>24. ASSUME NEW x \in Proposals \cup Agents, CreateRun(x)
      PROVE  RunsType' /\ RunsMove
  <2>1. First(x) \in RunId /\ First(x) \notin DOMAIN runs
    BY <1>24, RunIds DEF CreateRun
  <2>2. /\ NewRun("queued", NoRun) \in Run
        /\ NewRow(First(x), NewRun("queued", NoRun))
    BY NewRunIsRun DEF RunStatus, NewRow
  <2> QED BY <1>24, <2>1, <2>2, RowAdded DEF CreateRun
<1>25. ASSUME NEW q \in Requests, CreateFollowUp(q)
      PROVE  RunsType' /\ RunsMove
  <2>1. First(q) \in RunId /\ First(q) \notin DOMAIN runs
    BY <1>25, RunIds DEF CreateFollowUp, ReqAt, RequestInv, RequestOf
  <2>2. request[q].pc = "creating" /\ request'[q].pc = "attaching"
    BY <1>25 DEF CreateFollowUp, ReqAt, ReqGoto, RequestType, Request
  <2>3. /\ NewRun("running", NoRun) \in Run
        /\ NewRow(First(q), NewRun("running", NoRun))
    BY <2>2, NewRunIsRun DEF RunStatus, NewRow
  <2> QED BY <1>25, <2>1, <2>3, RowAdded DEF CreateFollowUp
<1>26. ASSUME NEW q \in Requests, CreateFeedbackRetry(q)
      PROVE  RunsType' /\ RunsMove
  <2>1. First(q) \in RunId /\ First(q) \notin DOMAIN runs
    BY <1>26, RunIds DEF CreateFeedbackRetry, ReqAt, RequestInv, RequestOf
  <2>2. /\ request[q].pc = "feedback" /\ request'[q].pc = "done"
        /\ request'[q].run = request[q].run
    BY <1>26 DEF CreateFeedbackRetry, ReqAt, ReqGoto, RequestType, Request
  <2>3. request[q].run \in RunId
    BY <2>2 DEF RequestType, RunsType
  <2>4. /\ NewRun("queued", request[q].run) \in Run
        /\ NewRow(First(q), NewRun("queued", request[q].run))
    BY <2>2, <2>3, NewRunIsRun DEF RunStatus, NewRow
  <2> QED BY <1>26, <2>1, <2>4, RowAdded, RunsStay DEF CreateFeedbackRetry
<1>27. ASSUME NEW r \in lost, RestartLost(r)
      PROVE  RunsType' /\ RunsMove
  <2>1. CASE UNCHANGED runs
    BY <2>1, RunsStay
  <2>2. CASE /\ ~runs[r].restart /\ Child(r) \notin DOMAIN runs
             /\ runs' = Extend(runs, Child(r), [NewRun("queued", r) EXCEPT !.restart = TRUE])
    <3>1. r \in RunId /\ r \in DOMAIN runs
      BY DEF RestType, RunsType
    <3>2. r[2] < MaxAttempts
      BY <2>2, <3>1 DEF BudgetInv
    <3>3. Child(r) \in RunId
      BY <3>1, <3>2, RunIds
    <3>4. RestartRow(r) \in Run /\ NewRow(Child(r), RestartRow(r))
      BY <3>1, RestartIsRun DEF NewRow
    <3>5. runs' = Extend(runs, Child(r), RestartRow(r))
      BY <2>2 DEF RestartRow
    <3> QED BY <2>2, <3>3, <3>4, <3>5, RowAdded
  <2> QED BY <1>27, <2>1, <2>2 DEF RestartLost
<1>28. ASSUME NEW r \in DOMAIN thread, FailReported(r)
      PROVE  RunsType' /\ RunsMove
  <2>1. runs[r] \in Run /\ "failed" \in RunStatus
    BY DEF RunsType, ThreadType, RunStatus
  <2>2. SetRun(r, WithError(runs[r], "failed"))
    BY <1>28 DEF FailReported
  <2> QED BY <2>1, <2>2, UpdatedRow, RowSet DEF ThreadType
<1>29. ASSUME NEW r \in DOMAIN thread, RetryRun(r)
      PROVE  RunsType' /\ RunsMove
  <2>1. r \in RunId /\ MaxAttempts \in Nat
    BY ConstantsAssumption DEF ThreadType, RunsType
  <2>2. /\ thread[r].pc \in {"retrying", "raised"}
        /\ r[2] < MaxAttempts - 1 /\ Child(r) \notin DOMAIN runs
        /\ runs' = Extend(runs, Child(r), NewRun("queued", r))
    BY <1>29 DEF RetryRun, At
  <2>3. r[2] < MaxAttempts
    BY <2>1, <2>2, RunIds
  <2>4. Child(r) \in RunId
    BY <2>1, <2>3, RunIds
  <2>5. /\ NewRun("queued", r) \in Run
        /\ NewRow(Child(r), NewRun("queued", r))
    BY <2>1, <2>2, NewRunIsRun DEF RunStatus, NewRow
  <2> QED BY <2>2, <2>4, <2>5, RowAdded
<1> QED BY <1>1, <1>2, <1>3, <1>4, <1>5, <1>6, <1>7, <1>8, <1>9, <1>10, <1>11, <1>12, <1>13,
   <1>14, <1>15, <1>16, <1>17, <1>18, <1>19, <1>20, <1>21, <1>22, <1>23, <1>24, <1>25,
   <1>26, <1>27, <1>28, <1>29
   DEF Next, Progress, Input, FaultStep, ThreadStep, RequestStep, BootStep

\* A new approval: asked by a thread for its run or in the loop of its agent.
NewAsk(a) ==
    /\ approvals'[a] = NewApproval
    /\ a[1] \in DOMAIN thread
    /\ \/ thread[a[1]].pc = "asking" /\ a[2] = 1
       \/ thread[a[1]].pc = "looping" /\ a[2] = thread[a[1]].ask + 1
    /\ \A b \in DOMAIN approvals' : b \in DOMAIN approvals \/ b = a

\* The follow-up run of q is written into a.
Attached(q, a) ==
    /\ request[q].pc = "attaching" /\ request'[q].pc = "queueing"
    /\ a[1] = request[q].run
    /\ approvals[a].status = "approved"
    /\ approvals'[a].followUp = First(q)

AskMove(a) ==
    /\ approvals[a].status # "pending" => approvals'[a].status = approvals[a].status
    /\ \/ approvals'[a].followUp = approvals[a].followUp
       \/ \E q \in Requests : Attached(q, a)

ApprovalsMove ==
    /\ DOMAIN approvals \subseteq DOMAIN approvals'
    /\ \A a \in DOMAIN approvals' : a \in DOMAIN approvals \/ NewAsk(a)
    /\ \A a \in DOMAIN approvals : AskMove(a)

LEMMA ApprovalsStay ==
    ASSUME ApprovalsType, RunsMove, UNCHANGED approvals
    PROVE  ApprovalsType' /\ ApprovalsMove
<1> QED BY DEF ApprovalsType, ApprovalsMove, AskMove, RunsMove

LEMMA ApprovalsDecided ==
    ASSUME ApprovalsType, RunsMove, NEW asks, NEW s \in ApprovalStatus,
           approvals' = DecideOnly(asks, s)
    PROVE  ApprovalsType' /\ ApprovalsMove
<1>1. ASSUME NEW a \in DOMAIN approvals
      PROVE  /\ approvals'[a] \in Approval
             /\ approvals[a].status # "pending" => approvals'[a] = approvals[a]
             /\ approvals'[a].followUp = approvals[a].followUp
  BY DEF ApprovalsType, DecideOnly, Pending, Approval
<1>2. DOMAIN approvals' = DOMAIN approvals /\ approvals' \in [DOMAIN approvals -> Approval]
  BY <1>1 DEF DecideOnly
<1> QED BY <1>1, <1>2 DEF ApprovalsType, ApprovalsMove, AskMove, RunsMove

LEMMA ApprovalAdded ==
    ASSUME ApprovalsType, RunsMove, NEW a \in ApprovalId, a \notin DOMAIN approvals,
           a[1] \in DOMAIN runs, a[1] \in DOMAIN thread,
           \/ thread[a[1]].pc = "asking" /\ a[2] = 1
           \/ thread[a[1]].pc = "looping" /\ a[2] = thread[a[1]].ask + 1,
           approvals' = Extend(approvals, a, NewApproval)
    PROVE  ApprovalsType' /\ ApprovalsMove
<1>1. NewApproval \in Approval
  BY DEF NewApproval, Approval, ApprovalStatus
<1>2. /\ DOMAIN approvals' = DOMAIN approvals \cup {a}
      /\ approvals' \in [DOMAIN approvals \cup {a} -> Approval]
      /\ approvals'[a] = NewApproval
      /\ \A b \in DOMAIN approvals : approvals'[b] = approvals[b]
  BY <1>1 DEF ApprovalsType, Extend
<1>3. NewAsk(a)
  BY <1>2 DEF NewAsk
<1> QED BY <1>2, <1>3 DEF ApprovalsType, ApprovalsMove, AskMove, RunsMove

LEMMA ApprovalsStep ==
    ASSUME BaseInv, Next, RunsMove
    PROVE  ApprovalsType' /\ ApprovalsMove
<1> RunsType /\ ApprovalsType /\ ThreadType /\ RequestType /\ ThreadInv
  BY TypeParts DEF BaseInv
<1>1. ASSUME NEW r \in DOMAIN thread,
             \/ LoadRun(r) \/ StampPhase(r) \/ Work(r) \/ WorkFails(r) \/ GateRun(r)
             \/ WorkRaises(r) \/ LoopFails(r) \/ FailReported(r) \/ RetryRun(r) \/ SkipRetry(r)
             \/ CompleteRun(r) \/ FailRun(r) \/ ParkRun(r) \/ ParkInLoop(r) \/ PollDecided(r)
             \/ PollGivesUp(r) \/ FinishLoop(r) \/ AskForRunFails(r) \/ WithdrawAskFails(r)
      PROVE  ApprovalsType' /\ ApprovalsMove
  <2>1. UNCHANGED approvals
    BY <1>1 DEF LoadRun, StampPhase, Work, WorkFails, WorkRaises, LoopFails, FailReported,
       RetryRun, SkipRetry, AfterRetry, GateRun, CompleteRun, FailRun,
       ParkRun, ParkInLoop, PollDecided, PollGivesUp, FinishLoop, AskForRunFails,
       WithdrawAskFails, SetRun, Goto, Leave, At, tables, boot, bounds, otherThanThread,
       Fault
  <2> QED BY <2>1, ApprovalsStay
<1>2. ASSUME NEW q \in Requests,
             \/ ReadApproval(q) \/ RereadApproval(q) \/ SettleRun(q) \/ CreateFollowUp(q)
             \/ QueueFollowUp(q) \/ CreateFeedbackRetry(q) \/ LazyExpireFails(q)
             \/ RequestAborts(q)
      PROVE  ApprovalsType' /\ ApprovalsMove
  <2>1. UNCHANGED approvals
    BY <1>2 DEF ReadApproval, RereadApproval, SettleRun, CreateFollowUp, QueueFollowUp,
       CreateFeedbackRetry, LazyExpireFails, RequestAborts, SetRun, ReqAt, ReqGoto, tables,
       boot, history, bounds, otherThanRequest, Fault, Serving
  <2> QED BY <2>1, ApprovalsStay
<1>3. ASSUME NEW r \in DOMAIN runs, ClaimRun(r) \/ CancelRead(r)
      PROVE  ApprovalsType' /\ ApprovalsMove
  <2>1. UNCHANGED approvals
    BY <1>3 DEF ClaimRun, CancelRead, SetRun, tables, boot, history, bounds, Serving
  <2> QED BY <2>1, ApprovalsStay
<1>4. ASSUME NEW x \in Proposals \cup Agents, CreateRun(x)
      PROVE  ApprovalsType' /\ ApprovalsMove
  <2>1. UNCHANGED approvals
    BY <1>4 DEF CreateRun, boot, history, bounds
  <2> QED BY <2>1, ApprovalsStay
<1>5. ASSUME NEW q \in Requests, NEW decision \in {"approve", "reject"}, NEW r \in DOMAIN runs,
             ReadRun(q, r, decision)
      PROVE  ApprovalsType' /\ ApprovalsMove
  <2>1. UNCHANGED approvals
    BY <1>5 DEF ReadRun, ReqAt, tables, boot, history, bounds, otherThanRequest, Serving
  <2> QED BY <2>1, ApprovalsStay
<1>6. ASSUME NEW q \in Requests, NEW decision \in {"approve", "reject"}, NEW a \in DOMAIN approvals,
             ReadToolApproval(q, a, decision)
      PROVE  ApprovalsType' /\ ApprovalsMove
  <2>1. UNCHANGED approvals
    BY <1>6 DEF ReadToolApproval, ReqAt, tables, boot, history, bounds, otherThanRequest,
       Serving
  <2> QED BY <2>1, ApprovalsStay
<1>7. ASSUME FailInterrupted \/ FailParked \/ Resume \/ Crash
      PROVE  ApprovalsType' /\ ApprovalsMove
  <2>1. UNCHANGED approvals
    BY <1>7 DEF FailInterrupted, FailParked, Resume, Crash, tables, history, bounds, Fault
  <2> QED BY <2>1, ApprovalsStay
<1>8. ASSUME NEW r \in lost, RestartLost(r)
      PROVE  ApprovalsType' /\ ApprovalsMove
  <2>1. UNCHANGED approvals
    BY <1>8 DEF RestartLost, history, bounds
  <2> QED BY <2>1, ApprovalsStay
<1>9. ASSUME NEW r \in orphaned, RejectOrphanedFails(r)
      PROVE  ApprovalsType' /\ ApprovalsMove
  <2>1. UNCHANGED approvals
    BY <1>9 DEF RejectOrphanedFails, tables, history, bounds
  <2> QED BY <2>1, ApprovalsStay
<1>10. ASSUME NEW r \in DOMAIN cancel, CancelFlag(r) \/ CancelSettle(r)
      PROVE  ApprovalsType' /\ ApprovalsMove
  <2>1. UNCHANGED approvals
    BY <1>10 DEF CancelFlag, CancelSettle, SetRun, boot, history, bounds, Serving
  <2> QED BY <2>1, ApprovalsStay
<1>11. ASSUME NEW a \in DOMAIN approvals, ComeDue(a)
      PROVE  ApprovalsType' /\ ApprovalsMove
  <2>1. UNCHANGED approvals
    BY <1>11 DEF ComeDue, At, tables, boot, history, bounds
  <2> QED BY <2>1, ApprovalsStay
<1>12. ASSUME NEW r \in DOMAIN thread, WithdrawAsk(r)
      PROVE  ApprovalsType' /\ ApprovalsMove
  <2>1. PICK asks : approvals' = DecideOnly(asks, "rejected")
    BY <1>12 DEF WithdrawAsk, Decide
  <2>2. "rejected" \in ApprovalStatus
    BY DEF ApprovalStatus
  <2> QED BY <2>1, <2>2, ApprovalsDecided
<1>13. ASSUME NEW q \in Requests, LazyExpire(q)
      PROVE  ApprovalsType' /\ ApprovalsMove
  <2>1. PICK asks : approvals' = DecideOnly(asks, "expired")
    BY <1>13 DEF LazyExpire
  <2>2. "expired" \in ApprovalStatus
    BY DEF ApprovalStatus
  <2> QED BY <2>1, <2>2, ApprovalsDecided
<1>14. ASSUME SweepStale
      PROVE  ApprovalsType' /\ ApprovalsMove
  <2>1. PICK asks : approvals' = DecideOnly(asks, "expired")
    BY <1>14 DEF SweepStale
  <2>2. "expired" \in ApprovalStatus
    BY DEF ApprovalStatus
  <2> QED BY <2>1, <2>2, ApprovalsDecided
<1>15. ASSUME NEW r \in orphaned, RejectOrphaned(r)
      PROVE  ApprovalsType' /\ ApprovalsMove
  <2>1. PICK asks : approvals' = DecideOnly(asks, "rejected")
    BY <1>15 DEF RejectOrphaned, Decide
  <2>2. "rejected" \in ApprovalStatus
    BY DEF ApprovalStatus
  <2> QED BY <2>1, <2>2, ApprovalsDecided
<1>16. ASSUME NEW q \in Requests, ClaimRunApproval(q)
      PROVE  ApprovalsType' /\ ApprovalsMove
  <2>1. PICK s \in {"approved", "rejected"} : \E asks : approvals' = DecideOnly(asks, s)
    BY <1>16 DEF ClaimRunApproval, Claim, Decide
  <2>2. s \in ApprovalStatus
    BY DEF ApprovalStatus
  <2> QED BY <2>1, <2>2, ApprovalsDecided
<1>17. ASSUME NEW q \in Requests, ClaimToolApproval(q)
      PROVE  ApprovalsType' /\ ApprovalsMove
  <2>1. PICK s \in {"approved", "rejected"} : \E asks : approvals' = DecideOnly(asks, s)
    BY <1>17 DEF ClaimToolApproval, Claim, Decide
  <2>2. s \in ApprovalStatus
    BY DEF ApprovalStatus
  <2> QED BY <2>1, <2>2, ApprovalsDecided
<1>18. ASSUME NEW r \in DOMAIN thread, AskForRun(r)
      PROVE  ApprovalsType' /\ ApprovalsMove
  <2>1. thread[r].pc = "asking" /\ r \in DOMAIN runs /\ r \in RunId
    BY <1>18 DEF AskForRun, At, ThreadType, RunsType
  <2>2. <<r, 1>> \in ApprovalId /\ <<r, 1>>[1] = r /\ <<r, 1>>[2] = 1
    BY <2>1, ConstantsAssumption DEF ApprovalId
  <2>3. <<r, 1>> \notin DOMAIN approvals
    BY <2>1 DEF ThreadInv, ThreadOf, ProposalPc, AsksOf
  <2> QED BY <1>18, <2>1, <2>2, <2>3, ApprovalAdded DEF AskForRun
<1>19. ASSUME NEW r \in DOMAIN thread, AskInLoop(r)
      PROVE  ApprovalsType' /\ ApprovalsMove
  <2> DEFINE a == <<r, thread[r].ask + 1>>
  <2>1. /\ thread[r].pc = "looping" /\ thread[r].ask < MaxAsks
        /\ r \in DOMAIN runs /\ r \in RunId
    BY <1>19 DEF AskInLoop, At, ThreadType, RunsType
  <2>2. thread[r].ask \in Nat /\ thread[r].ask + 1 \in 1 .. MaxAsks
    BY <2>1, ConstantsAssumption DEF ThreadType, Thread
  <2>3. a \in ApprovalId /\ a[1] = r /\ a[2] = thread[r].ask + 1
    BY <2>1, <2>2 DEF ApprovalId
  <2>4. Agent(r)
    BY <2>1 DEF ThreadInv, ThreadOf, LoopPc
  <2>5. \A b \in AsksOf(r) : b[2] <= thread[r].ask
    BY <2>4 DEF ThreadInv, ThreadOf
  <2>6. a \notin DOMAIN approvals
    BY <2>2, <2>3, <2>5 DEF AsksOf
  <2>7. approvals' = Extend(approvals, a, NewApproval)
    BY <1>19 DEF AskInLoop
  <2> HIDE DEF a
  <2> QED BY <2>1, <2>3, <2>6, <2>7, ApprovalAdded
<1>20. ASSUME NEW q \in Requests, AttachFollowUp(q)
      PROVE  ApprovalsType' /\ ApprovalsMove
  <2>1. request[q].pc = "attaching" /\ request'[q].pc = "queueing"
    BY <1>20 DEF AttachFollowUp, ReqAt, ReqGoto, RequestType, Request
  <2>2. First(q) \in RunId
    BY RunIds
  <2>3. approvals' = [a \in DOMAIN approvals |->
                        IF a[1] = request[q].run /\ approvals[a].status = "approved"
                        THEN [approvals[a] EXCEPT !.followUp = First(q)] ELSE approvals[a]]
    BY <1>20 DEF AttachFollowUp
  <2>4. ASSUME NEW a \in DOMAIN approvals
        PROVE  /\ approvals'[a] \in Approval
               /\ approvals'[a].status = approvals[a].status
               /\ \/ approvals'[a] = approvals[a]
                  \/ /\ a[1] = request[q].run /\ approvals[a].status = "approved"
                     /\ approvals'[a].followUp = First(q)
    BY <2>2, <2>3 DEF ApprovalsType, Approval
  <2>5. DOMAIN approvals' = DOMAIN approvals /\ approvals' \in [DOMAIN approvals -> Approval]
    BY <2>3, <2>4
  <2>6. ASSUME NEW a \in DOMAIN approvals PROVE AskMove(a)
    BY <2>1, <2>4 DEF AskMove, Attached
  <2> QED BY <2>5, <2>6 DEF ApprovalsType, ApprovalsMove, RunsMove
<1> QED BY <1>1, <1>2, <1>3, <1>4, <1>5, <1>6, <1>7, <1>8, <1>9, <1>10, <1>11, <1>12, <1>13,
   <1>14, <1>15, <1>16, <1>17, <1>18, <1>19, <1>20 DEF Next, Progress, Input, FaultStep,
   ThreadStep, RequestStep, BootStep

\* A run whose thread has just begun.
Claimed(r) ==
    /\ executor = "up"
    /\ r \in DOMAIN runs
    /\ runs[r].status = "queued" /\ runs'[r].status = "running"
    /\ thread'[r] = [pc |-> "loading", phase |-> "none", ask |-> 0]

\* A run fires its side effect.
Fires(r) ==
    /\ r \in DOMAIN thread
    /\ thread[r].pc = "working" /\ thread[r].phase = "execute"
    /\ fired'[r] = fired[r] + 1

ThreadGoes(r) ==
    /\ thread'[r].phase = "execute" => thread[r].phase = "execute" \/ IsApprovedExecution(r)
    /\ thread'[r].pc = "asking" => thread[r].pc = "asking" \/ ~IsApprovedExecution(r)
    /\ thread'[r].pc \in ErrPc => thread[r].pc \in ErrPc \/ r \in broken'

ThreadMove ==
    /\ \A r \in DOMAIN thread' :
          \/ r \in DOMAIN thread /\ ThreadGoes(r)
          \/ r \notin DOMAIN thread /\ Claimed(r)
    /\ \A r \in DOMAIN thread :
          r \in DOMAIN thread' \/ runs'[r].status # "running" \/ r \in killed' \cup broken'
    /\ fired' \in [RunId -> Nat]
    /\ \A r \in RunId : fired'[r] = fired[r] \/ Fires(r)

LEMMA ThreadStay ==
    ASSUME ThreadType, RestType, RunsMove, ApprovalsMove, UNCHANGED <<thread, fired>>
    PROVE  ThreadType' /\ ThreadMove
<1> QED
  BY DEF ThreadType, RestType, RunsMove, ApprovalsMove, ThreadMove, ThreadGoes, Asked

LEMMA ThreadGoesTo ==
    ASSUME ThreadType, RestType, RunsMove, ApprovalsMove, NEW r \in DOMAIN thread,
           NEW pc \in ThreadPc, Goto(r, pc),
           pc \in {"tool_parking", "polling", "rejecting"} => Asked(r) \in DOMAIN approvals,
           pc = "asking" => ~IsApprovedExecution(r),
           pc \in ErrPc => thread[r].pc \in ErrPc \/ r \in broken',
           fired' = fired
    PROVE  ThreadType' /\ ThreadMove
<1>1. /\ thread' = [thread EXCEPT ![r].pc = pc]
      /\ thread[r] \in Thread
  BY DEF Goto, ThreadType
<1>2. /\ thread' \in [DOMAIN thread -> Thread]
      /\ DOMAIN thread' = DOMAIN thread
      /\ thread'[r].pc = pc /\ thread'[r].phase = thread[r].phase /\ thread'[r].ask = thread[r].ask
      /\ \A s \in DOMAIN thread : s # r => thread'[s] = thread[s]
  BY <1>1 DEF ThreadType, Thread
<1>3. ThreadType'
  BY <1>2 DEF ThreadType, Asked, RunsMove, ApprovalsMove
<1> QED BY <1>2, <1>3 DEF ThreadMove, ThreadGoes, RestType

LEMMA ThreadWorks ==
    ASSUME ThreadType, RestType, RunsMove, ApprovalsMove, NEW r \in DOMAIN thread,
           thread[r].pc = "working", NEW pc \in {"gating", "erring"}, Goto(r, pc),
           pc = "erring" => r \in broken',
           fired' \in {fired, Fire(r)}
    PROVE  ThreadType' /\ ThreadMove
<1>1. /\ thread' = [thread EXCEPT ![r].pc = pc]
      /\ thread[r] \in Thread /\ pc \in ThreadPc
  BY DEF Goto, ThreadType, ThreadPc
<1>2. /\ thread' \in [DOMAIN thread -> Thread]
      /\ DOMAIN thread' = DOMAIN thread
      /\ thread'[r].pc = pc /\ thread'[r].phase = thread[r].phase /\ thread'[r].ask = thread[r].ask
      /\ \A s \in DOMAIN thread : s # r => thread'[s] = thread[s]
  BY <1>1 DEF ThreadType, Thread
<1>3. ThreadType'
  BY <1>2 DEF ThreadType, Asked, RunsMove, ApprovalsMove
<1>4. /\ fired' \in [RunId -> Nat]
      /\ \A s \in RunId : fired'[s] = fired[s] \/ Fires(s)
  BY DEF Fire, Fires, RestType
<1> QED BY <1>2, <1>3, <1>4 DEF ThreadMove, ThreadGoes, ErrPc

LEMMA ThreadLeaves ==
    ASSUME ThreadType, RestType, RunsMove, ApprovalsMove, NEW r \in DOMAIN thread, Leave(r),
           runs'[r].status # "running" \/ r \in broken', fired' = fired
    PROVE  ThreadType' /\ ThreadMove
<1>1. /\ DOMAIN thread' = DOMAIN thread \ {r}
      /\ thread' \in [DOMAIN thread \ {r} -> Thread]
      /\ \A s \in DOMAIN thread \ {r} : thread'[s] = thread[s]
  BY DEF Leave, Restrict, ThreadType
<1> QED BY <1>1 DEF ThreadType, Asked, RunsMove, ApprovalsMove, ThreadMove, ThreadGoes, RestType

LEMMA ThreadStepType ==
    ASSUME BaseInv, Next, RunsMove, ApprovalsMove
    PROVE  ThreadType' /\ ThreadMove
<1> /\ RunsType /\ ApprovalsType /\ ThreadType /\ RequestType /\ RestType /\ ThreadInv /\ QueuedInv
    /\ BrokenInv
  BY TypeParts DEF BaseInv
<1>1. ASSUME NEW q \in Requests,
             \/ ReadApproval(q) \/ LazyExpire(q) \/ RereadApproval(q) \/ ClaimRunApproval(q)
             \/ SettleRun(q) \/ CreateFollowUp(q) \/ AttachFollowUp(q) \/ QueueFollowUp(q)
             \/ CreateFeedbackRetry(q) \/ ClaimToolApproval(q) \/ LazyExpireFails(q)
             \/ RequestAborts(q)
      PROVE  ThreadType' /\ ThreadMove
  <2>1. UNCHANGED <<thread, fired>>
    BY <1>1 DEF ReadApproval, LazyExpire, RereadApproval, ClaimRunApproval, SettleRun,
       CreateFollowUp, AttachFollowUp, QueueFollowUp, CreateFeedbackRetry,
       ClaimToolApproval, LazyExpireFails, RequestAborts, SetRun, ReqAt, ReqGoto, tables,
       boot, history, bounds, otherThanRequest, Claim, Fault, Serving
  <2> QED BY <2>1, ThreadStay
<1>2. ASSUME NEW r \in DOMAIN runs, CancelRead(r)
      PROVE  ThreadType' /\ ThreadMove
  <2>1. UNCHANGED <<thread, fired>>
    BY <1>2 DEF CancelRead, tables, boot, history, Serving
  <2> QED BY <2>1, ThreadStay
<1>3. ASSUME NEW x \in Proposals \cup Agents, CreateRun(x)
      PROVE  ThreadType' /\ ThreadMove
  <2>1. UNCHANGED <<thread, fired>>
    BY <1>3 DEF CreateRun, boot, history, bounds
  <2> QED BY <2>1, ThreadStay
<1>4. ASSUME NEW q \in Requests, NEW decision \in {"approve", "reject"}, NEW r \in DOMAIN runs,
             ReadRun(q, r, decision)
      PROVE  ThreadType' /\ ThreadMove
  <2>1. UNCHANGED <<thread, fired>>
    BY <1>4 DEF ReadRun, ReqAt, tables, boot, history, bounds, otherThanRequest, Serving
  <2> QED BY <2>1, ThreadStay
<1>5. ASSUME NEW q \in Requests, NEW decision \in {"approve", "reject"}, NEW a \in DOMAIN approvals,
             ReadToolApproval(q, a, decision)
      PROVE  ThreadType' /\ ThreadMove
  <2>1. UNCHANGED <<thread, fired>>
    BY <1>5 DEF ReadToolApproval, ReqAt, tables, boot, history, bounds, otherThanRequest,
       Serving
  <2> QED BY <2>1, ThreadStay
<1>6. ASSUME SweepStale \/ FailInterrupted \/ FailParked \/ Resume
      PROVE  ThreadType' /\ ThreadMove
  <2>1. UNCHANGED <<thread, fired>>
    BY <1>6 DEF SweepStale, FailInterrupted, FailParked, Resume, tables, boot, history,
       bounds, Serving
  <2> QED BY <2>1, ThreadStay
<1>7. ASSUME NEW r \in lost, RestartLost(r)
      PROVE  ThreadType' /\ ThreadMove
  <2>1. UNCHANGED <<thread, fired>>
    BY <1>7 DEF RestartLost, history, bounds
  <2> QED BY <2>1, ThreadStay
<1>8. ASSUME NEW r \in orphaned, RejectOrphaned(r) \/ RejectOrphanedFails(r)
      PROVE  ThreadType' /\ ThreadMove
  <2>1. UNCHANGED <<thread, fired>>
    BY <1>8 DEF RejectOrphaned, RejectOrphanedFails, tables, history, bounds
  <2> QED BY <2>1, ThreadStay
<1>9. ASSUME NEW r \in DOMAIN cancel, CancelFlag(r) \/ CancelSettle(r)
      PROVE  ThreadType' /\ ThreadMove
  <2>1. UNCHANGED <<thread, fired>>
    BY <1>9 DEF CancelFlag, CancelSettle, SetRun, boot, history, bounds, Serving
  <2> QED BY <2>1, ThreadStay
<1>10. ASSUME NEW a \in DOMAIN approvals, ComeDue(a)
      PROVE  ThreadType' /\ ThreadMove
  <2>1. UNCHANGED <<thread, fired>>
    BY <1>10 DEF ComeDue, At, tables, boot, history, bounds
  <2> QED BY <2>1, ThreadStay
<1>11. ASSUME NEW r \in DOMAIN thread, LoadRun(r)
      PROVE  ThreadType' /\ ThreadMove
  <2>1. CASE \E pc \in {"failing", "looping", "stamping"} : Goto(r, pc)
    <3>1. PICK pc \in {"failing", "looping", "stamping"} : Goto(r, pc)
      BY <2>1
    <3>2. pc \in ThreadPc /\ fired' = fired
      BY <1>11 DEF LoadRun, ThreadPc
    <3> QED BY <3>1, <3>2, ThreadGoesTo DEF ErrPc
  <2>2. CASE Leave(r) /\ runs[r].status \in {"completed", "failed", "cancelled", "pending_approval"}
    <3>1. runs'[r].status # "running" /\ fired' = fired
      BY <1>11, <2>2 DEF LoadRun, tables
    <3> QED BY <2>2, <3>1, ThreadLeaves
  <2> QED BY <1>11, <2>1, <2>2 DEF LoadRun
<1>12. ASSUME NEW r \in DOMAIN thread, StampPhase(r)
      PROVE  ThreadType' /\ ThreadMove
  <2> DEFINE phase == IF IsApprovedExecution(r) THEN "execute" ELSE "propose"
  <2>1. /\ thread' = [thread EXCEPT ![r].pc = "working", ![r].phase = phase]
        /\ fired' = fired
    BY <1>12 DEF StampPhase
  <2>2. thread[r] \in Thread /\ phase \in {"none", "propose", "execute"}
    BY DEF ThreadType
  <2>3. phase = "execute" => IsApprovedExecution(r)
    OBVIOUS
  <2> HIDE DEF phase
  <2>4. /\ thread' \in [DOMAIN thread -> Thread]
        /\ DOMAIN thread' = DOMAIN thread
        /\ thread'[r].pc = "working" /\ thread'[r].phase = phase /\ thread'[r].ask = thread[r].ask
        /\ \A s \in DOMAIN thread : s # r => thread'[s] = thread[s]
    BY <2>1, <2>2 DEF ThreadType, Thread, ThreadPc
  <2>5. ThreadType'
    BY <2>4 DEF ThreadType, Asked, RunsMove, ApprovalsMove
  <2> QED BY <2>1, <2>3, <2>4, <2>5 DEF ThreadMove, ThreadGoes, ErrPc, RestType
<1>13. ASSUME NEW r \in DOMAIN thread, Work(r)
      PROVE  ThreadType' /\ ThreadMove
  BY <1>13, ThreadWorks DEF Work, At
<1>14. ASSUME NEW r \in DOMAIN thread, WorkFails(r)
      PROVE  ThreadType' /\ ThreadMove
  <2>1. Goto(r, "erring") /\ thread[r].pc = "working" /\ r \in broken' /\ fired' \in {fired, Fire(r)}
    BY <1>14 DEF WorkFails, At
  <2> QED BY <2>1, ThreadWorks
<1>15. ASSUME NEW r \in DOMAIN thread, GateRun(r)
      PROVE  ThreadType' /\ ThreadMove
  <2>1. PICK pc \in {"completing", "asking", "failing"} :
           Goto(r, pc) /\ (pc = "asking" => ~IsApprovedExecution(r))
    BY <1>15 DEF GateRun
  <2>2. pc \in ThreadPc /\ fired' = fired
    BY <1>15 DEF GateRun, ThreadPc
  <2> QED BY <2>1, <2>2, ThreadGoesTo DEF ErrPc
<1>16. ASSUME NEW r \in DOMAIN thread, CompleteRun(r)
      PROVE  ThreadType' /\ ThreadMove
  <2>1. runs'[r] = WithStatus(runs[r], "completed")
    BY <1>16 DEF CompleteRun, SetRun, ThreadType, RunsType
  <2>2. runs[r] \in Run /\ {"completed", "failed", "pending_approval"} \subseteq RunStatus
    BY DEF ThreadType, RunsType, RunStatus
  <2>3. runs'[r].status # "running"
    BY <2>1, <2>2 DEF WithStatus, Run
  <2> QED BY <1>16, <2>3, ThreadLeaves DEF CompleteRun
<1>17. ASSUME NEW r \in DOMAIN thread, FailRun(r)
      PROVE  ThreadType' /\ ThreadMove
  <2>1. runs'[r] = WithError(runs[r], "failed")
    BY <1>17 DEF FailRun, SetRun, ThreadType, RunsType
  <2>2. runs[r] \in Run /\ {"completed", "failed", "pending_approval"} \subseteq RunStatus
    BY DEF ThreadType, RunsType, RunStatus
  <2>3. runs'[r].status # "running"
    BY <2>1, <2>2 DEF WithError, Run
  <2> QED BY <1>17, <2>3, ThreadLeaves DEF FailRun
<1>18. ASSUME NEW r \in DOMAIN thread, ParkRun(r)
      PROVE  ThreadType' /\ ThreadMove
  <2>1. runs'[r] = WithStatus(runs[r], "pending_approval")
    BY <1>18 DEF ParkRun, SetRun, ThreadType, RunsType
  <2>2. runs[r] \in Run /\ {"completed", "failed", "pending_approval"} \subseteq RunStatus
    BY DEF ThreadType, RunsType, RunStatus
  <2>3. runs'[r].status # "running"
    BY <2>1, <2>2 DEF WithStatus, Run
  <2> QED BY <1>18, <2>3, ThreadLeaves DEF ParkRun
<1>19. ASSUME NEW r \in DOMAIN thread, AskForRun(r)
      PROVE  ThreadType' /\ ThreadMove
  <2>1. PICK pc \in {"parking"} : Goto(r, pc)
    BY <1>19 DEF AskForRun
  <2>2. pc \in ThreadPc /\ fired' = fired
    BY <1>19 DEF AskForRun, ThreadPc
  <2> QED BY <2>1, <2>2, ThreadGoesTo DEF ErrPc
<1>20. ASSUME NEW r \in DOMAIN thread, AskForRunFails(r)
      PROVE  ThreadType' /\ ThreadMove
  <2>1. PICK pc \in {"parking"} : Goto(r, pc)
    BY <1>20 DEF AskForRunFails
  <2>2. pc \in ThreadPc /\ fired' = fired
    BY <1>20 DEF AskForRunFails, ThreadPc
  <2> QED BY <2>1, <2>2, ThreadGoesTo DEF ErrPc
<1>21. ASSUME NEW r \in DOMAIN thread, FinishLoop(r)
      PROVE  ThreadType' /\ ThreadMove
  <2>1. PICK pc \in {"completing", "failing"} : Goto(r, pc)
    BY <1>21 DEF FinishLoop
  <2>2. pc \in ThreadPc /\ fired' = fired
    BY <1>21 DEF FinishLoop, ThreadPc
  <2> QED BY <2>1, <2>2, ThreadGoesTo DEF ErrPc
<1>22. ASSUME NEW r \in DOMAIN thread, PollDecided(r)
      PROVE  ThreadType' /\ ThreadMove
  <2>1. PICK pc \in {"looping"} : Goto(r, pc)
    BY <1>22 DEF PollDecided
  <2>2. pc \in ThreadPc /\ fired' = fired
    BY <1>22 DEF PollDecided, ThreadPc
  <2> QED BY <2>1, <2>2, ThreadGoesTo DEF ErrPc
<1>23. ASSUME NEW r \in DOMAIN thread, WithdrawAsk(r)
      PROVE  ThreadType' /\ ThreadMove
  <2>1. PICK pc \in {"looping"} : Goto(r, pc)
    BY <1>23 DEF WithdrawAsk
  <2>2. pc \in ThreadPc /\ fired' = fired
    BY <1>23 DEF WithdrawAsk, ThreadPc
  <2> QED BY <2>1, <2>2, ThreadGoesTo DEF ErrPc
<1>24. ASSUME NEW r \in DOMAIN thread, WithdrawAskFails(r)
      PROVE  ThreadType' /\ ThreadMove
  <2>1. PICK pc \in {"looping"} : Goto(r, pc)
    BY <1>24 DEF WithdrawAskFails
  <2>2. pc \in ThreadPc /\ fired' = fired
    BY <1>24 DEF WithdrawAskFails, ThreadPc
  <2> QED BY <2>1, <2>2, ThreadGoesTo DEF ErrPc
<1>25. ASSUME NEW r \in DOMAIN thread, ParkInLoop(r)
      PROVE  ThreadType' /\ ThreadMove
  <2>1. Goto(r, "polling") /\ "polling" \in ThreadPc /\ fired' = fired
    BY <1>25 DEF ParkInLoop, ThreadPc
  <2>2. Asked(r) \in DOMAIN approvals
    BY <1>25 DEF ParkInLoop, At, ThreadType
  <2> QED BY <2>1, <2>2, ThreadGoesTo DEF ErrPc
<1>26. ASSUME NEW r \in DOMAIN thread, PollGivesUp(r)
      PROVE  ThreadType' /\ ThreadMove
  <2>1. Goto(r, "rejecting") /\ "rejecting" \in ThreadPc /\ fired' = fired
    BY <1>26 DEF PollGivesUp, ThreadPc
  <2>2. Asked(r) \in DOMAIN approvals
    BY <1>26 DEF PollGivesUp, At, ThreadType
  <2> QED BY <2>1, <2>2, ThreadGoesTo DEF ErrPc
<1>27. ASSUME NEW r \in DOMAIN thread, AskInLoop(r)
      PROVE  ThreadType' /\ ThreadMove
  <2>1. /\ thread' = [thread EXCEPT ![r].pc = "tool_parking", ![r].ask = @ + 1]
        /\ approvals' = Extend(approvals, <<r, thread[r].ask + 1>>, NewApproval)
        /\ thread[r].ask < MaxAsks /\ fired' = fired
    BY <1>27 DEF AskInLoop
  <2>2. thread[r] \in Thread /\ thread[r].ask + 1 \in 0 .. MaxAsks
    BY <2>1, ConstantsAssumption DEF ThreadType, Thread
  <2>3. /\ thread' \in [DOMAIN thread -> Thread]
        /\ DOMAIN thread' = DOMAIN thread
        /\ thread'[r].pc = "tool_parking" /\ thread'[r].phase = thread[r].phase
        /\ thread'[r].ask = thread[r].ask + 1
        /\ \A s \in DOMAIN thread : s # r => thread'[s] = thread[s]
    BY <2>1, <2>2 DEF ThreadType, Thread, ThreadPc
  <2>4. <<r, thread[r].ask + 1>> \in DOMAIN approvals'
    BY <2>1 DEF Extend
  <2>5. ThreadType'
    BY <2>3, <2>4 DEF ThreadType, Asked, RunsMove, ApprovalsMove
  <2> QED BY <2>1, <2>3, <2>5 DEF ThreadMove, ThreadGoes, ErrPc, RestType
<1>28. ASSUME NEW r \in DOMAIN runs, ClaimRun(r)
      PROVE  ThreadType' /\ ThreadMove
  <2> DEFINE begun == [pc |-> "loading", phase |-> "none", ask |-> 0]
  <2>1. /\ executor = "up" /\ runs[r].status = "queued"
        /\ thread' = Extend(thread, r, begun) /\ fired' = fired
        /\ runs'[r] = WithStatus(runs[r], "running")
    BY <1>28 DEF ClaimRun, history, SetRun, RunsType
  <2>2. begun \in Thread
    BY ConstantsAssumption DEF Thread, ThreadPc
  <2>3. r \notin DOMAIN thread
    BY <2>1 DEF QueuedInv, Unbegun
  <2>4. runs'[r].status = "running"
    BY <2>1 DEF WithStatus, RunsType, Run
  <2>5. /\ DOMAIN thread' = DOMAIN thread \cup {r}
        /\ thread' \in [DOMAIN thread \cup {r} -> Thread]
        /\ thread'[r] = begun
        /\ \A s \in DOMAIN thread : thread'[s] = thread[s]
    BY <2>1, <2>2, <2>3 DEF ThreadType, Extend
  <2>6. Claimed(r)
    BY <2>1, <2>4, <2>5 DEF Claimed
  <2>7. ThreadType'
    BY <2>5 DEF ThreadType, Asked, RunsMove, ApprovalsMove
  <2> HIDE DEF begun
  <2> QED BY <2>1, <2>3, <2>5, <2>6, <2>7 DEF ThreadMove, ThreadGoes, ErrPc, RestType
<1>29. ASSUME Crash
      PROVE  ThreadType' /\ ThreadMove
  <2>1. thread' = Restrict(thread, {}) /\ killed' = killed \cup DOMAIN thread /\ fired' = fired
    BY <1>29 DEF Crash
  <2>2. DOMAIN thread' = {} /\ thread' \in [{} -> Thread]
    BY <2>1 DEF Restrict
  <2> QED BY <2>1, <2>2 DEF ThreadType, ThreadMove, ThreadGoes, RestType
<1>30. ASSUME NEW r \in DOMAIN thread, WorkRaises(r) \/ LoopFails(r)
      PROVE  ThreadType' /\ ThreadMove
  <2>1. PICK pc \in {"raised", "erring"} : Goto(r, pc)
    BY <1>30 DEF WorkRaises, LoopFails
  <2>2. pc \in ThreadPc /\ fired' = fired /\ r \in broken'
    BY <1>30 DEF WorkRaises, LoopFails, ThreadPc
  <2> QED BY <2>1, <2>2, ThreadGoesTo
<1>31. ASSUME NEW r \in DOMAIN thread, FailReported(r)
      PROVE  ThreadType' /\ ThreadMove
  <2>1. Goto(r, "retrying") /\ thread[r].pc \in ErrPc
    BY <1>31 DEF FailReported, At, ErrPc
  <2>2. "retrying" \in ThreadPc /\ fired' = fired
    BY <1>31 DEF FailReported, ThreadPc
  <2> QED BY <2>1, <2>2, ThreadGoesTo
<1>32. ASSUME NEW r \in DOMAIN thread, RetryRun(r) \/ SkipRetry(r)
      PROVE  ThreadType' /\ ThreadMove
  <2>1. AfterRetry(r) /\ fired' = fired /\ broken' = broken /\ thread[r].pc \in ErrPc
    BY <1>32 DEF RetryRun, SkipRetry, otherThanThread, At, ErrPc
  <2>2. r \in broken'
    BY <2>1 DEF BrokenInv
  <2>3. CASE Goto(r, "failing")
    <3>1. "failing" \in ThreadPc
      BY DEF ThreadPc
    <3> QED BY <2>1, <2>2, <2>3, <3>1, ThreadGoesTo
  <2>4. CASE Leave(r)
    BY <2>1, <2>2, <2>4, ThreadLeaves
  <2> QED BY <2>1, <2>3, <2>4 DEF AfterRetry
<1> QED BY <1>1, <1>2, <1>3, <1>4, <1>5, <1>6, <1>7, <1>8, <1>9, <1>10, <1>11, <1>12, <1>13,
   <1>14, <1>15, <1>16, <1>17, <1>18, <1>19, <1>20, <1>21, <1>22, <1>23, <1>24, <1>25,
   <1>26, <1>27, <1>28, <1>29, <1>30, <1>31, <1>32
   DEF Next, Progress, Input, FaultStep, ThreadStep, RequestStep,
   BootStep

\* q decides the approval of its run.
Wins(q) ==
    LET a == <<request[q].run, 1>>
    IN  /\ request[q].pc = "claiming" /\ request'[q].pc = "settling"
        /\ ~Agent(request[q].run)
        /\ a \in DOMAIN approvals /\ approvals[a].status = "pending"
        /\ approvals'[a].status = IF request[q].decision = "approve" THEN "approved" ELSE "rejected"
        /\ \A p \in Requests : p # q => request'[p] = request[p]
        /\ runs' = runs

\* The step of a request that has taken its decision to a run.
Handles(q) ==
    \/ request[q].pc # "idle" /\ request'[q].pc = "done"
    \/ /\ request[q].pc \in {"reading", "expiring", "rereading"}
       /\ request'[q].pc \in {"expiring", "rereading", "claiming"}
       /\ ~Agent(request[q].run)
    \/ Wins(q)
    \/ /\ request[q].pc = "settling" /\ request'[q].pc = "creating"
       /\ request[q].decision = "approve"
    \/ request[q].pc = "settling" /\ request'[q].pc = "feedback"
    \/ /\ request[q].pc = "creating" /\ request'[q].pc = "attaching"
       /\ First(q) \in DOMAIN runs' /\ runs'[First(q)].status = "running"
    \/ /\ request[q].pc = "attaching" /\ request'[q].pc = "queueing"
       /\ \A a \in DOMAIN approvals :
             a[1] = request[q].run /\ approvals[a].status = "approved"
                => approvals'[a].followUp = First(q)

RequestGoes(q) ==
    \/ request'[q] = request[q]
    \/ request[q].pc = "idle" /\ request'[q].pc \in {"reading", "claiming_tool"}
    \/ /\ request'[q].run = request[q].run /\ request'[q].decision = request[q].decision
       /\ Handles(q)

RequestMove ==
    \A q \in Requests :
        /\ RequestGoes(q)
        /\ request'[q] = request[q] \/ Serving \/ request'[q].pc = "done"

LEMMA RequestStay ==
    ASSUME RequestType, RunsMove, UNCHANGED request
    PROVE  RequestType' /\ RequestMove
<1> QED BY DEF RequestType, RunsMove, RequestMove, RequestGoes

LEMMA RequestGoesTo ==
    ASSUME RequestType, RunsMove, NEW q \in Requests, NEW pc \in RequestPc, ReqGoto(q, pc),
           request[q].pc # "idle", Serving,
           request'[q].pc = pc /\ (\A p \in Requests : p # q => request'[p] = request[p])
              => Handles(q)
    PROVE  RequestType' /\ RequestMove
<1>1. /\ request' = [request EXCEPT ![q].pc = pc]
      /\ request[q] \in Request
  BY DEF ReqGoto, RequestType
<1>2. /\ request' \in [Requests -> Request]
      /\ request'[q].pc = pc
      /\ request'[q].run = request[q].run /\ request'[q].decision = request[q].decision
      /\ \A p \in Requests : p # q => request'[p] = request[p]
  BY <1>1 DEF RequestType, Request
<1>3. RequestType'
  BY <1>2 DEF RequestType, RunsMove
<1>4. Handles(q)
  BY <1>2
<1> QED BY <1>2, <1>3, <1>4 DEF RequestMove, RequestGoes

LEMMA NewestIsNewest ==
    ASSUME AsksInv, NEW r \in RunId, AsksOf(r) # {}
    PROVE  Newest(r) \in DOMAIN approvals /\ Newest(r)[1] = r
<1>1. \E a \in AsksOf(r) : \A b \in AsksOf(r) : b[2] <= a[2]
  BY DEF AsksInv, HasNewest
<1>2. Newest(r) \in AsksOf(r)
  BY <1>1 DEF Newest
<1> QED BY <1>2 DEF AsksOf

LEMMA RequestStepType ==
    ASSUME BaseInv, Next, RunsMove, ApprovalsMove
    PROVE  RequestType' /\ RequestMove
<1> /\ RunsType /\ ApprovalsType /\ ThreadType /\ RequestType /\ RestType
    /\ AsksInv /\ RequestInv
  BY TypeParts DEF BaseInv
<1>1. ASSUME NEW r \in DOMAIN thread,
             \/ LoadRun(r) \/ StampPhase(r) \/ Work(r) \/ WorkFails(r) \/ GateRun(r)
             \/ WorkRaises(r) \/ LoopFails(r) \/ FailReported(r) \/ RetryRun(r) \/ SkipRetry(r)
             \/ CompleteRun(r) \/ FailRun(r) \/ AskForRun(r) \/ ParkRun(r) \/ AskInLoop(r)
             \/ ParkInLoop(r) \/ PollDecided(r) \/ PollGivesUp(r) \/ WithdrawAsk(r)
             \/ FinishLoop(r) \/ AskForRunFails(r) \/ WithdrawAskFails(r)
      PROVE  RequestType' /\ RequestMove
  <2>1. UNCHANGED request
    BY <1>1 DEF LoadRun, StampPhase, Work, WorkFails, WorkRaises, LoopFails, FailReported,
       RetryRun, SkipRetry, AfterRetry, GateRun, CompleteRun, FailRun,
       AskForRun, ParkRun, AskInLoop, ParkInLoop, PollDecided, PollGivesUp, WithdrawAsk,
       FinishLoop, AskForRunFails, WithdrawAskFails, SetRun, Goto, Leave, At, tables, boot,
       bounds, otherThanThread, Fault
  <2> QED BY <2>1, RequestStay
<1>2. ASSUME NEW r \in DOMAIN runs, ClaimRun(r) \/ CancelRead(r)
      PROVE  RequestType' /\ RequestMove
  <2>1. UNCHANGED request
    BY <1>2 DEF ClaimRun, CancelRead, SetRun, tables, boot, history, bounds, Serving
  <2> QED BY <2>1, RequestStay
<1>3. ASSUME NEW x \in Proposals \cup Agents, CreateRun(x)
      PROVE  RequestType' /\ RequestMove
  <2>1. UNCHANGED request
    BY <1>3 DEF CreateRun, boot, history, bounds
  <2> QED BY <2>1, RequestStay
<1>4. ASSUME SweepStale \/ FailInterrupted \/ FailParked \/ Resume
      PROVE  RequestType' /\ RequestMove
  <2>1. UNCHANGED request
    BY <1>4 DEF SweepStale, FailInterrupted, FailParked, Resume, tables, boot, history,
       bounds, Serving
  <2> QED BY <2>1, RequestStay
<1>5. ASSUME NEW r \in lost, RestartLost(r)
      PROVE  RequestType' /\ RequestMove
  <2>1. UNCHANGED request
    BY <1>5 DEF RestartLost, history, bounds
  <2> QED BY <2>1, RequestStay
<1>6. ASSUME NEW r \in orphaned, RejectOrphaned(r) \/ RejectOrphanedFails(r)
      PROVE  RequestType' /\ RequestMove
  <2>1. UNCHANGED request
    BY <1>6 DEF RejectOrphaned, RejectOrphanedFails, tables, history, bounds
  <2> QED BY <2>1, RequestStay
<1>7. ASSUME NEW r \in DOMAIN cancel, CancelFlag(r) \/ CancelSettle(r)
      PROVE  RequestType' /\ RequestMove
  <2>1. UNCHANGED request
    BY <1>7 DEF CancelFlag, CancelSettle, SetRun, boot, history, bounds, Serving
  <2> QED BY <2>1, RequestStay
<1>8. ASSUME NEW a \in DOMAIN approvals, ComeDue(a)
      PROVE  RequestType' /\ RequestMove
  <2>1. UNCHANGED request
    BY <1>8 DEF ComeDue, At, tables, boot, history, bounds
  <2> QED BY <2>1, RequestStay
<1>9. ASSUME NEW q \in Requests, NEW decision \in {"approve", "reject"}, NEW r \in DOMAIN runs,
             ReadRun(q, r, decision)
      PROVE  RequestType' /\ RequestMove
  <2> DEFINE new == [pc |-> "reading", decision |-> decision, run |-> r, ask |-> 1]
  <2>1. request' = [request EXCEPT ![q] = new] /\ request[q].pc = "idle" /\ Serving
    BY <1>9 DEF ReadRun, ReqAt
  <2>2. r \in DOMAIN runs /\ r \in RunId
    BY DEF RunsType, ApprovalsType
  <2>3. new \in Request
    BY <2>2, ConstantsAssumption DEF Request, RequestPc, Decision, ApprovalsType, ApprovalId
  <2>4. new.pc = "reading" /\ new.run \in DOMAIN runs
    BY <2>2
  <2> HIDE DEF new
  <2>5. /\ request' \in [Requests -> Request] /\ request'[q] = new
        /\ \A p \in Requests : p # q => request'[p] = request[p]
    BY <2>1, <2>3 DEF RequestType
  <2> QED BY <2>1, <2>4, <2>5 DEF RequestType, RunsMove, RequestMove, RequestGoes
<1>10. ASSUME NEW q \in Requests, NEW decision \in {"approve", "reject"}, NEW a \in DOMAIN approvals,
             ReadToolApproval(q, a, decision)
      PROVE  RequestType' /\ RequestMove
  <2> DEFINE new == [pc |-> "claiming_tool", decision |-> decision, run |-> a[1], ask |-> a[2]]
  <2>1. request' = [request EXCEPT ![q] = new] /\ request[q].pc = "idle" /\ Serving
    BY <1>10 DEF ReadToolApproval, ReqAt
  <2>2. a[1] \in DOMAIN runs /\ a[1] \in RunId
    BY DEF RunsType, ApprovalsType
  <2>3. new \in Request
    BY <2>2, ConstantsAssumption DEF Request, RequestPc, Decision, ApprovalsType, ApprovalId
  <2>4. new.pc = "claiming_tool" /\ new.run \in DOMAIN runs
    BY <2>2
  <2> HIDE DEF new
  <2>5. /\ request' \in [Requests -> Request] /\ request'[q] = new
        /\ \A p \in Requests : p # q => request'[p] = request[p]
    BY <2>1, <2>3 DEF RequestType
  <2> QED BY <2>1, <2>4, <2>5 DEF RequestType, RunsMove, RequestMove, RequestGoes
<1>11. ASSUME NEW q \in Requests, QueueFollowUp(q)
      PROVE  RequestType' /\ RequestMove
  <2>1. ReqGoto(q, "done") /\ request[q].pc # "idle" /\ Serving /\ "done" \in RequestPc
    BY <1>11 DEF QueueFollowUp, ReqAt, RequestPc
  <2> QED BY <2>1, RequestGoesTo DEF Handles
<1>12. ASSUME NEW q \in Requests, CreateFeedbackRetry(q)
      PROVE  RequestType' /\ RequestMove
  <2>1. ReqGoto(q, "done") /\ request[q].pc # "idle" /\ Serving /\ "done" \in RequestPc
    BY <1>12 DEF CreateFeedbackRetry, ReqAt, RequestPc
  <2> QED BY <2>1, RequestGoesTo DEF Handles
<1>13. ASSUME NEW q \in Requests, ClaimToolApproval(q)
      PROVE  RequestType' /\ RequestMove
  <2>1. ReqGoto(q, "done") /\ request[q].pc # "idle" /\ Serving /\ "done" \in RequestPc
    BY <1>13 DEF ClaimToolApproval, ReqAt, RequestPc
  <2> QED BY <2>1, RequestGoesTo DEF Handles
<1>14. ASSUME NEW q \in Requests, RequestAborts(q)
      PROVE  RequestType' /\ RequestMove
  <2>1. ReqGoto(q, "done") /\ request[q].pc # "idle" /\ Serving /\ "done" \in RequestPc
    BY <1>14 DEF RequestAborts, ReqAt, RequestPc
  <2> QED BY <2>1, RequestGoesTo DEF Handles
<1>15. ASSUME NEW q \in Requests, LazyExpire(q)
      PROVE  RequestType' /\ RequestMove
  <2>1. ReqGoto(q, "rereading") /\ request[q].pc = "expiring" /\ Serving /\ "rereading" \in RequestPc
    BY <1>15 DEF LazyExpire, ReqAt, RequestPc
  <2>2. ~Agent(request[q].run)
    BY <2>1 DEF RequestInv, RequestOf
  <2> QED BY <2>1, <2>2, RequestGoesTo DEF Handles
<1>16. ASSUME NEW q \in Requests, LazyExpireFails(q)
      PROVE  RequestType' /\ RequestMove
  <2>1. ReqGoto(q, "rereading") /\ request[q].pc = "expiring" /\ Serving /\ "rereading" \in RequestPc
    BY <1>16 DEF LazyExpireFails, ReqAt, RequestPc
  <2>2. ~Agent(request[q].run)
    BY <2>1 DEF RequestInv, RequestOf
  <2> QED BY <2>1, <2>2, RequestGoesTo DEF Handles
<1>17. ASSUME NEW q \in Requests, RereadApproval(q)
      PROVE  RequestType' /\ RequestMove
  <2>1. PICK pc \in {"claiming", "done"} : ReqGoto(q, pc)
    BY <1>17 DEF RereadApproval
  <2>2. request[q].pc = "rereading" /\ Serving /\ pc \in RequestPc
    BY <1>17 DEF RereadApproval, ReqAt, RequestPc
  <2>3. ~Agent(request[q].run)
    BY <2>2 DEF RequestInv, RequestOf
  <2> QED BY <2>1, <2>2, <2>3, RequestGoesTo DEF Handles
<1>18. ASSUME NEW q \in Requests, ReadApproval(q)
      PROVE  RequestType' /\ RequestMove
  <2> DEFINE r == request[q].run
  <2>1. request[q].pc = "reading" /\ Serving /\ {"expiring", "claiming", "done"} \subseteq RequestPc
    BY <1>18 DEF ReadApproval, ReqAt, RequestPc
  <2>2. r \in RunId
    BY <2>1 DEF RequestType, RunsType
  <2>3. \/ ReqGoto(q, "done")
        \/ ReqGoto(q, "claiming") /\ ~Agent(r)
        \/ ReqGoto(q, "expiring") /\ AsksOf(r) # {} /\ Newest(r) \in due
    BY <1>18 DEF ReadApproval
  <2>4. AsksOf(r) # {} /\ Newest(r) \in due => ~Agent(r)
    BY <2>2, NewestIsNewest DEF AsksInv
  <2> HIDE DEF r
  <2>5. PICK pc \in {"expiring", "claiming", "done"} : ReqGoto(q, pc) /\ (pc # "done" => ~Agent(r))
    BY <2>3, <2>4
  <2> QED BY <2>1, <2>5, RequestGoesTo DEF Handles, r
<1>19. ASSUME NEW q \in Requests, ClaimRunApproval(q)
      PROVE  RequestType' /\ RequestMove
  <2> DEFINE asks == AsksOf(request[q].run)
             a == <<request[q].run, 1>>
             status == IF request[q].decision = "approve" THEN "approved" ELSE "rejected"
  <2>1. /\ request[q].pc = "claiming" /\ Serving /\ {"done", "settling"} \subseteq RequestPc
        /\ runs' = runs
        /\ approvals' = DecideOnly(asks, status)
        /\ ReqGoto(q, IF Pending(asks) = {} THEN "done" ELSE "settling")
    BY <1>19 DEF ClaimRunApproval, Claim, Decide, ReqAt, RequestPc
  <2>2. ~Agent(request[q].run)
    BY <2>1 DEF RequestInv, RequestOf
  <2>3. CASE Pending(asks) = {}
    BY <2>1, <2>3, RequestGoesTo DEF Handles
  <2>4. CASE Pending(asks) # {}
    <3>1. PICK b \in DOMAIN approvals : b[1] = request[q].run /\ approvals[b].status = "pending"
      BY <2>4 DEF Pending, AsksOf
    <3>2. b = a
      BY <2>2, <3>1 DEF AsksInv, ApprovalsType, ApprovalId
    <3>3. a \in Pending(asks)
      BY <3>1, <3>2 DEF Pending, AsksOf
    <3>4. approvals'[a].status = status
      BY <2>1, <3>1, <3>2, <3>3 DEF DecideOnly, ApprovalsType, Approval
    <3>5. ReqGoto(q, "settling")
      BY <2>1, <2>4
    <3>6. request'[q].pc = "settling" /\ (\A p \in Requests : p # q => request'[p] = request[p])
             => Wins(q)
      BY <2>1, <2>2, <3>1, <3>2, <3>4 DEF Wins
    <3> QED BY <2>1, <3>5, <3>6, RequestGoesTo DEF Handles
  <2> QED BY <2>3, <2>4
<1>20. ASSUME NEW q \in Requests, SettleRun(q)
      PROVE  RequestType' /\ RequestMove
  <2>1. request[q].pc = "settling" /\ Serving /\ {"creating", "feedback"} \subseteq RequestPc
    BY <1>20 DEF SettleRun, ReqAt, RequestPc
  <2>2. PICK pc \in {"creating", "feedback"} :
           ReqGoto(q, pc) /\ (pc = "creating" => request[q].decision = "approve")
    BY <1>20 DEF SettleRun
  <2> QED BY <2>1, <2>2, RequestGoesTo DEF Handles
<1>21. ASSUME NEW q \in Requests, CreateFollowUp(q)
      PROVE  RequestType' /\ RequestMove
  <2>1. /\ request[q].pc = "creating" /\ Serving /\ "attaching" \in RequestPc
        /\ ReqGoto(q, "attaching")
        /\ runs' = Extend(runs, First(q), NewRun("running", NoRun))
    BY <1>21 DEF CreateFollowUp, ReqAt, RequestPc
  <2>2. First(q) \in DOMAIN runs' /\ runs'[First(q)].status = "running"
    BY <2>1 DEF Extend, NewRun
  <2> QED BY <2>1, <2>2, RequestGoesTo DEF Handles
<1>22. ASSUME NEW q \in Requests, AttachFollowUp(q)
      PROVE  RequestType' /\ RequestMove
  <2>1. /\ request[q].pc = "attaching" /\ Serving /\ "queueing" \in RequestPc
        /\ ReqGoto(q, "queueing")
    BY <1>22 DEF AttachFollowUp, ReqAt, RequestPc
  <2>2. ASSUME NEW a \in DOMAIN approvals, a[1] = request[q].run, approvals[a].status = "approved"
        PROVE  approvals'[a].followUp = First(q)
    BY <1>22, <2>2 DEF AttachFollowUp, ApprovalsType, Approval
  <2> QED BY <2>1, <2>2, RequestGoesTo DEF Handles
<1>23. ASSUME Crash
      PROVE  RequestType' /\ RequestMove
  <2>1. CASE UNCHANGED request
    BY <2>1, RequestStay
  <2>2. CASE request' = [q \in Requests |-> IF request[q].pc = "idle" THEN request[q]
                                            ELSE [request[q] EXCEPT !.pc = "done"]]
    <3>1. ASSUME NEW q \in Requests
          PROVE  /\ request'[q] \in Request
                 /\ request'[q].run = request[q].run /\ request'[q].decision = request[q].decision
                 /\ request'[q] = request[q] \/ (request[q].pc # "idle" /\ request'[q].pc = "done")
      BY <2>2 DEF RequestType, Request, RequestPc
    <3>2. request' \in [Requests -> Request]
      BY <2>2, <3>1
    <3> QED BY <3>1, <3>2 DEF RequestType, RunsMove, RequestMove, RequestGoes, Handles
  <2> QED BY <1>23, <2>1, <2>2 DEF Crash
<1> QED BY <1>1, <1>2, <1>3, <1>4, <1>5, <1>6, <1>7, <1>8, <1>9, <1>10, <1>11, <1>12, <1>13,
   <1>14, <1>15, <1>16, <1>17, <1>18, <1>19, <1>20, <1>21, <1>22, <1>23 DEF Next, Progress,
   Input, FaultStep, ThreadStep, RequestStep, BootStep

\* A running row that a booting executor fails.
Interrupted(r) ==
    /\ executor = "down"
    /\ r \in DOMAIN runs
    /\ runs[r].status = "running" /\ runs'[r].status = "failed"

RestMove ==
    /\ \A a \in due' : a \in due \/ ~Agent(a[1])
    /\ \A a \in answers' :
          a \in answers \/ (a \in DOMAIN approvals /\ approvals[a].status = "approved")
    /\ killed \subseteq killed' /\ broken \subseteq broken'
    /\ \A r \in lost' :
          \/ r \in lost /\ executor' \in {executor, "up"}
          \/ executor' = "recovering" /\ Interrupted(r)
    /\ executor' # "up" =>
          \/ executor # "up"
          \/ /\ DOMAIN thread' = {}
             /\ SplitRoles \/ \A q \in Requests : request'[q].pc \in {"idle", "done"}
    /\ executor' = "up" => executor \in {"up", "reaping"}

LEMMA RestStay ==
    ASSUME RestType, RunsMove, ApprovalsMove, ThreadMove,
           UNCHANGED <<due, boot, answers, killed, broken>>,
           DOMAIN cancel' \subseteq DOMAIN runs,
           cancel' \in [DOMAIN cancel' -> [seen : RunStatus, flagged : BOOLEAN]],
           stranded' \subseteq RunId,
           faults' \in 0 .. MaxFaults, cancels' \in 0 .. MaxCancels
    PROVE  RestType' /\ RestMove
<1>1. /\ due' = due /\ executor' = executor /\ lost' = lost /\ orphaned' = orphaned
      /\ answers' = answers /\ killed' = killed /\ broken' = broken
  BY DEF boot
<1>2. DOMAIN runs \subseteq DOMAIN runs' /\ DOMAIN approvals \subseteq DOMAIN approvals'
  BY DEF RunsMove, ApprovalsMove
<1>3. RestType'
  BY <1>1, <1>2 DEF RestType, ThreadMove
<1> QED BY <1>1, <1>3 DEF RestMove

LEMMA RestStepType ==
    ASSUME BaseInv, Next, RunsMove, ApprovalsMove, ThreadMove
    PROVE  RestType' /\ RestMove
<1> RunsType /\ ApprovalsType /\ ThreadType /\ RequestType /\ RestType
  BY TypeParts DEF BaseInv
<1>1. ASSUME NEW r \in DOMAIN thread,
             \/ LoadRun(r) \/ StampPhase(r) \/ Work(r) \/ FailReported(r) \/ GateRun(r)
             \/ RetryRun(r) \/ SkipRetry(r)
             \/ CompleteRun(r) \/ FailRun(r) \/ AskForRun(r) \/ ParkRun(r) \/ AskInLoop(r)
             \/ ParkInLoop(r) \/ PollGivesUp(r) \/ WithdrawAsk(r) \/ FinishLoop(r)
      PROVE  RestType' /\ RestMove
  <2>1. UNCHANGED <<due, boot, answers, killed, broken>> /\ UNCHANGED <<cancel, stranded, bounds>>
    BY <1>1 DEF LoadRun, StampPhase, Work, FailReported, RetryRun, SkipRetry,
       GateRun, CompleteRun, FailRun,
       AskForRun, ParkRun, AskInLoop, ParkInLoop, PollGivesUp, WithdrawAsk, FinishLoop,
       tables, boot, bounds, otherThanThread
  <2>2. cancel' = cancel /\ stranded' = stranded /\ faults' = faults /\ cancels' = cancels
    BY <2>1 DEF bounds
  <2> QED BY <2>2, <2>1, RestStay DEF RestType
<1>2. ASSUME NEW q \in Requests,
             \/ ReadApproval(q) \/ LazyExpire(q) \/ RereadApproval(q) \/ ClaimRunApproval(q)
             \/ SettleRun(q) \/ CreateFollowUp(q) \/ AttachFollowUp(q)
             \/ CreateFeedbackRetry(q) \/ ClaimToolApproval(q)
      PROVE  RestType' /\ RestMove
  <2>1. UNCHANGED <<due, boot, answers, killed, broken>> /\ UNCHANGED <<cancel, stranded, bounds>>
    BY <1>2 DEF ReadApproval, LazyExpire, RereadApproval, ClaimRunApproval, SettleRun,
       CreateFollowUp, AttachFollowUp, CreateFeedbackRetry, ClaimToolApproval, tables, boot,
       history, bounds, otherThanRequest, Claim, Unpark
  <2>2. cancel' = cancel /\ stranded' = stranded /\ faults' = faults /\ cancels' = cancels
    BY <2>1 DEF bounds
  <2> QED BY <2>2, <2>1, RestStay DEF RestType
<1>3. ASSUME NEW r \in DOMAIN runs, ClaimRun(r)
      PROVE  RestType' /\ RestMove
  <2>1. UNCHANGED <<due, boot, answers, killed, broken>> /\ UNCHANGED <<cancel, stranded, bounds>>
    BY <1>3 DEF ClaimRun, boot, history, bounds
  <2>2. cancel' = cancel /\ stranded' = stranded /\ faults' = faults /\ cancels' = cancels
    BY <2>1 DEF bounds
  <2> QED BY <2>2, <2>1, RestStay DEF RestType
<1>4. ASSUME NEW x \in Proposals \cup Agents, CreateRun(x)
      PROVE  RestType' /\ RestMove
  <2>1. UNCHANGED <<due, boot, answers, killed, broken>> /\ UNCHANGED <<cancel, stranded, bounds>>
    BY <1>4 DEF CreateRun, boot, history, bounds
  <2>2. cancel' = cancel /\ stranded' = stranded /\ faults' = faults /\ cancels' = cancels
    BY <2>1 DEF bounds
  <2> QED BY <2>2, <2>1, RestStay DEF RestType
<1>5. ASSUME NEW q \in Requests, NEW decision \in {"approve", "reject"}, NEW r \in DOMAIN runs,
             ReadRun(q, r, decision)
      PROVE  RestType' /\ RestMove
  <2>1. UNCHANGED <<due, boot, answers, killed, broken>> /\ UNCHANGED <<cancel, stranded, bounds>>
    BY <1>5 DEF ReadRun, tables, boot, history, bounds, otherThanRequest
  <2>2. cancel' = cancel /\ stranded' = stranded /\ faults' = faults /\ cancels' = cancels
    BY <2>1 DEF bounds
  <2> QED BY <2>2, <2>1, RestStay DEF RestType
<1>6. ASSUME NEW q \in Requests, NEW decision \in {"approve", "reject"}, NEW a \in DOMAIN approvals,
             ReadToolApproval(q, a, decision)
      PROVE  RestType' /\ RestMove
  <2>1. UNCHANGED <<due, boot, answers, killed, broken>> /\ UNCHANGED <<cancel, stranded, bounds>>
    BY <1>6 DEF ReadToolApproval, tables, boot, history, bounds, otherThanRequest
  <2>2. cancel' = cancel /\ stranded' = stranded /\ faults' = faults /\ cancels' = cancels
    BY <2>1 DEF bounds
  <2> QED BY <2>2, <2>1, RestStay DEF RestType
<1>7. ASSUME SweepStale
      PROVE  RestType' /\ RestMove
  <2>1. UNCHANGED <<due, boot, answers, killed, broken>> /\ UNCHANGED <<cancel, stranded, bounds>>
    BY <1>7 DEF SweepStale, boot, history, bounds, Unpark
  <2>2. cancel' = cancel /\ stranded' = stranded /\ faults' = faults /\ cancels' = cancels
    BY <2>1 DEF bounds
  <2> QED BY <2>2, <2>1, RestStay DEF RestType
<1>8. ASSUME NEW r \in DOMAIN thread, AskForRunFails(r)
      PROVE  RestType' /\ RestMove
  <2>1. UNCHANGED <<due, boot, answers, killed, broken, cancel, cancels>>
    BY <1>8 DEF AskForRunFails, tables, boot, Fault
  <2>2. faults' \in 0 .. MaxFaults
    BY <1>8, ConstantsAssumption DEF AskForRunFails, tables, boot, Fault, RestType
  <2>3. stranded' \subseteq RunId
    BY <1>8 DEF AskForRunFails, tables, boot, Fault, RestType, RunsType, ThreadType
  <2> QED BY <2>1, <2>2, <2>3, RestStay DEF RestType
<1>9. ASSUME NEW q \in Requests, QueueFollowUp(q)
      PROVE  RestType' /\ RestMove
  <2>1. UNCHANGED <<due, boot, answers, killed, broken, cancel, cancels>>
    BY <1>9 DEF QueueFollowUp, boot, bounds
  <2>2. faults' \in 0 .. MaxFaults
    BY <1>9, ConstantsAssumption DEF QueueFollowUp, boot, bounds, RestType
  <2>3. stranded' \subseteq RunId
    BY <1>9, RunIds DEF QueueFollowUp, boot, bounds, RestType, RunsType, ThreadType, RequestType
  <2> QED BY <2>1, <2>2, <2>3, RestStay DEF RestType
<1>10. ASSUME NEW q \in Requests, RequestAborts(q)
      PROVE  RestType' /\ RestMove
  <2>1. UNCHANGED <<due, boot, answers, killed, broken, cancel, cancels>>
    BY <1>10 DEF RequestAborts, tables, boot, Fault
  <2>2. faults' \in 0 .. MaxFaults
    BY <1>10, ConstantsAssumption DEF RequestAborts, tables, boot, Fault, RestType
  <2>3. stranded' \subseteq RunId
    BY <1>10, RunIds DEF RequestAborts, tables, boot, Fault, RestType, RunsType, ThreadType, RequestType
  <2> QED BY <2>1, <2>2, <2>3, RestStay DEF RestType
<1>11. ASSUME NEW r \in DOMAIN thread, WithdrawAskFails(r)
      PROVE  RestType' /\ RestMove
  <2>1. UNCHANGED <<due, boot, answers, killed, broken, cancel, cancels>>
    BY <1>11 DEF WithdrawAskFails, tables, boot, otherThanThread, Fault
  <2>2. faults' \in 0 .. MaxFaults
    BY <1>11, ConstantsAssumption DEF WithdrawAskFails, tables, boot, otherThanThread, Fault, RestType
  <2>3. stranded' \subseteq RunId
    BY <1>11 DEF WithdrawAskFails, tables, boot, otherThanThread, Fault, RestType, RunsType, ThreadType
  <2> QED BY <2>1, <2>2, <2>3, RestStay DEF RestType
<1>12. ASSUME NEW q \in Requests, LazyExpireFails(q)
      PROVE  RestType' /\ RestMove
  <2>1. UNCHANGED <<due, boot, answers, killed, broken, cancel, cancels>>
    BY <1>12 DEF LazyExpireFails, tables, boot, history, otherThanRequest, Fault
  <2>2. faults' \in 0 .. MaxFaults
    BY <1>12, ConstantsAssumption DEF LazyExpireFails, tables, boot, history, otherThanRequest, Fault, RestType
  <2>3. stranded' \subseteq RunId
    BY <1>12, RunIds DEF LazyExpireFails, tables, boot, history, otherThanRequest, Fault, RestType, RunsType, ThreadType, RequestType
  <2> QED BY <2>1, <2>2, <2>3, RestStay DEF RestType
<1>13. ASSUME NEW r \in DOMAIN runs, CancelRead(r)
      PROVE  RestType' /\ RestMove
  <2>1. /\ UNCHANGED <<due, boot, answers, killed, broken>>
        /\ stranded' = stranded /\ faults' = faults /\ cancels' = cancels + 1
        /\ cancels < MaxCancels
        /\ cancel' = Extend(cancel, r, [seen |-> runs[r].status, flagged |-> FALSE])
    BY <1>13 DEF CancelRead, history
  <2>2. runs[r].status \in RunStatus
    BY DEF RunsType, Run
  <2>3. /\ DOMAIN cancel' = DOMAIN cancel \cup {r}
        /\ cancel' \in [DOMAIN cancel' -> [seen : RunStatus, flagged : BOOLEAN]]
    BY <2>1, <2>2 DEF RestType, Extend
  <2>4. cancels' \in 0 .. MaxCancels
    BY <2>1, ConstantsAssumption DEF RestType
  <2> QED BY <2>1, <2>3, <2>4, RestStay DEF RestType
<1>14. ASSUME NEW r \in DOMAIN cancel, CancelFlag(r)
      PROVE  RestType' /\ RestMove
  <2>1. /\ UNCHANGED <<due, boot, answers, killed, broken>>
        /\ stranded' = stranded /\ faults' = faults /\ cancels' = cancels
        /\ cancel' = [cancel EXCEPT ![r].flagged = TRUE]
    BY <1>14 DEF CancelFlag, history, bounds
  <2>2. /\ DOMAIN cancel' = DOMAIN cancel
        /\ cancel' \in [DOMAIN cancel' -> [seen : RunStatus, flagged : BOOLEAN]]
    BY <2>1 DEF RestType
  <2> QED BY <2>1, <2>2, RestStay DEF RestType
<1>15. ASSUME NEW r \in DOMAIN cancel, CancelSettle(r)
      PROVE  RestType' /\ RestMove
  <2>1. /\ UNCHANGED <<due, boot, answers, killed, broken>>
        /\ stranded' = stranded /\ faults' = faults /\ cancels' = cancels
        /\ cancel' = Restrict(cancel, DOMAIN cancel \ {r})
    BY <1>15 DEF CancelSettle, history, bounds
  <2>2. /\ DOMAIN cancel' = DOMAIN cancel \ {r}
        /\ cancel' \in [DOMAIN cancel' -> [seen : RunStatus, flagged : BOOLEAN]]
    BY <2>1 DEF RestType, Restrict
  <2> QED BY <2>1, <2>2, RestStay DEF RestType
<1>16. ASSUME NEW r \in DOMAIN thread, PollDecided(r)
      PROVE  RestType' /\ RestMove
  <2>1. /\ due' = due /\ executor' = executor /\ lost' = lost /\ orphaned' = orphaned
        /\ killed' = killed /\ broken' = broken /\ stranded' = stranded /\ cancel' = cancel
        /\ faults' = faults /\ cancels' = cancels
        /\ \/ answers' = answers
           \/ approvals[Asked(r)].status = "approved" /\ answers' = answers \cup {Asked(r)}
    BY <1>16 DEF PollDecided, otherThanThread, boot, bounds
  <2>2. Asked(r) \in DOMAIN approvals
    BY <1>16 DEF PollDecided, At, ThreadType
  <2>3. DOMAIN runs \subseteq DOMAIN runs' /\ DOMAIN approvals \subseteq DOMAIN approvals'
    BY DEF RunsMove, ApprovalsMove
  <2>4. RestType'
    BY <2>1, <2>2, <2>3 DEF RestType, ThreadMove
  <2> QED BY <2>1, <2>2, <2>4 DEF RestMove
<1>17. ASSUME NEW a \in DOMAIN approvals, ComeDue(a)
      PROVE  RestType' /\ RestMove
  <2>1. /\ due' = due \cup {a} /\ ~Agent(a[1])
        /\ executor' = executor /\ lost' = lost /\ orphaned' = orphaned /\ answers' = answers
        /\ killed' = killed /\ broken' = broken /\ stranded' = stranded /\ cancel' = cancel
        /\ faults' = faults /\ cancels' = cancels
    BY <1>17 DEF ComeDue, boot, history, bounds
  <2>3. DOMAIN runs \subseteq DOMAIN runs' /\ DOMAIN approvals \subseteq DOMAIN approvals'
    BY DEF RunsMove, ApprovalsMove
  <2>4. RestType'
    BY <2>1, <2>3 DEF RestType, ThreadMove
  <2> QED BY <2>1, <2>4 DEF RestMove
<1>18. ASSUME NEW r \in lost, RestartLost(r)
      PROVE  RestType' /\ RestMove
  <2>1. /\ executor' = executor /\ lost' \subseteq lost /\ orphaned' = orphaned
        /\ due' = due /\ answers' = answers /\ killed' = killed /\ broken' = broken
        /\ stranded' = stranded
        /\ cancel' = cancel /\ faults' = faults /\ cancels' = cancels
    BY <1>18 DEF RestartLost, history, bounds
  <2>3. DOMAIN runs \subseteq DOMAIN runs' /\ DOMAIN approvals \subseteq DOMAIN approvals'
    BY DEF RunsMove, ApprovalsMove
  <2>4. RestType'
    BY <2>1, <2>3 DEF RestType, ThreadMove
  <2> QED BY <2>1, <2>4 DEF RestMove
<1>19. ASSUME NEW r \in orphaned, RejectOrphaned(r)
      PROVE  RestType' /\ RestMove
  <2>1. /\ executor' = executor /\ lost' = lost /\ orphaned' \subseteq orphaned
        /\ due' = due /\ answers' = answers /\ killed' = killed /\ broken' = broken
        /\ stranded' = stranded
        /\ cancel' = cancel /\ faults' = faults /\ cancels' = cancels
    BY <1>19 DEF RejectOrphaned, history, bounds
  <2>3. DOMAIN runs \subseteq DOMAIN runs' /\ DOMAIN approvals \subseteq DOMAIN approvals'
    BY DEF RunsMove, ApprovalsMove
  <2>4. RestType'
    BY <2>1, <2>3 DEF RestType, ThreadMove
  <2> QED BY <2>1, <2>4 DEF RestMove
<1>20. ASSUME NEW r \in orphaned, RejectOrphanedFails(r)
      PROVE  RestType' /\ RestMove
  <2>1. /\ executor' = executor /\ lost' = lost /\ orphaned' \subseteq orphaned
        /\ due' = due /\ answers' = answers /\ killed' = killed /\ broken' = broken
        /\ stranded' = stranded
        /\ cancel' = cancel /\ faults' = faults /\ cancels' = cancels
    BY <1>20 DEF RejectOrphanedFails, history, bounds
  <2>3. DOMAIN runs \subseteq DOMAIN runs' /\ DOMAIN approvals \subseteq DOMAIN approvals'
    BY DEF RunsMove, ApprovalsMove
  <2>4. RestType'
    BY <2>1, <2>3 DEF RestType, ThreadMove
  <2> QED BY <2>1, <2>4 DEF RestMove
<1>21. ASSUME Resume
      PROVE  RestType' /\ RestMove
  <2>1. /\ executor = "reaping" /\ executor' = "up" /\ lost' = lost /\ orphaned' = orphaned
        /\ due' = due /\ answers' = answers /\ killed' = killed /\ broken' = broken
        /\ stranded' = stranded
        /\ cancel' = cancel /\ faults' = faults /\ cancels' = cancels
    BY <1>21 DEF Resume, history, bounds
  <2>3. DOMAIN runs \subseteq DOMAIN runs' /\ DOMAIN approvals \subseteq DOMAIN approvals'
    BY DEF RunsMove, ApprovalsMove
  <2>4. RestType'
    BY <2>1, <2>3 DEF RestType, ThreadMove
  <2> QED BY <2>1, <2>4 DEF RestMove
<1>22. ASSUME FailParked
      PROVE  RestType' /\ RestMove
  <2>1. /\ executor = "recovering" /\ executor' = "reaping" /\ lost' = {} /\ orphaned' \subseteq DOMAIN runs
        /\ due' = due /\ answers' = answers /\ killed' = killed /\ broken' = broken
        /\ stranded' = stranded
        /\ cancel' = cancel /\ faults' = faults /\ cancels' = cancels
    BY <1>22 DEF FailParked, history, bounds
  <2>3. DOMAIN runs \subseteq DOMAIN runs' /\ DOMAIN approvals \subseteq DOMAIN approvals'
    BY DEF RunsMove, ApprovalsMove
  <2>4. RestType'
    BY <2>1, <2>3 DEF RestType, ThreadMove
  <2> QED BY <2>1, <2>4 DEF RestMove
<1>23. ASSUME FailInterrupted
      PROVE  RestType' /\ RestMove
  <2>1. /\ executor = "down" /\ executor' = "recovering"
        /\ lost' = {r \in DOMAIN runs : runs[r].status = "running"} /\ orphaned' = orphaned
        /\ due' = due /\ answers' = answers /\ killed' = killed /\ broken' = broken
        /\ stranded' = stranded
        /\ cancel' = cancel /\ faults' = faults /\ cancels' = cancels
    BY <1>23 DEF FailInterrupted, history, bounds
  <2>2. \A r \in lost' : runs'[r].status = "failed"
    <3>1. ASSUME NEW r \in DOMAIN runs, runs[r].status = "running"
          PROVE  runs'[r] = WithError(runs[r], "failed") /\ runs[r] \in Run
      BY <1>23, <3>1 DEF FailInterrupted, RunsType
    <3> QED BY <2>1, <3>1, UpdatedRow DEF RunStatus
  <2>3. DOMAIN runs \subseteq DOMAIN runs' /\ DOMAIN approvals \subseteq DOMAIN approvals'
    BY DEF RunsMove, ApprovalsMove
  <2>4. RestType'
    BY <2>1, <2>3 DEF RestType, ThreadMove
  <2> QED BY <2>1, <2>2, <2>4 DEF RestMove, Interrupted
<1>24. ASSUME Crash
      PROVE  RestType' /\ RestMove
  <2>1. /\ executor' = "down" /\ lost' = {} /\ orphaned' = {}
        /\ killed' = killed \cup DOMAIN thread /\ broken' = broken
        /\ due' = due /\ answers' = answers /\ cancels' = cancels
        /\ DOMAIN thread' = {}
    BY <1>24 DEF Crash, Restrict
  <2>2. faults' \in 0 .. MaxFaults
    BY <1>24, ConstantsAssumption DEF Crash, Fault, RestType
  <2>3. stranded' \subseteq RunId
    BY <1>24 DEF Crash, RestType, RunsType
  <2>4. /\ DOMAIN cancel' \subseteq DOMAIN cancel
        /\ cancel' \in [DOMAIN cancel' -> [seen : RunStatus, flagged : BOOLEAN]]
    BY <1>24 DEF Crash, RestType, Restrict
  <2>5. DOMAIN runs \subseteq DOMAIN runs' /\ DOMAIN approvals \subseteq DOMAIN approvals'
    BY DEF RunsMove, ApprovalsMove
  <2>6. RestType'
    BY <2>1, <2>2, <2>3, <2>4, <2>5 DEF RestType, ThreadMove, ThreadType
  <2>7. ASSUME ~SplitRoles, NEW q \in Requests PROVE request'[q].pc \in {"idle", "done"}
    BY <1>24, <2>7 DEF Crash, RequestType, Request
  <2> QED BY <2>1, <2>6, <2>7 DEF RestMove
<1>25. ASSUME NEW r \in DOMAIN thread, WorkFails(r) \/ WorkRaises(r) \/ LoopFails(r)
      PROVE  RestType' /\ RestMove
  <2>1. /\ due' = due /\ executor' = executor /\ lost' = lost /\ orphaned' = orphaned
        /\ answers' = answers /\ killed' = killed /\ broken' = broken \cup {r}
        /\ stranded' = stranded /\ cancel' = cancel /\ cancels' = cancels
    BY <1>25 DEF WorkFails, WorkRaises, LoopFails, boot
  <2>2. faults' \in 0 .. MaxFaults
    BY <1>25, ConstantsAssumption DEF WorkFails, WorkRaises, LoopFails, Fault, RestType
  <2>3. DOMAIN runs \subseteq DOMAIN runs' /\ DOMAIN approvals \subseteq DOMAIN approvals'
    BY DEF RunsMove, ApprovalsMove
  <2>4. RestType'
    BY <2>1, <2>2, <2>3 DEF RestType, ThreadMove, ThreadType
  <2> QED BY <2>1, <2>4 DEF RestMove
<1> QED BY <1>1, <1>2, <1>3, <1>4, <1>5, <1>6, <1>7, <1>8, <1>9, <1>10, <1>11, <1>12, <1>13,
   <1>14, <1>15, <1>16, <1>17, <1>18, <1>19, <1>20, <1>21, <1>22, <1>23, <1>24, <1>25 DEF Next,
   Progress, Input, FaultStep, ThreadStep, RequestStep, BootStep

-----------------------------------------------------------------------------
(* What a thread has not done yet stays undone *)

LEMMA ThreadsKept ==
    ASSUME ThreadInv, DOMAIN thread' \subseteq DOMAIN thread,
           \A s \in DOMAIN thread' : thread'[s] = thread[s],
           fired' = fired, DOMAIN approvals' = DOMAIN approvals
    PROVE  ThreadInv'
<1>1. ASSUME NEW s PROVE AsksOf(s)' = AsksOf(s)
  BY DEF AsksOf
<1> QED BY <1>1 DEF ThreadInv, ThreadOf, Agent

\* Only r has moved, asked or worked.
OneMoves(r) ==
    /\ DOMAIN thread' \subseteq DOMAIN thread
    /\ \A s \in DOMAIN thread' : s # r => thread'[s] = thread[s] /\ fired'[s] = fired[s]
    /\ DOMAIN approvals \subseteq DOMAIN approvals'
    /\ \A a \in DOMAIN approvals' : a \in DOMAIN approvals \/ a[1] = r

LEMMA OneThreadMoves ==
    ASSUME ThreadInv, NEW r, OneMoves(r), r \in DOMAIN thread' => ThreadOf(r)'
    PROVE  ThreadInv'
<1>1. ASSUME NEW s \in DOMAIN thread', s # r PROVE ThreadOf(s)'
  <2>1. AsksOf(s)' = AsksOf(s)
    BY <1>1 DEF AsksOf, OneMoves
  <2>2. ThreadOf(s) /\ thread'[s] = thread[s] /\ fired'[s] = fired[s]
    BY <1>1 DEF OneMoves, ThreadInv
  <2> QED BY <2>1, <2>2 DEF ThreadOf, Agent
<1> QED BY <1>1 DEF ThreadInv

LEMMA ThreadGoesOn ==
    ASSUME ThreadType, ThreadInv, NEW r \in DOMAIN thread, NEW pc \in ThreadPc, Goto(r, pc),
           fired' = fired, DOMAIN approvals' = DOMAIN approvals,
           pc \notin {"loading", "stamping", "working"} \/ fired[r] = 0,
           \/ pc \notin {"loading", "stamping", "working", "gating", "asking"}
           \/ Agent(r) \/ AsksOf(r) = {},
           pc \in ProposalPc => ~Agent(r),
           pc \in LoopPc => Agent(r)
    PROVE  ThreadInv'
<1>1. /\ DOMAIN thread' = DOMAIN thread
      /\ thread'[r].pc = pc /\ thread'[r].ask = thread[r].ask
      /\ \A s \in DOMAIN thread : s # r => thread'[s] = thread[s]
  BY DEF Goto, ThreadType, Thread
<1>2. OneMoves(r)
  BY <1>1 DEF OneMoves
<1>3. AsksOf(r)' = AsksOf(r) /\ ThreadOf(r)
  BY DEF AsksOf, ThreadInv
<1>4. ThreadOf(r)'
  BY <1>1, <1>3 DEF ThreadOf, Agent
<1> QED BY <1>2, <1>4, OneThreadMoves

LEMMA ThreadInvStep ==
    ASSUME BaseInv, Next
    PROVE  ThreadInv'
<1> /\ RunsType /\ ApprovalsType /\ ThreadType /\ RequestType /\ RestType
    /\ ThreadInv /\ QueuedInv
  BY TypeParts DEF BaseInv
<1>1. ASSUME NEW q \in Requests,
             \/ ReadApproval(q) \/ RereadApproval(q) \/ SettleRun(q) \/ CreateFollowUp(q)
             \/ QueueFollowUp(q) \/ CreateFeedbackRetry(q) \/ LazyExpireFails(q)
             \/ RequestAborts(q)
      PROVE  ThreadInv'
  <2>1. UNCHANGED <<thread, fired, approvals>>
    BY <1>1 DEF ReadApproval, RereadApproval, SettleRun, CreateFollowUp, QueueFollowUp,
       CreateFeedbackRetry, LazyExpireFails, RequestAborts, tables, boot, history, bounds,
       otherThanRequest, Fault
  <2> QED BY <2>1, ThreadsKept
<1>2. ASSUME NEW r \in DOMAIN runs, CancelRead(r)
      PROVE  ThreadInv'
  <2>1. UNCHANGED <<thread, fired, approvals>>
    BY <1>2 DEF CancelRead, tables, boot, history
  <2> QED BY <2>1, ThreadsKept
<1>3. ASSUME NEW x \in Proposals \cup Agents, CreateRun(x)
      PROVE  ThreadInv'
  <2>1. UNCHANGED <<thread, fired, approvals>>
    BY <1>3 DEF CreateRun, boot, history, bounds
  <2> QED BY <2>1, ThreadsKept
<1>4. ASSUME NEW q \in Requests, NEW decision \in {"approve", "reject"}, NEW r \in DOMAIN runs,
             ReadRun(q, r, decision)
      PROVE  ThreadInv'
  <2>1. UNCHANGED <<thread, fired, approvals>>
    BY <1>4 DEF ReadRun, tables, boot, history, bounds, otherThanRequest
  <2> QED BY <2>1, ThreadsKept
<1>5. ASSUME NEW q \in Requests, NEW decision \in {"approve", "reject"}, NEW a \in DOMAIN approvals,
             ReadToolApproval(q, a, decision)
      PROVE  ThreadInv'
  <2>1. UNCHANGED <<thread, fired, approvals>>
    BY <1>5 DEF ReadToolApproval, tables, boot, history, bounds, otherThanRequest
  <2> QED BY <2>1, ThreadsKept
<1>6. ASSUME FailInterrupted \/ FailParked \/ Resume
      PROVE  ThreadInv'
  <2>1. UNCHANGED <<thread, fired, approvals>>
    BY <1>6 DEF FailInterrupted, FailParked, Resume, tables, history, bounds
  <2> QED BY <2>1, ThreadsKept
<1>7. ASSUME NEW r \in lost, RestartLost(r)
      PROVE  ThreadInv'
  <2>1. UNCHANGED <<thread, fired, approvals>>
    BY <1>7 DEF RestartLost, history, bounds
  <2> QED BY <2>1, ThreadsKept
<1>8. ASSUME NEW r \in orphaned, RejectOrphanedFails(r)
      PROVE  ThreadInv'
  <2>1. UNCHANGED <<thread, fired, approvals>>
    BY <1>8 DEF RejectOrphanedFails, tables, history, bounds
  <2> QED BY <2>1, ThreadsKept
<1>9. ASSUME NEW r \in DOMAIN cancel, CancelFlag(r) \/ CancelSettle(r)
      PROVE  ThreadInv'
  <2>1. UNCHANGED <<thread, fired, approvals>>
    BY <1>9 DEF CancelFlag, CancelSettle, boot, history, bounds
  <2> QED BY <2>1, ThreadsKept
<1>10. ASSUME NEW a \in DOMAIN approvals, ComeDue(a)
      PROVE  ThreadInv'
  <2>1. UNCHANGED <<thread, fired, approvals>>
    BY <1>10 DEF ComeDue, tables, boot, history, bounds
  <2> QED BY <2>1, ThreadsKept
<1>11. ASSUME NEW q \in Requests, LazyExpire(q)
      PROVE  ThreadInv'
  <2>1. UNCHANGED <<thread, fired>> /\ DOMAIN approvals' = DOMAIN approvals
    BY <1>11 DEF LazyExpire, history, bounds, otherThanRequest, DecideOnly
  <2> QED BY <2>1, ThreadsKept
<1>12. ASSUME NEW q \in Requests, ClaimRunApproval(q)
      PROVE  ThreadInv'
  <2>1. UNCHANGED <<thread, fired>> /\ DOMAIN approvals' = DOMAIN approvals
    BY <1>12 DEF ClaimRunApproval, history, bounds, otherThanRequest, Claim, Decide, DecideOnly
  <2> QED BY <2>1, ThreadsKept
<1>13. ASSUME NEW q \in Requests, AttachFollowUp(q)
      PROVE  ThreadInv'
  <2>1. UNCHANGED <<thread, fired>> /\ DOMAIN approvals' = DOMAIN approvals
    BY <1>13 DEF AttachFollowUp, history, bounds, otherThanRequest
  <2> QED BY <2>1, ThreadsKept
<1>14. ASSUME NEW q \in Requests, ClaimToolApproval(q)
      PROVE  ThreadInv'
  <2>1. UNCHANGED <<thread, fired>> /\ DOMAIN approvals' = DOMAIN approvals
    BY <1>14 DEF ClaimToolApproval, history, bounds, otherThanRequest, Claim, Decide, DecideOnly
  <2> QED BY <2>1, ThreadsKept
<1>15. ASSUME SweepStale
      PROVE  ThreadInv'
  <2>1. UNCHANGED <<thread, fired>> /\ DOMAIN approvals' = DOMAIN approvals
    BY <1>15 DEF SweepStale, history, bounds, DecideOnly
  <2> QED BY <2>1, ThreadsKept
<1>16. ASSUME NEW r \in orphaned, RejectOrphaned(r)
      PROVE  ThreadInv'
  <2>1. UNCHANGED <<thread, fired>> /\ DOMAIN approvals' = DOMAIN approvals
    BY <1>16 DEF RejectOrphaned, history, bounds, Decide, DecideOnly
  <2> QED BY <2>1, ThreadsKept
<1>17. ASSUME NEW r \in DOMAIN thread, LoadRun(r)
      PROVE  ThreadInv'
  <2>1. fired' = fired /\ approvals' = approvals /\ thread[r].pc = "loading"
    BY <1>17 DEF LoadRun, tables, At
  <2>2. fired[r] = 0 /\ (Agent(r) \/ AsksOf(r) = {})
    BY <2>1 DEF ThreadInv, ThreadOf
  <2>3. CASE Goto(r, "failing")
    BY <2>1, <2>3, ThreadGoesOn DEF ThreadPc, ProposalPc, LoopPc
  <2>4. CASE Leave(r)
    <3>1. DOMAIN thread' \subseteq DOMAIN thread /\ \A s \in DOMAIN thread' : thread'[s] = thread[s]
      BY <2>4 DEF Leave, Restrict
    <3> QED BY <2>1, <3>1, ThreadsKept
  <2>5. CASE Goto(r, "looping") /\ Agent(r)
    BY <2>1, <2>2, <2>5, ThreadGoesOn DEF ThreadPc, ProposalPc, LoopPc
  <2>6. CASE Goto(r, "stamping") /\ ~Agent(r)
    BY <2>1, <2>2, <2>6, ThreadGoesOn DEF ThreadPc, ProposalPc, LoopPc
  <2>7. \/ Goto(r, "failing") \/ Leave(r)
        \/ Goto(r, IF Agent(r) THEN "looping" ELSE "stamping")
    BY <1>17, Zenon DEF LoadRun
  <2>8. CASE Agent(r)
    BY <2>3, <2>4, <2>5, <2>7, <2>8
  <2>9. CASE ~Agent(r)
    BY <2>3, <2>4, <2>6, <2>7, <2>9
  <2> QED BY <2>8, <2>9
<1>18. ASSUME NEW r \in DOMAIN thread, StampPhase(r)
      PROVE  ThreadInv'
  <2> DEFINE phase == IF IsApprovedExecution(r) THEN "execute" ELSE "propose"
  <2>1. thread' = [thread EXCEPT ![r].pc = "working", ![r].phase = phase]
    BY <1>18 DEF StampPhase
  <2> HIDE DEF phase
  <2>2. fired' = fired /\ approvals' = approvals /\ thread[r].pc = "stamping"
    BY <1>18 DEF StampPhase, tables, At
  <2>3. /\ DOMAIN thread' = DOMAIN thread
        /\ thread'[r].pc = "working" /\ thread'[r].ask = thread[r].ask
        /\ \A s \in DOMAIN thread : s # r => thread'[s] = thread[s]
    BY <2>1 DEF ThreadType, Thread
  <2>4. AsksOf(r)' = AsksOf(r) /\ ThreadOf(r)
    BY <2>2 DEF AsksOf, ThreadInv
  <2>5. ThreadOf(r)'
    BY <2>2, <2>3, <2>4 DEF ThreadOf, Agent, ProposalPc, LoopPc
  <2>6. OneMoves(r)
    BY <2>2, <2>3 DEF OneMoves
  <2> QED BY <2>5, <2>6, OneThreadMoves
<1>19. ASSUME NEW r \in DOMAIN thread, Work(r)
      PROVE  ThreadInv'
  <2>1. /\ thread' = [thread EXCEPT ![r].pc = "gating"]
        /\ fired' \in {fired, Fire(r)} /\ approvals' = approvals /\ thread[r].pc = "working"
    BY <1>19 DEF Work, Goto, tables, At
  <2>2. /\ DOMAIN thread' = DOMAIN thread
        /\ thread'[r].pc = "gating" /\ thread'[r].ask = thread[r].ask
        /\ \A s \in DOMAIN thread : s # r => thread'[s] = thread[s] /\ fired'[s] = fired[s]
    BY <2>1 DEF RunsType, ThreadType, Thread, Fire, RestType
  <2>3. AsksOf(r)' = AsksOf(r) /\ ThreadOf(r)
    BY <2>1 DEF AsksOf, ThreadInv
  <2>4. ThreadOf(r)'
    BY <2>1, <2>2, <2>3 DEF ThreadOf, Agent, ProposalPc, LoopPc
  <2>5. OneMoves(r)
    BY <2>1, <2>2 DEF OneMoves
  <2> QED BY <2>4, <2>5, OneThreadMoves
<1>20. ASSUME NEW r \in DOMAIN thread, WorkFails(r)
      PROVE  ThreadInv'
  <2>1. /\ thread' = [thread EXCEPT ![r].pc = "erring"]
        /\ fired' \in {fired, Fire(r)} /\ approvals' = approvals /\ thread[r].pc = "working"
    BY <1>20 DEF WorkFails, Goto, tables, At
  <2>2. /\ DOMAIN thread' = DOMAIN thread
        /\ thread'[r].pc = "erring" /\ thread'[r].ask = thread[r].ask
        /\ \A s \in DOMAIN thread : s # r => thread'[s] = thread[s] /\ fired'[s] = fired[s]
    BY <2>1 DEF RunsType, ThreadType, Thread, Fire, RestType
  <2>3. AsksOf(r)' = AsksOf(r) /\ ThreadOf(r)
    BY <2>1 DEF AsksOf, ThreadInv
  <2>4. ThreadOf(r)'
    BY <2>1, <2>2, <2>3 DEF ThreadOf, Agent, ProposalPc, LoopPc
  <2>5. OneMoves(r)
    BY <2>1, <2>2 DEF OneMoves
  <2> QED BY <2>4, <2>5, OneThreadMoves
<1>21. ASSUME NEW r \in DOMAIN thread, GateRun(r)
      PROVE  ThreadInv'
  <2>1. PICK pc \in {"completing", "asking", "failing"} : Goto(r, pc)
    BY <1>21 DEF GateRun
  <2>2. fired' = fired /\ approvals' = approvals /\ thread[r].pc = "gating"
    BY <1>21 DEF GateRun, tables, At
  <2>3. ~Agent(r) /\ AsksOf(r) = {}
    BY <2>2 DEF ThreadInv, ThreadOf, ProposalPc
  <2>4. pc \in ThreadPc /\ pc \notin LoopPc
    BY DEF ThreadPc, LoopPc
  <2> QED BY <2>1, <2>2, <2>3, <2>4, ThreadGoesOn
<1>22. ASSUME NEW r \in DOMAIN thread, CompleteRun(r)
      PROVE  ThreadInv'
  <2>1. /\ DOMAIN thread' \subseteq DOMAIN thread /\ \A s \in DOMAIN thread' : thread'[s] = thread[s]
        /\ fired' = fired /\ approvals' = approvals
    BY <1>22 DEF CompleteRun, Leave, Restrict
  <2> QED BY <2>1, ThreadsKept
<1>23. ASSUME NEW r \in DOMAIN thread, FailRun(r)
      PROVE  ThreadInv'
  <2>1. /\ DOMAIN thread' \subseteq DOMAIN thread /\ \A s \in DOMAIN thread' : thread'[s] = thread[s]
        /\ fired' = fired /\ approvals' = approvals
    BY <1>23 DEF FailRun, Leave, Restrict
  <2> QED BY <2>1, ThreadsKept
<1>24. ASSUME NEW r \in DOMAIN thread, ParkRun(r)
      PROVE  ThreadInv'
  <2>1. /\ DOMAIN thread' \subseteq DOMAIN thread /\ \A s \in DOMAIN thread' : thread'[s] = thread[s]
        /\ fired' = fired /\ approvals' = approvals
    BY <1>24 DEF ParkRun, Leave, Restrict
  <2> QED BY <2>1, ThreadsKept
<1>25. ASSUME NEW r \in DOMAIN thread, AskForRun(r)
      PROVE  ThreadInv'
  <2>1. /\ thread' = [thread EXCEPT ![r].pc = "parking"]
        /\ approvals' = Extend(approvals, <<r, 1>>, NewApproval)
        /\ fired' = fired /\ thread[r].pc = "asking"
    BY <1>25 DEF AskForRun, Goto, At
  <2>2. ~Agent(r)
    BY <2>1 DEF ThreadInv, ThreadOf, ProposalPc
  <2>3. /\ DOMAIN thread' = DOMAIN thread
        /\ thread'[r].pc = "parking"
        /\ \A s \in DOMAIN thread : s # r => thread'[s] = thread[s]
    BY <2>1 DEF ThreadType, Thread
  <2>4. DOMAIN approvals' = DOMAIN approvals \cup {<<r, 1>>}
    BY <2>1 DEF Extend
  <2>5. OneMoves(r)
    BY <2>1, <2>3, <2>4 DEF OneMoves
  <2>6. ThreadOf(r)'
    BY <2>2, <2>3 DEF ThreadOf, Agent, LoopPc
  <2> QED BY <2>5, <2>6, OneThreadMoves
<1>26. ASSUME NEW r \in DOMAIN thread, AskInLoop(r)
      PROVE  ThreadInv'
  <2>1. /\ thread' = [thread EXCEPT ![r].pc = "tool_parking", ![r].ask = @ + 1]
        /\ approvals' = Extend(approvals, <<r, thread[r].ask + 1>>, NewApproval)
        /\ fired' = fired /\ thread[r].pc = "looping"
    BY <1>26 DEF AskInLoop, At
  <2>2. Agent(r) /\ ThreadOf(r) /\ thread[r].ask \in Nat
    BY <2>1 DEF ThreadInv, ThreadOf, LoopPc, ThreadType, Thread
  <2>3. /\ DOMAIN thread' = DOMAIN thread
        /\ thread'[r].pc = "tool_parking" /\ thread'[r].ask = thread[r].ask + 1
        /\ \A s \in DOMAIN thread : s # r => thread'[s] = thread[s]
    BY <2>1 DEF ThreadType, Thread
  <2>4. DOMAIN approvals' = DOMAIN approvals \cup {<<r, thread[r].ask + 1>>}
    BY <2>1 DEF Extend
  <2>5. OneMoves(r)
    BY <2>1, <2>3, <2>4 DEF OneMoves
  <2>6. ASSUME NEW a \in AsksOf(r)' PROVE a[2] <= thread[r].ask + 1
    <3>1. a \in AsksOf(r) \/ a = <<r, thread[r].ask + 1>>
      BY <2>4, <2>6 DEF AsksOf
    <3>2. CASE a \in AsksOf(r)
      <4>1. a[2] <= thread[r].ask /\ a[2] \in Nat
        BY <2>2, <3>2, ConstantsAssumption DEF ThreadOf, AsksOf, ApprovalsType, ApprovalId
      <4> QED BY <2>2, <4>1
    <3>3. CASE a = <<r, thread[r].ask + 1>>
      BY <2>2, <3>3
    <3> QED BY <3>1, <3>2, <3>3
  <2>7. ThreadOf(r)'
    BY <2>2, <2>3, <2>6 DEF ThreadOf, Agent, ProposalPc
  <2> QED BY <2>5, <2>7, OneThreadMoves
<1>27. ASSUME NEW r \in DOMAIN thread, AskForRunFails(r)
      PROVE  ThreadInv'
  <2>1. Goto(r, "parking") /\ fired' = fired /\ approvals' = approvals /\ thread[r].pc = "asking"
    BY <1>27 DEF AskForRunFails, tables, At
  <2>2. ~Agent(r)
    BY <2>1 DEF ThreadInv, ThreadOf, ProposalPc
  <2> QED BY <2>1, <2>2, ThreadGoesOn DEF ThreadPc, LoopPc
<1>28. ASSUME NEW r \in DOMAIN thread, FinishLoop(r)
      PROVE  ThreadInv'
  <2>1. PICK pc \in {"completing", "failing"} : Goto(r, pc)
    BY <1>28 DEF FinishLoop
  <2>2. fired' = fired /\ DOMAIN approvals' = DOMAIN approvals
    BY <1>28 DEF FinishLoop, tables, otherThanThread
  <2>3. pc \in ThreadPc /\ pc \notin ProposalPc /\ pc \notin LoopPc /\ pc # "loading"
    BY <1>28 DEF ThreadPc, ProposalPc, LoopPc
  <2> QED BY <2>1, <2>2, <2>3, ThreadGoesOn DEF ProposalPc, LoopPc
<1>29. ASSUME NEW r \in DOMAIN thread, PollDecided(r)
      PROVE  ThreadInv'
  <2>1. PICK pc \in {"looping"} : Goto(r, pc)
    BY <1>29 DEF PollDecided
  <2>2. fired' = fired /\ DOMAIN approvals' = DOMAIN approvals
    BY <1>29 DEF PollDecided, otherThanThread
  <2>3. pc \in ThreadPc /\ pc \in LoopPc /\ Agent(r)
    BY <1>29 DEF ThreadPc, ProposalPc, LoopPc, ThreadInv, ThreadOf, At, PollDecided
  <2> QED BY <2>1, <2>2, <2>3, ThreadGoesOn DEF ProposalPc, LoopPc
<1>30. ASSUME NEW r \in DOMAIN thread, WithdrawAskFails(r)
      PROVE  ThreadInv'
  <2>1. PICK pc \in {"looping"} : Goto(r, pc)
    BY <1>30 DEF WithdrawAskFails
  <2>2. fired' = fired /\ DOMAIN approvals' = DOMAIN approvals
    BY <1>30 DEF WithdrawAskFails, tables, otherThanThread
  <2>3. pc \in ThreadPc /\ pc \in LoopPc /\ Agent(r)
    BY <1>30 DEF ThreadPc, ProposalPc, LoopPc, ThreadInv, ThreadOf, At, WithdrawAskFails
  <2> QED BY <2>1, <2>2, <2>3, ThreadGoesOn DEF ProposalPc, LoopPc
<1>31. ASSUME NEW r \in DOMAIN thread, ParkInLoop(r)
      PROVE  ThreadInv'
  <2>1. PICK pc \in {"polling"} : Goto(r, pc)
    BY <1>31 DEF ParkInLoop
  <2>2. fired' = fired /\ DOMAIN approvals' = DOMAIN approvals
    BY <1>31 DEF ParkInLoop, otherThanThread
  <2>3. pc \in ThreadPc /\ pc \in LoopPc /\ Agent(r)
    BY <1>31 DEF ThreadPc, ProposalPc, LoopPc, ThreadInv, ThreadOf, At, ParkInLoop
  <2> QED BY <2>1, <2>2, <2>3, ThreadGoesOn DEF ProposalPc, LoopPc
<1>32. ASSUME NEW r \in DOMAIN thread, PollGivesUp(r)
      PROVE  ThreadInv'
  <2>1. PICK pc \in {"rejecting"} : Goto(r, pc)
    BY <1>32 DEF PollGivesUp
  <2>2. fired' = fired /\ DOMAIN approvals' = DOMAIN approvals
    BY <1>32 DEF PollGivesUp, otherThanThread
  <2>3. pc \in ThreadPc /\ pc \in LoopPc /\ Agent(r)
    BY <1>32 DEF ThreadPc, ProposalPc, LoopPc, ThreadInv, ThreadOf, At, PollGivesUp
  <2> QED BY <2>1, <2>2, <2>3, ThreadGoesOn DEF ProposalPc, LoopPc
<1>33. ASSUME NEW r \in DOMAIN thread, WithdrawAsk(r)
      PROVE  ThreadInv'
  <2>1. PICK pc \in {"looping"} : Goto(r, pc)
    BY <1>33 DEF WithdrawAsk
  <2>2. fired' = fired /\ DOMAIN approvals' = DOMAIN approvals
    BY <1>33 DEF Decide, DecideOnly, WithdrawAsk, otherThanThread
  <2>3. pc \in ThreadPc /\ pc \in LoopPc /\ Agent(r)
    BY <1>33 DEF ThreadPc, ProposalPc, LoopPc, ThreadInv, ThreadOf, At, WithdrawAsk
  <2> QED BY <2>1, <2>2, <2>3, ThreadGoesOn DEF ProposalPc, LoopPc
<1>34. ASSUME NEW r \in DOMAIN runs, ClaimRun(r)
      PROVE  ThreadInv'
  <2>1. /\ runs[r].status = "queued"
        /\ thread' = Extend(thread, r, [pc |-> "loading", phase |-> "none", ask |-> 0])
        /\ fired' = fired /\ approvals' = approvals
    BY <1>34 DEF ClaimRun, history
  <2>2. r \notin DOMAIN thread /\ AsksOf(r) = {} /\ fired[r] = 0
    BY <2>1 DEF QueuedInv, Unbegun
  <2>3. /\ DOMAIN thread' = DOMAIN thread \cup {r}
        /\ thread'[r].pc = "loading" /\ thread'[r].ask = 0
        /\ \A s \in DOMAIN thread : thread'[s] = thread[s]
    BY <2>1, <2>2 DEF Extend
  <2>4. ASSUME NEW s PROVE AsksOf(s)' = AsksOf(s)
    BY <2>1 DEF AsksOf
  <2>5. ThreadOf(r)'
    BY <2>1, <2>2, <2>3, <2>4 DEF ThreadOf, ProposalPc, LoopPc
  <2>6. ASSUME NEW s \in DOMAIN thread PROVE ThreadOf(s)'
    BY <2>1, <2>2, <2>3, <2>4, <2>6 DEF ThreadInv, ThreadOf, Agent
  <2> QED BY <2>3, <2>5, <2>6 DEF ThreadInv
<1>35. ASSUME Crash
      PROVE  ThreadInv'
  BY <1>35 DEF Crash, Restrict, ThreadInv
<1>36. ASSUME NEW r \in DOMAIN thread, WorkRaises(r) \/ LoopFails(r) \/ FailReported(r)
      PROVE  ThreadInv'
  <2>1. PICK pc \in {"raised", "erring", "retrying"} : Goto(r, pc)
    BY <1>36 DEF WorkRaises, LoopFails, FailReported
  <2>2. fired' = fired /\ approvals' = approvals
    BY <1>36 DEF WorkRaises, LoopFails, FailReported, tables
  <2> QED BY <2>1, <2>2, ThreadGoesOn DEF ThreadPc, ProposalPc, LoopPc
<1>37. ASSUME NEW r \in DOMAIN thread, RetryRun(r) \/ SkipRetry(r)
      PROVE  ThreadInv'
  <2>1. AfterRetry(r) /\ fired' = fired /\ approvals' = approvals
    BY <1>37 DEF RetryRun, SkipRetry, tables
  <2>2. CASE Goto(r, "failing")
    BY <2>1, <2>2, ThreadGoesOn DEF ThreadPc, ProposalPc, LoopPc
  <2>3. CASE Leave(r)
    <3>1. DOMAIN thread' \subseteq DOMAIN thread /\ \A s \in DOMAIN thread' : thread'[s] = thread[s]
      BY <2>3 DEF Leave, Restrict
    <3> QED BY <2>1, <3>1, ThreadsKept
  <2> QED BY <2>1, <2>2, <2>3 DEF AfterRetry
<1> QED BY <1>1, <1>2, <1>3, <1>4, <1>5, <1>6, <1>7, <1>8, <1>9, <1>10, <1>11, <1>12, <1>13,
   <1>14, <1>15, <1>16, <1>17, <1>18, <1>19, <1>20, <1>21, <1>22, <1>23, <1>24, <1>25,
   <1>26, <1>27, <1>28, <1>29, <1>30, <1>31, <1>32, <1>33, <1>34, <1>35, <1>36, <1>37
   DEF Next, Progress, Input, FaultStep, ThreadStep, RequestStep, BootStep

-----------------------------------------------------------------------------
(* The invariant that needs no hypothesis *)

Moves ==
    /\ TypeOK'
    /\ RunsMove
    /\ ApprovalsMove
    /\ ThreadMove
    /\ RequestMove
    /\ RestMove

LEMMA StepMoves ==
    ASSUME BaseInv, Next
    PROVE  Moves
<1>1. RunsType' /\ RunsMove
  BY RunsStep
<1>2. ApprovalsType' /\ ApprovalsMove
  BY <1>1, ApprovalsStep
<1>3. ThreadType' /\ ThreadMove
  BY <1>1, <1>2, ThreadStepType
<1>4. RequestType' /\ RequestMove
  BY <1>1, <1>2, RequestStepType
<1>5. RestType' /\ RestMove
  BY <1>1, <1>2, <1>3, RestStepType
<1> QED BY <1>1, <1>2, <1>3, <1>4, <1>5, TypePartsNext DEF Moves

\* A run stays unbegun until a drain claims it.
LEMMA UnbegunStays ==
    ASSUME BaseInv, Moves, NEW r \in RunId, Unbegun(r),
           r \notin DOMAIN runs \/ runs[r].status # "queued" \/ runs'[r].status # "running"
    PROVE  Unbegun(r)'
<1>1. r \notin DOMAIN thread'
  BY DEF Moves, ThreadMove, Claimed, Unbegun
<1>2. AsksOf(r)' = {}
  BY DEF Moves, ApprovalsMove, NewAsk, Unbegun, AsksOf
<1>3. fired'[r] = 0
  BY DEF Moves, ThreadMove, Fires, Unbegun
<1> QED BY <1>1, <1>2, <1>3 DEF Unbegun

LEMMA QueuedStep ==
    ASSUME BaseInv, Moves
    PROVE  QueuedInv'
<1> SUFFICES ASSUME NEW r \in DOMAIN runs', runs'[r].status = "queued"
             PROVE  Unbegun(r)'
  BY DEF QueuedInv
<1>1. r \in RunId
  BY DEF Moves, TypeOK
<1>2. CASE r \notin DOMAIN runs
  <2>1. Unbegun(r)
    BY <1>1, <1>2 DEF BaseInv, TypeOK, FiredInv, Unbegun, AsksOf
  <2> QED BY <1>1, <1>2, <2>1, UnbegunStays
<1>3. CASE r \in DOMAIN runs
  <2>1. Unbegun(r)
    BY <1>3 DEF Moves, RunsMove, RowMove, BaseInv, QueuedInv, RequestInv, RequestOf
  <2> QED BY <1>1, <2>1, UnbegunStays
<1> QED BY <1>2, <1>3

LEMMA AsksStep ==
    ASSUME BaseInv, Moves
    PROVE  AsksInv'
<1> TypeOK /\ ThreadInv /\ AsksInv
  BY DEF BaseInv
<1>1. ASSUME NEW a \in DOMAIN approvals', a \notin DOMAIN approvals
      PROVE  /\ a[1] \in DOMAIN thread
             /\ ~Agent(a[1]) => a[2] = 1 /\ AsksOf(a[1]) = {}
             /\ Agent(a[1]) => \A b \in AsksOf(a[1]) : b[2] < a[2]
             /\ \A b \in DOMAIN approvals' : b \in DOMAIN approvals \/ b = a
  <2>1. NewAsk(a)
    BY <1>1 DEF Moves, ApprovalsMove
  <2> DEFINE r == a[1]
  <2>2. r \in DOMAIN thread /\ ThreadOf(r) /\ thread[r].ask \in Nat
    BY <2>1 DEF NewAsk, ThreadInv, TypeOK
  <2>3. \A b \in AsksOf(r) : b[2] \in Nat
    BY ConstantsAssumption DEF TypeOK, AsksOf, ApprovalId
  <2>4. CASE thread[r].pc = "asking" /\ a[2] = 1
    BY <2>1, <2>2, <2>4 DEF NewAsk, ThreadOf, ProposalPc
  <2>5. CASE thread[r].pc = "looping" /\ a[2] = thread[r].ask + 1
    <3>1. Agent(r) /\ \A b \in AsksOf(r) : b[2] <= thread[r].ask
      BY <2>2, <2>5 DEF ThreadOf, LoopPc
    <3>2. \A b \in AsksOf(r) : b[2] < a[2]
      BY <2>2, <2>3, <2>5, <3>1
    <3> QED BY <2>1, <2>2, <3>1, <3>2 DEF NewAsk
  <2> QED BY <2>1, <2>4, <2>5 DEF NewAsk
<1>2. \A a \in DOMAIN approvals' : ~Agent(a[1]) => a[2] = 1
  BY <1>1 DEF AsksInv
<1>3. \A a \in due' : ~Agent(a[1])
  BY DEF Moves, RestMove, AsksInv
<1>4. ASSUME NEW r \in RunId, AsksOf(r)' # {} PROVE HasNewest(r)'
  <2>1. \A b \in DOMAIN approvals : b \in DOMAIN approvals'
    BY DEF Moves, ApprovalsMove
  <2>2. CASE \A a \in DOMAIN approvals' : a[1] = r => a \in DOMAIN approvals
    <3>1. AsksOf(r)' = AsksOf(r)
      BY <2>1, <2>2 DEF AsksOf
    <3>2. HasNewest(r)
      BY <1>4, <3>1 DEF AsksInv
    <3> QED BY <3>1, <3>2 DEF HasNewest
  <2>3. ASSUME NEW a \in DOMAIN approvals', a[1] = r, a \notin DOMAIN approvals
        PROVE  HasNewest(r)'
    <3>1. ASSUME NEW b \in AsksOf(r)' PROVE b[2] <= a[2]
      <4>1. b \in AsksOf(r) \/ b = a
        BY <1>1, <2>3, <3>1 DEF AsksOf
      <4>2. a[2] \in Nat /\ b[2] \in Nat
        BY <3>1, ConstantsAssumption DEF Moves, TypeOK, ApprovalId, AsksOf
      <4>3. b \in AsksOf(r) => b[2] < a[2]
        BY <1>1, <2>3
      <4> QED BY <4>1, <4>2, <4>3
    <3>2. a \in AsksOf(r)'
      BY <2>3 DEF AsksOf
    <3> QED BY <3>1, <3>2 DEF HasNewest
  <2> QED BY <2>2, <2>3
<1>5. \A a \in answers' : approvals'[a].status = "approved"
  <2>1. \A a \in answers' : a \in DOMAIN approvals /\ approvals[a].status = "approved"
    BY DEF Moves, RestMove, AsksInv, TypeOK
  <2> QED BY <2>1 DEF Moves, ApprovalsMove, AskMove
<1>6. (\A a \in DOMAIN approvals : ~Agent(a[1]) => a[2] = 1)'
  BY <1>2 DEF Agent
<1>7. (\A a \in due : ~Agent(a[1]))'
  BY <1>3 DEF Agent
<1>8. (\A r \in RunId : AsksOf(r) # {} => HasNewest(r))'
  BY <1>4 DEF RunId
<1> QED BY <1>5, <1>6, <1>7, <1>8 DEF AsksInv

\* The row of a request is made by that request.
LEMMA RequestRow ==
    ASSUME BaseInv, Moves, NEW q \in Requests,
           First(q) \in DOMAIN runs', First(q) \notin DOMAIN runs
    PROVE  /\ request[q].pc \in {"creating", "feedback"}
           /\ request'[q].pc \in {"attaching", "done"}
<1>1. NewRow(First(q), runs'[First(q)])
  BY DEF Moves, RunsMove
<1>2. \A x \in Proposals \cup Agents : First(q) # First(x)
  BY RunIds
<1>3. \A s \in lost \cup DOMAIN thread : First(q) # Child(s)
  BY RunIds DEF BaseInv, TypeOK
<1> QED BY <1>1, <1>2, <1>3, RunIds DEF NewRow

\* What has been decided stays decided.
LEMMA DecidedStays ==
    ASSUME BaseInv, Moves, NEW r, Decided(r)
    PROVE  Decided(r)'
<1> QED BY DEF Moves, ApprovalsMove, AskMove, Decided, Agent

LEMMA WinningStep ==
    ASSUME BaseInv, Moves, NEW q \in Requests, Won(q)'
    PROVE  /\ request'[q].run = request[q].run
           /\ Won(q) \/ Wins(q)
<1>1. RequestOf(q) /\ RequestGoes(q)
  BY DEF BaseInv, RequestInv, Moves, RequestMove
<1>2. First(q) \in DOMAIN runs' /\ First(q) \notin DOMAIN runs =>
         /\ request[q].pc \in {"creating", "feedback"}
         /\ request'[q].pc \in {"attaching", "done"}
  BY RequestRow
<1>3. CASE request'[q] = request[q]
  BY <1>2, <1>3 DEF Won
<1>4. CASE request[q].pc = "idle" /\ request'[q].pc \in {"reading", "claiming_tool"}
  BY <1>1, <1>2, <1>4 DEF Won, RequestOf
<1>5. CASE request'[q].run = request[q].run /\ Handles(q)
  BY <1>1, <1>2, <1>5 DEF Won, Handles, Wins, RequestOf
<1> QED BY <1>1, <1>3, <1>4, <1>5 DEF RequestGoes

LEMMA RequestInvStep ==
    ASSUME BaseInv, Moves
    PROVE  RequestInv'
<1> SUFFICES ASSUME NEW q \in Requests PROVE RequestOf(q)'
  BY DEF RequestInv
<1>1. RequestOf(q) /\ RequestGoes(q)
  BY DEF BaseInv, RequestInv, Moves, RequestMove
<1>2. First(q) \in RunId
  BY RunIds
<1>3. First(q) \in DOMAIN runs' /\ First(q) \notin DOMAIN runs =>
         /\ request[q].pc \in {"creating", "feedback"}
         /\ request'[q].pc \in {"attaching", "done"}
  BY RequestRow
<1>4. (request[q].pc \in {"expiring", "rereading", "claiming"} => ~Agent(request[q].run))'
  BY <1>1 DEF RequestOf, RequestGoes, Handles, Wins, Agent
<1>5. (First(q) \in DOMAIN runs => request[q].pc \in {"attaching", "queueing", "done"})'
  BY <1>1, <1>3 DEF RequestOf, RequestGoes, Handles, Wins, First
<1>6. ASSUME request'[q].pc \in {"attaching", "queueing"}
      PROVE  /\ First(q) \in DOMAIN runs'
             /\ runs'[First(q)].status # "queued"
             /\ Unbegun(First(q))'
  <2>1. CASE request[q].pc \in {"attaching", "queueing"}
    <3>1. First(q) \in DOMAIN runs /\ runs[First(q)].status # "queued" /\ Unbegun(First(q))
      BY <1>1, <2>1 DEF RequestOf
    <3>2. First(q) \in DOMAIN runs' /\ runs'[First(q)].status # "queued"
      <4>1. RowMove(First(q)) /\ First(q) \in DOMAIN runs'
        BY <3>1 DEF Moves, RunsMove
      <4>2. \A p \in Requests : First(q) = First(p) => request'[p].pc # "done"
        BY <1>6, RunIds
      <4> QED BY <3>1, <4>1, <4>2 DEF RowMove
    <3> QED BY <1>2, <3>1, <3>2, UnbegunStays
  <2>2. CASE request[q].pc \notin {"attaching", "queueing"}
    <3>1. /\ request[q].pc = "creating"
          /\ First(q) \in DOMAIN runs' /\ runs'[First(q)].status = "running"
      BY <1>1, <1>6, <2>2 DEF RequestGoes, Handles, Wins
    <3>2. First(q) \notin DOMAIN runs
      BY <1>1, <3>1 DEF RequestOf
    <3>3. Unbegun(First(q))
      BY <1>2, <3>2 DEF BaseInv, TypeOK, FiredInv, Unbegun, AsksOf
    <3> QED BY <1>2, <3>1, <3>2, <3>3, UnbegunStays
  <2> QED BY <2>1, <2>2
<1>7. ASSUME Won(q)' PROVE Decided(request[q].run)'
  <2>1. request'[q].run = request[q].run /\ (Won(q) \/ Wins(q))
    BY <1>7, WinningStep
  <2>2. CASE Won(q)
    <3>1. Decided(request[q].run)
      BY <1>1, <2>2 DEF RequestOf
    <3> QED BY <2>1, <3>1, DecidedStays DEF Decided, Agent
  <2>3. CASE Wins(q)
    BY <2>1, <2>3 DEF Wins, Decided, Agent, Moves, ApprovalsMove
  <2> QED BY <2>1, <2>2, <2>3
<1> QED BY <1>4, <1>5, <1>6, <1>7 DEF RequestOf, First

LEMMA WinnerStep ==
    ASSUME BaseInv, Moves
    PROVE  WinnerInv'
<1> SUFFICES ASSUME NEW p \in Requests, NEW q \in Requests, p # q, Won(p)', Won(q)'
             PROVE  request'[p].run # request'[q].run
  BY DEF WinnerInv
<1>1. /\ request'[p].run = request[p].run /\ (Won(p) \/ Wins(p))
      /\ request'[q].run = request[q].run /\ (Won(q) \/ Wins(q))
  BY WinningStep
<1>2. CASE Won(p) /\ Won(q)
  BY <1>1, <1>2 DEF BaseInv, WinnerInv
<1>3. ASSUME NEW s \in Requests, NEW t \in Requests, Wins(s), Won(t)
      PROVE  request[s].run # request[t].run
  BY <1>3 DEF Wins, BaseInv, RequestInv, RequestOf, Decided
<1>4. ~(Wins(p) /\ Wins(q))
  BY DEF Wins
<1> QED BY <1>1, <1>2, <1>3, <1>4

LEMMA FiredStep ==
    ASSUME BaseInv, Moves
    PROVE  FiredInv'
<1>1. ASSUME NEW r \in RunId, fired'[r] > 0 PROVE r \in DOMAIN runs'
  <2>1. fired'[r] = fired[r] \/ r \in DOMAIN thread
    BY DEF Moves, ThreadMove, Fires
  <2>2. r \in DOMAIN runs
    BY <1>1, <2>1 DEF BaseInv, FiredInv, TypeOK
  <2> QED BY <2>2 DEF Moves, RunsMove
<1> QED BY <1>1 DEF FiredInv, RunId

\* What a thread is to be retried for is remembered.
LEMMA BrokenStep ==
    ASSUME BaseInv, Moves
    PROVE  BrokenInv'
<1>1. ASSUME NEW r \in DOMAIN thread', thread'[r].pc \in ErrPc PROVE r \in broken'
  <2>1. r \in DOMAIN thread /\ ThreadGoes(r)
    BY <1>1 DEF Moves, ThreadMove, Claimed, ErrPc
  <2>2. broken \subseteq broken'
    BY DEF Moves, RestMove
  <2> QED BY <1>1, <2>1, <2>2 DEF ThreadGoes, BaseInv, BrokenInv
<1> QED BY <1>1 DEF BrokenInv

\* A retry stays within the budget, and a restart is never restarted.
LEMMA BudgetStep ==
    ASSUME BaseInv, Moves
    PROVE  BudgetInv'
<1>1. ASSUME NEW r \in DOMAIN runs' PROVE r[2] < MaxAttempts \/ runs'[r].restart
  <2>1. r \in RunId /\ MaxAttempts \in Nat \ {0}
    BY ConstantsAssumption DEF Moves, TypeOK
  <2>2. CASE r \in DOMAIN runs
    BY <2>2 DEF BaseInv, BudgetInv, Moves, RunsMove, RowMove
  <2>3. CASE NewRow(r, runs'[r])
    <3>1. ASSUME NEW x \in Proposals \cup Agents \cup Requests, r = First(x)
          PROVE  r[2] < MaxAttempts
      BY <2>1, <3>1, RunIds
    <3>2. ASSUME NEW s \in lost, runs'[r] = RestartRow(s)
          PROVE  runs'[r].restart
      <4>1. s \in RunId
        BY DEF BaseInv, TypeOK
      <4> QED BY <3>2, <4>1, RestartIsRun
    <3>3. ASSUME NEW s \in DOMAIN thread, s[2] < MaxAttempts - 1, r = Child(s)
          PROVE  r[2] < MaxAttempts
      <4>1. s \in RunId
        BY DEF BaseInv, TypeOK
      <4>2. r[2] = s[2] + 1 /\ s[2] \in Nat
        BY <3>3, <4>1, RunIds
      <4> QED BY <2>1, <3>3, <4>2
    <3> QED BY <2>3, <3>1, <3>2, <3>3 DEF NewRow
  <2> QED BY <2>2, <2>3 DEF Moves, RunsMove
<1> QED BY <1>1 DEF BudgetInv

LEMMA BaseInit == Init => BaseInv
<1> SUFFICES ASSUME Init PROVE BaseInv
  OBVIOUS
<1>1. /\ DOMAIN runs = {} /\ runs \in [{} -> Run]
      /\ DOMAIN approvals = {} /\ approvals \in [{} -> Approval]
      /\ DOMAIN thread = {} /\ DOMAIN cancel = {}
      /\ fired = [r \in RunId |-> 0]
      /\ request = [q \in Requests |-> NoRequest]
  BY DEF Init
<1>2. NoRequest \in [pc : RequestPc, decision : Decision, run : RunId \cup {NoRun}, ask : 1 .. MaxAsks]
  BY ConstantsAssumption DEF NoRequest, RequestPc, Decision
<1>3. TypeOK
  BY <1>1, <1>2, ConstantsAssumption DEF Init, TypeOK, NoRequest
<1>4. QueuedInv /\ ThreadInv /\ FiredInv /\ BrokenInv /\ BudgetInv
  BY <1>1 DEF QueuedInv, ThreadInv, FiredInv, BrokenInv, BudgetInv
<1>5. AsksInv
  BY <1>1 DEF Init, AsksInv, AsksOf
<1>6. ASSUME NEW q \in Requests PROVE RequestOf(q) /\ ~Won(q)
  BY <1>1 DEF RequestOf, Won, NoRequest
<1> QED BY <1>3, <1>4, <1>5, <1>6 DEF BaseInv, RequestInv, WinnerInv

LEMMA BaseStep == BaseInv /\ [Next]_vars => BaseInv'
<1> SUFFICES ASSUME BaseInv, [Next]_vars PROVE BaseInv'
  OBVIOUS
<1>1. CASE Next
  <2>1. Moves
    BY <1>1, StepMoves
  <2>2. TypeOK'
    BY <2>1 DEF Moves
  <2>3. QueuedInv' /\ ThreadInv' /\ AsksInv'
    BY <1>1, <2>1, QueuedStep, ThreadInvStep, AsksStep
  <2>4. RequestInv' /\ WinnerInv' /\ FiredInv'
    BY <2>1, RequestInvStep, WinnerStep, FiredStep
  <2>5. BrokenInv' /\ BudgetInv'
    BY <2>1, BrokenStep, BudgetStep
  <2> QED BY <2>2, <2>3, <2>4, <2>5 DEF BaseInv
<1>2. CASE UNCHANGED vars
  <2>1. /\ runs' = runs /\ approvals' = approvals /\ due' = due /\ thread' = thread
        /\ executor' = executor /\ lost' = lost /\ orphaned' = orphaned /\ request' = request
        /\ cancel' = cancel /\ fired' = fired /\ answers' = answers /\ killed' = killed
        /\ broken' = broken /\ stranded' = stranded /\ faults' = faults /\ cancels' = cancels
    BY <1>2 DEF vars, tables, boot, history, bounds
  <2>2. TypeOK'
    BY <2>1 DEF BaseInv, TypeOK, Asked
  <2>3. ASSUME NEW r PROVE AsksOf(r)' = AsksOf(r)
    BY <2>1 DEF AsksOf
  <2>4. QueuedInv' /\ ThreadInv' /\ FiredInv'
    BY <2>1, <2>3 DEF BaseInv, QueuedInv, Unbegun, ThreadInv, ThreadOf, Agent, FiredInv
  <2>5. AsksInv'
    BY <2>1, <2>3 DEF BaseInv, AsksInv, HasNewest, Agent
  <2>6. RequestInv' /\ WinnerInv'
    BY <2>1, <2>3
       DEF BaseInv, RequestInv, RequestOf, Unbegun, Won, Decided, Agent, First, WinnerInv
  <2>7. BrokenInv' /\ BudgetInv'
    BY <2>1 DEF BaseInv, BrokenInv, BudgetInv
  <2> QED BY <2>2, <2>4, <2>5, <2>6, <2>7 DEF BaseInv
<1> QED BY <1>1, <1>2

\* The tables, threads and requests have their types (run_service.py, approvals.py).
THEOREM TypeCorrect == Spec => []TypeOK
<1>1. BaseInv => TypeOK
  BY DEF BaseInv
<1> QED BY <1>1, BaseInit, BaseStep, PTL DEF Spec

\* Two processes or one, whoever decides an approval first has decided it: an approve,
\* a reject, an expiry, a withdrawal and the boot never overwrite each other
\* (the conditional UPDATEs of repository.approvals).
THEOREM FirstDecisionStands == Spec => DecisionIsFinal
<1>1. BaseInv /\ [Next]_vars
         => [\A a \in DOMAIN approvals :
                approvals[a].status # "pending" => approvals'[a].status = approvals[a].status]_vars
  <2>1. ASSUME BaseInv, Next
        PROVE  \A a \in DOMAIN approvals :
                  approvals[a].status # "pending" => approvals'[a].status = approvals[a].status
    <3>1. Moves
      BY <2>1, StepMoves
    <3> QED BY <3>1 DEF Moves, ApprovalsMove, AskMove
  <2> QED BY <2>1
<1> QED BY <1>1, BaseInit, BaseStep, PTL DEF Spec, DecisionIsFinal

\* Two processes or one, a parked run gets at most one new run, however many reviewers
\* answer it (approve_run and reject_run claim before they create).
THEOREM OneNewRunOnly == Spec => []OneNewRun
<1>1. BaseInv => OneNewRun
  BY DEF BaseInv, WinnerInv, Won, OneNewRun
<1> QED BY <1>1, BaseInit, BaseStep, PTL DEF Spec

-----------------------------------------------------------------------------
(* One process: chains of retries *)

LEMMA ExecutorStep ==
    ASSUME ~SplitRoles, ProcessInv, Moves
    PROVE  ExecutorInv'
<1>1. ExecutorInv
  BY DEF ProcessInv
<1>2. ASSUME executor' # "up"
      PROVE  DOMAIN thread' = {} /\ \A q \in Requests : request'[q].pc \in {"idle", "done"}
  <2>1. CASE executor # "up"
    <3>1. ~Serving
      BY <2>1 DEF Serving
    <3>2. DOMAIN thread' = {}
      BY <1>1, <2>1 DEF ExecutorInv, Moves, ThreadMove, Claimed
    <3> QED BY <1>1, <2>1, <3>1, <3>2 DEF ExecutorInv, Moves, RequestMove
  <2>2. CASE executor = "up"
    BY <1>2, <2>2 DEF Moves, RestMove
  <2> QED BY <2>1, <2>2
<1>3. ASSUME NEW r \in lost' PROVE executor' = "recovering"
  <2>1. CASE r \in lost /\ executor' \in {executor, "up"}
    BY <1>1, <2>1 DEF ExecutorInv, Moves, RestMove
  <2> QED BY <2>1 DEF Moves, RestMove
<1> QED BY <1>2, <1>3 DEF ExecutorInv

\* While a request is at work, nothing is restarted.
LEMMA NothingLost ==
    ASSUME ProcessInv, Moves, NEW q \in Requests, request[q].pc \notin {"idle", "done"}
    PROVE  lost = {}
<1> QED BY DEF ProcessInv, ExecutorInv

\* A new attempt after the first restarts a lost run, or a thread retries its own.
LEMMA ChildRow ==
    ASSUME BaseInv, Moves, NEW s \in RunId, Child(s) \in DOMAIN runs', Child(s) \notin DOMAIN runs
    PROVE  /\ s \in lost \/ (s \in DOMAIN thread /\ thread[s].pc \in {"retrying", "raised"})
           /\ runs'[Child(s)].parent = s
<1>1. NewRow(Child(s), runs'[Child(s)])
  BY DEF Moves, RunsMove
<1>2. \A y : Child(s) # First(y)
  BY RunIds
<1>3. ASSUME NEW t \in lost, Child(s) = Child(t), runs'[Child(s)] = RestartRow(t)
      PROVE  s \in lost /\ runs'[Child(s)].parent = s
  <2>1. t \in RunId
    BY DEF BaseInv, TypeOK
  <2>2. t = s
    BY <1>3, <2>1, RunIds
  <2> QED BY <1>3, <2>1, <2>2, RestartIsRun
<1>4. ASSUME NEW t \in DOMAIN thread, thread[t].pc \in {"retrying", "raised"},
             Child(s) = Child(t), runs'[Child(s)] = NewRun("queued", t)
      PROVE  /\ s \in DOMAIN thread /\ thread[s].pc \in {"retrying", "raised"}
             /\ runs'[Child(s)].parent = s
  <2>1. t \in RunId
    BY DEF BaseInv, TypeOK
  <2>2. t = s
    BY <1>4, <2>1, RunIds
  <2> QED BY <1>4, <2>2 DEF NewRun
<1> QED BY <1>1, <1>2, <1>3, <1>4 DEF NewRow

LEMMA RequestsEnd ==
    ASSUME Moves, NEW q \in Requests, request[q].pc \in {"queueing", "done"}
    PROVE  /\ request'[q].pc \in {"queueing", "done"}
           /\ request[q].pc = "done" => request'[q].pc = "done"
           /\ request'[q].run = request[q].run
<1>1. RequestGoes(q)
  BY DEF Moves, RequestMove
<1> QED BY <1>1 DEF RequestGoes, Handles, Wins

LEMMA ParentStep ==
    ASSUME ProcessInv, Moves
    PROVE  ParentInv'
<1> TypeOK /\ ParentInv
  BY DEF ProcessInv, BaseInv
<1> SUFFICES ASSUME NEW r \in DOMAIN runs' PROVE ParentOf(r)'
  BY DEF ParentInv
<1>1. r \in RunId /\ DOMAIN runs \subseteq DOMAIN runs'
  BY DEF Moves, TypeOK, RunsMove
<1>2. CASE r \in DOMAIN runs
  <2>1. ParentOf(r) /\ runs'[r].parent = runs[r].parent
    BY <1>2 DEF ParentInv, Moves, RunsMove, RowMove
  <2>2. \A q \in Requests : request[q].pc = "done" =>
           request'[q].pc = "done" /\ request'[q].run = request[q].run
    BY RequestsEnd
  <2> QED BY <1>1, <2>1, <2>2 DEF ParentOf, First
<1>3. CASE r \notin DOMAIN runs
  <2>1. NewRow(r, runs'[r])
    BY <1>3 DEF Moves, RunsMove
  <2>2. CASE (\E x \in Proposals \cup Agents : r = First(x)) /\ runs'[r].parent = NoRun
    BY <2>2, RunIds DEF ParentOf
  <2>3. ASSUME NEW q \in Requests, r = First(q), runs'[r] = NewRun("running", NoRun)
        PROVE  ParentOf(r)'
    BY <2>3, RunIds DEF ParentOf, NewRun
  <2>4. ASSUME NEW q \in Requests, r = First(q), request'[q].pc = "done",
               request'[q].run = request[q].run, runs'[r] = NewRun("queued", request[q].run)
        PROVE  ParentOf(r)'
    BY <2>4, RunIds DEF ParentOf, NewRun, First
  <2>5. ASSUME NEW s \in lost \cup DOMAIN thread, r = Child(s), runs'[r].parent = s
        PROVE  ParentOf(r)'
    <3>1. s \in RunId /\ s \in DOMAIN runs'
      BY <1>1 DEF TypeOK
    <3>2. s = <<r[1], r[2] - 1>> /\ r[2] = s[2] + 1 /\ s[2] \in Nat
      BY <2>5, <3>1, RunIds
    <3> QED BY <2>5, <3>1, <3>2 DEF ParentOf
  <2>6. ASSUME NEW s \in lost, r = Child(s), runs'[r] = RestartRow(s)
        PROVE  runs'[r].parent = s
    BY <2>6, RestartIsRun DEF TypeOK
  <2>7. ASSUME NEW s \in DOMAIN thread, r = Child(s), runs'[r] = NewRun("queued", s)
        PROVE  runs'[r].parent = s
    BY <2>7 DEF NewRun
  <2> QED BY <2>1, <2>2, <2>3, <2>4, <2>5, <2>6, <2>7 DEF NewRow
<1> QED BY <1>2, <1>3

\* An attempt is made after the attempts before it.
LEMMA LineStep ==
    ASSUME ProcessInv, Moves
    PROVE  LineInv'
<1> TypeOK /\ LineInv
  BY DEF ProcessInv, BaseInv
<1> SUFFICES ASSUME NEW r \in DOMAIN runs', NEW n \in 0 .. r[2]
             PROVE  <<r[1], n>> \in DOMAIN runs'
  BY Zenon DEF LineInv
<1>1. r \in RunId /\ DOMAIN runs \subseteq DOMAIN runs' /\ n \in Nat /\ r[2] \in Nat
  BY RunIds DEF Moves, TypeOK, RunsMove
<1>2. CASE r \in DOMAIN runs
  BY <1>1, <1>2 DEF LineInv
<1>3. CASE NewRow(r, runs'[r])
  <2>1. CASE n = r[2]
    BY <1>1, <2>1, RunIds
  <2>2. ASSUME NEW x \in Proposals \cup Agents \cup Requests, r = First(x)
        PROVE  n = r[2]
    BY <1>1, <2>2, RunIds
  <2>3. ASSUME NEW s \in lost \cup DOMAIN thread, r = Child(s), n # r[2]
        PROVE  <<r[1], n>> \in DOMAIN runs'
    <3>1. s \in RunId /\ s \in DOMAIN runs
      BY DEF TypeOK
    <3>2. r[1] = s[1] /\ r[2] = s[2] + 1 /\ s[2] \in Nat
      BY <2>3, <3>1, RunIds
    <3>3. n \in 0 .. s[2]
      BY <1>1, <2>3, <3>2
    <3> QED BY <1>1, <3>1, <3>2, <3>3 DEF LineInv
  <2> QED BY <1>3, <2>1, <2>2, <2>3 DEF NewRow
<1> QED BY <1>2, <1>3 DEF Moves, RunsMove

\* Parents are rows that were there before.
LEMMA ParentsAreRows ==
    ASSUME ProcessInv, Moves, NEW r \in DOMAIN runs', runs'[r].parent # NoRun
    PROVE  runs'[r].parent \in DOMAIN runs
<1> TypeOK /\ ParentInv
  BY DEF ProcessInv, BaseInv
<1>1. CASE r \in DOMAIN runs
  <2>1. ParentOf(r) /\ runs'[r].parent = runs[r].parent
    BY <1>1 DEF ParentInv, Moves, RunsMove, RowMove
  <2>2. r[2] > 0 \/ r[2] = 0
    BY <1>1, RunIds DEF TypeOK
  <2> QED BY <2>1, <2>2 DEF ParentOf, TypeOK
<1>2. CASE r \notin DOMAIN runs
  <2>1. NewRow(r, runs'[r])
    BY <1>2 DEF Moves, RunsMove
  <2>2. \A s \in lost : RestartRow(s).parent = s
    BY RestartIsRun DEF TypeOK
  <2> QED BY <2>1, <2>2 DEF NewRow, NewRun, TypeOK
<1> QED BY <1>1, <1>2

\* A chain of a run that was there was there.
LEMMA ChainsKept ==
    ASSUME ProcessInv, Moves, NEW r \in DOMAIN runs, NEW c \in Chains(r)'
    PROVE  c \in Chains(r)
<1>1. PICK n \in 1 .. RetryChainMax :
         /\ c \in [1 .. n -> DOMAIN runs']
         /\ c[1] = r
         /\ \A i \in 1 .. n : i # 1 => c[i] = runs'[c[i - 1]].parent
  <2>1. PICK n \in 1 .. RetryChainMax : c \in [1 .. n -> DOMAIN runs']
    BY DEF Chains
  <2>2. DOMAIN c = 1 .. n
    BY <2>1
  <2> QED BY <2>1, <2>2 DEF Chains
<1>2. NoRun \notin DOMAIN runs'
  BY NoRunAssumption DEF Moves, TypeOK
<1>3. n \in Nat /\ n >= 1
  BY <1>1, ConstantsAssumption
<1>4. ASSUME NEW i \in 1 .. n, i # 1
      PROVE  i - 1 \in 1 .. n /\ c[i] \in DOMAIN runs
  <2>1. i - 1 \in 1 .. n
    BY <1>3, <1>4
  <2>2. c[i] = runs'[c[i - 1]].parent /\ c[i - 1] \in DOMAIN runs' /\ c[i] # NoRun
    BY <1>1, <1>2, <1>4, <2>1
  <2> QED BY <2>1, <2>2, ParentsAreRows
<1>5. c \in [1 .. n -> DOMAIN runs]
  BY <1>1, <1>4
<1>6. ASSUME NEW i \in 1 .. n, i # 1 PROVE c[i] = runs[c[i - 1]].parent
  <2>1. c[i - 1] \in DOMAIN runs
    BY <1>4, <1>5, <1>6
  <2>2. runs'[c[i - 1]].parent = runs[c[i - 1]].parent
    BY <2>1 DEF Moves, RunsMove, RowMove
  <2> QED BY <1>1, <1>6, <2>2
<1> QED BY <1>1, <1>5, <1>6 DEF Chains

\* A run whose chain was approved, and not by itself, continues an approved one.
ChainsContinue ==
    \A r \in DOMAIN runs :
        IsApprovedExecution(r) /\ ~Authorised(r) =>
            runs[r].parent \in DOMAIN runs /\ IsApprovedExecution(runs[r].parent)

LEMMA ChainTail == TypeOK => ChainsContinue
<1> SUFFICES ASSUME TypeOK, NEW r \in DOMAIN runs, IsApprovedExecution(r), ~Authorised(r)
             PROVE  runs[r].parent \in DOMAIN runs /\ IsApprovedExecution(runs[r].parent)
  BY DEF ChainsContinue
<1>1. PICK c \in Chains(r) : \E i \in DOMAIN c : Authorised(c[i])
  BY DEF IsApprovedExecution
<1>2. PICK n \in 1 .. RetryChainMax : c \in [1 .. n -> DOMAIN runs]
  BY DEF Chains
<1>3. c[1] = r /\ \A i \in 1 .. n : i # 1 => c[i] = runs[c[i - 1]].parent
  BY <1>2 DEF Chains
<1>4. PICK k \in 1 .. n : Authorised(c[k])
  BY <1>1, <1>2
<1>5. k # 1 /\ n \in Nat /\ RetryChainMax \in Nat /\ n <= RetryChainMax
  BY <1>3, <1>4, ConstantsAssumption
<1> DEFINE t == [j \in 1 .. n - 1 |-> c[j + 1]]
<1>6. n - 1 \in 1 .. RetryChainMax /\ 1 \in 1 .. n - 1 /\ k - 1 \in 1 .. n - 1 /\ 2 \in 1 .. n
  BY <1>5
<1>7. \A j \in 1 .. n - 1 : j + 1 \in 1 .. n /\ j + 1 # 1
  BY <1>5
<1>8. t \in [1 .. n - 1 -> DOMAIN runs]
  BY <1>2, <1>7
<1>9. t[1] = runs[r].parent /\ t[1] \in DOMAIN runs
  BY <1>3, <1>6, <1>8
<1>10. ASSUME NEW j \in 1 .. n - 1, j # 1 PROVE t[j] = runs[t[j - 1]].parent
  <2>1. j - 1 \in 1 .. n - 1 /\ t[j - 1] = c[j] /\ t[j] = c[j + 1]
    BY <1>5, <1>10
  <2>2. c[j + 1] = runs[c[(j + 1) - 1]].parent
    BY <1>3, <1>7
  <2>3. (j + 1) - 1 = j
    OBVIOUS
  <2> QED BY <2>1, <2>2, <2>3
<1>11. Authorised(t[k - 1])
  BY <1>4, <1>5, <1>6
<1>12. DOMAIN t = 1 .. n - 1
  OBVIOUS
<1> HIDE DEF t
<1>13. t \in Chains(runs[r].parent)
  BY <1>6, <1>8, <1>9, <1>10, <1>12 DEF Chains
<1> QED BY <1>6, <1>9, <1>11, <1>12, <1>13 DEF IsApprovedExecution

LEMMA ChainTailNext == TypeOK' => ChainsContinue'
<1> QED BY ChainTail, PTL

-----------------------------------------------------------------------------
(* One process: approvals, threads and restarts *)

LEMMA ApprovingStep ==
    ASSUME ~SplitRoles, ProcessInv, Moves
    PROVE  ApprovingInv'
<1> TypeOK /\ RequestInv /\ WinnerInv /\ ApprovingInv /\ ParentInv
  BY DEF ProcessInv, BaseInv
<1> SUFFICES ASSUME NEW q \in Requests PROVE ApprovingOf(q)'
  BY DEF ApprovingInv
<1> DEFINE a == <<request[q].run, 1>>
<1>1. RequestOf(q) /\ RequestGoes(q) /\ ApprovingOf(q)
  BY DEF RequestInv, ApprovingInv, Moves, RequestMove
<1>2. request'[q].pc \in {"settling", "creating", "attaching", "queueing"} =>
         request'[q].run = request[q].run /\ request'[q].decision = request[q].decision
  BY <1>1 DEF RequestGoes
<1>3. request'[q].pc \in {"creating", "attaching", "queueing"} => request'[q].decision = "approve"
  BY <1>1 DEF RequestGoes, Handles, Wins, ApprovingOf
<1>4. ASSUME request'[q].pc \in {"settling", "creating", "attaching", "queueing"},
             request'[q].decision = "approve"
      PROVE  approvals'[a].status = "approved"
  <2>1. CASE Wins(q)
    BY <1>2, <1>4, <2>1 DEF Wins
  <2>2. CASE ~Wins(q)
    <3>1. request[q].pc \in {"settling", "creating", "attaching", "queueing"}
      BY <1>1, <1>4, <2>2 DEF RequestGoes, Handles
    <3>2. approvals[a].status = "approved" /\ a \in DOMAIN approvals
      BY <1>1, <1>2, <1>4, <3>1 DEF ApprovingOf, RequestOf, Won, Decided
    <3> QED BY <3>2 DEF Moves, ApprovalsMove, AskMove
  <2> QED BY <2>1, <2>2
<1>5. ASSUME request'[q].pc = "queueing" PROVE approvals'[a].followUp = First(q)
  <2>1. CASE request[q].pc = "queueing"
    <3>1. approvals[a].followUp = First(q) /\ a \in DOMAIN approvals
      BY <1>1, <2>1 DEF ApprovingOf, RequestOf, Won, Decided
    <3>2. ASSUME NEW p \in Requests PROVE ~Attached(p, a)
      <4>1. request[p].pc = "attaching" => request[p].run # request[q].run
        BY <2>1 DEF WinnerInv, Won
      <4> QED BY <4>1 DEF Attached
    <3> QED BY <3>1, <3>2 DEF Moves, ApprovalsMove, AskMove
  <2>2. CASE request[q].pc # "queueing"
    <3>1. /\ request[q].pc = "attaching"
          /\ \A b \in DOMAIN approvals :
                b[1] = request[q].run /\ approvals[b].status = "approved"
                   => approvals'[b].followUp = First(q)
      BY <1>1, <1>5, <2>2 DEF RequestGoes, Handles, Wins
    <3>2. approvals[a].status = "approved" /\ a \in DOMAIN approvals
      BY <1>1, <3>1 DEF ApprovingOf, RequestOf, Won, Decided
    <3> QED BY <3>1, <3>2
  <2> QED BY <2>1, <2>2
<1>6. ASSUME request'[q].pc \in {"attaching", "queueing"}
      PROVE  Child(First(q)) \notin DOMAIN runs'
  <2>1. request[q].pc \in {"creating", "attaching", "queueing"}
    BY <1>1, <1>6 DEF RequestGoes, Handles, Wins
  <2>2. Child(First(q)) \notin DOMAIN runs
    <3>1. CASE request[q].pc = "creating"
      <4>1. First(q) \notin DOMAIN runs
        BY <1>1, <3>1 DEF RequestOf
      <4>2. First(q) \in RunId
        BY RunIds
      <4>3. Child(First(q))[2] > 0 /\ <<Child(First(q))[1], Child(First(q))[2] - 1>> = First(q)
        BY <4>2, RunIds
      <4> QED BY <4>1, <4>3 DEF ParentInv, ParentOf
    <3>2. CASE request[q].pc # "creating"
      BY <1>1, <2>1, <3>2 DEF ApprovingOf
    <3> QED BY <3>1, <3>2
  <2>3. lost = {}
    BY <2>1, NothingLost
  <2>4. First(q) \notin DOMAIN thread
    <3>1. CASE request[q].pc = "creating"
      BY <1>1, <3>1 DEF RequestOf, TypeOK
    <3>2. CASE request[q].pc # "creating"
      BY <1>1, <2>1, <3>2 DEF RequestOf, Unbegun
    <3> QED BY <3>1, <3>2
  <2>5. First(q) \in RunId
    BY RunIds
  <2> QED BY <2>2, <2>3, <2>4, <2>5, ChildRow DEF ProcessInv
<1> QED BY <1>2, <1>3, <1>4, <1>5, <1>6 DEF ApprovingOf, First, Child

LEMMA FollowUpStep ==
    ASSUME ProcessInv, Moves
    PROVE  FollowUpInv'
<1> TypeOK /\ RequestInv /\ FollowUpInv
  BY DEF ProcessInv, BaseInv
<1> SUFFICES ASSUME NEW a \in DOMAIN approvals' PROVE FollowUpOf(a)'
  BY DEF FollowUpInv
<1>1. CASE a \notin DOMAIN approvals
  <2>1. approvals'[a] = NewApproval
    BY <1>1 DEF Moves, ApprovalsMove, NewAsk
  <2> QED BY <2>1 DEF FollowUpOf, NewApproval
<1>2. CASE a \in DOMAIN approvals
  <2>1. AskMove(a) /\ FollowUpOf(a) /\ DOMAIN runs \subseteq DOMAIN runs'
    BY <1>2 DEF Moves, ApprovalsMove, FollowUpInv, RunsMove
  <2>2. CASE approvals'[a].followUp = approvals[a].followUp /\ approvals[a].followUp # NoRun
    <3>1. approvals'[a].status = "approved"
      BY <2>1, <2>2 DEF AskMove, FollowUpOf
    <3>2. PICK q \in Requests : /\ approvals[a].followUp = First(q) /\ a[1] = request[q].run
                                /\ request[q].pc \in {"queueing", "done"}
                                /\ First(q) \in DOMAIN runs
      BY <2>1, <2>2 DEF FollowUpOf
    <3>3. request'[q].pc \in {"queueing", "done"} /\ request'[q].run = request[q].run
      BY <3>2, RequestsEnd
    <3> QED BY <2>1, <2>2, <3>1, <3>2, <3>3 DEF FollowUpOf, First
  <2>3. ASSUME NEW q \in Requests, Attached(q, a) PROVE FollowUpOf(a)'
    <3>1. /\ approvals'[a].status = "approved" /\ approvals'[a].followUp = First(q)
          /\ a[1] = request[q].run /\ request'[q].pc = "queueing"
      BY <2>1, <2>3 DEF Attached, AskMove
    <3>2. First(q) \in DOMAIN runs'
      BY <2>1, <2>3 DEF Attached, RequestInv, RequestOf
    <3>3. request'[q].run = request[q].run
      BY <3>1 DEF Moves, RequestMove, RequestGoes
    <3> QED BY <3>1, <3>2, <3>3 DEF FollowUpOf, First
  <2> QED BY <2>1, <2>2, <2>3 DEF AskMove, FollowUpOf
<1> QED BY <1>1, <1>2

LEMMA RunningStep ==
    ASSUME ProcessInv, Moves
    PROVE  RunningInv'
<1> TypeOK /\ FiredInv /\ RunningInv
  BY DEF ProcessInv, BaseInv
<1> SUFFICES ASSUME NEW r \in DOMAIN runs', runs'[r].status = "running", fired'[r] > 0
             PROVE  r \in DOMAIN thread' \/ r \in killed' \cup broken'
  BY DEF RunningInv
<1>1. r \in RunId
  BY DEF Moves, TypeOK
<1>2. fired[r] > 0 \/ r \in DOMAIN thread
  BY <1>1 DEF Moves, ThreadMove, Fires
<1>3. r \in DOMAIN runs
  BY <1>1, <1>2 DEF FiredInv, TypeOK
<1>4. CASE r \in DOMAIN thread
  BY <1>4 DEF Moves, ThreadMove
<1>5. CASE r \notin DOMAIN thread /\ r \notin DOMAIN thread'
  <2>1. runs[r].status = "running"
    BY <1>3, <1>5 DEF Moves, RunsMove, RowMove
  <2> QED BY <1>2, <1>3, <1>5, <2>1 DEF RunningInv, Moves, RestMove
<1> QED BY <1>4, <1>5

\* A run that will not act stays so.
LEMMA DeadStays ==
    ASSUME ProcessInv, Moves, NEW r \in DOMAIN runs, Dead(r)
    PROVE  Dead(r)'
<1> TypeOK /\ RequestInv
  BY DEF ProcessInv, BaseInv
<1>1. r \in RunId
  BY DEF TypeOK
<1>2. fired'[r] = 0
  BY <1>1 DEF Dead, Moves, ThreadMove, Fires
<1>3. r \notin DOMAIN thread'
  BY DEF Dead, Moves, ThreadMove, Claimed
<1>4. runs'[r].status # "queued"
  BY DEF Dead, Moves, RunsMove, RowMove
<1>5. ASSUME NEW q \in Requests, r = First(q) PROVE request'[q].pc \notin {"attaching", "queueing"}
  <2>1. request[q].pc \notin {"creating", "attaching", "queueing"}
    BY <1>5 DEF Dead, RequestInv, RequestOf
  <2>2. RequestGoes(q)
    BY DEF Moves, RequestMove
  <2> QED BY <2>1, <2>2 DEF RequestGoes, Handles, Wins
<1> QED BY <1>2, <1>3, <1>4, <1>5 DEF Dead, First

LEMMA RestartStep ==
    ASSUME ~SplitRoles, ProcessInv, Moves
    PROVE  RestartInv'
<1> TypeOK /\ RunningInv /\ RestartInv /\ ParentInv /\ ExecutorInv
  BY DEF ProcessInv, BaseInv
<1> SUFFICES ASSUME NEW r \in RunId, r \in lost' \/ Child(r) \in DOMAIN runs'
             PROVE  r \in killed' \cup broken' \/ Dead(r)'
  BY DEF RestartInv, Child, RunId
<1> killed \subseteq killed' /\ broken \subseteq broken'
  BY DEF Moves, RestMove
<1>1. CASE r \in lost \/ Child(r) \in DOMAIN runs
  <2>1. r \in killed \cup broken \/ Dead(r)
    BY <1>1 DEF RestartInv
  <2>2. r \in DOMAIN runs
    <3>1. Child(r)[2] > 0 /\ <<Child(r)[1], Child(r)[2] - 1>> = r
      BY RunIds
    <3> QED BY <1>1, <3>1 DEF TypeOK, ParentInv, ParentOf
  <2> QED BY <2>1, <2>2, DeadStays
<1>2. CASE r \notin lost /\ Child(r) \notin DOMAIN runs /\ r \notin lost'
  <2>1. r \in DOMAIN thread /\ thread[r].pc \in {"retrying", "raised"}
    BY <1>2, ChildRow DEF ProcessInv
  <2> QED BY <2>1 DEF ProcessInv, BaseInv, BrokenInv, ErrPc
<1>3. CASE r \notin lost /\ r \in lost'
  <2>2. Interrupted(r)
    BY <1>3 DEF Moves, RestMove
  <2>3. DOMAIN thread = {} /\ r \in DOMAIN runs /\ r \in RunId
    BY <2>2 DEF Interrupted, ExecutorInv, TypeOK
  <2>4. CASE fired[r] > 0
    BY <2>2, <2>3, <2>4 DEF Interrupted, RunningInv, Moves, RestMove
  <2>5. CASE fired[r] = 0
    <3>1. fired'[r] = 0
      BY <2>3, <2>5 DEF Moves, ThreadMove, Fires
    <3>2. r \notin DOMAIN thread'
      BY <2>2, <2>3 DEF Moves, ThreadMove, Claimed, Interrupted
    <3>3. \A q \in Requests : request'[q].pc \in {"idle", "done"}
      <4>1. ~Serving
        BY <2>2 DEF Serving, Interrupted
      <4> QED BY <2>2, <4>1 DEF ExecutorInv, Interrupted, Moves, RequestMove
    <3>4. runs'[r].status # "queued"
      BY <2>2 DEF Interrupted
    <3> QED BY <3>1, <3>2, <3>3, <3>4 DEF Dead, First
  <2>6. fired[r] \in Nat
    BY <2>3 DEF TypeOK
  <2> QED BY <2>4, <2>5, <2>6
<1> QED BY <1>1, <1>2, <1>3

LEMMA AuthorisedStays ==
    ASSUME ProcessInv, Moves, NEW r \in RunId, Authorised(r)
    PROVE  Authorised(r)'
<1> TypeOK /\ FollowUpInv /\ WinnerInv
  BY DEF ProcessInv, BaseInv
<1>1. PICK a \in DOMAIN approvals : approvals[a].followUp = r /\ approvals[a].status = "approved"
  BY DEF Authorised
<1>2. /\ a \in DOMAIN approvals' /\ approvals'[a].status = "approved"
      /\ approvals'[a].followUp = r \/ \E q \in Requests : Attached(q, a)
  BY <1>1 DEF Moves, ApprovalsMove, AskMove
<1>3. r # NoRun
  BY NoRunAssumption
<1>4. PICK p \in Requests : /\ a[1] = request[p].run
                            /\ request[p].pc \in {"queueing", "done"}
                            /\ First(p) \in DOMAIN runs
  BY <1>1, <1>3 DEF FollowUpInv, FollowUpOf
<1>5. ASSUME NEW q \in Requests PROVE ~Attached(q, a)
  <2>1. request[q].pc = "attaching" => request[q].run # request[p].run
    BY <1>4 DEF WinnerInv, Won
  <2> QED BY <1>4, <2>1 DEF Attached
<1> QED BY <1>2, <1>5 DEF Authorised

LEMMA AuthorisedMoves ==
    ASSUME ProcessInv, Moves, NEW r \in RunId, Authorised(r)'
    PROVE  Authorised(r) \/ \E q \in Requests : r = First(q) /\ request[q].pc = "attaching"
<1> TypeOK /\ FollowUpInv
  BY DEF ProcessInv, BaseInv
<1>1. r # NoRun
  BY NoRunAssumption
<1>2. PICK a \in DOMAIN approvals' : approvals'[a].followUp = r /\ approvals'[a].status = "approved"
  BY DEF Authorised
<1>3. a \in DOMAIN approvals
  BY <1>1, <1>2 DEF Moves, ApprovalsMove, NewAsk, NewApproval
<1>4. CASE approvals[a].followUp = r
  BY <1>1, <1>3, <1>4 DEF FollowUpInv, FollowUpOf, Authorised
<1>5. CASE approvals[a].followUp # r
  BY <1>2, <1>3, <1>5 DEF Moves, ApprovalsMove, AskMove, Attached
<1> QED BY <1>4, <1>5

\* A follow-up run that is not yet drainable is nobody's parent.
LEMMA FollowUpHasNoChild ==
    ASSUME ProcessInv, NEW q \in Requests, request[q].pc \in {"attaching", "queueing"},
           NEW s \in DOMAIN runs
    PROVE  runs[s].parent # First(q)
<1> TypeOK /\ RequestInv /\ ParentInv /\ ApprovingInv
  BY DEF ProcessInv, BaseInv
<1>1. Unbegun(First(q)) /\ Child(First(q)) \notin DOMAIN runs
  BY DEF RequestInv, RequestOf, ApprovingInv, ApprovingOf
<1>2. s \in RunId
  BY DEF TypeOK
<1>3. CASE s[2] > 0
  <2>1. runs[s].parent = <<s[1], s[2] - 1>> /\ s = Child(<<s[1], s[2] - 1>>)
    BY <1>2, <1>3, RunIds DEF ParentInv, ParentOf
  <2> QED BY <1>1, <2>1
<1>4. CASE s[2] = 0
  <2> SUFFICES ASSUME runs[s].parent = First(q) PROVE FALSE
    OBVIOUS
  <2>1. First(q) # NoRun
    BY RunIds, NoRunAssumption
  <2>2. PICK p \in Requests : s = First(p) /\ First(q) = request[p].run
    <3>1. ParentOf(s)
      BY DEF ParentInv
    <3> QED BY <1>4, <2>1, <3>1 DEF ParentOf
  <2>3. Decided(First(q))
    BY <2>2 DEF RequestInv, RequestOf, Won
  <2> QED BY <1>1, <2>3 DEF Decided, Unbegun, AsksOf
<1> QED BY <1>2, <1>3, <1>4, RunIds

\* A run becomes approved only as the follow-up that is attached.
LEMMA ApprovedMoves ==
    ASSUME ProcessInv, Moves, NEW r \in DOMAIN runs, IsApprovedExecution(r)'
    PROVE  \/ IsApprovedExecution(r)
           \/ \E q \in Requests : /\ r = First(q) /\ request[q].pc = "attaching"
                                 /\ Authorised(r)'
<1>1. PICK c \in Chains(r)' : \E i \in DOMAIN c : Authorised(c[i])'
  BY DEF IsApprovedExecution
<1>2. c \in Chains(r)
  BY <1>1, ChainsKept
<1>3. PICK n \in 1 .. RetryChainMax : c \in [1 .. n -> DOMAIN runs]
  BY <1>2 DEF Chains
<1>4. PICK i \in 1 .. n : Authorised(c[i])'
  BY <1>1, <1>3
<1>5. c[i] \in DOMAIN runs /\ c[i] \in RunId
  BY <1>3 DEF ProcessInv, BaseInv, TypeOK
<1>6. CASE Authorised(c[i])
  BY <1>2, <1>3, <1>6 DEF IsApprovedExecution
<1>7. ASSUME NEW q \in Requests, c[i] = First(q), request[q].pc = "attaching"
      PROVE  r = First(q) /\ Authorised(r)'
  <2>1. CASE i = 1
    <3>1. c[i] = r
      BY <1>2, <2>1 DEF Chains
    <3> QED BY <1>4, <1>7, <3>1
  <2>2. CASE i # 1
    <3>1. i - 1 \in 1 .. n /\ n \in Nat
      BY <1>3, <2>2, ConstantsAssumption
    <3>2. c[i - 1] \in DOMAIN runs
      BY <1>3, <3>1
    <3>3. c[i] = runs[c[i - 1]].parent
      BY <1>2, <1>3, <2>2 DEF Chains
    <3> QED BY <1>7, <3>2, <3>3, FollowUpHasNoChild
  <2> QED BY <2>1, <2>2
<1> QED BY <1>4, <1>5, <1>6, <1>7, AuthorisedMoves

LEMMA AskedStep ==
    ASSUME ProcessInv, Moves
    PROVE  AskedInv'
<1> TypeOK /\ ThreadInv /\ RequestInv /\ AskedInv
  BY DEF ProcessInv, BaseInv
<1> SUFFICES ASSUME NEW r \in DOMAIN runs', ~Agent(r), (AsksOf(r) # {} \/ At(r, "asking"))',
                    IsApprovedExecution(r)'
             PROVE  FALSE
  BY DEF AskedInv, Agent
<1>1. \/ AsksOf(r) # {} /\ r \in DOMAIN runs
      \/ r \in DOMAIN thread /\ (At(r, "asking") \/ ~IsApprovedExecution(r))
  <2>1. CASE AsksOf(r)' # {}
    <3>1. PICK a \in DOMAIN approvals' : a[1] = r
      BY <2>1 DEF AsksOf
    <3>2. CASE a \in DOMAIN approvals
      BY <3>1, <3>2 DEF AsksOf, TypeOK
    <3>3. CASE a \notin DOMAIN approvals
      <4>1. r \in DOMAIN thread /\ thread[r].pc \in {"asking", "looping"}
        BY <3>1, <3>3 DEF Moves, ApprovalsMove, NewAsk
      <4>2. thread[r].pc # "looping"
        BY <4>1 DEF ThreadInv, ThreadOf, LoopPc
      <4> QED BY <4>1, <4>2 DEF At
    <3> QED BY <3>2, <3>3
  <2>2. CASE At(r, "asking")'
    <3>1. r \in DOMAIN thread' /\ thread'[r].pc = "asking"
      BY <2>2 DEF At
    <3>2. r \in DOMAIN thread /\ ThreadGoes(r)
      BY <3>1 DEF Moves, ThreadMove, Claimed
    <3> QED BY <3>1, <3>2 DEF ThreadGoes, At
  <2> QED BY <2>1, <2>2
<1>2. r \in DOMAIN runs
  BY <1>1 DEF TypeOK
<1>3. ~IsApprovedExecution(r)
  BY <1>1, <1>2 DEF AskedInv
<1>4. PICK q \in Requests : r = First(q) /\ request[q].pc = "attaching"
  BY <1>2, <1>3, ApprovedMoves
<1>5. Unbegun(r)
  BY <1>4 DEF RequestInv, RequestOf
<1> QED BY <1>1, <1>5 DEF Unbegun

LEMMA ApprovedStep ==
    ASSUME ProcessInv, Moves
    PROVE  ApprovedInv'
<1> TypeOK /\ RequestInv /\ FollowUpInv /\ AskedInv /\ ApprovedInv
  BY DEF ProcessInv, BaseInv
<1> SUFFICES ASSUME NEW r \in DOMAIN runs', IsApprovedExecution(r)'
             PROVE  Authorised(First(r[1]))'
  BY DEF ApprovedInv, First
<1>1. r \in RunId /\ First(r[1]) \in RunId /\ TypeOK'
  BY RunIds DEF Moves, TypeOK
<1>2. ASSUME NEW s \in DOMAIN runs, s[1] = r[1], IsApprovedExecution(s)
      PROVE  Authorised(First(r[1]))'
  <2>1. Authorised(First(r[1]))
    BY <1>2 DEF ApprovedInv
  <2> QED BY <1>1, <2>1, AuthorisedStays
<1>3. CASE r \in DOMAIN runs
  <2>1. ASSUME NEW q \in Requests, r = First(q), Authorised(r)'
        PROVE  Authorised(First(r[1]))'
    BY <2>1, RunIds
  <2> QED BY <1>2, <1>3, <2>1, ApprovedMoves
<1>4. CASE r \notin DOMAIN runs
  <2>0. PICK p : p = runs'[r].parent
    OBVIOUS
  <2>1. ~Authorised(r)'
    <3>1. ~Authorised(r)
      BY <1>1, <1>4, NoRunAssumption DEF Authorised, FollowUpInv, FollowUpOf
    <3>2. \A q \in Requests : request[q].pc = "attaching" => r # First(q)
      BY <1>4 DEF RequestInv, RequestOf
    <3> QED BY <1>1, <3>1, <3>2, AuthorisedMoves
  <2>2. p \in DOMAIN runs' /\ IsApprovedExecution(p)'
    BY <1>1, <2>0, <2>1, ChainTailNext DEF ChainsContinue
  <2>3. p # NoRun
    BY <1>1, <2>2, NoRunAssumption DEF TypeOK
  <2>4. p \in DOMAIN runs
    BY <2>0, <2>3, ParentsAreRows
  <2>5. IsApprovedExecution(p) \/ \E q \in Requests : p = First(q) /\ request[q].pc = "attaching"
    BY <2>2, <2>4, ApprovedMoves
  <2>6. NewRow(r, runs'[r])
    BY <1>4 DEF Moves, RunsMove
  <2>7. ASSUME NEW q \in Requests, request[q].pc = "feedback", p = request[q].run PROVE FALSE
    <3>1. Decided(p)
      BY <2>7 DEF RequestInv, RequestOf, Won
    <3>2. ~Agent(p) /\ AsksOf(p) # {}
      BY <3>1 DEF Decided, AsksOf
    <3>3. ~IsApprovedExecution(p)
      BY <2>4, <3>2 DEF AskedInv
    <3> QED BY <2>5, <3>2, <3>3 DEF RequestInv, RequestOf, Unbegun
  <2>8. ASSUME NEW s \in lost \cup DOMAIN thread, r = Child(s), p = s
        PROVE  Authorised(First(r[1]))'
    <3>1. s[1] = r[1]
      BY <2>8, RunIds DEF TypeOK
    <3>2. \A q \in Requests : request[q].pc = "attaching" => s # First(q)
      BY <2>8, NothingLost DEF RequestInv, RequestOf, Unbegun
    <3> QED BY <1>2, <2>4, <2>5, <2>8, <3>1, <3>2
  <2>9. \A s \in lost : runs'[r] = RestartRow(s) => p = s
    BY <2>0, RestartIsRun DEF TypeOK
  <2>10. \A s : /\ runs'[r] = NewRun("queued", s) => p = s
                /\ runs'[r] = NewRun("running", s) => p = s
    BY <2>0 DEF NewRun
  <2>11. \/ p = NoRun
         \/ \E q \in Requests : request[q].pc = "feedback" /\ p = request[q].run
         \/ \E s \in lost \cup DOMAIN thread : r = Child(s) /\ p = s
    BY <2>0, <2>6, <2>9, <2>10 DEF NewRow
  <2> QED BY <2>3, <2>7, <2>8, <2>11
<1> QED BY <1>3, <1>4

LEMMA ActorStep ==
    ASSUME ProcessInv, Moves
    PROVE  ActorInv'
<1> TypeOK /\ FiredInv /\ ApprovedInv /\ ActorInv
  BY DEF ProcessInv, BaseInv
<1> SUFFICES ASSUME NEW r \in DOMAIN runs',
                    \/ fired'[r] > 0
                    \/ r \in DOMAIN thread' /\ thread'[r].phase = "execute"
             PROVE  Authorised(First(r[1]))'
  BY DEF ActorInv, First
<1>1. r \in RunId /\ First(r[1]) \in RunId
  BY RunIds DEF Moves, TypeOK
<1>2. \/ fired[r] > 0
      \/ r \in DOMAIN thread /\ (thread[r].phase = "execute" \/ IsApprovedExecution(r))
  BY <1>1 DEF Moves, ThreadMove, Fires, ThreadGoes, Claimed
<1>3. r \in DOMAIN runs
  BY <1>1, <1>2 DEF FiredInv, TypeOK
<1>4. Authorised(First(r[1]))
  BY <1>2, <1>3 DEF ActorInv, ApprovedInv
<1> QED BY <1>1, <1>4, AuthorisedStays

LEMMA FiredOnceStep ==
    ASSUME ProcessInv, Moves
    PROVE  \A r \in RunId : fired'[r] <= 1
<1> SUFFICES ASSUME NEW r \in RunId PROVE fired'[r] <= 1
  OBVIOUS
<1>1. fired[r] <= 1 /\ ThreadInv
  BY DEF ProcessInv, BaseInv
<1>2. Fires(r) => fired[r] = 0
  BY <1>1 DEF Fires, ThreadInv, ThreadOf
<1> QED BY <1>1, <1>2 DEF Moves, ThreadMove, Fires

LEMMA ProcessInit == Init => ProcessInv
<1> SUFFICES ASSUME Init PROVE ProcessInv
  OBVIOUS
<1>1. /\ DOMAIN runs = {} /\ DOMAIN approvals = {} /\ DOMAIN thread = {}
      /\ executor = "up" /\ lost = {}
      /\ fired = [r \in RunId |-> 0]
      /\ request = [q \in Requests |-> NoRequest]
  BY DEF Init
<1>2. ApprovingInv /\ FollowUpInv /\ ParentInv /\ LineInv /\ ExecutorInv /\ RunningInv
  BY <1>1 DEF ApprovingInv, ApprovingOf, FollowUpInv, ParentInv, LineInv, ExecutorInv, RunningInv,
     NoRequest
<1>3. RestartInv /\ AskedInv /\ ApprovedInv /\ ActorInv
  BY <1>1 DEF RestartInv, AskedInv, ApprovedInv, ActorInv
<1>4. \A r \in RunId : fired[r] <= 1
  BY <1>1
<1> QED BY <1>2, <1>3, <1>4, BaseInit DEF ProcessInv

LEMMA ProcessStep == ~SplitRoles /\ ProcessInv /\ [Next]_vars => ProcessInv'
<1> SUFFICES ASSUME ~SplitRoles, ProcessInv, [Next]_vars PROVE ProcessInv'
  OBVIOUS
<1>1. BaseInv'
  BY BaseStep DEF ProcessInv
<1>2. CASE Next
  <2>1. Moves
    BY <1>2, StepMoves DEF ProcessInv
  <2>2. (\A r \in RunId : fired[r] <= 1)'
    BY <2>1, FiredOnceStep DEF RunId
  <2>3. ApprovingInv' /\ FollowUpInv' /\ ParentInv' /\ LineInv' /\ ExecutorInv'
    BY <2>1, ApprovingStep, FollowUpStep, ParentStep, LineStep, ExecutorStep
  <2>4. RunningInv' /\ RestartInv' /\ AskedInv' /\ ApprovedInv' /\ ActorInv'
    BY <2>1, RunningStep, RestartStep, AskedStep, ApprovedStep, ActorStep
  <2> QED BY <1>1, <2>2, <2>3, <2>4 DEF ProcessInv
<1>3. CASE UNCHANGED vars
  <2>1. /\ runs' = runs /\ approvals' = approvals /\ thread' = thread /\ request' = request
        /\ executor' = executor /\ lost' = lost /\ fired' = fired /\ killed' = killed
        /\ broken' = broken
    BY <1>3 DEF vars, tables, boot, history
  <2>2. ASSUME NEW r PROVE Authorised(r)' = Authorised(r) /\ Chains(r)' = Chains(r)
    BY <2>1 DEF Authorised, Chains
  <2>3. ASSUME NEW r PROVE IsApprovedExecution(r)' = IsApprovedExecution(r)
    BY <2>2 DEF IsApprovedExecution
  <2>4. /\ ApprovingInv' /\ FollowUpInv' /\ ParentInv' /\ LineInv' /\ ExecutorInv'
        /\ RunningInv'
    BY <2>1
       DEF ProcessInv, ApprovingInv, ApprovingOf, FollowUpInv, FollowUpOf, ParentInv, ParentOf,
           LineInv, ExecutorInv, RunningInv, First, Child
  <2>5. RestartInv' /\ (\A r \in RunId : fired[r] <= 1)'
    BY <2>1 DEF ProcessInv, RestartInv, Dead, First, Child, RunId
  <2>6. AskedInv' /\ ApprovedInv' /\ ActorInv'
    BY <2>1, <2>2, <2>3 DEF ProcessInv, AskedInv, ApprovedInv, ActorInv, Agent, AsksOf, At, First
  <2> QED BY <1>1, <2>4, <2>5, <2>6 DEF ProcessInv
<1> QED BY <1>2, <1>3

\* In one process a side effect is fired only by the follow-up run of an approval that
\* stands as approved, or by a later attempt of it, and an agent is told yes only to what has been
\* approved, with any number of reviewers, crashes, cancels and failing calls
\* (approve_run, _is_engine_approved_execution_run).
THEOREM OnlyApprovedEffects ==
    ASSUME ~SplitRoles
    PROVE  Spec => []EffectIsApproved
<1>1. ProcessInv => EffectIsApproved
  <2> SUFFICES ASSUME ProcessInv PROVE EffectIsApproved
    OBVIOUS
  <2>1. FiredInv /\ ActorInv /\ AsksInv
    BY DEF ProcessInv, BaseInv
  <2> QED BY <2>1 DEF EffectIsApproved, FiredInv, ActorInv, AsksInv, Authorised
<1> QED BY <1>1, ProcessInit, ProcessStep, PTL DEF Spec

\* In one process each attempt of the follow-up run fires the side effect once, and a later
\* attempt fires it again only where the earlier one died with its process or its driver
\* failed (docs/APPROVALS.md: exactly once).
THEOREM EffectNotRepeated ==
    ASSUME ~SplitRoles
    PROVE  Spec => []EffectOnceUnlessCut
<1>1. ProcessInv => EffectOnceUnlessCut
  <2> SUFFICES ASSUME ProcessInv, NEW r \in RunId, NEW s \in RunId
               PROVE  /\ fired[r] <= 1
                      /\ r[1] = s[1] /\ r[2] < s[2] /\ fired[r] > 0 /\ fired[s] > 0
                            => r \in killed \cup broken
    BY DEF EffectOnceUnlessCut
  <2>1. fired[r] <= 1
    BY DEF ProcessInv
  <2>2. ASSUME r[1] = s[1], r[2] < s[2], fired[r] > 0, fired[s] > 0
        PROVE  r \in killed \cup broken
    <3>1. r[2] \in Nat /\ s[2] \in Nat
      BY RunIds
    <3>2. Child(r) = <<s[1], r[2] + 1>> /\ r[2] + 1 \in 0 .. s[2]
      BY <2>2, <3>1 DEF Child
    <3>3. s \in DOMAIN runs
      BY <2>2 DEF ProcessInv, BaseInv, FiredInv
    <3>4. Child(r) \in DOMAIN runs
      BY <3>2, <3>3 DEF ProcessInv, LineInv
    <3> QED BY <2>2, <3>4 DEF ProcessInv, RestartInv, Dead
  <2> QED BY <2>1, <2>2
<1> QED BY <1>1, ProcessInit, ProcessStep, PTL DEF Spec

\* In one process, and where more parents are looked at than there are attempts, what has
\* been approved is not put before a reviewer again, not even by a retry or a restart of it
\* (_is_engine_approved_execution_run).
THEOREM ApprovedIsNotAskedAgain ==
    ASSUME ~SplitRoles, RetryChainMax > MaxAttempts
    PROVE  Spec => []ApprovedNotAskedAgain
<1>1. ProcessInv => ApprovedNotAskedAgain
  <2> SUFFICES ASSUME ProcessInv, NEW a \in DOMAIN approvals, NEW b \in DOMAIN approvals,
                      approvals[a].followUp # NoRun, approvals[a].followUp[1] = b[1][1]
               PROVE  FALSE
    BY DEF ApprovedNotAskedAgain
  <2> TypeOK /\ FollowUpInv /\ AskedInv /\ ParentInv /\ LineInv
    BY DEF ProcessInv, BaseInv
  <2>1. PICK q \in Requests : approvals[a].followUp = First(q) /\ First(q) \in DOMAIN runs
    BY DEF FollowUpInv, FollowUpOf
  <2>2. Authorised(First(q))
    BY <2>1 DEF FollowUpInv, FollowUpOf, Authorised, First
  <2> DEFINE r == b[1]
  <2>3. r \in DOMAIN runs /\ r \in RunId /\ AsksOf(r) # {}
    BY DEF TypeOK, AsksOf
  <2>4. r[1] = q
    BY <2>1, RunIds
  <2>5. ~Agent(r)
    BY <2>4, RunIds DEF Agent
  <2>6. ~IsApprovedExecution(r)
    BY <2>3, <2>5 DEF AskedInv
  <2> DEFINE m == r[2]
  <2>7. /\ m \in Nat /\ m + 1 \in 1 .. RetryChainMax /\ 1 \in 1 .. m + 1 /\ m + 1 \in 1 .. m + 1
        /\ \A i \in 1 .. m + 1 : m + 1 - i \in 0 .. m
        /\ \A i \in 1 .. m + 1 : i # 1 => i - 1 \in 1 .. m + 1 /\ m + 1 - (i - 1) > 0
                                      /\ m + 1 - (i - 1) - 1 = m + 1 - i
    <3>1. m \in 0 .. MaxAttempts /\ MaxAttempts \in Nat /\ RetryChainMax \in Nat
      BY <2>3, RunIds, ConstantsAssumption
    <3> HIDE DEF m
    <3> QED BY <3>1
  <2> DEFINE c == [i \in 1 .. m + 1 |-> <<q, m + 1 - i>>]
  <2>8. c \in [1 .. m + 1 -> DOMAIN runs]
    <3>1. \A n \in 0 .. m : <<q, n>> \in DOMAIN runs
      BY <2>3, <2>4 DEF LineInv
    <3> HIDE DEF m
    <3> QED BY <2>7, <3>1
  <2>9. c[1] = r
    <3>1. r = <<q, m>>
      BY <2>3, <2>4, RunIds
    <3> HIDE DEF m
    <3> QED BY <2>7, <3>1
  <2>10. c[m + 1] = First(q)
    <3> HIDE DEF m
    <3> QED BY <2>7 DEF First
  <2>11. ASSUME NEW i \in 1 .. m + 1, i # 1 PROVE c[i] = runs[c[i - 1]].parent
    <3> HIDE DEF m
    <3>1. c[i] = <<q, m + 1 - i>> /\ c[i - 1] = <<q, m + 1 - (i - 1)>> /\ c[i - 1] \in DOMAIN runs
      BY <2>7, <2>8, <2>11
    <3>2. ParentOf(c[i - 1])
      BY <3>1 DEF ParentInv
    <3> DEFINE k == m + 1 - (i - 1)
    <3>3. k > 0 /\ k - 1 = m + 1 - i
      BY <2>7, <2>11
    <3> DEFINE x == c[i - 1]
    <3>4. x = <<q, k>>
      BY <3>1
    <3>5. c[i] = <<q, k - 1>>
      BY <3>1, <3>3
    <3> HIDE DEF c, k, x
    <3>6. x[1] = q /\ x[2] = k
      BY <3>4
    <3>7. runs[x].parent = <<q, k - 1>>
      BY <3>2, <3>3, <3>6 DEF ParentOf, x
    <3> QED BY <3>5, <3>7 DEF x
  <2>12. DOMAIN c = 1 .. m + 1
    OBVIOUS
  <2> HIDE DEF c, m
  <2>13. c \in Chains(r)
    BY <2>7, <2>8, <2>9, <2>11, <2>12 DEF Chains
  <2> QED BY <2>2, <2>6, <2>7, <2>10, <2>12, <2>13 DEF IsApprovedExecution
<1> QED BY <1>1, ProcessInit, ProcessStep, PTL DEF Spec

-----------------------------------------------------------------------------
(* Parked runs *)

\* Somebody has seen the run parked: a review request, or a boot.
Seen(r) == r \in orphaned \/ \E q \in Requests : request[q].pc # "idle" /\ request[q].run = r

\* The run has not been parked: it is queued, its thread works on it, or it is a
\* follow-up that is being made drainable.
Fresh(r) ==
    \/ runs[r].status = "queued"
    \/ r \in DOMAIN thread
    \/ \E q \in Requests : r = First(q) /\ request[q].pc \in {"attaching", "queueing"}

\* What has not been parked has not been seen parked.
FreshInv ==
    \A r \in DOMAIN runs :
        ~Agent(r) /\ Fresh(r) => ~Seen(r) /\ runs[r].status # "pending_approval"

\* A thread that begins finds its row unparked, and one that has failed leaves it so; one
\* that is about to park it has put up an approval, which has not been decided and cannot
\* expire yet.
ParkingOf(r) ==
    /\ thread[r].pc \in {"loading", "retrying"} => runs[r].status # "pending_approval"
    /\ thread[r].pc = "parking" => /\ AsksOf(r) \cap due = {}
                                   /\ r \in stranded \/ Pending(AsksOf(r)) # {}
ParkingInv == \A r \in DOMAIN thread : ParkingOf(r)

\* A boot leaves no row parked, and a parked agent polls.
BootInv ==
    /\ executor # "up" => DOMAIN thread = {}
    /\ orphaned # {} => executor = "reaping"
    /\ \A r \in DOMAIN runs : runs[r].status = "pending_approval" =>
          /\ executor # "reaping"
          /\ Agent(r) => executor # "up" \/ r \in DOMAIN thread

\* Only an agent's approval is decided on its own.
ToolInv == \A q \in Requests : request[q].pc = "claiming_tool" => Agent(request[q].run)

AttendInv ==
    /\ BaseInv
    /\ FreshInv
    /\ ParkingInv
    /\ BootInv
    /\ ToolInv
    /\ ParkedIsAttended

\* What a step may do to what is parked and to those who look after it.

\* A thread parks its row.
Parks(r) ==
    /\ r \in DOMAIN thread
    /\ \/ thread[r].pc = "parking" /\ DOMAIN thread' = DOMAIN thread \ {r}
       \/ thread[r].pc = "tool_parking" /\ DOMAIN thread' = DOMAIN thread
    /\ UNCHANGED <<approvals, due, executor, orphaned, request, stranded>>
RowParks ==
    \A r \in DOMAIN runs' : runs'[r].status = "pending_approval" =>
        r \in DOMAIN runs /\ (runs[r].status = "pending_approval" \/ Parks(r))

\* A thread comes to where it parks its row.
Asks(r) ==
    /\ thread[r].pc = "asking"
    /\ due' = due
    /\ r \in stranded' \/ (<<r, 1>> \in DOMAIN approvals' /\ approvals'[<<r, 1>>].status = "pending")
ThreadComes ==
    \A r \in DOMAIN thread \cap DOMAIN thread' :
        /\ thread'[r].pc = "loading" => thread[r].pc = "loading"
        /\ thread'[r].pc = "retrying" =>
              thread[r].pc = "retrying" \/ runs'[r].status # "pending_approval"
        /\ thread'[r].pc = "parking" => thread[r].pc = "parking" \/ Asks(r)

\* A thread ends, and its row with it.
ThreadEnds ==
    \A r \in DOMAIN thread \ DOMAIN thread' :
        \/ executor' # "up"
        \/ Parks(r)
        \/ runs'[r].status # "pending_approval"
        \/ thread[r].pc \in {"loading", "retrying"} /\ runs'[r] = runs[r]

\* An approval is decided: an agent's, at a boot, by its expiry or by a request that
\* goes on to settle its run.
Decides(a) == approvals[a].status = "pending" /\ approvals'[a].status # "pending"
DecidedBy(a) ==
    \/ Agent(a[1])
    \/ a[1] \in orphaned
    \/ a \in due /\ runs'[a[1]].status # "pending_approval"
    \/ \E q \in Requests : /\ request[q].run = a[1] /\ request[q].pc = "claiming"
                           /\ request'[q].run = a[1] /\ request'[q].pc = "settling"
ApprovalDecided == \A a \in DOMAIN approvals : Decides(a) => DecidedBy(a)

\* A request that settles a run does so, or a fault is to blame.
RequestSettles ==
    \A q \in Requests : request[q].pc = "settling" =>
        \/ request'[q] = request[q]
        \/ runs'[request[q].run].status # "pending_approval"
        \/ request[q].run \in stranded'
        \/ executor' # "up"

\* A request begins with a parked run, or with an agent's approval.
RequestBegins ==
    \A q \in Requests : request[q].pc = "idle" /\ request'[q].pc # "idle" =>
        \/ request'[q].pc = "reading" /\ request'[q].run \in DOMAIN runs
              /\ runs[request'[q].run].status = "pending_approval"
        \/ Agent(request'[q].run)

DueComes == \A a \in due' \ due : ~At(a[1], "parking")

BootGoes ==
    \/ executor' = executor /\ orphaned' \subseteq orphaned
    \/ executor' = "down" /\ DOMAIN thread' = {} /\ orphaned' = {}
    \/ /\ executor = "down" /\ executor' = "recovering"
       /\ UNCHANGED <<orphaned, thread>>
    \/ /\ executor = "recovering" /\ executor' = "reaping" /\ thread' = thread
       /\ \A r \in orphaned' : r \in DOMAIN runs /\ runs[r].status = "pending_approval"
       /\ \A r \in DOMAIN runs' : runs'[r].status # "pending_approval"
    \/ /\ executor = "reaping" /\ executor' = "up"
       /\ orphaned' = {} /\ UNCHANGED <<runs, thread>>

\* Actions by the actor, and what is not the actor's.
OfThread(r) ==
    \/ ThreadStep(r) \/ WorkFails(r) \/ WorkRaises(r) \/ LoopFails(r)
    \/ AskForRunFails(r) \/ WithdrawAskFails(r)
OfRequest(q) ==
    \/ RequestStep(q) \/ LazyExpireFails(q) \/ RequestAborts(q)
    \/ \E decision \in {"approve", "reject"} :
          \/ \E r \in DOMAIN runs : ReadRun(q, r, decision)
          \/ \E a \in DOMAIN approvals : ReadToolApproval(q, a, decision)
OfBoot == BootStep \/ \E r \in orphaned : RejectOrphanedFails(r)
OfCancel == (\E r \in DOMAIN cancel : CancelFlag(r) \/ CancelSettle(r)) \/ \E r \in DOMAIN runs : CancelRead(r)
OfTime == SweepStale \/ \E a \in DOMAIN approvals : ComeDue(a)
OfQueue == (\E r \in DOMAIN runs : ClaimRun(r)) \/ \E x \in Proposals \cup Agents : CreateRun(x)

LEMMA Actors ==
    Next => \/ \E r \in DOMAIN thread : OfThread(r)
            \/ \E q \in Requests : OfRequest(q)
            \/ OfBoot \/ OfCancel \/ OfTime \/ OfQueue \/ Crash
<1> QED BY DEF Next, Progress, Input, FaultStep, OfThread, OfRequest, OfBoot, OfCancel, OfTime, OfQueue

LEMMA ThreadFrame ==
    ASSUME NEW r \in DOMAIN thread, OfThread(r)
    PROVE  UNCHANGED <<due, executor, lost, orphaned, request>>
<1>1. CASE \/ LoadRun(r) \/ StampPhase(r) \/ Work(r) \/ WorkFails(r) \/ WorkRaises(r) \/ GateRun(r)
           \/ CompleteRun(r) \/ FailRun(r) \/ AskForRun(r) \/ ParkRun(r) \/ LoopFails(r)
           \/ FailReported(r) \/ RetryRun(r) \/ SkipRetry(r)
  BY <1>1 DEF LoadRun, StampPhase, Work, WorkFails, WorkRaises, GateRun, CompleteRun, FailRun,
              AskForRun, ParkRun, LoopFails, FailReported, RetryRun, SkipRetry, otherThanThread, boot
<1>2. CASE \/ AskInLoop(r) \/ ParkInLoop(r) \/ PollDecided(r) \/ PollGivesUp(r) \/ WithdrawAsk(r)
           \/ FinishLoop(r) \/ AskForRunFails(r) \/ WithdrawAskFails(r)
  BY <1>2 DEF AskInLoop, ParkInLoop, PollDecided, PollGivesUp, WithdrawAsk, FinishLoop,
              AskForRunFails, WithdrawAskFails, otherThanThread, boot
<1> QED BY <1>1, <1>2 DEF OfThread, ThreadStep

LEMMA RequestFrame ==
    ASSUME NEW q \in Requests, OfRequest(q)
    PROVE  UNCHANGED <<due, thread, executor, lost, orphaned>>
<1>1. CASE \/ ReadApproval(q) \/ LazyExpire(q) \/ RereadApproval(q) \/ ClaimRunApproval(q)
           \/ SettleRun(q) \/ CreateFollowUp(q) \/ AttachFollowUp(q) \/ QueueFollowUp(q)
  BY <1>1 DEF ReadApproval, LazyExpire, RereadApproval, ClaimRunApproval, SettleRun, CreateFollowUp,
              AttachFollowUp, QueueFollowUp, Claim, otherThanRequest, boot
<1>2. CASE \/ CreateFeedbackRetry(q) \/ ClaimToolApproval(q) \/ LazyExpireFails(q) \/ RequestAborts(q)
  BY <1>2 DEF CreateFeedbackRetry, ClaimToolApproval, LazyExpireFails, RequestAborts, Claim,
              otherThanRequest, boot
<1>3. ASSUME NEW decision \in {"approve", "reject"}, NEW r \in DOMAIN runs, ReadRun(q, r, decision)
      PROVE  UNCHANGED <<due, thread, executor, lost, orphaned>>
  BY <1>3 DEF ReadRun, otherThanRequest, boot
<1>4. ASSUME NEW decision \in {"approve", "reject"}, NEW a \in DOMAIN approvals,
             ReadToolApproval(q, a, decision)
      PROVE  UNCHANGED <<due, thread, executor, lost, orphaned>>
  BY <1>4 DEF ReadToolApproval, otherThanRequest, boot
<1> QED BY <1>1, <1>2, <1>3, <1>4 DEF OfRequest, RequestStep

LEMMA BootFrame ==
    ASSUME OfBoot
    PROVE  UNCHANGED <<due, thread, request, stranded>>
<1> QED BY DEF OfBoot, BootStep, FailInterrupted, FailParked, Resume, RestartLost, RejectOrphaned,
               RejectOrphanedFails, history

LEMMA OtherFrame ==
    ASSUME OfCancel \/ OfTime \/ OfQueue
    PROVE  UNCHANGED <<request, executor, lost, orphaned, stranded>>
<1>1. CASE OfCancel
  BY <1>1 DEF OfCancel, CancelFlag, CancelSettle, CancelRead, boot, history
<1>2. CASE OfTime
  BY <1>2 DEF OfTime, SweepStale, ComeDue, boot, history
<1>3. CASE OfQueue
  BY <1>3 DEF OfQueue, ClaimRun, CreateRun, boot, history
<1> QED BY <1>1, <1>2, <1>3

\* A step that sets one row to something else, fails some rows, or adds one, parks none.
LEMMA RowSetUnparked ==
    ASSUME RunsType, NEW r \in DOMAIN runs, NEW row, SetRun(r, row),
           row.status \in {runs[r].status} \cup (RunStatus \ {"pending_approval"})
    PROVE  RowParks
<1> QED BY DEF RunsType, SetRun, RowParks

LEMMA RowsFailUnparked ==
    ASSUME RunsType, NEW S,
           runs' = [r \in DOMAIN runs |-> IF r \in S THEN WithError(runs[r], "failed") ELSE runs[r]]
    PROVE  RowParks
<1>1. \A r \in DOMAIN runs : runs[r] \in Run /\ "failed" \in RunStatus
  BY DEF RunsType, RunStatus
<1> QED BY <1>1, UpdatedRow DEF RowParks

LEMMA RowAddedUnparked ==
    ASSUME RunsType, NEW r, NEW s \in RunStatus \ {"pending_approval"}, NEW p,
           runs' = Extend(runs, r, NewRun(s, p))
    PROVE  RowParks
<1> QED BY DEF RunsType, RowParks, Extend, NewRun

LEMMA RowParksStep ==
    ASSUME BaseInv, Next
    PROVE  RowParks
<1> RunsType /\ ThreadType /\ RequestType /\ RestType /\ RequestInv
  BY TypeParts DEF BaseInv
<1>1. UNCHANGED runs => RowParks
  BY DEF RowParks
<1>2. \A row \in Run : \A s \in RunStatus \ {"pending_approval"} :
          /\ WithStatus(row, s).status \in RunStatus \ {"pending_approval"}
          /\ WithError(row, s).status \in RunStatus \ {"pending_approval"}
  BY UpdatedRow DEF RunStatus
<1>3. ASSUME NEW r \in DOMAIN runs, NEW s \in RunStatus \ {"pending_approval"},
             SetRun(r, WithStatus(runs[r], s)) \/ SetRun(r, WithError(runs[r], s))
      PROVE  RowParks
  <2>1. runs[r] \in Run
    BY DEF RunsType
  <2> QED BY <1>2, <1>3, <2>1, RowSetUnparked
<1>4. ASSUME NEW r \in DOMAIN thread, OfThread(r) PROVE RowParks
  <2> r \in DOMAIN runs /\ runs[r] \in Run
    BY DEF ThreadType, RunsType
  <2>1. CASE \/ LoadRun(r) \/ StampPhase(r) \/ Work(r) \/ WorkFails(r) \/ WorkRaises(r) \/ GateRun(r)
             \/ AskForRun(r) \/ AskInLoop(r) \/ WithdrawAsk(r) \/ FinishLoop(r) \/ LoopFails(r)
             \/ SkipRetry(r) \/ AskForRunFails(r) \/ WithdrawAskFails(r)
    <3>1. UNCHANGED runs
      BY <2>1 DEF LoadRun, StampPhase, Work, WorkFails, WorkRaises, GateRun, AskForRun, AskInLoop,
         WithdrawAsk, FinishLoop, LoopFails, SkipRetry, AskForRunFails, WithdrawAskFails, tables
    <3> QED BY <1>1, <3>1
  <2>2. CASE CompleteRun(r) \/ FailRun(r) \/ FailReported(r) \/ PollDecided(r) \/ PollGivesUp(r)
    BY <1>3, <2>2 DEF CompleteRun, FailRun, FailReported, PollDecided, PollGivesUp, RunStatus
  <2>3. CASE ParkRun(r) \/ ParkInLoop(r)
    <3>1. \A s \in DOMAIN runs' : s \in DOMAIN runs /\ (s # r => runs'[s] = runs[s])
      BY <2>3 DEF ParkRun, ParkInLoop, SetRun, RunsType
    <3>2. Parks(r)
      BY <2>3, ThreadFrame, <1>4 DEF Parks, ParkRun, ParkInLoop, At, Goto, Leave, Restrict,
         otherThanThread, ThreadType
    <3> QED BY <3>1, <3>2 DEF RowParks
  <2>4. CASE RetryRun(r)
    BY <2>4, RowAddedUnparked DEF RetryRun, RunStatus
  <2> QED BY <1>4, <2>1, <2>2, <2>3, <2>4 DEF OfThread, ThreadStep
<1>5. ASSUME NEW q \in Requests, OfRequest(q) PROVE RowParks
  <2>1. CASE \/ ReadApproval(q) \/ RereadApproval(q) \/ ClaimRunApproval(q)
             \/ AttachFollowUp(q) \/ ClaimToolApproval(q) \/ LazyExpireFails(q)
             \/ RequestAborts(q)
    <3>1. UNCHANGED runs
      BY <2>1 DEF ReadApproval, RereadApproval, ClaimRunApproval, AttachFollowUp,
         ClaimToolApproval, LazyExpireFails, RequestAborts, tables, Claim
    <3> QED BY <1>1, <3>1
  <2>2. CASE LazyExpire(q)
    <3>1. PICK asks : runs' = Unpark(asks)
      BY <2>2 DEF LazyExpire
    <3> DEFINE S == {r \in DOMAIN runs : (\E a \in asks : a[1] = r) /\ runs[r].status = "pending_approval"}
    <3>2. runs' = [r \in DOMAIN runs |-> IF r \in S THEN WithError(runs[r], "failed") ELSE runs[r]]
      BY <3>1 DEF Unpark
    <3> HIDE DEF S
    <3> QED BY <3>2, RowsFailUnparked
  <2>3. CASE SettleRun(q)
    <3>1. request[q].run \in DOMAIN runs
      BY <2>3 DEF SettleRun, ReqAt, RequestType
    <3> QED BY <1>3, <2>3, <3>1 DEF SettleRun, RunStatus
  <2>4. CASE QueueFollowUp(q)
    <3>1. First(q) \in DOMAIN runs
      BY <2>4 DEF QueueFollowUp, ReqAt, RequestInv, RequestOf
    <3> QED BY <1>3, <2>4, <3>1 DEF QueueFollowUp, RunStatus
  <2>5. CASE CreateFollowUp(q) \/ CreateFeedbackRetry(q)
    BY <1>1, <2>5, RowAddedUnparked DEF CreateFollowUp, CreateFeedbackRetry, RunStatus
  <2>6. ASSUME NEW decision \in {"approve", "reject"}
        PROVE  /\ \A r \in DOMAIN runs : ReadRun(q, r, decision) => UNCHANGED runs
               /\ \A a \in DOMAIN approvals : ReadToolApproval(q, a, decision) => UNCHANGED runs
    BY DEF ReadRun, ReadToolApproval, tables
  <2> QED BY <1>1, <1>5, <2>1, <2>2, <2>3, <2>4, <2>5, <2>6 DEF OfRequest, RequestStep
<1>6. ASSUME OfBoot PROVE RowParks
  <2>1. CASE Resume \/ \E r \in orphaned : RejectOrphaned(r) \/ RejectOrphanedFails(r)
    BY <1>1, <2>1 DEF Resume, RejectOrphaned, RejectOrphanedFails, tables
  <2>2. CASE FailInterrupted
    <3> DEFINE S == {r \in DOMAIN runs : runs[r].status = "running"}
    <3>1. runs' = [r \in DOMAIN runs |-> IF r \in S THEN WithError(runs[r], "failed") ELSE runs[r]]
      BY <2>2 DEF FailInterrupted
    <3> HIDE DEF S
    <3> QED BY <3>1, RowsFailUnparked
  <2>3. CASE FailParked
    <3> DEFINE S == {r \in DOMAIN runs : runs[r].status = "pending_approval"}
    <3>1. runs' = [r \in DOMAIN runs |-> IF r \in S THEN WithError(runs[r], "failed") ELSE runs[r]]
      BY <2>3 DEF FailParked
    <3> HIDE DEF S
    <3> QED BY <3>1, RowsFailUnparked
  <2>4. ASSUME NEW r \in lost, RestartLost(r) PROVE RowParks
    <3>1. UNCHANGED runs \/ runs' = Extend(runs, Child(r), RestartRow(r))
      BY <2>4 DEF RestartLost, RestartRow
    <3>2. RestartRow(r).status = "queued"
      BY DEF RestartRow, NewRun
    <3> QED BY <1>1, <3>1, <3>2 DEF RunsType, RowParks, Extend
  <2> QED BY <1>6, <2>1, <2>2, <2>3, <2>4 DEF OfBoot, BootStep
<1>7. ASSUME OfCancel PROVE RowParks
  <2>1. CASE \E r \in DOMAIN runs : CancelRead(r)
    BY <1>1, <2>1 DEF CancelRead, tables
  <2>2. ASSUME NEW r \in DOMAIN cancel, CancelFlag(r) PROVE RowParks
    <3>1. r \in DOMAIN runs /\ runs[r] \in Run
      BY DEF RunsType, RestType
    <3>2. [runs[r] EXCEPT !.cancelRequested = TRUE].status = runs[r].status
      BY <3>1 DEF Run
    <3> QED BY <2>2, <3>1, <3>2, RowSetUnparked DEF CancelFlag
  <2>3. ASSUME NEW r \in DOMAIN cancel, CancelSettle(r) PROVE RowParks
    <3>1. r \in DOMAIN runs
      BY DEF RestType
    <3>2. PICK s \in {"failed", "cancelled"} : SetRun(r, WithError(runs[r], s))
      BY <2>3 DEF CancelSettle
    <3> QED BY <1>3, <3>1, <3>2 DEF RunStatus
  <2> QED BY <1>7, <2>1, <2>2, <2>3 DEF OfCancel
<1>8. ASSUME OfTime PROVE RowParks
  <2>1. CASE \E a \in DOMAIN approvals : ComeDue(a)
    BY <1>1, <2>1 DEF ComeDue, tables
  <2>2. CASE SweepStale
    <3>1. PICK asks : runs' = Unpark(asks)
      BY <2>2 DEF SweepStale
    <3> DEFINE S == {r \in DOMAIN runs : (\E a \in asks : a[1] = r) /\ runs[r].status = "pending_approval"}
    <3>2. runs' = [r \in DOMAIN runs |-> IF r \in S THEN WithError(runs[r], "failed") ELSE runs[r]]
      BY <3>1 DEF Unpark
    <3> HIDE DEF S
    <3> QED BY <3>2, RowsFailUnparked
  <2> QED BY <1>8, <2>1, <2>2 DEF OfTime
<1>9. ASSUME OfQueue PROVE RowParks
  <2>1. ASSUME NEW r \in DOMAIN runs, ClaimRun(r) PROVE RowParks
    BY <1>3, <2>1 DEF ClaimRun, RunStatus
  <2>2. ASSUME NEW x \in Proposals \cup Agents, CreateRun(x) PROVE RowParks
    BY <2>2, RowAddedUnparked DEF CreateRun, RunStatus
  <2> QED BY <1>9, <2>1, <2>2 DEF OfQueue
<1>10. CASE Crash
  BY <1>1, <1>10 DEF Crash, tables
<1> QED BY <1>4, <1>5, <1>6, <1>7, <1>8, <1>9, <1>10, Actors

LEMMA GoneTo ==
    ASSUME ThreadType, NEW r \in DOMAIN thread, NEW pc, Goto(r, pc)
    PROVE  /\ DOMAIN thread' = DOMAIN thread
           /\ thread'[r].pc = pc
           /\ \A s \in DOMAIN thread : s # r => thread'[s] = thread[s]
<1>1. thread[r] \in Thread
  BY DEF ThreadType
<1> QED BY <1>1 DEF Goto, Thread

LEMMA Left ==
    ASSUME ThreadType, NEW r \in DOMAIN thread, Leave(r)
    PROVE  /\ DOMAIN thread' = DOMAIN thread \ {r}
           /\ \A s \in DOMAIN thread' : thread'[s] = thread[s]
<1> QED BY DEF ThreadType, Leave, Restrict

LEMMA ThreadGoesElsewhere ==
    ASSUME ThreadType, NEW r \in DOMAIN thread, NEW pc, Goto(r, pc),
           pc \notin {"loading", "parking", "retrying"}
    PROVE  ThreadComes /\ ThreadEnds
<1> QED BY GoneTo DEF ThreadComes, ThreadEnds

LEMMA ThreadEndsStep ==
    ASSUME BaseInv, Next
    PROVE  ThreadComes /\ ThreadEnds
<1> RunsType /\ ApprovalsType /\ ThreadType /\ RequestType /\ RestType /\ QueuedInv
  BY TypeParts DEF BaseInv
<1>1. UNCHANGED thread => ThreadComes /\ ThreadEnds
  BY DEF ThreadComes, ThreadEnds
<1>2. ASSUME NEW r \in DOMAIN thread, OfThread(r) PROVE ThreadComes /\ ThreadEnds
  <2> r \in DOMAIN runs /\ runs[r] \in Run /\ thread[r] \in Thread
    BY DEF ThreadType, RunsType
  <2>1. ASSUME Leave(r),
               \/ Parks(r) \/ runs'[r].status # "pending_approval"
               \/ thread[r].pc \in {"loading", "retrying"} /\ runs'[r] = runs[r]
        PROVE  ThreadComes /\ ThreadEnds
    BY <2>1, Left DEF ThreadComes, ThreadEnds
  <2>2. ASSUME LoadRun(r) PROVE ThreadComes /\ ThreadEnds
    <3>1. runs' = runs /\ thread[r].pc = "loading"
      BY <2>2 DEF LoadRun, tables, At
    <3>2. Leave(r) \/ \E pc \in {"failing", "looping", "stamping"} : Goto(r, pc)
      BY <2>2 DEF LoadRun
    <3> QED BY <2>1, <3>1, <3>2, ThreadGoesElsewhere
  <2>3. ASSUME StampPhase(r) PROVE ThreadComes /\ ThreadEnds
    <3>1. /\ DOMAIN thread' = DOMAIN thread
          /\ thread'[r].pc = "working"
          /\ \A s \in DOMAIN thread : s # r => thread'[s] = thread[s]
      BY <2>3 DEF StampPhase, Thread
    <3> QED BY <3>1 DEF ThreadComes, ThreadEnds
  <2>4. CASE \/ Work(r) \/ WorkFails(r) \/ WorkRaises(r) \/ LoopFails(r) \/ ParkInLoop(r)
             \/ PollDecided(r) \/ PollGivesUp(r) \/ WithdrawAsk(r) \/ FinishLoop(r)
             \/ WithdrawAskFails(r)
    <3>1. \E pc \in {"gating", "failing", "erring", "raised", "polling", "looping", "rejecting",
                     "completing"} : Goto(r, pc)
      BY <2>4 DEF Work, WorkFails, WorkRaises, LoopFails, ParkInLoop, PollDecided, PollGivesUp,
         WithdrawAsk, FinishLoop, WithdrawAskFails
    <3> QED BY <3>1, ThreadGoesElsewhere
  <2>5. CASE GateRun(r)
    <3>1. \E pc \in {"completing", "asking", "failing"} : Goto(r, pc)
      BY <2>5 DEF GateRun
    <3> QED BY <3>1, ThreadGoesElsewhere
  <2>6. CASE CompleteRun(r) \/ FailRun(r)
    <3>1. Leave(r) /\ \E s \in {"completed", "failed"} :
             runs' = [runs EXCEPT ![r] = WithStatus(runs[r], s)]
               \/ runs' = [runs EXCEPT ![r] = WithError(runs[r], s)]
      BY <2>6 DEF CompleteRun, FailRun, SetRun
    <3>2. runs'[r].status # "pending_approval"
      BY <3>1, UpdatedRow DEF RunStatus
    <3> QED BY <2>1, <3>1, <3>2
  <2>7. CASE ParkRun(r)
    <3>1. Leave(r) /\ thread[r].pc = "parking" /\ UNCHANGED <<approvals, boot, due, request, stranded>>
      BY <2>7 DEF ParkRun, At, otherThanThread
    <3>2. Parks(r)
      BY <3>1, Left DEF Parks, boot
    <3> QED BY <2>1, <3>1, <3>2
  <2>8. CASE AskInLoop(r)
    <3>1. /\ DOMAIN thread' = DOMAIN thread
          /\ thread'[r].pc = "tool_parking"
          /\ \A s \in DOMAIN thread : s # r => thread'[s] = thread[s]
      BY <2>8 DEF AskInLoop, Thread
    <3> QED BY <3>1 DEF ThreadComes, ThreadEnds
  <2>9. CASE AskForRun(r) \/ AskForRunFails(r)
    <3>1. Goto(r, "parking") /\ thread[r].pc = "asking" /\ due' = due
      BY <2>9 DEF AskForRun, AskForRunFails, At, otherThanThread
    <3>2. r \in stranded' \/ (<<r, 1>> \in DOMAIN approvals' /\ approvals'[<<r, 1>>].status = "pending")
      BY <2>9 DEF AskForRun, AskForRunFails, Extend, NewApproval
    <3>3. Asks(r)
      BY <3>1, <3>2 DEF Asks
    <3> QED BY <3>1, <3>3, GoneTo DEF ThreadComes, ThreadEnds
  <2>10. CASE FailReported(r)
    <3>1. Goto(r, "retrying") /\ runs' = [runs EXCEPT ![r] = WithError(runs[r], "failed")]
      BY <2>10 DEF FailReported, SetRun
    <3>2. runs'[r].status # "pending_approval"
      BY <3>1, UpdatedRow DEF RunStatus
    <3> QED BY <3>1, <3>2, GoneTo DEF ThreadComes, ThreadEnds
  <2>11. CASE RetryRun(r) \/ SkipRetry(r)
    <3>1. runs'[r] = runs[r]
      BY <2>11 DEF RetryRun, SkipRetry, Extend, tables
    <3>2. Goto(r, "failing") \/ (Leave(r) /\ thread[r].pc = "retrying")
      BY <2>11 DEF RetryRun, SkipRetry, AfterRetry, At
    <3> QED BY <2>1, <3>1, <3>2, ThreadGoesElsewhere
  <2> QED BY <1>2, <2>2, <2>3, <2>4, <2>5, <2>6, <2>7, <2>8, <2>9, <2>10, <2>11 DEF OfThread, ThreadStep
<1>3. ASSUME NEW q \in Requests, OfRequest(q) PROVE ThreadComes /\ ThreadEnds
  BY <1>1, <1>3, RequestFrame
<1>4. CASE OfBoot
  BY <1>1, <1>4, BootFrame
<1>5. CASE OfCancel \/ OfTime
  BY <1>1, <1>5 DEF OfCancel, OfTime, CancelFlag, CancelSettle, CancelRead, ComeDue, SweepStale
<1>6. CASE OfQueue
  <2>1. ASSUME NEW r \in DOMAIN runs, ClaimRun(r) PROVE ThreadComes /\ ThreadEnds
    <3>1. r \notin DOMAIN thread
      BY <2>1 DEF ClaimRun, QueuedInv, Unbegun
    <3>2. DOMAIN thread \subseteq DOMAIN thread' /\ \A s \in DOMAIN thread : thread'[s] = thread[s]
      BY <2>1, <3>1 DEF ClaimRun, Extend
    <3> QED BY <3>2 DEF ThreadComes, ThreadEnds
  <2>2. ASSUME NEW x \in Proposals \cup Agents, CreateRun(x) PROVE ThreadComes /\ ThreadEnds
    BY <1>1, <2>2 DEF CreateRun
  <2> QED BY <1>6, <2>1, <2>2 DEF OfQueue
<1>7. CASE Crash
  BY <1>7 DEF Crash, Restrict, ThreadComes, ThreadEnds
<1> QED BY <1>2, <1>3, <1>4, <1>5, <1>6, <1>7, Actors

\* The status that a decision leaves an approval with.
LEMMA DecidesOnly ==
    ASSUME ApprovalsType, NEW asks, NEW s, approvals' = DecideOnly(asks, s), NEW a \in DOMAIN approvals, Decides(a)
    PROVE  a \in asks
<1> QED BY DEF DecideOnly, Decides, Pending

LEMMA ApprovalDecidedStep ==
    ASSUME BaseInv, ToolInv, Next
    PROVE  ApprovalDecided
<1> RunsType /\ ApprovalsType /\ ThreadType /\ RequestType /\ RestType /\ ThreadInv
  BY TypeParts DEF BaseInv
<1> SUFFICES ASSUME NEW a \in DOMAIN approvals, Decides(a) PROVE DecidedBy(a)
  BY DEF ApprovalDecided
<1>1. approvals' # approvals
  BY DEF Decides
<1>2. ASSUME NEW x, approvals' = Extend(approvals, x, NewApproval) PROVE FALSE
  BY <1>2 DEF Extend, NewApproval, Decides
<1>3. a[1] \in DOMAIN runs /\ runs[a[1]] \in Run
  BY DEF ApprovalsType, RunsType
<1>4. ASSUME NEW asks, asks \subseteq due, a \in asks, runs' = Unpark(Pending(asks)) PROVE DecidedBy(a)
  <2>1. a \in Pending(asks)
    BY <1>4 DEF Decides, Pending
  <2>2. runs'[a[1]] = WithError(runs[a[1]], "failed") \/ runs[a[1]].status # "pending_approval"
    BY <1>3, <1>4, <2>1 DEF Unpark
  <2>3. runs'[a[1]].status # "pending_approval"
    BY <1>3, <1>4, <2>1, <2>2, UpdatedRow DEF Unpark, RunStatus
  <2> QED BY <1>4, <2>3 DEF DecidedBy
<1>5. ASSUME NEW r \in DOMAIN thread, OfThread(r) PROVE DecidedBy(a)
  <2>1. WithdrawAsk(r)
    BY <1>1, <1>2, <1>5 DEF OfThread, ThreadStep, LoadRun, StampPhase, Work, WorkFails, WorkRaises,
       GateRun, CompleteRun, FailRun, FailReported, RetryRun, SkipRetry, AskForRun, ParkRun,
       AskInLoop, ParkInLoop, PollDecided, PollGivesUp, FinishLoop, LoopFails, AskForRunFails,
       WithdrawAskFails, tables
  <2>2. a = Asked(r) /\ Agent(r)
    BY <2>1, DecidesOnly DEF WithdrawAsk, Decide, At, ThreadInv, ThreadOf, LoopPc
  <2> QED BY <2>2 DEF DecidedBy, Asked
<1>6. ASSUME NEW q \in Requests, OfRequest(q) PROVE DecidedBy(a)
  <2>1. CASE LazyExpire(q)
    <3> DEFINE stale == Pending({Newest(request[q].run)} \cap due)
    <3>1. stale = Pending(stale) /\ stale \subseteq due
      BY DEF Pending
    <3>2. a \in stale /\ runs' = Unpark(Pending(stale))
      BY <2>1, <3>1, DecidesOnly DEF LazyExpire
    <3> QED BY <1>4, <3>1, <3>2
  <2>2. CASE ClaimRunApproval(q)
    <3>1. a \in AsksOf(request[q].run)
      BY <2>2, DecidesOnly DEF ClaimRunApproval, Claim, Decide
    <3>2. Pending(AsksOf(request[q].run)) # {}
      BY <3>1 DEF Pending, Decides
    <3>3. request[q] \in Request /\ request' = [request EXCEPT ![q].pc = "settling"]
      BY <2>2, <3>2 DEF ClaimRunApproval, ReqGoto, RequestType
    <3>4. request'[q].run = request[q].run /\ request'[q].pc = "settling"
      BY <3>3 DEF RequestType, Request
    <3> QED BY <2>2, <3>1, <3>4 DEF DecidedBy, ClaimRunApproval, ReqAt, AsksOf
  <2>3. CASE ClaimToolApproval(q)
    <3>1. a = <<request[q].run, request[q].ask>>
      BY <2>3, DecidesOnly DEF ClaimToolApproval, Claim, Decide
    <3> QED BY <2>3, <3>1 DEF ClaimToolApproval, ReqAt, ToolInv, DecidedBy
  <2>4. CASE AttachFollowUp(q)
    <3>1. approvals[a] \in Approval
      BY DEF ApprovalsType
    <3> QED BY <2>4, <3>1 DEF AttachFollowUp, Approval, Decides
  <2>5. CASE \/ ReadApproval(q) \/ RereadApproval(q) \/ SettleRun(q) \/ CreateFollowUp(q)
             \/ QueueFollowUp(q) \/ CreateFeedbackRetry(q) \/ LazyExpireFails(q) \/ RequestAborts(q)
    BY <1>1, <2>5 DEF ReadApproval, RereadApproval, SettleRun, CreateFollowUp, QueueFollowUp,
       CreateFeedbackRetry, LazyExpireFails, RequestAborts, tables
  <2>6. ASSUME NEW decision \in {"approve", "reject"}
        PROVE  /\ \A r \in DOMAIN runs : ~ReadRun(q, r, decision)
               /\ \A b \in DOMAIN approvals : ~ReadToolApproval(q, b, decision)
    BY <1>1 DEF ReadRun, ReadToolApproval, tables
  <2> QED BY <1>6, <2>1, <2>2, <2>3, <2>4, <2>5, <2>6 DEF OfRequest, RequestStep
<1>7. CASE OfBoot
  <2>1. PICK r \in orphaned : RejectOrphaned(r)
    BY <1>1, <1>7 DEF OfBoot, BootStep, FailInterrupted, FailParked, Resume, RestartLost,
       RejectOrphanedFails, tables
  <2>2. a \in AsksOf(r)
    BY <2>1, DecidesOnly DEF RejectOrphaned, Decide
  <2> QED BY <2>2 DEF AsksOf, DecidedBy
<1>8. CASE OfCancel \/ OfQueue \/ Crash
  BY <1>1, <1>8 DEF OfCancel, CancelFlag, CancelSettle, CancelRead, OfQueue, ClaimRun, CreateRun,
     Crash, tables
<1>9. CASE OfTime
  <2>1. SweepStale
    BY <1>1, <1>9 DEF OfTime, ComeDue, tables
  <2>2. a \in due /\ runs' = Unpark(Pending(due))
    BY <2>1, DecidesOnly DEF SweepStale
  <2> QED BY <1>4, <2>2
<1> QED BY <1>5, <1>6, <1>7, <1>8, <1>9, Actors

\* A step of one request is that of no other.
LEMMA RequestAlone ==
    ASSUME RequestType, NEW q \in Requests, OfRequest(q), NEW p \in Requests, p # q
    PROVE  request'[p] = request[p]
<1>1. \A pc : ReqGoto(q, pc) => request'[p] = request[p]
  BY DEF ReqGoto, RequestType
<1>2. CASE RequestStep(q) \/ LazyExpireFails(q) \/ RequestAborts(q)
  BY <1>1, <1>2 DEF RequestStep, ReadApproval, LazyExpire, RereadApproval, ClaimRunApproval,
     SettleRun, CreateFollowUp, AttachFollowUp, QueueFollowUp, CreateFeedbackRetry,
     ClaimToolApproval, LazyExpireFails, RequestAborts
<1>3. ASSUME NEW decision \in {"approve", "reject"}
      PROVE  /\ \A r \in DOMAIN runs : ReadRun(q, r, decision) => request'[p] = request[p]
             /\ \A a \in DOMAIN approvals : ReadToolApproval(q, a, decision) => request'[p] = request[p]
  BY DEF ReadRun, ReadToolApproval, RequestType
<1> QED BY <1>2, <1>3 DEF OfRequest

LEMMA RequestSettlesStep ==
    ASSUME BaseInv, Next
    PROVE  RequestSettles
<1> RunsType /\ RequestType
  BY TypeParts DEF BaseInv
<1> SUFFICES ASSUME NEW q \in Requests, request[q].pc = "settling"
             PROVE  \/ request'[q] = request[q]
                    \/ runs'[request[q].run].status # "pending_approval"
                    \/ request[q].run \in stranded'
                    \/ executor' # "up"
  BY DEF RequestSettles
<1>1. ASSUME OfRequest(q)
      PROVE  runs'[request[q].run].status # "pending_approval" \/ request[q].run \in stranded'
  <2>1. SettleRun(q) \/ RequestAborts(q)
    BY <1>1 DEF OfRequest, RequestStep, ReadApproval, LazyExpire, RereadApproval, ClaimRunApproval,
       CreateFollowUp, AttachFollowUp, QueueFollowUp, CreateFeedbackRetry,
       ClaimToolApproval, LazyExpireFails, ReadRun, ReadToolApproval, ReqAt
  <2>2. CASE SettleRun(q)
    <3>1. request[q].run \in DOMAIN runs /\ runs[request[q].run] \in Run
      BY DEF RequestType, RunsType
    <3>2. PICK s \in {"completed", "rejected"} : SetRun(request[q].run, WithStatus(runs[request[q].run], s))
      BY <2>2 DEF SettleRun
    <3> QED BY <3>1, <3>2, UpdatedRow DEF SetRun, RunStatus
  <2> QED BY <2>1, <2>2 DEF RequestAborts
<1>2. ASSUME NEW p \in Requests, p # q, OfRequest(p) PROVE request'[q] = request[q]
  BY <1>2, RequestAlone
<1>3. CASE OfBoot \/ OfCancel \/ OfTime \/ OfQueue \/ \E r \in DOMAIN thread : OfThread(r)
  BY <1>3, BootFrame, OtherFrame, ThreadFrame
<1>4. CASE Crash
  BY <1>4 DEF Crash
<1> QED BY <1>1, <1>2, <1>3, <1>4, Actors

LEMMA RequestBeginsStep ==
    ASSUME BaseInv, Next
    PROVE  RequestBegins
<1> RunsType /\ ApprovalsType /\ RequestType
  BY TypeParts DEF BaseInv
<1> SUFFICES ASSUME NEW q \in Requests, request[q].pc = "idle", request'[q].pc # "idle"
             PROVE  \/ request'[q].pc = "reading" /\ request'[q].run \in DOMAIN runs
                          /\ runs[request'[q].run].status = "pending_approval"
                    \/ Agent(request'[q].run)
  BY DEF RequestBegins
<1>1. ~OfBoot /\ ~OfCancel /\ ~OfTime /\ ~OfQueue /\ ~\E r \in DOMAIN thread : OfThread(r)
  BY BootFrame, OtherFrame, ThreadFrame
<1>2. ~Crash
  BY DEF Crash
<1>3. \A p \in Requests : p # q => ~OfRequest(p)
  BY RequestAlone
<1>4. OfRequest(q)
  BY <1>1, <1>2, <1>3, Actors
<1>5. PICK decision \in {"approve", "reject"} :
         \/ \E r \in DOMAIN runs : ReadRun(q, r, decision)
         \/ \E a \in DOMAIN approvals : ReadToolApproval(q, a, decision)
  BY <1>4 DEF OfRequest, RequestStep, ReadApproval, LazyExpire, RereadApproval, ClaimRunApproval,
     SettleRun, CreateFollowUp, AttachFollowUp, QueueFollowUp, CreateFeedbackRetry,
     ClaimToolApproval, LazyExpireFails, RequestAborts, ReqAt
<1>6. CASE \E r \in DOMAIN runs : ReadRun(q, r, decision)
  BY <1>6 DEF ReadRun, RequestType
<1>7. CASE \E a \in DOMAIN approvals : ReadToolApproval(q, a, decision)
  BY <1>7 DEF ReadToolApproval, RequestType
<1> QED BY <1>5, <1>6, <1>7

LEMMA DueComesStep ==
    ASSUME Next
    PROVE  DueComes
<1>1. \A r \in DOMAIN thread : OfThread(r) => due' = due
  BY ThreadFrame
<1>2. \A q \in Requests : OfRequest(q) => due' = due
  BY RequestFrame
<1>3. OfBoot \/ OfCancel \/ OfQueue \/ Crash => due' = due
  BY BootFrame DEF OfCancel, OfQueue, CancelFlag, CancelSettle, CancelRead, ClaimRun, CreateRun, Crash
<1>4. OfTime => due' = due \/ \E a \in DOMAIN approvals : due' = due \cup {a} /\ ~At(a[1], "parking")
  BY DEF OfTime, SweepStale, ComeDue
<1> QED BY <1>1, <1>2, <1>3, <1>4, Actors DEF DueComes

LEMMA BootGoesStep ==
    ASSUME BaseInv, Next
    PROVE  BootGoes /\ stranded \subseteq stranded'
<1> RunsType /\ RestType
  BY TypeParts DEF BaseInv
<1>1. ASSUME NEW r \in DOMAIN thread, OfThread(r) PROVE BootGoes /\ stranded \subseteq stranded'
  <2>1. stranded \subseteq stranded'
    BY <1>1 DEF OfThread, ThreadStep, LoadRun, StampPhase, Work, WorkFails, WorkRaises, GateRun,
       CompleteRun, FailRun, FailReported, RetryRun, SkipRetry, AskForRun, ParkRun, AskInLoop,
       ParkInLoop, PollDecided, PollGivesUp, FinishLoop, LoopFails, WithdrawAsk, AskForRunFails,
       WithdrawAskFails, otherThanThread
  <2> QED BY <1>1, <2>1, ThreadFrame DEF BootGoes
<1>2. ASSUME NEW q \in Requests, OfRequest(q) PROVE BootGoes /\ stranded \subseteq stranded'
  <2>1. stranded \subseteq stranded'
    BY <1>2 DEF OfRequest, RequestStep, ReadApproval, LazyExpire, RereadApproval, ClaimRunApproval,
       SettleRun, CreateFollowUp, AttachFollowUp, QueueFollowUp, CreateFeedbackRetry, ReadRun,
       ReadToolApproval, Claim, history, otherThanRequest,
       ClaimToolApproval, LazyExpireFails, RequestAborts
  <2> QED BY <1>2, <2>1, RequestFrame DEF BootGoes
<1>3. CASE OfBoot
  <2>1. stranded' = stranded
    BY <1>3, BootFrame
  <2>2. CASE FailInterrupted
    BY <2>1, <2>2 DEF FailInterrupted, BootGoes
  <2>3. CASE FailParked
    <3>1. \A r \in DOMAIN runs : WithError(runs[r], "failed").status = "failed"
      BY UpdatedRow DEF RunsType, RunStatus
    <3>2. \A r \in DOMAIN runs' : runs'[r].status # "pending_approval"
      BY <2>3, <3>1 DEF FailParked
    <3> QED BY <2>1, <2>3, <3>2 DEF FailParked, BootGoes
  <2>4. CASE Resume
    BY <2>1, <2>4 DEF Resume, BootGoes, tables
  <2>5. CASE \E r \in lost : RestartLost(r)
    BY <2>1, <2>5 DEF RestartLost, BootGoes
  <2>6. CASE \E r \in orphaned : RejectOrphaned(r) \/ RejectOrphanedFails(r)
    BY <2>1, <2>6 DEF RejectOrphaned, RejectOrphanedFails, BootGoes
  <2> QED BY <1>3, <2>1, <2>2, <2>3, <2>4, <2>5, <2>6 DEF OfBoot, BootStep
<1>4. CASE OfCancel \/ OfTime \/ OfQueue
  BY <1>4, OtherFrame DEF BootGoes
<1>5. CASE Crash
  BY <1>5 DEF Crash, BootGoes, Restrict
<1> QED BY <1>1, <1>2, <1>3, <1>4, <1>5, Actors

\* What a step may do to the parked runs.
ParkMoves ==
    /\ RowParks
    /\ ThreadComes
    /\ ThreadEnds
    /\ ApprovalDecided
    /\ RequestSettles
    /\ RequestBegins
    /\ DueComes
    /\ BootGoes
    /\ stranded \subseteq stranded'

LEMMA StepParkMoves ==
    ASSUME BaseInv, ToolInv, Next
    PROVE  ParkMoves
<1> QED
  BY RowParksStep, ThreadEndsStep, ApprovalDecidedStep, RequestSettlesStep, RequestBeginsStep,
     DueComesStep, BootGoesStep DEF ParkMoves

\* A run that parks has a thread, and its thread goes unless it is an agent's.
LEMMA ParksHow ==
    ASSUME BaseInv, NEW r, Parks(r)
    PROVE  IF Agent(r) THEN thread[r].pc = "tool_parking" /\ r \in DOMAIN thread'
           ELSE thread[r].pc = "parking" /\ r \notin DOMAIN thread'
<1> QED BY DEF BaseInv, ThreadInv, ThreadOf, ProposalPc, LoopPc, Parks

\* What has not been parked now had not been before.
LEMMA FreshBefore ==
    ASSUME BaseInv, Moves, NEW r \in DOMAIN runs, Fresh(r)'
    PROVE  Fresh(r)
<1>1. CASE runs'[r].status = "queued"
  BY <1>1 DEF Moves, RunsMove, RowMove, Fresh
<1>2. CASE r \in DOMAIN thread'
  BY <1>2 DEF Moves, ThreadMove, Claimed, Fresh
<1>3. ASSUME NEW q \in Requests, r = First(q), request'[q].pc \in {"attaching", "queueing"}
      PROVE  Fresh(r)
  <2>1. RequestGoes(q) /\ RequestOf(q)
    BY DEF Moves, RequestMove, BaseInv, RequestInv
  <2>2. request[q].pc \in {"attaching", "queueing"}
    BY <1>3, <2>1 DEF RequestGoes, Handles, Wins, RequestOf
  <2> QED BY <1>3, <2>2 DEF Fresh
<1> QED BY <1>1, <1>2, <1>3 DEF Fresh, First

LEMMA FreshStep ==
    ASSUME BaseInv, FreshInv, Moves, ParkMoves
    PROVE  FreshInv'
<1> SUFFICES ASSUME NEW r \in DOMAIN runs', ~Agent(r), Fresh(r)'
             PROVE  ~Seen(r)' /\ runs'[r].status # "pending_approval"
  BY DEF FreshInv, Agent
<1> RequestType /\ RestType
  BY TypeParts DEF BaseInv
<1>1. ~Seen(r) /\ (r \in DOMAIN runs => runs[r].status # "pending_approval")
  <2>1. CASE r \in DOMAIN runs
    BY <2>1, FreshBefore DEF FreshInv
  <2>2. CASE r \notin DOMAIN runs
    BY <2>2 DEF Seen, RequestType, RestType
  <2> QED BY <2>1, <2>2
<1>2. r \notin orphaned'
  BY <1>1 DEF Seen, ParkMoves, BootGoes
<1>3. ASSUME NEW q \in Requests, request'[q].pc # "idle", request'[q].run = r PROVE FALSE
  <2>1. RequestGoes(q)
    BY DEF Moves, RequestMove
  <2>2. CASE request[q].pc = "idle"
    BY <1>1, <1>3, <2>2 DEF ParkMoves, RequestBegins
  <2>3. CASE request[q].pc # "idle"
    BY <1>1, <1>3, <2>1, <2>3 DEF RequestGoes, Seen
  <2> QED BY <2>2, <2>3
<1>4. ASSUME runs'[r].status = "pending_approval" PROVE FALSE
  <2>1. Parks(r)
    BY <1>1, <1>4 DEF ParkMoves, RowParks
  <2>2. r \in DOMAIN thread /\ r \notin DOMAIN thread' /\ request' = request
    BY <2>1, ParksHow DEF Parks
  <2>3. PICK q \in Requests : r = First(q) /\ request[q].pc \in {"attaching", "queueing"}
    BY <1>4, <2>2 DEF Fresh, First
  <2>4. Unbegun(r)
    BY <2>3 DEF BaseInv, RequestInv, RequestOf
  <2> QED BY <2>2, <2>4 DEF Unbegun
<1> QED BY <1>2, <1>3, <1>4 DEF Seen

LEMMA ParkingStep ==
    ASSUME BaseInv, FreshInv, ParkingInv, Moves, ParkMoves
    PROVE  ParkingInv'
<1> SUFFICES ASSUME NEW r \in DOMAIN thread' PROVE ParkingOf(r)'
  BY DEF ParkingInv
<1> ThreadType /\ RestType
  BY TypeParts DEF BaseInv
<1>1. r \in DOMAIN thread \/ Claimed(r)
  BY DEF Moves, ThreadMove
<1>2. r \in DOMAIN thread => r \in DOMAIN runs /\ ParkingOf(r) /\ ThreadOf(r)
  BY DEF ThreadType, ParkingInv, BaseInv, ThreadInv
<1>3. ASSUME thread'[r].pc \in {"loading", "retrying"} PROVE runs'[r].status # "pending_approval"
  <2>1. CASE Claimed(r)
    BY <2>1 DEF Claimed
  <2>2. CASE r \in DOMAIN thread
    <3>1. /\ thread[r].pc \in {"loading", "retrying"} \/ runs'[r].status # "pending_approval"
          /\ r \in DOMAIN runs'
      BY <1>2, <1>3, <2>2 DEF ParkMoves, ThreadComes, Moves, RunsMove
    <3>2. thread[r].pc \in {"loading", "retrying"} => runs[r].status # "pending_approval" /\ ~Parks(r)
      BY <1>2, <2>2, <3>1 DEF ParkingOf, Parks
    <3> QED BY <3>1, <3>2 DEF ParkMoves, RowParks
  <2> QED BY <1>1, <2>1, <2>2
<1>4. ASSUME thread'[r].pc = "parking"
      PROVE  AsksOf(r)' \cap due' = {} /\ (r \in stranded' \/ Pending(AsksOf(r))' # {})
  <2>1. r \in DOMAIN thread /\ (thread[r].pc = "parking" \/ Asks(r))
    BY <1>1, <1>4 DEF Claimed, ParkMoves, ThreadComes
  <2>2. CASE thread[r].pc = "parking"
    <3>1. ~Agent(r) /\ ~Seen(r)
      BY <1>2, <2>1, <2>2 DEF ThreadOf, ProposalPc, FreshInv, Fresh
    <3>2. AsksOf(r)' = AsksOf(r)
      BY <2>2 DEF AsksOf, Moves, ApprovalsMove, NewAsk
    <3>3. AsksOf(r)' \cap due' = {}
      BY <1>2, <2>1, <2>2, <3>2 DEF ParkingOf, ParkMoves, DueComes, At, AsksOf
    <3>4. ASSUME NEW a \in Pending(AsksOf(r)) PROVE a \in Pending(AsksOf(r))'
      <4>1. a \in AsksOf(r) /\ a[1] = r /\ a \in DOMAIN approvals /\ approvals[a].status = "pending"
        BY <3>4 DEF Pending, AsksOf
      <4>2. a \notin due
        BY <1>2, <2>1, <2>2, <4>1 DEF ParkingOf
      <4>3. ~DecidedBy(a)
        BY <3>1, <4>1, <4>2 DEF DecidedBy, Seen
      <4>4. approvals'[a].status = "pending"
        BY <4>1, <4>3 DEF ParkMoves, ApprovalDecided, Decides
      <4> QED BY <3>2, <4>1, <4>4 DEF Pending
    <3> QED BY <1>2, <2>1, <2>2, <3>3, <3>4 DEF ParkingOf, ParkMoves
  <2>3. CASE Asks(r)
    <3>1. AsksOf(r) = {}
      BY <1>2, <2>1, <2>3 DEF Asks, ThreadOf, ProposalPc
    <3>2. AsksOf(r)' \cap due' = {}
      BY <2>3, <3>1 DEF Asks, RestType, AsksOf
    <3>3. r \in stranded' \/ <<r, 1>> \in Pending(AsksOf(r))'
      BY <2>3 DEF Asks, Pending, AsksOf
    <3> QED BY <3>2, <3>3
  <2> QED BY <2>1, <2>2, <2>3
<1> QED BY <1>3, <1>4 DEF ParkingOf

LEMMA BootInvStep ==
    ASSUME BaseInv, ParkingInv, BootInv, Moves, ParkMoves
    PROVE  BootInv'
<1> ThreadType /\ RestType
  BY TypeParts DEF BaseInv
<1> BootGoes
  BY DEF ParkMoves
<1>1. executor' # "up" => DOMAIN thread' = {}
  <2>1. DOMAIN thread = {} /\ executor # "up" => DOMAIN thread' = {}
    BY DEF Moves, ThreadMove, Claimed
  <2> QED BY <2>1 DEF BootInv, BootGoes
<1>2. orphaned' # {} => executor' = "reaping"
  BY DEF BootInv, BootGoes
<1>3. ASSUME NEW r \in DOMAIN runs', runs'[r].status = "pending_approval"
      PROVE  /\ executor' # "reaping"
             /\ Agent(r) => executor' # "up" \/ r \in DOMAIN thread'
  <2>1. r \in DOMAIN runs /\ (runs[r].status = "pending_approval" \/ Parks(r))
    BY <1>3 DEF ParkMoves, RowParks
  <2>2. CASE Parks(r)
    <3>1. executor = "up" /\ executor' = "up"
      BY <2>2 DEF Parks, BootInv
    <3> QED BY <2>2, <3>1, ParksHow
  <2>3. CASE runs[r].status = "pending_approval" /\ ~Parks(r)
    <3>1. executor # "reaping" /\ (Agent(r) => executor # "up" \/ r \in DOMAIN thread)
      BY <2>1, <2>3 DEF BootInv
    <3>2. executor' # "reaping"
      BY <1>3, <3>1 DEF BootGoes
    <3>3. ASSUME Agent(r), executor' = "up" PROVE r \in DOMAIN thread'
      <4>1. r \in DOMAIN thread
        BY <3>1, <3>3 DEF BootGoes
      <4>2. thread[r].pc \notin {"loading", "retrying"}
        BY <2>3, <4>1 DEF ParkingInv, ParkingOf
      <4> QED BY <1>3, <2>3, <3>3, <4>1, <4>2 DEF ParkMoves, ThreadEnds
    <3> QED BY <3>2, <3>3
  <2> QED BY <2>1, <2>2, <2>3
<1> QED BY <1>1, <1>2, <1>3 DEF BootInv, Agent

LEMMA ToolStep ==
    ASSUME BaseInv, ToolInv, Moves, ParkMoves
    PROVE  ToolInv'
<1> SUFFICES ASSUME NEW q \in Requests, request'[q].pc = "claiming_tool" PROVE Agent(request'[q].run)
  BY DEF ToolInv, Agent
<1>1. RequestGoes(q)
  BY DEF Moves, RequestMove
<1>2. CASE request'[q] = request[q]
  BY <1>2 DEF ToolInv
<1>3. CASE request[q].pc = "idle"
  BY <1>3 DEF ParkMoves, RequestBegins
<1>4. CASE Handles(q)
  BY <1>4 DEF Handles, Wins
<1> QED BY <1>1, <1>2, <1>3, <1>4 DEF RequestGoes

LEMMA AttendedStep ==
    ASSUME AttendInv, Moves, ParkMoves, BootInv'
    PROVE  ParkedIsAttended'
<1> BaseInv /\ FreshInv /\ ParkingInv /\ BootInv
  BY DEF AttendInv
<1> SUFFICES ASSUME NEW r \in DOMAIN runs' \ stranded', runs'[r].status = "pending_approval",
                    executor' = "up", r \notin DOMAIN thread'
             PROVE  \/ Pending(AsksOf(r))' # {}
                    \/ \E q \in Requests : request'[q].run = r /\ request'[q].pc = "settling"
  BY DEF ParkedIsAttended
<1>1. ~Agent(r)
  BY DEF BootInv, Agent
<1>2. r \notin stranded
  BY DEF ParkMoves
<1>3. r \in DOMAIN runs /\ (runs[r].status = "pending_approval" \/ Parks(r))
  BY DEF ParkMoves, RowParks
<1>4. CASE Parks(r)
  <2>1. ParkingOf(r) /\ thread[r].pc = "parking" /\ approvals' = approvals
    BY <1>1, <1>4, ParksHow DEF Parks, ParkingInv
  <2>2. Pending(AsksOf(r)) # {}
    BY <1>2, <2>1 DEF ParkingOf
  <2> QED BY <2>1, <2>2 DEF Pending, AsksOf
<1>5. CASE runs[r].status = "pending_approval"
  <2>1. executor = "up"
    BY <1>3, <1>5 DEF ParkMoves, BootGoes, BootInv
  <2>2. r \notin DOMAIN thread
    BY <1>1, <1>3, <1>5 DEF FreshInv, Fresh
  <2>3. Pending(AsksOf(r)) # {} \/ \E q \in Requests : request[q].run = r /\ request[q].pc = "settling"
    BY <1>2, <1>3, <1>5, <2>1, <2>2 DEF AttendInv, ParkedIsAttended
  <2>4. ASSUME NEW a \in Pending(AsksOf(r)), approvals'[a].status # "pending"
        PROVE  \E q \in Requests : request'[q].run = r /\ request'[q].pc = "settling"
    <3>1. a[1] = r /\ a \in DOMAIN approvals /\ Decides(a)
      BY <2>4 DEF Pending, AsksOf, Decides
    <3>2. DecidedBy(a)
      BY <3>1 DEF ParkMoves, ApprovalDecided
    <3>3. r \notin orphaned
      BY <2>1 DEF BootInv
    <3> QED BY <1>1, <3>1, <3>2, <3>3 DEF DecidedBy
  <2>5. ASSUME NEW a \in Pending(AsksOf(r)), approvals'[a].status = "pending"
        PROVE  Pending(AsksOf(r))' # {}
    BY <2>5 DEF Pending, AsksOf, Moves, ApprovalsMove
  <2>6. ASSUME NEW q \in Requests, request[q].run = r, request[q].pc = "settling"
        PROVE  request'[q].run = r /\ request'[q].pc = "settling"
    BY <2>6 DEF ParkMoves, RequestSettles
  <2> QED BY <2>3, <2>4, <2>5, <2>6
<1> QED BY <1>3, <1>4, <1>5

LEMMA AttendInit == Init => AttendInv
<1> SUFFICES ASSUME Init PROVE AttendInv
  OBVIOUS
<1>1. DOMAIN runs = {} /\ DOMAIN thread = {} /\ executor = "up" /\ orphaned = {}
      /\ request = [q \in Requests |-> NoRequest]
  BY DEF Init
<1> QED BY <1>1, BaseInit
     DEF AttendInv, FreshInv, ParkingInv, BootInv, ToolInv, ParkedIsAttended, NoRequest

LEMMA AttendStep == AttendInv /\ [Next]_vars => AttendInv'
<1> SUFFICES ASSUME AttendInv, [Next]_vars PROVE AttendInv'
  OBVIOUS
<1>1. BaseInv'
  BY BaseStep DEF AttendInv
<1>2. CASE Next
  <2>1. Moves /\ ParkMoves
    BY <1>2, StepMoves, StepParkMoves DEF AttendInv
  <2>2. FreshInv' /\ ParkingInv' /\ BootInv' /\ ToolInv'
    BY <2>1, FreshStep, ParkingStep, BootInvStep, ToolStep DEF AttendInv
  <2> QED BY <1>1, <2>1, <2>2, AttendedStep DEF AttendInv
<1>3. CASE UNCHANGED vars
  <2>1. /\ runs' = runs /\ approvals' = approvals /\ due' = due /\ thread' = thread
        /\ executor' = executor /\ orphaned' = orphaned /\ request' = request
        /\ stranded' = stranded
    BY <1>3 DEF vars, tables, boot, history
  <2>2. ASSUME NEW r PROVE AsksOf(r)' = AsksOf(r) /\ Pending(AsksOf(r))' = Pending(AsksOf(r))
    BY <2>1 DEF AsksOf, Pending
  <2>3. FreshInv' /\ BootInv' /\ ToolInv'
    BY <2>1 DEF AttendInv, FreshInv, Fresh, Seen, First, BootInv, ToolInv, Agent
  <2>4. ParkingInv' /\ ParkedIsAttended'
    BY <2>1, <2>2 DEF AttendInv, ParkingInv, ParkingOf, ParkedIsAttended
  <2> QED BY <1>1, <2>3, <2>4 DEF AttendInv
<1> QED BY <1>2, <1>3

\* Two processes or one, whatever faults, reviewers and cancels come between: a parked
\* run has an approval that somebody can still decide, a request that has decided it and
\* settles the run, an agent that polls, or a boot that reaps it, unless a fault has
\* stranded it (approve_run: else "stuck at pending_approval forever").
THEOREM ParkedAttended == Spec => []ParkedIsAttended
<1>1. AttendInv => ParkedIsAttended
  BY DEF AttendInv
<1> QED BY <1>1, AttendInit, AttendStep, PTL DEF Spec
=============================================================================
