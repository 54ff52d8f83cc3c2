------------------------ MODULE RunLifecycle_proofs ------------------------
(***************************************************************************)
(* Theorems about RunLifecycle, for every value of its constants.          *)
(***************************************************************************)
EXTENDS RunLifecycle, FiniteSetTheorems, TLAPS

-----------------------------------------------------------------------------
(* Rows *)

\* Whatever an action writes into the table is a row.
LEMMA RowTypes ==
    ASSUME NEW row \in Row, NEW status \in Status, NEW error \in ErrorCode
    PROVE  /\ Written(row, status, error) \in Row
           /\ Failed(row) \in Row
           /\ WithStatus(row, status) \in Row
           /\ Flagged(row) \in Row
           /\ Logged(row) \in Row
           /\ RequeuedRow(row) \in Row
<1>1. \A s \in Status, e \in ErrorCode : Written(row, s, e) \in Row
  <2> TAKE s \in Status, e \in ErrorCode
  <2> DEFINE mid == [row EXCEPT !.status = s]
  <2>1. mid \in Row
    BY SMT DEF Row, Status
  <2>2. [mid EXCEPT !.error = e] \in Row
    <3> HIDE DEF mid
    <3> QED BY <2>1, SMT DEF Row, ErrorCode
  <2> QED BY <2>2 DEF Written
<1>2. Failed(row) \in Row
  BY <1>1 DEF Failed, Status, ErrorCode
<1>3. WithStatus(row, status) \in Row
  BY SMT DEF WithStatus, Row, Status
<1>4. \A b \in BOOLEAN : /\ [row EXCEPT !.cancelRequested = b] \in Row
                        /\ [row EXCEPT !.executionLog = b] \in Row
  BY SMT DEF Row
<1>5. Flagged(row) \in Row /\ Logged(row) \in Row
  BY <1>4 DEF Flagged, Logged
<1>6. RequeuedRow(row) \in Row
  <2> DEFINE r1 == [row EXCEPT !.status = "queued"]
  <2> DEFINE r2 == [r1 EXCEPT !.source = "restart_retry"]
  <2> DEFINE r3 == [r2 EXCEPT !.error = "none"]
  <2>1. r1 \in Row
    BY SMT DEF Row, Status
  <2>2. r2 \in Row
    <3> HIDE DEF r1
    <3> QED BY <2>1, SMT DEF Row, Source, RetrySource
  <2>3. r3 \in Row
    <3> HIDE DEF r2
    <3> QED BY <2>2, SMT DEF Row, ErrorCode
  <2>4. \A b \in BOOLEAN : [r3 EXCEPT !.cancelRequested = b] \in Row
    <3> HIDE DEF r3
    <3> QED BY <2>3, SMT DEF Row
  <2>5. RequeuedRow(row) = [r3 EXCEPT !.cancelRequested = FALSE]
    BY DEF RequeuedRow
  <2> QED BY <2>4, <2>5
<1> QED BY <1>1, <1>2, <1>3, <1>4, <1>5, <1>6

-----------------------------------------------------------------------------
(* Types *)

\* TypeOK without the capacities of the pools, which PermitsBalance gives, and with
\* what keeps unflagged inside snapshot: this is inductive on its own.
TypeInv ==
    /\ runs \in [DOMAIN runs -> Row]
    /\ DOMAIN runs \subseteq RunId
    /\ proc \in {"up", "stopping", "listed", "cancelling", "requeueing", "down", "booting"}
    /\ free \in Nat
    /\ llmFree \in Nat
    /\ drain \in DOMAIN runs \cup {NoRun}
    /\ thread \in [DOMAIN thread -> Thread]
    /\ DOMAIN thread \subseteq DOMAIN runs
    /\ marked \subseteq DOMAIN runs
    /\ interrupted \subseteq DOMAIN runs
    /\ snapshot \subseteq DOMAIN runs
    /\ unflagged \subseteq snapshot
    /\ proc # "cancelling" => unflagged = {}
    /\ reaping \subseteq DOMAIN runs
    /\ recreating \in DOMAIN runs \cup {NoRun}
    /\ cancel \in [DOMAIN cancel -> [seen : Status, flagged : BOOLEAN]]
    /\ DOMAIN cancel \subseteq DOMAIN runs
    /\ begun \subseteq DOMAIN runs
    /\ faults \in 0..MaxFaults
    /\ cancels \in 0..MaxCancels

\* What every step may do to the table: rows stay rows and none is removed.
TableNext ==
    /\ runs' \in [DOMAIN runs' -> Row]
    /\ DOMAIN runs \subseteq DOMAIN runs'
    /\ DOMAIN runs' \subseteq RunId

\* What a step inside a thread may do to the threads.
ThreadsNext == thread' \in [DOMAIN thread -> Thread]

\* The stages a thread moves to with the result it has.
Stage == (PreCommand \cup PostCommand) \ {"completing"}

LEMMA TableSame ==
    ASSUME TypeInv, UNCHANGED runs
    PROVE  TableNext
BY DEF TypeInv, TableNext

LEMMA SetRowType ==
    ASSUME TypeInv, NEW r \in DOMAIN runs, NEW row \in Row, SetRow(r, row)
    PROVE  TableNext /\ DOMAIN runs' = DOMAIN runs
BY DEF TypeInv, TableNext, SetRow

LEMMA RowOf ==
    ASSUME TypeInv, NEW r \in DOMAIN runs
    PROVE  runs[r] \in Row
BY DEF TypeInv

LEMMA GotoType ==
    ASSUME TypeInv, NEW r \in DOMAIN thread, NEW pc \in Stage,
           Goto(r, pc)
    PROVE  ThreadsNext
BY SMT DEF Stage, TypeInv, ThreadsNext, Goto, Thread

LEMMA ReturnType ==
    ASSUME TypeInv, NEW r \in DOMAIN thread, NEW result \in Result,
           Return(r, result)
    PROVE  ThreadsNext
BY SMT DEF TypeInv, ThreadsNext, Return, Thread, PostCommand

\* A step of a thread that stays inside the thread.
LEMMA ThreadFrame ==
    ASSUME TypeInv, TableNext, ThreadsNext, UNCHANGED <<otherThanThread, cancels>>,
           begun' \subseteq DOMAIN runs', faults' \in 0..MaxFaults
    PROVE  TypeInv'
BY SMT DEF TypeInv, TableNext, ThreadsNext, otherThanThread, permits, shutdown, recovery

\* ... and that neither starts a command nor is a fault.
LEMMA QuietThreadFrame ==
    ASSUME TypeInv, TableNext, ThreadsNext, UNCHANGED <<otherThanThread, begun, bounds>>
    PROVE  TypeInv'
<1>1. begun' \subseteq DOMAIN runs' /\ faults' \in 0..MaxFaults
  BY DEF TypeInv, TableNext, bounds
<1> QED
  BY <1>1, ThreadFrame DEF bounds

LEMMA FaultType ==
    ASSUME TypeInv, NEW kind, Fault(kind)
    PROVE  faults' \in 0..MaxFaults
BY ConstantsAssumption, SMT DEF TypeInv, Fault

\* The child of a run is a run, one attempt further.
LEMMA WithChildType ==
    ASSUME TypeInv, NEW r \in DOMAIN runs, NEW source \in RetrySource,
           runs' = WithChild(r, source)
    PROVE  TableNext
<1> DEFINE c == RetryRunId(r, source)
           row == NewRow(source, runs[r].attempt + 1)
<1>1. c \in RunId
  <2>1. r \in RunId /\ r.path \in Seq(RetrySource)
    BY SMT DEF TypeInv, RunId
  <2>2. Append(r.path, source) \in Seq(RetrySource)
    BY <2>1
  <2>3. \A path \in Seq(RetrySource) : [r EXCEPT !.path = path] \in RunId
    BY <2>1, SMT DEF RunId
  <2>4. c = [r EXCEPT !.path = Append(r.path, source)]
    BY DEF RetryRunId
  <2> QED BY <2>2, <2>3, <2>4
<1>2. row \in Row
  BY RowOf, SMT DEF NewRow, Row, Status, Source, ErrorCode
<1>3. CASE c \in DOMAIN runs
  BY <1>3, TableSame DEF WithChild
<1>4. CASE c \notin DOMAIN runs
  <2>1. runs' = Extend(runs, c, row)
    BY <1>4 DEF WithChild
  <2> HIDE DEF c, row
  <2> QED
    BY <1>1, <1>2, <2>1, SMT DEF TypeInv, TableNext, Extend
<1> QED BY <1>3, <1>4

LEMMA ThreadInTable ==
    ASSUME TypeInv, NEW r, NEW pc, At(r, pc)
    PROVE  r \in DOMAIN thread /\ r \in DOMAIN runs
BY DEF TypeInv, At

\* A write of one row of the table and a move of its thread.
LEMMA WriteAndGoto ==
    ASSUME TypeInv, NEW r \in DOMAIN thread, NEW row \in Row,
           NEW pc \in Stage,
           SetRow(r, row), Goto(r, pc)
    PROVE  TableNext /\ ThreadsNext
BY SetRowType, GotoType DEF TypeInv

LEMMA SettleType ==
    ASSUME TypeInv, NEW r \in DOMAIN thread, NEW row \in Row,
           NEW pc \in {"exit", "finishing"}, Settle(r, row, pc)
    PROVE  TypeInv'
<1>1. SetRow(r, row) /\ Goto(r, pc) /\ UNCHANGED <<otherThanThread, begun, bounds>>
  BY DEF Settle
<1>2. TableNext /\ ThreadsNext
  BY <1>1, WriteAndGoto DEF Stage, PostCommand
<1> QED BY <1>1, <1>2, QuietThreadFrame

\* A thread that only moves on.
LEMMA GotoStep ==
    ASSUME TypeInv, NEW r \in DOMAIN thread, NEW pc \in Stage,
           Goto(r, pc), UNCHANGED <<runs, otherThanThread, begun, bounds>>
    PROVE  TypeInv'
BY TableSame, GotoType, QuietThreadFrame

LEMMA ReturnStep ==
    ASSUME TypeInv, NEW r \in DOMAIN thread, NEW result \in Result,
           Return(r, result), UNCHANGED <<runs, otherThanThread, begun, bounds>>
    PROVE  TypeInv'
BY TableSame, ReturnType, QuietThreadFrame

LEMMA ChildStep ==
    ASSUME TypeInv, NEW r \in DOMAIN thread, NEW source \in RetrySource,
           NEW pc \in Stage,
           runs' = WithChild(r, source), Goto(r, pc),
           UNCHANGED <<otherThanThread, begun, bounds>>
    PROVE  TypeInv'
<1>1. TableNext
  BY WithChildType DEF TypeInv
<1> QED BY <1>1, GotoType, QuietThreadFrame

\* The thread's finally block, and a dispatch undone: the thread is gone.
LEMMA UnregisterType ==
    ASSUME TypeInv, TableNext, NEW r \in DOMAIN thread, Unregister(r), ReleasePermits(r),
           interrupted' = interrupted \ {r}, faults' \in 0..MaxFaults,
           UNCHANGED <<proc, drain, marked, shutdown, recovery, cancel, begun, cancels>>
    PROVE  TypeInv'
<1>1. DOMAIN thread' = DOMAIN thread \ {r}
      /\ thread' \in [DOMAIN thread \ {r} -> Thread]
  BY SMT DEF TypeInv, Unregister, Restrict
<1>2. free' \in Nat /\ llmFree' \in Nat
  BY SMT DEF TypeInv, ReleasePermits, LlmCost
<1> QED
  BY <1>1, <1>2, SMT DEF TypeInv, TableNext, shutdown, recovery

LEMMA ReportedType ==
    ASSUME TypeInv, NEW r \in DOMAIN thread, NEW results \in SUBSET Result,
           Reported(r, results), UNCHANGED <<runs, otherThanThread, begun, bounds>>
    PROVE  TypeInv'
<1>1. PICK result \in Result : Return(r, result)
  BY DEF Reported, Result
<1> QED BY <1>1, ReturnStep

LEMMA DriverStepType ==
    ASSUME TypeInv, NEW r \in DOMAIN thread, DriverStep(r)
    PROVE  TypeInv'
<1> r \in DOMAIN runs /\ runs[r] \in Row
  BY RowOf DEF TypeInv
<1>1. CASE GateSpawn(r)
  <2>1. CASE runs[r].cancelRequested
    BY <1>1, <2>1, ReturnStep DEF GateSpawn, Result
  <2>2. CASE ~runs[r].cancelRequested
    <3>1. SetRow(r, Logged(runs[r])) /\ Goto(r, "sandbox")
      BY <1>1, <2>2 DEF GateSpawn
    <3>2. TableNext /\ ThreadsNext
      BY <3>1, RowTypes, WriteAndGoto DEF Stage, PreCommand, Status, ErrorCode
    <3> QED BY <1>1, <3>2, QuietThreadFrame DEF GateSpawn
  <2> QED BY <2>1, <2>2
<1>2. CASE DriverFails(r)
  BY <1>2, ReportedType DEF DriverFails, Result
<1>3. CASE DriverRaises(r)
  <2>1. ThreadsNext
    BY <1>3, SMT DEF DriverRaises, TypeInv, ThreadsNext, Thread, PostCommand, Result
  <2> QED BY <1>3, <2>1, TableSame, QuietThreadFrame DEF DriverRaises
<1>4. CASE GateCommand(r)
  <2>1. CASE runs[r].cancelRequested
    BY <1>4, <2>1, ReturnStep DEF GateCommand, Result, otherThanThread
  <2>2. CASE ~runs[r].cancelRequested
    <3>1. ThreadsNext
      BY <1>4, <2>2, GotoType DEF GateCommand, Stage, PostCommand
    <3> QED BY <1>4, <2>2, <3>1, SMT DEF GateCommand, TypeInv, ThreadsNext,
                                permits, shutdown, recovery, bounds
  <2> QED BY <2>1, <2>2
<1>5. CASE GateAgentLoop(r)
  <2>1. CASE runs[r].cancelRequested
    BY <1>5, <2>1, ReturnStep DEF GateAgentLoop, Result
  <2>2. CASE ~runs[r].cancelRequested
    <3>1. SetRow(r, Logged(runs[r])) /\ Goto(r, "command")
      BY <1>5, <2>2 DEF GateAgentLoop
    <3>2. TableNext /\ ThreadsNext
      BY <3>1, RowTypes, WriteAndGoto DEF Stage, PostCommand, Status, ErrorCode
    <3>3. begun' \subseteq DOMAIN runs' /\ UNCHANGED <<otherThanThread, bounds>>
      BY <1>5, <2>2, <3>2 DEF GateAgentLoop, TypeInv, TableNext
    <3>4. faults' \in 0..MaxFaults
      BY <3>3 DEF TypeInv, bounds
    <3> QED BY <3>2, <3>3, <3>4, ThreadFrame DEF bounds
  <2> QED BY <2>1, <2>2
<1>6. CASE CommandReturns(r)
  BY <1>6, ReportedType DEF CommandReturns, Result
<1> QED BY <1>1, <1>2, <1>3, <1>4, <1>5, <1>6 DEF DriverStep

LEMMA SettleStepType ==
    ASSUME TypeInv, NEW r \in DOMAIN thread, SettleStep(r)
    PROVE  TypeInv'
<1> r \in DOMAIN runs /\ runs[r] \in Row
  BY RowOf DEF TypeInv
<1>1. /\ Failed(runs[r]) \in Row
      /\ Written(runs[r], "cancelled", "user_cancel") \in Row
      /\ WithStatus(runs[r], "pending_approval") \in Row
  BY RowTypes DEF Status, ErrorCode
<1>2. CASE SettleInterrupted(r) \/ SettleFailed(r) \/ FailRaised(r)
  BY <1>1, <1>2, SettleType DEF SettleInterrupted, SettleFailed, FailRaised
<1>3. CASE SettleCancelled(r) \/ SettlePending(r)
  BY <1>1, <1>3, SettleType DEF SettleCancelled, SettlePending
<1>4. CASE SettleRetryable(r)
  <2>1. SetRow(r, Failed(runs[r])) /\ Goto(r, "retry_check")
    BY <1>4 DEF SettleRetryable, Settle
  <2>2. TableNext /\ ThreadsNext
    BY <1>1, <2>1, WriteAndGoto DEF Stage, PostCommand
  <2> QED BY <1>4, <2>2, QuietThreadFrame DEF SettleRetryable, Settle
<1>5. CASE ReadForCompletion(r)
  <2>1. runs[r].error \in ErrorCode
    BY DEF Row
  <2>2. ThreadsNext
    BY <1>5, <2>1, SMT DEF ReadForCompletion, TypeInv, ThreadsNext, Thread, PostCommand
  <2> QED BY <1>5, <2>2, TableSame, QuietThreadFrame DEF ReadForCompletion
<1>6. CASE WriteCompletion(r)
  <2> DEFINE seen == thread[r].res
             status == IF seen = "none" THEN "completed" ELSE "failed"
  <2>1. Settle(r, Written(runs[r], status, seen), "finishing") /\ At(r, "completing")
    BY <1>6 DEF WriteCompletion
  <2>2. seen \in ErrorCode
    BY <2>1, SMT DEF TypeInv, At, Thread
  <2>3. Written(runs[r], status, seen) \in Row
    BY <2>2, RowTypes DEF Status
  <2> HIDE DEF seen, status
  <2> QED BY <2>1, <2>3, SettleType
<1> QED BY <1>2, <1>3, <1>4, <1>5, <1>6 DEF SettleStep

LEMMA RetryStepType ==
    ASSUME TypeInv, NEW r \in DOMAIN thread, RetryStep(r)
    PROVE  TypeInv'
<1> r \in DOMAIN runs
  BY DEF TypeInv
<1>1. AfterRetry(r) \in Stage
  BY DEF AfterRetry, Stage, PostCommand
<1>2. CASE CheckRetry(r) \/ CheckRestart(r) \/ SkipRestart(r)
  BY <1>2, GotoStep DEF CheckRetry, CheckRestart, SkipRestart, Stage, PostCommand
<1>3. CASE SkipRetry(r)
  BY <1>1, <1>3, GotoStep DEF SkipRetry
<1>4. CASE CreateRetry(r)
  BY <1>1, <1>4, ChildStep DEF CreateRetry, RetrySource
<1>5. CASE CreateRestart(r)
  BY <1>5, ChildStep DEF CreateRestart, RetrySource, Stage, PostCommand
<1> QED BY <1>2, <1>3, <1>4, <1>5 DEF RetryStep

LEMMA ThreadStepType ==
    ASSUME TypeInv, NEW r \in DOMAIN thread, ThreadStep(r)
    PROVE  TypeInv'
<1> r \in DOMAIN runs /\ runs[r] \in Row
  BY RowOf DEF TypeInv
<1>1. Failed(runs[r]) \in Row
  BY RowTypes DEF Status, ErrorCode
<1>2. CASE EnterThread(r) \/ LoadRun(r) \/ RecheckStatus(r) \/ FinishRun(r)
  BY <1>2, GotoStep
  DEF EnterThread, LoadRun, RecheckStatus, FinishRun, Stage, PreCommand, PreSandbox, PostCommand
<1>3. CASE AbortCancelled(r) \/ FailSetup(r) \/ FailCrashed(r)
  <2>1. PICK pc \in Stage : SetRow(r, Failed(runs[r])) /\ Goto(r, pc)
    BY <1>3 DEF AbortCancelled, FailSetup, FailCrashed, Stage, PostCommand
  <2>2. TableNext /\ ThreadsNext
    BY <1>1, <2>1, WriteAndGoto
  <2> QED BY <1>3, <2>2, QuietThreadFrame DEF AbortCancelled, FailSetup, FailCrashed
<1>4. CASE ExitThread(r)
  <2>1. TableNext /\ faults' \in 0..MaxFaults
    BY <1>4, TableSame DEF ExitThread, TypeInv, bounds
  <2> QED BY <1>4, <2>1, UnregisterType DEF ExitThread, bounds
<1>5. CASE DriverStep(r) \/ SettleStep(r) \/ RetryStep(r)
  BY <1>5, DriverStepType, SettleStepType, RetryStepType
<1> QED BY <1>2, <1>3, <1>4, <1>5 DEF ThreadStep

LEMMA DrainStepType ==
    ASSUME TypeInv, DrainStep
    PROVE  TypeInv'
<1>1. CASE \E r \in DOMAIN runs : DrainAcquire(r)
  BY <1>1, SMT DEF DrainAcquire, TypeInv, LlmCost, shutdown, recovery, bounds
<1>2. CASE DrainClaim
  <2> DEFINE new == [pc |-> "claimed", res |-> "none"]
  <2>1. drain \in DOMAIN runs
    BY <1>2 DEF DrainClaim, TypeInv
  <2>2. Written(runs[drain], "running", "none") \in Row
    BY <2>1, RowOf, RowTypes DEF Status, ErrorCode
  <2>3. TableNext /\ DOMAIN runs' = DOMAIN runs
    BY <1>2, <2>1, <2>2, SetRowType DEF DrainClaim
  <2>4. new \in Thread
    BY DEF Thread, PreCommand, PreSandbox, ErrorCode
  <2>5. thread' = Extend(thread, drain, new)
    BY <1>2 DEF DrainClaim
  <2>6. /\ DOMAIN thread' = DOMAIN thread \cup {drain}
        /\ thread' \in [DOMAIN thread' -> Thread]
    <3> HIDE DEF new
    <3> QED BY <2>4, <2>5, SMT DEF TypeInv, Extend
  <2> QED BY <1>2, <2>1, <2>3, <2>6, SMT DEF DrainClaim, TypeInv, TableNext,
                                            permits, shutdown, recovery, bounds
<1>3. CASE DrainLoseClaim
  BY <1>3, SMT DEF DrainLoseClaim, ReleasePermits, LlmCost, TypeInv, shutdown, recovery, bounds
<1> QED BY <1>1, <1>2, <1>3 DEF DrainStep

LEMMA ReaperStepType ==
    ASSUME TypeInv, ReaperStep
    PROVE  TypeInv'
<1>1. CASE \E r \in DOMAIN runs : ReapRow(r)
  <2>1. PICK r \in DOMAIN runs : ReapRow(r)
    BY <1>1
  <2>2. Failed(runs[r]) \in Row
    BY RowOf, RowTypes DEF Status, ErrorCode
  <2>3. TableNext
    BY <2>1, <2>2, SetRowType DEF ReapRow
  <2> QED BY <2>1, <2>3, SMT DEF ReapRow, TypeInv, TableNext, permits, shutdown, bounds
<1>2. CASE \E r \in DOMAIN runs : ReaperCheck(r) \/ ReaperSkip(r)
  BY <1>2, SMT DEF ReaperCheck, ReaperSkip, TypeInv, permits, shutdown, bounds
<1>3. CASE ReaperCreate
  <2>1. TableNext
    BY <1>3, WithChildType DEF ReaperCreate, TypeInv, RetrySource
  <2> QED BY <1>3, <2>1, SMT DEF ReaperCreate, TypeInv, TableNext, permits, shutdown, bounds
<1> QED BY <1>1, <1>2, <1>3 DEF ReaperStep

LEMMA WipeType ==
    ASSUME TypeInv, WipeMemory, proc' = "down", faults' \in 0..MaxFaults,
           UNCHANGED <<runs, cancel, begun, cancels>>
    PROVE  TypeInv'
BY ConstantsAssumption, SMT DEF TypeInv, WipeMemory

\* A pass over the whole table.
LEMMA SweepType ==
    ASSUME TypeInv, NEW status,
           runs' = [r \in DOMAIN runs |-> IF runs[r].status = status
                                         THEN Failed(runs[r]) ELSE runs[r]]
    PROVE  TableNext /\ DOMAIN runs' = DOMAIN runs
<1>1. \A r \in DOMAIN runs : runs[r] \in Row /\ Failed(runs[r]) \in Row
  BY RowOf, RowTypes DEF Status, ErrorCode
<1> QED BY <1>1 DEF TypeInv, TableNext

LEMMA ProcessStepType ==
    ASSUME TypeInv, ProcessStep
    PROVE  TypeInv'
<1>1. CASE Boot
  <2>1. TableNext /\ DOMAIN runs' = DOMAIN runs
    BY <1>1, SweepType DEF Boot
  <2> QED BY <1>1, <2>1, SMT DEF Boot, TypeInv, TableNext, permits, shutdown, bounds
<1>2. CASE BootDone
  <2>1. TableNext /\ DOMAIN runs' = DOMAIN runs
    BY <1>2, SweepType DEF BootDone
  <2> QED BY <1>2, <2>1, SMT DEF BootDone, TypeInv, TableNext, permits, shutdown, recovery, bounds
<1>3. CASE ListActiveRuns \/ MarkActiveRuns \/ JoinActiveRuns
  BY <1>3, SMT DEF ListActiveRuns, MarkActiveRuns, JoinActiveRuns, TypeInv, permits, recovery, bounds
<1>4. CASE ExitProcess
  BY <1>4, WipeType DEF ExitProcess, TypeInv, bounds
<1>5. ASSUME NEW r \in snapshot, FlagActiveRun(r) \/ RequeueInPlace(r) \/ SkipInPlace(r)
      PROVE  TypeInv'
  <2> r \in DOMAIN runs
    BY DEF TypeInv
  <2>1. Flagged(runs[r]) \in Row /\ RequeuedRow(runs[r]) \in Row
    BY RowOf, RowTypes DEF Status, ErrorCode
  <2>2. CASE FlagActiveRun(r)
    <3>1. TableNext /\ DOMAIN runs' = DOMAIN runs
      BY <2>1, <2>2, SetRowType DEF FlagActiveRun
    <3> QED BY <2>2, <3>1, SMT DEF FlagActiveRun, TypeInv, TableNext, permits, recovery, bounds
  <2>3. CASE RequeueInPlace(r)
    <3>1. TableNext /\ DOMAIN runs' = DOMAIN runs
      BY <2>1, <2>3, SetRowType DEF RequeueInPlace
    <3> QED BY <2>3, <3>1, SMT DEF RequeueInPlace, TypeInv, TableNext, permits, recovery, bounds
  <2>4. CASE SkipInPlace(r)
    BY <2>4, SMT DEF SkipInPlace, TypeInv, permits, recovery, bounds
  <2> QED BY <1>5, <2>2, <2>3, <2>4
<1> QED BY <1>1, <1>2, <1>3, <1>4, <1>5 DEF ProcessStep

\* A step of a request: the executor's memory is untouched.
LEMMA RequestFrame ==
    ASSUME TypeInv, TableNext, UNCHANGED <<memory, begun>>,
           cancel' \in [DOMAIN cancel' -> [seen : Status, flagged : BOOLEAN]],
           DOMAIN cancel' \subseteq DOMAIN runs',
           faults' \in 0..MaxFaults, cancels' \in 0..MaxCancels
    PROVE  TypeInv'
<1>1. UNCHANGED <<proc, free, llmFree, drain, thread, marked, interrupted, snapshot,
                  unflagged, reaping, recreating, begun>>
  BY DEF memory, permits, shutdown, recovery
<1> QED
  BY <1>1, SMT DEF TypeInv, TableNext

LEMMA CancelStepType ==
    ASSUME TypeInv, NEW r \in DOMAIN cancel, CancelFlag(r) \/ CancelSettle(r) \/ CancelDies(r)
    PROVE  TypeInv'
<1> r \in DOMAIN runs /\ runs[r] \in Row
  BY RowOf DEF TypeInv
<1> cancel[r] \in [seen : Status, flagged : BOOLEAN]
  BY DEF TypeInv
<1>1. CASE CancelFlag(r)
  <2>1. TableNext /\ DOMAIN runs' = DOMAIN runs
    BY <1>1, RowTypes, SetRowType DEF CancelFlag, Status, ErrorCode
  <2>2. DOMAIN cancel' = DOMAIN cancel /\ cancel' \in [DOMAIN cancel -> [seen : Status, flagged : BOOLEAN]]
    <3>1. \A b \in BOOLEAN : [cancel[r] EXCEPT !.flagged = b] \in [seen : Status, flagged : BOOLEAN]
      BY SMT
    <3>2. cancel' = [cancel EXCEPT ![r] = [cancel[r] EXCEPT !.flagged = TRUE]]
      BY <1>1 DEF CancelFlag
    <3> QED BY <3>1, <3>2 DEF TypeInv
  <2> QED BY <1>1, <2>1, <2>2, RequestFrame DEF CancelFlag, TypeInv, bounds
<1>2. CASE CancelSettle(r)
  <2>1. CancelOutcome(runs[r], cancel[r].seen) \in Row
    BY RowTypes DEF CancelOutcome, Status, ErrorCode
  <2>2. TableNext /\ DOMAIN runs' = DOMAIN runs
    BY <1>2, <2>1, SetRowType DEF CancelSettle
  <2>3. /\ DOMAIN cancel' = DOMAIN cancel \ {r}
        /\ cancel' \in [DOMAIN cancel' -> [seen : Status, flagged : BOOLEAN]]
    BY <1>2 DEF CancelSettle, Restrict, TypeInv
  <2> QED BY <1>2, <2>2, <2>3, RequestFrame DEF CancelSettle, TypeInv, bounds
<1>3. CASE CancelDies(r)
  <2>1. /\ DOMAIN cancel' = DOMAIN cancel \ {r}
        /\ cancel' \in [DOMAIN cancel' -> [seen : Status, flagged : BOOLEAN]]
    BY <1>3 DEF CancelDies, Restrict, TypeInv
  <2>2. faults' \in 0..MaxFaults
    BY <1>3, FaultType DEF CancelDies
  <2> QED BY <1>3, <2>1, <2>2, TableSame, RequestFrame DEF CancelDies, TypeInv
<1> QED BY <1>1, <1>2, <1>3

LEMMA FaultStepType ==
    ASSUME TypeInv, FaultStep
    PROVE  TypeInv'
<1>1. CASE Crash
  BY <1>1, FaultType, WipeType DEF Crash
<1>2. CASE StopLoops
  BY <1>2, FaultType, SMT DEF StopLoops, TypeInv, permits, shutdown, recovery
<1>3. CASE ClaimRaises
  <2>1. drain \in DOMAIN runs
    BY <1>3 DEF ClaimRaises, TypeInv
  <2>2. WithStatus(runs[drain], "queued") \in Row
    BY <2>1, RowOf, RowTypes DEF Status, ErrorCode
  <2>3. TableNext
    BY <1>3, <2>1, <2>2, SetRowType, TableSame DEF ClaimRaises
  <2>4. faults' \in 0..MaxFaults
    BY <1>3, FaultType DEF ClaimRaises
  <2> QED BY <1>3, <2>3, <2>4, SMT DEF ClaimRaises, ReleasePermits, LlmCost, TypeInv, TableNext,
                                      shutdown, recovery
<1>4. ASSUME NEW r \in DOMAIN thread,
             DispatchFails(r) \/ LoadBlindly(r) \/ ThreadCrashes(r) \/ WriteRaises(r) \/ ReapSlow(r)
      PROVE  TypeInv'
  <2> r \in DOMAIN runs /\ runs[r] \in Row
    BY RowOf DEF TypeInv
  <2>1. /\ Failed(runs[r]) \in Row
        /\ WithStatus(runs[r], "queued") \in Row
        /\ WithStatus(runs[r], "running") \in Row
    BY RowTypes DEF Status, ErrorCode
  <2>2. faults' \in 0..MaxFaults
    BY <1>4, FaultType DEF DispatchFails, LoadBlindly, ThreadCrashes, WriteRaises, ReapSlow
  <2>3. CASE DispatchFails(r)
    <3>1. TableNext
      BY <2>1, <2>3, SetRowType, TableSame DEF DispatchFails
    <3> QED BY <2>2, <2>3, <3>1, UnregisterType DEF DispatchFails
  <2>4. CASE LoadBlindly(r)
    <3>1. TableNext /\ ThreadsNext
      BY <2>1, <2>4, WriteAndGoto DEF LoadBlindly, Stage, PreCommand, PreSandbox
    <3> QED BY <2>2, <2>4, <3>1, ThreadFrame DEF LoadBlindly, TypeInv, TableNext
  <2>5. CASE ThreadCrashes(r) \/ WriteRaises(r)
    <3>1. ThreadsNext
      BY <2>5, GotoType DEF ThreadCrashes, WriteRaises, Stage, PostCommand
    <3> QED BY <2>2, <2>5, <3>1, TableSame, ThreadFrame DEF ThreadCrashes, WriteRaises, TypeInv
  <2>6. CASE ReapSlow(r)
    <3>1. TableNext
      BY <2>1, <2>6, SetRowType DEF ReapSlow
    <3> QED BY <2>2, <2>6, <3>1, SMT DEF ReapSlow, TypeInv, TableNext, permits, shutdown
  <2> QED BY <1>4, <2>3, <2>4, <2>5, <2>6
<1>5. CASE \E r \in DOMAIN cancel : CancelDies(r)
  BY <1>5, CancelStepType
<1>6. CASE \E r \in unflagged : FlagFails(r)
  BY <1>6, FaultType, SMT DEF FlagFails, TypeInv, permits, recovery
<1> QED BY <1>1, <1>2, <1>3, <1>4, <1>5, <1>6 DEF FaultStep

LEMMA RequestType ==
    ASSUME TypeInv, Request
    PROVE  TypeInv'
<1>1. ASSUME NEW root \in Roots, CreateRun(root)
      PROVE  TypeInv'
  <2> DEFINE r == [root |-> root, path |-> <<>>]
             row == NewRow("manual", 0)
  <2>1. r \in RunId
    BY DEF RunId
  <2>2. row \in Row
    BY SMT DEF NewRow, Row, Status, Source, ErrorCode
  <2>3. runs' = Extend(runs, r, row)
    BY <1>1 DEF CreateRun
  <2>4. TableNext
    <3> HIDE DEF r, row
    <3> QED BY <2>1, <2>2, <2>3 DEF TypeInv, TableNext, Extend
  <2> QED BY <1>1, <2>4, SMT DEF CreateRun, TypeInv, TableNext, memory, permits,
                                shutdown, recovery, bounds
<1>2. ASSUME NEW r \in DOMAIN runs, CancelRead(r)
      PROVE  TypeInv'
  <2> DEFINE request == [seen |-> runs[r].status, flagged |-> FALSE]
  <2>1. request \in [seen : Status, flagged : BOOLEAN]
    BY RowOf DEF Row
  <2>2. cancel' = Extend(cancel, r, request)
    BY <1>2 DEF CancelRead
  <2>3. /\ DOMAIN cancel' = DOMAIN cancel \cup {r}
        /\ cancel' \in [DOMAIN cancel' -> [seen : Status, flagged : BOOLEAN]]
    <3> HIDE DEF request
    <3> QED BY <2>1, <2>2 DEF Extend, TypeInv
  <2>4. cancels' \in 0..MaxCancels
    BY <1>2, ConstantsAssumption, SMT DEF CancelRead, TypeInv
  <2> QED BY <1>2, <2>3, <2>4, TableSame, RequestFrame DEF CancelRead, TypeInv
<1> QED BY <1>1, <1>2 DEF Request

\* No step of the system breaks a type.
LEMMA TypeStep ==
    ASSUME TypeInv, [Next]_vars
    PROVE  TypeInv'
<1>1. CASE Progress
  BY <1>1, ThreadStepType, DrainStepType, ReaperStepType, ProcessStepType, CancelStepType
     DEF Progress, CancelStep
<1>2. CASE Request
  BY <1>2, RequestType
<1>3. CASE FaultStep
  BY <1>3, FaultStepType
<1>4. CASE UNCHANGED vars
  BY <1>4 DEF TypeInv, vars, memory, permits, shutdown, recovery, bounds
<1> QED BY <1>1, <1>2, <1>3, <1>4 DEF Next

LEMMA TypeInit == Init => TypeInv
BY ConstantsAssumption, SMT DEF Init, TypeInv, RunId

LEMMA TypeInvariant == Spec => []TypeInv
BY TypeInit, TypeStep, PTL DEF Spec

-----------------------------------------------------------------------------
(* What a step may do to a row *)

\* An update of a row keeps its attempt and, unless it requeues the run in place,
\* its source; it does not put an error beside "completed".
Faithful(old, new) ==
    /\ new.attempt = old.attempt
    /\ new.source \in {old.source, "restart_retry"}
    /\ (old.status = "completed" => old.error = "none")
         => (new.status = "completed" => new.error = "none")

\* A quiet one does not put the run into the queue either.
Quiet(old, new) ==
    Faithful(old, new) /\ (new.status = "queued" => old.status = "queued")

LEMMA RowFields ==
    ASSUME NEW row \in Row, NEW status, NEW error
    PROVE  /\ Written(row, status, error).status = status
           /\ Written(row, status, error).error = error
           /\ Written(row, status, error).attempt = row.attempt
           /\ Written(row, status, error).source = row.source
           /\ WithStatus(row, status).status = status
           /\ WithStatus(row, status).error = row.error
           /\ WithStatus(row, status).attempt = row.attempt
           /\ WithStatus(row, status).source = row.source
           /\ Flagged(row).status = row.status
           /\ Flagged(row).error = row.error
           /\ Flagged(row).attempt = row.attempt
           /\ Flagged(row).source = row.source
           /\ Logged(row).status = row.status
           /\ Logged(row).error = row.error
           /\ Logged(row).attempt = row.attempt
           /\ Logged(row).source = row.source
           /\ RequeuedRow(row).status = "queued"
           /\ RequeuedRow(row).error = "none"
           /\ RequeuedRow(row).attempt = row.attempt
           /\ RequeuedRow(row).source = "restart_retry"
<1> DOMAIN row = {"status", "source", "attempt", "error", "cancelRequested", "executionLog"}
  BY DEF Row
<1>1. /\ Written(row, status, error).status = status
      /\ Written(row, status, error).error = error
      /\ Written(row, status, error).attempt = row.attempt
      /\ Written(row, status, error).source = row.source
  BY DEF Written
<1>2. /\ WithStatus(row, status).status = status
      /\ WithStatus(row, status).error = row.error
      /\ WithStatus(row, status).attempt = row.attempt
      /\ WithStatus(row, status).source = row.source
  BY DEF WithStatus
<1>3. /\ Flagged(row).status = row.status
      /\ Flagged(row).error = row.error
      /\ Flagged(row).attempt = row.attempt
      /\ Flagged(row).source = row.source
  BY DEF Flagged
<1>4. /\ Logged(row).status = row.status
      /\ Logged(row).error = row.error
      /\ Logged(row).attempt = row.attempt
      /\ Logged(row).source = row.source
  BY DEF Logged
<1>5. /\ RequeuedRow(row).status = "queued"
      /\ RequeuedRow(row).error = "none"
      /\ RequeuedRow(row).attempt = row.attempt
      /\ RequeuedRow(row).source = "restart_retry"
  BY DEF RequeuedRow
<1> QED BY <1>1, <1>2, <1>3, <1>4, <1>5

\* The writes of the code, all but those that requeue.
LEMMA QuietWrites ==
    ASSUME NEW row \in Row, NEW seen
    PROVE  /\ Quiet(row, row)
           /\ Quiet(row, Failed(row))
           /\ Quiet(row, Written(row, "cancelled", "user_cancel"))
           /\ Quiet(row, Written(row, "running", "none"))
           /\ Quiet(row, Written(row, IF seen = "none" THEN "completed" ELSE "failed", seen))
           /\ Quiet(row, WithStatus(row, "pending_approval"))
           /\ Quiet(row, WithStatus(row, "running"))
           /\ Quiet(row, Flagged(row))
           /\ Quiet(row, Logged(row))
           /\ Quiet(row, CancelOutcome(row, seen))
           /\ Faithful(row, WithStatus(row, "queued"))
           /\ Faithful(row, RequeuedRow(row))
BY RowFields DEF Quiet, Faithful, Failed, CancelOutcome

\* A row that a step inserts: a trigger's, or the child of a run that a thread or
\* the reaper has just found admitted.
Inserted(row) ==
    \/ row = NewRow("manual", 0)
    \/ \E r \in DOMAIN runs :
          \/ At(r, "retry_create") /\ row = NewRow("retry", runs[r].attempt + 1)
          \/ \/ At(r, "requeue_create")
             \/ recreating = r
             /\ row = NewRow("restart_retry", runs[r].attempt + 1)

\* The three ways back into the queue: a claim or a dispatch undone, and the
\* requeue in place of a shutdown.
Requeued(r) ==
    \/ r = drain /\ drain' = NoRun
    \/ At(r, "claimed") /\ Unregister(r)
    \/ /\ proc = "requeueing" /\ r \in snapshot /\ InPlaceAdmitted(r)
       /\ UNCHANGED <<thread, drain>> /\ snapshot' = snapshot \ {r}

RowStep(r) ==
    /\ Faithful(runs[r], runs'[r])
    /\ runs'[r].status = "queued" => runs[r].status = "queued" \/ Requeued(r)

TableStep ==
    /\ \A r \in DOMAIN runs : RowStep(r)
    /\ \A r \in DOMAIN runs' \ DOMAIN runs : Inserted(runs'[r])

LEMMA QuietTable ==
    ASSUME TypeInv, NEW r \in DOMAIN runs, NEW row, SetRow(r, row), Quiet(runs[r], row)
    PROVE  TableStep
<1>1. DOMAIN runs' = DOMAIN runs
  BY DEF SetRow
<1>2. \A x \in DOMAIN runs : Quiet(runs[x], runs'[x])
  BY RowOf, QuietWrites DEF SetRow, TypeInv
<1> QED BY <1>1, <1>2 DEF TableStep, RowStep, Quiet

LEMMA LoudTable ==
    ASSUME TypeInv, NEW r \in DOMAIN runs, NEW row, SetRow(r, row), Faithful(runs[r], row),
           Requeued(r)
    PROVE  TableStep
<1>1. DOMAIN runs' = DOMAIN runs
  BY DEF SetRow
<1>2. \A x \in DOMAIN runs \ {r} : Quiet(runs[x], runs'[x])
  BY RowOf, QuietWrites DEF SetRow, TypeInv
<1>3. runs'[r] = row
  BY DEF SetRow, TypeInv
<1> QED BY <1>1, <1>2, <1>3 DEF TableStep, RowStep, Quiet

LEMMA IdleTable ==
    ASSUME TypeInv, UNCHANGED runs
    PROVE  TableStep
BY RowOf, QuietWrites DEF TableStep, RowStep, Quiet

LEMMA ChildTable ==
    ASSUME TypeInv, NEW r \in DOMAIN runs, NEW source \in RetrySource,
           runs' = WithChild(r, source), Inserted(NewRow(source, runs[r].attempt + 1))
    PROVE  TableStep
<1> DEFINE c == RetryRunId(r, source)
           row == NewRow(source, runs[r].attempt + 1)
<1>1. CASE c \in DOMAIN runs
  BY <1>1, IdleTable DEF WithChild
<1>2. CASE c \notin DOMAIN runs
  <2>1. runs' = Extend(runs, c, row) /\ Inserted(row)
    BY <1>2 DEF WithChild
  <2> HIDE DEF c, row
  <2>2. /\ DOMAIN runs' = DOMAIN runs \cup {c}
        /\ runs'[c] = row
        /\ \A x \in DOMAIN runs : runs'[x] = runs[x]
    BY <1>2, <2>1 DEF Extend
  <2> QED BY <2>1, <2>2, RowOf, QuietWrites DEF TableStep, RowStep, Quiet
<1> QED BY <1>1, <1>2

LEMMA ThreadTable ==
    ASSUME TypeInv, NEW r \in DOMAIN thread, ThreadStep(r)
    PROVE  TableStep
<1> r \in DOMAIN runs /\ runs[r] \in Row
  BY RowOf DEF TypeInv
<1>1. CASE UNCHANGED runs
  BY <1>1, IdleTable
<1>2. CASE EnterThread(r) \/ LoadRun(r) \/ RecheckStatus(r) \/ FinishRun(r) \/ ExitThread(r)
  BY <1>1, <1>2 DEF EnterThread, LoadRun, RecheckStatus, FinishRun, ExitThread
<1>3. CASE AbortCancelled(r) \/ FailSetup(r) \/ FailCrashed(r)
  BY <1>3, QuietTable, QuietWrites DEF AbortCancelled, FailSetup, FailCrashed
<1>4. CASE DriverStep(r)
  <2>1. UNCHANGED runs \/ SetRow(r, Logged(runs[r]))
    BY <1>4 DEF DriverStep, GateSpawn, DriverFails, DriverRaises, GateCommand, GateAgentLoop,
                CommandReturns
  <2> QED BY <1>1, <2>1, QuietTable, QuietWrites
<1>5. CASE SettleStep(r)
  <2>1. CASE SettleInterrupted(r) \/ SettleCancelled(r) \/ SettleFailed(r) \/ SettleRetryable(r)
             \/ SettlePending(r) \/ FailRaised(r)
    BY <2>1, QuietTable, QuietWrites
       DEF SettleInterrupted, SettleCancelled, SettleFailed, SettleRetryable, SettlePending,
           FailRaised, Settle
  <2>2. CASE ReadForCompletion(r)
    BY <1>1, <2>2 DEF ReadForCompletion
  <2>3. CASE WriteCompletion(r)
    BY <2>3, QuietTable, QuietWrites DEF WriteCompletion, Settle
  <2> QED BY <1>5, <2>1, <2>2, <2>3 DEF SettleStep
<1>6. CASE RetryStep(r)
  <2>1. CASE CheckRetry(r) \/ SkipRetry(r) \/ CheckRestart(r) \/ SkipRestart(r)
    BY <1>1, <2>1 DEF CheckRetry, SkipRetry, CheckRestart, SkipRestart
  <2>2. CASE CreateRetry(r)
    BY <2>2, ChildTable DEF CreateRetry, RetrySource, Inserted
  <2>3. CASE CreateRestart(r)
    BY <2>3, ChildTable DEF CreateRestart, RetrySource, Inserted
  <2> QED BY <1>6, <2>1, <2>2, <2>3 DEF RetryStep
<1> QED BY <1>2, <1>3, <1>4, <1>5, <1>6 DEF ThreadStep

LEMMA SweepTable ==
    ASSUME TypeInv, NEW status,
           runs' = [r \in DOMAIN runs |-> IF runs[r].status = status
                                         THEN Failed(runs[r]) ELSE runs[r]]
    PROVE  TableStep
BY RowOf, QuietWrites DEF TableStep, RowStep, Quiet

LEMMA ProgressTable ==
    ASSUME TypeInv, Progress
    PROVE  TableStep
<1>1. CASE UNCHANGED runs
  BY <1>1, IdleTable
<1>2. CASE \E r \in DOMAIN thread : ThreadStep(r)
  BY <1>2, ThreadTable
<1>3. CASE DrainStep
  <2>1. CASE DrainClaim
    <3>1. drain \in DOMAIN runs
      BY <2>1 DEF DrainClaim, TypeInv
    <3> QED BY <2>1, <3>1, RowOf, QuietTable, QuietWrites DEF DrainClaim
  <2>2. CASE ~DrainClaim
    BY <1>1, <1>3, <2>2 DEF DrainStep, DrainAcquire, DrainLoseClaim
  <2> QED BY <2>1, <2>2
<1>4. CASE ReaperStep
  <2>1. CASE \E r \in DOMAIN runs : ReapRow(r)
    BY <2>1, RowOf, QuietTable, QuietWrites DEF ReapRow
  <2>2. CASE \E r \in DOMAIN runs : ReaperCheck(r) \/ ReaperSkip(r)
    BY <1>1, <2>2 DEF ReaperCheck, ReaperSkip
  <2>3. CASE ReaperCreate
    <3>1. recreating \in DOMAIN runs
      BY <2>3 DEF ReaperCreate, TypeInv
    <3> QED BY <2>3, <3>1, ChildTable DEF ReaperCreate, Inserted, RetrySource
  <2> QED BY <1>4, <2>1, <2>2, <2>3 DEF ReaperStep
<1>5. CASE ProcessStep
  <2>1. CASE Boot \/ BootDone
    BY <2>1, SweepTable DEF Boot, BootDone
  <2>2. CASE ListActiveRuns \/ MarkActiveRuns \/ JoinActiveRuns \/ ExitProcess
    BY <1>1, <2>2 DEF ListActiveRuns, MarkActiveRuns, JoinActiveRuns, ExitProcess
  <2>3. ASSUME NEW r \in snapshot, FlagActiveRun(r) \/ RequeueInPlace(r) \/ SkipInPlace(r)
        PROVE  TableStep
    <3> r \in DOMAIN runs
      BY DEF TypeInv
    <3>1. CASE FlagActiveRun(r)
      BY <3>1, RowOf, QuietTable, QuietWrites DEF FlagActiveRun
    <3>2. CASE RequeueInPlace(r)
      BY <3>2, RowOf, LoudTable, QuietWrites DEF RequeueInPlace, Requeued
    <3>3. CASE SkipInPlace(r)
      BY <1>1, <3>3 DEF SkipInPlace
    <3> QED BY <2>3, <3>1, <3>2, <3>3
  <2> QED BY <1>5, <2>1, <2>2, <2>3 DEF ProcessStep
<1>6. CASE CancelStep
  <2>1. PICK r \in DOMAIN cancel : CancelFlag(r) \/ CancelSettle(r)
    BY <1>6 DEF CancelStep
  <2>2. r \in DOMAIN runs
    BY DEF TypeInv
  <2> QED BY <2>1, <2>2, RowOf, QuietTable, QuietWrites DEF CancelFlag, CancelSettle
<1> QED BY <1>2, <1>3, <1>4, <1>5, <1>6 DEF Progress

LEMMA FaultTable ==
    ASSUME TypeInv, FaultStep
    PROVE  TableStep
<1>1. CASE \/ Crash \/ StopLoops
           \/ \E r \in unflagged : FlagFails(r)
           \/ \E r \in DOMAIN cancel : CancelDies(r)
  BY <1>1, IdleTable DEF Crash, StopLoops, FlagFails, CancelDies
<1>2. CASE ClaimRaises
  <2>1. drain \in DOMAIN runs /\ Requeued(drain)
    BY <1>2 DEF ClaimRaises, TypeInv, Requeued
  <2>2. CASE SetRow(drain, WithStatus(runs[drain], "queued"))
    BY <2>1, <2>2, RowOf, LoudTable, QuietWrites
  <2> QED BY <1>2, <2>2, IdleTable DEF ClaimRaises
<1>3. ASSUME NEW r \in DOMAIN thread,
             DispatchFails(r) \/ LoadBlindly(r) \/ ThreadCrashes(r) \/ WriteRaises(r) \/ ReapSlow(r)
      PROVE  TableStep
  <2> r \in DOMAIN runs
    BY DEF TypeInv
  <2>1. CASE DispatchFails(r)
    <3>1. Requeued(r)
      BY <2>1 DEF DispatchFails, Requeued
    <3>2. CASE SetRow(r, WithStatus(runs[r], "queued"))
      BY <3>1, <3>2, RowOf, LoudTable, QuietWrites
    <3> QED BY <2>1, <3>2, IdleTable DEF DispatchFails
  <2>2. CASE LoadBlindly(r) \/ ReapSlow(r)
    BY <2>2, RowOf, QuietTable, QuietWrites DEF LoadBlindly, ReapSlow
  <2>3. CASE ThreadCrashes(r) \/ WriteRaises(r)
    BY <2>3, IdleTable DEF ThreadCrashes, WriteRaises
  <2> QED BY <1>3, <2>1, <2>2, <2>3
<1> QED BY <1>1, <1>2, <1>3 DEF FaultStep

\* What any step does to the table.
LEMMA TableSteps ==
    ASSUME TypeInv, [Next]_vars
    PROVE  TableStep
<1>1. CASE \E root \in Roots : CreateRun(root)
  <2>1. PICK root \in Roots : CreateRun(root)
    BY <1>1
  <2> DEFINE r == [root |-> root, path |-> <<>>]
             row == NewRow("manual", 0)
  <2>2. runs' = Extend(runs, r, row) /\ r \notin DOMAIN runs /\ Inserted(row)
    BY <2>1 DEF CreateRun, Inserted
  <2> HIDE DEF r, row
  <2>3. /\ DOMAIN runs' = DOMAIN runs \cup {r}
        /\ runs'[r] = row
        /\ \A x \in DOMAIN runs : runs'[x] = runs[x]
    BY <2>2 DEF Extend
  <2> QED BY <2>2, <2>3, RowOf, QuietWrites DEF TableStep, RowStep, Quiet
<1>2. CASE \E r \in DOMAIN runs : CancelRead(r)
  BY <1>2, IdleTable DEF CancelRead
<1>3. CASE UNCHANGED vars
  BY <1>3, IdleTable DEF vars
<1> QED BY <1>1, <1>2, <1>3, ProgressTable, FaultTable DEF Next, Request

-----------------------------------------------------------------------------
(* Completed runs are honest *)

\* update_status(COMPLETED) never leaves an error beside "completed", whatever
\* was written between its read and its write: db/sqlite.py:2839-2948.
THEOREM CompletedHonest == Spec => []CompletedIsHonest
<1>1. Init => CompletedIsHonest
  BY DEF Init, CompletedIsHonest
<1>2. TypeInv /\ CompletedIsHonest /\ [Next]_vars => CompletedIsHonest'
  <2> SUFFICES ASSUME TypeInv, CompletedIsHonest, [Next]_vars
               PROVE  CompletedIsHonest'
    OBVIOUS
  <2>1. TableStep
    BY TableSteps
  <2>2. ASSUME NEW row, Inserted(row)
        PROVE  row.status = "queued"
    BY <2>2 DEF Inserted, NewRow
  <2> QED BY <2>1, <2>2 DEF CompletedIsHonest, TableStep, RowStep, Faithful
<1> QED BY <1>1, <1>2, TypeInvariant, PTL DEF Spec

-----------------------------------------------------------------------------
(* What a step may do to the threads *)

\* A thread's own step changes no other thread, and leaves the list of threads
\* and the permits alone unless it is the last.
ThreadMoves(r) ==
    /\ DOMAIN thread' = DOMAIN thread
    /\ \A x \in DOMAIN thread \ {r} : thread'[x] = thread[x]
    /\ UNCHANGED <<permits, interrupted>>

LEMMA MoveBy ==
    ASSUME TypeInv, NEW r \in DOMAIN thread, NEW t,
           thread' = [thread EXCEPT ![r] = t], UNCHANGED <<permits, interrupted>>
    PROVE  ThreadMoves(r) /\ thread'[r] = t
BY DEF TypeInv, ThreadMoves

LEMMA GotoMoves ==
    ASSUME TypeInv, NEW r \in DOMAIN thread, NEW pc, Goto(r, pc),
           UNCHANGED <<permits, interrupted>>
    PROVE  ThreadMoves(r) /\ thread'[r].pc = pc
<1>1. thread' = [thread EXCEPT ![r] = [thread[r] EXCEPT !.pc = pc]]
  BY DEF Goto
<1>2. [thread[r] EXCEPT !.pc = pc].pc = pc
  BY SMT DEF TypeInv, Thread
<1> QED BY <1>1, <1>2, MoveBy

LEMMA ReturnMoves ==
    ASSUME TypeInv, NEW r \in DOMAIN thread, NEW result, Return(r, result),
           UNCHANGED <<permits, interrupted>>
    PROVE  ThreadMoves(r) /\ thread'[r].pc = "returned"
BY MoveBy DEF Return

\* The stages before the command are entered only from one another, and the
\* stages in which a child is inserted only after a check.
StageStep(r) ==
    LET old == thread[r].pc
        new == thread'[r].pc
    IN  /\ new \in PreCommand => old \in PreCommand
        /\ new = "retry_create" => runs[r].attempt < MaxAttempts - 1
        /\ new = "requeue_create" => RestartAdmitted(r)

LEMMA ThreadStepMoves ==
    ASSUME TypeInv, NEW r \in DOMAIN thread, ThreadStep(r)
    PROVE  /\ UNCHANGED <<proc, drain, shutdown, recovery, cancel, bounds>>
           /\ \/ ExitThread(r)
              \/ ThreadMoves(r) /\ StageStep(r)
           /\ \/ UNCHANGED <<begun, marked>>
              \/ GateCommand(r)
              \/ GateAgentLoop(r) /\ begun' = begun \cup {r} /\ UNCHANGED marked
<1> USE DEF otherThanThread
<1>1. CASE \/ EnterThread(r) \/ AbortCancelled(r) \/ LoadRun(r) \/ FailSetup(r)
           \/ RecheckStatus(r) \/ FailCrashed(r) \/ FinishRun(r)
  BY <1>1, GotoMoves
     DEF EnterThread, AbortCancelled, LoadRun, FailSetup, RecheckStatus, FailCrashed, FinishRun, At,
         StageStep, PreCommand, PreSandbox
<1>2. CASE ExitThread(r)
  BY <1>2 DEF ExitThread
<1>3. CASE DriverStep(r)
  <2>1. CASE GateSpawn(r)
    BY <2>1, GotoMoves, ReturnMoves DEF GateSpawn, At, StageStep, PreCommand, PreSandbox
  <2>2. CASE DriverFails(r) \/ CommandReturns(r)
    BY <2>2, ReturnMoves DEF DriverFails, CommandReturns, Reported, StageStep, PreCommand,
                             PreSandbox
  <2>3. CASE DriverRaises(r)
    BY <2>3, MoveBy DEF DriverRaises, StageStep, PreCommand, PreSandbox
  <2>4. CASE GateCommand(r)
    BY <2>4, GotoMoves, ReturnMoves DEF GateCommand, StageStep, PreCommand, PreSandbox
  <2>5. CASE GateAgentLoop(r)
    BY <2>5, GotoMoves, ReturnMoves DEF GateAgentLoop, StageStep, PreCommand, PreSandbox
  <2> QED BY <1>3, <2>1, <2>2, <2>3, <2>4, <2>5 DEF DriverStep
<1>4. CASE SettleStep(r)
  <2>1. CASE ReadForCompletion(r)
    BY <2>1, MoveBy DEF ReadForCompletion, StageStep, PreCommand, PreSandbox
  <2>2. CASE ~ReadForCompletion(r)
    BY <1>4, <2>2, GotoMoves
       DEF SettleStep, SettleInterrupted, SettleCancelled, SettleFailed, SettleRetryable,
           SettlePending, WriteCompletion, FailRaised, Settle, StageStep, PreCommand, PreSandbox
  <2> QED BY <2>1, <2>2
<1>5. CASE RetryStep(r)
  <2>1. AfterRetry(r) \in {"fail_write", "exit"}
    BY DEF AfterRetry
  <2> QED
    BY <1>5, <2>1, GotoMoves
       DEF RetryStep, CheckRetry, SkipRetry, CreateRetry, CheckRestart, SkipRestart,
           CreateRestart, RetryAdmitted, StageStep, PreCommand, PreSandbox
<1> QED BY <1>1, <1>2, <1>3, <1>4, <1>5 DEF ThreadStep

\* What any step does to the list of threads, the permits, the drain and the
\* shutdown's list.
ShutdownMoves ==
    /\ UNCHANGED <<permits, drain, thread>>
    /\ \/ /\ UNCHANGED snapshot
          /\ \/ UNCHANGED proc
             \/ proc' \notin {"listed", "cancelling", "requeueing"} /\ proc \notin {"listed", "cancelling", "requeueing"}
       \/ ListActiveRuns
       \/ MarkActiveRuns
       \/ JoinActiveRuns
       \/ \E r \in snapshot : snapshot' = snapshot \ {r} /\ UNCHANGED proc

MemoryStep ==
    \/ UNCHANGED <<permits, proc, drain, snapshot>> /\ DOMAIN thread' = DOMAIN thread
    \/ \E r \in DOMAIN runs : DrainAcquire(r)
    \/ DrainClaim
    \/ /\ drain # NoRun /\ drain' = NoRun /\ ReleasePermits(drain)
       /\ UNCHANGED <<proc, thread, snapshot>>
    \/ \E r \in DOMAIN thread : /\ Unregister(r) /\ ReleasePermits(r)
                                /\ UNCHANGED <<proc, drain, snapshot>>
    \/ WipeMemory /\ proc' = "down"
    \/ ShutdownMoves

LEMMA MemorySteps ==
    ASSUME TypeInv, [Next]_vars
    PROVE  MemoryStep
<1> USE DEF shutdown, recovery
<1>1. CASE \E r \in DOMAIN thread : ThreadStep(r)
  <2>1. PICK r \in DOMAIN thread : ThreadStep(r)
    BY <1>1
  <2> QED BY <2>1, ThreadStepMoves DEF MemoryStep, ThreadMoves, ExitThread
<1>2. CASE DrainStep
  BY <1>2 DEF DrainStep, DrainLoseClaim, MemoryStep
<1>3. CASE ReaperStep
  BY <1>3 DEF ReaperStep, ReapRow, ReaperCheck, ReaperSkip, ReaperCreate, MemoryStep
<1>4. CASE ProcessStep
  <2>1. CASE Boot \/ BootDone
    BY <2>1 DEF Boot, BootDone, MemoryStep, ShutdownMoves
  <2>2. CASE ListActiveRuns \/ MarkActiveRuns \/ JoinActiveRuns
    BY <2>2 DEF ListActiveRuns, MarkActiveRuns, JoinActiveRuns, MemoryStep, ShutdownMoves
  <2>3. CASE ExitProcess
    BY <2>3 DEF ExitProcess, MemoryStep
  <2>4. CASE \E r \in snapshot : FlagActiveRun(r) \/ RequeueInPlace(r) \/ SkipInPlace(r)
    BY <2>4 DEF FlagActiveRun, RequeueInPlace, SkipInPlace, MemoryStep, ShutdownMoves
  <2> QED BY <1>4, <2>1, <2>2, <2>3, <2>4 DEF ProcessStep
<1>5. CASE CancelStep \/ Request \/ UNCHANGED vars
  BY <1>5 DEF CancelStep, CancelFlag, CancelSettle, Request, CreateRun, CancelRead, vars, memory,
              MemoryStep
<1>6. CASE FaultStep
  <2>1. CASE Crash \/ StopLoops \/ ClaimRaises
    BY <2>1 DEF Crash, StopLoops, ClaimRaises, MemoryStep, ShutdownMoves
  <2>2. ASSUME NEW r \in DOMAIN thread,
               DispatchFails(r) \/ LoadBlindly(r) \/ ThreadCrashes(r) \/ WriteRaises(r) \/ ReapSlow(r)
        PROVE  MemoryStep
    <3>1. CASE DispatchFails(r)
      BY <3>1 DEF DispatchFails, MemoryStep
    <3>2. CASE LoadBlindly(r) \/ ThreadCrashes(r) \/ WriteRaises(r)
      BY <3>2, GotoMoves DEF LoadBlindly, ThreadCrashes, WriteRaises, otherThanThread, ThreadMoves,
                             MemoryStep
    <3>3. CASE ReapSlow(r)
      BY <3>3 DEF ReapSlow, MemoryStep
    <3> QED BY <2>2, <3>1, <3>2, <3>3
  <2>3. CASE \E r \in DOMAIN cancel : CancelDies(r)
    BY <2>3 DEF CancelDies, memory, MemoryStep
  <2>4. CASE \E r \in unflagged : FlagFails(r)
    BY <2>4 DEF FlagFails, MemoryStep
  <2> QED BY <1>6, <2>1, <2>2, <2>3, <2>4 DEF FaultStep
<1> QED BY <1>1, <1>2, <1>3, <1>4, <1>5, <1>6 DEF Next, Progress

-----------------------------------------------------------------------------
(* One run, one owner *)

\* The drain, the threads and the list of a shutdown never hold the same run: no
\* row is claimed, driven or requeued by two of them.  This is what permits,
\* commands and requeues rest on.
Separation ==
    /\ drain \notin DOMAIN thread \cup snapshot
    /\ \A r \in DOMAIN thread : runs[r].status # "queued"
    /\ proc = "requeueing" => snapshot \cap DOMAIN thread = {}
    /\ proc \notin {"listed", "cancelling", "requeueing"} => snapshot = {}

LEMMA UnregisterDomain ==
    ASSUME NEW r, Unregister(r)
    PROVE  DOMAIN thread' = DOMAIN thread \ {r}
BY DEF Unregister, Restrict

LEMMA ClaimDomain ==
    ASSUME TypeInv, DrainClaim
    PROVE  DOMAIN thread' = DOMAIN thread \cup {drain} /\ drain \in DOMAIN runs
BY DEF TypeInv, DrainClaim, Extend

LEMMA SeparationStep ==
    ASSUME TypeInv, TypeInv', Separation, [Next]_vars
    PROVE  Separation'
<1> NoRun \notin DOMAIN runs /\ NoRun \notin DOMAIN thread /\ NoRun \notin snapshot
  BY ConstantsAssumption DEF TypeInv
<1> NoRun \notin DOMAIN runs' /\ NoRun \notin DOMAIN thread' /\ NoRun \notin snapshot'
  BY ConstantsAssumption DEF TypeInv
<1>1. MemoryStep /\ TableStep
  BY MemorySteps, TableSteps
<1>2. /\ (drain \notin DOMAIN thread \cup snapshot)'
      /\ (proc = "requeueing" => snapshot \cap DOMAIN thread = {})'
      /\ (proc \notin {"listed", "cancelling", "requeueing"} => snapshot = {})'
  <2>1. CASE UNCHANGED <<permits, proc, drain, snapshot>> /\ DOMAIN thread' = DOMAIN thread
    BY <2>1 DEF Separation
  <2>2. CASE \E r \in DOMAIN runs : DrainAcquire(r)
    BY <2>2 DEF DrainAcquire, Drainable, Separation, shutdown
  <2>3. CASE DrainClaim
    BY <2>3, ClaimDomain DEF DrainClaim, Separation, shutdown
  <2>4. CASE drain' = NoRun /\ UNCHANGED <<proc, thread, snapshot>>
    BY <2>4 DEF Separation
  <2>5. CASE \E r \in DOMAIN thread : Unregister(r) /\ UNCHANGED <<proc, drain, snapshot>>
    BY <2>5, UnregisterDomain DEF Separation
  <2>6. CASE WipeMemory /\ proc' = "down"
    BY <2>6 DEF WipeMemory
  <2>7. CASE ShutdownMoves
    BY <2>7 DEF ShutdownMoves, ListActiveRuns, MarkActiveRuns, JoinActiveRuns, Separation
  <2> QED BY <1>1, <2>1, <2>2, <2>3, <2>4, <2>5, <2>6, <2>7 DEF MemoryStep
<1>3. ASSUME NEW r \in DOMAIN thread', runs'[r].status = "queued"
      PROVE  FALSE
  <2>1. CASE r \in DOMAIN thread
    <3>1. r \in DOMAIN runs /\ runs[r].status # "queued"
      BY <2>1 DEF TypeInv, Separation
    <3>2. Requeued(r)
      BY <1>1, <1>3, <3>1 DEF TableStep, RowStep
    <3> QED BY <1>3, <2>1, <3>2, UnregisterDomain DEF Requeued, Separation
  <2>2. CASE r \notin DOMAIN thread
    <3>1. DrainClaim /\ r = drain
      BY <1>1, <1>3, <2>2, ClaimDomain, UnregisterDomain
         DEF MemoryStep, ShutdownMoves, WipeMemory, DrainAcquire
    <3>2. r \in DOMAIN runs /\ SetRow(r, Written(runs[r], "running", "none"))
      BY <3>1, ClaimDomain DEF DrainClaim
    <3>3. runs'[r] = Written(runs[r], "running", "none")
      BY <3>2 DEF SetRow, TypeInv
    <3> QED BY <1>3, <3>2, <3>3, RowOf, RowFields
  <2> QED BY <2>1, <2>2
<1> QED BY <1>2, <1>3 DEF Separation

LEMMA SeparationInvariant == Spec => []Separation
<1>1. Init => Separation
  BY DEF Init, Separation
<1> QED BY <1>1, SeparationStep, TypeInvariant, PTL DEF Spec

-----------------------------------------------------------------------------
(* Permits *)

HeavyOnes(holders) == {r \in holders : Heavy(r)}

LEMMA OneMoreHolder ==
    ASSUME NEW holders, IsFiniteSet(holders), NEW r, r \notin holders
    PROVE  /\ IsFiniteSet(holders \cup {r})
           /\ Cardinality(holders \cup {r}) = Cardinality(holders) + 1
           /\ Cardinality(HeavyOnes(holders \cup {r})) = Cardinality(HeavyOnes(holders)) + LlmCost(r)
<1>1. /\ IsFiniteSet(holders \cup {r})
      /\ Cardinality(holders \cup {r}) = Cardinality(holders) + 1
  BY FS_AddElement
<1>2. IsFiniteSet(HeavyOnes(holders))
  BY FS_Subset DEF HeavyOnes
<1>3. CASE Heavy(r)
  <2>1. HeavyOnes(holders \cup {r}) = HeavyOnes(holders) \cup {r}
    BY <1>3 DEF HeavyOnes
  <2>2. r \notin HeavyOnes(holders)
    BY DEF HeavyOnes
  <2>3. Cardinality(HeavyOnes(holders) \cup {r}) = Cardinality(HeavyOnes(holders)) + 1
    BY <1>2, <2>2, FS_AddElement
  <2> QED BY <1>1, <1>3, <2>1, <2>3 DEF LlmCost
<1>4. CASE ~Heavy(r)
  <2>1. HeavyOnes(holders \cup {r}) = HeavyOnes(holders)
    BY <1>4 DEF HeavyOnes
  <2>2. Cardinality(HeavyOnes(holders)) \in Nat
    BY <1>2, FS_CardinalityType
  <2> QED BY <1>1, <1>4, <2>1, <2>2 DEF LlmCost
<1> QED BY <1>3, <1>4

\* The permits of the holders and the free ones together are all there are.
Balanced(freePermits, freeLlm, holders) ==
    /\ IsFiniteSet(holders)
    /\ freePermits + Cardinality(holders) = MaxConcurrentRuns
    /\ freeLlm + Cardinality(HeavyOnes(holders)) = MaxLlmRuns

LEMMA Acquiring ==
    ASSUME TypeInv, NEW holders, Balanced(free, llmFree, holders), NEW r, r \notin holders,
           free' = free - 1, llmFree' = llmFree - LlmCost(r)
    PROVE  Balanced(free', llmFree', holders \cup {r})
<1>1. Cardinality(holders) \in Nat /\ Cardinality(HeavyOnes(holders)) \in Nat
  BY FS_CardinalityType, FS_Subset DEF Balanced, HeavyOnes
<1>2. free \in Int /\ llmFree \in Int /\ LlmCost(r) \in Int
  BY DEF TypeInv, LlmCost
<1>3. /\ IsFiniteSet(holders)
      /\ free + Cardinality(holders) = MaxConcurrentRuns
      /\ llmFree + Cardinality(HeavyOnes(holders)) = MaxLlmRuns
  BY DEF Balanced
<1>4. /\ IsFiniteSet(holders \cup {r})
      /\ Cardinality(holders \cup {r}) = Cardinality(holders) + 1
      /\ Cardinality(HeavyOnes(holders \cup {r})) = Cardinality(HeavyOnes(holders)) + LlmCost(r)
  BY <1>3, OneMoreHolder
<1>5. \A f, c, d \in Int : (f - d) + (c + d) = f + c
  OBVIOUS
<1>6. free' + Cardinality(holders \cup {r}) = free + Cardinality(holders)
  BY <1>1, <1>2, <1>4
<1>7. llmFree' + Cardinality(HeavyOnes(holders \cup {r}))
        = llmFree + Cardinality(HeavyOnes(holders))
  BY <1>1, <1>2, <1>4, <1>5
<1> QED BY <1>3, <1>4, <1>6, <1>7 DEF Balanced

LEMMA Releasing ==
    ASSUME TypeInv, NEW holders, Balanced(free, llmFree, holders), NEW r \in holders,
           ReleasePermits(r)
    PROVE  Balanced(free', llmFree', holders \ {r})
<1> DEFINE rest == holders \ {r}
<1>1. IsFiniteSet(rest) /\ r \notin rest /\ holders = rest \cup {r}
  BY FS_RemoveElement DEF Balanced
<1>2. Cardinality(rest) \in Nat /\ Cardinality(HeavyOnes(rest)) \in Nat
  BY <1>1, FS_CardinalityType, FS_Subset DEF HeavyOnes
<1>3. free \in Int /\ llmFree \in Int /\ LlmCost(r) \in Int
  BY DEF TypeInv, LlmCost
<1>4. /\ Cardinality(holders) = Cardinality(rest) + 1
      /\ Cardinality(HeavyOnes(holders)) = Cardinality(HeavyOnes(rest)) + LlmCost(r)
  BY <1>1, OneMoreHolder
<1> QED BY <1>1, <1>2, <1>3, <1>4 DEF Balanced, ReleasePermits

PermitsInv == Balanced(free, llmFree, Holders)

LEMMA PermitsStep ==
    ASSUME TypeInv, TypeInv', Separation, PermitsInv, [Next]_vars
    PROVE  PermitsInv'
<1> NoRun \notin DOMAIN runs /\ NoRun \notin DOMAIN thread
  BY ConstantsAssumption DEF TypeInv
<1> SUFFICES Balanced(free', llmFree', Holders')
  BY DEF PermitsInv, Balanced, HeavyOnes
<1>1. CASE UNCHANGED permits /\ Holders' = Holders
  BY <1>1 DEF PermitsInv, permits
<1>2. CASE UNCHANGED <<permits, drain>> /\ DOMAIN thread' = DOMAIN thread
  BY <1>1, <1>2 DEF Holders
<1>3. ASSUME NEW r \in DOMAIN runs, DrainAcquire(r)
      PROVE  Balanced(free', llmFree', Holders')
  <2>1. r \notin Holders /\ Holders' = Holders \cup {r}
    BY <1>3 DEF DrainAcquire, Drainable, Holders, Separation
  <2> QED BY <1>3, <2>1, Acquiring DEF DrainAcquire, PermitsInv
<1>4. CASE DrainClaim
  <2>1. Holders' = Holders
    BY <1>4, ClaimDomain DEF DrainClaim, Holders
  <2> QED BY <1>1, <1>4, <2>1 DEF DrainClaim
<1>5. CASE drain # NoRun /\ drain' = NoRun /\ ReleasePermits(drain) /\ UNCHANGED thread
  <2>1. drain \in Holders /\ Holders' = Holders \ {drain}
    BY <1>5 DEF Holders, Separation
  <2> QED BY <1>5, <2>1, Releasing DEF PermitsInv
<1>6. ASSUME NEW r \in DOMAIN thread, Unregister(r), ReleasePermits(r), UNCHANGED drain
      PROVE  Balanced(free', llmFree', Holders')
  <2>1. r \in Holders /\ Holders' = Holders \ {r}
    BY <1>6, UnregisterDomain DEF Holders, Separation
  <2> QED BY <1>6, <2>1, Releasing DEF PermitsInv
<1>7. CASE WipeMemory
  <2>1. Holders' = {} /\ free' = MaxConcurrentRuns /\ llmFree' = MaxLlmRuns
    BY <1>7 DEF WipeMemory, Holders
  <2>2. HeavyOnes({}) = {}
    BY DEF HeavyOnes
  <2> QED BY <2>1, <2>2, FS_EmptySet, ConstantsAssumption DEF Balanced
<1> QED BY <1>2, <1>3, <1>4, <1>5, <1>6, <1>7, MemorySteps DEF MemoryStep, ShutdownMoves

LEMMA PermitsInvariant == Spec => []PermitsInv
<1>1. Init => PermitsInv
  <2>1. HeavyOnes({}) = {}
    BY DEF HeavyOnes
  <2>2. SUFFICES ASSUME Init
                 PROVE  PermitsInv
    OBVIOUS
  <2>3. Holders = {} /\ free = MaxConcurrentRuns /\ llmFree = MaxLlmRuns
    BY <2>2 DEF Init, Holders
  <2> QED BY <2>1, <2>3, FS_EmptySet, ConstantsAssumption DEF PermitsInv, Balanced
<1> QED BY <1>1, PermitsStep, TypeInvariant, SeparationInvariant, PTL DEF Spec

\* No permit is lost or given back twice, on any path through the drain, the
\* threads, a crash or a shutdown, for any pools and any number of runs.
THEOREM PermitsAlwaysBalance == Spec => []PermitsBalance
<1>1. PermitsInv => PermitsBalance
  BY DEF PermitsInv, Balanced, PermitsBalance, HeavyOnes
<1> QED BY <1>1, PermitsInvariant, PTL

\* Every variable has its type: the pools, in particular, are never overfilled,
\* which threading.Semaphore would not notice (run_service.py:28-131).
THEOREM TypeCorrect == Spec => []TypeOK
<1>1. TypeInv /\ PermitsInv => TypeOK
  <2> SUFFICES ASSUME TypeInv, PermitsInv
               PROVE  TypeOK
    OBVIOUS
  <2>1. Cardinality(Holders) \in Nat /\ Cardinality(HeavyOnes(Holders)) \in Nat
    BY FS_CardinalityType, FS_Subset DEF PermitsInv, Balanced, HeavyOnes
  <2>2. free \in Nat /\ llmFree \in Nat
    BY DEF TypeInv
  <2>3. free \in 0..MaxConcurrentRuns /\ llmFree \in 0..MaxLlmRuns
    <3>1. /\ free + Cardinality(Holders) = MaxConcurrentRuns
          /\ llmFree + Cardinality(HeavyOnes(Holders)) = MaxLlmRuns
      BY DEF PermitsInv, Balanced
    <3>2. \A f, c \in Nat : f \in 0..(f + c)
      OBVIOUS
    <3> QED BY <2>1, <2>2, <3>1, <3>2
  <2> QED BY <2>3 DEF TypeInv, TypeOK
<1> QED BY <1>1, TypeInvariant, PermitsInvariant, PTL

-----------------------------------------------------------------------------
(* Lineages *)

\* A child is inserted one step after its parent was found admitted; the parent's
\* attempt, on which the bound rests, does not change in between, though its
\* source may.
LineageInv ==
    /\ LineageBounded
    /\ \A r \in DOMAIN thread :
          /\ thread[r].pc = "retry_create" => runs[r].attempt < MaxAttempts - 1
          /\ thread[r].pc = "requeue_create" => runs[r].attempt < MaxAttempts
    /\ recreating # NoRun => runs[recreating].attempt < MaxAttempts

\* A step brings a thread or the reaper to an insertion only where it is admitted.
InsertionStep ==
    /\ \A r \in DOMAIN thread' :
          thread'[r].pc \in {"retry_create", "requeue_create"} =>
             /\ r \in DOMAIN thread
             /\ \/ thread[r].pc = thread'[r].pc
                \/ thread'[r].pc = "retry_create" /\ runs[r].attempt < MaxAttempts - 1
                \/ thread'[r].pc = "requeue_create" /\ RestartAdmitted(r)
    /\ recreating' # NoRun =>
          /\ recreating' \in DOMAIN runs
          /\ recreating' = recreating \/ RestartAdmitted(recreating')

LEMMA InsertionSteps ==
    ASSUME TypeInv, [Next]_vars
    PROVE  InsertionStep
<1> USE DEF InsertionStep
<1> recreating # NoRun => recreating \in DOMAIN runs
  BY DEF TypeInv
<1>1. CASE \E r \in DOMAIN thread : ThreadStep(r)
  <2>1. PICK r \in DOMAIN thread : ThreadStep(r)
    BY <1>1
  <2>2. CASE ExitThread(r)
    BY <2>2 DEF ExitThread, Unregister, Restrict, recovery
  <2>3. CASE ThreadMoves(r) /\ StageStep(r)
    BY <2>1, <2>3, ThreadStepMoves DEF ThreadMoves, StageStep, recovery
  <2> QED BY <2>1, <2>2, <2>3, ThreadStepMoves
<1>2. CASE UNCHANGED <<thread, recreating>>
  BY <1>2
<1>3. CASE DrainClaim
  <2>1. /\ \A r \in DOMAIN thread' : \/ r \in DOMAIN thread /\ thread'[r] = thread[r]
                                     \/ thread'[r].pc = "claimed"
        /\ recreating' = recreating
    BY <1>3 DEF DrainClaim, Extend, recovery
  <2> QED BY <2>1
<1>4. CASE ReaperStep
  BY <1>2, <1>4 DEF ReaperStep, ReapRow, ReaperCheck, ReaperSkip, ReaperCreate, TypeInv
<1>5. CASE WipeMemory
  BY <1>5 DEF WipeMemory
<1>6. CASE DrainStep /\ ~DrainClaim
  BY <1>2, <1>6 DEF DrainStep, DrainAcquire, DrainLoseClaim, recovery
<1>7. CASE ProcessStep /\ ~ExitProcess
  BY <1>2, <1>7 DEF ProcessStep, Boot, BootDone, ListActiveRuns, MarkActiveRuns, JoinActiveRuns,
                    FlagActiveRun, RequeueInPlace, SkipInPlace, recovery
<1>8. CASE CancelStep \/ Request \/ UNCHANGED vars
  BY <1>2, <1>8 DEF CancelStep, CancelFlag, CancelSettle, Request, CreateRun, CancelRead, vars,
                    memory, recovery
<1>9. CASE \/ StopLoops \/ ClaimRaises
           \/ \E r \in unflagged : FlagFails(r)
           \/ \E r \in DOMAIN cancel : CancelDies(r)
  BY <1>2, <1>9 DEF StopLoops, ClaimRaises, FlagFails, CancelDies, memory, recovery
<1>10. ASSUME NEW r \in DOMAIN thread,
              DispatchFails(r) \/ LoadBlindly(r) \/ ThreadCrashes(r) \/ WriteRaises(r) \/ ReapSlow(r)
       PROVE  InsertionStep
  <2>1. CASE DispatchFails(r)
    BY <2>1 DEF DispatchFails, Unregister, Restrict, recovery
  <2>2. CASE LoadBlindly(r) \/ ThreadCrashes(r) \/ WriteRaises(r)
    BY <2>2, GotoMoves DEF LoadBlindly, ThreadCrashes, WriteRaises, otherThanThread, ThreadMoves,
                           recovery
  <2>3. CASE ReapSlow(r)
    BY <2>3 DEF ReapSlow
  <2> QED BY <1>10, <2>1, <2>2, <2>3
<1> QED BY <1>1, <1>3, <1>4, <1>5, <1>6, <1>7, <1>8, <1>9, <1>10
        DEF Next, Progress, FaultStep, ProcessStep, ExitProcess, Crash

LEMMA LineageStep ==
    ASSUME TypeInv, TypeInv', LineageInv, [Next]_vars
    PROVE  LineageInv'
<1>1. TableStep
  BY TableSteps
<1>2. ASSUME NEW r \in DOMAIN runs
      PROVE  /\ runs[r].attempt \in Nat
             /\ runs'[r].attempt = runs[r].attempt
             /\ runs'[r].source \in {runs[r].source, "restart_retry"}
             /\ RestartAdmitted(r) => runs[r].attempt < MaxAttempts
  <2>1. runs[r].attempt \in Nat
    BY RowOf DEF Row
  <2> QED BY <1>1, <2>1 DEF TableStep, RowStep, Faithful, LineageInv, LineageBounded, RestartAdmitted
<1>3. ASSUME NEW row, Inserted(row)
      PROVE  /\ row.attempt <= MaxAttempts
             /\ row.source # "restart_retry" => row.attempt < MaxAttempts
  <2> MaxAttempts \in Nat \ {0}
    BY ConstantsAssumption
  <2>1. CASE row = NewRow("manual", 0)
    BY <2>1 DEF NewRow
  <2>2. ASSUME NEW r \in DOMAIN runs, At(r, "retry_create"),
               row = NewRow("retry", runs[r].attempt + 1)
        PROVE  row.attempt <= MaxAttempts /\ row.attempt < MaxAttempts
    <3>1. runs[r].attempt < MaxAttempts - 1 /\ runs[r].attempt \in Nat
      BY <1>2, <2>2 DEF At, LineageInv
    <3>2. row.attempt = runs[r].attempt + 1
      BY <2>2 DEF NewRow
    <3> QED BY <3>1, <3>2
  <2>3. ASSUME NEW r \in DOMAIN runs, At(r, "requeue_create") \/ recreating = r,
               row = NewRow("restart_retry", runs[r].attempt + 1)
        PROVE  row.attempt <= MaxAttempts /\ row.source = "restart_retry"
    <3>1. runs[r].attempt < MaxAttempts /\ runs[r].attempt \in Nat
      <4>1. NoRun \notin DOMAIN runs
        BY ConstantsAssumption DEF TypeInv
      <4> QED BY <1>2, <2>3, <4>1 DEF At, LineageInv
    <3>2. row.attempt = runs[r].attempt + 1 /\ row.source = "restart_retry"
      BY <2>3 DEF NewRow
    <3> QED BY <3>1, <3>2
  <2> QED BY <1>3, <2>1, <2>2, <2>3 DEF Inserted
<1>4. LineageBounded'
  BY <1>1, <1>2, <1>3 DEF TableStep, LineageInv, LineageBounded
<1>5. ASSUME NEW r \in DOMAIN thread'
      PROVE  /\ thread'[r].pc = "retry_create" => runs'[r].attempt < MaxAttempts - 1
             /\ thread'[r].pc = "requeue_create" => runs'[r].attempt < MaxAttempts
  <2> SUFFICES ASSUME thread'[r].pc \in {"retry_create", "requeue_create"}
               PROVE  /\ r \in DOMAIN runs
                      /\ thread'[r].pc = "retry_create" => runs[r].attempt < MaxAttempts - 1
                      /\ thread'[r].pc = "requeue_create" => runs[r].attempt < MaxAttempts
    BY <1>2
  <2>1. r \in DOMAIN thread /\ r \in DOMAIN runs
    BY InsertionSteps DEF InsertionStep, TypeInv
  <2>2. CASE thread[r].pc = thread'[r].pc
    BY <2>1, <2>2 DEF LineageInv
  <2>3. CASE thread[r].pc # thread'[r].pc
    BY <1>2, <2>1, <2>3, InsertionSteps DEF InsertionStep
  <2> QED BY <2>2, <2>3
<1>6. recreating' # NoRun => runs'[recreating'].attempt < MaxAttempts
  BY <1>2, InsertionSteps DEF InsertionStep, LineageInv
<1> QED BY <1>4, <1>5, <1>6 DEF LineageInv

\* Policy retries and restart retries together stay within the budget, whatever
\* is crashed, reaped, restarted or requeued in place.
THEOREM LineagesStayBounded == Spec => []LineageBounded
<1>1. Init => LineageInv
  BY DEF Init, LineageInv, LineageBounded
<1>2. LineageInv => LineageBounded
  BY DEF LineageInv
<1> QED BY <1>1, <1>2, LineageStep, TypeInvariant, PTL DEF Spec

-----------------------------------------------------------------------------
(* Commands start once *)

\* A sandboxed run that has begun is marked for as long as a thread or a shutdown
\* holds it, which is what the shutdown consults before it requeues in place, and
\* the drain does not hold it.
CommandInv ==
    \A r \in begun : ~Agent(r) =>
        /\ NotStartedAgain(r)
        /\ r \in DOMAIN thread \cup snapshot => r \in marked
        /\ drain # r

\* What any step does to the marks and to the stages before the command.
StartStep ==
    /\ \/ UNCHANGED begun
       \/ \E r \in DOMAIN thread : begun' = begun \cup {r} /\ (GateAgentLoop(r) \/ GateCommand(r))
    /\ \/ marked \subseteq marked'
       \/ DrainClaim
       \/ WipeMemory
    /\ \A r \in DOMAIN thread' :
          thread'[r].pc \in PreCommand =>
             \/ r \in DOMAIN thread /\ thread[r].pc \in PreCommand
             \/ DrainClaim /\ r = drain

LEMMA StartSteps ==
    ASSUME TypeInv, [Next]_vars
    PROVE  StartStep
<1> USE DEF StartStep
<1>1. ASSUME NEW r \in DOMAIN thread, ThreadStep(r)
      PROVE  StartStep
  <2>1. \A x \in DOMAIN thread' :
           thread'[x].pc \in PreCommand => x \in DOMAIN thread /\ thread[x].pc \in PreCommand
    <3>1. CASE ExitThread(r)
      BY <3>1 DEF ExitThread, Unregister, Restrict
    <3>2. CASE ThreadMoves(r) /\ StageStep(r)
      BY <3>2 DEF ThreadMoves, StageStep
    <3> QED BY <1>1, <3>1, <3>2, ThreadStepMoves
  <2>2. CASE UNCHANGED <<begun, marked>>
    BY <2>1, <2>2
  <2>3. CASE GateCommand(r)
    <3>1. \/ UNCHANGED <<begun, marked>>
          \/ begun' = begun \cup {r} /\ marked' = marked \cup {r}
      BY <2>3 DEF GateCommand
    <3> QED BY <2>1, <2>3, <3>1
  <2>4. CASE GateAgentLoop(r) /\ begun' = begun \cup {r} /\ UNCHANGED marked
    BY <2>1, <2>4 DEF GateAgentLoop
  <2> QED BY <1>1, <2>2, <2>3, <2>4, ThreadStepMoves
<1>2. CASE UNCHANGED <<thread, marked, begun>>
  BY <1>2
<1>3. CASE DrainClaim
  <2>1. \A r \in DOMAIN thread' : thread'[r].pc \in PreCommand =>
            \/ r \in DOMAIN thread /\ thread[r].pc \in PreCommand
            \/ r = drain
    BY <1>3 DEF DrainClaim, Extend
  <2> QED BY <1>3, <2>1 DEF DrainClaim
<1>4. CASE ReaperStep
  BY <1>2, <1>4 DEF ReaperStep, ReapRow, ReaperCheck, ReaperSkip, ReaperCreate
<1>5. CASE WipeMemory /\ UNCHANGED begun
  BY <1>5 DEF WipeMemory
<1>6. CASE DrainStep /\ ~DrainClaim
  BY <1>2, <1>6 DEF DrainStep, DrainAcquire, DrainLoseClaim
<1>7. CASE ProcessStep /\ ~ExitProcess
  BY <1>2, <1>7 DEF ProcessStep, Boot, BootDone, ListActiveRuns, MarkActiveRuns, JoinActiveRuns,
                    FlagActiveRun, RequeueInPlace, SkipInPlace
<1>8. CASE CancelStep \/ Request \/ UNCHANGED vars
  BY <1>2, <1>8 DEF CancelStep, CancelFlag, CancelSettle, Request, CreateRun, CancelRead, vars,
                    memory
<1>9. CASE \/ StopLoops \/ ClaimRaises
           \/ \E r \in unflagged : FlagFails(r)
           \/ \E r \in DOMAIN cancel : CancelDies(r)
  BY <1>2, <1>9 DEF StopLoops, ClaimRaises, FlagFails, CancelDies, memory
<1>10. ASSUME NEW r \in DOMAIN thread,
              DispatchFails(r) \/ LoadBlindly(r) \/ ThreadCrashes(r) \/ WriteRaises(r) \/ ReapSlow(r)
       PROVE  StartStep
  <2>1. CASE DispatchFails(r)
    BY <2>1 DEF DispatchFails, Unregister, Restrict
  <2>2. CASE LoadBlindly(r)
    <3>1. ThreadMoves(r) /\ thread[r].pc = "scoped"
      BY <2>2, GotoMoves DEF LoadBlindly, otherThanThread, At
    <3> QED BY <2>2, <3>1 DEF LoadBlindly, otherThanThread, ThreadMoves, PreCommand, PreSandbox
  <2>3. CASE ThreadCrashes(r) \/ WriteRaises(r)
    <3>1. ThreadMoves(r) /\ thread'[r].pc \in {"crash_write", "fail_write", "exit"}
      BY <2>3, GotoMoves DEF ThreadCrashes, WriteRaises, otherThanThread
    <3> QED BY <2>3, <3>1 DEF ThreadCrashes, WriteRaises, otherThanThread, ThreadMoves, PreCommand,
                              PreSandbox
  <2>4. CASE ReapSlow(r)
    BY <1>2, <2>4 DEF ReapSlow
  <2> QED BY <1>10, <2>1, <2>2, <2>3, <2>4
<1> QED BY <1>1, <1>3, <1>4, <1>5, <1>6, <1>7, <1>8, <1>9, <1>10
        DEF Next, Progress, FaultStep, ProcessStep, ExitProcess, Crash

LEMMA CommandStep ==
    ASSUME TypeInv, TypeInv', Separation, CommandInv, [Next]_vars
    PROVE  CommandInv'
<1>1. MemoryStep /\ TableStep /\ StartStep
  BY MemorySteps, TableSteps, StartSteps
<1> NoRun \notin DOMAIN runs
  BY ConstantsAssumption DEF TypeInv
<1>2. ASSUME NEW r \in begun, ~Agent(r)
      PROVE  /\ NotStartedAgain(r)'
             /\ r \in DOMAIN thread' \cup snapshot' => r \in marked'
             /\ drain' # r
  <2> r \in DOMAIN runs
    BY DEF TypeInv
  <2>1. /\ NotStartedAgain(r)
        /\ r \in DOMAIN thread \cup snapshot => r \in marked
        /\ drain # r
    BY <1>2 DEF CommandInv
  <2>2. runs'[r].status # "queued"
    <3>1. ~Requeued(r)
      BY <2>1 DEF Requeued, NotStartedAgain, At, PreCommand, PreSandbox, InPlaceAdmitted
    <3> QED BY <1>1, <2>1, <3>1 DEF TableStep, RowStep, NotStartedAgain
  <2>3. r \in DOMAIN thread' => thread'[r].pc \notin PreCommand
    BY <1>1, <2>1 DEF StartStep, NotStartedAgain
  <2>4. CASE WipeMemory
    BY <2>2, <2>4 DEF WipeMemory, NotStartedAgain
  <2>5. CASE ~WipeMemory
    <3>1. r \in DOMAIN thread' \cup snapshot' => r \in DOMAIN thread \cup snapshot
      BY <1>1, <2>1, <2>5, ClaimDomain, UnregisterDomain
         DEF MemoryStep, ShutdownMoves, DrainAcquire, DrainClaim, shutdown, ListActiveRuns, MarkActiveRuns,
             JoinActiveRuns
    <3>2. r \in marked => r \in marked'
      BY <1>1, <2>1, <2>5 DEF StartStep, DrainClaim
    <3>3. drain' # r
      <4>1. \A x \in DOMAIN runs : DrainAcquire(x) => x # r /\ drain' = x
        BY <2>1 DEF DrainAcquire, Drainable, NotStartedAgain
      <4> QED BY <1>1, <2>1, <2>5, <4>1 DEF MemoryStep, ShutdownMoves, DrainClaim
    <3> QED BY <2>1, <2>2, <2>3, <3>1, <3>2, <3>3 DEF NotStartedAgain
  <2> QED BY <2>4, <2>5
<1>3. ASSUME NEW r \in begun', r \notin begun, ~Agent(r)
      PROVE  /\ NotStartedAgain(r)'
             /\ r \in DOMAIN thread' \cup snapshot' => r \in marked'
             /\ drain' # r
  <2>1. r \in DOMAIN thread /\ GateCommand(r)
    BY <1>1, <1>3 DEF StartStep, GateAgentLoop
  <2>2. Goto(r, "command") /\ r \in marked' /\ UNCHANGED <<runs, permits, drain, interrupted>>
    BY <1>3, <2>1 DEF GateCommand
  <2>3. thread'[r].pc = "command" /\ runs'[r].status # "queued" /\ drain' # r
    BY <2>1, <2>2, GotoMoves DEF Separation
  <2> QED BY <2>2, <2>3 DEF NotStartedAgain, PreCommand, PreSandbox
<1> QED BY <1>2, <1>3 DEF CommandInv, Agent

\* No sandboxed run starts its command twice, across crashes, restarts, retries
\* and requeues in place, for any number of runs, faults and cancels.
THEOREM CommandsStartOnce == Spec => []CommandStartsOnce
<1>1. Init => CommandInv
  BY DEF Init, CommandInv
<1>2. CommandInv => CommandStartsOnce
  BY DEF CommandInv, CommandStartsOnce
<1> QED BY <1>1, <1>2, CommandStep, TypeInvariant, SeparationInvariant, PTL DEF Spec
=============================================================================
