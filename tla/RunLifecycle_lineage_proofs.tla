--------------------- MODULE RunLifecycle_lineage_proofs ---------------------
(***************************************************************************)
(* The lineages of RunLifecycle have one branch, a run that has a child is *)
(* over, and a live command is visible in its row: for any number of runs, *)
(* permits, attempts, cancels and faults, as long as the sweep for stuck   *)
(* threads ("slow") takes none that is alive.                              *)
(***************************************************************************)
EXTENDS RunLifecycle_proofs

-----------------------------------------------------------------------------
(* What a step does to rows *)

\* The stages in which a thread is in the hands of a driver, and those in which it
\* is about to insert a child.
DriverStage == {"dispatching", "sandbox", "command"}
CreateStage == {"retry_create", "requeue_create"}

\* A write keeps the source and the cancel flag, or it requeues the run in place.
Keeps(old, new) ==
    /\ new.source = old.source
    /\ old.cancelRequested => new.cancelRequested

\* What a step may do to the row of a run, seen from the run's thread.
RowMoves(r) ==
    /\ \/ Keeps(runs[r], runs'[r])
       \/ runs'[r].source = "restart_retry" /\ runs[r].source # "restart_retry"
    /\ runs'[r].status = "running" =>
          runs[r].status = "running" \/ r \in DOMAIN thread \/ (r = drain /\ drain' = NoRun)
    /\ runs'[r].status = "queued" =>
          \/ runs[r].status = "queued" \/ r \in DOMAIN thread \/ r = drain
          \/ r \in snapshot /\ ~Keeps(runs[r], runs'[r])
    /\ runs[r].status = "running" =>
          \/ runs'[r].status = "running"
          \/ r \notin DOMAIN thread
          \/ proc = "down"
          \/ r \in DOMAIN cancel /\ cancel[r].flagged
          \/ r \in DOMAIN thread' => thread'[r].pc \notin DriverStage

\* A row is born for a trigger, or by a parent that is about to insert it.
Born(c) ==
    \/ c.path = <<>> /\ runs'[c].source = "manual" /\ runs'[c].attempt = 0
    \/ \E r \in DOMAIN runs, s \in RetrySource :
          /\ c = RetryRunId(r, s)
          /\ runs'[c].source = s /\ runs'[c].attempt = runs[r].attempt + 1
          /\ \/ /\ r \in DOMAIN thread /\ thread[r].pc \in CreateStage
                /\ r \in DOMAIN thread' /\ thread'[r].pc \notin CreateStage
                /\ UNCHANGED <<recovery, drain>>
             \/ recreating = r /\ recreating' = NoRun /\ UNCHANGED <<thread, drain>>

TableMoves ==
    /\ DOMAIN runs \subseteq DOMAIN runs'
    /\ \A r \in DOMAIN runs : RowMoves(r)
    /\ \A c \in DOMAIN runs' \ DOMAIN runs : Born(c)
    /\ \A c, d \in DOMAIN runs' \ DOMAIN runs : c = d

LEMMA KeptFields ==
    ASSUME NEW row \in Row, NEW status, NEW error
    PROVE  /\ Keeps(row, row)
           /\ Keeps(row, Written(row, status, error))
           /\ Keeps(row, Failed(row))
           /\ Keeps(row, WithStatus(row, status))
           /\ Keeps(row, Flagged(row))
           /\ Keeps(row, Logged(row))
           /\ Keeps(row, CancelOutcome(row, status))
<1> DOMAIN row = {"status", "source", "attempt", "error", "cancelRequested", "executionLog"}
  BY DEF Row
<1>1. \A s, e : Keeps(row, Written(row, s, e))
  BY DEF Keeps, Written
<1>2. Keeps(row, row) /\ Keeps(row, WithStatus(row, status)) /\ Keeps(row, Logged(row))
  BY DEF Keeps, WithStatus, Logged
<1>3. Keeps(row, Flagged(row))
  BY DEF Keeps, Flagged
<1> QED BY <1>1, <1>2, <1>3 DEF Failed, CancelOutcome

\* A step that writes one row, and moves it as a step may.
LEMMA OneRowMoves ==
    ASSUME TypeInv, NEW r \in DOMAIN runs, NEW row, SetRow(r, row),
           runs'[r] = row => RowMoves(r)
    PROVE  TableMoves
<1>1. DOMAIN runs' = DOMAIN runs /\ runs'[r] = row /\ \A x \in DOMAIN runs \ {r} : runs'[x] = runs[x]
  BY DEF SetRow, TypeInv
<1>2. \A x \in DOMAIN runs \ {r} : RowMoves(x)
  BY <1>1, RowOf, KeptFields DEF RowMoves
<1> QED BY <1>1, <1>2 DEF TableMoves

LEMMA NoRowMoves ==
    ASSUME TypeInv, UNCHANGED runs
    PROVE  TableMoves
BY RowOf, KeptFields DEF TableMoves, RowMoves

\* A write by a thread that leaves the driver's hands, or that keeps the status.
LEMMA OwnRowMoves ==
    ASSUME TypeInv, NEW r \in DOMAIN thread, NEW row, SetRow(r, row), Keeps(runs[r], row),
           \/ row.status = runs[r].status
           \/ row.status = "running"
           \/ r \in DOMAIN thread' => thread'[r].pc \notin DriverStage
    PROVE  TableMoves
<1>1. r \in DOMAIN runs
  BY DEF TypeInv
<1> QED BY <1>1, OneRowMoves DEF RowMoves

\* The insertion of a child, by its parent's thread or by the reaper.
LEMMA ChildIsBorn ==
    ASSUME TypeInv, NEW r \in DOMAIN runs, NEW source \in RetrySource,
           runs' = WithChild(r, source),
           \/ /\ r \in DOMAIN thread /\ thread[r].pc \in CreateStage
              /\ r \in DOMAIN thread' /\ thread'[r].pc \notin CreateStage
              /\ UNCHANGED <<recovery, drain>>
           \/ recreating = r /\ recreating' = NoRun /\ UNCHANGED <<thread, drain>>
    PROVE  TableMoves
<1> DEFINE c == RetryRunId(r, source)
           row == NewRow(source, runs[r].attempt + 1)
<1>1. CASE c \in DOMAIN runs
  BY <1>1, NoRowMoves DEF WithChild
<1>2. CASE c \notin DOMAIN runs
  <2>1. runs' = Extend(runs, c, row)
    BY <1>2 DEF WithChild
  <2>2. row.source = source /\ row.attempt = runs[r].attempt + 1
    BY DEF NewRow
  <2>3. /\ DOMAIN runs' = DOMAIN runs \cup {c}
        /\ runs'[c] = row
        /\ \A x \in DOMAIN runs : runs'[x] = runs[x]
    <3> HIDE DEF c, row
    <3> QED BY <1>2, <2>1 DEF Extend
  <2>4. Born(c)
    BY <2>2, <2>3 DEF Born
  <2>5. \A x \in DOMAIN runs : RowMoves(x)
    BY <2>3, RowOf, KeptFields DEF RowMoves
  <2> QED BY <2>3, <2>4, <2>5 DEF TableMoves
<1> QED BY <1>1, <1>2

LEMMA ThreadTableMoves ==
    ASSUME TypeInv, NEW r \in DOMAIN thread, ThreadStep(r)
    PROVE  TableMoves
<1> r \in DOMAIN runs /\ runs[r] \in Row
  BY RowOf DEF TypeInv
<1> UNCHANGED <<recovery, drain>>
  BY ThreadStepMoves
<1>1. CASE UNCHANGED runs
  BY <1>1, NoRowMoves
<1>2. CASE EnterThread(r) \/ LoadRun(r) \/ RecheckStatus(r) \/ FinishRun(r) \/ ExitThread(r)
  BY <1>1, <1>2 DEF EnterThread, LoadRun, RecheckStatus, FinishRun, ExitThread
<1>3. CASE AbortCancelled(r) \/ FailSetup(r) \/ FailCrashed(r)
  <2>1. SetRow(r, Failed(runs[r])) /\ thread'[r].pc \notin DriverStage
    BY <1>3, GotoMoves
       DEF AbortCancelled, FailSetup, FailCrashed, otherThanThread, DriverStage
  <2> QED BY <2>1, OwnRowMoves, KeptFields
<1>4. CASE DriverStep(r)
  <2>1. UNCHANGED runs \/ SetRow(r, Logged(runs[r]))
    BY <1>4 DEF DriverStep, GateSpawn, DriverFails, DriverRaises, GateCommand, GateAgentLoop,
                CommandReturns
  <2> QED BY <1>1, <2>1, OwnRowMoves, KeptFields, RowFields
<1>5. CASE SettleStep(r)
  <2>1. CASE ReadForCompletion(r)
    BY <1>1, <2>1 DEF ReadForCompletion
  <2>2. CASE ~ReadForCompletion(r)
    <3>1. PICK status, error, pc :
             /\ \/ SetRow(r, Written(runs[r], status, error))
                \/ SetRow(r, WithStatus(runs[r], status))
             /\ Goto(r, pc) /\ pc \in {"exit", "retry_check", "finishing"}
             /\ UNCHANGED otherThanThread
      BY <1>5, <2>2
         DEF SettleStep, SettleInterrupted, SettleCancelled, SettleFailed, SettleRetryable,
             SettlePending, WriteCompletion, FailRaised, Settle, Failed
    <3>2. thread'[r].pc \notin DriverStage
      BY <3>1, GotoMoves DEF otherThanThread, DriverStage
    <3> QED BY <3>1, <3>2, OwnRowMoves, KeptFields
  <2> QED BY <2>1, <2>2
<1>6. CASE RetryStep(r)
  <2>1. CASE CheckRetry(r) \/ SkipRetry(r) \/ CheckRestart(r) \/ SkipRestart(r)
    BY <1>1, <2>1 DEF CheckRetry, SkipRetry, CheckRestart, SkipRestart
  <2>2. CASE CreateRetry(r) \/ CreateRestart(r)
    <3>1. PICK source \in RetrySource, pc \in {"fail_write", "exit"} :
             /\ runs' = WithChild(r, source)
             /\ At(r, "retry_create") \/ At(r, "requeue_create")
             /\ Goto(r, pc)
             /\ UNCHANGED otherThanThread
      BY <2>2 DEF CreateRetry, CreateRestart, RetrySource, AfterRetry
    <3>2. r \in DOMAIN thread' /\ thread'[r].pc \notin CreateStage
      BY <3>1, GotoMoves DEF otherThanThread, CreateStage, ThreadMoves
    <3>3. thread[r].pc \in CreateStage
      BY <3>1 DEF At, CreateStage
    <3> QED BY <3>1, <3>2, <3>3, ChildIsBorn
  <2> QED BY <1>6, <2>1, <2>2 DEF RetryStep
<1> QED BY <1>2, <1>3, <1>4, <1>5, <1>6 DEF ThreadStep

\* Boot and its end fail whole classes of rows, when no thread is there.
LEMMA SweepMoves ==
    ASSUME TypeInv, NEW status, status = "running" => proc = "down",
           runs' = [r \in DOMAIN runs |-> IF runs[r].status = status
                                         THEN Failed(runs[r]) ELSE runs[r]]
    PROVE  TableMoves
<1>1. ASSUME NEW r \in DOMAIN runs
      PROVE  /\ Keeps(runs[r], runs'[r])
             /\ runs'[r].status \in {runs[r].status, "failed"}
             /\ runs[r].status = "running" => runs'[r].status = "running" \/ proc = "down"
  <2>1. CASE runs[r].status = status
    <3>1. runs'[r] = Failed(runs[r])
      BY <2>1
    <3> QED BY <2>1, <3>1, RowOf, KeptFields, RowFields DEF Failed
  <2>2. CASE runs[r].status # status
    BY <2>2, RowOf, KeptFields
  <2> QED BY <2>1, <2>2
<1> QED BY <1>1 DEF TableMoves, RowMoves

\* A write to a row without a thread: it does not set the row to running.
LEMMA ForeignRowMoves ==
    ASSUME TypeInv, NEW r \in DOMAIN runs, NEW row, SetRow(r, row),
           \/ Keeps(runs[r], row)
           \/ row.source = "restart_retry" /\ runs[r].source # "restart_retry",
           row.status # "running" \/ row.status = runs[r].status,
           \/ row.status # "queued" \/ row.status = runs[r].status \/ r = drain
           \/ r \in snapshot /\ ~Keeps(runs[r], row),
           row.status = runs[r].status \/ r \notin DOMAIN thread
    PROVE  TableMoves
BY OneRowMoves DEF RowMoves

LEMMA ProgressTableMoves ==
    ASSUME TypeInv, Separation, Progress
    PROVE  TableMoves
<1>1. CASE UNCHANGED runs
  BY <1>1, NoRowMoves
<1>2. CASE \E r \in DOMAIN thread : ThreadStep(r)
  BY <1>2, ThreadTableMoves
<1>3. CASE DrainStep
  <2>1. CASE DrainClaim
    <3>1. drain \in DOMAIN runs /\ runs[drain].status = "queued"
      BY <2>1 DEF DrainClaim, TypeInv, Drainable
    <3>2. SetRow(drain, Written(runs[drain], "running", "none")) /\ drain' = NoRun
      BY <2>1 DEF DrainClaim
    <3> QED BY <3>1, <3>2, RowOf, OneRowMoves, KeptFields, RowFields DEF RowMoves
  <2>2. CASE ~DrainClaim
    BY <1>1, <1>3, <2>2 DEF DrainStep, DrainAcquire, DrainLoseClaim
  <2> QED BY <2>1, <2>2
<1>4. CASE ReaperStep
  <2>1. ASSUME NEW r \in DOMAIN runs, ReapRow(r)
        PROVE  TableMoves
    <3>1. SetRow(r, Failed(runs[r])) /\ r \notin DOMAIN thread
      BY <2>1 DEF ReapRow
    <3> QED BY <3>1, RowOf, ForeignRowMoves, KeptFields, RowFields DEF Failed
  <2>2. CASE \E r \in DOMAIN runs : ReaperCheck(r) \/ ReaperSkip(r)
    BY <1>1, <2>2 DEF ReaperCheck, ReaperSkip
  <2>3. CASE ReaperCreate
    <3>1. recreating \in DOMAIN runs
      BY <2>3 DEF ReaperCreate, TypeInv
    <3> QED BY <2>3, <3>1, ChildIsBorn DEF ReaperCreate, RetrySource
  <2> QED BY <1>4, <2>1, <2>2, <2>3 DEF ReaperStep
<1>5. CASE ProcessStep
  <2>1. CASE Boot \/ BootDone
    BY <2>1, SweepMoves DEF Boot, BootDone
  <2>2. CASE ListActiveRuns \/ MarkActiveRuns \/ JoinActiveRuns \/ ExitProcess
    BY <1>1, <2>2 DEF ListActiveRuns, MarkActiveRuns, JoinActiveRuns, ExitProcess
  <2>3. ASSUME NEW r \in snapshot, FlagActiveRun(r) \/ RequeueInPlace(r) \/ SkipInPlace(r)
        PROVE  TableMoves
    <3> r \in DOMAIN runs /\ runs[r] \in Row
      BY RowOf DEF TypeInv
    <3>1. CASE FlagActiveRun(r)
      BY <3>1, ForeignRowMoves, KeptFields, RowFields DEF FlagActiveRun
    <3>2. CASE RequeueInPlace(r)
      <4>1. r \notin DOMAIN thread /\ runs[r].source # "restart_retry"
        BY <3>2 DEF RequeueInPlace, Separation, InPlaceAdmitted
      <4>2. /\ RequeuedRow(runs[r]).source = "restart_retry"
            /\ RequeuedRow(runs[r]).status = "queued"
            /\ ~Keeps(runs[r], RequeuedRow(runs[r]))
        BY <4>1, RowFields DEF Keeps
      <4> QED BY <3>2, <4>1, <4>2, ForeignRowMoves DEF RequeueInPlace
    <3>3. CASE SkipInPlace(r)
      BY <1>1, <3>3 DEF SkipInPlace
    <3> QED BY <2>3, <3>1, <3>2, <3>3
  <2> QED BY <1>5, <2>1, <2>2, <2>3 DEF ProcessStep
<1>6. CASE CancelStep
  <2>1. PICK r \in DOMAIN cancel : CancelFlag(r) \/ CancelSettle(r)
    BY <1>6 DEF CancelStep
  <2>2. r \in DOMAIN runs /\ runs[r] \in Row
    BY RowOf DEF TypeInv
  <2>3. CASE CancelFlag(r)
    BY <2>2, <2>3, ForeignRowMoves, KeptFields, RowFields DEF CancelFlag
  <2>4. CASE CancelSettle(r)
    <3> DEFINE row == CancelOutcome(runs[r], cancel[r].seen)
    <3>1. SetRow(r, row) /\ r \in DOMAIN cancel /\ cancel[r].flagged
      BY <2>4 DEF CancelSettle
    <3>2. row.status \notin {"queued", "running"} /\ Keeps(runs[r], row)
      BY <2>2, KeptFields, RowFields DEF CancelOutcome
    <3> HIDE DEF row
    <3> QED BY <2>2, <3>1, <3>2, OneRowMoves DEF RowMoves
  <2> QED BY <2>1, <2>3, <2>4
<1> QED BY <1>2, <1>3, <1>4, <1>5, <1>6 DEF Progress

LEMMA FaultTableMoves ==
    ASSUME TypeInv, Separation, FaultStep, "slow" \notin Faults
    PROVE  TableMoves
<1>1. CASE \/ Crash \/ StopLoops
           \/ \E r \in unflagged : FlagFails(r)
           \/ \E r \in DOMAIN cancel : CancelDies(r)
  BY <1>1, NoRowMoves DEF Crash, StopLoops, FlagFails, CancelDies
<1>2. CASE ClaimRaises
  <2>1. drain \in DOMAIN runs /\ drain \notin DOMAIN thread
    BY <1>2 DEF ClaimRaises, TypeInv, Separation
  <2>2. CASE SetRow(drain, WithStatus(runs[drain], "queued"))
    BY <2>1, <2>2, RowOf, ForeignRowMoves, KeptFields, RowFields
  <2> QED BY <1>2, <2>2, NoRowMoves DEF ClaimRaises
<1>3. ASSUME NEW r \in DOMAIN thread,
             DispatchFails(r) \/ LoadBlindly(r) \/ ThreadCrashes(r) \/ WriteRaises(r) \/ ReapSlow(r)
      PROVE  TableMoves
  <2> r \in DOMAIN runs /\ runs[r] \in Row
    BY RowOf DEF TypeInv
  <2>1. CASE DispatchFails(r)
    <3>1. r \notin DOMAIN thread'
      BY <2>1, UnregisterDomain DEF DispatchFails
    <3>2. CASE SetRow(r, WithStatus(runs[r], "queued"))
      BY <3>1, <3>2, OwnRowMoves, KeptFields
    <3> QED BY <2>1, <3>2, NoRowMoves DEF DispatchFails
  <2>2. CASE LoadBlindly(r)
    BY <2>2, OwnRowMoves, KeptFields, RowFields DEF LoadBlindly
  <2>3. CASE ThreadCrashes(r) \/ WriteRaises(r)
    BY <2>3, NoRowMoves DEF ThreadCrashes, WriteRaises
  <2>4. CASE ReapSlow(r)
    BY <2>4 DEF ReapSlow, Fault
  <2> QED BY <1>3, <2>1, <2>2, <2>3, <2>4
<1> QED BY <1>1, <1>2, <1>3 DEF FaultStep

LEMMA TableMovesAlways ==
    ASSUME TypeInv, Separation, [Next]_vars, "slow" \notin Faults
    PROVE  TableMoves
<1>1. CASE \E root \in Roots : CreateRun(root)
  <2>1. PICK root \in Roots : CreateRun(root)
    BY <1>1
  <2> DEFINE r == [root |-> root, path |-> <<>>]
             row == NewRow("manual", 0)
  <2>2. runs' = Extend(runs, r, row) /\ r \notin DOMAIN runs /\ r.path = <<>>
        /\ row.source = "manual" /\ row.attempt = 0
    BY <2>1 DEF CreateRun, NewRow
  <2> HIDE DEF r, row
  <2>3. /\ DOMAIN runs' = DOMAIN runs \cup {r}
        /\ runs'[r] = row
        /\ \A x \in DOMAIN runs : runs'[x] = runs[x]
    BY <2>2 DEF Extend
  <2> QED BY <2>2, <2>3, RowOf, KeptFields DEF TableMoves, RowMoves, Born
<1>2. CASE \E r \in DOMAIN runs : CancelRead(r)
  BY <1>2, NoRowMoves DEF CancelRead
<1>3. CASE UNCHANGED vars
  BY <1>3, NoRowMoves DEF vars
<1> QED BY <1>1, <1>2, <1>3, ProgressTableMoves, FaultTableMoves DEF Next, Request

-----------------------------------------------------------------------------
(* What a step does to threads, recovery, the process and cancel requests *)

\* A thread is given to a driver only while its row is running, and brought to an
\* insertion only where the run has no child yet.
ThreadsGo ==
    \A r \in DOMAIN thread' :
        /\ thread'[r].pc \in DriverStage =>
              /\ r \in DOMAIN thread
              /\ \/ thread[r].pc \in DriverStage
                 \/ thread[r].pc = "setup" /\ runs[r].status = "running" /\ UNCHANGED runs
        /\ thread'[r].pc \in CreateStage =>
              /\ r \in DOMAIN thread
              /\ \/ thread[r].pc \in CreateStage
                 \/ PersistedRetries(r) = {} /\ UNCHANGED <<runs, recovery>>

\* Recovery fails a row that has no thread, and then looks for a child.
Reaped(r) ==
    /\ r \in DOMAIN runs
    /\ runs[r].status = "running"
    /\ runs'[r].status = "failed"
    /\ (proc = "up" /\ r \notin DOMAIN thread) \/ proc = "down"
    /\ UNCHANGED <<thread, drain, snapshot>>

RecoveryGoes ==
    /\ \A r \in reaping' : r \in reaping \/ Reaped(r)
    /\ recreating' # NoRun =>
          \/ recreating' = recreating
          \/ /\ recreating' \in reaping
             /\ PersistedRetries(recreating') = {}
             /\ UNCHANGED <<runs, thread>>

\* A process goes down with its memory; a cancel flags the row.
ProcessGoes ==
    proc' \in {"down", "booting"} => proc \in {"down", "booting"} \/ WipeMemory

CancelsGo ==
    \A r \in DOMAIN cancel' :
        cancel'[r].flagged => (r \in DOMAIN cancel /\ cancel[r].flagged) \/ runs'[r].cancelRequested

Goes == ThreadsGo /\ RecoveryGoes /\ ProcessGoes /\ CancelsGo

\* A step that moves one thread.
LEMMA OneThreadGoes ==
    ASSUME TypeInv, NEW r \in DOMAIN thread, ThreadMoves(r), UNCHANGED <<recovery, proc, cancel>>,
           thread'[r].pc \in DriverStage =>
              \/ thread[r].pc \in DriverStage
              \/ thread[r].pc = "setup" /\ runs[r].status = "running" /\ UNCHANGED runs,
           thread'[r].pc \in CreateStage => PersistedRetries(r) = {} /\ UNCHANGED runs
    PROVE  Goes
<1>1. ThreadsGo
  BY DEF ThreadMoves, ThreadsGo
<1>2. RecoveryGoes /\ ProcessGoes /\ CancelsGo
  BY DEF RecoveryGoes, ProcessGoes, CancelsGo, recovery
<1> QED BY <1>1, <1>2 DEF Goes

LEMMA ThreadStepGoes ==
    ASSUME TypeInv, NEW r \in DOMAIN thread, ThreadStep(r)
    PROVE  Goes
<1> UNCHANGED <<proc, recovery, cancel>>
  BY ThreadStepMoves
<1> USE DEF otherThanThread, DriverStage, CreateStage
<1>1. CASE \/ EnterThread(r) \/ AbortCancelled(r) \/ LoadRun(r) \/ FailSetup(r)
           \/ FailCrashed(r) \/ FinishRun(r)
  <2>1. PICK pc \in {"early_cancel", "scoped", "exit", "setup", "requeue_check"} : Goto(r, pc)
    BY <1>1 DEF EnterThread, AbortCancelled, LoadRun, FailSetup, FailCrashed, FinishRun
  <2>2. UNCHANGED <<permits, interrupted>>
    BY <1>1 DEF EnterThread, AbortCancelled, LoadRun, FailSetup, FailCrashed, FinishRun
  <2> QED BY <2>1, <2>2, GotoMoves, OneThreadGoes
<1>2. CASE RecheckStatus(r)
  <2>1. PICK pc \in {"dispatching", "exit"} :
           /\ Goto(r, pc) /\ UNCHANGED <<runs, permits, interrupted>> /\ thread[r].pc = "setup"
           /\ pc = "dispatching" => runs[r].status = "running"
    BY <1>2 DEF RecheckStatus, At
  <2> QED BY <2>1, GotoMoves, OneThreadGoes
<1>3. CASE ExitThread(r)
  <2>1. /\ DOMAIN thread' \subseteq DOMAIN thread
        /\ \A x \in DOMAIN thread' : thread'[x] = thread[x]
    BY <1>3 DEF ExitThread, Unregister, Restrict
  <2> QED BY <2>1 DEF Goes, ThreadsGo, RecoveryGoes, ProcessGoes, CancelsGo, recovery
<1>4. CASE DriverStep(r)
  <2>1. CASE GateSpawn(r) \/ GateCommand(r) \/ GateAgentLoop(r)
    <3>1. thread[r].pc \in DriverStage /\ UNCHANGED <<permits, interrupted>>
      BY <2>1 DEF GateSpawn, GateCommand, GateAgentLoop, At
    <3>2. \/ \E pc \in {"sandbox", "command"} : Goto(r, pc)
          \/ \E result \in {"cancelled", "error"} : Return(r, result)
      BY <2>1 DEF GateSpawn, GateCommand, GateAgentLoop
    <3> QED BY <3>1, <3>2, GotoMoves, ReturnMoves, OneThreadGoes
  <2>2. CASE DriverFails(r) \/ CommandReturns(r)
    <3>1. ThreadMoves(r) /\ thread'[r].pc = "returned"
      BY <2>2, ReturnMoves DEF DriverFails, CommandReturns, Reported
    <3> QED BY <3>1, OneThreadGoes
  <2>3. CASE DriverRaises(r)
    <3>1. ThreadMoves(r) /\ thread'[r].pc = "retry_check"
      BY <2>3, MoveBy DEF DriverRaises
    <3> QED BY <3>1, OneThreadGoes
  <2> QED BY <1>4, <2>1, <2>2, <2>3 DEF DriverStep
<1>5. CASE SettleStep(r)
  <2>1. ThreadMoves(r) /\ thread'[r].pc \in {"exit", "retry_check", "finishing", "completing"}
    <3>1. CASE ReadForCompletion(r)
      BY <3>1, MoveBy DEF ReadForCompletion
    <3>2. CASE ~ReadForCompletion(r)
      BY <1>5, <3>2, GotoMoves
         DEF SettleStep, SettleInterrupted, SettleCancelled, SettleFailed, SettleRetryable,
             SettlePending, WriteCompletion, FailRaised, Settle
    <3> QED BY <3>1, <3>2
  <2> QED BY <2>1, OneThreadGoes
<1>6. CASE RetryStep(r)
  <2>1. AfterRetry(r) \in {"fail_write", "exit"}
    BY DEF AfterRetry
  <2>2. CASE CheckRetry(r) \/ CheckRestart(r)
    <3>1. ThreadMoves(r) /\ thread'[r].pc \in CreateStage
      BY <2>2, GotoMoves DEF CheckRetry, CheckRestart
    <3>2. PersistedRetries(r) = {} /\ UNCHANGED runs
      BY <2>2 DEF CheckRetry, CheckRestart, RetryAdmitted, RestartAdmitted
    <3> QED BY <3>1, <3>2, OneThreadGoes
  <2>3. CASE SkipRetry(r) \/ SkipRestart(r) \/ CreateRetry(r) \/ CreateRestart(r)
    <3>1. ThreadMoves(r) /\ thread'[r].pc \in {"fail_write", "exit"}
      BY <2>1, <2>3, GotoMoves DEF SkipRetry, SkipRestart, CreateRetry, CreateRestart
    <3> QED BY <3>1, OneThreadGoes
  <2> QED BY <1>6, <2>2, <2>3 DEF RetryStep
<1> QED BY <1>1, <1>2, <1>3, <1>4, <1>5, <1>6 DEF ThreadStep

LEMMA GoesAlways ==
    ASSUME TypeInv, [Next]_vars, "slow" \notin Faults
    PROVE  Goes
<1> USE DEF ThreadsGo, RecoveryGoes, ProcessGoes, CancelsGo, Goes
<1>1. CASE UNCHANGED <<thread, reaping, recreating, proc, cancel>>
  BY <1>1
<1>2. CASE \E r \in DOMAIN thread : ThreadStep(r)
  BY <1>2, ThreadStepGoes
<1>3. CASE DrainStep
  <2>1. CASE DrainClaim
    <3>1. /\ \A r \in DOMAIN thread' : \/ r \in DOMAIN thread /\ thread'[r] = thread[r]
                                       \/ thread'[r].pc = "claimed"
          /\ UNCHANGED <<reaping, recreating, proc, cancel>>
      BY <2>1 DEF DrainClaim, Extend, recovery
    <3> QED BY <3>1 DEF DriverStage, CreateStage
  <2>2. CASE ~DrainClaim
    BY <1>1, <1>3, <2>2 DEF DrainStep, DrainAcquire, DrainLoseClaim, recovery
  <2> QED BY <2>1, <2>2
<1>4. CASE ReaperStep
  <2>1. ASSUME NEW r \in DOMAIN runs, ReapRow(r)
        PROVE  Goes
    <3>1. runs'[r].status = "failed"
      BY <2>1, RowOf, RowFields DEF ReapRow, SetRow, Failed, TypeInv
    <3> QED BY <2>1, <3>1 DEF ReapRow, Reaped, shutdown
  <2>2. CASE \E r \in DOMAIN runs : ReaperCheck(r) \/ ReaperSkip(r)
    BY <2>2 DEF ReaperCheck, ReaperSkip, RestartAdmitted
  <2>3. CASE ReaperCreate
    BY <2>3 DEF ReaperCreate
  <2> QED BY <1>4, <2>1, <2>2, <2>3 DEF ReaperStep
<1>5. CASE WipeMemory /\ UNCHANGED cancel
  BY <1>5 DEF WipeMemory
<1>6. CASE ProcessStep /\ ~ExitProcess
  <2>1. CASE Boot
    <3>1. \A r \in reaping' : r \in DOMAIN runs /\ runs[r].status = "running" /\ runs'[r].status = "failed"
      BY <2>1, RowOf, RowFields DEF Boot, Failed
    <3> QED BY <2>1, <3>1 DEF Boot, Reaped, shutdown
  <2>2. CASE BootDone \/ ListActiveRuns \/ MarkActiveRuns \/ JoinActiveRuns
    BY <2>2 DEF BootDone, ListActiveRuns, MarkActiveRuns, JoinActiveRuns, recovery
  <2>3. CASE \E r \in snapshot : FlagActiveRun(r) \/ RequeueInPlace(r) \/ SkipInPlace(r)
    BY <1>1, <2>3 DEF FlagActiveRun, RequeueInPlace, SkipInPlace, recovery
  <2> QED BY <1>6, <2>1, <2>2, <2>3 DEF ProcessStep
<1>7. CASE CancelStep \/ (\E r \in DOMAIN runs : CancelRead(r)) \/ (\E r \in DOMAIN cancel : CancelDies(r))
  <2>1. UNCHANGED <<thread, reaping, recreating, proc>>
    BY <1>7 DEF CancelStep, CancelFlag, CancelSettle, CancelRead, CancelDies, memory, recovery
  <2>2. CancelsGo
    <3>1. ASSUME NEW r \in DOMAIN cancel, CancelFlag(r)
          PROVE  CancelsGo
      <4>1. runs'[r].cancelRequested
        BY <3>1, RowOf DEF CancelFlag, SetRow, Flagged, TypeInv, Row
      <4>2. \A x \in DOMAIN cancel' : x \in DOMAIN cancel /\ (x # r => cancel'[x] = cancel[x])
        BY <3>1 DEF CancelFlag
      <4> QED BY <4>1, <4>2
    <3>2. ASSUME NEW r \in DOMAIN cancel, CancelSettle(r) \/ CancelDies(r)
          PROVE  CancelsGo
      <4>1. \A x \in DOMAIN cancel' : x \in DOMAIN cancel /\ cancel'[x] = cancel[x]
        BY <3>2 DEF CancelSettle, CancelDies, Restrict
      <4> QED BY <4>1
    <3>3. ASSUME NEW r \in DOMAIN runs, CancelRead(r)
          PROVE  CancelsGo
      BY <3>3 DEF CancelRead, Extend
    <3> QED BY <1>7, <3>1, <3>2, <3>3 DEF CancelStep
  <2> QED BY <2>1, <2>2
<1>8. CASE (\E root \in Roots : CreateRun(root)) \/ UNCHANGED vars
  BY <1>1, <1>8 DEF CreateRun, vars, memory, recovery
<1>9. CASE StopLoops \/ ClaimRaises \/ \E r \in unflagged : FlagFails(r)
  BY <1>9 DEF StopLoops, ClaimRaises, FlagFails, recovery
<1>10. ASSUME NEW r \in DOMAIN thread,
              DispatchFails(r) \/ LoadBlindly(r) \/ ThreadCrashes(r) \/ WriteRaises(r) \/ ReapSlow(r)
       PROVE  Goes
  <2>1. CASE DispatchFails(r)
    <3>1. /\ DOMAIN thread' \subseteq DOMAIN thread
          /\ \A x \in DOMAIN thread' : thread'[x] = thread[x]
          /\ UNCHANGED <<reaping, recreating, proc, cancel>>
      BY <2>1 DEF DispatchFails, Unregister, Restrict, recovery
    <3> QED BY <3>1
  <2>2. CASE LoadBlindly(r) \/ ThreadCrashes(r) \/ WriteRaises(r)
    <3>1. PICK pc \in {"setup", "crash_write", "exit", "fail_write"} : Goto(r, pc)
      BY <2>2 DEF LoadBlindly, ThreadCrashes, WriteRaises
    <3>2. UNCHANGED <<permits, interrupted, recovery, proc, cancel>>
      BY <2>2 DEF LoadBlindly, ThreadCrashes, WriteRaises, otherThanThread
    <3> QED BY <3>1, <3>2, GotoMoves, OneThreadGoes DEF DriverStage, CreateStage
  <2>3. CASE ReapSlow(r)
    BY <2>3 DEF ReapSlow, Fault
  <2> QED BY <1>10, <2>1, <2>2, <2>3
<1> QED BY <1>2, <1>3, <1>4, <1>5, <1>6, <1>7, <1>8, <1>9, <1>10
        DEF Next, Progress, Request, FaultStep, ProcessStep, ExitProcess, Crash

-----------------------------------------------------------------------------
(* The inductive invariant *)

\* The row has not been requeued in place.
Own(r) == runs[r].source = BirthSource(r)

\* Nobody drives the run or is about to, and a shutdown does not have it listed.
Idle(r) ==
    /\ runs[r].status # "queued"
    /\ r \notin DOMAIN thread \cup snapshot
    /\ drain # r

\* Its command will not start any more.
Over(r) ==
    /\ runs[r].status # "queued"
    /\ ~Executing(r)
    /\ drain # r

\* A child has a parent, and the source its id was made from until it is requeued.
FamilyInv ==
    /\ \A r \in DOMAIN runs : runs[r].source \in {BirthSource(r), "restart_retry"}
    /\ \A r \in RunId, s \in RetrySource : RetryRunId(r, s) \in DOMAIN runs => r \in DOMAIN runs

\* A process that is down has neither threads nor a drain, and the drain holds no row
\* that is running already.
DownInv ==
    /\ proc \in {"down", "booting"} => DOMAIN thread = {} /\ drain = NoRun
    /\ drain # NoRun => runs[drain].status # "running"

\* What recovery has failed stays idle until it has been restarted.
RecoveryInv ==
    /\ \A r \in reaping : Idle(r)
    /\ recreating # NoRun => Idle(recreating)

\* Who is about to insert a child has seen none, and no two are about to for one run.
BranchInv ==
    /\ \A r \in DOMAIN thread : thread[r].pc \in CreateStage => PersistedRetries(r) = {}
    /\ recreating # NoRun => PersistedRetries(recreating) = {}
    /\ \A r \in RunId : \A s, t \in PersistedRetries(r) : s = t

\* A run that has a child is over.
RetiredInv == \A r \in DOMAIN runs : Retired(r) /\ Own(r) => Over(r)

\* Who is with a driver is running, or has been asked to stop.
VisibleInv ==
    /\ \A r \in DOMAIN cancel : cancel[r].flagged /\ Own(r) => runs[r].cancelRequested
    /\ \A r \in DOMAIN thread :
          thread[r].pc \in DriverStage /\ Own(r) => runs[r].status = "running" \/ runs[r].cancelRequested

\* Ids are paths, and a step to a child adds its source.
LEMMA ChildIds ==
    ASSUME NEW r \in RunId, NEW s \in RetrySource
    PROVE  /\ RetryRunId(r, s).path # <<>>
           /\ BirthSource(RetryRunId(r, s)) = s
           /\ \A x \in RunId, t \in RetrySource : RetryRunId(r, s) = RetryRunId(x, t) => r = x /\ s = t
<1>1. r.path \in Seq(RetrySource) /\ DOMAIN r = {"root", "path"}
  BY DEF RunId
<1>2. \A x \in RunId, t \in RetrySource :
         /\ RetryRunId(x, t).path = Append(x.path, t)
         /\ RetryRunId(x, t).root = x.root
  BY DEF RunId, RetryRunId
<1>3. \A p \in Seq(RetrySource), t \in RetrySource :
         /\ Append(p, t) # <<>>
         /\ Append(p, t)[Len(Append(p, t))] = t
  OBVIOUS
<1>4. \A p, q \in Seq(RetrySource), t, u \in RetrySource : Append(p, t) = Append(q, u) => p = q /\ t = u
  <2> TAKE p, q \in Seq(RetrySource), t, u \in RetrySource
  <2> HAVE Append(p, t) = Append(q, u)
  <2>1. Len(p) = Len(q) /\ t = u
    OBVIOUS
  <2>2. \A i \in 1 .. Len(p) : p[i] = Append(p, t)[i] /\ q[i] = Append(q, u)[i]
    BY <2>1
  <2>3. \A i \in 1 .. Len(p) : p[i] = q[i]
    BY <2>2
  <2> QED BY <2>1, <2>3
<1>5. ASSUME NEW x \in RunId, NEW t \in RetrySource, RetryRunId(r, s) = RetryRunId(x, t)
      PROVE  r = x /\ s = t
  <2>1. r.path \in Seq(RetrySource) /\ x.path \in Seq(RetrySource)
    BY DEF RunId
  <2>2. Append(r.path, s) = Append(x.path, t) /\ r.root = x.root
    BY <1>2, <1>5
  <2>3. r.path = x.path /\ s = t
    BY <1>4, <2>1, <2>2
  <2> QED BY <2>2, <2>3 DEF RunId
<1> QED BY <1>1, <1>2, <1>3, <1>5 DEF BirthSource

-----------------------------------------------------------------------------
(* Every step keeps it *)

\* What the invariants of lineages are proved from.
Known ==
    /\ TypeInv /\ TypeInv'
    /\ Separation /\ Separation'
    /\ TableMoves /\ TableStep
    /\ Goes /\ MemoryStep /\ StartStep

LEMMA KnownAlways ==
    ASSUME TypeInv, TypeInv', Separation, Separation', [Next]_vars, "slow" \notin Faults
    PROVE  Known
BY TableMovesAlways, TableSteps, GoesAlways, MemorySteps, StartSteps DEF Known

\* The drain takes only a queued row.
LEMMA DrainGoes ==
    ASSUME Known, drain' # NoRun, drain' # drain
    PROVE  drain' \in DOMAIN runs /\ DrainAcquire(drain')
BY DEF Known, MemoryStep, DrainAcquire, DrainClaim, WipeMemory, ShutdownMoves, ListActiveRuns,
       MarkActiveRuns, JoinActiveRuns

\* A new thread is that of the row the drain held.
LEMMA ThreadsGrow ==
    ASSUME Known
    PROVE  /\ DOMAIN thread' \subseteq DOMAIN thread \cup ({drain} \ {NoRun})
           /\ snapshot' \subseteq snapshot \cup DOMAIN thread
<1>1. CASE DrainClaim
  BY <1>1, ClaimDomain DEF Known, DrainClaim, shutdown
<1>2. CASE WipeMemory
  BY <1>2 DEF WipeMemory
<1>3. CASE \E r \in DOMAIN thread : Unregister(r) /\ UNCHANGED snapshot
  BY <1>3, UnregisterDomain
<1>4. CASE ShutdownMoves
  BY <1>4 DEF ShutdownMoves, ListActiveRuns, MarkActiveRuns, JoinActiveRuns
<1>5. CASE DOMAIN thread' = DOMAIN thread /\ UNCHANGED snapshot
  BY <1>5
<1> QED BY <1>1, <1>2, <1>3, <1>4, <1>5 DEF Known, MemoryStep, DrainAcquire, shutdown

\* A run is put into the queue only by the drain, its dispatch or a requeue in place.
LEMMA QueuedAgain ==
    ASSUME Known, NEW r \in DOMAIN runs, runs[r].status # "queued", runs'[r].status = "queued",
           drain # r, FamilyInv
    PROVE  \/ At(r, "claimed")
           \/ r \in snapshot /\ ~Own(r)'
<1>1. Requeued(r)
  BY DEF Known, TableStep, RowStep
<1>2. CASE r \in DOMAIN thread
  BY <1>1, <1>2 DEF Requeued, Known, Separation
<1>3. CASE r \notin DOMAIN thread
  <2>1. r \in snapshot /\ ~Keeps(runs[r], runs'[r]) /\ RowMoves(r)
    BY <1>3 DEF Known, TableMoves, RowMoves
  <2>2. runs'[r].source = "restart_retry" /\ runs[r].source # "restart_retry"
    BY <2>1 DEF RowMoves
  <2> QED BY <2>1, <2>2 DEF FamilyInv, Own
<1> QED BY <1>2, <1>3

LEMMA IdleKept ==
    ASSUME Known, FamilyInv, NEW r \in DOMAIN runs, Idle(r)
    PROVE  Idle(r)'
<1>1. runs'[r].status # "queued"
  BY QueuedAgain DEF Idle, At
<1>2. r \notin DOMAIN thread' \cup snapshot'
  BY ThreadsGrow DEF Idle
<1>3. drain' # r
  BY DrainGoes, ConstantsAssumption DEF Idle, DrainAcquire, Drainable, Known, TypeInv
<1> QED BY <1>1, <1>2, <1>3 DEF Idle

LEMMA OwnBefore ==
    ASSUME Known, FamilyInv, NEW r \in DOMAIN runs, Own(r)'
    PROVE  Own(r) /\ (runs[r].cancelRequested => runs'[r].cancelRequested)
<1>1. RowMoves(r)
  BY DEF Known, TableMoves
<1>2. BirthSource(r)' = BirthSource(r)
  BY DEF BirthSource
<1>3. runs[r].source \in {BirthSource(r), "restart_retry"}
  BY DEF FamilyInv
<1> QED BY <1>1, <1>2, <1>3 DEF RowMoves, Keeps, Own

LEMMA OverKept ==
    ASSUME Known, FamilyInv, NEW r \in DOMAIN runs, Over(r), Own(r)'
    PROVE  Over(r)'
<1>1. runs'[r].status # "queued"
  BY QueuedAgain DEF Over, At, Executing, PreCommand, PreSandbox
<1>2. drain' # r
  BY DrainGoes, ConstantsAssumption DEF Over, DrainAcquire, Drainable, Known, TypeInv
<1>3. ASSUME r \in DOMAIN thread', thread'[r].pc \in PreCommand \cup {"command"}
      PROVE  FALSE
  <2>1. CASE thread'[r].pc \in PreCommand
    BY <2>1, <1>3 DEF Known, StartStep, Over, Executing
  <2>2. CASE thread'[r].pc = "command"
    BY <2>2, <1>3 DEF Known, Goes, ThreadsGo, DriverStage, Over, Executing, PreCommand, PreSandbox
  <2> QED BY <1>3, <2>1, <2>2
<1> QED BY <1>1, <1>2, <1>3 DEF Over, Executing

LEMMA FamilyStep ==
    ASSUME Known, FamilyInv
    PROVE  FamilyInv'
<1> DOMAIN runs' \subseteq RunId /\ DOMAIN runs \subseteq RunId
  BY DEF Known, TypeInv
<1>1. ASSUME NEW r \in DOMAIN runs'
      PROVE  runs'[r].source \in {BirthSource(r), "restart_retry"}
  <2>1. CASE r \in DOMAIN runs
    BY <2>1 DEF Known, TableMoves, RowMoves, Keeps, FamilyInv
  <2>2. CASE r \notin DOMAIN runs
    <3>1. Born(r)
      BY <2>2 DEF Known, TableMoves
    <3> QED BY <3>1, ChildIds DEF Born, BirthSource
  <2> QED BY <2>1, <2>2
<1>2. ASSUME NEW r \in RunId, NEW s \in RetrySource, RetryRunId(r, s) \in DOMAIN runs'
      PROVE  r \in DOMAIN runs'
  <2>1. DOMAIN runs \subseteq DOMAIN runs'
    BY DEF Known, TypeInv, TableMoves
  <2>2. CASE RetryRunId(r, s) \in DOMAIN runs
    BY <2>1, <2>2 DEF FamilyInv
  <2>3. CASE RetryRunId(r, s) \notin DOMAIN runs
    <3>1. Born(RetryRunId(r, s))
      BY <1>2, <2>3 DEF Known, TableMoves
    <3>2. PICK x \in DOMAIN runs, t \in RetrySource : RetryRunId(r, s) = RetryRunId(x, t)
      BY <3>1, ChildIds DEF Born
    <3> QED BY <2>1, <3>2, ChildIds
  <2> QED BY <2>2, <2>3
<1>3. \A r \in DOMAIN runs' : BirthSource(r)' = BirthSource(r)
  BY DEF BirthSource
<1> QED BY <1>1, <1>2, <1>3 DEF FamilyInv

LEMMA DownStep ==
    ASSUME Known, DownInv
    PROVE  DownInv'
<1> NoRun \notin DOMAIN runs /\ NoRun \notin DOMAIN runs'
  BY ConstantsAssumption DEF Known, TypeInv
<1>1. ASSUME proc' \in {"down", "booting"}
      PROVE  DOMAIN thread' = {} /\ drain' = NoRun
  <2>1. CASE WipeMemory
    BY <2>1 DEF WipeMemory
  <2>2. CASE proc \in {"down", "booting"}
    <3>1. DOMAIN thread = {} /\ drain = NoRun
      BY <2>2 DEF DownInv
    <3>2. drain' = NoRun
      BY <2>2, <3>1, DrainGoes DEF DrainAcquire
    <3> QED BY <3>1, <3>2, ThreadsGrow
  <2> QED BY <1>1, <2>1, <2>2 DEF Known, Goes, ProcessGoes
<1>2. ASSUME drain' # NoRun, runs'[drain'].status = "running"
      PROVE  FALSE
  <2>1. CASE drain' = drain
    <3>1. drain \in DOMAIN runs /\ drain \notin DOMAIN thread /\ runs[drain].status # "running"
      BY <1>2, <2>1 DEF Known, TypeInv, Separation, DownInv
    <3> QED BY <1>2, <2>1, <3>1 DEF Known, TableMoves, RowMoves
  <2>2. CASE drain' # drain
    <3>1. drain' \in DOMAIN runs /\ UNCHANGED runs /\ runs[drain'].status = "queued"
      BY <1>2, <2>2, DrainGoes DEF DrainAcquire, Drainable
    <3> QED BY <1>2, <3>1
  <2> QED BY <2>1, <2>2
<1> QED BY <1>1, <1>2 DEF DownInv

LEMMA RecoveryStep ==
    ASSUME Known, FamilyInv, DownInv, RecoveryInv
    PROVE  RecoveryInv'
<1> NoRun \notin DOMAIN runs
  BY ConstantsAssumption DEF Known, TypeInv
<1>1. ASSUME NEW r \in reaping'
      PROVE  Idle(r)'
  <2>1. CASE r \in reaping
    BY <2>1, IdleKept DEF RecoveryInv, Known, TypeInv
  <2>2. CASE Reaped(r)
    <3>1. r \notin DOMAIN thread \cup snapshot /\ drain # r
      BY <2>2 DEF Reaped, DownInv, Known, Separation
    <3> QED BY <2>2, <3>1 DEF Reaped, Idle
  <2> QED BY <2>1, <2>2 DEF Known, Goes, RecoveryGoes
<1>2. ASSUME recreating' # NoRun
      PROVE  Idle(recreating)'
  <2>1. PICK r \in DOMAIN runs : r = recreating' /\ Idle(r)
    BY <1>2 DEF Known, Goes, RecoveryGoes, RecoveryInv, TypeInv
  <2>2. Idle(r)'
    BY <2>1, IdleKept
  <2> QED BY <2>1, <2>2 DEF Idle
<1> QED BY <1>1, <1>2 DEF RecoveryInv

\* A run gets a child only from its own thread, which has then finished inserting, or
\* from recovery.
LEMMA NewChild ==
    ASSUME Known, FamilyInv, NEW r \in RunId, NEW s \in PersistedRetries(r)', s \notin PersistedRetries(r)
    PROVE  /\ s \in RetrySource
           /\ RetryRunId(r, s) \in DOMAIN runs' \ DOMAIN runs
           /\ r \in DOMAIN runs
           /\ \/ /\ r \in DOMAIN thread /\ thread[r].pc \in CreateStage
                 /\ r \in DOMAIN thread' /\ thread'[r].pc \notin CreateStage
                 /\ UNCHANGED <<recovery, drain>>
              \/ recreating = r /\ recreating' = NoRun /\ UNCHANGED <<thread, drain>>
<1> DEFINE c == RetryRunId(r, s)
<1>1. s \in RetrySource /\ c \in DOMAIN runs' /\ runs'[c].source = s
  BY DEF PersistedRetries
<1>2. BirthSource(c) = s
  BY <1>1, ChildIds
<1>3. c \notin DOMAIN runs
  <2> SUFFICES ASSUME c \in DOMAIN runs PROVE FALSE
    OBVIOUS
  <2>1. runs[c].source # s
    BY <1>1 DEF PersistedRetries
  <2>2. runs[c].source \in {s, "restart_retry"}
    BY <1>2 DEF FamilyInv
  <2>3. RowMoves(c)
    BY DEF Known, TableMoves
  <2> QED BY <1>1, <2>1, <2>2, <2>3 DEF RowMoves, Keeps
<1>4. Born(c)
  BY <1>1, <1>3 DEF Known, TableMoves
<1>5. DOMAIN runs \subseteq RunId
  BY DEF Known, TypeInv
<1> QED BY <1>1, <1>3, <1>4, <1>5, ChildIds DEF Born

LEMMA BranchStep ==
    ASSUME Known, FamilyInv, RecoveryInv, BranchInv
    PROVE  BranchInv'
<1> NoRun \notin DOMAIN runs
  BY ConstantsAssumption DEF Known, TypeInv
<1> DOMAIN runs' \subseteq RunId /\ DOMAIN runs \subseteq RunId /\ DOMAIN thread \subseteq DOMAIN runs
  BY DEF Known, TypeInv
<1>1. ASSUME NEW r \in DOMAIN thread', thread'[r].pc \in CreateStage, NEW s \in PersistedRetries(r)'
      PROVE  FALSE
  <2>1. r \in DOMAIN thread /\ r \in RunId
    BY <1>1 DEF Known, Goes, ThreadsGo
  <2>2. CASE thread[r].pc \in CreateStage
    <3>1. s \notin PersistedRetries(r)
      BY <2>1, <2>2 DEF BranchInv
    <3>2. recreating = r
      BY <1>1, <2>1, <3>1, NewChild
    <3> QED BY <2>1, <3>2 DEF RecoveryInv, Idle
  <2>3. CASE PersistedRetries(r) = {} /\ UNCHANGED runs
    BY <1>1, <2>3 DEF PersistedRetries
  <2> QED BY <1>1, <2>2, <2>3 DEF Known, Goes, ThreadsGo
<1>2. ASSUME NEW r \in RunId, recreating' = r, r # NoRun, NEW s \in PersistedRetries(r)'
      PROVE  FALSE
  <2>1. CASE r = recreating
    <3>1. r \in DOMAIN runs /\ PersistedRetries(r) = {} /\ r \notin DOMAIN thread
      BY <1>2, <2>1 DEF BranchInv, RecoveryInv, Idle, Known, TypeInv
    <3> QED BY <1>2, <2>1, <3>1, NewChild
  <2>2. CASE PersistedRetries(r) = {} /\ UNCHANGED runs
    BY <1>2, <2>2 DEF PersistedRetries
  <2> QED BY <1>2, <2>1, <2>2 DEF Known, Goes, RecoveryGoes
<1>3. ASSUME NEW r \in RunId, NEW s \in PersistedRetries(r)', NEW t \in PersistedRetries(r)'
      PROVE  s = t
  <2>1. CASE s \in PersistedRetries(r) /\ t \in PersistedRetries(r)
    BY <2>1 DEF BranchInv
  <2>2. ASSUME NEW x \in PersistedRetries(r)', x \notin PersistedRetries(r)
        PROVE  PersistedRetries(r) = {}
    <3>1. \/ r \in DOMAIN thread /\ thread[r].pc \in CreateStage
          \/ recreating = r /\ r # NoRun
      BY <2>2, NewChild
    <3> QED BY <3>1 DEF BranchInv
  <2>3. CASE s \notin PersistedRetries(r) \/ t \notin PersistedRetries(r)
    <3>1. s \notin PersistedRetries(r) /\ t \notin PersistedRetries(r)
      BY <2>2, <2>3
    <3>2. RetryRunId(r, s) = RetryRunId(r, t) /\ s \in RetrySource /\ t \in RetrySource
      BY <3>1, NewChild DEF Known, TableMoves
    <3> QED BY <3>2, ChildIds
  <2> QED BY <2>1, <2>3
<1>4. /\ \A r \in DOMAIN thread' : thread'[r].pc \in CreateStage => PersistedRetries(r)' = {}
      /\ \A r \in RunId : recreating' = r /\ r # NoRun => PersistedRetries(r)' = {}
  BY <1>1, <1>2
<1>5. recreating' # NoRun => PersistedRetries(recreating)' = {}
  <2> SUFFICES ASSUME recreating' # NoRun PROVE PersistedRetries(recreating)' = {}
    OBVIOUS
  <2>1. PICK r \in RunId : recreating' = r
    BY DEF Known, TypeInv
  <2>2. PersistedRetries(r)' = {}
    BY <1>4, <2>1
  <2> QED BY <2>1, <2>2 DEF PersistedRetries
<1> QED BY <1>3, <1>4, <1>5 DEF BranchInv

LEMMA RetiredStep ==
    ASSUME Known, FamilyInv, RecoveryInv, RetiredInv
    PROVE  RetiredInv'
<1> SUFFICES ASSUME NEW r \in DOMAIN runs', Retired(r)', Own(r)'
             PROVE  Over(r)'
  BY DEF RetiredInv
<1> NoRun \notin DOMAIN runs
  BY ConstantsAssumption DEF Known, TypeInv
<1> r \in RunId
  BY DEF Known, TypeInv
<1>1. CASE Retired(r) /\ r \in DOMAIN runs
  BY <1>1, OwnBefore, OverKept DEF RetiredInv
<1>2. CASE Retired(r) /\ r \notin DOMAIN runs
  BY <1>2 DEF Retired, PersistedRetries, FamilyInv
<1>3. CASE ~Retired(r)
  <2>1. PICK s \in PersistedRetries(r)' : s \notin PersistedRetries(r)
    BY <1>3 DEF Retired
  <2>2. r \in DOMAIN runs
    BY <2>1, NewChild
  <2>3. CASE recreating = r /\ recreating' = NoRun /\ UNCHANGED <<thread, drain>>
    <3>1. Idle(r)'
      BY <2>2, <2>3, IdleKept DEF RecoveryInv
    <3> QED BY <3>1 DEF Idle, Over, Executing
  <2>4. CASE /\ r \in DOMAIN thread /\ thread[r].pc \in CreateStage
             /\ r \in DOMAIN thread' /\ thread'[r].pc \notin CreateStage
    <3>1. Over(r)
      BY <2>4 DEF Known, Separation, Over, Executing, CreateStage, PreCommand, PreSandbox
    <3> QED BY <2>2, <3>1, OverKept
  <2> QED BY <2>1, <2>3, <2>4, NewChild
<1> QED BY <1>1, <1>2, <1>3

LEMMA VisibleStep ==
    ASSUME Known, FamilyInv, DownInv, VisibleInv
    PROVE  VisibleInv'
<1> DOMAIN thread \subseteq DOMAIN runs /\ DOMAIN cancel \subseteq DOMAIN runs
  BY DEF Known, TypeInv
<1>1. ASSUME NEW r \in DOMAIN cancel', cancel'[r].flagged, Own(r)'
      PROVE  runs'[r].cancelRequested
  BY <1>1, OwnBefore DEF Known, Goes, CancelsGo, VisibleInv
<1>2. ASSUME NEW r \in DOMAIN thread', thread'[r].pc \in DriverStage, Own(r)'
      PROVE  runs'[r].status = "running" \/ runs'[r].cancelRequested
  <2>1. r \in DOMAIN thread /\ r \in DOMAIN runs
    BY <1>2 DEF Known, Goes, ThreadsGo
  <2>2. Own(r) /\ (runs[r].cancelRequested => runs'[r].cancelRequested)
    BY <1>2, <2>1, OwnBefore
  <2>3. CASE thread[r].pc \in DriverStage /\ runs[r].status = "running"
    <3>1. \/ runs'[r].status = "running"
          \/ r \in DOMAIN cancel /\ cancel[r].flagged
      BY <1>2, <2>1, <2>3 DEF Known, TableMoves, RowMoves, DownInv
    <3> QED BY <2>2, <3>1 DEF VisibleInv
  <2>4. CASE thread[r].pc \in DriverStage /\ runs[r].status # "running"
    BY <2>1, <2>2, <2>4 DEF VisibleInv
  <2>5. CASE runs[r].status = "running" /\ UNCHANGED runs
    BY <2>5
  <2> QED BY <1>2, <2>3, <2>4, <2>5 DEF Known, Goes, ThreadsGo
<1> QED BY <1>1, <1>2 DEF VisibleInv

-----------------------------------------------------------------------------
(* The theorems *)

LineagesInv == FamilyInv /\ DownInv /\ RecoveryInv /\ BranchInv /\ RetiredInv /\ VisibleInv

LEMMA LineagesInvariant ==
    ASSUME "slow" \notin Faults
    PROVE  Spec => []LineagesInv
<1>1. Init => LineagesInv
  <2> SUFFICES ASSUME Init PROVE LineagesInv
    OBVIOUS
  <2>1. /\ DOMAIN runs = {} /\ DOMAIN thread = {} /\ DOMAIN cancel = {} /\ reaping = {}
        /\ recreating = NoRun /\ drain = NoRun /\ proc = "up"
    BY DEF Init
  <2>2. FamilyInv /\ DownInv /\ RecoveryInv
    BY <2>1 DEF FamilyInv, DownInv, RecoveryInv
  <2>3. BranchInv
    BY <2>1 DEF BranchInv, PersistedRetries
  <2>4. RetiredInv /\ VisibleInv
    BY <2>1 DEF RetiredInv, VisibleInv
  <2> QED BY <2>2, <2>3, <2>4 DEF LineagesInv
<1>2. TypeInv /\ TypeInv' /\ Separation /\ Separation' /\ LineagesInv /\ [Next]_vars => LineagesInv'
  BY KnownAlways, FamilyStep, DownStep, RecoveryStep, BranchStep, RetiredStep, VisibleStep
     DEF LineagesInv
<1> QED BY <1>1, <1>2, TypeInvariant, SeparationInvariant, PTL DEF Spec

\* An attempt has at most one child that the retry scheduler recognises, across crashes,
\* recoveries and requeues, for any number of runs, faults and cancels, as long as the
\* sweep takes no row whose thread is alive (run_service.py:506-550, 585-604, 3431-3444).
THEOREM OneChildRecognised ==
    ASSUME "slow" \notin Faults
    PROVE  Spec => []OneRecognisedChild
<1>1. TypeInv /\ LineagesInv => OneRecognisedChild
  <2> SUFFICES ASSUME TypeInv, LineagesInv, NEW r \in DOMAIN runs
               PROVE  Cardinality(PersistedRetries(r)) <= 1
    BY DEF OneRecognisedChild
  <2>1. \A s, t \in PersistedRetries(r) : s = t
    BY DEF TypeInv, LineagesInv, BranchInv
  <2>2. CASE PersistedRetries(r) = {}
    BY <2>2, FS_EmptySet
  <2>3. ASSUME NEW s \in PersistedRetries(r)
        PROVE  Cardinality(PersistedRetries(r)) <= 1
    <3>1. PersistedRetries(r) = {s}
      BY <2>1
    <3>2. Cardinality({s}) = 1
      BY FS_Singleton
    <3> QED BY <3>1, <3>2
  <2> QED BY <2>2, <2>3
<1> QED BY <1>1, TypeInvariant, LineagesInvariant, PTL

\* Once its retry exists a run is over: it is neither queued nor about to start its
\* command, unless a shutdown has requeued it in place, for any number of runs, faults
\* and cancels (execute_run, _schedule_retry, recover_abandoned_runs).
THEOREM RetiredForGood ==
    ASSUME "slow" \notin Faults
    PROVE  Spec => []RetiredStaysRetired
<1>1. LineagesInv => RetiredStaysRetired
  BY DEF LineagesInv, RetiredInv, RetiredStaysRetired, Own, Over
<1> QED BY <1>1, LineagesInvariant, PTL

\* While the worker's code runs its row is running, or somebody has asked to cancel it:
\* no reaper, recovery, drain or retry settles the row of a live command, for any number
\* of runs, faults and cancels (run_service.py:3687-3796, 4113-4150).
THEOREM LiveCommandsVisible ==
    ASSUME "slow" \notin Faults
    PROVE  Spec => []LiveCommandIsVisible
<1>1. LineagesInv => LiveCommandIsVisible
  BY DEF LineagesInv, VisibleInv, LiveCommandIsVisible, Own, DriverStage
<1> QED BY <1>1, LineagesInvariant, PTL

-----------------------------------------------------------------------------
(* Rows and threads as attempts of jobs *)

\* Whose worker has begun is never again on its way to it, agents included.
StartedInv == \A r \in begun : Own(r) => NotStartedAgain(r) /\ drain # r

\* The row a trigger made for a root.
First(r) == [root |-> r.root, path |-> <<>>]
FirstInv == \A r \in DOMAIN runs : First(r) \in DOMAIN runs

\* The rows of a job are numbered each differently, and all but the last have a child.
OrderInv ==
    \A r, x \in DOMAIN runs :
        r.root = x.root /\ r.root \notin Loosened =>
            /\ runs[r].attempt = runs[x].attempt => r = x
            /\ Retired(r) \/ runs[x].attempt <= runs[r].attempt

AttemptsInv == StartedInv /\ FirstInv /\ OrderInv

\* A worker begins under the thread of its run.
LEMMA Beginning ==
    ASSUME Known, NEW r \in begun', r \notin begun
    PROVE  /\ r \in DOMAIN thread /\ Executing(r)
           /\ r \in DOMAIN thread' /\ thread'[r].pc = "command"
<1>1. r \in DOMAIN thread /\ (GateAgentLoop(r) \/ GateCommand(r))
  BY DEF Known, StartStep
<1>2. /\ Goto(r, "command") /\ (At(r, "sandbox") \/ At(r, "dispatching"))
      /\ Goto(r, "command") /\ UNCHANGED <<permits, interrupted>>
  BY <1>1 DEF GateAgentLoop, GateCommand, otherThanThread
<1>3. ThreadMoves(r) /\ thread'[r].pc = "command"
  BY <1>1, <1>2, GotoMoves DEF Known
<1> QED BY <1>1, <1>2, <1>3 DEF ThreadMoves, Executing, At, PreCommand, PreSandbox

LEMMA StartedStep ==
    ASSUME Known, FamilyInv, StartedInv
    PROVE  StartedInv'
<1> NoRun \notin DOMAIN runs
  BY ConstantsAssumption DEF Known, TypeInv
<1>1. ASSUME NEW r \in begun, Own(r)'
      PROVE  NotStartedAgain(r)' /\ drain' # r
  <2>1. r \in DOMAIN runs
    BY DEF Known, TypeInv
  <2>2. Own(r) /\ NotStartedAgain(r) /\ drain # r
    BY <1>1, <2>1, OwnBefore DEF StartedInv
  <2>3. runs'[r].status # "queued"
    BY <1>1, <2>1, <2>2, QueuedAgain DEF NotStartedAgain, At, PreCommand, PreSandbox
  <2>4. r \in DOMAIN thread' => thread'[r].pc \notin PreCommand
    BY <2>2 DEF Known, StartStep, NotStartedAgain
  <2>5. drain' # r
    BY <2>1, <2>2, DrainGoes DEF DrainAcquire, Drainable, NotStartedAgain
  <2> QED BY <2>3, <2>4, <2>5 DEF NotStartedAgain
<1>2. ASSUME NEW r \in begun', r \notin begun
      PROVE  NotStartedAgain(r)' /\ drain' # r
  <2>1. r \in DOMAIN thread' /\ thread'[r].pc = "command"
    BY <1>2, Beginning
  <2> QED BY <2>1 DEF Known, Separation, NotStartedAgain, PreCommand, PreSandbox
<1> QED BY <1>1, <1>2 DEF StartedInv

\* A new row is the first of its job, or a child of a run that has none and is over.
LEMMA NewAttempt ==
    ASSUME Known, RecoveryInv, BranchInv, NEW c \in DOMAIN runs' \ DOMAIN runs
    PROVE  \/ c = First(c) /\ runs'[c].attempt = 0
           \/ \E y \in DOMAIN runs, s \in RetrySource :
                 /\ c = RetryRunId(y, s) /\ c.root = y.root
                 /\ runs'[c].source = s /\ runs'[c].attempt = runs[y].attempt + 1
                 /\ ~Retired(y) /\ Over(y)
<1> NoRun \notin DOMAIN runs /\ DOMAIN runs' \subseteq RunId /\ DOMAIN runs \subseteq RunId
  BY ConstantsAssumption DEF Known, TypeInv
<1>1. Born(c)
  BY DEF Known, TableMoves
<1>2. CASE c.path = <<>> /\ runs'[c].attempt = 0
  BY <1>2 DEF RunId, First
<1>3. ASSUME NEW y \in DOMAIN runs, NEW s \in RetrySource, c = RetryRunId(y, s),
             \/ y \in DOMAIN thread /\ thread[y].pc \in CreateStage
             \/ recreating = y
      PROVE  c.root = y.root /\ ~Retired(y) /\ Over(y)
  <2>1. c.root = y.root
    BY <1>3 DEF RunId, RetryRunId
  <2>2. ~Retired(y)
    BY <1>3 DEF BranchInv, Retired
  <2>3. CASE y \in DOMAIN thread /\ thread[y].pc \in CreateStage
    BY <2>1, <2>2, <2>3 DEF Known, Separation, Over, Executing, CreateStage, PreCommand, PreSandbox
  <2>4. CASE recreating = y
    BY <2>1, <2>2, <2>4 DEF RecoveryInv, Idle, Over, Executing
  <2> QED BY <1>3, <2>3, <2>4
<1> QED BY <1>1, <1>2, <1>3 DEF Born

LEMMA FirstStep ==
    ASSUME Known, RecoveryInv, BranchInv, FirstInv
    PROVE  FirstInv'
<1> SUFFICES ASSUME NEW c \in DOMAIN runs', c \notin DOMAIN runs
             PROVE  First(c) \in DOMAIN runs'
  BY DEF FirstInv, First, Known, TableMoves
<1>1. CASE c = First(c)
  BY <1>1
<1>2. ASSUME NEW y \in DOMAIN runs, c.root = y.root
      PROVE  First(c) \in DOMAIN runs'
  BY <1>2 DEF FirstInv, First, Known, TableMoves
<1> QED BY <1>1, <1>2, NewAttempt

\* A job that is not loose was not, its rows keep their numbers and their children, and
\* those that have a child are over.
LEMMA JobsKept ==
    ASSUME Known, FamilyInv, NEW r \in DOMAIN runs, r.root \notin Loosened'
    PROVE  /\ r \in DOMAIN runs' /\ r.root \notin Loosened
           /\ Own(r) /\ Own(r)'
           /\ runs[r].attempt \in Nat /\ runs'[r].attempt = runs[r].attempt
           /\ Retired(r) => Retired(r)'
<1> DOMAIN runs \subseteq DOMAIN runs' /\ DOMAIN runs \subseteq RunId /\ DOMAIN runs' \subseteq RunId
  BY DEF Known, TableMoves, TypeInv
<1> \A x \in RunId : x.root \in Roots
  BY DEF RunId
<1>1. \A x \in DOMAIN runs' : x.root = r.root => Own(x)'
  BY DEF Loosened, RowsOf, Own, BirthSource
<1>2. \A x \in DOMAIN runs : x.root = r.root => Own(x)
  BY <1>1, OwnBefore
<1>3. r.root \notin Loosened
  BY <1>2 DEF Loosened, RowsOf, Own
<1>4. runs[r].attempt \in Nat /\ runs'[r].attempt = runs[r].attempt
  BY RowOf DEF Row, Known, TableStep, RowStep, Faithful
<1>5. ASSUME NEW s \in PersistedRetries(r)
      PROVE  s \in PersistedRetries(r)'
  <2>1. s \in RetrySource /\ RetryRunId(r, s) \in DOMAIN runs
    BY DEF PersistedRetries
  <2>2. RetryRunId(r, s).root = r.root /\ BirthSource(RetryRunId(r, s)) = s
    <3>1. r \in RunId
      OBVIOUS
    <3>2. RetryRunId(r, s).root = r.root
      BY <3>1 DEF RunId, RetryRunId
    <3> QED BY <2>1, <3>1, <3>2, ChildIds
  <2>3. runs'[RetryRunId(r, s)].source = s
    BY <1>1, <2>1, <2>2 DEF Own, BirthSource
  <2> QED BY <2>1, <2>3 DEF PersistedRetries
<1> QED BY <1>1, <1>2, <1>3, <1>4, <1>5 DEF Retired

LEMMA OrderStep ==
    ASSUME Known, FamilyInv, RecoveryInv, BranchInv, FirstInv, OrderInv
    PROVE  OrderInv'
<1> SUFFICES ASSUME NEW r \in DOMAIN runs', NEW x \in DOMAIN runs', r.root = x.root,
                    r.root \notin Loosened'
             PROVE  /\ runs'[r].attempt = runs'[x].attempt => r = x
                    /\ Retired(r)' \/ runs'[x].attempt <= runs'[r].attempt
  BY DEF OrderInv
<1> runs'[r].attempt \in Nat
  BY DEF Known, TypeInv, Row
<1>1. CASE r \in DOMAIN runs /\ x \in DOMAIN runs
  BY <1>1, JobsKept DEF OrderInv
<1>2. ASSUME NEW c \in DOMAIN runs' \ DOMAIN runs, NEW z \in DOMAIN runs, z.root = c.root,
             c.root = r.root
      PROVE  /\ runs'[z].attempt < runs'[c].attempt
             /\ Retired(z)' \/ runs'[c].attempt <= runs'[z].attempt
  <2>1. PICK y \in DOMAIN runs, s \in RetrySource :
           /\ c = RetryRunId(y, s) /\ c.root = y.root
           /\ runs'[c].source = s /\ runs'[c].attempt = runs[y].attempt + 1
           /\ ~Retired(y)
    BY <1>2, NewAttempt DEF FirstInv, First
  <2>2. Retired(y)'
    BY <2>1 DEF Retired, PersistedRetries
  <2>3. runs[z].attempt <= runs[y].attempt
    BY <1>2, <2>1, JobsKept DEF OrderInv
  <2>4. z # y => Retired(z)
    BY <1>2, <2>1, <2>3, JobsKept DEF OrderInv
  <2> QED BY <1>2, <2>1, <2>2, <2>3, <2>4, JobsKept
<1>3. CASE r \notin DOMAIN runs /\ x \in DOMAIN runs
  BY <1>2, <1>3, JobsKept
<1>4. CASE r \in DOMAIN runs /\ x \notin DOMAIN runs
  BY <1>2, <1>4, JobsKept
<1>5. CASE r \notin DOMAIN runs /\ x \notin DOMAIN runs
  BY <1>5 DEF Known, TableMoves
<1> QED BY <1>1, <1>3, <1>4, <1>5

-----------------------------------------------------------------------------
(* Every step is a step of the promise *)

\* What a row means as an attempt stays as it is, or changes as the newest attempt of a
\* job may.
Advances(a, b) ==
    \/ b = a
    \/ a.phase = "waiting" /\ b = Promise!In("working", a)
    \/ a.phase = "working" /\ ~a.begun /\ b = [phase |-> "working", begun |-> TRUE]
    \/ ~a.begun /\ b = Promise!In("waiting", a)
    \/ b = Promise!In("over", a)

LEMMA AdvanceBy ==
    ASSUME NEW p \in Promise!Phase, NEW q \in Promise!Phase, NEW b \in BOOLEAN, NEW c \in BOOLEAN,
           \/ p = "working" /\ q = "working" /\ ~b /\ c
           \/ b = c /\ \/ q \in {p, "over"}
                       \/ q = "waiting" /\ ~b
                       \/ p = "waiting" /\ q = "working"
    PROVE  Advances([phase |-> p, begun |-> b], [phase |-> q, begun |-> c])
<1> DEFINE a == [phase |-> p, begun |-> b]
<1>1. a.phase = p /\ a.begun = b
  OBVIOUS
<1>2. \A x \in Promise!Phase : Promise!In(x, a) = [phase |-> x, begun |-> b]
  BY DEF Promise!In
<1>3. {"waiting", "working", "over"} = Promise!Phase
  BY DEF Promise!Phase
<1> HIDE DEF a
<1>4. Advances(a, [phase |-> q, begun |-> c])
  <2>1. CASE p = "working" /\ q = "working" /\ ~b /\ c
    BY <1>1, <2>1 DEF Advances
  <2>2. CASE b = c /\ q = p
    BY <2>2 DEF Advances, a
  <2>3. CASE b = c /\ (q = "over" \/ (q = "waiting" /\ ~b) \/ (p = "waiting" /\ q = "working"))
    <3>1. [phase |-> q, begun |-> c] = Promise!In(q, a)
      BY <1>2, <2>3
    <3> QED BY <1>1, <2>3, <3>1 DEF Advances
  <2> QED BY <2>1, <2>2, <2>3
<1> QED BY <1>4 DEF a

LEMMA AttemptAdvances ==
    ASSUME Known, FamilyInv, StartedInv', NEW r \in DOMAIN runs, Own(r)'
    PROVE  Advances(AttemptOf(r), AttemptOf(r)')
<1> NoRun \notin DOMAIN runs /\ begun \subseteq begun'
  BY ConstantsAssumption DEF Known, TypeInv, StartStep
<1>1. /\ AttemptOf(r) = [phase |-> PhaseOf(r), begun |-> r \in begun]
      /\ AttemptOf(r)' = [phase |-> PhaseOf(r)', begun |-> r \in begun']
  BY DEF AttemptOf
<1>2. /\ PhaseOf(r) \in Promise!Phase /\ PhaseOf(r)' \in Promise!Phase
      /\ PhaseOf(r)' \in {"waiting", "working", "over"}
      /\ PhaseOf(r) = "working" <=> Executing(r)
      /\ PhaseOf(r)' = "working" <=> Executing(r)'
      /\ PhaseOf(r)' = "waiting" => runs'[r].status = "queued"
  BY DEF PhaseOf, Promise!Phase
<1>3. Executing(r)' => Executing(r) \/ PhaseOf(r) = "waiting"
  <2> SUFFICES ASSUME Executing(r)', ~Executing(r) PROVE PhaseOf(r) = "waiting"
    OBVIOUS
  <2>1. thread'[r].pc \in PreCommand
    BY DEF Known, Goes, ThreadsGo, DriverStage, Executing, PreCommand, PreSandbox
  <2>2. DrainClaim /\ r = drain
    BY <2>1 DEF Known, StartStep, Executing
  <2> QED BY <2>2 DEF DrainClaim, Drainable, PhaseOf
<1>4. r \in begun' /\ r \notin begun => PhaseOf(r) = "working" /\ PhaseOf(r)' = "working"
  BY <1>2, Beginning DEF Executing
<1>5. PhaseOf(r)' = "waiting" => r \notin begun'
  BY <1>2 DEF StartedInv, NotStartedAgain
<1> DEFINE p == PhaseOf(r)
           q == PhaseOf(r)'
           b == r \in begun
           c == r \in begun'
<1>6. /\ p \in Promise!Phase /\ q \in Promise!Phase /\ b \in BOOLEAN /\ c \in BOOLEAN
      /\ \/ p = "working" /\ q = "working" /\ ~b /\ c
         \/ b = c /\ \/ q \in {p, "over"}
                     \/ q = "waiting" /\ ~b
                     \/ p = "waiting" /\ q = "working"
  BY <1>2, <1>3, <1>4, <1>5
<1> HIDE DEF p, q, b, c
<1>7. Advances([phase |-> p, begun |-> b], [phase |-> q, begun |-> c])
  BY <1>6, AdvanceBy
<1> QED BY <1>1, <1>7 DEF p, q, b, c

\* An attempt that is over before and after a step is the same.
LEMMA OverSame ==
    ASSUME Known, NEW r \in DOMAIN runs, Over(r), Over(r)'
    PROVE  AttemptOf(r)' = AttemptOf(r) /\ AttemptOf(r).phase = "over"
<1>1. r \in begun' <=> r \in begun
  BY Beginning DEF Known, StartStep, Over
<1>2. PhaseOf(r) = "over" /\ PhaseOf(r)' = "over"
  BY DEF PhaseOf, Over
<1> QED BY <1>1, <1>2 DEF AttemptOf

\* The attempt with a number is that of the row with it.
LEMMA Numbered ==
    ASSUME OrderInv, NEW root \in Roots, root \notin Loosened
    PROVE  /\ DOMAIN AttemptsOf(root) = {runs[r].attempt : r \in RowsOf(root)}
           /\ \A r \in RowsOf(root) : AttemptsOf(root)[runs[r].attempt] = AttemptOf(r)
<1>1. ASSUME NEW r \in RowsOf(root)
      PROVE  (CHOOSE x \in RowsOf(root) : runs[x].attempt = runs[r].attempt) = r
  <2>1. \A x \in RowsOf(root) : runs[x].attempt = runs[r].attempt => x = r
    BY DEF OrderInv, RowsOf
  <2> QED BY <2>1
<1> QED BY <1>1 DEF AttemptsOf

LEMMA NumberedNext ==
    ASSUME OrderInv', NEW root \in Roots, root \notin Loosened'
    PROVE  /\ DOMAIN AttemptsOf(root)' = {runs'[r].attempt : r \in RowsOf(root)'}
           /\ \A r \in RowsOf(root)' : AttemptsOf(root)'[runs'[r].attempt] = AttemptOf(r)'
<1>1. ASSUME NEW r \in RowsOf(root)'
      PROVE  (CHOOSE x \in RowsOf(root)' : runs'[x].attempt = runs'[r].attempt) = r
  <2>1. \A x \in RowsOf(root)' : runs'[x].attempt = runs'[r].attempt => x = r
    BY DEF OrderInv, RowsOf
  <2> QED BY <2>1
<1> QED BY <1>1 DEF AttemptsOf

\* The next values of a job, whose attempts are f, when one of them becomes a.
LEMMA OneBecomes ==
    ASSUME NEW root \in Roots, NEW f, NEW g, NEW n, NEW a,
           f = AttemptsOf(root), g = AttemptsOf(root)',
           DOMAIN g = DOMAIN f \cup {n}, g = [m \in DOMAIN g |-> g[m]], g[n] = a,
           \A m \in DOMAIN f : m # n => g[m] = f[m]
    PROVE  Promise!Becomes(root, n, a)
<1>1. g = [m \in DOMAIN f \cup {n} |-> IF m = n THEN a ELSE f[m]]
  OBVIOUS
<1> QED BY <1>1 DEF Promise!Becomes

\* A step that inserts no row into a job.
LEMMA NoNewRow ==
    ASSUME Known, FamilyInv, RetiredInv, RetiredInv', StartedInv', OrderInv, OrderInv',
           NEW root \in Roots, root \notin Loosened', RowsOf(root)' \subseteq DOMAIN runs
    PROVE  Promise!Step(root) \/ AttemptsOf(root)' = AttemptsOf(root)
<1> DEFINE f == AttemptsOf(root)
           g == AttemptsOf(root)'
<1>1. /\ RowsOf(root)' = RowsOf(root)
      /\ RowsOf(root) \subseteq DOMAIN runs
      /\ \A r \in RowsOf(root) : r.root = root
  BY DEF RowsOf, Known, TableMoves
<1>2. CASE RowsOf(root) = {}
  BY <1>1, <1>2 DEF AttemptsOf
<1>3. CASE RowsOf(root) # {}
  <2>1. root \notin Loosened
    BY <1>1, <1>3, JobsKept
  <2>2. \A r \in RowsOf(root) : runs'[r].attempt = runs[r].attempt /\ Own(r) /\ Own(r)'
                                /\ runs[r].attempt \in Nat
    BY <1>1, JobsKept
  <2>3. /\ DOMAIN f = {runs[r].attempt : r \in RowsOf(root)}
        /\ \A r \in RowsOf(root) : f[runs[r].attempt] = AttemptOf(r)
    BY <2>1, Numbered
  <2>4. /\ DOMAIN g = DOMAIN f
        /\ \A r \in RowsOf(root) : g[runs[r].attempt] = AttemptOf(r)'
    <3>1. /\ DOMAIN g = {runs'[r].attempt : r \in RowsOf(root)}
          /\ \A r \in RowsOf(root) : g[runs'[r].attempt] = AttemptOf(r)'
      BY <1>1, NumberedNext
    <3> HIDE DEF f, g
    <3>2. {runs'[r].attempt : r \in RowsOf(root)} = {runs[r].attempt : r \in RowsOf(root)}
      BY <2>2
    <3> QED BY <2>2, <2>3, <3>1, <3>2
  <2>5. f = [n \in DOMAIN f |-> f[n]] /\ g = [n \in DOMAIN g |-> g[n]]
    BY DEF AttemptsOf
  <2>6. ASSUME NEW r \in RowsOf(root), Retired(r)
        PROVE  AttemptOf(r)' = AttemptOf(r)
    BY <1>1, <2>2, <2>6, JobsKept, OverSame DEF RetiredInv
  <2> HIDE DEF f, g
  <2>7. CASE \A r \in RowsOf(root) : AttemptOf(r)' = AttemptOf(r)
    <3>1. \A n \in DOMAIN f : g[n] = f[n]
      BY <2>3, <2>4, <2>7
    <3> QED BY <2>4, <2>5, <3>1 DEF f, g
  <2>8. ASSUME NEW r \in RowsOf(root), AttemptOf(r)' # AttemptOf(r)
        PROVE  Promise!Step(root)
    <3> DEFINE n == runs[r].attempt
               a == AttemptOf(r)'
    <3>1. \A x \in RowsOf(root) : runs[x].attempt <= n
      BY <1>1, <2>1, <2>6, <2>8 DEF OrderInv
    <3>2. \A x \in RowsOf(root) \ {r} : Retired(x)
      BY <1>1, <2>1, <2>2, <3>1 DEF OrderInv
    <3>3. n \in DOMAIN f /\ f[n] = AttemptOf(r) /\ g[n] = a
      BY <2>3, <2>4
    <3>4. \A m \in DOMAIN f : m # n => g[m] = f[m]
      BY <2>3, <2>4, <2>6, <3>2
    <3>5. Promise!Newest(root, n)
      BY <2>3, <3>1, <3>3 DEF Promise!Newest, f
    <3>6. Promise!Becomes(root, n, a)
      BY <2>4, <2>5, <3>3, <3>4, OneBecomes DEF f, g
    <3>7. Advances(f[n], a) /\ a # f[n]
      BY <1>1, <2>2, <2>8, <3>3, AttemptAdvances
    <3> HIDE DEF a, n
    <3> QED BY <3>3, <3>5, <3>6, <3>7
            DEF f, Advances, Promise!Step, Promise!Take, Promise!Begin, Promise!PutBack, Promise!Stop
  <2> QED BY <2>7, <2>8 DEF f, g
<1> QED BY <1>2, <1>3

\* A step that inserts one.
LEMMA OneNewRow ==
    ASSUME Known, FamilyInv, RecoveryInv, BranchInv, FirstInv, RetiredInv, RetiredInv',
           OrderInv, OrderInv', LineageBounded',
           NEW root \in Roots, root \notin Loosened', NEW c \in RowsOf(root)', c \notin DOMAIN runs
    PROVE  Promise!Step(root)
<1> DEFINE f == AttemptsOf(root)
           g == AttemptsOf(root)'
           k == runs'[c].attempt
<1>1. /\ RowsOf(root)' = RowsOf(root) \cup {c}
      /\ RowsOf(root) \subseteq DOMAIN runs
      /\ \A r \in RowsOf(root) : r.root = root
      /\ c \in DOMAIN runs' /\ c.root = root
  BY DEF RowsOf, Known, TableMoves
<1>2. g[k] = Promise!Fresh
  <2>1. runs'[c].status = "queued"
    BY <1>1 DEF Known, TableStep, Inserted, NewRow
  <2>2. c \notin DOMAIN thread' /\ c \notin begun'
    BY <1>1, <2>1, Beginning DEF Known, Separation, TypeInv
  <2>3. AttemptOf(c)' = [phase |-> "waiting", begun |-> FALSE]
    <3>1. PhaseOf(c)' = "waiting"
      BY <2>1, <2>2 DEF PhaseOf, Executing
    <3>2. (c \in begun') = FALSE
      BY <2>2
    <3>3. AttemptOf(c)' = [phase |-> PhaseOf(c)', begun |-> c \in begun']
      BY DEF AttemptOf
    <3> QED BY <3>1, <3>2, <3>3
  <2> QED BY <2>3, NumberedNext DEF Promise!Fresh
<1>3. g = [n \in DOMAIN g |-> g[n]]
  BY DEF AttemptsOf
<1>4. CASE RowsOf(root) = {}
  <2>1. k = 0
    BY <1>1, <1>4, NewAttempt DEF RowsOf
  <2>2. DOMAIN f = {}
    BY <1>4 DEF AttemptsOf
  <2>3. DOMAIN g = {k}
    BY <1>1, <1>4, NumberedNext
  <2> HIDE DEF f, g
  <2>4. Promise!Becomes(root, 0, Promise!Fresh)
    BY <1>2, <1>3, <2>1, <2>2, <2>3, OneBecomes DEF f, g
  <2> QED BY <2>2, <2>4 DEF f, Promise!Step, Promise!Submit
<1>5. CASE RowsOf(root) # {}
  <2>1. PICK y \in RowsOf(root) :
           /\ k = runs[y].attempt + 1
           /\ ~Retired(y) /\ Over(y) /\ Retired(y)'
    <3>1. PICK x \in RowsOf(root) : TRUE
      BY <1>5
    <3>2. c # First(c)
      BY <1>1, <3>1 DEF FirstInv, First
    <3>3. PICK y \in DOMAIN runs, s \in RetrySource :
             /\ c = RetryRunId(y, s) /\ c.root = y.root
             /\ runs'[c].source = s /\ k = runs[y].attempt + 1
             /\ ~Retired(y) /\ Over(y)
      BY <1>1, <3>2, NewAttempt
    <3>4. Retired(y)'
      BY <1>1, <3>3 DEF Retired, PersistedRetries
    <3> QED BY <1>1, <3>3, <3>4 DEF RowsOf
  <2> DEFINE n == runs[y].attempt
  <2>2. root \notin Loosened
    BY <1>1, JobsKept
  <2>3. \A r \in RowsOf(root) : runs'[r].attempt = runs[r].attempt /\ runs[r].attempt \in Nat
                                /\ Own(r) /\ Own(r)' /\ (Retired(r) => Retired(r)')
    BY <1>1, JobsKept
  <2>4. /\ DOMAIN f = {runs[r].attempt : r \in RowsOf(root)}
        /\ \A r \in RowsOf(root) : f[runs[r].attempt] = AttemptOf(r)
    BY <2>2, Numbered
  <2>5. /\ DOMAIN g = DOMAIN f \cup {k}
        /\ \A r \in RowsOf(root) : g[runs[r].attempt] = AttemptOf(r)'
    <3>1. /\ DOMAIN g = {runs'[r].attempt : r \in RowsOf(root) \cup {c}}
          /\ \A r \in RowsOf(root) : g[runs'[r].attempt] = AttemptOf(r)'
      BY <1>1, NumberedNext
    <3> HIDE DEF f, g
    <3>2. {runs'[r].attempt : r \in RowsOf(root) \cup {c}}
              = {runs[r].attempt : r \in RowsOf(root)} \cup {k}
      BY <2>3
    <3> QED BY <2>3, <2>4, <3>1, <3>2
  <2>6. \A r \in RowsOf(root) : runs[r].attempt <= n
    BY <1>1, <2>1, <2>2 DEF OrderInv
  <2>7. \A r \in RowsOf(root) \ {y} : Retired(r)
    BY <1>1, <2>1, <2>2, <2>3, <2>6 DEF OrderInv
  <2>8. \A r \in RowsOf(root) : Over(r) /\ Over(r)'
    <3>1. RowsOf(root) \subseteq DOMAIN runs'
      BY <1>1 DEF Known, TableMoves
    <3>2. ASSUME NEW r \in RowsOf(root)
          PROVE  Over(r) /\ Retired(r)'
      BY <1>1, <2>1, <2>3, <2>7 DEF RetiredInv
    <3> QED BY <2>3, <3>1, <3>2 DEF RetiredInv
  <2>9. \A r \in RowsOf(root) : AttemptOf(r)' = AttemptOf(r) /\ AttemptOf(r).phase = "over"
    BY <1>1, <2>8, OverSame
  <2>10. n < MaxAttempts
    <3>1. k <= MaxAttempts /\ MaxAttempts \in Nat
      BY <1>1, ConstantsAssumption DEF LineageBounded
    <3> QED BY <2>1, <2>3, <3>1
  <2> HIDE DEF f, g
  <2>11. \A m \in DOMAIN f : g[m] = f[m]
    BY <2>4, <2>5, <2>9
  <2>12. Promise!Becomes(root, n + 1, Promise!Fresh)
    BY <1>2, <1>3, <2>1, <2>5, <2>11, OneBecomes DEF f, g
  <2>13. Promise!Newest(root, n) /\ n \in DOMAIN f /\ f[n].phase = "over"
    BY <2>1, <2>4, <2>6, <2>9 DEF f, Promise!Newest
  <2> QED BY <2>10, <2>12, <2>13 DEF f, Promise!Step, Promise!Retry
<1> QED BY <1>4, <1>5

LEMMA PromiseStep ==
    ASSUME Known, LineagesInv, LineagesInv', AttemptsInv, AttemptsInv', LineageBounded'
    PROVE  Promise!Next
<1> DEFINE view == [root \in Roots |-> AttemptsOf(root)]
<1>1. DOMAIN view' = Roots /\ \A root \in Roots : view[root] = AttemptsOf(root) /\ view'[root] = AttemptsOf(root)'
  OBVIOUS
<1>2. Loosened \subseteq Loosened'
  <2> SUFFICES ASSUME NEW root \in Roots, NEW r \in RowsOf(root), runs[r].source # BirthSource(r)
               PROVE  r \in RowsOf(root)' /\ runs'[r].source # BirthSource(r)
    BY DEF Loosened, BirthSource
  <2>1. r \in DOMAIN runs /\ r \in DOMAIN runs' /\ r.root = root
    BY DEF RowsOf, Known, TableMoves
  <2>2. ~Own(r)'
    BY <2>1, OwnBefore DEF Own, LineagesInv
  <2> QED BY <2>1, <2>2 DEF Own, RowsOf, BirthSource
<1>3. ASSUME NEW root \in Roots, root \notin Loosened'
      PROVE  Promise!Step(root) \/ AttemptsOf(root)' = AttemptsOf(root)
  BY <1>3, NoNewRow, OneNewRow DEF LineagesInv, AttemptsInv
<1> HIDE DEF view
<1> QED BY <1>1, <1>2, <1>3 DEF view, Promise!Next

\* The rows, threads and recoveries of a trigger's work are attempts made one at a time:
\* they never overlap, only the newest is ever queued, claimed, given back or begun, none
\* is queued again once its worker has begun, and there are only so many, for any number
\* of runs, agents, permits, faults and cancels, as long as the sweep takes no row whose
\* thread is alive and but for jobs of which a shutdown requeues a run in place
\* (_drain_one_batch, execute_run, _schedule_retry, recover_abandoned_runs, cancel_run).
THEOREM AttemptsImplemented ==
    ASSUME "slow" \notin Faults
    PROVE  Spec => ImplementsRunAttempts
<1>1. Init => AttemptsInv /\ Promise!Init
  <2> SUFFICES ASSUME Init PROVE AttemptsInv /\ Promise!Init
    OBVIOUS
  <2>1. DOMAIN runs = {} /\ begun = {}
    BY DEF Init
  <2>2. AttemptsInv
    BY <2>1 DEF AttemptsInv, StartedInv, FirstInv, OrderInv
  <2>3. \A root \in Roots : RowsOf(root) = {}
    BY <2>1 DEF RowsOf
  <2>4. \A root \in Roots : AttemptsOf(root) = [n \in {} |-> Promise!Fresh]
    BY <2>3 DEF AttemptsOf
  <2>5. Loosened = {}
    BY <2>3 DEF Loosened
  <2> QED BY <2>2, <2>4, <2>5 DEF Promise!Init
<1>2. /\ TypeInv /\ TypeInv' /\ Separation /\ Separation' /\ LineagesInv /\ LineagesInv'
      /\ AttemptsInv /\ [Next]_vars
      => AttemptsInv'
  BY KnownAlways, StartedStep, FirstStep, OrderStep DEF AttemptsInv, LineagesInv
<1>3. /\ TypeInv /\ TypeInv' /\ Separation /\ Separation' /\ LineagesInv /\ LineagesInv'
      /\ AttemptsInv /\ AttemptsInv' /\ LineageBounded' /\ [Next]_vars
      => [Promise!Next]_Promise!promised
  BY KnownAlways, PromiseStep
<1> QED BY <1>1, <1>2, <1>3, TypeInvariant, SeparationInvariant, LineagesInvariant, LineagesStayBounded,
           PTL DEF Spec, ImplementsRunAttempts, Promise!Spec
=============================================================================
