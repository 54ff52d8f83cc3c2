------------------------------ MODULE RunLogs ------------------------------
(***************************************************************************)
(* The run-log pipeline of the floom API (src/apps/api/run_service.py):    *)
(* threads put log rows into a bounded queue in memory; when it is full    *)
(* they spill into an ordered local spool; one flusher thread writes       *)
(* batches of both into the logs table.  A batch whose write fails is kept *)
(* and tried again.                                                        *)
(*                                                                         *)
(* A row is a number: the rows of a process, and the drain markers of its  *)
(* runs among them, in the order in which they are logged.                 *)
(*                                                                         *)
(* The flusher looks at the queue and then at the spool; the model lets no *)
(* thread fill the whole queue between the two looks.  The end of the      *)
(* process, which loses queue and spool, and the synchronous mode, which   *)
(* has neither, are not modelled, and neither is a spool that cannot be    *)
(* written (a full disk): _LogSpool.append then raises in the thread that  *)
(* logs, or in the flusher, which ends with the rows in its hands.         *)
(*                                                                         *)
(* A definition marked "Mistake" stands for the definition after it, with  *)
(* a plausible error; it is used by no action.                             *)
(***************************************************************************)
EXTENDS Integers, Sequences

CONSTANTS
    QueueSize,    \* maxsize of _log_queue
    BatchSize,    \* _log_flush_batch_size
    MaxLogged,    \* bound: rows in one behaviour
    MaxFailures   \* bound: failed writes in one behaviour

ASSUME PipelineAssumption ==
    /\ QueueSize \in Nat \ {0}
    /\ BatchSize \in Nat \ {0}
    /\ MaxLogged \in Nat
    /\ MaxFailures \in Nat

VARIABLES
    queue,       \* _log_queue
    spool,       \* _log_spool, from its read offset on
    spill,       \* _log_spill_active
    batch,       \* the rows in the flusher's hands
    flusher,     \* what it does with them
    table,       \* rows in the logs table, in the order of their ids
    logged,      \* history: how many rows were logged
    disordered,  \* history: a batch from the queue failed while rows were spooled
    failures     \* failed writes so far, at most MaxFailures

pipeline == <<queue, spool, spill, batch, flusher, table, logged, disordered,
              failures>>

\* "queue" and "spool" are a write in flight, of rows from the one or the other.
FlusherState == {"taking", "queue", "spool"}

PipelineInit ==
    /\ queue = <<>>
    /\ spool = <<>>
    /\ spill = FALSE
    /\ batch = <<>>
    /\ flusher = "taking"
    /\ table = <<>>
    /\ logged = 0
    /\ disordered = FALSE
    /\ failures = 0

-----------------------------------------------------------------------------
(* The threads *)

\* _enqueue_pending_log: once the queue has been full, rows go to the spool
\* until the flusher has emptied both.
Enqueue ==
    /\ logged < MaxLogged
    /\ logged' = logged + 1
    /\ \/ /\ ~spill
          /\ Len(queue) < QueueSize
          /\ queue' = Append(queue, logged + 1)
          /\ UNCHANGED <<spool, spill>>
       \/ /\ spill \/ Len(queue) = QueueSize
          /\ spool' = Append(spool, logged + 1)
          /\ spill' = TRUE
          /\ UNCHANGED queue
    /\ UNCHANGED <<batch, flusher, table, disordered, failures>>

-----------------------------------------------------------------------------
(* The flusher *)

\* _take_queued_log_batch takes rows one by one,
TakeRow ==
    /\ flusher = "taking"
    /\ queue # <<>>
    /\ Len(batch) < BatchSize
    /\ batch' = Append(batch, Head(queue))
    /\ queue' = Tail(queue)
    /\ UNCHANGED <<spool, spill, flusher, table, logged, disordered, failures>>

\* until the batch is full or the interval has passed.
WriteTaken ==
    /\ flusher = "taking"
    /\ batch # <<>>
    /\ flusher' = "queue"
    /\ UNCHANGED <<queue, spool, spill, batch, table, logged, disordered, failures>>

\* The number of rows one batch takes from the spool.
PeekSize == IF Len(spool) < BatchSize THEN Len(spool) ELSE BatchSize

\* Mistake: the spool is read only when no thread writes to it any more.
PeekUnspilled ==
    /\ flusher = "taking"
    /\ batch = <<>>
    /\ queue = <<>>
    /\ spool # <<>>
    /\ ~spill
    /\ batch' = SubSeq(spool, 1, PeekSize)
    /\ flusher' = "spool"
    /\ UNCHANGED <<queue, spool, spill, table, logged, disordered, failures>>

\* With nothing in the queue, the oldest rows of the spool are tried instead;
\* they stay there until the write has succeeded.
Peek ==
    /\ flusher = "taking"
    /\ batch = <<>>
    /\ queue = <<>>
    /\ spool # <<>>
    /\ batch' = SubSeq(spool, 1, PeekSize)
    /\ flusher' = "spool"
    /\ UNCHANGED <<queue, spool, spill, table, logged, disordered, failures>>

\* Mistake: the spool is acknowledged as a whole.
AckAll == IF flusher = "spool" THEN <<>> ELSE spool

\* Mistake: nothing is acknowledged.
AckNothing == spool

\* The spool once the batch is stored.
Acked ==
    IF flusher = "spool" THEN SubSeq(spool, Len(batch) + 1, Len(spool)) ELSE spool

Written ==
    /\ flusher \in {"queue", "spool"}
    /\ table' = table \o batch
    /\ spool' = Acked
    /\ batch' = <<>>
    /\ flusher' = "taking"
    /\ UNCHANGED <<queue, spill, logged, disordered, failures>>

\* A failed batch from the queue goes to the end of the spool, and the rows that
\* have arrived since behind it.
SpoolBehind ==
    /\ spool' = (spool \o batch) \o queue
    /\ queue' = <<>>

WriteFailed ==
    /\ failures < MaxFailures
    /\ failures' = failures + 1
    /\ \/ /\ flusher = "queue"
          /\ SpoolBehind
          /\ spill' = TRUE
          /\ disordered' = (disordered \/ spool # <<>>)
       \/ /\ flusher = "spool"
          /\ UNCHANGED <<queue, spool, spill, disordered>>
    /\ batch' = <<>>
    /\ flusher' = "taking"
    /\ UNCHANGED <<table, logged>>

\* _clear_log_spill_if_drained
ClearSpill ==
    /\ flusher = "taking"
    /\ batch = <<>>
    /\ queue = <<>>
    /\ spool = <<>>
    /\ spill
    /\ spill' = FALSE
    /\ UNCHANGED <<queue, spool, batch, flusher, table, logged, disordered, failures>>

Flush == TakeRow \/ WriteTaken \/ Peek \/ Written \/ WriteFailed \/ ClearSpill

PipelineNext == Enqueue \/ Flush

PipelineSpec == PipelineInit /\ [][PipelineNext]_pipeline

-----------------------------------------------------------------------------
(* Properties *)

\* The rows s holds.
Rows(s) == {s[i] : i \in 1 .. Len(s)}

\* The rows a failed write would put back, a peeked batch being still spooled.
InHand == IF flusher = "spool" THEN <<>> ELSE batch

\* Every variable has its type.
PipelineTypeOK ==
    /\ queue \in Seq(Nat)
    /\ Len(queue) <= QueueSize
    /\ spool \in Seq(Nat)
    /\ spill \in BOOLEAN
    /\ batch \in Seq(Nat)
    /\ Len(batch) <= BatchSize
    /\ flusher \in FlusherState
    /\ table \in Seq(Nat)
    /\ logged \in Nat
    /\ disordered \in BOOLEAN
    /\ failures \in 0 .. MaxFailures

\* Whatever fails, no row is lost and none is stored twice: each is in the table,
\* in the flusher's hands, in the queue or in the spool ("retrying without
\* loss"), and in one of them only.
NothingLost ==
    /\ Rows(table) \cup Rows(InHand) \cup Rows(queue) \cup Rows(spool) = 1 .. logged
    /\ Len(table) + Len(InHand) + Len(queue) + Len(spool) = logged

\* Rows wait in the spool only in spill mode: a newer row cannot overtake them
\* through the queue.
SpooledIsSpilled == spool # <<>> => spill

\* What is not stored yet, in the order in which it will be.
Waiting == (InHand \o queue) \o spool

\* Rows are stored in the order in which they were logged, each once, unless a
\* batch from the queue failed while newer rows were already spooled.
StoredInOrder ==
    ~disordered =>
        /\ Len(table) <= logged
        /\ \A i \in 1 .. Len(table) : table[i] = i

\* The rows that wait continue those that are stored, likewise.
PipelineInOrder ==
    ~disordered =>
        /\ Len(table \o Waiting) = logged
        /\ \A i \in 1 .. logged : (table \o Waiting)[i] = i

Store == INSTANCE LogStore WITH accepted <- logged, stored <- table, orderly <- ~disordered

\* The pipeline implements the log store: whatever is spooled, put back and tried
\* again, rows are appended to the table each once, and in their order until a
\* batch is spooled behind newer rows.
ImplementsLogStore == Store!Spec

=============================================================================
