----------------------------- MODULE RunStreams -----------------------------
(***************************************************************************)
(* One run that logs and publishes, and one client that watches it over    *)
(* Server-Sent Events (src/apps/api/services/sse_streaming.py and the      *)
(* stream endpoints of routers/runs.py), on top of the log pipeline of     *)
(* RunLogs:                                                                *)
(*   "logs"    GET /runs/{id}/logs/stream                                  *)
(*   "parts"   GET /runs/{id}/stream                                       *)
(* The client's process is the run's or another one: publications only     *)
(* reach the subscribers of their own process, the database reaches all.   *)
(*                                                                         *)
(* A put into the client's queue is a callback posted to its event loop,   *)
(* and may run any time later; a full queue drops it.  The replay buffer   *)
(* is taken to hold every part (its deque is bounded, at 2000).  No row is *)
(* taken to be the echo of a line of code on stderr, which a replay leaves *)
(* out.  A terminal write after a first one (an executor's, beside a       *)
(* cancel) would add another marker and is left out.                       *)
(*                                                                         *)
(* A definition marked "Mistake" stands for the definition after it, with  *)
(* a plausible error; it is used by no action.                             *)
(***************************************************************************)
EXTENDS RunLogs, FiniteSets

CONSTANTS
    Clients,        \* the clients considered: the stream each opens, whether its process is
                    \* the run's, whether its user owns the worker, and the limit of its
                    \* reads of rows
    NumParts,       \* parts a run publishes, its finish part not counted
    InboxSize,      \* maxsize of the client's asyncio.Queue
    MaxReconnects,  \* bound: connections the client loses
    MaxRows         \* bound: rows and markers logged while it watches each kind

Kind == {"logs", "parts"}

ASSUME StreamsAssumption ==
    /\ Clients \subseteq [kind : Kind, local : BOOLEAN, owner : BOOLEAN, limit : Nat \ {0}]
    /\ NumParts \in Nat
    /\ InboxSize \in Nat \ {0}
    /\ MaxReconnects \in Nat
    /\ MaxRows \in [Kind -> 1 .. MaxLogged]

VARIABLES
    \* --- the run ----------------------------------------------------------
    status,       \* of its row
    writer,       \* how far update_run_status is with the terminal status
    early,        \* rows logged when the terminal status was written
    marker,       \* the row that is the drain marker, or 0
    thread,       \* of the run: it ends with a finish part and some more rows
    unpublished,  \* the row that is logged but not yet published, or 0
    parted,       \* parts published
    \* --- the client's process ---------------------------------------------
    buffer,       \* _run_part_buffers[run], or NoBuffer
    subscribed,   \* the client's queue is registered
    posted,       \* puts posted to the event loop and not yet run
    inbox,        \* the client's asyncio.Queue
    \* --- the connection ---------------------------------------------------
    kind,         \* which stream it is
    local,        \* the client's process is the run's
    owner,        \* the client's user owns the worker: who started the run may not
    limit,        \* _DEFAULT_RUN_LOG_LIMIT
    at,           \* where the endpoint is
    knew,         \* the status read when the request was served
    out,          \* what this connection has to show so far, in order;
                  \* the next outgoing id is its length
    skipped,      \* its first items that a resumed connection was not sent
    lastSeen,     \* the Last-Event-ID of the request, or -1
    waited,       \* the end of a log stream waited for the drain marker
    overlap,      \* history: the row in between when the client subscribed, or 0
    reconnects    \* connections lost so far, at most MaxReconnects

run        == <<status, writer, early, marker>>
publishing == <<thread, unpublished, parted>>
channel    == <<buffer, subscribed, posted, inbox>>
connection == <<at, knew, out, skipped, lastSeen, waited, overlap>>
client     == <<kind, local, owner, limit>>
vars       == <<pipeline, run, publishing, channel, connection, client, reconnects>>

\* Direct writes of a terminal status bypass update_run_status.
WriterState == {"idle", "written", "marked", "published", "direct"}
Status   == {"running", "parked", "ended", "cancelled"}
Terminal == {"ended", "cancelled"}
ThreadState == {"going", "finished", "parked"}

Log(n)  == [type |-> "log", n |-> n]
Part(n) == [type |-> "part", n |-> n]
Finish  == [type |-> "finish", n |-> 0]
State   == [type |-> "status", n |-> 0]
Item    == [type : {"log", "part", "finish", "status"}, n : Nat]

NoBuffer  == [parts |-> <<>>, finished |-> FALSE, expires |-> FALSE, exists |-> FALSE]
NewBuffer == [NoBuffer EXCEPT !.exists = TRUE]

At == {"away", "opening", "subscribing", "live", "draining", "final", "closed"}

Init ==
    /\ PipelineInit
    /\ status = "running"
    /\ writer = "idle"
    /\ early = 0
    /\ marker = 0
    /\ thread = "going"
    /\ unpublished = 0
    /\ parted = 0
    /\ buffer = NoBuffer
    /\ subscribed = FALSE
    /\ posted = <<>>
    /\ inbox = <<>>
    /\ \E c \in Clients :
          kind = c.kind /\ local = c.local /\ owner = c.owner /\ limit = c.limit
    /\ at = "away"
    /\ knew = "running"
    /\ out = <<>>
    /\ skipped = 0
    /\ lastSeen = -1
    /\ waited = FALSE
    /\ overlap = 0
    /\ reconnects = 0

-----------------------------------------------------------------------------
(* Publishing *)

\* Puts an item on its way to the client, if it is subscribed to this kind of
\* publication in this process.
Post(k, item) ==
    posted' = IF local /\ subscribed /\ kind = k THEN Append(posted, item) ELSE posted

\* _sse_publish
Publish(item) ==
    /\ Post("logs", item)
    /\ UNCHANGED <<buffer, subscribed, inbox>>

\* _run_part_publish: into the replay buffer of the run's process and to the
\* subscribers; a finish part starts the buffer's time to live.  The buffer is
\* left out where the client does not read it.
PublishToBuffer(part) ==
    /\ Post("parts", part)
    /\ buffer' = IF local /\ kind = "parts"
                 THEN [parts |-> Append(buffer.parts, part),
                       finished |-> buffer.finished \/ part = Finish,
                       expires |-> buffer.expires \/ part = Finish,
                       exists |-> TRUE]
                 ELSE buffer
    /\ UNCHANGED <<subscribed, inbox>>

\* A callback of the event loop puts its item into the client's queue, or drops
\* it when that is full.
Deliver ==
    /\ posted # <<>>
    /\ posted' = Tail(posted)
    /\ inbox' = IF Len(inbox) < InboxSize THEN Append(inbox, Head(posted)) ELSE inbox
    /\ UNCHANGED <<pipeline, run, publishing, buffer, subscribed, connection, client,
                   reconnects>>

-----------------------------------------------------------------------------
(* The run *)

\* The run's own thread is inside update_run_status.
Busy == status = "ended" /\ writer \in {"written", "marked"}

\* Room for one row, and for the marker if it has not been logged.
RoomToLog == logged + (IF marker = 0 THEN 1 ELSE 0) < MaxRows[kind]

\* add_log enqueues the row (its publication matters to a log stream only)
LogRow ==
    /\ thread # "parked"
    /\ ~Busy
    /\ unpublished = 0
    /\ RoomToLog
    /\ Enqueue
    /\ unpublished' = IF kind = "logs" THEN logged + 1 ELSE 0
    /\ UNCHANGED <<run, thread, parted, channel, connection, client, reconnects>>

\* and then publishes it.
PublishRow ==
    /\ unpublished # 0
    /\ Publish(Log(unpublished))
    /\ unpublished' = 0
    /\ UNCHANGED <<pipeline, run, thread, parted, connection, client, reconnects>>

\* publish_run_part, by an agent's thread, if the client watches the parts.
PublishPart ==
    /\ kind = "parts"
    /\ thread = "going"
    /\ ~Busy
    /\ unpublished = 0
    /\ parted < NumParts
    /\ parted' = parted + 1
    /\ PublishToBuffer(Part(parted + 1))
    /\ UNCHANGED <<pipeline, run, thread, unpublished, connection, client, reconnects>>

\* The finish part follows the terminal status, for a client that watches the parts.
PublishFinish ==
    /\ kind = "parts"
    /\ thread = "going"
    /\ unpublished = 0
    /\ \/ status = "ended" /\ writer = "published"
       \/ status = "cancelled"
    /\ thread' = "finished"
    /\ PublishToBuffer(Finish)
    /\ UNCHANGED <<pipeline, run, unpublished, parted, connection, client, reconnects>>

\* A run that needs an approval is parked; its finish part says so.
Park ==
    /\ thread = "going"
    /\ status = "running"
    /\ unpublished = 0
    /\ status' = "parked"
    /\ thread' = "parked"
    /\ PublishToBuffer(Finish)
    /\ UNCHANGED <<pipeline, writer, early, marker, unpublished, parted, connection,
                   client, reconnects>>

\* update_run_status writes the terminal status: the run's thread its result,
\* or the cancel endpoint beside it,
WriteStatus(s) ==
    /\ writer = "idle"
    /\ \/ s = "ended" /\ status = "running" /\ thread = "going" /\ unpublished = 0
       \/ s = "cancelled" /\ status \in {"running", "parked"}
    /\ status' = s
    /\ writer' = "written"
    /\ early' = logged
    /\ UNCHANGED <<pipeline, marker, publishing, channel, connection, client,
                   reconnects>>

\* puts the drain marker behind the rows logged so far,
EnqueueMarker ==
    /\ writer = "written"
    /\ Enqueue
    /\ marker' = logged + 1
    /\ writer' = "marked"
    /\ UNCHANGED <<status, early, publishing, channel, connection, client,
                   reconnects>>

\* and publishes the status.
PublishStatus ==
    /\ writer = "marked"
    /\ writer' = "published"
    /\ Publish(State)
    /\ UNCHANGED <<pipeline, status, early, marker, publishing, connection, client,
                   reconnects>>

\* approve_run settles a parked run in the repository, beside update_run_status.
Settle ==
    /\ status = "parked"
    /\ writer = "idle"
    /\ status' = "ended"
    /\ writer' = "direct"
    /\ early' = logged
    /\ UNCHANGED <<pipeline, marker, publishing, channel, connection, client,
                   reconnects>>

\* _schedule_run_part_cleanup's timer
ExpireBuffer ==
    /\ buffer.expires
    /\ buffer' = NoBuffer
    /\ UNCHANGED <<pipeline, run, publishing, subscribed, posted, inbox, connection, client,
                   reconnects>>

FlushRows ==
    /\ Flush
    /\ UNCHANGED <<run, publishing, channel, connection, client, reconnects>>

-----------------------------------------------------------------------------
(* The connection *)

\* Rows in the order in which they were logged: each at the place that is the number
\* of those up to it.
LogsOf(rows) ==
    [i \in 1 .. Cardinality(rows) |->
        Log(CHOOSE n \in rows : Cardinality({m \in rows : m <= n}) = i)]

\* list_logs: the oldest of the stored rows, in the order of their timestamps, without
\* markers.
StoredRows ==
    LET rows == Rows(table) \ {marker}
    IN  {n \in rows : Cardinality({m \in rows : m <= n}) <= limit}
StoredLogs == LogsOf(StoredRows)

\* Those this connection has not shown yet.
UnseenLogs == LogsOf({n \in StoredRows : Log(n) \notin Rows(out)})

\* The client opens the stream; the endpoint reads the run's row.
Open ==
    /\ at = "away"
    /\ at' = "opening"
    /\ knew' = status
    /\ out' = <<>>
    /\ skipped' = 0
    /\ waited' = FALSE
    /\ overlap' = 0
    /\ UNCHANGED <<pipeline, run, publishing, channel, lastSeen, client, reconnects>>

\* What is replayed is sent from behind the Last-Event-ID on.
Replay(items) ==
    /\ out' = items
    /\ skipped' = IF lastSeen < Len(items) THEN lastSeen + 1 ELSE Len(items)

\* The stream of log rows waits for the drain marker of a run that has been
\* terminal for less than five minutes; whether it has is left open.
Leave ==
    \/ at' = "draining" /\ waited' = TRUE
    \/ at' = "final" /\ waited' = FALSE

\* The generator starts: it replays what there is.
StartLogs ==
    /\ kind = "logs"
    /\ at = "opening"
    /\ Replay(StoredLogs)
    /\ IF knew \in Terminal THEN Leave ELSE at' = "subscribing" /\ UNCHANGED waited
    /\ UNCHANGED <<pipeline, run, publishing, channel, knew, lastSeen, overlap, client,
                   reconnects>>

\* Mistake: a finished run's buffer is replayed like a live one's.
StartPartsUnfinished ==
    /\ kind = "parts"
    /\ at = "opening"
    /\ \/ /\ ~buffer.exists /\ knew = "ended"
          /\ Replay(Append(StoredLogs, Finish))
          /\ at' = "closed"
       \/ /\ buffer.exists \/ knew # "ended"
          /\ Replay(buffer.parts \o StoredLogs)
          /\ at' = "subscribing"
    /\ UNCHANGED <<pipeline, run, publishing, channel, knew, lastSeen, waited, overlap,
                   client, reconnects>>

StartParts ==
    /\ kind = "parts"
    /\ at = "opening"
    /\ \/ /\ ~buffer.exists /\ knew = "ended"
          /\ Replay(Append(StoredLogs, Finish))
          /\ at' = "closed"
       \/ /\ buffer.finished
          /\ Replay(buffer.parts)
          /\ at' = "closed"
       \/ /\ ~buffer.finished /\ (buffer.exists \/ knew # "ended")
          /\ Replay(buffer.parts \o StoredLogs)
          /\ at' = "subscribing"
    /\ UNCHANGED <<pipeline, run, publishing, channel, knew, lastSeen, waited, overlap,
                   client, reconnects>>

\* Mistake: the buffer is also put into the queue.
SubscribeWithBacklog ==
    /\ at = "subscribing"
    /\ at' = "live"
    /\ subscribed' = TRUE
    /\ overlap' = unpublished
    /\ inbox' = IF Len(buffer.parts) <= InboxSize THEN buffer.parts ELSE inbox
    /\ buffer' = IF kind = "parts" THEN [buffer EXCEPT !.exists = TRUE, !.expires = FALSE]
                 ELSE buffer
    /\ UNCHANGED <<pipeline, run, publishing, posted, knew, out, skipped, lastSeen, waited,
                   client, reconnects>>

\* The client's queue is registered; a part buffer is made for it, or kept.
Subscribe ==
    /\ at = "subscribing"
    /\ at' = "live"
    /\ subscribed' = TRUE
    /\ overlap' = unpublished
    /\ buffer' = IF kind = "parts" THEN [buffer EXCEPT !.exists = TRUE, !.expires = FALSE]
                 ELSE buffer
    /\ UNCHANGED <<pipeline, run, publishing, posted, inbox, knew, out, skipped, lastSeen,
                   waited, client, reconnects>>

\* The queue is removed from its registry; what is on its way to it is lost.
Unsubscribe ==
    /\ subscribed' = FALSE
    /\ posted' = <<>>
    /\ inbox' = <<>>
    /\ buffer' = IF kind = "parts" THEN [buffer EXCEPT !.expires = buffer.finished]
                 ELSE buffer

\* The item that ends a stream: for the log rows, it ends its live phase.
Final == [logs |-> State, parts |-> Finish]

\* The live phase has ended.
EndLive ==
    IF kind = "logs" THEN Leave ELSE at' = "closed" /\ UNCHANGED waited

\* An item comes in.  A log stream shows rows only.
Receive ==
    /\ at = "live"
    /\ inbox # <<>>
    /\ out' = IF kind = "logs" /\ Head(inbox) = State THEN out
              ELSE Append(out, Head(inbox))
    /\ \/ /\ Head(inbox) # Final[kind]
          /\ inbox' = Tail(inbox)
          /\ UNCHANGED <<at, waited, buffer, subscribed, posted>>
       \/ /\ Head(inbox) = Final[kind]
          /\ EndLive
          /\ Unsubscribe
    /\ UNCHANGED <<pipeline, run, publishing, knew, skipped, lastSeen, overlap, client,
                   reconnects>>

\* The finish part that stands for a row: a cancelled run has none.
FinishOfRow == IF status = "ended" THEN <<Finish>> ELSE <<>>

\* Nothing came in for a while.  A stream of parts shows what was stored since,
\* and both it and a log stream look at the run's row.
PollParts ==
    /\ kind = "parts"
    /\ at = "live"
    /\ inbox = <<>>
    /\ \/ /\ status \notin Terminal
          /\ out' = out \o UnseenLogs
          /\ UNCHANGED <<at, waited, channel>>
       \/ /\ status \in Terminal
          /\ out' = (out \o UnseenLogs) \o FinishOfRow
          /\ EndLive
          /\ Unsubscribe
    /\ UNCHANGED <<pipeline, run, publishing, knew, skipped, lastSeen, overlap, client,
                   reconnects>>

\* Mistake: the row is looked at only while rows come in.
PollLogsAtStart ==
    /\ kind = "logs"
    /\ at = "live"
    /\ inbox = <<>>
    /\ out # <<>>
    /\ status \in Terminal
    /\ EndLive
    /\ Unsubscribe
    /\ UNCHANGED <<pipeline, run, publishing, knew, out, skipped, lastSeen, overlap, client,
                   reconnects>>

PollLogs ==
    /\ kind = "logs"
    /\ at = "live"
    /\ inbox = <<>>
    /\ status \in Terminal
    /\ EndLive
    /\ Unsubscribe
    /\ UNCHANGED <<pipeline, run, publishing, knew, out, skipped, lastSeen, overlap, client,
                   reconnects>>

\* Mistake: the marker counts once it is logged.
LogsDrainedEarly == owner /\ marker # 0

\* logs_drained looks at the runs of the user's own workers only.
LogsDrained == owner /\ marker \in Rows(table)

\* While the marker is not stored, rows stored since are shown.
Drain ==
    /\ at = "draining"
    /\ \/ LogsDrained /\ at' = "final" /\ UNCHANGED out
       \/ ~LogsDrained /\ out' = out \o UnseenLogs /\ UNCHANGED at
    /\ UNCHANGED <<pipeline, run, publishing, channel, knew, skipped, lastSeen, waited,
                   overlap, client, reconnects>>

\* The last rows, and the event that says the stream is done.
SayDone ==
    /\ at = "final"
    /\ out' = out \o UnseenLogs
    /\ at' = "closed"
    /\ UNCHANGED <<pipeline, run, publishing, channel, knew, skipped, lastSeen, waited,
                   overlap, client, reconnects>>

\* The connection is lost.  The client of a stream of parts comes back with the
\* last id it was sent; one of a log stream comes back as a new one.
Lose ==
    /\ kind = "parts"
    /\ at \notin {"away", "closed"}
    /\ reconnects < MaxReconnects
    /\ reconnects' = reconnects + 1
    /\ at' = "away"
    /\ lastSeen' = IF Len(out) > skipped THEN Len(out) - 1 ELSE lastSeen
    /\ IF at = "live" THEN Unsubscribe ELSE UNCHANGED channel
    /\ UNCHANGED <<pipeline, run, publishing, knew, out, skipped, waited, overlap, client>>

-----------------------------------------------------------------------------

Thread ==
    \/ LogRow
    \/ PublishRow
    \/ PublishPart
    \/ PublishFinish
    \/ Park

StatusWriter ==
    \/ \E s \in Terminal : WriteStatus(s)
    \/ EnqueueMarker
    \/ PublishStatus
    \/ Settle

Connection ==
    \/ Open
    \/ StartLogs
    \/ StartParts
    \/ Subscribe
    \/ Receive
    \/ PollParts
    \/ PollLogs
    \/ Drain
    \/ SayDone

Next == Thread \/ StatusWriter \/ FlushRows \/ Deliver \/ Connection \/ Lose \/ ExpireBuffer

Spec == Init /\ [][Next]_vars

\* The threads go on with what they have begun, and the client comes back.  A run
\* need not log, publish or end, and time may pass or not.
FairSpec ==
    /\ Spec
    /\ WF_vars(PublishRow)
    /\ WF_vars(EnqueueMarker)
    /\ WF_vars(PublishStatus)
    /\ WF_vars(FlushRows)
    /\ WF_vars(Deliver)
    /\ WF_vars(Connection)

-----------------------------------------------------------------------------
(* Properties *)

\* Every variable has its type.
TypeOK ==
    /\ PipelineTypeOK
    /\ status \in Status
    /\ writer \in WriterState
    /\ early \in 0 .. logged
    /\ marker \in 0 .. logged
    /\ thread \in ThreadState
    /\ unpublished \in 0 .. logged
    /\ parted \in 0 .. NumParts
    /\ buffer.parts \in Seq(Item)
    /\ {buffer.finished, buffer.expires, buffer.exists} \subseteq BOOLEAN
    /\ subscribed \in BOOLEAN
    /\ posted \in Seq(Item)
    /\ inbox \in Seq(Item)
    /\ Len(inbox) <= InboxSize
    /\ kind \in Kind
    /\ limit \in Nat \ {0}
    /\ {local, owner} \subseteq BOOLEAN
    /\ at \in At
    /\ knew \in Status
    /\ out \in Seq(Item)
    /\ skipped \in 0 .. Len(out)
    /\ lastSeen \in Int
    /\ waited \in BOOLEAN
    /\ overlap \in 0 .. logged
    /\ reconnects \in 0 .. MaxReconnects

\* How often the connection shows an item.
Shown(item) == Cardinality({i \in 1 .. Len(out) : out[i] = item})

\* A log stream that waited for the drain marker and says it is done has shown
\* every row logged before the terminal status, up to the limit of a read, unless a
\* failed batch of the queue was put behind newer rows of the spool.  A row beyond
\* the limit is shown only if it came in live.
DoneIsComplete ==
    kind = "logs" /\ at = "closed" /\ waited /\ ~disordered =>
        \A n \in 1 .. early : n <= limit => Log(n) \in Rows(out)

\* A log stream shows a row once: by replay, live or after the end, whichever
\* comes first.  Only a row that was already stored and not yet published when
\* the client subscribed can be shown again.
RowsShownOnce ==
    kind = "logs" =>
        \A n \in 1 .. logged : Shown(Log(n)) <= IF n = overlap THEN 2 ELSE 1

\* A stream of parts shows no item twice, and the parts in their order, though it
\* joins a replayed buffer, stored rows, live parts and polled rows.
PartsInOrder ==
    kind = "parts" =>
        /\ \A i, j \in 1 .. Len(out) : i # j => out[i] # out[j]
        /\ \A i, j \in 1 .. Len(out) :
              out[i].type = "part" /\ out[j].type = "part" /\ i < j => out[i].n < out[j].n

\* A stream of parts that the endpoint closes ends with a finish part, unless the
\* run was cancelled, and shows none before.
ClosedWithFinish ==
    kind = "parts" =>
        /\ at = "closed" /\ status # "cancelled" => out # <<>> /\ out[Len(out)] = Finish
        /\ \A i \in 1 .. Len(out) - 1 : out[i] # Finish

\* The table catches up with what was logged, however the writes of batches fail.
EventuallyStored == []<>(Rows(table) = 1 .. logged)

\* The log stream of the worker's owner says done if the run's terminal status went
\* through update_run_status, and a stream of parts of a terminal run closes, though
\* publications are dropped, and none comes from another process.
EventuallyClosed ==
    (kind = "logs" /\ owner /\ marker # 0) \/ (kind = "parts" /\ status \in Terminal)
        ~> at = "closed"

=============================================================================
