-------------------------- MODULE RunStreams_proofs --------------------------
(***************************************************************************)
(* A run that logs, publishes and is watched uses the log pipeline as      *)
(* RunLogs specifies it, so that what is proved there holds here; and a    *)
(* log stream leaves its wait for the drain marker only when all rows      *)
(* logged before the terminal status are stored.                           *)
(*                                                                         *)
(* What a client is shown: a log stream shows each row once and, when it   *)
(* is done, every row it owes; a stream of parts shows them in their order *)
(* and closes with a finish part.  The invariants relate what is shown to  *)
(* what is on its way, in the client's queue and in the callbacks posted   *)
(* to its event loop, and to what is not published yet.                    *)
(***************************************************************************)
EXTENDS RunStreams, RunLogs_proofs, FiniteSetTheorems, FunctionTheorems

LEMMA InitIsPipelineInit == Init => PipelineInit
<1> QED BY DEF Init

\* Every step is one of the pipeline's or leaves it alone.
LEMMA NextIsPipelineNext == [Next]_vars => [PipelineNext]_pipeline
<1> SUFFICES ASSUME [Next]_vars PROVE [PipelineNext]_pipeline
  OBVIOUS
<1>1. CASE UNCHANGED vars
  BY <1>1 DEF vars
<1>2. CASE Thread
  <2>1. LogRow => PipelineNext
    BY DEF LogRow, PipelineNext
  <2>2. PublishRow \/ PublishPart \/ PublishFinish \/ Park => UNCHANGED pipeline
    BY DEF PublishRow, PublishPart, PublishFinish, Park
  <2> QED BY <1>2, <2>1, <2>2 DEF Thread
<1>3. CASE StatusWriter
  <2>1. EnqueueMarker => PipelineNext
    BY DEF EnqueueMarker, PipelineNext
  <2>2. (\E s \in Terminal : WriteStatus(s)) \/ PublishStatus \/ Settle => UNCHANGED pipeline
    BY DEF WriteStatus, PublishStatus, Settle
  <2> QED BY <1>3, <2>1, <2>2 DEF StatusWriter
<1>4. CASE FlushRows
  BY <1>4 DEF FlushRows, PipelineNext
<1>5. CASE Connection
  <2>1. Open \/ StartLogs \/ StartParts \/ Subscribe \/ Receive => UNCHANGED pipeline
    BY DEF Open, StartLogs, StartParts, Subscribe, Receive
  <2>2. PollParts \/ PollLogs \/ Drain \/ SayDone => UNCHANGED pipeline
    BY DEF PollParts, PollLogs, Drain, SayDone
  <2> QED BY <1>5, <2>1, <2>2 DEF Connection
<1>6. CASE Deliver \/ Lose \/ ExpireBuffer
  BY <1>6 DEF Deliver, Lose, ExpireBuffer
<1> QED BY <1>1, <1>2, <1>3, <1>4, <1>5, <1>6 DEF Next

\* Logging, publishing and watching drive the log pipeline as RunLogs specifies it
\* (add_log, update_run_status, _log_flush_loop).
THEOREM ImplementsPipeline == Spec => PipelineSpec
<1> QED BY InitIsPipelineInit, NextIsPipelineNext, PTL DEF Spec, PipelineSpec

\* No row of a run is lost or stored twice, whichever writes fail (_log_flush_loop).
THEOREM StreamsNothingLost == Spec => []NothingLost
<1> QED BY ImplementsPipeline, PipelineSafety, PTL

\* The pipeline of a running system implements the log store.
THEOREM StreamsImplementLogStore == Spec => ImplementsLogStore
<1> QED BY ImplementsPipeline, PipelineImplementsLogStore, PTL

-----------------------------------------------------------------------------
(* The drain marker *)

\* The marker is logged behind the rows that the terminal status follows.
MarkerInv ==
    /\ early \in Nat /\ marker \in Nat /\ early <= logged
    /\ marker # 0 => /\ writer \in {"marked", "published"}
                     /\ early < marker
                     /\ marker <= logged

\* A log stream has waited until the marker was stored.
DrainedInv ==
    kind = "logs" /\ at \in {"final", "closed"} /\ waited => marker \in Rows(table)

\* A log stream that waited for the marker, and is about to say that it is done, finds
\* every row that was logged before the terminal status, unless the order was given up.
DrainIsHonest ==
    kind = "logs" /\ at \in {"final", "closed"} /\ waited /\ ~disordered =>
        1 .. early \subseteq Rows(table)

StreamsInv == PipelineInv /\ MarkerInv /\ DrainedInv

LEMMA StreamsInitInv == Init => StreamsInv
<1> SUFFICES ASSUME Init PROVE StreamsInv
  OBVIOUS
<1>1. PipelineInv
  BY InitIsPipelineInit, PipelineInitInv
<1>2. MarkerInv /\ DrainedInv
  BY DEF Init, PipelineInit, MarkerInv, DrainedInv
<1> QED BY <1>1, <1>2 DEF StreamsInv

\* Rows that are stored stay stored, and logged ones stay logged.
LEMMA TableGrows ==
    ASSUME PipelineInv, [PipelineNext]_pipeline
    PROVE  Rows(table) \subseteq Rows(table') /\ logged \in Nat /\ logged' \in Nat /\ logged <= logged'
<1>1. table \in Seq(Nat) /\ batch \in Seq(Nat) /\ logged \in Nat
  BY DEF PipelineInv, PipelineTypeOK
<1>2. CASE UNCHANGED pipeline \/ Enqueue \/ TakeRow \/ WriteTaken \/ Peek \/ WriteFailed \/ ClearSpill
  <2>1. UNCHANGED table
    BY <1>2 DEF pipeline, Enqueue, TakeRow, WriteTaken, Peek, WriteFailed, ClearSpill
  <2>2. logged' = logged \/ logged' = logged + 1
    BY <1>2 DEF pipeline, Enqueue, TakeRow, WriteTaken, Peek, WriteFailed, ClearSpill
  <2> QED BY <1>1, <2>1, <2>2 DEF Rows
<1>3. CASE Written
  <2>1. table' = table \o batch /\ logged' = logged
    BY <1>3 DEF Written
  <2> QED BY <1>1, <2>1, RowsOfConcat
<1> QED BY <1>2, <1>3 DEF PipelineNext, Flush

LEMMA MarkerKept ==
    ASSUME StreamsInv, [Next]_vars
    PROVE  MarkerInv'
<1>1. logged \in Nat /\ logged' \in Nat /\ logged <= logged'
  BY NextIsPipelineNext, TableGrows DEF StreamsInv
<1>2. CASE \E s \in Terminal : WriteStatus(s)
  BY <1>1, <1>2 DEF WriteStatus, pipeline, StreamsInv, MarkerInv
<1>3. CASE EnqueueMarker
  BY <1>1, <1>3 DEF EnqueueMarker, Enqueue, StreamsInv, MarkerInv
<1>4. CASE PublishStatus
  BY <1>1, <1>4 DEF PublishStatus, StreamsInv, MarkerInv
<1>5. CASE Settle
  BY <1>1, <1>5 DEF Settle, pipeline, StreamsInv, MarkerInv
<1>6. CASE UNCHANGED <<writer, early, marker>>
  BY <1>1, <1>6 DEF StreamsInv, MarkerInv
<1>7. Thread \/ FlushRows \/ Deliver \/ Lose \/ ExpireBuffer \/ UNCHANGED vars
          => UNCHANGED <<writer, early, marker>>
  BY DEF Thread, LogRow, PublishRow, PublishPart, PublishFinish, Park, FlushRows, Deliver, Lose,
         ExpireBuffer, vars, run
<1>8. Connection => UNCHANGED <<writer, early, marker>>
  BY DEF Connection, Open, StartLogs, StartParts, Subscribe, Receive, PollParts, PollLogs, Drain,
         SayDone, run
<1> QED BY <1>2, <1>3, <1>4, <1>5, <1>6, <1>7, <1>8 DEF Next, StatusWriter

LEMMA DrainedKept ==
    ASSUME StreamsInv, [Next]_vars
    PROVE  DrainedInv'
<1>1. Rows(table) \subseteq Rows(table')
  BY NextIsPipelineNext, TableGrows DEF StreamsInv
<1>2. \A v \in Rows(table) : v # 0
  <2>1. PipelineInv
    BY DEF StreamsInv
  <2>2. NothingLost
    BY <2>1, PipelineInvImplies
  <2> QED BY <2>2 DEF NothingLost
<1>3. UNCHANGED <<kind, at, waited>> /\ marker \in {marker', 0} => DrainedInv'
  BY <1>1, <1>2 DEF StreamsInv, DrainedInv
<1>4. CASE Thread \/ FlushRows \/ Deliver \/ ExpireBuffer \/ UNCHANGED vars
  <2>1. UNCHANGED <<kind, at, waited, marker>>
    BY <1>4 DEF Thread, LogRow, PublishRow, PublishPart, PublishFinish, Park, FlushRows, Deliver,
                ExpireBuffer, vars, run, connection, client
  <2> QED BY <1>3, <2>1
<1>5. CASE StatusWriter
  <2>1. UNCHANGED <<kind, at, waited>>
    BY <1>5 DEF StatusWriter, WriteStatus, EnqueueMarker, PublishStatus, Settle, connection, client
  <2>2. marker \in {marker', 0}
    BY <1>5 DEF StatusWriter, WriteStatus, EnqueueMarker, PublishStatus, Settle, StreamsInv, MarkerInv
  <2> QED BY <1>3, <2>1, <2>2
<1>6. CASE Lose \/ StartParts \/ PollParts
  BY <1>6 DEF Lose, StartParts, PollParts, client, DrainedInv
<1>7. CASE Open \/ StartLogs \/ Subscribe \/ Receive \/ PollLogs
  <2>1. kind' # "logs" \/ ~waited' \/ at' \notin {"final", "closed"}
    <3>1. CASE Open \/ Subscribe
      BY <3>1 DEF Open, Subscribe
    <3>2. CASE StartLogs
      BY <3>2 DEF StartLogs, Leave
    <3>3. CASE PollLogs
      BY <3>3 DEF PollLogs, EndLive, Leave
    <3>4. CASE Receive
      <4>1. kind' = kind /\ ((at' = at /\ at = "live") \/ EndLive)
        BY <3>4 DEF Receive, client
      <4> QED BY <4>1 DEF EndLive, Leave
    <3> QED BY <1>7, <3>1, <3>2, <3>3, <3>4
  <2> QED BY <2>1 DEF DrainedInv
<1>8. CASE Drain \/ SayDone
  BY <1>1, <1>8 DEF Drain, SayDone, LogsDrained, client, run, pipeline, StreamsInv, DrainedInv
<1> QED BY <1>4, <1>5, <1>6, <1>7, <1>8 DEF Next, Connection

\* In order, a stored row has all those before it stored.
LEMMA StreamsInvImplies == StreamsInv => DrainIsHonest
<1> SUFFICES ASSUME StreamsInv, kind = "logs", at \in {"final", "closed"}, waited, ~disordered
             PROVE  1 .. early \subseteq Rows(table)
  BY DEF DrainIsHonest
<1>1. StoredInOrder
  BY PipelineInvImplies DEF StreamsInv
<1>2. marker \in Rows(table)
  BY DEF StreamsInv, DrainedInv
<1>3. PICK i \in 1 .. Len(table) : marker = table[i]
  BY <1>2 DEF Rows
<1>4. table \in Seq(Nat) /\ Len(table) \in Nat /\ \A j \in 1 .. Len(table) : table[j] = j
  BY <1>1, LenProperties DEF StoredInOrder, StreamsInv, PipelineInv, PipelineTypeOK
<1>5. early < marker /\ early \in Nat
  BY <1>3, <1>4 DEF StreamsInv, MarkerInv
<1>6. \A n \in 1 .. early : n \in 1 .. Len(table) /\ table[n] = n
  BY <1>3, <1>4, <1>5
<1> QED BY <1>6 DEF Rows

LEMMA StreamsNextInv == StreamsInv /\ [Next]_vars => StreamsInv'
<1> SUFFICES ASSUME StreamsInv, [Next]_vars PROVE StreamsInv'
  OBVIOUS
<1>1. PipelineInv'
  BY NextIsPipelineNext, PipelineNextInv DEF StreamsInv
<1> QED BY <1>1, MarkerKept, DrainedKept DEF StreamsInv

\* A log stream that says it is done after the drain marker has every row it owes
\* to show in the table (_run_logs_are_drained).
THEOREM DrainHonest == Spec => []DrainIsHonest
<1> QED BY StreamsInitInv, StreamsNextInv, StreamsInvImplies, PTL DEF Spec

-----------------------------------------------------------------------------
(* Sequences of items *)

LogsFrom(S) == {Log(n) : n \in S}

\* No item comes twice.
Distinct(s) == \A i, j \in 1 .. Len(s) : i # j => s[i] # s[j]

\* Numbered rows as a sequence: each row is shown, and none twice.
LEMMA LogsOfRows ==
    ASSUME NEW k \in Nat, NEW S \in SUBSET (1 .. k)
    PROVE  /\ LogsOf(S) \in Seq(Item)
           /\ Rows(LogsOf(S)) = LogsFrom(S)
           /\ Distinct(LogsOf(S))
<1> DEFINE upTo(n) == {m \in S : m <= n}
           f == [n \in S |-> Cardinality(upTo(n))]
           N == Cardinality(S)
           pick(i) == CHOOSE n \in S : Cardinality({m \in S : m <= n}) = i
<1>1. IsFiniteSet(S) /\ N \in Nat
  <2>1. IsFiniteSet(1 .. k)
    BY FS_Interval
  <2> QED BY <2>1, FS_Subset, FS_CardinalityType
<1>2. S \subseteq Nat
  OBVIOUS
<1>3. \A n \in S : IsFiniteSet(upTo(n)) /\ Cardinality(upTo(n)) \in 1 .. N
  <2> SUFFICES ASSUME NEW n \in S PROVE IsFiniteSet(upTo(n)) /\ Cardinality(upTo(n)) \in 1 .. N
    OBVIOUS
  <2>1. upTo(n) \in SUBSET S /\ n \in upTo(n)
    BY <1>2
  <2> HIDE DEF upTo
  <2>2. IsFiniteSet(upTo(n)) /\ Cardinality(upTo(n)) <= N /\ Cardinality(upTo(n)) \in Nat
    BY <1>1, <2>1, FS_Subset, FS_CardinalityType
  <2>3. Cardinality(upTo(n)) # 0
    BY <2>1, <2>2, FS_EmptySet
  <2> QED BY <1>1, <2>2, <2>3
<1>4. \A m, n \in S : m < n => f[m] # f[n]
  <2> SUFFICES ASSUME NEW m \in S, NEW n \in S, m < n PROVE Cardinality(upTo(m)) # Cardinality(upTo(n))
    OBVIOUS
  <2>1. m \in Nat /\ n \in Nat /\ \A x \in S : x \in Nat
    BY <1>2
  <2>2. \A x \in upTo(m) : x \in upTo(n)
    BY <2>1
  <2>3. n \in upTo(n) /\ n \notin upTo(m)
    BY <2>1
  <2> HIDE DEF upTo
  <2>4. upTo(m) \in SUBSET upTo(n) /\ upTo(m) # upTo(n)
    BY <2>2, <2>3
  <2> QED BY <1>3, <2>4, FS_Subset
<1>5. f \in Injection(S, 1 .. N)
  <2>1. f \in [S -> 1 .. N]
    BY <1>3
  <2>2. \A m, n \in S : f[m] = f[n] => m = n
    <3> HIDE DEF f
    <3> QED BY <1>2, <1>4
  <2> HIDE DEF f, N
  <2> QED BY <2>1, <2>2 DEF Injection, IsInjective
<1>6. \A i \in 1 .. N : \E n \in S : f[n] = i
  <2> HIDE DEF f
  <2>1. IsFiniteSet(1 .. N) /\ Cardinality(1 .. N) = N
    BY <1>1, FS_Interval
  <2>2. f \in Surjection(S, 1 .. N)
    BY <1>5, <2>1, FS_Injection
  <2> QED BY <2>2 DEF Surjection
<1>7. \A i \in 1 .. N : pick(i) \in S /\ f[pick(i)] = i
  <2> SUFFICES ASSUME NEW i \in 1 .. N PROVE pick(i) \in S /\ f[pick(i)] = i
    OBVIOUS
  <2>1. \E n \in S : Cardinality({m \in S : m <= n}) = i
    BY <1>6
  <2> QED BY <2>1
<1>8. \A n \in S : f[n] \in 1 .. N /\ pick(f[n]) = n
  <2> SUFFICES ASSUME NEW n \in S PROVE f[n] \in 1 .. N /\ pick(f[n]) = n
    OBVIOUS
  <2>1. f[n] \in 1 .. N
    BY <1>3
  <2>2. pick(f[n]) \in S /\ f[pick(f[n])] = f[n]
    BY <1>7, <2>1
  <2> HIDE DEF f, pick
  <2> QED BY <1>5, <2>1, <2>2 DEF Injection, IsInjective
<1>9. LogsOf(S) = [i \in 1 .. N |-> Log(pick(i))]
  BY DEF LogsOf
<1> HIDE DEF pick, f, N
<1>10. \A n \in S : Log(n) \in Item /\ Log(n).n = n
  BY <1>2 DEF Log, Item
<1>11. LogsOf(S) \in Seq(Item) /\ Len(LogsOf(S)) = N
  <2>1. LogsOf(S) \in [1 .. N -> Item]
    BY <1>7, <1>9, <1>10
  <2> QED BY <1>1, <2>1
<1>12. Rows(LogsOf(S)) = LogsFrom(S)
  <2>1. \A i \in 1 .. N : LogsOf(S)[i] \in LogsFrom(S)
    BY <1>7, <1>9 DEF LogsFrom
  <2>2. \A n \in S : \E i \in 1 .. N : LogsOf(S)[i] = Log(n)
    BY <1>8, <1>9
  <2> QED BY <1>11, <2>1, <2>2 DEF Rows, LogsFrom
<1>13. Distinct(LogsOf(S))
  <2> SUFFICES ASSUME NEW i \in 1 .. N, NEW j \in 1 .. N, LogsOf(S)[i] = LogsOf(S)[j] PROVE i = j
    BY <1>11 DEF Distinct
  <2>1. Log(pick(i)) = Log(pick(j))
    BY <1>9
  <2>2. pick(i) = pick(j)
    BY <1>7, <1>10, <2>1
  <2> QED BY <1>7, <2>2
<1> QED BY <1>11, <1>12, <1>13

LEMMA Appended ==
    ASSUME NEW s \in Seq(Item), NEW x \in Item
    PROVE  /\ Append(s, x) \in Seq(Item)
           /\ Len(s) \in Nat /\ Len(Append(s, x)) = Len(s) + 1
           /\ \A i \in 1 .. Len(s) + 1 : Append(s, x)[i] = IF i <= Len(s) THEN s[i] ELSE x
           /\ Rows(Append(s, x)) = Rows(s) \cup {x}
<1>1. /\ Append(s, x) \in Seq(Item)
      /\ Len(s) \in Nat /\ Len(Append(s, x)) = Len(s) + 1
      /\ \A i \in 1 .. Len(s) + 1 : Append(s, x)[i] = IF i <= Len(s) THEN s[i] ELSE x
  OBVIOUS
<1>2. \A y \in Rows(s) \cup {x} : \E i \in 1 .. Len(s) + 1 : Append(s, x)[i] = y
  <2>1. Append(s, x)[Len(s) + 1] = x /\ Len(s) + 1 \in 1 .. Len(s) + 1
    BY <1>1
  <2>2. \A i \in 1 .. Len(s) : i \in 1 .. Len(s) + 1 /\ Append(s, x)[i] = s[i]
    BY <1>1
  <2> QED BY <2>1, <2>2 DEF Rows
<1> QED BY <1>1, <1>2 DEF Rows

LEMMA Shortened ==
    ASSUME NEW s \in Seq(Item), s # <<>>
    PROVE  /\ Tail(s) \in Seq(Item) /\ Head(s) \in Item
           /\ Len(s) \in Nat \ {0} /\ Len(Tail(s)) = Len(s) - 1
           /\ Head(s) = s[1]
           /\ \A i \in 1 .. Len(s) - 1 : Tail(s)[i] = s[i + 1]
           /\ Head(s) \in Rows(s) /\ Rows(Tail(s)) \subseteq Rows(s)
<1>1. /\ Tail(s) \in Seq(Item) /\ Head(s) \in Item
      /\ Len(s) \in Nat \ {0} /\ Len(Tail(s)) = Len(s) - 1
      /\ Head(s) = s[1]
      /\ \A i \in 1 .. Len(s) - 1 : Tail(s)[i] = s[i + 1]
  BY HeadTailProperties, EmptySeq
<1>2. \A i \in 1 .. Len(s) - 1 : i + 1 \in 1 .. Len(s)
  BY <1>1
<1> QED BY <1>1, <1>2 DEF Rows

LEMMA Joined ==
    ASSUME NEW s \in Seq(Item), NEW t \in Seq(Item)
    PROVE  /\ s \o t \in Seq(Item)
           /\ Len(s) \in Nat /\ Len(t) \in Nat /\ Len(s \o t) = Len(s) + Len(t)
           /\ \A i \in 1 .. Len(s) + Len(t) :
                 (s \o t)[i] = IF i <= Len(s) THEN s[i] ELSE t[i - Len(s)]
           /\ Rows(s \o t) = Rows(s) \cup Rows(t)
<1>1. /\ s \o t \in Seq(Item)
      /\ Len(s) \in Nat /\ Len(t) \in Nat /\ Len(s \o t) = Len(s) + Len(t)
      /\ \A i \in 1 .. Len(s) + Len(t) :
            (s \o t)[i] = IF i <= Len(s) THEN s[i] ELSE t[i - Len(s)]
  BY ConcatProperties, LenProperties
<1>2. \A i \in 1 .. Len(s) : i \in 1 .. Len(s) + Len(t) /\ (s \o t)[i] = s[i]
  BY <1>1
<1>3. \A i \in 1 .. Len(t) : i + Len(s) \in 1 .. Len(s) + Len(t) /\ (s \o t)[i + Len(s)] = t[i]
  BY <1>1
<1>4. \A i \in 1 .. Len(s) + Len(t) : i \in 1 .. Len(s) \/ i - Len(s) \in 1 .. Len(t)
  BY <1>1
<1>5. \A i \in 1 .. Len(s) + Len(t) : (s \o t)[i] \in Rows(s) \cup Rows(t)
  BY <1>1, <1>4 DEF Rows
<1>6. Rows(s \o t) \subseteq Rows(s) \cup Rows(t)
  BY <1>1, <1>5 DEF Rows
<1>7. Rows(s) \subseteq Rows(s \o t)
  BY <1>1, <1>2 DEF Rows
<1>8. Rows(t) \subseteq Rows(s \o t)
  <2> SUFFICES ASSUME NEW j \in 1 .. Len(t) PROVE t[j] \in Rows(s \o t)
    BY DEF Rows
  <2> QED BY <1>1, <1>3 DEF Rows
<1> QED BY <1>1, <1>6, <1>7, <1>8

\* No item but x comes twice in s, or both in s and in t.
TwiceOnly(s, x) == \A i, j \in 1 .. Len(s) : i # j /\ s[i] = s[j] => s[i] = x
BothOnly(s, t, x) == \A y \in Rows(s) \cap Rows(t) : y = x

\* Nor that more often.
NoThird(s) == \A i, j, k \in 1 .. Len(s) : i < j /\ j < k /\ s[i] = s[j] => s[k] # s[i]

LEMMA DistinctIsOnce ==
    ASSUME NEW s, Distinct(s)
    PROVE  NoThird(s) /\ \A x : TwiceOnly(s, x)
<1> QED BY DEF Distinct, NoThird, TwiceOnly

LEMMA EmptyIsOnce ==
    /\ Distinct(<<>>) /\ Rows(<<>>) = {} /\ <<>> \in Seq(Item)
    /\ \A x : TwiceOnly(<<>>, x)
<1> QED BY DEF Distinct, TwiceOnly, Rows

LEMMA OnceAppended ==
    ASSUME NEW s \in Seq(Item), NEW x \in Item
    PROVE  /\ \A y : TwiceOnly(s, y) /\ (x \in Rows(s) => x = y) => TwiceOnly(Append(s, x), y)
           /\ NoThird(s) /\ (x \in Rows(s) => Distinct(s)) => NoThird(Append(s, x))
           /\ Distinct(s) /\ x \notin Rows(s) => Distinct(Append(s, x))
<1>1. /\ Len(s) \in Nat /\ Len(Append(s, x)) = Len(s) + 1
      /\ \A i \in 1 .. Len(s) : Append(s, x)[i] = s[i] /\ s[i] \in Rows(s)
      /\ Append(s, x)[Len(s) + 1] = x
  BY Appended DEF Rows
<1>2. \A i \in 1 .. Len(s) + 1 : i \in 1 .. Len(s) \/ i = Len(s) + 1
  BY <1>1
<1>3. ASSUME NEW y, TwiceOnly(s, y), x \in Rows(s) => x = y PROVE TwiceOnly(Append(s, x), y)
  BY <1>1, <1>2, <1>3 DEF TwiceOnly
<1>4. Distinct(s) /\ x \notin Rows(s) => Distinct(Append(s, x))
  BY <1>1, <1>2 DEF Distinct
<1>5. ASSUME NoThird(s), x \in Rows(s) => Distinct(s) PROVE NoThird(Append(s, x))
  <2> SUFFICES ASSUME NEW i \in 1 .. Len(s) + 1, NEW j \in 1 .. Len(s) + 1, NEW k \in 1 .. Len(s) + 1,
                      i < j, j < k, Append(s, x)[i] = Append(s, x)[j], Append(s, x)[k] = Append(s, x)[i]
               PROVE  FALSE
    BY <1>1 DEF NoThird
  <2>1. i \in 1 .. Len(s) /\ j \in 1 .. Len(s) /\ s[i] = s[j] /\ i # j
    BY <1>1
  <2>2. CASE k \in 1 .. Len(s)
    BY <1>1, <1>5, <2>1, <2>2 DEF NoThird
  <2>3. CASE k = Len(s) + 1
    <3>1. x \in Rows(s)
      BY <1>1, <2>1, <2>3
    <3> QED BY <1>5, <2>1, <3>1 DEF Distinct
  <2> QED BY <1>2, <2>2, <2>3
<1> QED BY <1>3, <1>4, <1>5

LEMMA OnceShortened ==
    ASSUME NEW s \in Seq(Item), s # <<>>, NEW x, TwiceOnly(s, x)
    PROVE  /\ TwiceOnly(Tail(s), x)
           /\ Head(s) \in Rows(Tail(s)) => Head(s) = x
<1>1. /\ Len(s) \in Nat \ {0} /\ Len(Tail(s)) = Len(s) - 1 /\ Head(s) = s[1]
      /\ \A i \in 1 .. Len(s) - 1 : Tail(s)[i] = s[i + 1]
  BY Shortened
<1>2. /\ 1 \in 1 .. Len(s)
      /\ \A i \in 1 .. Len(s) - 1 : i + 1 \in 1 .. Len(s) /\ i + 1 # 1
      /\ \A i, j \in 1 .. Len(s) - 1 : i # j => i + 1 # j + 1
  BY <1>1
<1>3. TwiceOnly(Tail(s), x)
  BY <1>1, <1>2 DEF TwiceOnly
<1>4. ASSUME NEW i \in 1 .. Len(s) - 1, Head(s) = Tail(s)[i] PROVE Head(s) = x
  <2>1. s[1] = s[i + 1]
    BY <1>1, <1>4
  <2> QED BY <1>1, <1>2, <2>1 DEF TwiceOnly
<1> QED BY <1>1, <1>3, <1>4 DEF Rows

LEMMA OnceJoined ==
    ASSUME NEW s \in Seq(Item), NEW t \in Seq(Item), Distinct(t), Rows(s) \cap Rows(t) = {}
    PROVE  /\ \A x : TwiceOnly(s, x) => TwiceOnly(s \o t, x)
           /\ NoThird(s) => NoThird(s \o t)
           /\ Distinct(s) => Distinct(s \o t)
<1> DEFINE u == s \o t
           M == Len(s)
           N == Len(t)
<1>1. /\ M \in Nat /\ N \in Nat /\ Len(u) = M + N
      /\ \A i \in 1 .. M : u[i] = s[i]
      /\ \A i \in 1 .. M + N : ~(i \in 1 .. M) => i - M \in 1 .. N /\ u[i] = t[i - M]
  <2>1. /\ Len(s) \in Nat /\ Len(t) \in Nat /\ Len(s \o t) = Len(s) + Len(t)
        /\ \A i \in 1 .. Len(s) + Len(t) : (s \o t)[i] = IF i <= Len(s) THEN s[i] ELSE t[i - Len(s)]
    BY Joined
  <2> QED BY <2>1
<1>2. \A i \in 1 .. M, j \in 1 .. N : s[i] # t[j]
  BY DEF Rows
<1> HIDE DEF u, M, N
<1>3. \A i, j \in 1 .. M + N : i < j /\ u[i] = u[j] => i \in 1 .. M /\ j \in 1 .. M
  <2> SUFFICES ASSUME NEW i \in 1 .. M + N, NEW j \in 1 .. M + N, i < j, u[i] = u[j], j \notin 1 .. M
               PROVE  FALSE
    BY <1>1
  <2>1. j - M \in 1 .. N /\ u[j] = t[j - M]
    BY <1>1
  <2>2. CASE i \in 1 .. M
    BY <1>1, <1>2, <2>1, <2>2
  <2>3. CASE i \notin 1 .. M
    <3>1. i - M \in 1 .. N /\ u[i] = t[i - M] /\ i - M # j - M
      BY <1>1, <2>3
    <3> QED BY <2>1, <3>1 DEF Distinct, N
  <2> QED BY <2>2, <2>3
<1>4. \A i, j \in 1 .. M + N : i # j /\ u[i] = u[j] => i \in 1 .. M /\ j \in 1 .. M /\ u[i] = s[i] /\ u[j] = s[j]
  <2> SUFFICES ASSUME NEW i \in 1 .. M + N, NEW j \in 1 .. M + N, i # j, u[i] = u[j]
               PROVE  i \in 1 .. M /\ j \in 1 .. M
    BY <1>1
  <2>1. i < j \/ j < i
    BY <1>1
  <2> QED BY <1>3, <2>1
<1>5. ASSUME NEW x, TwiceOnly(s, x) PROVE TwiceOnly(u, x)
  BY <1>1, <1>4, <1>5 DEF TwiceOnly, M
<1>6. Distinct(s) => Distinct(u)
  BY <1>1, <1>4 DEF Distinct, M
<1>7. ASSUME NoThird(s) PROVE NoThird(u)
  <2> SUFFICES ASSUME NEW i \in 1 .. M + N, NEW j \in 1 .. M + N, NEW k \in 1 .. M + N,
                      i < j, j < k, u[i] = u[j], u[k] = u[i]
               PROVE  FALSE
    BY <1>1 DEF NoThird
  <2>1. j # k /\ i # j
    BY <1>1
  <2>2. /\ i \in 1 .. M /\ j \in 1 .. M /\ k \in 1 .. M
        /\ u[i] = s[i] /\ u[j] = s[j] /\ u[k] = s[k]
    BY <1>4, <2>1
  <2> QED BY <1>7, <2>2 DEF NoThird, M
<1> QED BY <1>5, <1>6, <1>7 DEF u

-----------------------------------------------------------------------------
(* What a connection has shown and what is on its way to it *)

Buffer == [parts : Seq(Item), finished : BOOLEAN, expires : BOOLEAN, exists : BOOLEAN]

ChannelType ==
    /\ out \in Seq(Item) /\ inbox \in Seq(Item) /\ posted \in Seq(Item)
    /\ buffer \in Buffer
    /\ unpublished \in 0 .. logged /\ overlap \in 0 .. logged
    /\ parted \in Nat
    /\ kind \in Kind
    /\ limit \in Nat

\* What is stored of the run, as items.
LEMMA StoredItems ==
    ASSUME PipelineInv, ChannelType
    PROVE  /\ StoredRows \subseteq 1 .. logged /\ logged \in Nat
           /\ StoredLogs \in Seq(Item) /\ Distinct(StoredLogs)
           /\ Rows(StoredLogs) = LogsFrom(StoredRows)
           /\ UnseenLogs \in Seq(Item) /\ Distinct(UnseenLogs)
           /\ Rows(UnseenLogs) \subseteq LogsFrom(StoredRows)
           /\ Rows(out) \cap Rows(UnseenLogs) = {}
           /\ LogsFrom(StoredRows) \subseteq Rows(out) \cup Rows(UnseenLogs)
<1>1. logged \in Nat
  BY DEF PipelineInv, PipelineTypeOK
<1>2. Rows(table) \subseteq 1 .. logged
  BY PipelineInvImplies DEF NothingLost
<1>3. StoredRows \in SUBSET (1 .. logged)
  BY <1>2 DEF StoredRows
<1> DEFINE unseen == {n \in StoredRows : Log(n) \notin Rows(out)}
<1>4. unseen \in SUBSET (1 .. logged)
  BY <1>3
<1>5. UnseenLogs = LogsOf(unseen) /\ StoredLogs = LogsOf(StoredRows)
  BY DEF UnseenLogs, StoredLogs
<1>6. LogsFrom(unseen) \subseteq LogsFrom(StoredRows) /\ Rows(out) \cap LogsFrom(unseen) = {}
  BY DEF LogsFrom
<1>7. LogsFrom(StoredRows) \subseteq Rows(out) \cup LogsFrom(unseen)
  BY DEF LogsFrom
<1> HIDE DEF unseen
<1> QED BY <1>1, <1>3, <1>4, <1>5, <1>6, <1>7, LogsOfRows

\* A row is read unless as many older ones are stored as a read returns.
LEMMA OldestRead ==
    ASSUME PipelineInv, ChannelType, NEW n \in Rows(table), n # marker, n <= limit
    PROVE  n \in StoredRows
<1> DEFINE older == {m \in Rows(table) \ {marker} : m <= n}
<1>1. logged \in Nat /\ limit \in Nat /\ Rows(table) \subseteq 1 .. logged
  BY PipelineInvImplies DEF PipelineInv, PipelineTypeOK, NothingLost, ChannelType
<1>2. n \in Nat /\ older \subseteq 1 .. n
  BY <1>1
<1>3. IsFiniteSet(1 .. n) /\ Cardinality(1 .. n) = n
  BY <1>2, FS_Interval
<1>4. Cardinality(older) <= n /\ Cardinality(older) \in Nat
  BY <1>2, <1>3, FS_Subset, FS_CardinalityType
<1> QED BY <1>1, <1>2, <1>4 DEF StoredRows

\* The client changes neither streams nor limits.
LEMMA KindStays == [Next]_vars => kind' = kind /\ limit' = limit
<1> QED BY DEF Next, Thread, StatusWriter, Connection, LogRow, PublishRow, PublishPart, PublishFinish,
        Park, WriteStatus, EnqueueMarker, PublishStatus, Settle, FlushRows, Deliver, Open, StartLogs,
        StartParts, Subscribe, Receive, PollParts, PollLogs, Drain, SayDone, Lose, ExpireBuffer,
        client, vars

LEMMA ItemsTyped ==
    /\ Finish \in Item /\ State \in Item
    /\ \A n \in Nat : Log(n) \in Item /\ Part(n) \in Item
    /\ \A n \in Nat : Log(n) # State /\ Log(n) # Finish /\ Log(n) # Part(n) /\ Part(n) # Finish
    /\ \A m, n : (Log(m) = Log(n) => m = n) /\ (Part(m) = Part(n) => m = n) /\ Part(m) # Log(n)
    /\ \A n : Part(n).n = n /\ Part(n).type = "part" /\ Log(n).type = "log"
    /\ Finish.type = "finish" /\ Finish # State /\ State.type = "status"
<1>1. \A m, n : (Log(m) = Log(n) => m = n) /\ (Part(m) = Part(n) => m = n) /\ Part(m) # Log(n)
  <2>1. \A m : Log(m).n = m /\ Part(m).n = m /\ Log(m).type = "log" /\ Part(m).type = "part"
    BY DEF Log, Part
  <2> QED BY <2>1
<1>2. \A n \in Nat : Log(n) # State /\ Log(n) # Finish /\ Log(n) # Part(n) /\ Part(n) # Finish
  BY DEF Log, Part, Finish, State
<1>3. /\ Finish \in Item /\ State \in Item
      /\ \A n \in Nat : Log(n) \in Item /\ Part(n) \in Item
  BY DEF Log, Part, Finish, State, Item
<1>4. \A n : Part(n).n = n /\ Part(n).type = "part" /\ Log(n).type = "log"
  BY DEF Log, Part
<1>5. Finish.type = "finish" /\ Finish # State /\ State.type = "status"
  BY DEF Finish, State
<1> QED BY <1>1, <1>2, <1>3, <1>4, <1>5

LEMMA Posted ==
    ASSUME ChannelType, NEW k, NEW x \in Item, Post(k, x)
    PROVE  posted' \in Seq(Item)
<1> QED BY Appended DEF Post, ChannelType

LEMMA Unsubscribed ==
    ASSUME ChannelType, Unsubscribe
    PROVE  inbox' = <<>> /\ posted' = <<>> /\ ~subscribed' /\ buffer' \in Buffer /\ buffer'.parts = buffer.parts
             /\ buffer'.finished = buffer.finished
<1> QED BY DEF ChannelType, Unsubscribe, Buffer

LEMMA ChannelTyped ==
    ASSUME StreamsInv, ChannelType, [Next]_vars
    PROVE  ChannelType'
<1>0. /\ logged \in Nat /\ logged' \in Nat /\ logged <= logged'
      /\ unpublished \in 0 .. logged' /\ overlap \in 0 .. logged' /\ kind \in Kind
      /\ limit' \in Nat
  <2>1. logged \in Nat /\ logged' \in Nat /\ logged <= logged'
    BY NextIsPipelineNext, TableGrows DEF StreamsInv
  <2> QED BY <2>1, KindStays DEF ChannelType
<1> PipelineInv
  BY DEF StreamsInv
<1>1. CASE UNCHANGED <<out, inbox, posted, buffer, unpublished, overlap, parted, kind>>
  BY <1>0, <1>1 DEF ChannelType
<1>2. CASE StatusWriter
  <2>1. (\E s \in Terminal : WriteStatus(s)) \/ EnqueueMarker \/ Settle
          => UNCHANGED <<out, inbox, posted, buffer, unpublished, overlap, parted, kind>>
    BY DEF WriteStatus, EnqueueMarker, Settle, publishing, channel, connection, client
  <2>2. CASE PublishStatus
    <3>1. posted' \in Seq(Item)
      BY <2>2, ItemsTyped, Posted DEF PublishStatus, Publish
    <3> QED BY <1>0, <2>2, <3>1
         DEF PublishStatus, Publish, publishing, connection, client, ChannelType
  <2> QED BY <1>1, <1>2, <2>1, <2>2 DEF StatusWriter
<1>3. CASE FlushRows \/ PollLogs \/ UNCHANGED vars
  <2>1. UNCHANGED <<out, unpublished, overlap, parted, kind>>
    BY <1>3 DEF FlushRows, PollLogs, publishing, connection, client, vars
  <2>2. inbox' \in Seq(Item) /\ posted' \in Seq(Item) /\ buffer' \in Buffer
    BY <1>3, Unsubscribed, EmptyIsOnce DEF FlushRows, PollLogs, channel, vars, ChannelType
  <2> QED BY <1>0, <2>1, <2>2 DEF ChannelType
<1>4. CASE LogRow
  <2>1. logged' = logged + 1 /\ unpublished' \in {0, logged + 1}
    BY <1>4 DEF LogRow, Enqueue
  <2> QED BY <1>0, <1>4, <2>1 DEF LogRow, channel, connection, client, ChannelType
<1>5. CASE PublishRow
  <2>1. posted' \in Seq(Item)
    BY <1>0, <1>5, ItemsTyped, Posted DEF PublishRow, Publish, ChannelType
  <2> QED BY <1>0, <1>5, <2>1 DEF PublishRow, Publish, connection, client, ChannelType
<1>6. CASE PublishPart \/ PublishFinish \/ Park
  <2>1. PICK x \in Item : PublishToBuffer(x)
    BY <1>6, ItemsTyped DEF PublishPart, PublishFinish, Park, ChannelType
  <2>2. posted' \in Seq(Item) /\ UNCHANGED <<subscribed, inbox>>
    BY <2>1, Posted DEF PublishToBuffer
  <2>3. Append(buffer.parts, x) \in Seq(Item) /\ buffer \in Buffer
    BY <2>1, Appended DEF ChannelType, Buffer
  <2>4. buffer' \in Buffer
    BY <2>1, <2>3 DEF PublishToBuffer, Buffer
  <2>5. parted' \in Nat /\ UNCHANGED <<out, unpublished, overlap, kind>>
    BY <1>6 DEF PublishPart, PublishFinish, Park, ChannelType, connection, client
  <2> QED BY <1>0, <2>2, <2>4, <2>5 DEF ChannelType
<1>7. CASE Deliver
  <2>1. inbox' \in Seq(Item) /\ posted' \in Seq(Item)
    BY <1>7, Shortened, Appended DEF Deliver, ChannelType
  <2> QED BY <1>0, <1>7, <2>1 DEF Deliver, publishing, connection, client, ChannelType
<1>8. CASE ExpireBuffer
  <2>1. buffer' \in Buffer
    BY <1>8, EmptyIsOnce DEF ExpireBuffer, NoBuffer, Buffer
  <2> QED BY <1>0, <1>8, <2>1 DEF ExpireBuffer, publishing, connection, client, ChannelType
<1>9. CASE Open
  BY <1>0, <1>9, EmptyIsOnce DEF Open, publishing, channel, client, ChannelType
<1>10. CASE StartLogs \/ StartParts
  <2>1. out' \in Seq(Item)
    <3>1. StoredLogs \in Seq(Item) /\ buffer.parts \in Seq(Item) /\ Finish \in Item
      BY StoredItems, ItemsTyped DEF ChannelType, Buffer
    <3>2. Append(StoredLogs, Finish) \in Seq(Item) /\ buffer.parts \o StoredLogs \in Seq(Item)
      BY <3>1, Appended, Joined
    <3>3. out' \in {StoredLogs, Append(StoredLogs, Finish), buffer.parts, buffer.parts \o StoredLogs}
      BY <1>10 DEF StartLogs, StartParts, Replay
    <3> QED BY <3>1, <3>2, <3>3
  <2> QED BY <1>0, <1>10, <2>1 DEF StartLogs, StartParts, publishing, channel, client, ChannelType
<1>11. CASE Subscribe
  <2>1. buffer' \in Buffer
    BY <1>11 DEF Subscribe, ChannelType, Buffer
  <2> QED BY <1>0, <1>11, <2>1 DEF Subscribe, publishing, client, ChannelType
<1>12. CASE Receive
  <2>1. Head(inbox) \in Item /\ Tail(inbox) \in Seq(Item)
    BY <1>12, Shortened DEF Receive, ChannelType
  <2>2. out' \in Seq(Item)
    BY <1>12, <2>1, Appended DEF Receive, ChannelType
  <2>3. inbox' \in Seq(Item) /\ posted' \in Seq(Item) /\ buffer' \in Buffer
    BY <1>12, <2>1, Unsubscribed, EmptyIsOnce DEF Receive, ChannelType
  <2> QED BY <1>0, <1>12, <2>2, <2>3 DEF Receive, publishing, client, ChannelType
<1>13. CASE PollParts
  <2>1. UnseenLogs \in Seq(Item) /\ out \o UnseenLogs \in Seq(Item)
    BY StoredItems, Joined DEF ChannelType
  <2>2. FinishOfRow \in Seq(Item)
    BY ItemsTyped, EmptyIsOnce, Appended DEF FinishOfRow
  <2>3. (out \o UnseenLogs) \o FinishOfRow \in Seq(Item)
    BY <2>1, <2>2, Joined
  <2>4. out' \in Seq(Item)
    BY <1>13, <2>1, <2>3 DEF PollParts
  <2>5. inbox' \in Seq(Item) /\ posted' \in Seq(Item) /\ buffer' \in Buffer
    BY <1>13, Unsubscribed, EmptyIsOnce DEF PollParts, channel, ChannelType
  <2> QED BY <1>0, <1>13, <2>4, <2>5 DEF PollParts, publishing, client, ChannelType
<1>14. CASE Drain \/ SayDone
  <2>1. out \o UnseenLogs \in Seq(Item)
    BY StoredItems, Joined DEF ChannelType
  <2> QED BY <1>0, <1>14, <2>1 DEF Drain, SayDone, publishing, channel, client, ChannelType
<1>15. CASE Lose
  <2>1. inbox' \in Seq(Item) /\ posted' \in Seq(Item) /\ buffer' \in Buffer
    BY <1>15, Unsubscribed, EmptyIsOnce DEF Lose, channel, ChannelType
  <2> QED BY <1>0, <1>15, <2>1 DEF Lose, publishing, client, ChannelType
<1> QED BY <1>2, <1>3, <1>4, <1>5, <1>6, <1>7, <1>8, <1>9, <1>10, <1>11, <1>12, <1>13, <1>14,
   <1>15 DEF Next, Thread, Connection

\* The client's queue is registered while the endpoint waits for items; what has not
\* been received by then is gone.
ChannelInv ==
    /\ subscribed => at = "live"
    /\ at # "live" => inbox = <<>> /\ posted = <<>>
    /\ kind = "logs" /\ at \in {"away", "opening", "subscribing"} => overlap = 0
    /\ kind = "logs" /\ at \in {"away", "opening"} => out = <<>>

LEMMA ChannelStep ==
    ASSUME ChannelType, ChannelInv, [Next]_vars
    PROVE  ChannelInv'
<1>1. CASE UNCHANGED <<at, subscribed, inbox, posted, overlap, out, kind>>
  BY <1>1 DEF ChannelInv
<1>2. CASE PublishRow \/ PublishStatus
  BY <1>2 DEF PublishRow, PublishStatus, Publish, Post, connection, client, ChannelInv
<1>3. CASE PublishPart \/ PublishFinish \/ Park
  <2>1. PICK x : PublishToBuffer(x)
    BY <1>3 DEF PublishPart, PublishFinish, Park
  <2>2. UNCHANGED <<connection, client>>
    BY <1>3 DEF PublishPart, PublishFinish, Park
  <2> QED BY <2>1, <2>2 DEF PublishToBuffer, Post, connection, client, ChannelInv
<1>4. CASE Deliver
  BY <1>4 DEF Deliver, connection, client, ChannelInv
<1>5. CASE Open \/ StartLogs
  BY <1>5 DEF Open, StartLogs, Leave, channel, client, ChannelInv
<1>6. CASE StartParts \/ Subscribe
  BY <1>6 DEF StartParts, Subscribe, channel, client, ChannelInv
<1>7. CASE Receive
  <2>1. at = "live" /\ UNCHANGED <<overlap, client>>
    BY <1>7 DEF Receive
  <2>2. CASE UNCHANGED <<at, waited, buffer, subscribed, posted>>
    BY <2>1, <2>2 DEF ChannelInv, client
  <2>3. CASE EndLive /\ Unsubscribe
    <3>1. at' \in {"draining", "final", "closed"} /\ inbox' = <<>> /\ posted' = <<>> /\ ~subscribed'
      BY <2>3, Unsubscribed DEF EndLive, Leave
    <3> QED BY <3>1 DEF ChannelInv
  <2> QED BY <1>7, <2>2, <2>3 DEF Receive
<1>8. CASE PollParts \/ PollLogs
  <2>1. at = "live" /\ UNCHANGED <<overlap, client>>
    BY <1>8 DEF PollParts, PollLogs
  <2>2. CASE UNCHANGED <<at, waited, channel>>
    BY <2>1, <2>2 DEF ChannelInv, client, channel
  <2>3. CASE EndLive /\ Unsubscribe
    <3>1. at' \in {"draining", "final", "closed"} /\ inbox' = <<>> /\ posted' = <<>> /\ ~subscribed'
      BY <2>3, Unsubscribed DEF EndLive, Leave
    <3> QED BY <3>1 DEF ChannelInv
  <2> QED BY <1>8, <2>2, <2>3 DEF PollParts, PollLogs
<1>9. CASE Drain \/ SayDone
  BY <1>9 DEF Drain, SayDone, channel, client, ChannelInv
<1>10. CASE Lose
  <2>1. CASE at = "live"
    <3>1. at' = "away" /\ inbox' = <<>> /\ posted' = <<>> /\ ~subscribed' /\ kind' = "parts"
      BY <1>10, <2>1, Unsubscribed DEF Lose, client
    <3> QED BY <1>10, <3>1 DEF Lose, ChannelInv
  <2> QED BY <1>10, <2>1 DEF Lose, channel, client, ChannelInv
<1>11. LogRow \/ (\E s \in Terminal : WriteStatus(s)) \/ EnqueueMarker \/ Settle \/ FlushRows
       \/ ExpireBuffer \/ UNCHANGED vars
          => UNCHANGED <<at, subscribed, inbox, posted, overlap, out, kind>>
  BY DEF LogRow, WriteStatus, EnqueueMarker, Settle, FlushRows, ExpireBuffer, vars, channel,
         connection, client
<1> QED BY <1>1, <1>2, <1>3, <1>4, <1>5, <1>6, <1>7, <1>8, <1>9, <1>10, <1>11
        DEF Next, Thread, StatusWriter, Connection

-----------------------------------------------------------------------------
(* A log stream shows each row once *)

\* On its way to the client.
Coming == Rows(inbox) \cup Rows(posted)

\* The rows a log stream shows and is sent: each once, but for the one in between when
\* it subscribed; and what is not published yet is not among them, but for that one.
LogsInv ==
    /\ Rows(out) \subseteq LogsFrom(1 .. logged)
    /\ Coming \subseteq LogsFrom(1 .. logged \ {unpublished}) \cup {State}
    /\ TwiceOnly(inbox, State) /\ TwiceOnly(posted, State) /\ BothOnly(inbox, posted, State)
    /\ BothOnly(out, inbox, Log(overlap)) /\ BothOnly(out, posted, Log(overlap))
    /\ TwiceOnly(out, Log(overlap)) /\ NoThird(out)
    /\ Log(overlap) \in Coming \/ (at = "live" /\ unpublished = overlap) => Distinct(out)
    /\ at = "live" /\ Log(unpublished) \in Rows(out) => unpublished = overlap

\* It holds next, with each clause said of the next values.
LEMMA LogsInvNext ==
    ASSUME Rows(out') \subseteq LogsFrom(1 .. logged'),
           Rows(inbox') \cup Rows(posted') \subseteq LogsFrom((1 .. logged') \ {unpublished'}) \cup {State},
           TwiceOnly(inbox', State), TwiceOnly(posted', State), BothOnly(inbox', posted', State),
           BothOnly(out', inbox', Log(overlap')), BothOnly(out', posted', Log(overlap')),
           TwiceOnly(out', Log(overlap')), NoThird(out'),
           Log(overlap') \in Rows(inbox') \cup Rows(posted') \/ (at' = "live" /\ unpublished' = overlap')
                => Distinct(out'),
           at' = "live" /\ Log(unpublished') \in Rows(out') => unpublished' = overlap'
    PROVE  LogsInv'
<1>1. (Rows(out) \subseteq LogsFrom(1 .. logged))'
  BY DEF LogsFrom, Log, Rows
<1>2. (Coming \subseteq LogsFrom(1 .. logged \ {unpublished}) \cup {State})'
  BY DEF LogsFrom, Log, Rows, Coming, State
<1>3. (TwiceOnly(inbox, State) /\ TwiceOnly(posted, State) /\ BothOnly(inbox, posted, State))'
  BY DEF TwiceOnly, BothOnly, Rows, State
<1>4. (BothOnly(out, inbox, Log(overlap)) /\ BothOnly(out, posted, Log(overlap)))'
  BY DEF BothOnly, Rows, Log
<1>5. (TwiceOnly(out, Log(overlap)) /\ NoThird(out))'
  BY DEF TwiceOnly, NoThird, Log
<1>6. (Log(overlap) \in Coming \/ (at = "live" /\ unpublished = overlap) => Distinct(out))'
  BY DEF Coming, Distinct, Rows, Log
<1>7. (at = "live" /\ Log(unpublished) \in Rows(out) => unpublished = overlap)'
  BY DEF Rows, Log
<1> QED BY <1>1, <1>2, <1>3, <1>4, <1>5, <1>6, <1>7 DEF LogsInv

LEMMA LogRowOnce ==
    ASSUME ChannelType, LogsInv, logged \in Nat, logged' = logged + 1,
           unpublished' \in {unpublished, logged + 1},
           UNCHANGED <<at, out, inbox, posted, overlap>>
    PROVE  LogsInv'
<1>1. /\ \A n \in 1 .. logged : n \in 1 .. logged' /\ n # logged + 1
      /\ overlap # logged + 1
  BY DEF ChannelType
<1>2. Rows(out)' \subseteq LogsFrom(1 .. logged)'
  BY <1>1 DEF LogsInv, LogsFrom, Log
<1>3. Coming' \subseteq (LogsFrom(1 .. logged \ {unpublished}) \cup {State})'
  BY <1>1 DEF LogsInv, LogsFrom, Log, Coming, State, Rows
<1>4. Log(logged + 1) \notin Rows(out)
  BY <1>1, ItemsTyped DEF LogsInv, LogsFrom
<1>6. (Log(overlap) \in Coming \/ (at = "live" /\ unpublished = overlap) => Distinct(out))'
  BY <1>1 DEF LogsInv, Coming, Distinct, Log, Rows
<1>7. (at = "live" /\ Log(unpublished) \in Rows(out) => unpublished = overlap)'
  BY <1>4 DEF LogsInv, Rows, Log
<1>8. /\ TwiceOnly(inbox', State) /\ TwiceOnly(posted', State) /\ BothOnly(inbox', posted', State)
      /\ BothOnly(out', inbox', Log(overlap')) /\ BothOnly(out', posted', Log(overlap'))
      /\ TwiceOnly(out', Log(overlap')) /\ NoThird(out')
  BY DEF LogsInv
<1>9. State' = State /\ Log(overlap)' = Log(overlap')
  BY DEF State, Log
<1> QED BY <1>2, <1>3, <1>6, <1>7, <1>8, <1>9 DEF LogsInv, TwiceOnly, BothOnly, NoThird, Rows

\* An item is published: a status, or the row that had not been.
LEMMA PublishedOnce ==
    ASSUME ChannelType, ChannelInv, LogsInv, logged \in Nat, NEW x, Post("logs", x),
           \/ x = State /\ unpublished' = unpublished
           \/ x = Log(unpublished) /\ unpublished # 0 /\ unpublished' = 0,
           UNCHANGED <<at, out, inbox, overlap, logged>>
    PROVE  LogsInv'
<1>1. unpublished \in Nat /\ x \in Item /\ \A n \in 1 .. logged : n \in Nat /\ n # 0
  BY ItemsTyped DEF ChannelType
<1>2. Rows(out) \subseteq LogsFrom(1 .. logged)
  BY DEF LogsInv
<1>3. \A y \in Rows(out) : y # Log(0) /\ y # State
  BY <1>1, <1>2, ItemsTyped DEF LogsFrom
<1>4. (at = "live" /\ Log(unpublished) \in Rows(out) => unpublished = overlap)'
  BY <1>3 DEF LogsInv, Log, Rows
<1>5. CASE posted' = posted
  <2>1. Coming' = Coming
    BY <1>5 DEF Coming
  <2>2. Coming \subseteq LogsFrom((1 .. logged) \ {unpublished'}) \cup {State}
    <3>1. (1 .. logged) \ {unpublished} \subseteq (1 .. logged) \ {unpublished'}
      BY <1>1
    <3> QED BY <3>1 DEF LogsInv, LogsFrom
  <2>3. at = "live" /\ unpublished' = overlap => Distinct(out)
    <3>1. CASE unpublished' = unpublished
      BY <3>1 DEF LogsInv
    <3>2. CASE overlap = 0
      BY <1>3, <3>2 DEF LogsInv, TwiceOnly, Distinct, Rows
    <3> QED BY <3>1, <3>2
  <2> QED BY <1>4, <1>5, <2>1, <2>2, <2>3
       DEF LogsInv, LogsFrom, TwiceOnly, BothOnly, NoThird, Distinct, Rows, State, Log
<1>6. CASE posted' = Append(posted, x) /\ at = "live"
  <2>1. Rows(posted') = Rows(posted) \cup {x} /\ Coming' = Coming \cup {x}
    BY <1>1, <1>6, Appended DEF ChannelType, Coming, Rows
  <2>2. x \in Coming => x = State
    BY <1>1, ItemsTyped DEF LogsInv, LogsFrom
  <2>3. x \in Rows(out) => x = Log(overlap)
    BY <1>3, <1>6 DEF LogsInv
  <2>4. Coming' \subseteq LogsFrom((1 .. logged) \ {unpublished'}) \cup {State}
    <3>1. (1 .. logged) \ {unpublished} \subseteq (1 .. logged) \ {unpublished'}
      BY <1>1
    <3>2. x \in LogsFrom((1 .. logged) \ {unpublished'}) \cup {State}
      BY <1>1 DEF LogsFrom, ChannelType
    <3> QED BY <2>1, <3>1, <3>2 DEF LogsInv, LogsFrom
  <2>5. TwiceOnly(posted', State)
    BY <1>1, <1>6, <2>2, OnceAppended DEF LogsInv, Coming, ChannelType
  <2>6. BothOnly(inbox, posted', State) /\ BothOnly(out, posted', Log(overlap))
    BY <2>1, <2>2, <2>3 DEF LogsInv, BothOnly, Coming
  <2>7. Log(overlap) \in Coming' \/ unpublished' = overlap => Distinct(out)
    <3>1. CASE Log(overlap) \in Coming \/ unpublished = overlap
      BY <1>6, <3>1 DEF LogsInv
    <3>2. CASE overlap = 0
      BY <1>3, <3>2 DEF LogsInv, TwiceOnly, Distinct, Rows
    <3>3. x = Log(overlap) => unpublished = overlap
      BY <1>1, ItemsTyped DEF ChannelType
    <3> QED BY <2>1, <3>1, <3>2, <3>3
  <2> QED BY <1>4, <2>1, <2>4, <2>5, <2>6, <2>7
       DEF LogsInv, LogsFrom, TwiceOnly, BothOnly, NoThird, Distinct, Rows, State, Log, Coming
<1>7. posted' = posted \/ (posted' = Append(posted, x) /\ at = "live")
  BY DEF Post, ChannelInv
<1> QED BY <1>5, <1>6, <1>7

LEMMA DeliveredOnce ==
    ASSUME ChannelType, LogsInv, Deliver
    PROVE  LogsInv'
<1> DEFINE h == Head(posted)
<1>1. /\ posted # <<>> /\ posted \in Seq(Item) /\ inbox \in Seq(Item)
      /\ posted' = Tail(posted) /\ inbox' \in {inbox, Append(inbox, h)}
  BY DEF Deliver, ChannelType
<1>2. /\ h \in Item /\ h \in Rows(posted) /\ Rows(posted') \subseteq Rows(posted)
      /\ Rows(inbox') \subseteq Rows(inbox) \cup {h}
  <2>1. h \in Item /\ h \in Rows(posted) /\ Rows(posted') \subseteq Rows(posted)
    BY <1>1, Shortened
  <2> HIDE DEF h
  <2> QED BY <1>1, <2>1, Appended
<1>3. TwiceOnly(posted', State) /\ (h \in Rows(posted') => h = State)
  BY <1>1, OnceShortened DEF LogsInv
<1>4. h \in Rows(inbox) => h = State
  BY <1>2 DEF LogsInv, BothOnly
<1> HIDE DEF h
<1>5. TwiceOnly(inbox', State)
  BY <1>1, <1>2, <1>4, OnceAppended DEF LogsInv
<1>6. /\ BothOnly(inbox', posted', State)
      /\ BothOnly(out, inbox', Log(overlap)) /\ BothOnly(out, posted', Log(overlap))
  BY <1>2, <1>3 DEF LogsInv, BothOnly
<1>7. Rows(inbox') \cup Rows(posted') \subseteq Coming
  BY <1>2 DEF Coming
<1>8. UNCHANGED <<logged, unpublished, at, out, overlap>>
  BY DEF Deliver, pipeline, publishing, connection
<1> QED BY <1>3, <1>5, <1>6, <1>7, <1>8, LogsInvNext DEF LogsInv

\* With nothing on its way, what is shown matters only.
LEMMA ShownOnce ==
    ASSUME logged' \in Nat, inbox' = <<>>, posted' = <<>>,
           Rows(out') \subseteq LogsFrom(1 .. logged'), NoThird(out'), TwiceOnly(out', Log(overlap')),
           at' = "live" => unpublished' = overlap' /\ Distinct(out')
    PROVE  LogsInv'
<1>1. /\ Rows(inbox') = {} /\ Rows(posted') = {}
      /\ TwiceOnly(inbox', State) /\ TwiceOnly(posted', State)
  BY EmptyIsOnce
<1>2. /\ BothOnly(inbox', posted', State)
      /\ BothOnly(out', inbox', Log(overlap')) /\ BothOnly(out', posted', Log(overlap'))
  BY <1>1 DEF BothOnly
<1> QED BY <1>1, <1>2, LogsInvNext

\* Row 0 is no row.
LEMMA NoRowZero ==
    ASSUME ChannelType, LogsInv, logged \in Nat
    PROVE  /\ Log(0) \notin Rows(out)
           /\ overlap = 0 => Distinct(out)
<1>1. Log(0) \notin Rows(out)
  BY ItemsTyped DEF LogsInv, LogsFrom
<1> QED BY <1>1 DEF LogsInv, TwiceOnly, Distinct, Rows

LEMMA ReceivedOnce ==
    ASSUME ChannelType, LogsInv, logged \in Nat, kind = "logs", Receive
    PROVE  LogsInv'
<1> DEFINE h == Head(inbox)
<1>1. /\ inbox # <<>> /\ inbox \in Seq(Item) /\ out \in Seq(Item) /\ at = "live"
      /\ UNCHANGED <<logged, unpublished, overlap>>
      /\ Final[kind] = State
  BY DEF Receive, ChannelType, pipeline, publishing, Final
<1>2. /\ h \in Item /\ h \in Rows(inbox) /\ Rows(Tail(inbox)) \subseteq Rows(inbox)
  BY <1>1, Shortened
<1>3. CASE h = State
  <2>1. out' = out /\ EndLive /\ Unsubscribe
    BY <1>1, <1>3 DEF Receive
  <2>2. inbox' = <<>> /\ posted' = <<>> /\ at' # "live"
    BY <2>1, Unsubscribed DEF EndLive, Leave
  <2>3. Log(overlap') = Log(overlap) /\ LogsFrom(1 .. logged') = LogsFrom(1 .. logged)
    BY <1>1
  <2> QED BY <1>1, <2>1, <2>2, <2>3, ShownOnce DEF LogsInv
<1>4. CASE h # State
  <2>1. out' = Append(out, h) /\ inbox' = Tail(inbox) /\ UNCHANGED <<at, posted>>
    BY <1>1, <1>4 DEF Receive
  <2>2. TwiceOnly(Tail(inbox), State) /\ h \notin Rows(Tail(inbox)) /\ h \notin Rows(posted)
    BY <1>1, <1>2, <1>4, OnceShortened DEF LogsInv, BothOnly
  <2>3. h \in LogsFrom(1 .. logged \ {unpublished})
    BY <1>2, <1>4 DEF LogsInv, Coming
  <2>4. h \in LogsFrom(1 .. logged) /\ h # Log(unpublished)
    BY <2>3, ItemsTyped DEF LogsFrom
  <2>5. h \in Rows(out) => h = Log(overlap)
    BY <1>2 DEF LogsInv, BothOnly
  <2>6. Rows(Append(out, h)) = Rows(out) \cup {h}
    BY <1>1, <1>2, Appended
  <2> HIDE DEF h
  <2>7. TwiceOnly(Append(out, h), Log(overlap))
    BY <1>1, <1>2, <2>5, OnceAppended DEF LogsInv
  <2>8. NoThird(Append(out, h))
    <3>1. h \in Rows(out) => Distinct(out)
      BY <1>2, <2>5 DEF LogsInv, Coming
    <3> QED BY <1>1, <1>2, <3>1, OnceAppended DEF LogsInv
  <2>9. Rows(Tail(inbox)) \cup Rows(posted) \subseteq Coming
    BY <1>2 DEF Coming
  <2>10. Log(overlap) \in Rows(Tail(inbox)) \cup Rows(posted) \/ unpublished = overlap
            => Distinct(Append(out, h))
    <3> SUFFICES ASSUME Log(overlap) \in Rows(Tail(inbox)) \cup Rows(posted) \/ unpublished = overlap
                 PROVE  Distinct(Append(out, h))
      OBVIOUS
    <3>1. Distinct(out)
      BY <1>1, <2>9 DEF LogsInv
    <3>2. h # Log(overlap)
      BY <2>2, <2>4
    <3> QED BY <1>1, <1>2, <2>5, <3>1, <3>2, OnceAppended
  <2>11. Log(unpublished) \in Rows(Append(out, h)) => unpublished = overlap
    BY <1>1, <2>4, <2>6 DEF LogsInv
  <2>12. /\ BothOnly(Tail(inbox), posted, State)
         /\ BothOnly(Append(out, h), Tail(inbox), Log(overlap))
         /\ BothOnly(Append(out, h), posted, Log(overlap))
    BY <1>2, <2>2, <2>6 DEF LogsInv, BothOnly
  <2>13. Rows(Append(out, h)) \subseteq LogsFrom(1 .. logged)
    BY <2>4, <2>6 DEF LogsInv
  <2> QED BY <1>1, <2>1, <2>2, <2>7, <2>8, <2>9, <2>10, <2>11, <2>12, <2>13, LogsInvNext DEF LogsInv
<1> QED BY <1>3, <1>4

LEMMA ConnectedOnce ==
    ASSUME StreamsInv, ChannelType, ChannelInv, LogsInv, kind = "logs",
           Open \/ StartLogs \/ Subscribe \/ PollLogs \/ Drain \/ SayDone
    PROVE  LogsInv'
<1>1. logged \in Nat /\ PipelineInv
  BY DEF StreamsInv, PipelineInv, PipelineTypeOK
<1>2. UNCHANGED <<logged, unpublished>>
  BY DEF Open, StartLogs, Subscribe, PollLogs, Drain, SayDone, pipeline, publishing
<1>3. inbox' = <<>> /\ posted' = <<>>
  BY Unsubscribed DEF Open, StartLogs, Subscribe, PollLogs, Drain, SayDone, channel, ChannelInv
<1>4. CASE Open
  <2>1. out' = <<>> /\ at' # "live"
    BY <1>4 DEF Open
  <2>2. Rows(out') = {} /\ NoThird(out') /\ TwiceOnly(out', Log(overlap'))
    BY <2>1, EmptyIsOnce, DistinctIsOnce
  <2> QED BY <1>1, <1>2, <1>3, <2>1, <2>2, ShownOnce
<1>5. CASE StartLogs
  <2>1. out' = StoredLogs /\ at' # "live"
    BY <1>5 DEF StartLogs, Replay, Leave
  <2>2. Rows(out') \subseteq LogsFrom(1 .. logged) /\ Distinct(out')
    BY <1>1, <2>1, StoredItems DEF LogsFrom
  <2>3. NoThird(out') /\ TwiceOnly(out', Log(overlap'))
    BY <2>2, DistinctIsOnce
  <2> QED BY <1>1, <1>2, <1>3, <2>1, <2>2, <2>3, ShownOnce
<1>6. CASE Subscribe
  <2>1. out' = out /\ overlap' = unpublished /\ overlap = 0
    BY <1>6 DEF Subscribe, ChannelInv
  <2>2. Distinct(out') /\ Rows(out') \subseteq LogsFrom(1 .. logged)
    BY <1>1, <2>1, NoRowZero DEF LogsInv
  <2>3. NoThird(out') /\ TwiceOnly(out', Log(overlap'))
    BY <2>2, DistinctIsOnce
  <2> QED BY <1>1, <1>2, <1>3, <2>1, <2>2, <2>3, ShownOnce
<1>7. CASE PollLogs \/ Drain \/ SayDone
  <2>1. at' # "live" /\ overlap' = overlap /\ out' \in {out, out \o UnseenLogs}
    BY <1>7 DEF PollLogs, Drain, SayDone, EndLive, Leave
  <2>2. CASE out' = out
    BY <1>1, <1>2, <1>3, <2>1, <2>2, ShownOnce DEF LogsInv
  <2>3. CASE out' = out \o UnseenLogs
    <3>1. /\ UnseenLogs \in Seq(Item) /\ Distinct(UnseenLogs) /\ out \in Seq(Item)
          /\ Rows(UnseenLogs) \subseteq LogsFrom(1 .. logged)
          /\ Rows(out) \cap Rows(UnseenLogs) = {}
      BY <1>1, StoredItems DEF LogsFrom, ChannelType
    <3>2. Rows(out') \subseteq LogsFrom(1 .. logged)
      BY <2>3, <3>1, Joined DEF LogsInv
    <3>3. NoThird(out') /\ TwiceOnly(out', Log(overlap'))
      BY <2>1, <2>3, <3>1, OnceJoined DEF LogsInv
    <3> QED BY <1>1, <1>2, <1>3, <2>1, <3>2, <3>3, ShownOnce
  <2> QED BY <2>1, <2>2, <2>3
<1> QED BY <1>4, <1>5, <1>6, <1>7

LEMMA LogsStep ==
    ASSUME StreamsInv, ChannelType, ChannelInv, LogsInv, kind = "logs", [Next]_vars
    PROVE  LogsInv'
<1>1. logged \in Nat
  BY DEF StreamsInv, PipelineInv, PipelineTypeOK
<1>2. CASE LogRow \/ EnqueueMarker
  <2>1. /\ logged' = logged + 1 /\ unpublished' \in {unpublished, logged + 1}
        /\ UNCHANGED <<at, out, inbox, posted, overlap>>
    BY <1>2 DEF LogRow, EnqueueMarker, Enqueue, publishing, channel, connection
  <2> QED BY <1>1, <2>1, LogRowOnce
<1>3. CASE PublishStatus
  BY <1>1, <1>3, PublishedOnce DEF PublishStatus, Publish, pipeline, publishing, connection
<1>4. CASE PublishRow
  BY <1>1, <1>4, PublishedOnce DEF PublishRow, Publish, pipeline, connection
<1>5. CASE UNCHANGED <<logged, unpublished, at, out, inbox, posted, overlap>>
  BY <1>5, LogsInvNext DEF LogsInv, Coming
<1>6. CASE Park
  BY <1>5, <1>6 DEF Park, PublishToBuffer, Post, pipeline, connection
<1>7. (\E s \in Terminal : WriteStatus(s)) \/ Settle \/ ExpireBuffer \/ UNCHANGED vars
          => UNCHANGED <<logged, unpublished, at, out, inbox, posted, overlap>>
  BY DEF WriteStatus, Settle, ExpireBuffer, vars, pipeline, publishing, channel, connection
<1>8. CASE FlushRows
  <2>1. logged' = logged
    BY <1>8 DEF FlushRows, Flush, TakeRow, WriteTaken, Peek, WriteFailed, ClearSpill, Written
  <2> QED BY <1>5, <1>8, <2>1 DEF FlushRows, publishing, channel, connection
<1>9. ~PublishPart /\ ~PublishFinish /\ ~StartParts /\ ~PollParts /\ ~Lose
  BY DEF PublishPart, PublishFinish, StartParts, PollParts, Lose
<1> QED BY <1>1, <1>2, <1>3, <1>4, <1>5, <1>6, <1>7, <1>8, <1>9, DeliveredOnce, ReceivedOnce,
        ConnectedOnce
        DEF Next, Thread, StatusWriter, Connection

\* What is shown, counted.
LEMMA Counted ==
    ASSUME out \in Seq(Item), NEW x
    PROVE  /\ (\A i, j \in 1 .. Len(out) : out[i] = x /\ out[j] = x => i = j) => Shown(x) <= 1
           /\ NoThird(out) => Shown(x) <= 2
<1> DEFINE at_x == {i \in 1 .. Len(out) : out[i] = x}
<1>1. Shown(x) = Cardinality(at_x)
  BY DEF Shown
<1>2. Len(out) \in Nat /\ IsFiniteSet({}) /\ Cardinality({}) = 0
  BY FS_EmptySet
<1>3. \A i : Cardinality({i}) = 1 /\ IsFiniteSet({i})
  BY FS_Singleton
<1>4. \A i, j : Cardinality({i, j}) <= 2
  <2> SUFFICES ASSUME NEW i, NEW j PROVE Cardinality({i, j}) <= 2
    OBVIOUS
  <2>1. CASE i = j
    <3>1. {i, j} = {i}
      BY <2>1
    <3>2. Cardinality({i, j}) = Cardinality({i})
      BY <3>1, Zenon
    <3>3. Cardinality({i, j}) = 1
      BY <1>3, <3>2, Zenon
    <3> QED BY <3>3
  <2>2. CASE i # j
    <3>1. {i, j} = {i} \cup {j} /\ j \notin {i}
      BY <2>2
    <3>2. Cardinality({i}) = 1 /\ IsFiniteSet({i})
      BY <1>3
    <3>3. Cardinality({i} \cup {j}) = Cardinality({i}) + 1
      BY <3>1, <3>2, FS_AddElement
    <3>4. Cardinality({i} \cup {j}) = 2
      BY <3>2, <3>3
    <3>5. Cardinality({i, j}) = Cardinality({i} \cup {j})
      BY <3>1, Zenon
    <3>6. Cardinality({i, j}) = 2
      BY <3>4, <3>5, Zenon
    <3> QED BY <3>6
  <2> QED BY <2>1, <2>2
<1>5. ASSUME \A i, j \in 1 .. Len(out) : out[i] = x /\ out[j] = x => i = j PROVE Shown(x) <= 1
  <2>1. \A i, j \in at_x : i = j
    BY <1>5
  <2> HIDE DEF at_x
  <2>2. CASE at_x = {}
    BY <1>1, <1>2, <2>2
  <2>3. CASE at_x # {}
    <3>1. PICK i : i \in at_x
      BY <2>3
    <3>2. at_x = {i}
      BY <2>1, <3>1
    <3>3. Cardinality({i}) = 1
      BY <1>3
    <3> QED BY <1>1, <3>2, <3>3
  <2> QED BY <2>2, <2>3
<1>6. ASSUME NoThird(out) PROVE Shown(x) <= 2
  <2>1. \A m \in at_x : m \in 1 .. Len(out) /\ m \in Int /\ out[m] = x
    OBVIOUS
  <2> HIDE DEF at_x
  <2>2. \A i, j, k \in at_x : ~(i < j /\ j < k)
    BY <1>6, <2>1 DEF NoThird
  <2>3. \A i, j, k \in at_x : i = j \/ j = k \/ i = k
    <3> SUFFICES ASSUME NEW i \in at_x, NEW j \in at_x, NEW k \in at_x, i # j, j # k, i # k PROVE FALSE
      OBVIOUS
    <3>1. i \in Int /\ j \in Int /\ k \in Int
      BY <2>1
    <3> QED BY <2>2, <3>1
  <2>4. CASE at_x = {}
    BY <1>1, <1>2, <2>4
  <2>5. CASE at_x # {}
    <3>1. PICK i : i \in at_x
      BY <2>5
    <3>2. \E j : at_x = {i, j}
      <4>1. CASE \A j \in at_x : j = i
        <5>1. at_x = {i, i}
          BY <3>1, <4>1
        <5> QED BY <5>1
      <4>2. CASE \E j \in at_x : j # i
        <5>1. PICK j \in at_x : j # i
          BY <4>2
        <5>2. at_x = {i, j}
          BY <2>3, <3>1, <5>1
        <5> QED BY <5>2
      <4> QED BY <4>1, <4>2
    <3>3. PICK j : at_x = {i, j}
      BY <3>2
    <3>4. Cardinality({i, j}) <= 2
      BY <1>4
    <3> QED BY <1>1, <3>3, <3>4
  <2> QED BY <2>4, <2>5
<1> QED BY <1>5, <1>6

LEMMA LogsInvImplies ==
    ASSUME ChannelType, LogsInv, logged \in Nat
    PROVE  \A n \in 1 .. logged : Shown(Log(n)) <= IF n = overlap THEN 2 ELSE 1
<1> SUFFICES ASSUME NEW n \in 1 .. logged PROVE Shown(Log(n)) <= IF n = overlap THEN 2 ELSE 1
  OBVIOUS
<1>1. out \in Seq(Item) /\ NoThird(out) /\ TwiceOnly(out, Log(overlap))
  BY DEF ChannelType, LogsInv
<1>2. CASE n = overlap
  BY <1>1, <1>2, Counted
<1>3. CASE n # overlap
  <2>1. Log(n) # Log(overlap)
    BY <1>3, ItemsTyped
  <2>2. \A i, j \in 1 .. Len(out) : out[i] = Log(n) /\ out[j] = Log(n) => i = j
    BY <1>1, <2>1 DEF TwiceOnly
  <2> QED BY <1>1, <1>3, <2>2, Counted
<1> QED BY <1>2, <1>3

\* A log stream that has said it is done has shown what it owes.
DoneInv ==
    kind = "logs" /\ at = "closed" /\ waited /\ ~disordered =>
        \A n \in 1 .. early : n <= limit => Log(n) \in Rows(out)

\* An order that has been given up is not taken up again.
LEMMA DisorderStays == PipelineInv /\ [PipelineNext]_pipeline => (disordered => disordered')
<1> QED BY DEF PipelineNext, pipeline, Enqueue, Flush, TakeRow, WriteTaken, Peek, WriteFailed,
        ClearSpill, Written, PipelineInv, PipelineTypeOK

LEMMA DoneStep ==
    ASSUME StreamsInv, ChannelType, DoneInv, [Next]_vars
    PROVE  DoneInv'
<1> SUFFICES ASSUME kind' = "logs", at' = "closed", waited', ~disordered', NEW n \in 1 .. early',
                    n <= limit'
             PROVE  Log(n) \in Rows(out')
  BY DEF DoneInv, Log, Rows
<1>1. PipelineInv /\ ~disordered /\ kind = "logs" /\ limit' = limit
  <2>1. ~disordered
    BY NextIsPipelineNext, DisorderStays DEF StreamsInv
  <2>2. kind' = kind /\ limit' = limit
    BY KindStays
  <2> QED BY <2>1, <2>2 DEF StreamsInv
<1>2. CASE at = "closed" /\ UNCHANGED <<waited, out>>
  <2>1. marker # 0
    <3>1. marker \in Rows(table)
      BY <1>1, <1>2 DEF StreamsInv, DrainedInv
    <3> QED BY <1>1, <3>1, PipelineInvImplies DEF NothingLost
  <2>2. writer \in {"marked", "published"}
    BY <2>1 DEF StreamsInv, MarkerInv
  <2>3. early' = early
    BY <2>2 DEF Next, Thread, StatusWriter, Connection, LogRow, PublishRow, PublishPart,
           PublishFinish, Park, WriteStatus, EnqueueMarker, PublishStatus, Settle, FlushRows,
           Deliver, Open, StartLogs, StartParts, Subscribe, Receive, PollParts, PollLogs, Drain,
           SayDone, Lose, ExpireBuffer, run, vars
  <2> QED BY <1>1, <1>2, <2>3 DEF DoneInv
<1>3. CASE SayDone
  <2>1. at = "final" /\ out' = out \o UnseenLogs /\ UNCHANGED <<early, waited>>
    BY <1>3 DEF SayDone, run
  <2>2. 1 .. early \subseteq Rows(table)
    BY <1>1, <2>1, StreamsInvImplies DEF DrainIsHonest
  <2>3. early < marker
    <3>1. marker \in Rows(table)
      BY <1>1, <2>1 DEF StreamsInv, DrainedInv
    <3>2. marker # 0
      BY <1>1, <3>1, PipelineInvImplies DEF NothingLost
    <3> QED BY <3>2 DEF StreamsInv, MarkerInv
  <2>4. n \in StoredRows
    <3>1. n \in Rows(table) /\ n # marker
      BY <2>1, <2>2, <2>3 DEF StreamsInv, MarkerInv
    <3> QED BY <1>1, <3>1, OldestRead
  <2>5. Log(n) \in Rows(out) \cup Rows(UnseenLogs) /\ UnseenLogs \in Seq(Item)
    BY <1>1, <2>4, StoredItems DEF LogsFrom
  <2> QED BY <2>1, <2>5, Joined DEF ChannelType
<1>4. (at = "closed" /\ UNCHANGED <<waited, out>>) \/ SayDone
  <2>1. CASE Thread \/ FlushRows \/ Deliver \/ ExpireBuffer \/ StatusWriter \/ UNCHANGED vars
    BY <2>1 DEF Thread, LogRow, PublishRow, PublishPart, PublishFinish, Park, FlushRows, Deliver,
         ExpireBuffer, StatusWriter, WriteStatus, EnqueueMarker, PublishStatus, Settle, vars,
         connection
  <2>2. ~Open /\ ~StartLogs /\ ~StartParts /\ ~Subscribe /\ ~PollParts /\ ~PollLogs /\ ~Drain /\ ~Lose
    BY <1>1 DEF Open, StartLogs, Leave, StartParts, Subscribe, PollParts, PollLogs, EndLive, Drain, Lose
  <2>3. ~Receive
    BY <1>1 DEF Receive, EndLive, Leave
  <2> QED BY <2>1, <2>2, <2>3 DEF Next, Connection
<1> QED BY <1>2, <1>3, <1>4

-----------------------------------------------------------------------------
(* A stream of parts shows them in their order *)

\* In a stream of parts, x may be shown before y.
Precedes(x, y) ==
    /\ x # y
    /\ x # Finish
    /\ x.type = "part" /\ y.type = "part" => x.n < y.n
Ordered(s) == \A i, j \in 1 .. Len(s) : i < j => Precedes(s[i], s[j])
Before(s, t) == \A x \in Rows(s), y \in Rows(t) : Precedes(x, y)

PartsUpTo(n) == {Part(m) : m \in 1 .. n}

LEMMA OrderedAppended ==
    ASSUME NEW s \in Seq(Item), NEW x \in Item, Ordered(s), \A y \in Rows(s) : Precedes(y, x)
    PROVE  Ordered(Append(s, x))
<1>1. /\ Len(s) \in Nat /\ Len(Append(s, x)) = Len(s) + 1
      /\ \A i \in 1 .. Len(s) : Append(s, x)[i] = s[i] /\ s[i] \in Rows(s)
      /\ Append(s, x)[Len(s) + 1] = x
  BY Appended DEF Rows
<1>2. \A i, j \in 1 .. Len(s) + 1 :
         i < j => i \in 1 .. Len(s) /\ (j \in 1 .. Len(s) \/ j = Len(s) + 1)
  BY <1>1
<1> QED BY <1>1, <1>2 DEF Ordered

LEMMA OrderedShortened ==
    ASSUME NEW s \in Seq(Item), s # <<>>, Ordered(s)
    PROVE  /\ Ordered(Tail(s))
           /\ \A y \in Rows(Tail(s)) : Precedes(Head(s), y)
<1>1. /\ Len(s) \in Nat \ {0} /\ Len(Tail(s)) = Len(s) - 1 /\ Head(s) = s[1]
      /\ \A i \in 1 .. Len(s) - 1 : Tail(s)[i] = s[i + 1]
  BY Shortened
<1>2. /\ 1 \in 1 .. Len(s)
      /\ \A i \in 1 .. Len(s) - 1 : i + 1 \in 1 .. Len(s) /\ 1 < i + 1
      /\ \A i, j \in 1 .. Len(s) - 1 : i < j => i + 1 < j + 1
  BY <1>1
<1>3. Ordered(Tail(s))
  BY <1>1, <1>2 DEF Ordered
<1>4. \A i \in 1 .. Len(s) - 1 : Precedes(Head(s), Tail(s)[i])
  BY <1>1, <1>2 DEF Ordered
<1> QED BY <1>1, <1>3, <1>4 DEF Rows

LEMMA OrderedJoined ==
    ASSUME NEW s \in Seq(Item), NEW t \in Seq(Item), Ordered(s), Ordered(t), Before(s, t)
    PROVE  Ordered(s \o t)
<1> DEFINE u == s \o t
           M == Len(s)
           N == Len(t)
<1>1. /\ M \in Nat /\ N \in Nat /\ Len(u) = M + N
      /\ \A i \in 1 .. M : u[i] = s[i] /\ s[i] \in Rows(s)
      /\ \A i \in 1 .. M + N :
            ~(i \in 1 .. M) => i - M \in 1 .. N /\ u[i] = t[i - M] /\ t[i - M] \in Rows(t)
  <2>1. /\ Len(s) \in Nat /\ Len(t) \in Nat /\ Len(s \o t) = Len(s) + Len(t)
        /\ \A i \in 1 .. Len(s) + Len(t) : (s \o t)[i] = IF i <= Len(s) THEN s[i] ELSE t[i - Len(s)]
    BY Joined
  <2> QED BY <2>1 DEF Rows
<1> HIDE DEF u
<1> SUFFICES ASSUME NEW i \in 1 .. M + N, NEW j \in 1 .. M + N, i < j PROVE Precedes(u[i], u[j])
  BY <1>1 DEF u, Ordered
<1>2. CASE i \in 1 .. M /\ j \in 1 .. M
  BY <1>1, <1>2 DEF Ordered
<1>3. CASE i \in 1 .. M /\ j \notin 1 .. M
  BY <1>1, <1>3 DEF Before
<1>4. CASE i \notin 1 .. M
  <2>1. /\ i - M \in 1 .. N /\ u[i] = t[i - M] /\ j - M \in 1 .. N /\ u[j] = t[j - M]
        /\ i - M < j - M
    BY <1>1, <1>4
  <2> QED BY <2>1 DEF Ordered
<1> QED BY <1>2, <1>3, <1>4

LEMMA EmptyOrdered == Ordered(<<>>) /\ \A s : Before(s, <<>>) /\ Before(<<>>, s)
<1> QED BY EmptyIsOnce DEF Ordered, Before

\* Rows that differ may be shown in any order, and before any part.
LEMMA LogsOrdered ==
    ASSUME NEW s \in Seq(Item), NEW k \in Nat, Rows(s) \subseteq LogsFrom(1 .. k), Distinct(s)
    PROVE  /\ Ordered(s)
           /\ \A x \in Rows(s) : x.type = "log" /\ x # Finish
           /\ \A x \in Rows(s) : \A y : y.type # "log" => Precedes(x, y)
           /\ \A x \in Rows(s) : \A y : x # y /\ y # Finish => Precedes(y, x)
<1>1. \A x \in Rows(s) : x.type = "log" /\ x # Finish
  BY ItemsTyped DEF LogsFrom
<1>2. \A x \in Rows(s) : \A y : x # y => Precedes(x, y)
  BY <1>1 DEF Precedes
<1>3. \A x \in Rows(s) : \A y : x # y /\ y # Finish => Precedes(y, x)
  BY <1>1 DEF Precedes
<1>4. Ordered(s)
  <2>1. Len(s) \in Nat /\ \A i \in 1 .. Len(s) : s[i] \in Rows(s) /\ i \in Int
    BY DEF Rows
  <2> QED BY <1>2, <2>1 DEF Ordered, Distinct
<1> QED BY <1>1, <1>2, <1>3, <1>4

\* Its last item is a finish part.
EndsWithFinish(s) == s # <<>> /\ s[Len(s)] = Finish

\* The items a stream of parts shows and is sent come in an order in which a finish
\* part is the last, and one is published at most once.
PartsInv ==
    /\ at \notin {"draining", "final"}
    /\ Rows(out) \subseteq LogsFrom(1 .. logged) \cup PartsUpTo(parted) \cup {Finish}
    /\ Coming \cup Rows(buffer.parts) \subseteq PartsUpTo(parted) \cup {Finish}
    /\ Finish \in Coming \cup Rows(buffer.parts) => thread # "going"
    /\ Ordered(buffer.parts)
    /\ Finish \in Rows(buffer.parts) => buffer.finished
    /\ buffer.finished => EndsWithFinish(buffer.parts)
    /\ Ordered(out) /\ Ordered(inbox) /\ Ordered(posted)
    /\ Before(out, inbox) /\ Before(out, posted) /\ Before(inbox, posted)
    /\ Finish \in Rows(out) => at = "closed"
    /\ at = "closed" /\ status # "cancelled" => EndsWithFinish(out)

\* It holds next, with each clause said of the next values.
LEMMA PartsInvNext ==
    ASSUME at' \notin {"draining", "final"},
           Rows(out') \subseteq LogsFrom(1 .. logged') \cup PartsUpTo(parted') \cup {Finish},
           Rows(inbox') \cup Rows(posted') \cup Rows(buffer'.parts)
               \subseteq PartsUpTo(parted') \cup {Finish},
           Finish \in Rows(inbox') \cup Rows(posted') \cup Rows(buffer'.parts) => thread' # "going",
           Ordered(buffer'.parts),
           Finish \in Rows(buffer'.parts) => buffer'.finished,
           buffer'.finished => EndsWithFinish(buffer'.parts),
           Ordered(out'), Ordered(inbox'), Ordered(posted'),
           Before(out', inbox'), Before(out', posted'), Before(inbox', posted'),
           Finish \in Rows(out') => at' = "closed",
           at' = "closed" /\ status' # "cancelled" => EndsWithFinish(out')
    PROVE  PartsInv'
<1>1. (Rows(out) \subseteq LogsFrom(1 .. logged) \cup PartsUpTo(parted) \cup {Finish})'
  BY DEF Rows, LogsFrom, Log, PartsUpTo, Part, Finish
<1>2. (Coming \cup Rows(buffer.parts) \subseteq PartsUpTo(parted) \cup {Finish})'
  BY DEF Coming, Rows, PartsUpTo, Part, Finish
<1>3. (Finish \in Coming \cup Rows(buffer.parts) => thread # "going")'
  BY DEF Coming, Rows, Finish
<1>4. /\ (Finish \in Rows(buffer.parts) => buffer.finished)'
      /\ (buffer.finished => EndsWithFinish(buffer.parts))'
  BY DEF Rows, Finish, EndsWithFinish
<1>5. (Ordered(buffer.parts) /\ Ordered(out) /\ Ordered(inbox) /\ Ordered(posted))'
  BY DEF Ordered, Precedes, Finish
<1>6. (Before(out, inbox) /\ Before(out, posted) /\ Before(inbox, posted))'
  BY DEF Before, Precedes, Finish, Rows
<1>7. /\ (Finish \in Rows(out) => at = "closed")'
      /\ (at = "closed" /\ status # "cancelled" => EndsWithFinish(out))'
  BY DEF Rows, Finish, EndsWithFinish
<1> QED BY <1>1, <1>2, <1>3, <1>4, <1>5, <1>6, <1>7 DEF PartsInv

\* The run logs, or its status changes: nothing is shown, and nothing comes.
LEMMA PartsUntouched ==
    ASSUME PartsInv, logged \in Nat, logged' \in Nat, logged <= logged',
           UNCHANGED <<parted, thread, out, inbox, posted>>,
           buffer'.parts = buffer.parts, buffer'.finished = buffer.finished,
           at' = at \/ {at, at'} \cap {"closed", "draining", "final"} = {},
           status = "cancelled" => status' = "cancelled"
    PROVE  PartsInv'
<1>1. LogsFrom(1 .. logged) \subseteq LogsFrom(1 .. logged')
  BY DEF LogsFrom
<1> QED BY <1>1, PartsInvNext DEF PartsInv, Coming

\* A part is published, or the finish part, after those before it.
LEMMA PartPublished ==
    ASSUME ChannelType, ChannelInv, PartsInv, kind = "parts", logged \in Nat, NEW x,
           PublishToBuffer(x), thread = "going",
           \/ x = Part(parted + 1) /\ parted' = parted + 1 /\ thread' = thread
           \/ x = Finish /\ parted' = parted /\ thread' # "going",
           UNCHANGED <<at, out, logged>>,
           status = "cancelled" => status' = "cancelled"
    PROVE  PartsInv'
<1>1. /\ x \in Item /\ parted \in Nat /\ inbox' = inbox
      /\ out \in Seq(Item) /\ inbox \in Seq(Item) /\ posted \in Seq(Item) /\ buffer.parts \in Seq(Item)
  <2>1. parted \in Nat /\ parted + 1 \in Nat
    BY DEF ChannelType
  <2>2. x \in Item
    BY <2>1, ItemsTyped
  <2>3. buffer.parts \in Seq(Item)
    BY DEF ChannelType, Buffer
  <2> QED BY <2>1, <2>2, <2>3 DEF ChannelType, PublishToBuffer
<1>2. PartsUpTo(parted) \subseteq PartsUpTo(parted') /\ (x = Finish \/ x \in PartsUpTo(parted'))
  <2>1. CASE x = Finish /\ parted' = parted
    BY <2>1
  <2>2. CASE x = Part(parted + 1) /\ parted' = parted + 1
    <3>1. parted + 1 \in 1 .. parted + 1 /\ \A m \in 1 .. parted : m \in 1 .. parted + 1
      BY <1>1
    <3> QED BY <2>2, <3>1 DEF PartsUpTo
  <2> QED BY <2>1, <2>2
<1>3. \A y \in PartsUpTo(parted) \cup LogsFrom(1 .. logged) : Precedes(y, x)
  BY <1>1, ItemsTyped DEF PartsUpTo, LogsFrom, Precedes
<1>4. /\ \A y \in Rows(inbox) \cup Rows(posted) \cup Rows(buffer.parts) : Precedes(y, x)
      /\ Finish \notin Rows(inbox) \cup Rows(posted) \cup Rows(buffer.parts)
  BY <1>3 DEF PartsInv, Coming
<1>5. at = "live" => \A y \in Rows(out) : Precedes(y, x)
  BY <1>3 DEF PartsInv
<1>6. /\ Rows(posted') \subseteq Rows(posted) \cup {x} /\ Ordered(posted')
      /\ Before(out, posted') /\ Before(inbox, posted')
  <2>1. CASE posted' = posted
    BY <2>1 DEF PartsInv
  <2>2. CASE posted' = Append(posted, x) /\ at = "live"
    <3>1. Rows(posted') = Rows(posted) \cup {x} /\ Ordered(posted')
      BY <1>1, <1>4, <2>2, Appended, OrderedAppended DEF PartsInv
    <3> QED BY <1>4, <1>5, <2>2, <3>1 DEF PartsInv, Before
  <2>3. posted' = posted \/ (posted' = Append(posted, x) /\ at = "live")
    BY DEF PublishToBuffer, Post, ChannelInv
  <2> QED BY <2>1, <2>2, <2>3
<1>7. /\ Rows(buffer'.parts) \subseteq Rows(buffer.parts) \cup {x} /\ Ordered(buffer'.parts)
      /\ Finish \in Rows(buffer'.parts) => buffer'.finished
      /\ buffer'.finished => EndsWithFinish(buffer'.parts)
  <2>1. CASE buffer' = buffer
    BY <2>1 DEF PartsInv
  <2>2. CASE local
    <3>1. /\ buffer'.parts = Append(buffer.parts, x)
          /\ buffer'.finished = (buffer.finished \/ x = Finish)
      BY <2>2 DEF PublishToBuffer
    <3>2. Rows(buffer'.parts) = Rows(buffer.parts) \cup {x} /\ Ordered(buffer'.parts)
      BY <1>1, <1>4, <3>1, Appended, OrderedAppended DEF PartsInv
    <3>3. ~buffer.finished
      <4>1. Len(buffer.parts) \in Nat
        BY <1>1
      <4>2. EndsWithFinish(buffer.parts) => Len(buffer.parts) \in 1 .. Len(buffer.parts)
        BY <1>1, <4>1, EmptySeq DEF EndsWithFinish
      <4> QED BY <1>4, <4>2 DEF PartsInv, EndsWithFinish, Rows
    <3>4. x = Finish => EndsWithFinish(buffer'.parts)
      <4>1. Len(buffer'.parts) = Len(buffer.parts) + 1 /\ Len(buffer.parts) \in Nat
        BY <1>1, <3>1, Appended
      <4>2. Len(buffer'.parts) # 0 /\ buffer'.parts[Len(buffer'.parts)] = x
        BY <1>1, <3>1, <4>1, Appended
      <4> QED BY <4>2, EmptySeq DEF EndsWithFinish
    <3> QED BY <1>4, <3>1, <3>2, <3>3, <3>4
  <2> QED BY <2>1, <2>2 DEF PublishToBuffer
<1>8. Finish \in Rows(inbox') \cup Rows(posted') \cup Rows(buffer'.parts) => thread' # "going"
  <2>1. parted + 1 \in Nat
    BY <1>1
  <2>2. x = Finish => thread' # "going"
    BY <2>1, ItemsTyped
  <2> QED BY <1>1, <1>4, <1>6, <1>7, <2>2
<1>9. /\ Rows(inbox') \cup Rows(posted') \cup Rows(buffer'.parts) \subseteq PartsUpTo(parted') \cup {Finish}
      /\ Rows(out') \subseteq LogsFrom(1 .. logged') \cup PartsUpTo(parted') \cup {Finish}
  BY <1>1, <1>2, <1>6, <1>7 DEF PartsInv, Coming
<1> QED BY <1>1, <1>6, <1>7, <1>8, <1>9, PartsInvNext DEF PartsInv

LEMMA PartDelivered ==
    ASSUME ChannelType, PartsInv, Deliver
    PROVE  PartsInv'
<1> DEFINE h == Head(posted)
<1>1. /\ posted # <<>> /\ posted \in Seq(Item) /\ inbox \in Seq(Item)
      /\ posted' = Tail(posted) /\ inbox' \in {inbox, Append(inbox, h)}
      /\ UNCHANGED <<at, out, logged, parted, thread, status, buffer>>
  BY DEF Deliver, ChannelType, connection, pipeline, publishing, run
<1>2. /\ h \in Item /\ h \in Rows(posted) /\ Rows(posted') \subseteq Rows(posted)
      /\ Ordered(posted') /\ \A y \in Rows(posted') : Precedes(h, y)
  BY <1>1, Shortened, OrderedShortened DEF PartsInv
<1>3. \A y \in Rows(inbox) \cup Rows(out) : Precedes(y, h)
  BY <1>2 DEF PartsInv, Before
<1> HIDE DEF h
<1>4. Rows(inbox') \subseteq Rows(inbox) \cup {h} /\ Ordered(inbox')
  <2>1. Rows(Append(inbox, h)) = Rows(inbox) \cup {h}
    BY <1>1, <1>2, Appended
  <2>2. Ordered(inbox) /\ Ordered(Append(inbox, h))
    BY <1>1, <1>2, <1>3, OrderedAppended DEF PartsInv
  <2> QED BY <1>1, <2>1, <2>2
<1>5. Before(out, inbox') /\ Before(out, posted') /\ Before(inbox', posted')
  BY <1>2, <1>3, <1>4 DEF PartsInv, Before
<1>6. Rows(inbox') \cup Rows(posted') \subseteq Coming
  BY <1>2, <1>4 DEF Coming
<1> QED BY <1>1, <1>2, <1>4, <1>5, <1>6, PartsInvNext DEF PartsInv

\* With nothing on its way, what is shown matters only, and the buffer.
LEMMA ShownInOrder ==
    ASSUME PartsInv, inbox' = <<>>, posted' = <<>>, UNCHANGED <<logged, parted, thread>>,
           buffer'.parts = buffer.parts, buffer'.finished = buffer.finished,
           Rows(out') \subseteq LogsFrom(1 .. logged) \cup PartsUpTo(parted) \cup {Finish},
           Ordered(out'),
           \/ at' = "closed" /\ (status' # "cancelled" => EndsWithFinish(out'))
           \/ at' \notin {"closed", "draining", "final"} /\ Finish \notin Rows(out')
    PROVE  PartsInv'
<1>1. Rows(inbox') = {} /\ Rows(posted') = {}
  BY EmptyIsOnce
<1>2. /\ Ordered(inbox') /\ Ordered(posted')
      /\ Before(out', inbox') /\ Before(out', posted') /\ Before(inbox', posted')
  BY EmptyOrdered
<1> QED BY <1>1, <1>2, PartsInvNext DEF PartsInv, Coming

LEMMA PartReceived ==
    ASSUME ChannelType, PartsInv, kind = "parts", Receive
    PROVE  PartsInv'
<1> DEFINE h == Head(inbox)
<1>1. /\ inbox # <<>> /\ inbox \in Seq(Item) /\ out \in Seq(Item) /\ at = "live"
      /\ UNCHANGED <<logged, parted, thread, status>>
      /\ Final[kind] = Finish
      /\ out' = Append(out, h)
  BY DEF Receive, ChannelType, pipeline, publishing, run, Final
<1>2. /\ h \in Item /\ h \in Rows(inbox) /\ Rows(Tail(inbox)) \subseteq Rows(inbox)
      /\ Ordered(Tail(inbox)) /\ \A y \in Rows(Tail(inbox)) : Precedes(h, y)
  BY <1>1, Shortened, OrderedShortened DEF PartsInv
<1>3. /\ \A y \in Rows(out) : Precedes(y, h)
      /\ \A y \in Rows(posted) : Precedes(h, y)
  BY <1>2 DEF PartsInv, Before
<1>4. h \in PartsUpTo(parted) \cup {Finish}
  BY <1>2 DEF PartsInv, Coming
<1>5. CASE h = Finish
  <2>1. EndLive /\ Unsubscribe
    BY <1>1, <1>5 DEF Receive
  <2>2. at' = "closed"
    BY <2>1 DEF EndLive
  <2> HIDE DEF h
  <2>3. Rows(out') = Rows(out) \cup {h} /\ Ordered(out')
    BY <1>1, <1>2, <1>3, Appended, OrderedAppended DEF PartsInv
  <2>4. EndsWithFinish(out')
    <3>1. Len(out') = Len(out) + 1 /\ Len(out) \in Nat
      BY <1>1, <1>2, Appended
    <3>2. Len(out') # 0 /\ out'[Len(out')] = h
      BY <1>1, <1>2, <3>1, Appended
    <3> QED BY <1>5, <3>2, EmptySeq DEF EndsWithFinish
  <2>5. Rows(out') \subseteq LogsFrom(1 .. logged) \cup PartsUpTo(parted) \cup {Finish}
    BY <1>4, <2>3 DEF PartsInv
  <2> QED BY <1>1, <2>1, <2>2, <2>3, <2>4, <2>5, Unsubscribed, ShownInOrder
<1>6. CASE h # Finish
  <2>1. inbox' = Tail(inbox) /\ UNCHANGED <<at, buffer, posted>>
    BY <1>1, <1>6 DEF Receive
  <2> HIDE DEF h
  <2>2. Rows(out') = Rows(out) \cup {h} /\ Ordered(out')
    BY <1>1, <1>2, <1>3, Appended, OrderedAppended DEF PartsInv
  <2>3. Before(out', inbox') /\ Before(out', posted') /\ Before(inbox', posted')
    BY <1>2, <1>3, <2>1, <2>2 DEF PartsInv, Before
  <2>4. Rows(inbox') \cup Rows(posted') \subseteq Coming
    BY <1>2, <2>1 DEF Coming
  <2>5. Rows(out') \subseteq LogsFrom(1 .. logged) \cup PartsUpTo(parted) \cup {Finish}
    BY <1>4, <2>2 DEF PartsInv
  <2>6. Finish \notin Rows(out')
    BY <1>1, <1>6, <2>2 DEF PartsInv
  <2> QED BY <1>1, <1>2, <2>1, <2>2, <2>3, <2>4, <2>5, <2>6, PartsInvNext DEF PartsInv
<1> QED BY <1>5, <1>6

\* A finish part behind what has been shown.
LEMMA Finished ==
    ASSUME NEW s \in Seq(Item), Ordered(s), Finish \notin Rows(s)
    PROVE  /\ Append(s, Finish) \in Seq(Item) /\ Rows(Append(s, Finish)) = Rows(s) \cup {Finish}
           /\ Ordered(Append(s, Finish)) /\ EndsWithFinish(Append(s, Finish))
<1>1. Finish \in Item /\ \A y \in Rows(s) : Precedes(y, Finish)
  BY ItemsTyped DEF Precedes
<1>2. Len(Append(s, Finish)) = Len(s) + 1 /\ Len(s) \in Nat
  BY <1>1, Appended
<1>3. Len(Append(s, Finish)) # 0 /\ Append(s, Finish)[Len(Append(s, Finish))] = Finish
  BY <1>1, <1>2, Appended
<1> QED BY <1>1, <1>3, EmptySeq, Appended, OrderedAppended DEF EndsWithFinish

LEMMA PartsStarted ==
    ASSUME PipelineInv, ChannelType, ChannelInv, PartsInv, StartParts
    PROVE  PartsInv'
<1>1. /\ inbox' = <<>> /\ posted' = <<>> /\ UNCHANGED <<logged, parted, thread, status, buffer>>
      /\ buffer.parts \in Seq(Item) /\ logged \in Nat
  BY DEF StartParts, ChannelInv, channel, pipeline, publishing, run, ChannelType, Buffer, PipelineInv,
         PipelineTypeOK
<1>2. /\ StoredLogs \in Seq(Item) /\ Distinct(StoredLogs)
      /\ Rows(StoredLogs) \subseteq LogsFrom(1 .. logged)
  BY StoredItems DEF LogsFrom
<1>3. /\ Ordered(StoredLogs) /\ Finish \notin Rows(StoredLogs)
      /\ \A x \in Rows(StoredLogs) : \A y : x # y /\ y # Finish => Precedes(y, x)
  BY <1>1, <1>2, LogsOrdered
<1>4. CASE out' = Append(StoredLogs, Finish) /\ at' = "closed"
  <2>1. Rows(out') = Rows(StoredLogs) \cup {Finish} /\ Ordered(out') /\ EndsWithFinish(out')
    BY <1>2, <1>3, <1>4, Finished
  <2> QED BY <1>1, <1>2, <1>4, <2>1, ShownInOrder
<1>5. CASE out' = buffer.parts /\ at' = "closed" /\ buffer.finished
  <2>1. /\ Rows(out') \subseteq PartsUpTo(parted) \cup {Finish}
        /\ Ordered(out') /\ EndsWithFinish(out')
    BY <1>5 DEF PartsInv
  <2> QED BY <1>1, <1>5, <2>1, ShownInOrder
<1>6. CASE out' = buffer.parts \o StoredLogs /\ at' = "subscribing" /\ ~buffer.finished
  <2>1. Finish \notin Rows(buffer.parts) /\ Rows(buffer.parts) \subseteq PartsUpTo(parted)
    BY <1>6 DEF PartsInv
  <2>2. \A x \in Rows(StoredLogs), y \in Rows(buffer.parts) : x # y
    BY <1>2, <2>1, ItemsTyped DEF LogsFrom, PartsUpTo
  <2>3. Before(buffer.parts, StoredLogs)
    BY <1>3, <2>1, <2>2 DEF Before
  <2>4. Rows(out') = Rows(buffer.parts) \cup Rows(StoredLogs) /\ Ordered(out')
    BY <1>1, <1>2, <1>3, <1>6, <2>3, Joined, OrderedJoined DEF PartsInv
  <2>5. /\ Rows(out') \subseteq LogsFrom(1 .. logged) \cup PartsUpTo(parted) \cup {Finish}
        /\ Finish \notin Rows(out')
    BY <1>2, <1>3, <2>1, <2>4
  <2> QED BY <1>1, <1>6, <2>4, <2>5, ShownInOrder
<1> QED BY <1>4, <1>5, <1>6 DEF StartParts, Replay

LEMMA PartsPolled ==
    ASSUME PipelineInv, ChannelType, PartsInv, PollParts
    PROVE  PartsInv'
<1>1. /\ kind = "parts" /\ at = "live" /\ inbox = <<>>
      /\ UNCHANGED <<logged, parted, thread, status>> /\ out \in Seq(Item) /\ logged \in Nat
  BY DEF PollParts, pipeline, publishing, run, ChannelType, PipelineInv, PipelineTypeOK
<1>2. /\ UnseenLogs \in Seq(Item) /\ Distinct(UnseenLogs) /\ Rows(out) \cap Rows(UnseenLogs) = {}
      /\ Rows(UnseenLogs) \subseteq LogsFrom(1 .. logged)
  BY StoredItems DEF LogsFrom
<1>3. /\ Ordered(UnseenLogs) /\ Finish \notin Rows(UnseenLogs) /\ Finish \notin Rows(out)
      /\ \A x \in Rows(UnseenLogs) : \A y : x # y /\ y # Finish => Precedes(y, x)
      /\ \A x \in Rows(UnseenLogs) : \A y : y.type # "log" => Precedes(x, y)
  BY <1>1, <1>2, LogsOrdered DEF PartsInv
<1> DEFINE shown == out \o UnseenLogs
<1>4. Before(out, UnseenLogs)
  BY <1>2, <1>3 DEF Before
<1>5. shown \in Seq(Item) /\ Rows(shown) = Rows(out) \cup Rows(UnseenLogs) /\ Ordered(shown)
  BY <1>1, <1>2, <1>3, <1>4, Joined, OrderedJoined DEF PartsInv
<1>6. /\ Finish \notin Rows(shown)
      /\ Rows(shown) \subseteq LogsFrom(1 .. logged) \cup PartsUpTo(parted) \cup {Finish}
  BY <1>2, <1>3, <1>5 DEF PartsInv
<1>7. CASE status \notin Terminal
  <2>1. out' = shown /\ UNCHANGED <<at, inbox, posted, buffer>>
    BY <1>7 DEF PollParts, channel
  <2> HIDE DEF shown
  <2>2. \A y \in Rows(posted) : y.type # "log"
    BY ItemsTyped DEF PartsInv, Coming, PartsUpTo
  <2>3. Before(out', posted') /\ Before(out', inbox') /\ Before(inbox', posted')
    BY <1>1, <1>3, <1>5, <2>1, <2>2, EmptyOrdered DEF PartsInv, Before
  <2> QED BY <1>1, <1>5, <1>6, <2>1, <2>3, PartsInvNext DEF PartsInv, Coming
<1>8. CASE status \in Terminal
  <2>1. out' = shown \o FinishOfRow /\ EndLive /\ Unsubscribe
    BY <1>8 DEF PollParts
  <2>2. at' = "closed" /\ inbox' = <<>> /\ posted' = <<>>
        /\ buffer'.parts = buffer.parts /\ buffer'.finished = buffer.finished
    BY <1>1, <2>1, Unsubscribed DEF EndLive
  <2> HIDE DEF shown
  <2>3. CASE status = "ended"
    <3>1. out' = Append(shown, Finish)
      BY <1>5, <2>1, <2>3 DEF FinishOfRow
    <3>2. Rows(out') = Rows(shown) \cup {Finish} /\ Ordered(out') /\ EndsWithFinish(out')
      BY <1>5, <1>6, <3>1, Finished
    <3> QED BY <1>1, <1>6, <2>2, <3>2, ShownInOrder
  <2>4. CASE status = "cancelled"
    <3>1. out' = shown
      BY <1>5, <2>1, <2>4 DEF FinishOfRow
    <3> QED BY <1>1, <1>5, <1>6, <2>2, <2>4, <3>1, ShownInOrder
  <2> QED BY <1>8, <2>3, <2>4 DEF Terminal
<1> QED BY <1>7, <1>8

LEMMA PartsConnected ==
    ASSUME ChannelType, ChannelInv, PartsInv, kind = "parts", Open \/ Lose \/ ExpireBuffer
    PROVE  PartsInv'
<1>1. UNCHANGED <<logged, parted, thread, status>>
  BY DEF Open, Lose, ExpireBuffer, pipeline, publishing, run
<1>2. CASE Open
  <2>1. /\ out' = <<>> /\ at' = "opening" /\ inbox' = <<>> /\ posted' = <<>> /\ buffer' = buffer
    BY <1>2 DEF Open, channel, ChannelInv
  <2>2. Rows(out') = {} /\ Ordered(out')
    BY <2>1, EmptyIsOnce, EmptyOrdered
  <2> QED BY <1>1, <2>1, <2>2, ShownInOrder
<1>3. CASE Lose
  <2>1. /\ out' = out /\ at' = "away" /\ at # "closed" /\ inbox' = <<>> /\ posted' = <<>>
        /\ buffer'.parts = buffer.parts /\ buffer'.finished = buffer.finished
    BY <1>3, Unsubscribed DEF Lose, channel, ChannelInv
  <2> QED BY <1>1, <2>1, ShownInOrder DEF PartsInv
<1>4. CASE ExpireBuffer
  <2>1. /\ buffer'.parts = <<>> /\ ~buffer'.finished /\ UNCHANGED <<out, at, inbox, posted>>
    BY <1>4 DEF ExpireBuffer, NoBuffer, connection
  <2>2. Rows(buffer'.parts) = {} /\ Ordered(buffer'.parts)
    BY <2>1, EmptyIsOnce, EmptyOrdered
  <2> QED BY <1>1, <2>1, <2>2, PartsInvNext DEF PartsInv, Coming
<1> QED BY <1>2, <1>3, <1>4

LEMMA PartsStep ==
    ASSUME StreamsInv, ChannelType, ChannelInv, PartsInv, kind = "parts", [Next]_vars
    PROVE  PartsInv'
<1>1. /\ logged \in Nat /\ logged' \in Nat /\ logged <= logged' /\ PipelineInv
  BY NextIsPipelineNext, TableGrows DEF StreamsInv
<1>2. CASE LogRow \/ FlushRows \/ UNCHANGED vars
  <2>1. UNCHANGED <<parted, thread, out, inbox, posted, buffer, at, status>>
    BY <1>2 DEF LogRow, FlushRows, vars, run, publishing, channel, connection
  <2> QED BY <1>1, <2>1, PartsUntouched
<1>3. CASE PublishRow \/ StatusWriter
  <2>1. UNCHANGED <<parted, thread, out, inbox, buffer, at>>
    BY <1>3 DEF PublishRow, StatusWriter, WriteStatus, EnqueueMarker, PublishStatus, Settle, Publish,
           publishing, channel, connection
  <2>2. posted' = posted
    BY <1>3 DEF PublishRow, StatusWriter, WriteStatus, EnqueueMarker, PublishStatus, Settle, Publish,
           Post, channel
  <2>3. status = "cancelled" => status' = "cancelled"
    BY <1>3 DEF PublishRow, StatusWriter, WriteStatus, EnqueueMarker, PublishStatus, Settle, run
  <2> QED BY <1>1, <2>1, <2>2, <2>3, PartsUntouched
<1>4. CASE PublishPart
  <2>1. /\ PublishToBuffer(Part(parted + 1)) /\ thread = "going" /\ parted' = parted + 1
        /\ UNCHANGED <<thread, at, out, logged, status>>
    BY <1>4 DEF PublishPart, pipeline, run, connection
  <2> QED BY <1>1, <2>1, PartPublished
<1>5. CASE PublishFinish \/ Park
  <2>1. /\ PublishToBuffer(Finish) /\ thread = "going" /\ thread' # "going"
        /\ UNCHANGED <<parted, at, out, logged>>
        /\ status = "cancelled" => status' = "cancelled"
    BY <1>5 DEF PublishFinish, Park, pipeline, run, connection
  <2> QED BY <1>1, <2>1, PartPublished
<1>6. CASE Subscribe
  <2>1. /\ UNCHANGED <<parted, thread, out, inbox, posted, status>>
        /\ {at, at'} \cap {"closed", "draining", "final"} = {}
    BY <1>6 DEF Subscribe, publishing, run
  <2>2. buffer'.parts = buffer.parts /\ buffer'.finished = buffer.finished
    BY <1>6 DEF Subscribe, ChannelType, Buffer
  <2> QED BY <1>1, <2>1, <2>2, PartsUntouched
<1>7. ~StartLogs /\ ~PollLogs /\ ~Drain /\ ~SayDone
  BY DEF StartLogs, PollLogs, Drain, SayDone, PartsInv
<1> QED BY <1>1, <1>2, <1>3, <1>4, <1>5, <1>6, <1>7, PartDelivered, PartReceived, PartsStarted,
        PartsPolled, PartsConnected
        DEF Next, Thread, Connection

LEMMA PartsInvImplies ==
    ASSUME ChannelType, PartsInv, kind = "parts"
    PROVE  PartsInOrder /\ ClosedWithFinish
<1>1. Len(out) \in Nat
  BY DEF ChannelType
<1>2. \A i, j \in 1 .. Len(out) : i < j => Precedes(out[i], out[j])
  BY DEF PartsInv, Ordered
<1>3. \A i, j \in 1 .. Len(out) : i # j => out[i] # out[j]
  <2> SUFFICES ASSUME NEW i \in 1 .. Len(out), NEW j \in 1 .. Len(out), i # j PROVE out[i] # out[j]
    OBVIOUS
  <2>1. i < j \/ j < i
    BY <1>1
  <2> QED BY <1>2, <2>1 DEF Precedes
<1>4. \A i, j \in 1 .. Len(out) :
         out[i].type = "part" /\ out[j].type = "part" /\ i < j => out[i].n < out[j].n
  BY <1>2 DEF Precedes
<1>5. \A i \in 1 .. Len(out) - 1 : out[i] # Finish
  <2> SUFFICES ASSUME NEW i \in 1 .. Len(out) - 1 PROVE out[i] # Finish
    OBVIOUS
  <2>1. i \in 1 .. Len(out) /\ Len(out) \in 1 .. Len(out) /\ i < Len(out)
    BY <1>1
  <2> QED BY <1>2, <2>1 DEF Precedes
<1>6. at = "closed" /\ status # "cancelled" => out # <<>> /\ out[Len(out)] = Finish
  BY DEF PartsInv, EndsWithFinish
<1> QED BY <1>3, <1>4, <1>5, <1>6 DEF PartsInOrder, ClosedWithFinish

-----------------------------------------------------------------------------
(* What a client is shown *)

\* Whichever stream it is.
ShownInv ==
    /\ StreamsInv
    /\ ChannelType
    /\ ChannelInv
    /\ kind = "logs" => LogsInv
    /\ kind = "parts" => PartsInv
    /\ DoneInv

LEMMA ShownInit == Init => ShownInv
<1> SUFFICES ASSUME Init PROVE ShownInv
  OBVIOUS
<1>1. StreamsInv
  BY StreamsInitInv
<1>2. /\ out = <<>> /\ inbox = <<>> /\ posted = <<>> /\ at = "away" /\ logged = 0
      /\ unpublished = 0 /\ overlap = 0 /\ parted = 0 /\ kind \in Kind
      /\ buffer.parts = <<>> /\ ~buffer.finished /\ buffer \in Buffer /\ ~subscribed
      /\ limit \in Nat
  BY StreamsAssumption, EmptyIsOnce DEF Init, PipelineInit, NoBuffer, Buffer
<1>3. ChannelType /\ ChannelInv /\ DoneInv
  BY <1>2, EmptyIsOnce DEF ChannelType, ChannelInv, DoneInv
<1>4. Rows(<<>>) = {}
  BY EmptyIsOnce
<1>5. LogsInv
  BY <1>2, <1>4, EmptyIsOnce, DistinctIsOnce DEF LogsInv, Coming, BothOnly
<1>6. PartsInv
  BY <1>2, <1>4, EmptyOrdered DEF PartsInv, Coming
<1> QED BY <1>1, <1>3, <1>5, <1>6 DEF ShownInv

LEMMA ShownNext == ShownInv /\ [Next]_vars => ShownInv'
<1> SUFFICES ASSUME ShownInv, [Next]_vars PROVE ShownInv'
  OBVIOUS
<1>1. StreamsInv' /\ ChannelType' /\ ChannelInv' /\ DoneInv'
  BY StreamsNextInv, ChannelTyped, ChannelStep, DoneStep DEF ShownInv
<1>2. kind = "logs" => LogsInv'
  BY LogsStep DEF ShownInv
<1>3. kind = "parts" => PartsInv'
  BY PartsStep DEF ShownInv
<1> QED BY <1>1, <1>2, <1>3, KindStays DEF ShownInv

LEMMA ShownInvImplies == ShownInv => DoneIsComplete /\ RowsShownOnce /\ PartsInOrder /\ ClosedWithFinish
<1> SUFFICES ASSUME ShownInv PROVE DoneIsComplete /\ RowsShownOnce /\ PartsInOrder /\ ClosedWithFinish
  OBVIOUS
<1>1. logged \in Nat
  BY DEF ShownInv, StreamsInv, PipelineInv, PipelineTypeOK
<1>2. DoneIsComplete
  BY DEF ShownInv, DoneInv, DoneIsComplete
<1>3. RowsShownOnce
  BY <1>1, LogsInvImplies DEF ShownInv, RowsShownOnce
<1>4. PartsInOrder /\ ClosedWithFinish
  <2>1. CASE kind = "parts"
    BY <2>1, PartsInvImplies DEF ShownInv
  <2>2. CASE kind # "parts"
    BY <2>2 DEF PartsInOrder, ClosedWithFinish
  <2> QED BY <2>1, <2>2
<1> QED BY <1>2, <1>3, <1>4

\* All of it together, in every state a stream can be in (stream_run_logs, stream_run_parts).
THEOREM Shows == Spec => []ShownInv
<1> QED BY ShownInit, ShownNext, PTL DEF Spec

\* A log stream that waited for the drain marker and says it is done has shown every
\* row logged before the terminal status, for any rows, batches and failures that keep
\* the order (event_generator of stream_run_logs).
THEOREM DoneComplete == Spec => []DoneIsComplete
<1> QED BY Shows, ShownInvImplies, PTL

\* A log stream shows a row twice only if it was stored and not yet published when the
\* client subscribed (_log_replay_events, the client's queue, and then
\* _unseen_persisted_log_events).
THEOREM RowsOnce == Spec => []RowsShownOnce
<1> QED BY Shows, ShownInvImplies, PTL

\* A stream of parts shows no item twice and the parts in their order, whether they come
\* from the replay buffer, from the queue or, as rows, from the table (stream_run_parts).
THEOREM PartsOrdered == Spec => []PartsInOrder
<1> QED BY Shows, ShownInvImplies, PTL

\* A stream of parts that the endpoint closes ends with its only finish part, unless the
\* run was cancelled (stream_run_parts, _finish_part_from_run_row).
THEOREM FinishCloses == Spec => []ClosedWithFinish
<1> QED BY Shows, ShownInvImplies, PTL
=============================================================================
