--------------------------- MODULE RunLogs_proofs ---------------------------
(***************************************************************************)
(* The log pipeline of RunLogs loses no row, keeps the order of the rows   *)
(* until it is given up, and implements the log store, for every size of   *)
(* the queue and of the batches and however many writes fail.              *)
(*                                                                         *)
(* All that was logged is one sequence: the rows of the table and, behind  *)
(* them, those that wait.  A step of the flusher moves the boundary        *)
(* between the two, Enqueue appends to the sequence, and a failed batch of *)
(* the queue exchanges two of its parts.  So it stays a permutation of the *)
(* numbers logged, and the identity as long as no exchange took place.     *)
(***************************************************************************)
EXTENDS RunLogs, SequenceTheorems, TLAPS

\* All that was logged: what is stored and what waits.
Everything == table \o Waiting

\* The first n numbers, each once, in some order.
Permutes(s, n) ==
    /\ s \in Seq(Nat)
    /\ Len(s) = n
    /\ \A i \in 1 .. n : s[i] \in 1 .. n
    /\ \A v \in 1 .. n : \E i \in 1 .. n : s[i] = v
    /\ \A i, j \in 1 .. n : s[i] = s[j] => i = j

\* A batch in flight is not empty; one from the spool is its beginning, and nothing
\* is queued beside it.
HandIsSound ==
    /\ flusher # "taking" => batch # <<>>
    /\ flusher = "spool" =>
          /\ queue = <<>>
          /\ \E rest \in Seq(Nat) : spool = batch \o rest

\* The inductive invariant.
PipelineInv ==
    /\ PipelineTypeOK
    /\ SpooledIsSpilled
    /\ HandIsSound
    /\ Permutes(Everything, logged)
    /\ PipelineInOrder

-----------------------------------------------------------------------------
(* Sequences *)

\* A sequence that ends with the next number.
LEMMA PermutesAppend ==
    ASSUME NEW n \in Nat, NEW s, Permutes(s, n)
    PROVE  Permutes(Append(s, n + 1), n + 1)
<1> DEFINE t == Append(s, n + 1)
<1>1. /\ s \in Seq(Nat) /\ Len(s) = n
      /\ t \in Seq(Nat) /\ Len(t) = n + 1
      /\ \A i \in 1 .. n : t[i] = s[i]
      /\ t[n + 1] = n + 1
  BY AppendProperties DEF Permutes
<1> HIDE DEF t
<1>2. \A i \in 1 .. n + 1 : t[i] \in 1 .. n + 1
  <2> TAKE i \in 1 .. n + 1
  <2>1. i = n + 1 \/ i \in 1 .. n
    OBVIOUS
  <2>2. \A j \in 1 .. n : s[j] \in 1 .. n
    BY DEF Permutes
  <2> QED BY <1>1, <2>1, <2>2
<1>3. \A v \in 1 .. n + 1 : \E i \in 1 .. n + 1 : t[i] = v
  <2> TAKE v \in 1 .. n + 1
  <2>1. CASE v = n + 1
    BY <1>1, <2>1
  <2>2. CASE v # n + 1
    <3> v \in 1 .. n
      BY <2>2
    <3>1. PICK i \in 1 .. n : s[i] = v
      BY DEF Permutes
    <3> QED BY <3>1, <1>1
  <2> QED BY <2>1, <2>2
<1>4. ASSUME NEW i \in 1 .. n + 1, NEW j \in 1 .. n + 1, t[i] = t[j]
      PROVE  i = j
  <2>1. CASE i = n + 1 /\ j \in 1 .. n
    BY <1>1, <1>4, <2>1 DEF Permutes
  <2>2. CASE j = n + 1 /\ i \in 1 .. n
    BY <1>1, <1>4, <2>2 DEF Permutes
  <2>3. CASE i \in 1 .. n /\ j \in 1 .. n
    BY <1>1, <1>4, <2>3 DEF Permutes
  <2> QED BY <2>1, <2>2, <2>3
<1> QED BY <1>1, <1>2, <1>3, <1>4 DEF Permutes, t

\* Two parts of it, behind the first, exchanged.
LEMMA PermutesExchange ==
    ASSUME NEW n \in Nat, NEW c \in Seq(Nat), NEW a \in Seq(Nat), NEW b \in Seq(Nat),
           Permutes(c \o (a \o b), n)
    PROVE  Permutes(c \o (b \o a), n)
<1> DEFINE s == c \o (a \o b)
           t == c \o (b \o a)
           m(i) == IF i <= Len(c) THEN i
                   ELSE IF i <= Len(c) + Len(b) THEN i + Len(a) ELSE i - Len(b)
<1>1. Len(a) \in Nat /\ Len(b) \in Nat /\ Len(c) \in Nat
  BY LenProperties
<1>2. /\ a \o b \in Seq(Nat) /\ Len(a \o b) = Len(a) + Len(b)
      /\ \A i \in 1 .. Len(a) + Len(b) :
            (a \o b)[i] = IF i <= Len(a) THEN a[i] ELSE b[i - Len(a)]
  BY ConcatProperties
<1>3. /\ b \o a \in Seq(Nat) /\ Len(b \o a) = Len(b) + Len(a)
      /\ \A i \in 1 .. Len(b) + Len(a) :
            (b \o a)[i] = IF i <= Len(b) THEN b[i] ELSE a[i - Len(b)]
  BY ConcatProperties
<1>4. /\ s \in Seq(Nat) /\ Len(s) = Len(c) + Len(a) + Len(b)
      /\ \A i \in 1 .. Len(c) + Len(a) + Len(b) :
            s[i] = IF i <= Len(c) THEN c[i] ELSE (a \o b)[i - Len(c)]
  <2> HIDE DEF s
  <2>1. s = c \o (a \o b)
    BY DEF s
  <2> QED BY <1>1, <1>2, <2>1, ConcatProperties
<1>5. /\ t \in Seq(Nat) /\ Len(t) = Len(c) + Len(a) + Len(b)
      /\ \A i \in 1 .. Len(c) + Len(a) + Len(b) :
            t[i] = IF i <= Len(c) THEN c[i] ELSE (b \o a)[i - Len(c)]
  <2> HIDE DEF t
  <2>1. t = c \o (b \o a)
    BY DEF t
  <2> QED BY <1>1, <1>3, <2>1, ConcatProperties
<1>6. n = Len(c) + Len(a) + Len(b)
  BY <1>4 DEF Permutes
<1> HIDE DEF s, t
<1>7. \A i \in 1 .. n : m(i) \in 1 .. n /\ t[i] = s[m(i)]
  <2> TAKE i \in 1 .. n
  <2>1. CASE i <= Len(c)
    BY <1>1, <1>4, <1>5, <1>6, <2>1
  <2>2. CASE i > Len(c) /\ i <= Len(c) + Len(b)
    <3>1. t[i] = (b \o a)[i - Len(c)]
      BY <1>1, <1>5, <1>6, <2>2
    <3>4. (b \o a)[i - Len(c)] = b[i - Len(c)]
      <4>1. i - Len(c) \in 1 .. Len(b) + Len(a) /\ i - Len(c) <= Len(b)
        BY <1>1, <1>6, <2>2
      <4> QED BY <4>1, <1>3
    <3>2. m(i) = i + Len(a) /\ m(i) \in 1 .. n
      BY <1>1, <1>6, <2>2
    <3>3. s[i + Len(a)] = (a \o b)[i + Len(a) - Len(c)]
      BY SMTT(30), <1>1, <1>4, <1>6, <2>2
    <3>5. (a \o b)[i + Len(a) - Len(c)] = b[i + Len(a) - Len(c) - Len(a)]
      <4>1. /\ i + Len(a) - Len(c) \in 1 .. Len(a) + Len(b)
            /\ ~(i + Len(a) - Len(c) <= Len(a))
        BY <1>1, <1>6, <2>2
      <4> QED BY <4>1, <1>2
    <3>6. i + Len(a) - Len(c) - Len(a) = i - Len(c)
      BY <1>1
    <3> QED BY <3>1, <3>2, <3>3, <3>4, <3>5, <3>6
  <2>3. CASE i > Len(c) + Len(b)
    <3>1. t[i] = (b \o a)[i - Len(c)]
      BY <1>1, <1>5, <1>6, <2>3
    <3>4. (b \o a)[i - Len(c)] = a[i - Len(c) - Len(b)]
      <4>1. i - Len(c) \in 1 .. Len(b) + Len(a) /\ ~(i - Len(c) <= Len(b))
        BY <1>1, <1>6, <2>3
      <4> QED BY <4>1, <1>3
    <3>2. m(i) = i - Len(b) /\ m(i) \in 1 .. n
      BY <1>1, <1>6, <2>3
    <3>3. s[i - Len(b)] = (a \o b)[i - Len(b) - Len(c)]
      <4>1. i - Len(b) \in 1 .. Len(c) + Len(a) + Len(b) /\ ~(i - Len(b) <= Len(c))
        BY <1>1, <1>6, <2>3
      <4> QED BY <4>1, <1>4
    <3>5. (a \o b)[i - Len(b) - Len(c)] = a[i - Len(b) - Len(c)]
      <4>1. i - Len(b) - Len(c) \in 1 .. Len(a) + Len(b) /\ i - Len(b) - Len(c) <= Len(a)
        BY <1>1, <1>6, <2>3
      <4> QED BY <4>1, <1>2
    <3>6. i - Len(b) - Len(c) = i - Len(c) - Len(b)
      BY <1>1
    <3> QED BY <3>1, <3>2, <3>3, <3>4, <3>5, <3>6
  <2> QED BY <1>1, <1>6, <2>1, <2>2, <2>3
<1>8. \A i \in 1 .. n : \E j \in 1 .. n : m(j) = i
  <2> TAKE i \in 1 .. n
  <2> DEFINE j == IF i <= Len(c) THEN i
                  ELSE IF i <= Len(c) + Len(a) THEN i + Len(b) ELSE i - Len(a)
  <2>1. j \in 1 .. n /\ m(j) = i
    BY <1>1, <1>6
  <2> QED BY <2>1
<1>9. \A i, j \in 1 .. n : m(i) = m(j) => i = j
  BY SMTT(30), <1>1, <1>6
<1> HIDE DEF m
<1>10. Permutes(s, n)
  BY DEF s
<1>11. Permutes(t, n)
  <2>1. \A i \in 1 .. n : t[i] \in 1 .. n
    BY <1>7, <1>10 DEF Permutes
  <2>2. \A v \in 1 .. n : \E i \in 1 .. n : t[i] = v
    <3> TAKE v \in 1 .. n
    <3>1. PICK i \in 1 .. n : s[i] = v
      BY <1>10 DEF Permutes
    <3>2. PICK j \in 1 .. n : m(j) = i
      BY <1>8
    <3> QED BY <3>1, <3>2, <1>7
  <2>3. ASSUME NEW i \in 1 .. n, NEW j \in 1 .. n, t[i] = t[j]
        PROVE  i = j
    <3>1. m(i) \in 1 .. n /\ m(j) \in 1 .. n /\ s[m(i)] = s[m(j)]
      BY <2>3, <1>7
    <3>2. m(i) = m(j)
      BY <3>1, <1>10 DEF Permutes
    <3> QED BY <3>2, <1>9
  <2> QED BY <1>5, <1>6, <2>1, <2>2, <2>3 DEF Permutes
<1> QED BY <1>11 DEF t

LEMMA RowsOfConcat ==
    ASSUME NEW s \in Seq(Nat), NEW t \in Seq(Nat)
    PROVE  Rows(s \o t) = Rows(s) \cup Rows(t)
<1>1. /\ Len(s) \in Nat /\ Len(t) \in Nat
      /\ Len(s \o t) = Len(s) + Len(t)
      /\ \A i \in 1 .. Len(s) + Len(t) :
            (s \o t)[i] = IF i <= Len(s) THEN s[i] ELSE t[i - Len(s)]
  BY ConcatProperties, LenProperties
<1>2. Rows(s \o t) \subseteq Rows(s) \cup Rows(t)
  BY <1>1 DEF Rows
<1>3. Rows(s) \subseteq Rows(s \o t)
  BY <1>1 DEF Rows
<1>4. ASSUME NEW i \in 1 .. Len(t)
      PROVE  t[i] \in Rows(s \o t)
  <2>1. /\ Len(s) + i \in 1 .. Len(s) + Len(t)
        /\ (s \o t)[Len(s) + i] = t[i]
    BY <1>1
  <2> QED BY <2>1, <1>1 DEF Rows
<1> QED BY <1>2, <1>3, <1>4 DEF Rows

\* A flusher's step on the boundary between the parts of a sequence.
LEMMA MoveHead ==
    ASSUME NEW s \in Seq(Nat), NEW t \in Seq(Nat), t # <<>>
    PROVE  Append(s, Head(t)) \o Tail(t) = s \o t
<1>1. Head(t) \in Nat /\ Tail(t) \in Seq(Nat)
  BY HeadTailProperties
<1>2. <<Head(t)>> \in Seq(Nat)
  BY <1>1
<1>3. Append(s, Head(t)) = s \o <<Head(t)>>
  BY <1>1, AppendIsConcat
<1>4. <<Head(t)>> \o Tail(t) = t
  <2>1. Len(t) \in Nat \ {0}
    BY EmptySeq, LenProperties
  <2>3. Head(t) = t[1]
    BY <2>1
  <2>2. SubSeq(t, 1, Len(t)) = <<t[1]>> \o SubSeq(t, 2, Len(t))
    BY <2>1, SubSeqRecursiveFirst
  <2> QED BY <2>1, <2>2, SubSeqFull, TailIsSubSeq, <2>3
<1>5. (s \o <<Head(t)>>) \o Tail(t) = s \o (<<Head(t)>> \o Tail(t))
  BY SMTT(60), <1>1, <1>2, ConcatAssociative
<1> QED BY <1>3, <1>4, <1>5

LEMMA AppendToConcat ==
    ASSUME NEW s \in Seq(Nat), NEW t \in Seq(Nat), NEW n \in Nat
    PROVE  s \o Append(t, n) = Append(s \o t, n)
<1>1. <<n>> \in Seq(Nat) /\ s \o t \in Seq(Nat)
  BY ConcatProperties
<1>2. s \o Append(t, n) = s \o (t \o <<n>>)
  BY AppendIsConcat
<1>3. Append(s \o t, n) = (s \o t) \o <<n>>
  BY <1>1, AppendIsConcat
<1> QED BY <1>1, <1>2, <1>3, ConcatAssociative

LEMMA Associative == \A s, t, u \in Seq(Nat) : (s \o t) \o u = s \o (t \o u)
<1> SUFFICES ASSUME NEW s \in Seq(Nat), NEW t \in Seq(Nat), NEW u \in Seq(Nat)
             PROVE  (s \o t) \o u = s \o (t \o u)
  OBVIOUS
<1> QED BY SMTT(30), ConcatAssociative, Z3

\* What is behind a known beginning.
LEMMA RestOfConcat ==
    ASSUME NEW s \in Seq(Nat), NEW t \in Seq(Nat)
    PROVE  SubSeq(s \o t, Len(s) + 1, Len(s \o t)) = t
<1>1. Len(s) \in Nat /\ Len(t) \in Nat /\ s \o t \in Seq(Nat) /\ Len(s \o t) = Len(s) + Len(t)
  BY ConcatProperties, LenProperties
<1>2. CASE t = <<>>
  <2>1. Len(t) = 0
    BY <1>2
  <2> QED BY <1>1, <1>2, <2>1, SubSeqEmpty
<1>3. CASE t # <<>>
  <2>1. Len(t) > 0
    BY <1>1, <1>3, EmptySeq
  <2>2. SubSeq(s \o t, Len(s) + 1, Len(s) + Len(t))
            = SubSeq(t, Len(s) + 1 - Len(s), Len(s) + Len(t) - Len(s))
    BY <1>1, <2>1, SubSeqOfConcat2
  <2>3. Len(s) + 1 - Len(s) = 1 /\ Len(s) + Len(t) - Len(s) = Len(t)
    BY <1>1
  <2> QED BY <1>1, <2>2, <2>3, SubSeqFull
<1> QED BY <1>2, <1>3

\* A beginning of a sequence, and the rest.
LEMMA SplitSeq ==
    ASSUME NEW s \in Seq(Nat), NEW n \in 0 .. Len(s)
    PROVE  /\ SubSeq(s, 1, n) \in Seq(Nat)
           /\ Len(SubSeq(s, 1, n)) = n
           /\ SubSeq(s, n + 1, Len(s)) \in Seq(Nat)
           /\ s = SubSeq(s, 1, n) \o SubSeq(s, n + 1, Len(s))
<1>1. Len(s) \in Nat /\ n \in Nat /\ \A i \in 1 .. Len(s) : s[i] \in Nat
  BY LenProperties, ElementOfSeq
<1>2. /\ SubSeq(s, 1, n) \in Seq(Nat)
      /\ Len(SubSeq(s, 1, n)) = IF 1 <= n THEN n - 1 + 1 ELSE 0
  BY <1>1, SubSeqProperties
<1>3. SubSeq(s, n + 1, Len(s)) \in Seq(Nat)
  BY <1>1, SubSeqProperties
<1>4. SubSeq(s, 1, n) \o SubSeq(s, n + 1, Len(s)) = SubSeq(s, 1, Len(s))
  <2>1. 1 \in 1 .. Len(s) + 1 /\ n \in 1 - 1 .. Len(s) /\ Len(s) \in n .. Len(s)
    BY <1>1
  <2> QED BY <2>1, ConcatAdjacentSubSeq
<1>5. Len(SubSeq(s, 1, n)) = n
  BY <1>1, <1>2
<1>6. SubSeq(s, 1, Len(s)) = s
  BY SubSeqFull
<1> QED BY <1>2, <1>3, <1>4, <1>5, <1>6

-----------------------------------------------------------------------------
(* The steps of the pipeline *)

\* The parts of Everything are sequences, and its first part is the table.
LEMMA PartsTyped ==
    PipelineTypeOK =>
        /\ table \in Seq(Nat) /\ queue \in Seq(Nat) /\ spool \in Seq(Nat)
        /\ batch \in Seq(Nat) /\ InHand \in Seq(Nat)
        /\ Waiting \in Seq(Nat) /\ Everything \in Seq(Nat)
<1> SUFFICES ASSUME PipelineTypeOK
             PROVE  /\ table \in Seq(Nat) /\ queue \in Seq(Nat) /\ spool \in Seq(Nat)
                    /\ batch \in Seq(Nat) /\ InHand \in Seq(Nat)
                    /\ Waiting \in Seq(Nat) /\ Everything \in Seq(Nat)
  OBVIOUS
<1>1. /\ table \in Seq(Nat) /\ queue \in Seq(Nat) /\ spool \in Seq(Nat)
      /\ batch \in Seq(Nat)
  BY DEF PipelineTypeOK
<1>2. InHand \in Seq(Nat)
  BY <1>1, EmptySeq DEF InHand
<1>3. Waiting \in Seq(Nat)
  BY <1>1, <1>2, ConcatProperties DEF Waiting
<1> QED BY <1>1, <1>2, <1>3, ConcatProperties DEF Everything

\* Types are kept.
LEMMA PipelineTyped ==
    ASSUME PipelineTypeOK, PipelineNext
    PROVE  PipelineTypeOK'
<1> USE PipelineAssumption
<1>1. CASE Enqueue
  <2>1. logged + 1 \in Nat /\ Len(queue) \in Nat
    BY LenProperties DEF PipelineTypeOK
  <2>2. /\ Append(queue, logged + 1) \in Seq(Nat) /\ Len(Append(queue, logged + 1)) = Len(queue) + 1
        /\ Append(spool, logged + 1) \in Seq(Nat)
    BY <2>1, AppendProperties DEF PipelineTypeOK
  <2>3. queue' \in Seq(Nat) /\ Len(queue') <= QueueSize /\ spool' \in Seq(Nat) /\ spill' \in BOOLEAN
    <3>1. CASE /\ Len(queue) < QueueSize /\ queue' = Append(queue, logged + 1)
               /\ UNCHANGED <<spool, spill>>
      BY <2>1, <2>2, <3>1 DEF PipelineTypeOK
    <3>2. CASE spool' = Append(spool, logged + 1) /\ spill' = TRUE /\ UNCHANGED queue
      BY <2>1, <2>2, <3>2 DEF PipelineTypeOK
    <3> QED BY <1>1, <3>1, <3>2 DEF Enqueue
  <2> QED BY <1>1, <2>1, <2>3 DEF PipelineTypeOK, Enqueue
<1>2. CASE TakeRow
  <2>1. Head(queue) \in Nat /\ Tail(queue) \in Seq(Nat) /\ Len(Tail(queue)) = Len(queue) - 1
    BY <1>2, HeadTailProperties DEF PipelineTypeOK, TakeRow
  <2>2. Append(batch, Head(queue)) \in Seq(Nat) /\ Len(Append(batch, Head(queue))) = Len(batch) + 1
    BY <2>1, AppendProperties DEF PipelineTypeOK
  <2>3. Len(batch) \in Nat /\ Len(queue) \in Nat
    BY LenProperties DEF PipelineTypeOK
  <2> QED BY <1>2, <2>1, <2>2, <2>3 DEF PipelineTypeOK, TakeRow
<1>3. CASE WriteTaken
  BY <1>3 DEF PipelineTypeOK, WriteTaken, FlusherState
<1>4. CASE Peek
  <2>1. Len(spool) \in Nat
    BY LenProperties DEF PipelineTypeOK
  <2>2. PeekSize \in 0 .. Len(spool) /\ PeekSize <= BatchSize
    BY <2>1 DEF PeekSize
  <2>3. SubSeq(spool, 1, PeekSize) \in Seq(Nat) /\ Len(SubSeq(spool, 1, PeekSize)) = PeekSize
    BY <2>2, SplitSeq DEF PipelineTypeOK
  <2> QED BY <1>4, <2>2, <2>3 DEF PipelineTypeOK, Peek, FlusherState
<1>5. CASE Written
  <2>1. table \o batch \in Seq(Nat)
    BY ConcatProperties DEF PipelineTypeOK
  <2>2. Acked \in Seq(Nat)
    <3>1. Len(batch) \in Nat /\ Len(spool) \in Nat /\ \A i \in 1 .. Len(spool) : spool[i] \in Nat
      BY LenProperties, ElementOfSeq DEF PipelineTypeOK
    <3>2. SubSeq(spool, Len(batch) + 1, Len(spool)) \in Seq(Nat)
      BY <3>1, SubSeqProperties
    <3> QED BY <3>2 DEF PipelineTypeOK, Acked
  <2>3. <<>> \in Seq(Nat) /\ Len(<<>>) = 0
    BY EmptySeq
  <2> QED BY <1>5, <2>1, <2>2, <2>3 DEF PipelineTypeOK, Written, FlusherState
<1>6. CASE WriteFailed
  <2>1. (spool \o batch) \o queue \in Seq(Nat)
    BY ConcatProperties DEF PipelineTypeOK
  <2>2. <<>> \in Seq(Nat) /\ Len(<<>>) = 0
    BY EmptySeq
  <2>3. queue' \in Seq(Nat) /\ Len(queue') <= QueueSize /\ spool' \in Seq(Nat) /\ spill' \in BOOLEAN
    <3>1. CASE flusher = "queue"
      <4>1. queue' = <<>> /\ spool' = (spool \o batch) \o queue /\ spill'
        BY <1>6, <3>1 DEF WriteFailed, SpoolBehind
      <4> QED BY <2>1, <2>2, <4>1
    <3>2. CASE flusher = "spool"
      <4>1. UNCHANGED <<queue, spool, spill>>
        BY <1>6, <3>2 DEF WriteFailed
      <4> QED BY <4>1 DEF PipelineTypeOK
    <3> QED BY <1>6, <3>1, <3>2 DEF WriteFailed
  <2>4. disordered' \in BOOLEAN
    BY <1>6 DEF PipelineTypeOK, WriteFailed
  <2> QED BY <1>6, <2>2, <2>3, <2>4 DEF PipelineTypeOK, WriteFailed, FlusherState
<1>7. CASE ClearSpill
  BY <1>7 DEF PipelineTypeOK, ClearSpill
<1> QED BY <1>1, <1>2, <1>3, <1>4, <1>5, <1>6, <1>7 DEF PipelineNext, Flush

\* The shape of what is in the flusher's hands, and the spill mode, are kept.
LEMMA ShapeKept ==
    ASSUME PipelineTypeOK, SpooledIsSpilled, HandIsSound, PipelineNext
    PROVE  SpooledIsSpilled' /\ HandIsSound'
<1> /\ table \in Seq(Nat) /\ queue \in Seq(Nat) /\ spool \in Seq(Nat) /\ batch \in Seq(Nat)
  BY PartsTyped
<1>0. InHand \in Seq(Nat) /\ Waiting \in Seq(Nat) /\ Everything \in Seq(Nat)
  BY PartsTyped
<1>1. CASE Enqueue
  <2>1. CASE flusher = "spool"
    <3>1. PICK rest \in Seq(Nat) : spool = batch \o rest
      BY <2>1 DEF HandIsSound
    <3>2. batch # <<>> /\ queue = <<>>
      BY <2>1 DEF HandIsSound
    <3>3. spool # <<>>
      BY <3>1, <3>2, ConcatEqualIffEmpty
    <3>4. logged + 1 \in Nat
      BY DEF PipelineTypeOK
    <3>5. spill /\ spool' = Append(spool, logged + 1) /\ spill' /\ UNCHANGED <<queue, batch, flusher>>
      BY <1>1, <3>3 DEF Enqueue, SpooledIsSpilled
    <3>6. spool' = batch \o Append(rest, logged + 1)
      BY <3>1, <3>4, <3>5, AppendToConcat
    <3>7. Append(rest, logged + 1) \in Seq(Nat)
      BY <3>4, AppendProperties
    <3> QED BY <2>1, <3>2, <3>5, <3>6, <3>7 DEF SpooledIsSpilled, HandIsSound
  <2>2. CASE flusher # "spool"
    BY <1>1, <2>2 DEF Enqueue, SpooledIsSpilled, HandIsSound
  <2> QED BY <2>1, <2>2
<1>2. CASE TakeRow
  BY <1>2 DEF TakeRow, SpooledIsSpilled, HandIsSound
<1>3. CASE WriteTaken
  BY <1>3 DEF WriteTaken, SpooledIsSpilled, HandIsSound
<1>4. CASE Peek
  <2>1. Len(spool) \in Nat \ {0}
    BY <1>4, EmptySeq DEF Peek
  <2>2. PeekSize \in 1 .. Len(spool)
    BY <2>1, PipelineAssumption DEF PeekSize
  <2>3. /\ Len(batch') = PeekSize
        /\ spool = batch' \o SubSeq(spool, PeekSize + 1, Len(spool))
        /\ SubSeq(spool, PeekSize + 1, Len(spool)) \in Seq(Nat)
    BY <1>4, <2>1, <2>2, SplitSeq DEF Peek
  <2>4. batch' # <<>>
    BY <2>2, <2>3, EmptySeq
  <2>5. HandIsSound'
    BY <1>4, <2>3, <2>4 DEF Peek, HandIsSound
  <2> QED BY <1>4, <2>5 DEF Peek, SpooledIsSpilled
<1>5. CASE Written
  <2>1. CASE flusher = "spool"
    <3>1. PICK rest \in Seq(Nat) : spool = batch \o rest
      BY <2>1 DEF HandIsSound
    <3>2. spool # <<>>
      BY <2>1, <3>1, ConcatEqualIffEmpty DEF HandIsSound
    <3> QED BY <1>5, <3>2 DEF Written, SpooledIsSpilled, HandIsSound
  <2>2. CASE flusher # "spool"
    BY <1>5, <2>2 DEF Written, Acked, SpooledIsSpilled, HandIsSound
  <2> QED BY <2>1, <2>2
<1>6. CASE WriteFailed
  BY <1>6 DEF WriteFailed, SpooledIsSpilled, HandIsSound
<1>7. CASE ClearSpill
  BY <1>7 DEF ClearSpill, SpooledIsSpilled, HandIsSound
<1> QED BY <1>1, <1>2, <1>3, <1>4, <1>5, <1>6, <1>7 DEF PipelineNext, Flush

\* A new row comes last.
LEMMA EnqueueAppends ==
    ASSUME PipelineTypeOK, SpooledIsSpilled, HandIsSound, Enqueue
    PROVE  Everything' = Append(Everything, logged + 1)
<1> /\ table \in Seq(Nat) /\ queue \in Seq(Nat) /\ spool \in Seq(Nat) /\ batch \in Seq(Nat)
  BY PartsTyped
<1>0. InHand \in Seq(Nat) /\ Waiting \in Seq(Nat) /\ Everything \in Seq(Nat)
  BY PartsTyped
<1>1. logged + 1 \in Nat
  BY DEF PipelineTypeOK
<1>2. InHand' = InHand /\ table' = table
  BY DEF Enqueue, InHand
<1>3. InHand \o queue \in Seq(Nat)
  BY <1>0, ConcatProperties
<1>4. Waiting' = Append(Waiting, logged + 1)
  <2>1. CASE queue' = Append(queue, logged + 1) /\ UNCHANGED spool /\ ~spill
    <3>1. spool = <<>> /\ spool' = <<>>
      BY <2>1 DEF SpooledIsSpilled
    <3>2. InHand \o Append(queue, logged + 1) = Append(InHand \o queue, logged + 1)
      BY <1>0, <1>1, AppendToConcat
    <3>3. Append(InHand \o queue, logged + 1) \in Seq(Nat)
      BY <1>1, <1>3, AppendProperties
    <3> QED BY <1>2, <1>3, <2>1, <3>1, <3>2, <3>3, ConcatEmptySeq DEF Waiting
  <2>2. CASE spool' = Append(spool, logged + 1) /\ UNCHANGED queue
    BY <1>1, <1>2, <1>3, <2>2, AppendToConcat DEF Waiting
  <2> QED BY <2>1, <2>2 DEF Enqueue
<1> QED BY <1>0, <1>1, <1>2, <1>4, AppendToConcat DEF Everything

\* A successful write moves the boundary behind the batch.
LEMMA WrittenMovesBoundary ==
    ASSUME PipelineTypeOK, HandIsSound, Written
    PROVE  Everything' = Everything
<1> /\ table \in Seq(Nat) /\ queue \in Seq(Nat) /\ spool \in Seq(Nat) /\ batch \in Seq(Nat)
  BY PartsTyped
<1>0. InHand \in Seq(Nat) /\ Waiting \in Seq(Nat) /\ Everything \in Seq(Nat)
  BY PartsTyped
<1>1. InHand' = <<>> /\ table' = table \o batch /\ queue' = queue
  BY DEF Written, InHand
<1>2. Waiting = batch \o Waiting' /\ Waiting' \in Seq(Nat)
  <2>1. CASE flusher = "spool"
    <3>1. PICK rest \in Seq(Nat) : spool = batch \o rest
      BY <2>1 DEF HandIsSound
    <3>2. spool' = rest
      BY <2>1, <3>1, RestOfConcat DEF Written, Acked
    <3>3. queue = <<>> /\ InHand = <<>>
      BY <2>1 DEF HandIsSound, InHand
    <3>4. Waiting = spool /\ Waiting' = rest
      BY <1>1, <3>2, <3>3, ConcatEmptySeq DEF Waiting
    <3> QED BY <3>1, <3>4
  <2>2. CASE flusher # "spool"
    <3>1. InHand = batch /\ spool' = spool
      BY <2>2 DEF Written, Acked, InHand
    <3>2. <<>> \o queue = queue
      BY ConcatEmptySeq
    <3>3. Waiting' = queue \o spool
      BY <1>1, <3>1, <3>2 DEF Waiting
    <3>4. (batch \o queue) \o spool = batch \o (queue \o spool)
      BY Associative
    <3> QED BY <3>1, <3>3, <3>4, ConcatProperties DEF Waiting
  <2> QED BY <2>1, <2>2
<1>3. (table \o batch) \o Waiting' = table \o (batch \o Waiting')
  BY ZenonT(60), <1>2, Associative
<1> QED BY <1>1, <1>2, <1>3 DEF Everything

\* A failed write of a batch of the queue exchanges the spool with the rows before it.
LEMMA FailureExchanges ==
    ASSUME PipelineTypeOK, WriteFailed, flusher = "queue"
    PROVE  /\ Everything = table \o ((batch \o queue) \o spool)
           /\ Everything' = table \o (spool \o (batch \o queue))
<1> /\ table \in Seq(Nat) /\ queue \in Seq(Nat) /\ spool \in Seq(Nat) /\ batch \in Seq(Nat)
  BY PartsTyped
<1>0. InHand \in Seq(Nat) /\ Waiting \in Seq(Nat) /\ Everything \in Seq(Nat)
  BY PartsTyped
<1>1. InHand = batch /\ InHand' = <<>> /\ queue' = <<>> /\ table' = table
  BY DEF WriteFailed, SpoolBehind, InHand
<1>2. spool' = (spool \o batch) \o queue
  BY DEF WriteFailed, SpoolBehind
<1>3. spool' = spool \o (batch \o queue) /\ spool' \in Seq(Nat)
  <2>1. batch \o queue \in Seq(Nat)
    BY ConcatProperties
  <2>2. spool \o (batch \o queue) \in Seq(Nat)
    BY <2>1, ConcatProperties
  <2> QED BY ZenonT(60), <1>2, <2>2, Associative
<1>4. Waiting' = spool'
  <2>1. <<>> \o <<>> = <<>>
    BY EmptySeq, ConcatEmptySeq
  <2> QED BY <1>1, <1>3, <2>1, ConcatEmptySeq DEF Waiting
<1> QED BY <1>1, <1>3, <1>4 DEF Everything, Waiting

\* The other steps of the flusher leave Everything alone.
LEMMA OthersKeep ==
    ASSUME PipelineTypeOK,
           \/ TakeRow \/ WriteTaken \/ Peek \/ ClearSpill
           \/ WriteFailed /\ flusher = "spool"
    PROVE  Everything' = Everything
<1> /\ table \in Seq(Nat) /\ queue \in Seq(Nat) /\ spool \in Seq(Nat) /\ batch \in Seq(Nat)
  BY PartsTyped
<1>1. CASE TakeRow
  <2>1. InHand = batch /\ InHand' = Append(batch, Head(queue)) /\ queue' = Tail(queue)
    BY <1>1 DEF TakeRow, InHand
  <2>2. Append(batch, Head(queue)) \o Tail(queue) = batch \o queue
    BY <1>1, MoveHead DEF TakeRow
  <2> QED BY <1>1, <2>1, <2>2 DEF TakeRow, Everything, Waiting
<1>2. CASE WriteTaken
  BY <1>2 DEF WriteTaken, Everything, Waiting, InHand
<1>3. CASE Peek
  BY <1>3 DEF Peek, Everything, Waiting, InHand
<1>4. CASE ClearSpill
  BY <1>4 DEF ClearSpill, Everything, Waiting, InHand
<1>5. CASE WriteFailed /\ flusher = "spool"
  BY <1>5 DEF WriteFailed, Everything, Waiting, InHand
<1> QED BY <1>1, <1>2, <1>3, <1>4, <1>5

\* A step leaves Everything alone, appends to it, or gives up the order.
LEMMA StepOfEverything ==
    ASSUME PipelineInv, PipelineNext
    PROVE  \/ Everything' = Everything /\ UNCHANGED <<logged, disordered>>
           \/ Everything' = Append(Everything, logged + 1) /\ logged' = logged + 1 /\ UNCHANGED disordered
           \/ Permutes(Everything', logged) /\ UNCHANGED logged /\ disordered'
<1> USE DEF PipelineInv
<1> /\ table \in Seq(Nat) /\ queue \in Seq(Nat) /\ spool \in Seq(Nat) /\ batch \in Seq(Nat)
  BY PartsTyped
<1>1. CASE Enqueue
  BY <1>1, EnqueueAppends DEF Enqueue
<1>2. CASE TakeRow \/ WriteTaken \/ Peek \/ ClearSpill \/ (WriteFailed /\ flusher = "spool")
  <2>1. UNCHANGED <<logged, disordered>>
    BY <1>2 DEF TakeRow, WriteTaken, Peek, ClearSpill, WriteFailed
  <2> QED BY <1>2, <2>1, OthersKeep
<1>3. CASE Written
  BY <1>3, WrittenMovesBoundary DEF Written
<1>4. CASE WriteFailed /\ flusher = "queue"
  <2> DEFINE front == batch \o queue
  <2>1. /\ Everything = table \o (front \o spool)
        /\ Everything' = table \o (spool \o front)
    BY <1>4, FailureExchanges
  <2>2. UNCHANGED logged /\ logged \in Nat /\ front \in Seq(Nat)
    BY <1>4, ConcatProperties DEF WriteFailed, PipelineTypeOK
  <2> HIDE DEF front
  <2>3. CASE spool # <<>>
    <3>1. disordered'
      BY <1>4, <2>3 DEF WriteFailed
    <3>2. Permutes(table \o (front \o spool), logged)
      BY <2>1
    <3>3. Permutes(table \o (spool \o front), logged)
      BY <2>2, <3>2, PermutesExchange
    <3> QED BY <2>1, <2>2, <3>1, <3>3
  <2>4. CASE spool = <<>>
    <3>1. disordered' = disordered
      BY <1>4, <2>4 DEF WriteFailed, PipelineTypeOK
    <3>2. front \o spool = front /\ spool \o front = front
      BY <2>2, <2>4, ConcatEmptySeq
    <3> QED BY <2>1, <2>2, <3>1, <3>2
  <2> QED BY <2>3, <2>4
<1>5. WriteFailed => flusher \in {"queue", "spool"}
  BY DEF WriteFailed
<1> QED BY <1>1, <1>2, <1>3, <1>4, <1>5 DEF PipelineNext, Flush

LEMMA PipelineInitInv == PipelineInit => PipelineInv
<1> SUFFICES ASSUME PipelineInit PROVE PipelineInv
  OBVIOUS
<1>1. PipelineTypeOK
  <2>1. <<>> \in Seq(Nat) /\ Len(<<>>) = 0
    BY EmptySeq
  <2>2. queue \in Seq(Nat) /\ Len(queue) <= QueueSize /\ batch \in Seq(Nat) /\ Len(batch) <= BatchSize
        /\ spool \in Seq(Nat) /\ table \in Seq(Nat)
    BY <2>1, PipelineAssumption DEF PipelineInit
  <2>3. spill \in BOOLEAN /\ disordered \in BOOLEAN /\ flusher \in FlusherState
    BY DEF PipelineInit, FlusherState
  <2>4. logged \in Nat /\ failures \in 0 .. MaxFailures
    BY PipelineAssumption DEF PipelineInit
  <2> QED BY <2>2, <2>3, <2>4 DEF PipelineTypeOK
<1>2. SpooledIsSpilled /\ HandIsSound
  BY DEF PipelineInit, SpooledIsSpilled, HandIsSound
<1>3. Everything = <<>>
  BY EmptySeq, ConcatEmptySeq DEF PipelineInit, Everything, Waiting, InHand
<1>4. Permutes(<<>>, 0)
  BY EmptySeq DEF Permutes
<1>5. Permutes(Everything, logged)
  BY <1>3, <1>4 DEF PipelineInit
<1>6. PipelineInOrder
  BY <1>3, EmptySeq DEF PipelineInit, PipelineInOrder, Everything
<1> QED BY <1>1, <1>2, <1>5, <1>6 DEF PipelineInv

LEMMA PipelineNextInv == PipelineInv /\ [PipelineNext]_pipeline => PipelineInv'
<1> SUFFICES ASSUME PipelineInv, [PipelineNext]_pipeline PROVE PipelineInv'
  OBVIOUS
<1>1. CASE UNCHANGED pipeline
  <2>1. UNCHANGED <<queue, spool, spill, batch, flusher, table, logged, disordered, failures>>
    BY <1>1 DEF pipeline
  <2>2. UNCHANGED <<Waiting, Everything>>
    BY <2>1 DEF Everything, Waiting, InHand
  <2>3. PipelineTypeOK' /\ SpooledIsSpilled' /\ HandIsSound'
    BY <2>1 DEF PipelineInv, PipelineTypeOK, SpooledIsSpilled, HandIsSound
  <2>4. Permutes(Everything', logged')
    BY <2>1, <2>2 DEF PipelineInv
  <2>5. PipelineInOrder'
    BY <2>1, <2>2 DEF PipelineInv, PipelineInOrder
  <2> QED BY <2>3, <2>4, <2>5 DEF PipelineInv
<1>2. CASE PipelineNext
  <2>1. PipelineTypeOK'
    BY <1>2, PipelineTyped DEF PipelineInv
  <2>2. SpooledIsSpilled' /\ HandIsSound'
    BY <1>2, ShapeKept DEF PipelineInv
  <2>3. logged \in Nat /\ Everything \in Seq(Nat)
    BY PartsTyped DEF PipelineInv, PipelineTypeOK
  <2>4. Permutes(Everything, logged)
    BY DEF PipelineInv
  <2>5. ~disordered => Len(Everything) = logged /\ \A i \in 1 .. logged : Everything[i] = i
    BY DEF PipelineInv, PipelineInOrder, Everything
  <2>6. CASE Everything' = Everything /\ UNCHANGED <<logged, disordered>>
    BY <2>1, <2>2, <2>4, <2>5, <2>6 DEF PipelineInv, PipelineInOrder, Everything
  <2>7. CASE Everything' = Append(Everything, logged + 1) /\ logged' = logged + 1 /\ UNCHANGED disordered
    <3>1. Permutes(Everything', logged')
      BY <2>3, <2>4, <2>7, PermutesAppend
    <3>2. ~disordered => Len(Everything') = logged + 1 /\ \A i \in 1 .. logged + 1 : Everything'[i] = i
      BY <2>3, <2>5, <2>7, AppendProperties
    <3> QED BY <2>1, <2>2, <2>7, <3>1, <3>2 DEF PipelineInv, PipelineInOrder, Everything
  <2>8. CASE Permutes(Everything', logged) /\ UNCHANGED logged /\ disordered'
    BY <2>1, <2>2, <2>8 DEF PipelineInv, PipelineInOrder
  <2> QED BY <1>2, <2>6, <2>7, <2>8, StepOfEverything
<1> QED BY <1>1, <1>2

\* What the inductive invariant says of the rows: each is in one place.
LEMMA PipelineInvImplies ==
    ASSUME PipelineInv
    PROVE  NothingLost /\ StoredInOrder
<1>1. /\ table \in Seq(Nat) /\ queue \in Seq(Nat) /\ spool \in Seq(Nat)
      /\ InHand \in Seq(Nat) /\ Waiting \in Seq(Nat) /\ InHand \o queue \in Seq(Nat)
  BY PartsTyped, ConcatProperties DEF PipelineInv
<1>2. Rows(Everything) = Rows(table) \cup Rows(InHand) \cup Rows(queue) \cup Rows(spool)
  <2>1. Rows(Everything) = Rows(table) \cup Rows(Waiting)
    BY <1>1, RowsOfConcat DEF Everything
  <2>2. Rows(Waiting) = Rows(InHand \o queue) \cup Rows(spool)
    BY <1>1, RowsOfConcat DEF Waiting
  <2>3. Rows(InHand \o queue) = Rows(InHand) \cup Rows(queue)
    BY <1>1, RowsOfConcat
  <2> QED BY <2>1, <2>2, <2>3
<1>3. Len(Everything) = Len(table) + Len(Waiting)
  BY <1>1, ConcatProperties DEF Everything
<1>4. Len(Waiting) = Len(InHand) + Len(queue) + Len(spool)
  <2>1. Len(InHand \o queue) = Len(InHand) + Len(queue)
    BY <1>1, ConcatProperties
  <2>2. Len(Waiting) = Len(InHand \o queue) + Len(spool)
    BY <1>1, ConcatProperties DEF Waiting
  <2> QED BY <2>1, <2>2
<1>5. Permutes(Everything, logged)
  BY DEF PipelineInv
<1>6. Rows(Everything) = 1 .. logged
  BY <1>5 DEF Permutes, Rows
<1>7. /\ Len(table) \in Nat /\ Len(InHand) \in Nat /\ Len(queue) \in Nat /\ Len(spool) \in Nat
      /\ Len(Everything) = logged /\ logged \in Nat
  BY <1>1, <1>5, LenProperties DEF Permutes, PipelineInv, PipelineTypeOK
<1>8. NothingLost
  BY <1>2, <1>3, <1>4, <1>6, <1>7 DEF NothingLost
<1>9. StoredInOrder
  <2>1. ~disordered => \A i \in 1 .. logged : Everything[i] = i
    BY DEF PipelineInv, PipelineInOrder, Everything
  <2>2. Len(table) <= logged
    BY <1>3, <1>4, <1>7
  <2>3. \A i \in 1 .. Len(table) : Everything[i] = table[i]
    BY <1>1, <1>3, <1>4, <1>7, ConcatProperties DEF Everything
  <2> QED BY <1>7, <2>1, <2>2, <2>3 DEF StoredInOrder
<1> QED BY <1>8, <1>9

-----------------------------------------------------------------------------
(* Theorems *)

\* The inductive invariant holds in every state of the pipeline.
THEOREM PipelineInvariant == PipelineSpec => []PipelineInv
<1> QED BY PipelineInitInv, PipelineNextInv, PTL DEF PipelineSpec

\* Whatever writes fail, every row is in one place (_log_flush_loop retries without
\* loss), and rows are stored in their order until a batch is put behind newer rows.
THEOREM PipelineSafety == PipelineSpec => [](NothingLost /\ StoredInOrder)
<1> QED BY PipelineInvariant, PipelineInvImplies, PTL

\* The pipeline implements the log store.
LEMMA StoreInit == PipelineInit => Store!Init
<1> QED BY DEF PipelineInit, Store!Init

\* What a write appends are the next rows, or rows not stored before.
LEMMA WrittenStores ==
    ASSUME PipelineInv, PipelineInv', Written
    PROVE  Store!StoreNext \/ Store!StoreAny
<1>1. /\ table \in Seq(Nat) /\ batch \in Seq(Nat) /\ logged \in Nat /\ disordered \in BOOLEAN
      /\ table' = table \o batch /\ UNCHANGED <<logged, disordered>> /\ batch # <<>>
  BY DEF PipelineInv, PipelineTypeOK, HandIsSound, Written
<1>2. /\ Len(table) \in Nat /\ Len(batch) \in Nat \ {0}
      /\ Len(table') = Len(table) + Len(batch)
      /\ \A i \in 1 .. Len(table) : table'[i] = table[i]
  BY <1>1, ConcatProperties, LenProperties, EmptySeq
<1>3. /\ Everything' = table' \o Waiting'
      /\ table' \in Seq(Nat) /\ Waiting' \in Seq(Nat)
  <2>1. table' \in Seq(Nat) /\ queue' \in Seq(Nat) /\ spool' \in Seq(Nat)
    BY DEF PipelineInv, PipelineTypeOK
  <2>2. InHand' = <<>> /\ <<>> \in Seq(Nat)
    BY EmptySeq DEF Written, InHand
  <2> QED BY <2>1, <2>2, ConcatProperties DEF Everything, Waiting
<1>4. /\ Len(table') <= logged
      /\ \A i \in 1 .. Len(table') : Everything'[i] = table'[i]
  <2>1. Len(Everything') = logged
    BY <1>1 DEF PipelineInv, Permutes
  <2>2. /\ Len(Everything') = Len(table') + Len(Waiting')
        /\ Len(table') \in Nat /\ Len(Waiting') \in Nat
        /\ \A i \in 1 .. Len(table') + Len(Waiting') :
              Everything'[i] = IF i <= Len(table') THEN table'[i] ELSE Waiting'[i - Len(table')]
    BY <1>3, ConcatProperties, LenProperties
  <2> QED BY <2>1, <2>2
<1>5. CASE ~disordered
  <2> DEFINE n == Len(batch)
             next == [i \in 1 .. n |-> Len(table) + i]
  <2>1. n \in 1 .. logged - Len(table)
    BY <1>1, <1>2, <1>4
  <2>2. \A i \in 1 .. logged : Everything'[i] = i
    BY <1>1, <1>5 DEF PipelineInv, PipelineInOrder, Everything
  <2>3. \A i \in 1 .. n : batch[i] = Len(table) + i
    <3> TAKE i \in 1 .. n
    <3>1. Len(table) + i \in 1 .. Len(table') /\ Len(table) + i \in 1 .. logged
      BY <1>1, <1>2, <1>4
    <3>2. (table \o batch)[Len(table) + i] = batch[Len(table) + i - Len(table)]
      <4>1. Len(table) + i \in 1 .. Len(table) + Len(batch) /\ ~(Len(table) + i <= Len(table))
        BY <1>2
      <4> QED BY <1>1, <4>1, ConcatProperties
    <3>3. Len(table) + i - Len(table) = i
      BY <1>2
    <3> QED BY <1>1, <1>4, <2>2, <3>1, <3>2, <3>3
  <2>4. batch = next
    <3>1. batch = [i \in 1 .. n |-> batch[i]]
      BY <1>1, LenProperties
    <3> QED BY <2>3, <3>1
  <2>5. table' = table \o Store!NextRows(n)
    BY <1>1, <2>4 DEF Store!NextRows
  <2> QED BY <1>1, <2>1, <2>5 DEF Store!StoreNext
<1>6. CASE disordered
  <2>1. /\ \A i \in 1 .. logged : Everything'[i] \in 1 .. logged
        /\ \A i, j \in 1 .. logged : Everything'[i] = Everything'[j] => i = j
    BY <1>1 DEF PipelineInv, Permutes
  <2>2. \A i \in Len(table) + 1 .. Len(table') :
          /\ table'[i] \in 1 .. logged
          /\ \A j \in 1 .. i - 1 : table'[j] # table'[i]
    <3> TAKE i \in Len(table) + 1 .. Len(table')
    <3>1. /\ i \in 1 .. Len(table') /\ i \in 1 .. logged
          /\ \A j \in 1 .. i - 1 : j \in 1 .. Len(table') /\ j \in 1 .. logged /\ j # i
      BY <1>1, <1>2, <1>4
    <3> QED BY <1>4, <2>1, <3>1
  <2> QED BY <1>1, <1>2, <1>6, <2>2 DEF Store!StoreAny
<1> QED BY <1>1, <1>5, <1>6

LEMMA StoreStep ==
    PipelineInv /\ PipelineInv' /\ [PipelineNext]_pipeline => [Store!Next]_Store!store
<1> SUFFICES ASSUME PipelineInv, PipelineInv', [PipelineNext]_pipeline
             PROVE  [Store!Next]_Store!store
  OBVIOUS
<1>1. CASE UNCHANGED pipeline \/ TakeRow \/ WriteTaken \/ Peek \/ ClearSpill
  <2>1. UNCHANGED <<logged, table, disordered>>
    BY <1>1 DEF pipeline, TakeRow, WriteTaken, Peek, ClearSpill
  <2> QED BY <2>1 DEF Store!store
<1>2. CASE Enqueue
  BY <1>2 DEF Enqueue, Store!Next, Store!Accept
<1>3. CASE Written
  BY <1>3, WrittenStores DEF Store!Next
<1>4. CASE WriteFailed
  <2>1. disordered \in BOOLEAN /\ disordered' \in BOOLEAN /\ UNCHANGED <<table, logged>>
        /\ (disordered => disordered')
    BY <1>4 DEF PipelineInv, PipelineTypeOK, WriteFailed
  <2>2. CASE disordered' = disordered
    BY <2>1, <2>2 DEF Store!store
  <2>3. CASE disordered'
    BY <2>1, <2>3 DEF Store!Next, Store!GiveUpOrder
  <2> QED BY <2>1, <2>2, <2>3
<1> QED BY <1>1, <1>2, <1>3, <1>4 DEF PipelineNext, Flush

\* Whatever is spooled, put back and tried again, the pipeline implements the store.
THEOREM PipelineImplementsLogStore == PipelineSpec => ImplementsLogStore
<1> QED BY StoreInit, StoreStep, PipelineInvariant, PTL DEF PipelineSpec, ImplementsLogStore, Store!Spec
=============================================================================
