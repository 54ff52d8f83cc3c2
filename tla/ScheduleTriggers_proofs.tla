----------------------- MODULE ScheduleTriggers_proofs -----------------------
(***************************************************************************)
(* A slot of a schedule is handled once; a worker is paused for as many    *)
(* failures in a row as the policy asks for, and in time; and a failure    *)
(* that lasts is recorded once.  For any number of workers, schedule rows, *)
(* changes and faults, and, but for the last, of schedulers.               *)
(***************************************************************************)
EXTENDS ScheduleTriggers, SequenceTheorems, FiniteSetTheorems, WellFoundedInduction, TLAPS

-----------------------------------------------------------------------------
(* Types *)

TickRow == [pc : Pc, now : Nat, todo : Seq(Item), mirror : Seq(Item), seen : SUBSET Workers,
            code : Code, legacy : BOOLEAN]

TableType ==
    /\ trigger \in [Triggers -> TriggerRow]
    /\ worker \in [Workers -> WorkerRow]
    /\ runs \in Seq(RunRow)
    /\ \A i \in DOMAIN runs : runs[i].code = "scheduler_row_error" => runs[i].status = "failed"
RestType ==
    /\ setup \in [Workers -> SetupCode \cup {"none"}]
    /\ capped \in BOOLEAN
    /\ clock \in 0 .. MaxTime
    /\ changes \in Nat /\ faults \in Nat /\ changes + faults <= MaxEvents
    /\ crossed \subseteq Workers /\ overtaken \subseteq Workers

\* A tick that is at a row has one, read the time before, and knows whose row it is.
TickOK(s) ==
    /\ tick[s].now <= clock
    /\ tick[s].pc \notin {"idle", "listing", "mirroring", "legacy"} => tick[s].todo # <<>>
    /\ \A i \in DOMAIN tick[s].todo :
          LET x == tick[s].todo[i] IN x.trigger # Nobody => x.worker = WorkerOf[x.trigger]
TickType ==
    /\ tick \in [Schedulers -> TickRow]
    /\ \A s \in Schedulers : TickOK(s)

TypeInv == TableType /\ RestType /\ TickType

\* What a step of a tick leaves of the others.
OnlyTick(s) == \A s2 \in Schedulers \ {s} : tick'[s2] = tick[s2]

\* The next time a schedule is due is later.
LEMMA NextIsLater ==
    \A p \in Nat \ {0}, t \in Nat : NextAfter(p, t) \in Nat /\ NextAfter(p, t) > t
  BY SMTT(30) DEF NextAfter

LEMMA CurType ==
    ASSUME TypeInv, NEW s \in Schedulers, tick[s].todo # <<>>
    PROVE  /\ Cur(s) \in Item
           /\ Cur(s) = tick[s].todo[1] /\ 1 \in DOMAIN tick[s].todo
           /\ Cur(s).worker \in Workers /\ Cur(s).trigger \in Triggers \cup {Nobody}
           /\ Cur(s).trigger # Nobody => Cur(s).worker = WorkerOf[Cur(s).trigger]
           /\ NewNext(s) \in Nat /\ NewNext(s) > tick[s].now
           /\ Cur(s).next \in Time
<1> DEFINE q == tick[s].todo
<1>1. q \in Seq(Item) /\ q # <<>>
  BY DEF TypeInv, TickType, TickRow
<1>2. Head(q) \in Item /\ Head(q) = q[1] /\ 1 \in DOMAIN q
  BY <1>1
<1>3. /\ Cur(s) \in Item /\ Cur(s) = tick[s].todo[1] /\ 1 \in DOMAIN tick[s].todo
  BY <1>2 DEF Cur
<1>4. /\ Cur(s).worker \in Workers /\ Cur(s).trigger \in Triggers \cup {Nobody}
      /\ Cur(s).period \in Periods /\ Cur(s).next \in Time
  BY <1>3 DEF Item
<1>5. Cur(s).trigger # Nobody => Cur(s).worker = WorkerOf[Cur(s).trigger]
  BY <1>3 DEF TypeInv, TickType, TickOK
<1>6. tick[s].now \in Nat /\ Cur(s).period \in Nat \ {0}
  BY <1>4, ConstantsAssumption DEF TypeInv, TickType, TickRow
<1> QED
  BY <1>3, <1>4, <1>5, <1>6, NextIsLater DEF NewNext

\* A tick that stays at its row.
LEMMA BlameType ==
    ASSUME TypeInv, NEW s \in Schedulers, NEW pc \in Pc, NEW code \in Code,
           Blame(s, pc, code),
           tick[s].todo # <<>> \/ pc \in {"idle", "listing", "mirroring", "legacy"},
           clock' = clock
    PROVE  /\ TickType' /\ OnlyTick(s)
           /\ tick'[s].pc = pc /\ tick'[s].code = code /\ tick'[s].now = tick[s].now
           /\ tick'[s].todo = tick[s].todo /\ tick'[s].seen = tick[s].seen
           /\ tick'[s].mirror = tick[s].mirror
<1>1. tick[s] \in TickRow /\ tick \in [Schedulers -> TickRow]
  BY DEF TypeInv, TickType
<1>2. tick' = [tick EXCEPT ![s] = [tick[s] EXCEPT !.pc = pc, !.code = code]]
  BY <1>1 DEF Blame
<1>3. tick'[s] = [tick[s] EXCEPT !.pc = pc, !.code = code] /\ OnlyTick(s)
  BY <1>1, <1>2 DEF OnlyTick
<1>4. tick'[s] \in TickRow /\ tick' \in [Schedulers -> TickRow]
  <2>1. [tick[s] EXCEPT !.pc = pc, !.code = code] \in TickRow
    BY <1>1 DEF TickRow
  <2> QED
    BY <1>1, <1>2, <1>3, <2>1
<1>5. /\ tick'[s].pc = pc /\ tick'[s].code = code /\ tick'[s].now = tick[s].now
      /\ tick'[s].todo = tick[s].todo /\ tick'[s].seen = tick[s].seen
      /\ tick'[s].mirror = tick[s].mirror
  BY <1>1, <1>3 DEF TickRow
<1>6. \A s2 \in Schedulers : TickOK(s2)'
  <2> SUFFICES ASSUME NEW s2 \in Schedulers PROVE TickOK(s2)'
    OBVIOUS
  <2>1. TickOK(s2)
    BY DEF TypeInv, TickType
  <2>2. CASE s2 = s
    BY <1>5, <2>1, <2>2 DEF TickOK
  <2>3. CASE s2 # s
    BY <1>3, <2>1, <2>3 DEF TickOK, OnlyTick
  <2> QED
    BY <2>2, <2>3
<1> QED
  BY <1>3, <1>4, <1>5, <1>6 DEF TickType

LEMMA GotoType ==
    ASSUME TypeInv, NEW s \in Schedulers, NEW pc \in Pc, Goto(s, pc),
           tick[s].todo # <<>> \/ pc \in {"idle", "listing", "mirroring", "legacy"},
           clock' = clock
    PROVE  /\ TickType' /\ OnlyTick(s)
           /\ tick'[s].pc = pc /\ tick'[s].code = tick[s].code /\ tick'[s].now = tick[s].now
           /\ tick'[s].todo = tick[s].todo /\ tick'[s].seen = tick[s].seen
           /\ tick'[s].mirror = tick[s].mirror
<1>1. tick[s] \in TickRow /\ tick \in [Schedulers -> TickRow]
  BY DEF TypeInv, TickType
<1>2. tick[s].code \in Code
  BY <1>1 DEF TickRow
<1>3. Blame(s, pc, tick[s].code)
  <2>1. tick' = [tick EXCEPT ![s] = [tick[s] EXCEPT !.pc = pc]]
    BY <1>1 DEF Goto
  <2>2. [tick[s] EXCEPT !.pc = pc] = [tick[s] EXCEPT !.pc = pc, !.code = tick[s].code]
    BY <1>1 DEF TickRow
  <2>3. [tick EXCEPT ![s].pc = pc, ![s].code = tick[s].code]
        = [tick EXCEPT ![s] = [tick[s] EXCEPT !.pc = pc, !.code = tick[s].code]]
    BY <1>1
  <2> QED
    BY <2>1, <2>2, <2>3 DEF Blame
<1> QED
  BY <1>2, <1>3, BlameType

\* A tick that goes on to its next row.
LEMMA DoneType ==
    ASSUME TypeInv, NEW s \in Schedulers, NEW next \in Time, Done(s, next),
           tick[s].todo # <<>>, clock' = clock
    PROVE  /\ TickType' /\ OnlyTick(s)
           /\ tick'[s].pc \in {"row", "idle", "mirroring"} /\ tick'[s].now = tick[s].now
           /\ tick'[s].seen = tick[s].seen
           /\ \A i \in DOMAIN tick'[s].todo : \E j \in DOMAIN tick[s].todo :
                 tick'[s].todo[i] = tick[s].todo[j]
<1> DEFINE rest == Tail(tick[s].todo)
           pc == IF rest # <<>> THEN "row" ELSE IF tick[s].legacy THEN "idle" ELSE "mirroring"
           item == [Cur(s) EXCEPT !.next = next]
<1>1. tick[s] \in TickRow /\ tick \in [Schedulers -> TickRow] /\ tick[s].todo \in Seq(Item)
      /\ tick[s].mirror \in Seq(Item)
  BY DEF TypeInv, TickType, TickRow
<1>2. Cur(s) \in Item
  BY CurType
<1>3. item \in Item
  BY <1>2 DEF Item
<1>4. rest \in Seq(Item) /\ Len(rest) = Len(tick[s].todo) - 1
      /\ \A i \in 1 .. Len(rest) : rest[i] = tick[s].todo[i + 1]
  BY <1>1
<1> HIDE DEF item, rest
<1>5. Append(tick[s].mirror, item) \in Seq(Item)
  BY <1>1, <1>3
<1>6. tick'[s] = [tick[s] EXCEPT !.todo = rest, !.mirror = Append(tick[s].mirror, item),
                                 !.code = "none", !.pc = pc]
      /\ OnlyTick(s) /\ tick' \in [Schedulers -> TickRow]
  <2>1. tick' = [tick EXCEPT ![s] = [tick[s] EXCEPT !.todo = rest,
                    !.mirror = Append(tick[s].mirror, item), !.code = "none", !.pc = pc]]
    BY <1>1 DEF Done, rest, item
  <2>2. [tick[s] EXCEPT !.todo = rest, !.mirror = Append(tick[s].mirror, item),
                        !.code = "none", !.pc = pc] \in TickRow
    BY <1>1, <1>4, <1>5 DEF TickRow, Code, Pc
  <2> QED
    BY <1>1, <2>1, <2>2 DEF OnlyTick
<1>7. /\ tick'[s].pc = pc /\ tick'[s].now = tick[s].now /\ tick'[s].todo = rest
      /\ tick'[s].seen = tick[s].seen
  BY <1>1, <1>6 DEF TickRow
<1>8. \A i \in DOMAIN rest : \E j \in DOMAIN tick[s].todo : rest[i] = tick[s].todo[j]
  BY <1>1, <1>4
<1>9. \A s2 \in Schedulers : TickOK(s2)'
  <2> SUFFICES ASSUME NEW s2 \in Schedulers PROVE TickOK(s2)'
    OBVIOUS
  <2>1. TickOK(s2)
    BY DEF TypeInv, TickType
  <2>2. CASE s2 = s
    BY <1>7, <1>8, <2>1, <2>2 DEF TickOK
  <2>3. CASE s2 # s
    BY <1>6, <2>1, <2>3 DEF TickOK, OnlyTick
  <2> QED
    BY <2>2, <2>3
<1> QED
  BY <1>6, <1>7, <1>8, <1>9 DEF TickType

\* A set of times has an earliest.
LessThan == {ss \in Nat \X Nat : ss[1] < ss[2]}
LEMMA EarliestExists ==
    ASSUME NEW T \in SUBSET Nat, T # {}
    PROVE  (CHOOSE t \in T : \A u \in T : t <= u) \in T
<1>1. IsWellFoundedOn(LessThan, Nat)
  BY NatLessThanWellFounded DEF OpToRel, LessThan
<1>2. PICK x \in T : \A y \in T : ~(<<y, x>> \in LessThan)
  BY <1>1, WFMin
<1>3. ASSUME NEW u \in T PROVE x <= u
  <2>1. x \in Nat /\ u \in Nat /\ ~(<<u, x>> \in LessThan)
    BY <1>2
  <2>2. <<u, x>> \in Nat \X Nat
    BY <2>1
  <2>3. ~(u < x)
    BY <2>1, <2>2 DEF LessThan
  <2> QED
    BY <2>1, <2>3
<1> QED
  BY <1>3

LEMMA SetNextType ==
    ASSUME TypeInv, NEW s \in Schedulers, tick[s].todo # <<>>, NEW next \in Time,
           SetNext(s, next), runs' = runs
    PROVE  TableType'
<1>1. Cur(s).worker \in Workers /\ Cur(s).trigger \in Triggers \cup {Nobody}
  BY CurType
<1>2. trigger \in [Triggers -> TriggerRow] /\ worker \in [Workers -> WorkerRow]
      /\ runs \in Seq(RunRow)
      /\ \A i \in DOMAIN runs : runs[i].code = "scheduler_row_error" => runs[i].status = "failed"
  BY DEF TypeInv, TableType
<1>3. CASE Cur(s).trigger # Nobody
  <2> DEFINE t == Cur(s).trigger
             row == [trigger[t] EXCEPT !.next = next, !.locked = Never]
  <2>1. t \in Triggers /\ trigger[t] \in TriggerRow
    BY <1>1, <1>2, <1>3
  <2>2. row \in TriggerRow
    BY <2>1 DEF TriggerRow, Time
  <2>3. trigger' = [trigger EXCEPT ![t] = row] /\ worker' = worker
    BY <1>2, <1>3, <2>1 DEF SetNext
  <2> QED
    BY <1>2, <2>1, <2>2, <2>3 DEF TableType
<1>4. CASE Cur(s).trigger = Nobody
  <2> DEFINE w == Cur(s).worker
             row == [worker[w] EXCEPT !.next = next]
  <2>1. row \in WorkerRow
    BY <1>1, <1>2 DEF WorkerRow
  <2>2. worker' = [worker EXCEPT ![w] = row] /\ trigger' = trigger
    BY <1>1, <1>2, <1>4 DEF SetNext
  <2> QED
    BY <1>1, <1>2, <2>1, <2>2 DEF TableType
<1> QED
  BY <1>3, <1>4

\* A row of the runs table that a tick writes.
LEMMA NewRowType ==
    ASSUME TypeInv, NEW s \in Schedulers, tick[s].todo # <<>>,
           NEW kind \in Kind, NEW code \in Code,
           NEW status \in {"queued", "running", "completed", "failed"}
    PROVE  /\ NewRow(s, kind, status, code) \in RunRow
           /\ NewRow(s, kind, status, code).kind = kind
           /\ NewRow(s, kind, status, code).code = code
           /\ NewRow(s, kind, status, code).status = status
           /\ NewRow(s, kind, status, code).worker = Cur(s).worker
           /\ NewRow(s, kind, status, code).trigger = Cur(s).trigger
           /\ NewRow(s, kind, status, code).slot = Cur(s).next
<1>1. Cur(s).worker \in Workers /\ Cur(s).trigger \in Triggers \cup {Nobody} /\ Cur(s).next \in Time
  BY CurType
<1>2. clock \in Nat /\ tick[s].now \in Nat
  BY ConstantsAssumption DEF TypeInv, RestType, TickType, TickRow
<1> QED
  BY <1>1, <1>2 DEF NewRow, RunRow

LEMMA AppendType ==
    ASSUME TypeInv, NEW row \in RunRow, runs' = Append(runs, row), UNCHANGED <<trigger, worker>>,
           row.code = "scheduler_row_error" => row.status = "failed"
    PROVE  /\ TableType'
           /\ Len(runs) + 1 \notin DOMAIN runs
           /\ DOMAIN runs' = DOMAIN runs \cup {Len(runs) + 1}
           /\ \A i \in DOMAIN runs : runs'[i] = runs[i]
           /\ runs'[Len(runs) + 1] = row
<1>1. runs \in Seq(RunRow) /\ Len(runs) \in Nat /\ DOMAIN runs = 1 .. Len(runs)
  BY LenProperties DEF TypeInv, TableType
<1>2. /\ Append(runs, row) \in Seq(RunRow)
      /\ Len(Append(runs, row)) = Len(runs) + 1
      /\ \A i \in 1 .. Len(runs) : Append(runs, row)[i] = runs[i]
      /\ Append(runs, row)[Len(runs) + 1] = row
  BY <1>1, AppendProperties
<1>3. DOMAIN runs' = 1 .. Len(runs) + 1
  BY <1>2, LenProperties
<1>4. /\ Len(runs) + 1 \notin DOMAIN runs
      /\ DOMAIN runs' = DOMAIN runs \cup {Len(runs) + 1}
      /\ \A i \in DOMAIN runs : runs'[i] = runs[i]
      /\ runs'[Len(runs) + 1] = row
  BY <1>1, <1>2, <1>3
<1>5. \A i \in DOMAIN runs' : runs'[i].code = "scheduler_row_error" => runs'[i].status = "failed"
  BY <1>4 DEF TypeInv, TableType
<1> QED
  BY <1>2, <1>4, <1>5 DEF TypeInv, TableType

\* The rows of a list in some order.
LEMMA OrderType ==
    ASSUME NEW S, IsFiniteSet(S), NEW order \in SetToSeqs(S)
    PROVE  /\ Cardinality(S) \in Nat /\ order \in [1 .. Cardinality(S) -> S]
           /\ DOMAIN order = 1 .. Cardinality(S)
           /\ S # {} => Cardinality(S) # 0
<1>1. order \in [1 .. Cardinality(S) -> S]
  BY DEF SetToSeqs
<1> QED
  BY <1>1, FS_CardinalityType, FS_EmptySet

LEMMA ItemsType ==
    ASSUME NEW n \in Nat, NEW f \in [1 .. n -> Item]
    PROVE  f \in Seq(Item) /\ DOMAIN f = 1 .. n /\ (n # 0 => f # <<>>)
<1>1. f \in Seq(Item) /\ Len(f) = n
  BY IsASeq
<1>2. DOMAIN f = 1 .. n
  OBVIOUS
<1> QED
  BY <1>1, <1>2, EmptySeq

HasRows(w) == \E t \in Triggers : WorkerOf[t] = w

\* A tick that is written anew.
LEMMA NewTickType ==
    ASSUME TypeInv, NEW s \in Schedulers, NEW new \in TickRow, tick' = [tick EXCEPT ![s] = new],
           clock' = clock,
           new.now <= clock,
           new.pc \notin {"idle", "listing", "mirroring", "legacy"} => new.todo # <<>>,
           \A i \in DOMAIN new.todo :
               new.todo[i].trigger # Nobody => new.todo[i].worker = WorkerOf[new.todo[i].trigger]
    PROVE  TickType' /\ OnlyTick(s) /\ tick'[s] = new
<1>1. tick \in [Schedulers -> TickRow]
  BY DEF TypeInv, TickType
<1>2. tick' \in [Schedulers -> TickRow] /\ OnlyTick(s) /\ tick'[s] = new
  BY <1>1 DEF OnlyTick
<1>3. \A s2 \in Schedulers : TickOK(s2)'
  <2> SUFFICES ASSUME NEW s2 \in Schedulers PROVE TickOK(s2)'
    OBVIOUS
  <2>1. TickOK(s2)
    BY DEF TypeInv, TickType
  <2>2. CASE s2 = s
    BY <1>2, <2>2 DEF TickOK
  <2>3. CASE s2 # s
    BY <1>2, <2>1, <2>3 DEF TickOK, OnlyTick
  <2> QED
    BY <2>2, <2>3
<1> QED
  BY <1>2, <1>3 DEF TickType

LEMMA StartTickType ==
    ASSUME TypeInv, NEW s \in Schedulers, StartTick(s)
    PROVE  /\ TickType' /\ OnlyTick(s)
           /\ tick'[s].pc = "listing" /\ tick'[s].now = clock /\ tick'[s].todo = <<>>
           /\ tick'[s].seen = {}
<1> DEFINE new == [Idle EXCEPT !.pc = "listing", !.now = clock]
<1>1. clock \in Nat
  BY ConstantsAssumption DEF TypeInv, RestType
<1>2. <<>> \in Seq(Item)
  BY EmptySeq
<1>3. new \in TickRow /\ new.pc = "listing" /\ new.now = clock /\ new.todo = <<>> /\ new.seen = {}
  BY <1>1, <1>2 DEF Idle, TickRow, Pc, Code
<1>4. tick' = [tick EXCEPT ![s] = new] /\ clock' = clock
  BY DEF StartTick, world
<1> HIDE DEF new
<1>5. \A i \in DOMAIN new.todo : FALSE
  BY <1>3
<1>6. clock <= clock
  BY <1>1
<1> QED
  BY <1>3, <1>4, <1>5, <1>6, NewTickType

LEMMA CrashType ==
    ASSUME TypeInv, NEW s \in Schedulers, Crash(s)
    PROVE  /\ TickType' /\ OnlyTick(s)
           /\ tick'[s].pc = "idle" /\ tick'[s].now = tick[s].now /\ tick'[s].todo = <<>>
           /\ tick'[s].seen = {}
<1> DEFINE new == [Idle EXCEPT !.now = tick[s].now]
<1>1. tick[s].now \in Nat /\ tick[s].now <= clock
  BY DEF TypeInv, TickType, TickRow, TickOK
<1>2. <<>> \in Seq(Item)
  BY EmptySeq
<1>3. new \in TickRow /\ new.pc = "idle" /\ new.now = tick[s].now /\ new.todo = <<>> /\ new.seen = {}
  BY <1>1, <1>2 DEF Idle, TickRow, Pc, Code
<1>4. tick' = [tick EXCEPT ![s] = new] /\ clock' = clock
  BY DEF Crash, world
<1> HIDE DEF new
<1>5. \A i \in DOMAIN new.todo : FALSE
  BY <1>3
<1> QED
  BY <1>1, <1>3, <1>4, <1>5, NewTickType

\* The second failure to advance a row leaves the rest of the rows.
LEMMA LostType ==
    ASSUME TypeInv, NEW s \in Schedulers, clock' = clock, NEW pc \in {"idle", "legacy"},
           tick' = [tick EXCEPT ![s].todo = <<>>, ![s].pc = pc]
    PROVE  /\ TickType' /\ OnlyTick(s)
           /\ tick'[s].pc = pc /\ tick'[s].now = tick[s].now /\ tick'[s].todo = <<>>
           /\ tick'[s].seen = tick[s].seen
<1> DEFINE new == [tick[s] EXCEPT !.todo = <<>>, !.pc = pc]
<1>1. tick[s].now \in Nat /\ tick[s].now <= clock /\ tick[s] \in TickRow
      /\ tick \in [Schedulers -> TickRow]
  BY DEF TypeInv, TickType, TickRow, TickOK
<1>2. <<>> \in Seq(Item)
  BY EmptySeq
<1>3. new \in TickRow /\ new.pc = pc /\ new.now = tick[s].now /\ new.todo = <<>>
      /\ new.seen = tick[s].seen
  BY <1>1, <1>2 DEF TickRow, Pc
<1>4. tick' = [tick EXCEPT ![s] = new]
  BY <1>1
<1> HIDE DEF new
<1>5. \A i \in DOMAIN new.todo : FALSE
  BY <1>3
<1> QED
  BY <1>1, <1>3, <1>4, <1>5, NewTickType

LEMMA ListTriggersType ==
    ASSUME TypeInv, NEW s \in Schedulers, ListTriggers(s)
    PROVE  /\ TickType' /\ OnlyTick(s)
           /\ tick'[s].pc \in {"mirroring", "row"} /\ tick'[s].now = tick[s].now
           /\ \A i \in DOMAIN tick'[s].todo : tick'[s].todo[i].trigger \in Triggers
           /\ \A w \in tick'[s].seen : HasRows(w)
<1> DEFINE listed == {t \in Triggers : trigger[t].enabled /\ worker[WorkerOf[t]].enabled}
           item(t) == [trigger |-> t, worker |-> WorkerOf[t], period |-> trigger[t].period,
                       next |-> trigger[t].next]
<1>1. PICK order \in SetToSeqs(listed) :
         tick' = [tick EXCEPT ![s].todo = [i \in DOMAIN order |-> item(order[i])],
                              ![s].seen = {WorkerOf[t] : t \in listed},
                              ![s].pc = IF listed = {} THEN "mirroring" ELSE "row"]
  BY DEF ListTriggers
<1>2. clock' = clock
  BY DEF ListTriggers, world
<1> DEFINE n == Cardinality(listed)
           todo == [i \in DOMAIN order |-> item(order[i])]
           seen == {WorkerOf[t] : t \in listed}
           pc == IF listed = {} THEN "mirroring" ELSE "row"
           new == [tick[s] EXCEPT !.todo = todo, !.seen = seen, !.pc = pc]
<1>3. IsFiniteSet(listed)
  BY ConstantsAssumption, FS_Subset
<1>4. listed \subseteq Triggers
  OBVIOUS
<1>5. \A t \in listed : item(t) \in Item /\ item(t).trigger = t /\ item(t).worker = WorkerOf[t]
  BY <1>4, ConstantsAssumption DEF TypeInv, TableType, TriggerRow, Item
<1>6. \A w \in seen : w \in Workers /\ HasRows(w)
  BY <1>4, ConstantsAssumption DEF HasRows
<1>7. tick[s].now \in Nat /\ tick[s].now <= clock /\ tick[s] \in TickRow
      /\ tick \in [Schedulers -> TickRow]
  BY DEF TypeInv, TickType, TickRow, TickOK
<1>8. tick' = [tick EXCEPT ![s] = new]
  BY <1>1, <1>7
<1> HIDE DEF listed, item, seen
<1>9. n \in Nat /\ order \in [1 .. n -> listed] /\ DOMAIN order = 1 .. n /\ (listed # {} => n # 0)
  BY <1>3, OrderType
<1>10. todo \in [1 .. n -> Item]
  BY <1>5, <1>9
<1>11. \A i \in 1 .. n : todo[i] = item(order[i]) /\ order[i] \in listed
  BY <1>9
<1> HIDE DEF n, todo
<1>12. todo \in Seq(Item) /\ DOMAIN todo = 1 .. n /\ (n # 0 => todo # <<>>)
  BY <1>9, <1>10, ItemsType
<1>13. \A i \in DOMAIN todo : todo[i].trigger \in Triggers /\ todo[i].worker = WorkerOf[todo[i].trigger]
  BY <1>4, <1>5, <1>11, <1>12
<1>14. new \in TickRow
  BY <1>6, <1>7, <1>12 DEF TickRow, Pc
<1>15. new.now = tick[s].now /\ new.pc = pc /\ new.todo = todo /\ new.seen = seen
  BY <1>7 DEF TickRow
<1>16. pc \in {"mirroring", "row"} /\ (pc = "row" => todo # <<>>)
  BY <1>9, <1>12
<1> HIDE DEF new, pc
<1>17. TickType' /\ OnlyTick(s) /\ tick'[s] = new
  BY <1>2, <1>7, <1>8, <1>13, <1>14, <1>15, <1>16, NewTickType
<1> QED
  BY <1>6, <1>13, <1>15, <1>16, <1>17

LEMMA ListWorkersType ==
    ASSUME TypeInv, NEW s \in Schedulers, ListWorkers(s)
    PROVE  /\ TickType' /\ OnlyTick(s)
           /\ tick'[s].pc \in {"idle", "row"} /\ tick'[s].now = tick[s].now
           /\ tick'[s].seen = tick[s].seen
           /\ \A i \in DOMAIN tick'[s].todo :
                 /\ tick'[s].todo[i].trigger = Nobody
                 /\ HasRows(tick'[s].todo[i].worker) => tick'[s].todo[i].worker \in crossed'
           /\ crossed \subseteq crossed' /\ crossed' \subseteq Workers
<1> DEFINE listed == {w \in Workers \ tick[s].seen : worker[w].enabled}
           item(w) == [trigger |-> Nobody, worker |-> w, period |-> worker[w].period,
                       next |-> worker[w].next]
<1>1. PICK order \in SetToSeqs(listed) :
         tick' = [tick EXCEPT ![s].todo = [i \in DOMAIN order |-> item(order[i])],
                              ![s].legacy = TRUE,
                              ![s].pc = IF listed = {} THEN "idle" ELSE "row"]
  BY DEF ListWorkers
<1>2. clock' = clock
  BY DEF ListWorkers, world
<1>0. crossed' = crossed \cup {w \in listed : HasRows(w)} /\ crossed \subseteq Workers
  BY DEF ListWorkers, HasRows, TypeInv, RestType
<1> DEFINE n == Cardinality(listed)
           todo == [i \in DOMAIN order |-> item(order[i])]
           pc == IF listed = {} THEN "idle" ELSE "row"
           new == [tick[s] EXCEPT !.todo = todo, !.legacy = TRUE, !.pc = pc]
<1>3. IsFiniteSet(listed)
  BY ConstantsAssumption, FS_Subset
<1>4. listed \subseteq Workers
  OBVIOUS
<1>5. \A w \in listed : item(w) \in Item /\ item(w).trigger = Nobody /\ item(w).worker = w
  BY <1>4 DEF TypeInv, TableType, WorkerRow, Item
<1>7. tick[s].now \in Nat /\ tick[s].now <= clock /\ tick[s] \in TickRow
      /\ tick \in [Schedulers -> TickRow]
  BY DEF TypeInv, TickType, TickRow, TickOK
<1>8. tick' = [tick EXCEPT ![s] = new]
  BY <1>1, <1>7
<1> HIDE DEF listed, item
<1>9. n \in Nat /\ order \in [1 .. n -> listed] /\ DOMAIN order = 1 .. n /\ (listed # {} => n # 0)
  BY <1>3, OrderType
<1>10. todo \in [1 .. n -> Item]
  BY <1>5, <1>9
<1>11. \A i \in 1 .. n : todo[i] = item(order[i]) /\ order[i] \in listed
  BY <1>9
<1> HIDE DEF n, todo
<1>12. todo \in Seq(Item) /\ DOMAIN todo = 1 .. n /\ (n # 0 => todo # <<>>)
  BY <1>9, <1>10, ItemsType
<1>13. \A i \in DOMAIN todo : todo[i].trigger = Nobody /\ todo[i].worker \in listed
  BY <1>5, <1>11, <1>12
<1>14. new \in TickRow
  BY <1>7, <1>12 DEF TickRow, Pc
<1>15. new.now = tick[s].now /\ new.pc = pc /\ new.todo = todo /\ new.seen = tick[s].seen
  BY <1>7 DEF TickRow
<1>16. pc \in {"idle", "row"} /\ (pc = "row" => todo # <<>>)
  BY <1>9, <1>12
<1> HIDE DEF new, pc
<1>17. TickType' /\ OnlyTick(s) /\ tick'[s] = new
  BY <1>2, <1>7, <1>8, <1>13, <1>14, <1>15, <1>16, NewTickType
<1>18. crossed' \subseteq Workers /\ crossed \subseteq crossed'
  BY <1>0, <1>4
<1> QED
  BY <1>0, <1>13, <1>15, <1>16, <1>17, <1>18

\* A worker's own time is read again when it is taken.
LEMMA TakeWorkerType ==
    ASSUME TypeInv, NEW s \in Schedulers, TakeWorker(s)
    PROVE  /\ TickType' /\ OnlyTick(s)
           /\ tick[s].todo # <<>> /\ Cur(s).trigger = Nobody
           /\ tick'[s].pc \in {"late", "guard"} /\ tick'[s].now = tick[s].now
           /\ tick'[s].seen = tick[s].seen /\ tick'[s].todo # <<>>
           /\ Cur(s)' = [Cur(s) EXCEPT !.next = worker[Cur(s).worker].next]
           /\ \A i \in DOMAIN tick'[s].todo :
                 /\ i \in DOMAIN tick[s].todo
                 /\ tick'[s].todo[i].trigger = tick[s].todo[i].trigger
                 /\ tick'[s].todo[i].worker = tick[s].todo[i].worker
<1> DEFINE q == tick[s].todo
           next == NextOf(s)
           pc == ToHandle(s, next)
           item == [q[1] EXCEPT !.next = next]
           todo == [q EXCEPT ![1] = item]
           new == [tick[s] EXCEPT !.pc = pc, !.todo = todo]
<1>1. tick[s].now \in Nat /\ tick[s].now <= clock /\ tick[s] \in TickRow
      /\ tick \in [Schedulers -> TickRow] /\ q \in Seq(Item)
  BY DEF TypeInv, TickType, TickRow, TickOK
<1>2. q # <<>> /\ Cur(s).trigger = Nobody /\ clock' = clock
  BY DEF TakeWorker, At, TypeInv, TickType, TickOK, world
<1>3. Cur(s) = q[1] /\ 1 \in DOMAIN q /\ Cur(s) \in Item /\ Cur(s).worker \in Workers
  BY <1>2, CurType
<1>4. next = worker[Cur(s).worker].next /\ next \in Time
  BY <1>2, <1>3 DEF NextOf, TypeInv, TableType, WorkerRow
<1>5. item \in Item /\ item.trigger = q[1].trigger /\ item.worker = q[1].worker
  BY <1>3, <1>4 DEF Item
<1>6. pc \in {"late", "guard"}
  BY DEF ToHandle
<1>7. tick' = [tick EXCEPT ![s] = new]
  <2>1. tick' = [tick EXCEPT ![s].pc = ToHandle(s, NextOf(s)), ![s].todo[1].next = NextOf(s)]
    BY DEF TakeWorker
  <2>2. [tick EXCEPT ![s].pc = pc, ![s].todo[1].next = next]
        = [tick EXCEPT ![s] = [tick[s] EXCEPT !.pc = pc, !.todo[1].next = next]]
    BY <1>1
  <2>3. [tick[s] EXCEPT !.pc = pc, !.todo[1].next = next] = new
    BY <1>1, <1>3 DEF TickRow
  <2> QED
    BY <2>1, <2>2, <2>3
<1> HIDE DEF item, pc, next
<1>8. todo \in Seq(Item) /\ todo # <<>> /\ DOMAIN todo = DOMAIN q /\ todo[1] = item
      /\ \A i \in DOMAIN q : i # 1 => todo[i] = q[i]
  <2>1. DOMAIN q = 1 .. Len(q) /\ Len(q) \in Nat \ {0}
    BY <1>1, <1>2, EmptySeq, LenProperties
  <2>2. todo \in Seq(Item) /\ Len(todo) = Len(q)
    BY <1>1, <1>3, <1>5, <2>1
  <2> QED
    BY <1>1, <1>3, <2>1, <2>2, EmptySeq
<1> HIDE DEF todo
<1>9. \A i \in DOMAIN todo : todo[i].trigger = q[i].trigger /\ todo[i].worker = q[i].worker
  BY <1>5, <1>8
<1>10. \A i \in DOMAIN q : q[i].trigger # Nobody => q[i].worker = WorkerOf[q[i].trigger]
  BY DEF TypeInv, TickType, TickOK
<1>11. new \in TickRow
  BY <1>1, <1>6, <1>8 DEF TickRow, Pc
<1>12. new.now = tick[s].now /\ new.pc = pc /\ new.todo = todo /\ new.seen = tick[s].seen
  BY <1>1 DEF TickRow
<1> HIDE DEF new
<1>13. TickType' /\ OnlyTick(s) /\ tick'[s] = new
  <2>1. \A i \in DOMAIN todo : todo[i].trigger # Nobody => todo[i].worker = WorkerOf[todo[i].trigger]
    BY <1>8, <1>9, <1>10
  <2> QED
    BY <1>1, <1>2, <1>7, <1>8, <1>11, <1>12, <2>1, NewTickType
<1>14. Cur(s)' = item
  <2>1. Head(todo) = todo[1]
    BY <1>8
  <2> QED
    BY <1>8, <1>12, <1>13, <2>1 DEF Cur
<1>15. item = [Cur(s) EXCEPT !.next = next]
  BY <1>3 DEF item
<1> QED
  BY <1>2, <1>4, <1>6, <1>8, <1>9, <1>12, <1>13, <1>14, <1>15

-----------------------------------------------------------------------------
(* The inductive invariant *)

\* A schedule row of a worker, or the schedule of a worker without rows.
IsRow(t, w) ==
    \/ t \in Triggers /\ w = WorkerOf[t]
    \/ t = Nobody /\ ~HasRows(w)
Rows == (Triggers \cup {Nobody}) \X Workers

NextTime(t, w) == IF t = Nobody THEN worker[w].next ELSE trigger[t].next
FiresOf(t, w) ==
    {runs[i].slot : i \in {j \in Fires : runs[j].trigger = t /\ runs[j].worker = w}}
MarkersOf(t, w) ==
    {runs[i].slot : i \in {j \in Markers : runs[j].trigger = t /\ runs[j].worker = w}}
SlotsOf(t, w) == FiresOf(t, w) \cup MarkersOf(t, w)

HandlesRow(s, t, w) == Handling(s) /\ Cur(s).trigger = t /\ Cur(s).worker = w

\* Where a tick has fired the row it is at, or will not fire it any more.
FiredPc == {"pausing", "persisting", "marking", "advancing", "row_error"}

\* Slots that were handled are not later than the last tick.
Known ==
    \A t \in Triggers \cup {Nobody}, w \in Workers : \A x \in SlotsOf(t, w) :
        /\ t \in Triggers => w = WorkerOf[t]
        /\ x \in Nat /\ \E s \in Schedulers : x <= tick[s].now

\* A worker with rows is handled by them.
ByRows ==
    \A w \in Workers : HasRows(w) /\ w \notin crossed =>
        /\ SlotsOf(Nobody, w) = {}
        /\ \A s \in Schedulers : \A i \in DOMAIN tick[s].todo :
              tick[s].todo[i].worker = w => tick[s].todo[i].trigger # Nobody
SeenHasRows == \A s \in Schedulers : \A w \in tick[s].seen : HasRows(w)

Due(s) == Handling(s) => Cur(s).next \in Nat /\ Cur(s).next <= tick[s].now

\* One tick at a time handles a row, and holds its claim.
Alone(s) ==
    Handling(s) /\ Cur(s).worker \notin crossed =>
        /\ Cur(s).trigger \in Triggers => trigger[Cur(s).trigger].locked # Never
        /\ \A s2 \in Schedulers \ {s} : ~HandlesRow(s2, Cur(s).trigger, Cur(s).worker)

\* The slots before the one that is being handled are past, and that one is handled once.
Past(s) ==
    Handling(s) /\ Cur(s).worker \notin crossed =>
        /\ \A x \in FiresOf(Cur(s).trigger, Cur(s).worker) :
              x < Cur(s).next \/ (x = Cur(s).next /\ tick[s].pc \in FiredPc)
        /\ \A x \in MarkersOf(Cur(s).trigger, Cur(s).worker) :
              x < Cur(s).next \/ (x = Cur(s).next /\ tick[s].pc # "late")

\* The next time of a row that nobody handles is after all that were handled.
Ahead(t, w) ==
    /\ IsRow(t, w)
    /\ w \notin crossed
    /\ \A s \in Schedulers : ~HandlesRow(s, t, w)
    => NextTime(t, w) = Never \/ \A x \in SlotsOf(t, w) : x < NextTime(t, w)

Unique(rows) ==
    \A i, j \in rows : i # j /\ runs[i].worker \notin crossed =>
        \/ runs[i].slot # runs[j].slot \/ runs[i].worker # runs[j].worker
        \/ runs[i].trigger # runs[j].trigger

SlotInv ==
    /\ Known /\ ByRows /\ SeenHasRows
    /\ \A s \in Schedulers : Due(s) /\ Alone(s) /\ Past(s)
    /\ \A t \in Triggers \cup {Nobody}, w \in Workers : Ahead(t, w)
    /\ Unique(Fires) /\ Unique(Markers)

-----------------------------------------------------------------------------
(* Steps that handle no slot *)

\* The rows of slots that were handled stay as they are.
SameHistory ==
    /\ Fires' = Fires /\ Markers' = Markers
    /\ \A i \in Fires \cup Markers :
          /\ runs'[i].worker = runs[i].worker /\ runs'[i].trigger = runs[i].trigger
          /\ runs'[i].slot = runs[i].slot

LEMMA SameSlots ==
    ASSUME SameHistory
    PROVE  \A t, w : /\ FiresOf(t, w)' = FiresOf(t, w) /\ MarkersOf(t, w)' = MarkersOf(t, w)
                     /\ SlotsOf(t, w)' = SlotsOf(t, w)
<1> SUFFICES ASSUME NEW t, NEW w
             PROVE  FiresOf(t, w)' = FiresOf(t, w) /\ MarkersOf(t, w)' = MarkersOf(t, w)
  BY DEF SlotsOf
<1>1. {j \in Fires' : runs'[j].trigger = t /\ runs'[j].worker = w}
      = {j \in Fires : runs[j].trigger = t /\ runs[j].worker = w}
  BY DEF SameHistory
<1>2. {j \in Markers' : runs'[j].trigger = t /\ runs'[j].worker = w}
      = {j \in Markers : runs[j].trigger = t /\ runs[j].worker = w}
  BY DEF SameHistory
<1>3. FiresOf(t, w)' = {runs'[i].slot : i \in {j \in Fires' : runs'[j].trigger = t /\ runs'[j].worker = w}}
  BY DEF FiresOf
<1>4. MarkersOf(t, w)'
      = {runs'[i].slot : i \in {j \in Markers' : runs'[j].trigger = t /\ runs'[j].worker = w}}
  BY DEF MarkersOf
<1>5. FiresOf(t, w)' = FiresOf(t, w)
  BY <1>1, <1>3 DEF FiresOf, SameHistory
<1>6. MarkersOf(t, w)' = MarkersOf(t, w)
  BY <1>2, <1>4 DEF MarkersOf, SameHistory
<1> QED
  BY <1>5, <1>6

LEMMA SameUnique ==
    ASSUME SameHistory, SlotInv, crossed \subseteq crossed'
    PROVE  Unique(Fires)' /\ Unique(Markers)'
<1>1. Unique(Fires) /\ Unique(Markers)
  BY DEF SlotInv
<1>2. Unique(Fires)'
  BY <1>1 DEF Unique, SameHistory
<1>3. Unique(Markers)'
  BY <1>1 DEF Unique, SameHistory
<1> QED
  BY <1>2, <1>3

\* A tick goes on with the row it is at, or leaves it with a later time.
CalmTick(s) ==
    /\ tick[s].now <= tick'[s].now
    /\ Handling(s)' =>
          /\ Handling(s) /\ Cur(s)' = Cur(s)
          /\ tick[s].pc \in FiredPc => tick'[s].pc \in FiredPc
          /\ tick[s].pc # "late" => tick'[s].pc # "late"
          /\ Cur(s).trigger \in Triggers /\ trigger[Cur(s).trigger].locked # Never
                => Cur(s).worker \in crossed' \/ trigger'[Cur(s).trigger].locked # Never
    /\ \A t \in Triggers \cup {Nobody}, w \in Workers :
          HandlesRow(s, t, w) /\ ~Handling(s)' => w \in crossed' \/ NextTime(t, w)' > tick[s].now
    /\ \A i \in DOMAIN tick'[s].todo :
          LET x == tick'[s].todo[i]
          IN  x.trigger = Nobody /\ HasRows(x.worker) => x.worker \in crossed'
    /\ \A w \in tick'[s].seen : HasRows(w)

\* The time of a row that nobody handles stays, is lost, or is later than all ticks.
CalmRow(t, w) ==
    /\ IsRow(t, w)
    /\ w \notin crossed'
    /\ \A s \in Schedulers : ~HandlesRow(s, t, w)
    => \/ NextTime(t, w)' = NextTime(t, w)
       \/ NextTime(t, w)' = Never
       \/ \A s \in Schedulers : tick[s].now < NextTime(t, w)'

Calm ==
    /\ crossed \subseteq crossed'
    /\ \A s \in Schedulers : CalmTick(s)
    /\ \A t \in Triggers \cup {Nobody}, w \in Workers : CalmRow(t, w)

LEMMA CurKey ==
    ASSUME TypeInv, NEW s \in Schedulers, Handling(s)
    PROVE  /\ Cur(s).worker \in Workers /\ Cur(s).trigger \in Triggers \cup {Nobody}
           /\ Cur(s).trigger \in Triggers => Cur(s).worker = WorkerOf[Cur(s).trigger]
           /\ tick[s].todo # <<>> /\ 1 \in DOMAIN tick[s].todo /\ Cur(s) = tick[s].todo[1]
           /\ NewNext(s) \in Nat /\ NewNext(s) > tick[s].now /\ tick[s].now \in Nat
           /\ Cur(s).next \in Time
<1>1. tick[s].todo # <<>> /\ tick[s].now \in Nat
  BY DEF Handling, TypeInv, TickType, TickOK, TickRow
<1> QED
  BY <1>1, CurType, ConstantsAssumption

LEMMA CalmKeepsSlots ==
    ASSUME TypeInv, TypeInv', SlotInv, SameHistory, Calm
    PROVE  SlotInv'
<1> USE DEF Calm
<1>1. \A t, w : /\ FiresOf(t, w)' = FiresOf(t, w) /\ MarkersOf(t, w)' = MarkersOf(t, w)
                /\ SlotsOf(t, w)' = SlotsOf(t, w)
  BY SameSlots
<1>2. \A s \in Schedulers : tick[s].now \in Nat /\ tick'[s].now \in Nat
  BY DEF TypeInv, TickType, TickRow
<1>3. Known'
  <2> SUFFICES ASSUME NEW t \in Triggers \cup {Nobody}, NEW w \in Workers, NEW x \in SlotsOf(t, w)'
               PROVE  /\ t \in Triggers => w = WorkerOf[t]
                      /\ x \in Nat /\ \E s \in Schedulers : x <= tick'[s].now
    BY DEF Known
  <2>1. x \in SlotsOf(t, w)
    BY <1>1
  <2>2. (t \in Triggers => w = WorkerOf[t]) /\ x \in Nat /\ \E s \in Schedulers : x <= tick[s].now
    BY <2>1 DEF SlotInv, Known
  <2>3. PICK s \in Schedulers : x <= tick[s].now
    BY <2>2
  <2>4. x <= tick'[s].now
    BY <1>2, <2>2, <2>3 DEF CalmTick
  <2> QED
    BY <2>2, <2>4
<1>4. ByRows'
  <2> SUFFICES ASSUME NEW w \in Workers, HasRows(w), w \notin crossed'
               PROVE  /\ SlotsOf(Nobody, w)' = {}
                      /\ \A s \in Schedulers : \A i \in DOMAIN tick'[s].todo :
                            tick'[s].todo[i].worker = w => tick'[s].todo[i].trigger # Nobody
    BY DEF ByRows, HasRows
  <2>1. SlotsOf(Nobody, w) = {}
    BY DEF SlotInv, ByRows
  <2>2. ASSUME NEW s \in Schedulers, NEW i \in DOMAIN tick'[s].todo, tick'[s].todo[i].worker = w
        PROVE  tick'[s].todo[i].trigger # Nobody
    BY <2>2 DEF CalmTick
  <2> QED
    BY <1>1, <2>1, <2>2
<1>5. SeenHasRows'
  BY DEF SeenHasRows, CalmTick, HasRows
<1>6. ASSUME NEW s \in Schedulers PROVE Due(s)' /\ Alone(s)' /\ Past(s)'
  <2> SUFFICES ASSUME Handling(s)' PROVE Due(s)' /\ Alone(s)' /\ Past(s)'
    BY DEF Due, Alone, Past
  <2>1. /\ Handling(s) /\ Cur(s)' = Cur(s) /\ tick[s].now <= tick'[s].now
        /\ tick[s].pc \in FiredPc => tick'[s].pc \in FiredPc
        /\ tick[s].pc # "late" => tick'[s].pc # "late"
        /\ Cur(s).trigger \in Triggers /\ trigger[Cur(s).trigger].locked # Never
              => Cur(s).worker \in crossed' \/ trigger'[Cur(s).trigger].locked # Never
    BY DEF CalmTick
  <2>2. Due(s) /\ Alone(s) /\ Past(s)
    BY DEF SlotInv
  <2>3. Due(s)'
    BY <1>2, <2>1, <2>2 DEF Due
  <2>4. Past(s)'
    BY <1>1, <2>1, <2>2 DEF Past
  <2>5. Alone(s)'
    <3> SUFFICES ASSUME Cur(s).worker \notin crossed'
                 PROVE  /\ Cur(s).trigger \in Triggers => trigger'[Cur(s).trigger].locked # Never
                        /\ \A s2 \in Schedulers \ {s} : ~HandlesRow(s2, Cur(s).trigger, Cur(s).worker)'
      BY <2>1 DEF Alone, HandlesRow
    <3>1. Cur(s).worker \notin crossed
      OBVIOUS
    <3>2. \A s2 \in Schedulers \ {s} : ~HandlesRow(s2, Cur(s).trigger, Cur(s).worker)
      BY <2>1, <2>2, <3>1 DEF Alone
    <3>3. ASSUME NEW s2 \in Schedulers \ {s}, HandlesRow(s2, Cur(s).trigger, Cur(s).worker)'
          PROVE  FALSE
      <4>1. Handling(s2)' /\ Cur(s2)'.trigger = Cur(s).trigger /\ Cur(s2)'.worker = Cur(s).worker
        BY <2>1, <3>3 DEF HandlesRow
      <4>2. Handling(s2) /\ Cur(s2)' = Cur(s2)
        BY <4>1 DEF CalmTick
      <4> QED
        BY <3>2, <4>1, <4>2 DEF HandlesRow
    <3> QED
      BY <2>1, <2>2, <3>1, <3>3 DEF Alone
  <2> QED
    BY <2>3, <2>4, <2>5
<1>7. ASSUME NEW t \in Triggers \cup {Nobody}, NEW w \in Workers PROVE Ahead(t, w)'
  <2> SUFFICES ASSUME IsRow(t, w), w \notin crossed', \A s \in Schedulers : ~HandlesRow(s, t, w)'
               PROVE  NextTime(t, w)' = Never \/ \A x \in SlotsOf(t, w) : x < NextTime(t, w)'
    BY <1>1 DEF Ahead, IsRow, HasRows
  <2>0. w \notin crossed
    OBVIOUS
  <2>1. \A x \in SlotsOf(t, w) : x \in Nat /\ \E s \in Schedulers : x <= tick[s].now
    BY DEF SlotInv, Known
  <2>2. NextTime(t, w)' \in Int
    <3>1. trigger' \in [Triggers -> TriggerRow] /\ worker' \in [Workers -> WorkerRow]
      BY DEF TypeInv, TableType
    <3>2. t # Nobody => trigger'[t].next \in Time
      BY <3>1 DEF TriggerRow
    <3>3. worker'[w].next \in Time
      BY <3>1 DEF WorkerRow
    <3> QED
      BY <3>2, <3>3 DEF NextTime, Time, Never
  <2>3. CASE \E s \in Schedulers : HandlesRow(s, t, w)
    <3>1. PICK s \in Schedulers : HandlesRow(s, t, w)
      BY <2>3
    <3>2. Handling(s) /\ Cur(s).trigger = t /\ Cur(s).worker = w
      BY <3>1 DEF HandlesRow
    <3>3. ~Handling(s)'
      BY <3>2 DEF CalmTick, HandlesRow
    <3>4. NextTime(t, w)' > tick[s].now
      BY <3>1, <3>3 DEF CalmTick
    <3>5. Due(s) /\ Past(s)
      BY DEF SlotInv
    <3>6. \A x \in SlotsOf(t, w) : x < Cur(s).next \/ x = Cur(s).next
      BY <2>0, <3>2, <3>5 DEF Past, SlotsOf
    <3>7. Cur(s).next \in Nat /\ Cur(s).next <= tick[s].now /\ tick[s].now \in Nat
      BY <1>2, <3>2, <3>5 DEF Due
    <3>8. ASSUME NEW x \in SlotsOf(t, w) PROVE x < NextTime(t, w)'
      <4>1. x \in Nat
        BY <2>1
      <4> HIDE DEF NextTime
      <4> QED
        BY <2>2, <3>4, <3>6, <3>7, <4>1
    <3> QED
      BY <3>8
  <2>4. CASE \A s \in Schedulers : ~HandlesRow(s, t, w)
    <3>1. NextTime(t, w) = Never \/ \A x \in SlotsOf(t, w) : x < NextTime(t, w)
      BY <2>0, <2>4 DEF SlotInv, Ahead
    <3>2. \/ NextTime(t, w)' = NextTime(t, w)
          \/ NextTime(t, w)' = Never
          \/ \A s \in Schedulers : tick[s].now < NextTime(t, w)'
      BY <2>4 DEF CalmRow
    <3>3. CASE \A s \in Schedulers : tick[s].now < NextTime(t, w)'
      <4> SUFFICES ASSUME NEW x \in SlotsOf(t, w) PROVE x < NextTime(t, w)'
        OBVIOUS
      <4>1. PICK s \in Schedulers : x <= tick[s].now
        BY <2>1
      <4>2. x \in Nat /\ tick[s].now < NextTime(t, w)' /\ tick[s].now \in Nat
        BY <1>2, <2>1, <3>3
      <4> QED
        BY <2>2, <4>1, <4>2
    <3> QED
      BY <3>1, <3>2, <3>3
  <2> QED
    BY <2>3, <2>4
<1>8. Unique(Fires)' /\ Unique(Markers)'
  BY SameUnique
<1> QED
  BY <1>3, <1>4, <1>5, <1>6, <1>7, <1>8 DEF SlotInv

-----------------------------------------------------------------------------
(* Steps that take a row, and steps that record its slot *)

LEMMA TimesAreNumbers ==
    ASSUME TypeInv, NEW t \in Triggers \cup {Nobody}, NEW w \in Workers
    PROVE  NextTime(t, w) \in Time /\ (NextTime(t, w) # Never => NextTime(t, w) \in Nat)
<1>1. trigger \in [Triggers -> TriggerRow] /\ worker \in [Workers -> WorkerRow]
  BY DEF TypeInv, TableType
<1>2. t # Nobody => trigger[t].next \in Time
  BY <1>1 DEF TriggerRow
<1>3. worker[w].next \in Time
  BY <1>1 DEF WorkerRow
<1> QED
  BY <1>2, <1>3 DEF NextTime, Time, Never

\* A tick takes a row at its time while nobody else handles it.
LEMMA TakeKeepsSlots ==
    ASSUME TypeInv, TypeInv', SlotInv, SameHistory, crossed \subseteq crossed',
           NEW s \in Schedulers, OnlyTick(s), ~Handling(s), Handling(s)',
           tick'[s].pc \in {"late", "guard"}, tick'[s].now = tick[s].now,
           tick'[s].seen = tick[s].seen,
           \A i \in DOMAIN tick'[s].todo :
               /\ i \in DOMAIN tick[s].todo
               /\ tick'[s].todo[i].trigger = tick[s].todo[i].trigger
               /\ tick'[s].todo[i].worker = tick[s].todo[i].worker,
           NEW t \in Triggers \cup {Nobody}, NEW w \in Workers, NEW n \in Nat,
           Cur(s)'.trigger = t, Cur(s)'.worker = w, Cur(s)'.next = n, n <= tick[s].now,
           t \in Triggers => trigger'[t].locked # Never,
           \A u \in Triggers : trigger[u].locked # Never => trigger'[u].locked # Never,
           \A u \in Triggers \cup {Nobody}, v \in Workers : NextTime(u, v)' = NextTime(u, v),
           w \notin crossed' =>
               /\ NextTime(t, w) = n
               /\ \A s2 \in Schedulers \ {s} : ~HandlesRow(s2, t, w)
    PROVE  SlotInv'
<1>1. \A u, v : /\ FiresOf(u, v)' = FiresOf(u, v) /\ MarkersOf(u, v)' = MarkersOf(u, v)
                /\ SlotsOf(u, v)' = SlotsOf(u, v)
  BY SameSlots
<1>2. \A s2 \in Schedulers : tick'[s2].now = tick[s2].now /\ tick[s2].now \in Nat
  BY DEF OnlyTick, TypeInv, TickType, TickRow
<1>3. \A s2 \in Schedulers \ {s} : /\ Handling(s2)' = Handling(s2) /\ Cur(s2)' = Cur(s2)
                                   /\ tick'[s2] = tick[s2]
  BY DEF OnlyTick, Handling, Cur
<1>4. Known'
  BY <1>1, <1>2 DEF SlotInv, Known
<1>5. ByRows'
  <2> SUFFICES ASSUME NEW v \in Workers, HasRows(v), v \notin crossed'
               PROVE  /\ SlotsOf(Nobody, v)' = {}
                      /\ \A s2 \in Schedulers : \A i \in DOMAIN tick'[s2].todo :
                            tick'[s2].todo[i].worker = v => tick'[s2].todo[i].trigger # Nobody
    BY DEF ByRows, HasRows
  <2>1. /\ SlotsOf(Nobody, v) = {}
        /\ \A s2 \in Schedulers : \A i \in DOMAIN tick[s2].todo :
              tick[s2].todo[i].worker = v => tick[s2].todo[i].trigger # Nobody
    BY DEF SlotInv, ByRows
  <2>2. ASSUME NEW s2 \in Schedulers, NEW i \in DOMAIN tick'[s2].todo, tick'[s2].todo[i].worker = v
        PROVE  tick'[s2].todo[i].trigger # Nobody
    <3>1. CASE s2 = s
      BY <2>1, <2>2, <3>1
    <3>2. CASE s2 # s
      BY <1>3, <2>1, <2>2, <3>2
    <3> QED
      BY <3>1, <3>2
  <2> QED
    BY <1>1, <2>1, <2>2
<1>6. SeenHasRows'
  <2>1. \A s2 \in Schedulers : tick'[s2].seen = tick[s2].seen
    BY <1>3
  <2> QED
    BY <2>1 DEF SlotInv, SeenHasRows, HasRows
<1>7. IsRow(t, w) \/ w \in crossed'
  <2>1. tick'[s].todo # <<>> /\ TypeInv'
    BY DEF TypeInv, TickType, TickOK, Handling
  <2>2. tick'[s].todo \in Seq(Item)
    BY DEF TypeInv, TickType, TickRow
  <2>3. Cur(s)' = tick'[s].todo[1] /\ 1 \in DOMAIN tick'[s].todo
    BY <2>1, <2>2 DEF Cur
  <2>4. t # Nobody => w = WorkerOf[t]
    BY <2>3 DEF TypeInv, TickType, TickOK
  <2>5. t = Nobody /\ HasRows(w) => w \in crossed'
    BY <1>5, <2>3 DEF ByRows, HasRows
  <2> QED
    BY <2>4, <2>5 DEF IsRow
<1>8. w \notin crossed' => \A x \in SlotsOf(t, w) : x < n
  <2> SUFFICES ASSUME w \notin crossed' PROVE \A x \in SlotsOf(t, w) : x < n
    OBVIOUS
  <2>1. w \notin crossed /\ NextTime(t, w) = n /\ n # Never
    BY DEF Never
  <2>2. \A s2 \in Schedulers : ~HandlesRow(s2, t, w)
    BY DEF HandlesRow
  <2> QED
    BY <1>7, <2>1, <2>2 DEF SlotInv, Ahead
<1>9. ASSUME NEW s2 \in Schedulers PROVE Due(s2)' /\ Alone(s2)' /\ Past(s2)'
  <2>1. CASE s2 = s
    <3>1. Due(s)'
      BY DEF Due
    <3>2. Alone(s)'
      <4> SUFFICES ASSUME w \notin crossed'
                   PROVE  \A s3 \in Schedulers \ {s} : ~HandlesRow(s3, t, w)'
        BY DEF Alone, HandlesRow
      <4> QED
        BY <1>3 DEF HandlesRow
    <3>3. Past(s)'
      BY <1>1, <1>8 DEF Past, SlotsOf
    <3> QED
      BY <2>1, <3>1, <3>2, <3>3
  <2>2. CASE s2 # s
    <3>1. Due(s2) /\ Alone(s2) /\ Past(s2)
      BY DEF SlotInv
    <3>2. Handling(s2)' = Handling(s2) /\ Cur(s2)' = Cur(s2) /\ tick'[s2] = tick[s2]
      BY <1>3, <2>2
    <3>3. Due(s2)'
      BY <3>1, <3>2 DEF Due
    <3>4. Past(s2)'
      BY <1>1, <3>1, <3>2 DEF Past
    <3>5. Alone(s2)'
      <4> SUFFICES ASSUME Handling(s2), Cur(s2).worker \notin crossed'
                   PROVE  /\ Cur(s2).trigger \in Triggers => trigger'[Cur(s2).trigger].locked # Never
                          /\ \A s3 \in Schedulers \ {s2} :
                                ~HandlesRow(s3, Cur(s2).trigger, Cur(s2).worker)'
        BY <3>2 DEF Alone, HandlesRow
      <4>1. /\ Cur(s2).trigger \in Triggers => trigger[Cur(s2).trigger].locked # Never
            /\ \A s3 \in Schedulers \ {s2} : ~HandlesRow(s3, Cur(s2).trigger, Cur(s2).worker)
        BY <3>1 DEF Alone
      <4>2. ASSUME NEW s3 \in Schedulers \ {s2}, HandlesRow(s3, Cur(s2).trigger, Cur(s2).worker)'
            PROVE  FALSE
        <5>1. CASE s3 = s
          <6>1. Cur(s2).trigger = t /\ Cur(s2).worker = w
            BY <3>2, <4>2, <5>1 DEF HandlesRow
          <6> QED
            BY <2>2, <6>1 DEF HandlesRow
        <5>2. CASE s3 # s
          BY <1>3, <3>2, <4>1, <4>2, <5>2 DEF HandlesRow
        <5> QED
          BY <5>1, <5>2
      <4> QED
        BY <3>2, <4>1, <4>2
    <3> QED
      BY <3>3, <3>4, <3>5
  <2> QED
    BY <2>1, <2>2
<1>10. ASSUME NEW u \in Triggers \cup {Nobody}, NEW v \in Workers PROVE Ahead(u, v)'
  <2> SUFFICES ASSUME IsRow(u, v), v \notin crossed', \A s2 \in Schedulers : ~HandlesRow(s2, u, v)'
               PROVE  NextTime(u, v) = Never \/ \A x \in SlotsOf(u, v) : x < NextTime(u, v)
    BY <1>1 DEF Ahead, IsRow, HasRows
  <2>1. v \notin crossed
    OBVIOUS
  <2>2. \A s2 \in Schedulers : ~HandlesRow(s2, u, v)
    BY <1>3 DEF HandlesRow
  <2> QED
    BY <2>1, <2>2 DEF SlotInv, Ahead
<1>11. Unique(Fires)' /\ Unique(Markers)'
  BY SameUnique
<1> QED
  BY <1>4, <1>5, <1>6, <1>9, <1>10, <1>11 DEF SlotInv

\* A tick records the slot it handles, where it has not been.
LEMMA RecordKeepsSlots ==
    ASSUME TypeInv, TypeInv', SlotInv, UNCHANGED <<trigger, worker, crossed>>,
           NEW s \in Schedulers, OnlyTick(s), Handling(s), Handling(s)', Cur(s)' = Cur(s),
           tick'[s].now = tick[s].now, tick'[s].todo = tick[s].todo, tick'[s].seen = tick[s].seen,
           tick[s].pc \in FiredPc => tick'[s].pc \in FiredPc,
           tick'[s].pc # "late",
           NEW t, NEW w, t = Cur(s).trigger, w = Cur(s).worker,
           \A u, v : \/ FiresOf(u, v)' = FiresOf(u, v)
                     \/ /\ u = t /\ v = w /\ tick'[s].pc \in FiredPc
                        /\ FiresOf(u, v)' = FiresOf(u, v) \cup {Cur(s).next},
           \A u, v : \/ MarkersOf(u, v)' = MarkersOf(u, v)
                     \/ /\ u = t /\ v = w
                        /\ MarkersOf(u, v)' = MarkersOf(u, v) \cup {Cur(s).next},
           Unique(Fires)', Unique(Markers)'
    PROVE  SlotInv'
<1>1. Due(s) /\ Alone(s) /\ Past(s)
  BY DEF SlotInv
<1>2. Cur(s).next \in Nat /\ Cur(s).next <= tick[s].now
  BY <1>1 DEF Due
<1>3. \A s2 \in Schedulers : /\ tick'[s2].now = tick[s2].now /\ tick'[s2].todo = tick[s2].todo
                             /\ tick'[s2].seen = tick[s2].seen
                             /\ Handling(s2)' = Handling(s2) /\ Cur(s2)' = Cur(s2)
  BY DEF OnlyTick, Handling, Cur
<1>4. \A u, v : SlotsOf(u, v)' = SlotsOf(u, v)
                \/ (u = t /\ v = w /\ SlotsOf(u, v)' \subseteq SlotsOf(u, v) \cup {Cur(s).next})
  BY DEF SlotsOf
<1>5. /\ t \in Triggers \cup {Nobody} /\ w \in Workers
      /\ t \in Triggers => w = WorkerOf[t]
      /\ tick[s].todo # <<>> /\ 1 \in DOMAIN tick[s].todo /\ Cur(s) = tick[s].todo[1]
  BY CurKey
<1>6. Known'
  <2> SUFFICES ASSUME NEW u \in Triggers \cup {Nobody}, NEW v \in Workers, NEW x \in SlotsOf(u, v)'
               PROVE  /\ u \in Triggers => v = WorkerOf[u]
                      /\ x \in Nat /\ \E s2 \in Schedulers : x <= tick'[s2].now
    BY DEF Known
  <2>1. CASE x \in SlotsOf(u, v)
    BY <1>3, <2>1 DEF SlotInv, Known
  <2>2. CASE u = t /\ v = w /\ x = Cur(s).next
    BY <1>2, <1>3, <1>5, <2>2
  <2> QED
    BY <1>4, <2>1, <2>2
<1>7. ByRows'
  <2> SUFFICES ASSUME NEW v \in Workers, HasRows(v), v \notin crossed
               PROVE  /\ SlotsOf(Nobody, v)' = {}
                      /\ \A s2 \in Schedulers : \A i \in DOMAIN tick'[s2].todo :
                            tick'[s2].todo[i].worker = v => tick'[s2].todo[i].trigger # Nobody
    BY DEF ByRows, HasRows
  <2>1. /\ SlotsOf(Nobody, v) = {}
        /\ \A s2 \in Schedulers : \A i \in DOMAIN tick[s2].todo :
              tick[s2].todo[i].worker = v => tick[s2].todo[i].trigger # Nobody
    BY DEF SlotInv, ByRows
  <2>2. ~(t = Nobody /\ w = v)
    BY <1>5, <2>1
  <2>3. SlotsOf(Nobody, v)' = {}
    BY <1>4, <2>1, <2>2
  <2> QED
    BY <1>3, <2>1, <2>3
<1>8. SeenHasRows'
  BY <1>3 DEF SlotInv, SeenHasRows, HasRows
<1>9. ASSUME NEW s2 \in Schedulers PROVE Due(s2)' /\ Alone(s2)' /\ Past(s2)'
  <2>1. Due(s2) /\ Alone(s2) /\ Past(s2)
    BY DEF SlotInv
  <2>2. Due(s2)'
    BY <1>3, <2>1 DEF Due
  <2>3. Alone(s2)'
    BY <1>3, <2>1 DEF Alone, HandlesRow
  <2>4. Past(s2)'
    <3> SUFFICES ASSUME Handling(s2), Cur(s2).worker \notin crossed
                 PROVE  /\ \A x \in FiresOf(Cur(s2).trigger, Cur(s2).worker)' :
                              x < Cur(s2).next \/ (x = Cur(s2).next /\ tick'[s2].pc \in FiredPc)
                        /\ \A x \in MarkersOf(Cur(s2).trigger, Cur(s2).worker)' :
                              x < Cur(s2).next \/ (x = Cur(s2).next /\ tick'[s2].pc # "late")
      BY <1>3 DEF Past
    <3> DEFINE u == Cur(s2).trigger
               v == Cur(s2).worker
    <3>1. /\ \A x \in FiresOf(u, v) : x < Cur(s2).next \/ (x = Cur(s2).next /\ tick[s2].pc \in FiredPc)
          /\ \A x \in MarkersOf(u, v) : x < Cur(s2).next \/ (x = Cur(s2).next /\ tick[s2].pc # "late")
      BY <2>1 DEF Past
    <3>2. CASE s2 = s
      <4>1. \A x \in FiresOf(t, w)' : x < Cur(s).next \/ (x = Cur(s).next /\ tick'[s].pc \in FiredPc)
        BY <3>1, <3>2
      <4>2. \A x \in MarkersOf(t, w)' : x < Cur(s).next \/ (x = Cur(s).next /\ tick'[s].pc # "late")
        BY <3>1, <3>2
      <4>3. FiresOf(u, v)' = FiresOf(t, w)' /\ MarkersOf(u, v)' = MarkersOf(t, w)'
        BY <1>3, <3>2
      <4> QED
        BY <3>2, <4>1, <4>2, <4>3
    <3>3. CASE s2 # s
      <4>1. tick'[s2] = tick[s2]
        BY <3>3 DEF OnlyTick
      <4>2. ~(u = t /\ v = w)
        BY <2>1, <3>3 DEF Alone, HandlesRow
      <4>3. FiresOf(u, v)' = FiresOf(u, v) /\ MarkersOf(u, v)' = MarkersOf(u, v)
        BY <1>3, <4>2
      <4> QED
        BY <3>1, <4>1, <4>3
    <3> QED
      BY <3>2, <3>3
  <2> QED
    BY <2>2, <2>3, <2>4
<1>10. ASSUME NEW u \in Triggers \cup {Nobody}, NEW v \in Workers PROVE Ahead(u, v)'
  <2> SUFFICES ASSUME IsRow(u, v), v \notin crossed, \A s2 \in Schedulers : ~HandlesRow(s2, u, v)'
               PROVE  NextTime(u, v) = Never \/ \A x \in SlotsOf(u, v)' : x < NextTime(u, v)
    BY DEF Ahead, IsRow, HasRows, NextTime
  <2>1. \A s2 \in Schedulers : ~HandlesRow(s2, u, v)
    BY <1>3 DEF HandlesRow
  <2>2. ~(u = t /\ v = w)
    BY <2>1 DEF HandlesRow
  <2> QED
    BY <1>4, <2>1, <2>2 DEF SlotInv, Ahead
<1> QED
  BY <1>6, <1>7, <1>8, <1>9, <1>10 DEF SlotInv

-----------------------------------------------------------------------------
(* What a step adds to the history *)

IsFire(row) == row.kind \in {"run", "failure"} /\ row.code # "scheduler_row_error"

LEMMA RunsStay ==
    ASSUME runs' = runs
    PROVE  SameHistory
BY DEF SameHistory, Fires, Markers

\* A row that is not a fire.
LEMMA OtherRow ==
    ASSUME TypeInv, NEW row \in RunRow, runs' = Append(runs, row), UNCHANGED <<trigger, worker>>,
           row.code = "scheduler_row_error" => row.status = "failed",
           ~IsFire(row), row.kind # "missed"
    PROVE  SameHistory
<1>1. /\ Len(runs) + 1 \notin DOMAIN runs
      /\ DOMAIN runs' = DOMAIN runs \cup {Len(runs) + 1}
      /\ \A i \in DOMAIN runs : runs'[i] = runs[i]
      /\ runs'[Len(runs) + 1] = row
  BY AppendType
<1>2. Fires' = Fires
  BY <1>1 DEF Fires, IsFire
<1>3. Markers' = Markers
  BY <1>1 DEF Markers
<1> QED
  BY <1>1, <1>2, <1>3 DEF SameHistory, Fires, Markers

\* A run that goes on.
LEMMA ChangedRun ==
    ASSUME TypeInv, NEW i \in DOMAIN runs, NEW row \in RunRow, runs' = [runs EXCEPT ![i] = row],
           row.worker = runs[i].worker, row.trigger = runs[i].trigger, row.slot = runs[i].slot,
           row.kind = runs[i].kind, row.code # "scheduler_row_error",
           runs[i].code # "scheduler_row_error"
    PROVE  /\ SameHistory
           /\ runs' \in Seq(RunRow)
           /\ \A k \in DOMAIN runs' :
                 runs'[k].code = "scheduler_row_error" => runs'[k].status = "failed"
<1>1. runs \in Seq(RunRow)
      /\ \A k \in DOMAIN runs : runs[k].code = "scheduler_row_error" => runs[k].status = "failed"
  BY DEF TypeInv, TableType
<1>2. runs' \in Seq(RunRow)
  BY <1>1, ExceptSeq
<1>3. DOMAIN runs' = DOMAIN runs /\ runs'[i] = row
      /\ \A k \in DOMAIN runs : k # i => runs'[k] = runs[k]
  BY <1>1
<1>4. Fires' = Fires
  BY <1>3 DEF Fires
<1>5. Markers' = Markers
  BY <1>3 DEF Markers
<1> QED
  BY <1>1, <1>2, <1>3, <1>4, <1>5 DEF SameHistory, Fires, Markers

LEMMA AddFire ==
    ASSUME TypeInv, SlotInv, NEW row \in RunRow, runs' = Append(runs, row),
           UNCHANGED <<trigger, worker, crossed>>, IsFire(row),
           row.worker \notin crossed => row.slot \notin FiresOf(row.trigger, row.worker)
    PROVE  /\ \A u, v : \/ FiresOf(u, v)' = FiresOf(u, v)
                        \/ /\ u = row.trigger /\ v = row.worker
                           /\ FiresOf(u, v)' = FiresOf(u, v) \cup {row.slot}
           /\ \A u, v : MarkersOf(u, v)' = MarkersOf(u, v)
           /\ Unique(Fires)' /\ Unique(Markers)'
<1> DEFINE n == Len(runs) + 1
<1>1. /\ n \notin DOMAIN runs
      /\ DOMAIN runs' = DOMAIN runs \cup {n}
      /\ \A i \in DOMAIN runs : runs'[i] = runs[i]
      /\ runs'[n] = row
  BY AppendType DEF IsFire
<1> HIDE DEF n
<1>2. Fires' = Fires \cup {n}
  BY <1>1 DEF Fires, IsFire
<1>3. Markers' = Markers
  BY <1>1 DEF Markers, IsFire
<1>4. Fires \subseteq DOMAIN runs /\ Markers \subseteq DOMAIN runs
  BY DEF Fires, Markers
<1>5. ASSUME NEW u, NEW v
      PROVE  /\ \/ FiresOf(u, v)' = FiresOf(u, v)
                \/ /\ u = row.trigger /\ v = row.worker
                   /\ FiresOf(u, v)' = FiresOf(u, v) \cup {row.slot}
             /\ MarkersOf(u, v)' = MarkersOf(u, v)
  <2> DEFINE F == {j \in Fires : runs[j].trigger = u /\ runs[j].worker = v}
             G == {j \in Fires \cup {n} : runs'[j].trigger = u /\ runs'[j].worker = v}
  <2>1. FiresOf(u, v)' = {runs'[i].slot : i \in G}
    BY <1>2 DEF FiresOf
  <2>2. FiresOf(u, v) = {runs[i].slot : i \in F}
    BY DEF FiresOf
  <2>3. G = IF u = row.trigger /\ v = row.worker THEN F \cup {n} ELSE F
    BY <1>1, <1>4
  <2>4. \A i \in F : runs'[i] = runs[i]
    BY <1>1, <1>4
  <2> HIDE DEF F, G
  <2>5. MarkersOf(u, v)' = MarkersOf(u, v)
    <3> DEFINE M == {j \in Markers : runs[j].trigger = u /\ runs[j].worker = v}
    <3>1. {j \in Markers : runs'[j].trigger = u /\ runs'[j].worker = v} = M
      BY <1>1, <1>4
    <3>2. MarkersOf(u, v)' = {runs'[i].slot : i \in M}
      BY <1>3, <3>1 DEF MarkersOf
    <3>3. \A i \in M : runs'[i] = runs[i]
      BY <1>1, <1>4
    <3> QED
      BY <3>2, <3>3 DEF MarkersOf
  <2>6. CASE u = row.trigger /\ v = row.worker
    <3>1. {runs'[i].slot : i \in F \cup {n}} = {runs'[i].slot : i \in F} \cup {runs'[n].slot}
      OBVIOUS
    <3>2. {runs'[i].slot : i \in F} = {runs[i].slot : i \in F}
      BY <2>4
    <3>3. G = F \cup {n}
      BY <2>3, <2>6
    <3>4. FiresOf(u, v)' = {runs'[i].slot : i \in F \cup {n}}
      BY <2>1, <3>3
    <3> QED
      BY <1>1, <2>2, <2>6, <2>5, <3>1, <3>2, <3>4
  <2>7. CASE ~(u = row.trigger /\ v = row.worker)
    <3>1. {runs'[i].slot : i \in F} = {runs[i].slot : i \in F}
      BY <2>4
    <3>2. G = F
      BY <2>3, <2>7
    <3>3. FiresOf(u, v)' = {runs'[i].slot : i \in F}
      BY <2>1, <3>2
    <3> QED
      BY <2>2, <2>5, <3>1, <3>3
  <2> QED
    BY <2>6, <2>7
<1>6. Unique(Fires)'
  <2> SUFFICES ASSUME NEW i \in Fires', NEW j \in Fires', i # j, runs'[i].worker \notin crossed'
               PROVE  \/ runs'[i].slot # runs'[j].slot \/ runs'[i].worker # runs'[j].worker
                      \/ runs'[i].trigger # runs'[j].trigger
    BY DEF Unique
  <2>0. i \in Fires \cup {n} /\ j \in Fires \cup {n} /\ runs'[i].worker \notin crossed
    BY <1>2
  <2>1. \A k \in Fires : runs[k].trigger = row.trigger /\ runs[k].worker = row.worker
            => runs[k].slot \in FiresOf(row.trigger, row.worker)
    BY DEF FiresOf
  <2>2. CASE i \in Fires /\ j \in Fires
    BY <1>1, <1>4, <2>0, <2>2 DEF SlotInv, Unique
  <2>3. CASE i = n /\ j \in Fires
    BY <1>1, <1>4, <2>0, <2>1, <2>3
  <2>4. CASE i \in Fires /\ j = n
    BY <1>1, <1>4, <2>0, <2>1, <2>4
  <2> QED
    BY <2>0, <2>2, <2>3, <2>4
<1>7. Unique(Markers)'
  BY <1>1, <1>3, <1>4 DEF SlotInv, Unique
<1> QED
  BY <1>5, <1>6, <1>7

LEMMA AddMarker ==
    ASSUME TypeInv, SlotInv, NEW row \in RunRow, runs' = Append(runs, row),
           UNCHANGED <<trigger, worker, crossed>>, row.kind = "missed",
           row.code # "scheduler_row_error",
           row.worker \notin crossed => row.slot \notin MarkersOf(row.trigger, row.worker)
    PROVE  /\ \A u, v : \/ MarkersOf(u, v)' = MarkersOf(u, v)
                        \/ /\ u = row.trigger /\ v = row.worker
                           /\ MarkersOf(u, v)' = MarkersOf(u, v) \cup {row.slot}
           /\ \A u, v : FiresOf(u, v)' = FiresOf(u, v)
           /\ Unique(Fires)' /\ Unique(Markers)'
<1> DEFINE n == Len(runs) + 1
<1>1. /\ n \notin DOMAIN runs
      /\ DOMAIN runs' = DOMAIN runs \cup {n}
      /\ \A i \in DOMAIN runs : runs'[i] = runs[i]
      /\ runs'[n] = row
  BY AppendType
<1> HIDE DEF n
<1>2. Markers' = Markers \cup {n}
  BY <1>1 DEF Markers
<1>3. Fires' = Fires
  BY <1>1 DEF Fires
<1>4. Fires \subseteq DOMAIN runs /\ Markers \subseteq DOMAIN runs
  BY DEF Fires, Markers
<1>5. ASSUME NEW u, NEW v
      PROVE  /\ \/ MarkersOf(u, v)' = MarkersOf(u, v)
                \/ /\ u = row.trigger /\ v = row.worker
                   /\ MarkersOf(u, v)' = MarkersOf(u, v) \cup {row.slot}
             /\ FiresOf(u, v)' = FiresOf(u, v)
  <2> DEFINE F == {j \in Markers : runs[j].trigger = u /\ runs[j].worker = v}
             G == {j \in Markers \cup {n} : runs'[j].trigger = u /\ runs'[j].worker = v}
  <2>1. MarkersOf(u, v)' = {runs'[i].slot : i \in G}
    BY <1>2 DEF MarkersOf
  <2>2. MarkersOf(u, v) = {runs[i].slot : i \in F}
    BY DEF MarkersOf
  <2>3. G = IF u = row.trigger /\ v = row.worker THEN F \cup {n} ELSE F
    BY <1>1, <1>4
  <2>4. \A i \in F : runs'[i] = runs[i]
    BY <1>1, <1>4
  <2> HIDE DEF F, G
  <2>5. FiresOf(u, v)' = FiresOf(u, v)
    <3> DEFINE M == {j \in Fires : runs[j].trigger = u /\ runs[j].worker = v}
    <3>1. {j \in Fires : runs'[j].trigger = u /\ runs'[j].worker = v} = M
      BY <1>1, <1>4
    <3>2. FiresOf(u, v)' = {runs'[i].slot : i \in M}
      BY <1>3, <3>1 DEF FiresOf
    <3>3. \A i \in M : runs'[i] = runs[i]
      BY <1>1, <1>4
    <3> QED
      BY <3>2, <3>3 DEF FiresOf
  <2>6. CASE u = row.trigger /\ v = row.worker
    <3>1. {runs'[i].slot : i \in F \cup {n}} = {runs'[i].slot : i \in F} \cup {runs'[n].slot}
      OBVIOUS
    <3>2. {runs'[i].slot : i \in F} = {runs[i].slot : i \in F}
      BY <2>4
    <3>3. G = F \cup {n}
      BY <2>3, <2>6
    <3>4. MarkersOf(u, v)' = {runs'[i].slot : i \in F \cup {n}}
      BY <2>1, <3>3
    <3> QED
      BY <1>1, <2>2, <2>6, <2>5, <3>1, <3>2, <3>4
  <2>7. CASE ~(u = row.trigger /\ v = row.worker)
    <3>1. {runs'[i].slot : i \in F} = {runs[i].slot : i \in F}
      BY <2>4
    <3>2. G = F
      BY <2>3, <2>7
    <3>3. MarkersOf(u, v)' = {runs'[i].slot : i \in F}
      BY <2>1, <3>2
    <3> QED
      BY <2>2, <2>5, <3>1, <3>3
  <2> QED
    BY <2>6, <2>7
<1>6. Unique(Markers)'
  <2> SUFFICES ASSUME NEW i \in Markers', NEW j \in Markers', i # j, runs'[i].worker \notin crossed'
               PROVE  \/ runs'[i].slot # runs'[j].slot \/ runs'[i].worker # runs'[j].worker
                      \/ runs'[i].trigger # runs'[j].trigger
    BY DEF Unique
  <2>0. i \in Markers \cup {n} /\ j \in Markers \cup {n} /\ runs'[i].worker \notin crossed
    BY <1>2
  <2>1. \A k \in Markers : runs[k].trigger = row.trigger /\ runs[k].worker = row.worker
            => runs[k].slot \in MarkersOf(row.trigger, row.worker)
    BY DEF MarkersOf
  <2>2. CASE i \in Markers /\ j \in Markers
    BY <1>1, <1>4, <2>0, <2>2 DEF SlotInv, Unique
  <2>3. CASE i = n /\ j \in Markers
    BY <1>1, <1>4, <2>0, <2>1, <2>3
  <2>4. CASE i \in Markers /\ j = n
    BY <1>1, <1>4, <2>0, <2>1, <2>4
  <2> QED
    BY <2>0, <2>2, <2>3, <2>4
<1>7. Unique(Fires)'
  BY <1>1, <1>3, <1>4 DEF SlotInv, Unique
<1> QED
  BY <1>5, <1>6, <1>7

-----------------------------------------------------------------------------
(* Steps of one tick *)

LEMMA OthersCalm ==
    ASSUME TypeInv, SlotInv, NEW s \in Schedulers, OnlyTick(s), crossed \subseteq crossed',
           \A u \in Triggers : trigger[u].locked # Never =>
               \/ trigger'[u].locked # Never
               \/ WorkerOf[u] \in crossed'
               \/ Handling(s) /\ Cur(s).trigger = u
    PROVE  \A s2 \in Schedulers \ {s} : CalmTick(s2)
<1> SUFFICES ASSUME NEW s2 \in Schedulers \ {s} PROVE CalmTick(s2)
  OBVIOUS
<1>1. tick'[s2] = tick[s2] /\ Handling(s2)' = Handling(s2) /\ Cur(s2)' = Cur(s2)
      /\ tick[s2].now \in Nat
  BY DEF OnlyTick, Handling, Cur, TypeInv, TickType, TickRow
<1>2. ASSUME Handling(s2), Cur(s2).trigger \in Triggers, trigger[Cur(s2).trigger].locked # Never
      PROVE  Cur(s2).worker \in crossed' \/ trigger'[Cur(s2).trigger].locked # Never
  <2>1. Cur(s2).worker = WorkerOf[Cur(s2).trigger]
    BY <1>2, CurKey
  <2>2. CASE Handling(s) /\ Cur(s).trigger = Cur(s2).trigger
    <3>1. Cur(s).worker = Cur(s2).worker
      BY <1>2, <2>1, <2>2, CurKey
    <3>2. HandlesRow(s2, Cur(s).trigger, Cur(s).worker)
      BY <1>2, <2>2, <3>1 DEF HandlesRow
    <3>3. Alone(s)
      BY DEF SlotInv
    <3>4. Cur(s).worker \in crossed
      BY <2>2, <3>2, <3>3 DEF Alone
    <3> QED
      BY <3>1, <3>4
  <2> QED
    BY <1>2, <2>1, <2>2
<1>3. ASSUME NEW i \in DOMAIN tick[s2].todo, tick[s2].todo[i].trigger = Nobody,
             HasRows(tick[s2].todo[i].worker)
      PROVE  tick[s2].todo[i].worker \in crossed'
  <2>1. tick[s2].todo \in Seq(Item)
    BY DEF TypeInv, TickType, TickRow
  <2>2. tick[s2].todo[i] \in Item
    BY <1>3, <2>1
  <2>3. tick[s2].todo[i].worker \in Workers
    BY <2>2 DEF Item
  <2> QED
    BY <1>3, <2>3 DEF SlotInv, ByRows
<1>4. \A w \in tick[s2].seen : HasRows(w)
  BY DEF SlotInv, SeenHasRows
<1>5. \A t \in Triggers \cup {Nobody}, w \in Workers :
         HandlesRow(s2, t, w) /\ ~Handling(s2)' => w \in crossed' \/ NextTime(t, w)' > tick[s2].now
  BY <1>1 DEF HandlesRow
<1>6. tick[s2].now <= tick'[s2].now
  BY <1>1
<1>7. Handling(s2)' =>
         /\ Handling(s2) /\ Cur(s2)' = Cur(s2)
         /\ tick[s2].pc \in FiredPc => tick'[s2].pc \in FiredPc
         /\ tick[s2].pc # "late" => tick'[s2].pc # "late"
         /\ Cur(s2).trigger \in Triggers /\ trigger[Cur(s2).trigger].locked # Never
               => Cur(s2).worker \in crossed' \/ trigger'[Cur(s2).trigger].locked # Never
  BY <1>1, <1>2
<1>8. /\ \A i \in DOMAIN tick'[s2].todo :
            tick'[s2].todo[i].trigger = Nobody /\ HasRows(tick'[s2].todo[i].worker)
                => tick'[s2].todo[i].worker \in crossed'
      /\ \A w \in tick'[s2].seen : HasRows(w)
  BY <1>1, <1>3, <1>4
<1> QED
  BY <1>5, <1>6, <1>7, <1>8 DEF CalmTick

\* A tick that has no row before and after.
LEMMA WaitKeepsSlots ==
    ASSUME TypeInv, TypeInv', SlotInv, SameHistory, NEW s \in Schedulers, OnlyTick(s),
           crossed \subseteq crossed', ~Handling(s), ~Handling(s)', tick[s].now <= tick'[s].now,
           \A i \in DOMAIN tick'[s].todo :
               tick'[s].todo[i].trigger = Nobody /\ HasRows(tick'[s].todo[i].worker)
                   => tick'[s].todo[i].worker \in crossed',
           \A w \in tick'[s].seen : HasRows(w),
           \A u \in Triggers : trigger[u].locked # Never =>
               trigger'[u].locked # Never \/ WorkerOf[u] \in crossed',
           \A t \in Triggers \cup {Nobody}, w \in Workers : CalmRow(t, w)
    PROVE  SlotInv'
<1>1. \A s2 \in Schedulers \ {s} : CalmTick(s2)
  BY OthersCalm
<1>2. CalmTick(s)
  BY DEF CalmTick, HandlesRow
<1> QED
  BY <1>1, <1>2, CalmKeepsSlots DEF Calm

\* The rows a tick has left to handle were listed before.
LEMMA LeftRows ==
    ASSUME TypeInv, SlotInv, NEW s \in Schedulers, crossed \subseteq crossed',
           \A i \in DOMAIN tick'[s].todo : \E j \in DOMAIN tick[s].todo :
               tick'[s].todo[i] = tick[s].todo[j]
    PROVE  \A i \in DOMAIN tick'[s].todo :
               tick'[s].todo[i].trigger = Nobody /\ HasRows(tick'[s].todo[i].worker)
                   => tick'[s].todo[i].worker \in crossed'
<1> SUFFICES ASSUME NEW i \in DOMAIN tick'[s].todo, tick'[s].todo[i].trigger = Nobody,
                    HasRows(tick'[s].todo[i].worker)
             PROVE  tick'[s].todo[i].worker \in crossed'
  OBVIOUS
<1>1. PICK j \in DOMAIN tick[s].todo : tick'[s].todo[i] = tick[s].todo[j]
  OBVIOUS
<1>2. tick[s].todo \in Seq(Item)
  BY DEF TypeInv, TickType, TickRow
<1>3. tick[s].todo[j].worker \in Workers
  <2>1. tick[s].todo[j] \in Item
    BY <1>2
  <2> QED
    BY <2>1 DEF Item
<1> QED
  BY <1>1, <1>3 DEF SlotInv, ByRows

\* A tick that stays at its row.
LEMMA MoveKeepsSlots ==
    ASSUME TypeInv, TypeInv', SlotInv, SameHistory, NEW s \in Schedulers, OnlyTick(s),
           UNCHANGED <<trigger, crossed>>, \A w \in Workers : worker'[w].next = worker[w].next,
           Handling(s), tick'[s].pc \notin {"idle", "listing", "row", "late", "mirroring", "legacy"},
           tick[s].pc \in FiredPc => tick'[s].pc \in FiredPc,
           tick'[s].now = tick[s].now, tick'[s].todo = tick[s].todo, tick'[s].seen = tick[s].seen
    PROVE  SlotInv'
<1>1. \A s2 \in Schedulers \ {s} : CalmTick(s2)
  BY OthersCalm
<1>2. Handling(s)' /\ Cur(s)' = Cur(s) /\ tick[s].now \in Nat
  BY DEF Handling, Cur, TypeInv, TickType, TickRow
<1>3. \A i \in DOMAIN tick'[s].todo :
         tick'[s].todo[i].trigger = Nobody /\ HasRows(tick'[s].todo[i].worker)
             => tick'[s].todo[i].worker \in crossed'
  BY LeftRows
<1>4. CalmTick(s)
  BY <1>2, <1>3 DEF CalmTick, SlotInv, SeenHasRows
<1>5. \A t \in Triggers \cup {Nobody}, w \in Workers : CalmRow(t, w)
  BY DEF CalmRow, NextTime
<1> QED
  BY <1>1, <1>4, <1>5, CalmKeepsSlots DEF Calm

\* A tick that leaves its row with a later time, or is lost.
LEMMA LeaveKeepsSlots ==
    ASSUME TypeInv, TypeInv', SlotInv, SameHistory, NEW s \in Schedulers, OnlyTick(s),
           crossed \subseteq crossed', Handling(s), ~Handling(s)', tick'[s].now = tick[s].now,
           \A i \in DOMAIN tick'[s].todo : \E j \in DOMAIN tick[s].todo :
               tick'[s].todo[i] = tick[s].todo[j],
           \A v \in tick'[s].seen : HasRows(v),
           NEW t, NEW w, t = Cur(s).trigger, w = Cur(s).worker,
           w \in crossed' \/ NextTime(t, w)' > tick[s].now,
           \A u \in Triggers \cup {Nobody}, v \in Workers :
               IsRow(u, v) /\ v \notin crossed' /\ ~(u = t /\ v = w)
                   => NextTime(u, v)' = NextTime(u, v),
           \A u \in Triggers : u # t => trigger'[u].locked = trigger[u].locked
    PROVE  SlotInv'
<1>1. \A s2 \in Schedulers \ {s} : CalmTick(s2)
  BY OthersCalm
<1>2. \A i \in DOMAIN tick'[s].todo :
         tick'[s].todo[i].trigger = Nobody /\ HasRows(tick'[s].todo[i].worker)
             => tick'[s].todo[i].worker \in crossed'
  BY LeftRows
<1>3. CalmTick(s)
  <2>1. tick[s].now \in Nat
    BY DEF TypeInv, TickType, TickRow
  <2>2. \A u \in Triggers \cup {Nobody}, v \in Workers :
           HandlesRow(s, u, v) /\ ~Handling(s)' => v \in crossed' \/ NextTime(u, v)' > tick[s].now
    <3> SUFFICES ASSUME NEW u \in Triggers \cup {Nobody}, NEW v \in Workers, HandlesRow(s, u, v)
                 PROVE  v \in crossed' \/ NextTime(u, v)' > tick[s].now
      OBVIOUS
    <3>1. u = t /\ v = w
      BY DEF HandlesRow
    <3> QED
      BY <3>1
  <2> QED
    BY <1>2, <2>1, <2>2 DEF CalmTick
<1>4. \A u \in Triggers \cup {Nobody}, v \in Workers : CalmRow(u, v)
  <2> SUFFICES ASSUME NEW u \in Triggers \cup {Nobody}, NEW v \in Workers, IsRow(u, v),
                      v \notin crossed', \A s2 \in Schedulers : ~HandlesRow(s2, u, v)
               PROVE  NextTime(u, v)' = NextTime(u, v)
    BY DEF CalmRow
  <2>1. ~(u = t /\ v = w)
    BY DEF HandlesRow
  <2> QED
    BY <2>1
<1> QED
  BY <1>1, <1>3, <1>4, CalmKeepsSlots DEF Calm

\* What setting the time of a row changes.
LEMMA SetNextEffect ==
    ASSUME TypeInv, NEW s \in Schedulers, tick[s].todo # <<>>, NEW next \in Time, SetNext(s, next),
           NEW t, NEW w, t = Cur(s).trigger, w = Cur(s).worker
    PROVE  /\ NextTime(t, w)' = next
           /\ \A u \in Triggers \cup {Nobody}, v \in Workers :
                 IsRow(u, v) /\ ~(u = t /\ v = w) => NextTime(u, v)' = NextTime(u, v)
           /\ \A u \in Triggers : u # t => trigger'[u].locked = trigger[u].locked
<1>1. w \in Workers /\ t \in Triggers \cup {Nobody} /\ (t # Nobody => w = WorkerOf[t])
  BY CurType
<1>2. trigger \in [Triggers -> TriggerRow] /\ worker \in [Workers -> WorkerRow]
  BY DEF TypeInv, TableType
<1>3. CASE t # Nobody
  <2> DEFINE row == [trigger[t] EXCEPT !.next = next, !.locked = Never]
  <2>1. t \in Triggers /\ row.next = next
    BY <1>1, <1>2, <1>3 DEF TriggerRow
  <2>2. trigger' = [trigger EXCEPT ![t] = row] /\ worker' = worker
    BY <1>2, <1>3, <2>1 DEF SetNext
  <2> HIDE DEF row
  <2>3. trigger'[t] = row /\ \A u \in Triggers : u # t => trigger'[u] = trigger[u]
    BY <1>2, <2>1, <2>2
  <2> QED
    BY <1>1, <1>3, <2>1, <2>2, <2>3 DEF NextTime, IsRow
<1>4. CASE t = Nobody
  <2> DEFINE row == [worker[w] EXCEPT !.next = next]
  <2>1. row.next = next
    BY <1>1, <1>2 DEF WorkerRow
  <2>2. worker' = [worker EXCEPT ![w] = row] /\ trigger' = trigger
    BY <1>1, <1>2, <1>4 DEF SetNext
  <2> HIDE DEF row
  <2>3. worker'[w] = row /\ \A v \in Workers : v # w => worker'[v] = worker[v]
    BY <1>1, <1>2, <2>2
  <2> QED
    BY <1>1, <1>4, <2>1, <2>2, <2>3 DEF NextTime, IsRow
<1> QED
  BY <1>3, <1>4

\* A step beside the ticks, which may lose the time of a row.
LEMMA BesideKeepsSlots ==
    ASSUME TypeInv, TypeInv', SlotInv, SameHistory, UNCHANGED <<tick, crossed>>,
           \A u \in Triggers : trigger'[u].locked = trigger[u].locked,
           \A u \in Triggers : trigger'[u].next \in {trigger[u].next, Never},
           \A v \in Workers : worker'[v].next \in {worker[v].next, Never}
    PROVE  SlotInv'
<1>1. ASSUME NEW s \in Schedulers PROVE CalmTick(s)
  <2>1. Handling(s)' = Handling(s) /\ Cur(s)' = Cur(s) /\ tick'[s] = tick[s] /\ tick[s].now \in Nat
    BY DEF Handling, Cur, TypeInv, TickType, TickRow
  <2>2. \A i \in DOMAIN tick'[s].todo :
           tick'[s].todo[i].trigger = Nobody /\ HasRows(tick'[s].todo[i].worker)
               => tick'[s].todo[i].worker \in crossed'
    BY LeftRows
  <2>3. \A w \in tick'[s].seen : HasRows(w)
    BY <2>1 DEF SlotInv, SeenHasRows
  <2>4. \A t \in Triggers \cup {Nobody}, w \in Workers :
           ~(HandlesRow(s, t, w) /\ ~Handling(s)')
    BY <2>1 DEF HandlesRow
  <2>5. Cur(s).trigger \in Triggers /\ trigger[Cur(s).trigger].locked # Never
           => trigger'[Cur(s).trigger].locked # Never
    OBVIOUS
  <2> QED
    BY <2>1, <2>2, <2>3, <2>4, <2>5 DEF CalmTick
<1>2. \A t \in Triggers \cup {Nobody}, w \in Workers : CalmRow(t, w)
  BY DEF CalmRow, NextTime
<1> QED
  BY <1>1, <1>2, CalmKeepsSlots DEF Calm

-----------------------------------------------------------------------------
(* The initial states, and the steps of a tick that handle no row *)

LEMMA InitInv == Init => TypeInv /\ SlotInv
<1> SUFFICES ASSUME Init PROVE TypeInv /\ SlotInv
  OBVIOUS
<1>1. runs = <<>> /\ runs \in Seq(RunRow) /\ DOMAIN runs = {}
  BY EmptySeq DEF Init
<1>2. TableType
  <2>1. PICK period \in Periods :
           /\ trigger = [t \in Triggers |-> [period |-> period, next |-> Never, fired |-> Never,
                                             locked |-> Never, enabled |-> TRUE]]
           /\ worker = [w \in Workers |-> [period |-> period, next |-> Never, enabled |-> TRUE,
                                           paused |-> FALSE, resumed |-> Never]]
    BY DEF Init
  <2>2. [period |-> period, next |-> Never, fired |-> Never, locked |-> Never, enabled |-> TRUE]
           \in TriggerRow
    BY DEF TriggerRow, Time
  <2>3. [period |-> period, next |-> Never, enabled |-> TRUE, paused |-> FALSE, resumed |-> Never]
           \in WorkerRow
    BY DEF WorkerRow, Time
  <2> QED
    BY <1>1, <2>1, <2>2, <2>3 DEF TableType
<1>3. RestType
  <2>1. setup \in [Workers -> SetupCode \cup {"none"}]
    BY ConstantsAssumption DEF Init, SetupCode, Foreseen
  <2> QED
    BY <2>1, ConstantsAssumption DEF Init, RestType
<1>4. /\ tick = [s \in Schedulers |-> Idle]
      /\ Idle \in TickRow /\ Idle.pc = "idle" /\ Idle.now = 0 /\ Idle.todo = <<>> /\ Idle.seen = {}
  BY EmptySeq DEF Init, Idle, TickRow, Pc, Code
<1>5. \A s \in Schedulers : /\ tick[s] = Idle /\ ~Handling(s) /\ DOMAIN tick[s].todo = {}
                            /\ tick[s].seen = {}
  BY <1>4 DEF Handling
<1>6. TickType
  <2>1. clock = 0
    BY DEF Init
  <2> QED
    BY <1>4, <1>5, <2>1 DEF TickType, TickOK
<1>7. \A t, w : SlotsOf(t, w) = {} /\ FiresOf(t, w) = {} /\ MarkersOf(t, w) = {}
  BY <1>1 DEF SlotsOf, FiresOf, MarkersOf, Fires, Markers
<1>8. Unique(Fires) /\ Unique(Markers)
  BY <1>1 DEF Unique, Fires, Markers
<1>9. Known /\ ByRows /\ SeenHasRows
  BY <1>5, <1>7 DEF Known, ByRows, SeenHasRows
<1>10. \A s \in Schedulers : Due(s) /\ Alone(s) /\ Past(s)
  BY <1>5 DEF Due, Alone, Past
<1>11. \A t \in Triggers \cup {Nobody}, w \in Workers : Ahead(t, w)
  BY <1>7 DEF Ahead
<1> QED
  BY <1>2, <1>3, <1>6, <1>8, <1>9, <1>10, <1>11 DEF TypeInv, SlotInv

LEMMA RestStays ==
    ASSUME TypeInv, UNCHANGED world, crossed' \subseteq Workers,
           faults' = faults \/ Fault
    PROVE  RestType' /\ clock' = clock
<1>1. faults' \in Nat /\ changes + faults' <= MaxEvents
  BY ConstantsAssumption DEF TypeInv, RestType, Fault
<1> QED
  BY <1>1 DEF TypeInv, RestType, world

LEMMA TablesStay ==
    ASSUME TypeInv, UNCHANGED <<trigger, worker, runs>>
    PROVE  /\ TableType' /\ SameHistory
           /\ \A t \in Triggers \cup {Nobody}, w \in Workers : CalmRow(t, w)
<1>1. TableType'
  BY DEF TypeInv, TableType
<1>2. \A t \in Triggers \cup {Nobody}, w \in Workers : CalmRow(t, w)
  BY DEF CalmRow, NextTime
<1> QED
  BY <1>1, <1>2, RunsStay

LEMMA CrossType ==
    ASSUME TypeInv, NEW cond \in BOOLEAN, NEW w \in Workers, Cross(cond, w)
    PROVE  crossed \subseteq crossed' /\ crossed' \subseteq Workers /\ (cond => w \in crossed')
BY DEF TypeInv, RestType, Cross

LEMMA AtRow ==
    ASSUME TypeInv, NEW s \in Schedulers, NEW pc, At(s, pc),
           pc \notin {"idle", "listing", "mirroring", "legacy"}
    PROVE  tick[s].todo # <<>> /\ (pc # "row" => Handling(s)) /\ (pc = "row" => ~Handling(s))
BY DEF At, TypeInv, TickType, TickOK, Handling

LEMMA StartTickStep ==
    ASSUME TypeInv, SlotInv, NEW s \in Schedulers, StartTick(s)
    PROVE  TypeInv' /\ SlotInv'
<1>1. /\ TickType' /\ OnlyTick(s)
      /\ tick'[s].pc = "listing" /\ tick'[s].now = clock /\ tick'[s].todo = <<>>
      /\ tick'[s].seen = {}
  BY StartTickType
<1>2. UNCHANGED <<trigger, worker, runs, faults, crossed, world>> /\ tick[s].pc = "idle"
  BY DEF StartTick, At
<1>3. RestType'
  BY <1>2, RestStays DEF TypeInv, RestType
<1>4. TableType' /\ SameHistory /\ \A t \in Triggers \cup {Nobody}, w \in Workers : CalmRow(t, w)
  BY <1>2, TablesStay
<1>5. TypeInv'
  BY <1>1, <1>3, <1>4 DEF TypeInv
<1>6. tick[s].now <= tick'[s].now
  BY <1>1 DEF TypeInv, TickType, TickOK
<1>7. ~Handling(s) /\ ~Handling(s)'
  BY <1>1, <1>2 DEF Handling
<1>8. DOMAIN tick'[s].todo = {}
  BY <1>1
<1> QED
  BY <1>1, <1>2, <1>4, <1>5, <1>6, <1>7, <1>8, WaitKeepsSlots

LEMMA ListTriggersStep ==
    ASSUME TypeInv, SlotInv, NEW s \in Schedulers, ListTriggers(s)
    PROVE  TypeInv' /\ SlotInv'
<1>1. /\ TickType' /\ OnlyTick(s)
      /\ tick'[s].pc \in {"mirroring", "row"} /\ tick'[s].now = tick[s].now
      /\ \A i \in DOMAIN tick'[s].todo : tick'[s].todo[i].trigger \in Triggers
      /\ \A w \in tick'[s].seen : HasRows(w)
  BY ListTriggersType
<1>2. UNCHANGED <<trigger, worker, runs, faults, crossed, world>> /\ tick[s].pc = "listing"
  BY DEF ListTriggers, At
<1>3. RestType'
  BY <1>2, RestStays DEF TypeInv, RestType
<1>4. TableType' /\ SameHistory /\ \A t \in Triggers \cup {Nobody}, w \in Workers : CalmRow(t, w)
  BY <1>2, TablesStay
<1>5. TypeInv'
  BY <1>1, <1>3, <1>4 DEF TypeInv
<1>6. tick[s].now <= tick'[s].now
  BY <1>1 DEF TypeInv, TickType, TickRow
<1>7. ~Handling(s) /\ ~Handling(s)'
  BY <1>1, <1>2 DEF Handling
<1>8. \A i \in DOMAIN tick'[s].todo : tick'[s].todo[i].trigger # Nobody
  BY <1>1, ConstantsAssumption
<1> QED
  BY <1>1, <1>2, <1>4, <1>5, <1>6, <1>7, <1>8, WaitKeepsSlots

LEMMA ListWorkersStep ==
    ASSUME TypeInv, SlotInv, NEW s \in Schedulers, ListWorkers(s)
    PROVE  TypeInv' /\ SlotInv'
<1>1. /\ TickType' /\ OnlyTick(s)
      /\ tick'[s].pc \in {"idle", "row"} /\ tick'[s].now = tick[s].now
      /\ tick'[s].seen = tick[s].seen
      /\ \A i \in DOMAIN tick'[s].todo :
            /\ tick'[s].todo[i].trigger = Nobody
            /\ HasRows(tick'[s].todo[i].worker) => tick'[s].todo[i].worker \in crossed'
      /\ crossed \subseteq crossed' /\ crossed' \subseteq Workers
  BY ListWorkersType
<1>2. UNCHANGED <<trigger, worker, runs, faults, world>> /\ tick[s].pc = "legacy"
  BY DEF ListWorkers, At
<1>3. RestType'
  BY <1>1, <1>2, RestStays
<1>4. TableType' /\ SameHistory /\ \A t \in Triggers \cup {Nobody}, w \in Workers : CalmRow(t, w)
  BY <1>2, TablesStay
<1>5. TypeInv'
  BY <1>1, <1>3, <1>4 DEF TypeInv
<1>6. tick[s].now <= tick'[s].now
  BY <1>1 DEF TypeInv, TickType, TickRow
<1>7. ~Handling(s) /\ ~Handling(s)'
  BY <1>1, <1>2 DEF Handling
<1>8. \A w \in tick'[s].seen : HasRows(w)
  BY <1>1 DEF SlotInv, SeenHasRows
<1> QED
  BY <1>1, <1>2, <1>4, <1>5, <1>6, <1>7, <1>8, WaitKeepsSlots

LEMMA ListFailsStep ==
    ASSUME TypeInv, SlotInv, NEW s \in Schedulers, ListFails(s)
    PROVE  TypeInv' /\ SlotInv'
<1>1. UNCHANGED <<trigger, worker, runs, crossed, world>> /\ tick[s].pc = "listing" /\ Fault
      /\ Goto(s, "legacy")
  BY DEF ListFails, At
<1>2. RestType' /\ clock' = clock
  BY <1>1, RestStays DEF TypeInv, RestType
<1>3. /\ TickType' /\ OnlyTick(s)
      /\ tick'[s].pc = "legacy" /\ tick'[s].now = tick[s].now
      /\ tick'[s].todo = tick[s].todo /\ tick'[s].seen = tick[s].seen
  BY <1>1, <1>2, GotoType DEF Pc
<1>4. TableType' /\ SameHistory /\ \A t \in Triggers \cup {Nobody}, w \in Workers : CalmRow(t, w)
  BY <1>1, TablesStay
<1>5. TypeInv'
  BY <1>2, <1>3, <1>4 DEF TypeInv
<1>6. tick[s].now <= tick'[s].now
  BY <1>3 DEF TypeInv, TickType, TickRow
<1>7. ~Handling(s) /\ ~Handling(s)'
  BY <1>1, <1>3 DEF Handling
<1>8. \A w \in tick'[s].seen : HasRows(w)
  BY <1>3 DEF SlotInv, SeenHasRows
<1>9. \A i \in DOMAIN tick'[s].todo :
         tick'[s].todo[i].trigger = Nobody /\ HasRows(tick'[s].todo[i].worker)
             => tick'[s].todo[i].worker \in crossed'
  BY <1>1, <1>3, LeftRows
<1> QED
  BY <1>1, <1>3, <1>4, <1>5, <1>6, <1>7, <1>8, <1>9, WaitKeepsSlots

\* A row that is not handled: its time is what the tick believes.
LEMMA PassRowStep ==
    ASSUME TypeInv, SlotInv, NEW s \in Schedulers, At(s, "row"), NEW next \in Time, Done(s, next),
           faults' = faults \/ Fault, UNCHANGED <<trigger, worker, runs, crossed, world>>
    PROVE  TypeInv' /\ SlotInv'
<1>1. tick[s].todo # <<>> /\ ~Handling(s)
  BY AtRow
<1>2. RestType' /\ clock' = clock
  BY RestStays DEF TypeInv, RestType
<1>3. /\ TickType' /\ OnlyTick(s)
      /\ tick'[s].pc \in {"row", "idle", "mirroring"} /\ tick'[s].now = tick[s].now
      /\ tick'[s].seen = tick[s].seen
      /\ \A i \in DOMAIN tick'[s].todo : \E j \in DOMAIN tick[s].todo :
            tick'[s].todo[i] = tick[s].todo[j]
  BY <1>1, <1>2, DoneType
<1>4. TableType' /\ SameHistory /\ \A t \in Triggers \cup {Nobody}, w \in Workers : CalmRow(t, w)
  BY TablesStay
<1>5. TypeInv'
  BY <1>2, <1>3, <1>4 DEF TypeInv
<1>6. tick[s].now <= tick'[s].now
  BY <1>3 DEF TypeInv, TickType, TickRow
<1>7. ~Handling(s)'
  BY <1>3 DEF Handling
<1>8. \A w \in tick'[s].seen : HasRows(w)
  BY <1>3 DEF SlotInv, SeenHasRows
<1>9. \A i \in DOMAIN tick'[s].todo :
         tick'[s].todo[i].trigger = Nobody /\ HasRows(tick'[s].todo[i].worker)
             => tick'[s].todo[i].worker \in crossed'
  BY <1>3, LeftRows
<1> QED
  BY <1>1, <1>3, <1>4, <1>5, <1>6, <1>7, <1>8, <1>9, WaitKeepsSlots

LEMMA NextOfType ==
    ASSUME TypeInv, NEW s \in Schedulers, tick[s].todo # <<>>
    PROVE  NextOf(s) \in Time
<1>1. Cur(s).worker \in Workers /\ Cur(s).next \in Time
  BY CurType
<1> QED
  BY <1>1 DEF NextOf, TypeInv, TableType, WorkerRow

LEMMA UnhandledStep ==
    ASSUME TypeInv, SlotInv, NEW s \in Schedulers, SkipRow(s) \/ LoseClaim(s) \/ ClaimRaises(s)
    PROVE  TypeInv' /\ SlotInv'
<1>1. At(s, "row")
  BY DEF SkipRow, LoseClaim, ClaimRaises
<1>2. tick[s].todo # <<>> /\ NextOf(s) \in Time /\ Cur(s).next \in Time
  BY <1>1, AtRow, NextOfType, CurType
<1>3. CASE SkipRow(s)
  BY <1>1, <1>2, <1>3, PassRowStep DEF SkipRow
<1>4. CASE LoseClaim(s)
  BY <1>1, <1>2, <1>4, PassRowStep DEF LoseClaim
<1>5. CASE ClaimRaises(s)
  BY <1>1, <1>2, <1>5, PassRowStep DEF ClaimRaises
<1> QED
  BY <1>3, <1>4, <1>5

LEMMA InitRowStep ==
    ASSUME TypeInv, SlotInv, NEW s \in Schedulers, InitRow(s)
    PROVE  TypeInv' /\ SlotInv'
<1>0. PICK next : next = NewNext(s)
  OBVIOUS
<1> DEFINE cond == (\/ \E s2 \in Schedulers : tick[s].now < tick[s2].now
                    \/ Cur(s).trigger # Nobody /\ trigger[Cur(s).trigger].locked # Never)
<1>1. tick[s].todo # <<>> /\ ~Handling(s)
  BY AtRow DEF InitRow
<1>2. /\ SetNext(s, next) /\ Done(s, next) /\ Cross(cond, Cur(s).worker)
      /\ runs' = runs /\ faults' = faults /\ UNCHANGED world
  BY <1>0 DEF InitRow
<1>3. /\ Cur(s).worker \in Workers /\ next \in Nat /\ next > tick[s].now /\ next \in Time
      /\ Cur(s).trigger \in Triggers \cup {Nobody}
      /\ (Cur(s).trigger # Nobody => Cur(s).worker = WorkerOf[Cur(s).trigger])
  BY <1>0, <1>1, CurType DEF Time
<1>4. crossed \subseteq crossed' /\ crossed' \subseteq Workers /\ (cond => Cur(s).worker \in crossed')
  <2>1. cond \in BOOLEAN
    OBVIOUS
  <2> HIDE DEF cond
  <2> QED
    BY <1>2, <1>3, <2>1, CrossType
<1>5. RestType' /\ clock' = clock
  BY <1>2, <1>4, RestStays
<1>6. TableType'
  BY <1>1, <1>2, <1>3, SetNextType
<1>7. /\ TickType' /\ OnlyTick(s)
      /\ tick'[s].pc \in {"row", "idle", "mirroring"} /\ tick'[s].now = tick[s].now
      /\ tick'[s].seen = tick[s].seen
      /\ \A i \in DOMAIN tick'[s].todo : \E j \in DOMAIN tick[s].todo :
            tick'[s].todo[i] = tick[s].todo[j]
  BY <1>1, <1>2, <1>3, <1>5, DoneType
<1>8. TypeInv' /\ SameHistory
  BY <1>2, <1>5, <1>6, <1>7, RunsStay DEF TypeInv
<1>9. PICK t, w : t = Cur(s).trigger /\ w = Cur(s).worker
  OBVIOUS
<1>10. /\ NextTime(t, w)' = next
       /\ \A u \in Triggers \cup {Nobody}, v \in Workers :
             IsRow(u, v) /\ ~(u = t /\ v = w) => NextTime(u, v)' = NextTime(u, v)
       /\ \A u \in Triggers : u # t => trigger'[u].locked = trigger[u].locked
  BY <1>1, <1>2, <1>3, <1>9, SetNextEffect
<1>11. \A u \in Triggers \cup {Nobody}, v \in Workers : CalmRow(u, v)
  <2> SUFFICES ASSUME NEW u \in Triggers \cup {Nobody}, NEW v \in Workers, IsRow(u, v),
                      v \notin crossed', NextTime(u, v)' # NextTime(u, v)
               PROVE  \A s2 \in Schedulers : tick[s2].now < NextTime(u, v)'
    BY DEF CalmRow
  <2>1. u = t /\ v = w
    BY <1>10
  <2>2. ~cond
    BY <1>4, <1>9, <2>1
  <2>3. NextTime(u, v)' = next
    BY <1>10, <2>1
  <2> SUFFICES ASSUME NEW s2 \in Schedulers PROVE tick[s2].now < next
    BY <2>3
  <2>4. ~(tick[s].now < tick[s2].now) /\ tick[s].now \in Nat /\ tick[s2].now \in Nat
    BY <2>2 DEF TypeInv, TickType, TickRow
  <2> QED
    BY <1>3, <2>4
<1>12. \A u \in Triggers : trigger[u].locked # Never =>
          trigger'[u].locked # Never \/ WorkerOf[u] \in crossed'
  <2> SUFFICES ASSUME NEW u \in Triggers, trigger[u].locked # Never, u = t
               PROVE  WorkerOf[u] \in crossed'
    BY <1>10
  <2>1. Cur(s).trigger # Nobody
    BY <1>9, ConstantsAssumption
  <2> QED
    BY <1>3, <1>4, <1>9, <2>1
<1>13. tick[s].now <= tick'[s].now /\ ~Handling(s)'
  BY <1>7 DEF TypeInv, TickType, TickRow, Handling
<1>14. \A v \in tick'[s].seen : HasRows(v)
  BY <1>7 DEF SlotInv, SeenHasRows
<1>15. \A i \in DOMAIN tick'[s].todo :
         tick'[s].todo[i].trigger = Nobody /\ HasRows(tick'[s].todo[i].worker)
             => tick'[s].todo[i].worker \in crossed'
  BY <1>4, <1>7, LeftRows
<1> QED
  BY <1>1, <1>4, <1>7, <1>8, <1>11, <1>12, <1>13, <1>14, <1>15, WaitKeepsSlots

LEMMA MirrorRowsStep ==
    ASSUME TypeInv, SlotInv, NEW s \in Schedulers, MirrorRows(s)
    PROVE  TypeInv' /\ SlotInv'
<1> DEFINE times(w) == {tick[s].mirror[i].next : i \in
                          {j \in DOMAIN tick[s].mirror : tick[s].mirror[j].worker = w}} \ {Never}
           earliest(w) == IF times(w) = {} THEN Never
                          ELSE CHOOSE t \in times(w) : \A u \in times(w) : t <= u
<1>1. /\ tick[s].pc = "mirroring" /\ Goto(s, "legacy")
      /\ UNCHANGED <<trigger, runs, faults, crossed, world>>
      /\ worker' = [w \in Workers |-> IF w \in tick[s].seen
                                      THEN [worker[w] EXCEPT !.next = earliest(w)] ELSE worker[w]]
  BY DEF MirrorRows, At
<1>2. \A w \in Workers : earliest(w) \in Time
  <2> SUFFICES ASSUME NEW w \in Workers PROVE earliest(w) \in Time
    OBVIOUS
  <2>1. tick[s].mirror \in Seq(Item)
    BY DEF TypeInv, TickType, TickRow
  <2>2. \A i \in DOMAIN tick[s].mirror : tick[s].mirror[i] \in Item
    BY <2>1
  <2>3. \A i \in DOMAIN tick[s].mirror : tick[s].mirror[i].next \in Time
    BY <2>2 DEF Item
  <2>4. times(w) \subseteq Nat
    BY <2>3 DEF Time
  <2> HIDE DEF times
  <2>5. times(w) # {} => (CHOOSE t \in times(w) : \A u \in times(w) : t <= u) \in times(w)
    BY <2>4, EarliestExists
  <2> QED
    BY <2>4, <2>5 DEF Time
<1> HIDE DEF earliest
<1>3. TableType'
  <2>1. worker \in [Workers -> WorkerRow]
    BY DEF TypeInv, TableType
  <2>2. \A w \in Workers : [worker[w] EXCEPT !.next = earliest(w)] \in WorkerRow
    BY <1>2, <2>1 DEF WorkerRow
  <2>3. worker' \in [Workers -> WorkerRow]
    BY <1>1, <2>1, <2>2
  <2> QED
    BY <1>1, <2>3 DEF TypeInv, TableType
<1>4. RestType' /\ clock' = clock
  BY <1>1, RestStays DEF TypeInv, RestType
<1>5. /\ TickType' /\ OnlyTick(s)
      /\ tick'[s].pc = "legacy" /\ tick'[s].now = tick[s].now
      /\ tick'[s].todo = tick[s].todo /\ tick'[s].seen = tick[s].seen
  BY <1>1, <1>4, GotoType DEF Pc
<1>6. TypeInv' /\ SameHistory
  BY <1>1, <1>3, <1>4, <1>5, RunsStay DEF TypeInv
<1>7. \A t \in Triggers \cup {Nobody}, w \in Workers : CalmRow(t, w)
  <2> SUFFICES ASSUME NEW t \in Triggers \cup {Nobody}, NEW w \in Workers, IsRow(t, w)
               PROVE  NextTime(t, w)' = NextTime(t, w)
    BY DEF CalmRow
  <2>1. CASE t \in Triggers
    BY <1>1, <2>1, ConstantsAssumption DEF NextTime
  <2>2. CASE t = Nobody
    <3>1. ~HasRows(w)
      BY <2>2, ConstantsAssumption DEF IsRow
    <3>2. w \notin tick[s].seen
      BY <3>1 DEF SlotInv, SeenHasRows
    <3>3. worker'[w] = worker[w]
      BY <1>1, <3>2
    <3> QED
      BY <2>2, <3>3 DEF NextTime
  <2> QED
    BY <2>1, <2>2
<1>8. tick[s].now <= tick'[s].now /\ ~Handling(s) /\ ~Handling(s)'
  BY <1>1, <1>5 DEF TypeInv, TickType, TickRow, Handling
<1>9. \A w \in tick'[s].seen : HasRows(w)
  BY <1>5 DEF SlotInv, SeenHasRows
<1>10. \A i \in DOMAIN tick'[s].todo :
          tick'[s].todo[i].trigger = Nobody /\ HasRows(tick'[s].todo[i].worker)
              => tick'[s].todo[i].worker \in crossed'
  BY <1>1, <1>5, LeftRows
<1> QED
  BY <1>1, <1>5, <1>6, <1>7, <1>8, <1>9, <1>10, WaitKeepsSlots

-----------------------------------------------------------------------------
(* Steps that take a row *)

LEMMA ClaimRowStep ==
    ASSUME TypeInv, SlotInv, NEW s \in Schedulers, ClaimRow(s)
    PROVE  TypeInv' /\ SlotInv'
<1>1. PICK t, w, n : t = Cur(s).trigger /\ w = Cur(s).worker /\ n = Cur(s).next
  OBVIOUS
<1> DEFINE cond == (\/ trigger[t].next # n
                    \/ trigger[t].locked \in 0 .. tick[s].now)
           row == [trigger[t] EXCEPT !.locked = tick[s].now + Lease]
<1>2. /\ At(s, "row") /\ t # Nobody /\ n # Never /\ n <= tick[s].now
      /\ trigger' = [trigger EXCEPT ![t].locked = tick[s].now + Lease]
      /\ Goto(s, ToHandle(s, n)) /\ Cross(cond, w)
      /\ trigger[t].locked = Never \/ trigger[t].locked <= tick[s].now
      /\ UNCHANGED <<worker, runs, faults, world>>
  BY <1>1 DEF ClaimRow, Claimable, IsDue, NextOf
<1>3. tick[s].todo # <<>> /\ ~Handling(s)
  BY <1>2, AtRow
<1>4. /\ t \in Triggers /\ w \in Workers /\ w = WorkerOf[t] /\ n \in Nat
      /\ tick[s].now \in Nat
  BY <1>1, <1>2, <1>3, CurType DEF Time, TypeInv, TickType, TickRow
<1>5. trigger \in [Triggers -> TriggerRow] /\ row \in TriggerRow
      /\ row.locked # Never /\ row.next = trigger[t].next
  <2>1. tick[s].now + Lease \in Nat /\ tick[s].now + Lease # Never
    BY <1>4, ConstantsAssumption DEF Never
  <2>2. trigger \in [Triggers -> TriggerRow]
    BY DEF TypeInv, TableType
  <2>3. row \in TriggerRow
    BY <1>4, <2>1, <2>2 DEF TriggerRow, Time
  <2>4. row.locked = tick[s].now + Lease /\ row.next = trigger[t].next
    BY <1>4, <2>2 DEF TriggerRow
  <2> QED
    BY <2>1, <2>2, <2>3, <2>4
<1>6. trigger' = [trigger EXCEPT ![t] = row]
  BY <1>2, <1>4, <1>5
<1> HIDE DEF row
<1>7. trigger'[t] = row /\ \A u \in Triggers : u # t => trigger'[u] = trigger[u]
  BY <1>4, <1>5, <1>6
<1>8. TableType'
  BY <1>2, <1>5, <1>6 DEF TypeInv, TableType
<1>9. crossed \subseteq crossed' /\ crossed' \subseteq Workers /\ (cond => w \in crossed')
  <2>1. cond \in BOOLEAN
    OBVIOUS
  <2> HIDE DEF cond
  <2> QED
    BY <1>2, <1>4, <2>1, CrossType
<1>10. RestType' /\ clock' = clock
  BY <1>2, <1>9, RestStays
<1>11. PICK pc : pc = ToHandle(s, n) /\ pc \in {"late", "guard"}
  BY DEF ToHandle
<1>12. /\ TickType' /\ OnlyTick(s)
       /\ tick'[s].pc = pc /\ tick'[s].now = tick[s].now
       /\ tick'[s].todo = tick[s].todo /\ tick'[s].seen = tick[s].seen
  <2>1. pc \in Pc
    BY <1>11 DEF Pc
  <2> QED
    BY <1>2, <1>3, <1>10, <1>11, <2>1, GotoType
<1>13. TypeInv' /\ SameHistory
  BY <1>2, <1>8, <1>10, <1>12, RunsStay DEF TypeInv
<1>14. Handling(s)' /\ Cur(s)'.trigger = t /\ Cur(s)'.worker = w /\ Cur(s)'.next = n
  BY <1>1, <1>11, <1>12 DEF Handling, Cur
<1>15. \A u \in Triggers \cup {Nobody}, v \in Workers : NextTime(u, v)' = NextTime(u, v)
  BY <1>2, <1>5, <1>7 DEF NextTime
<1>16. /\ trigger'[t].locked # Never
       /\ \A u \in Triggers : trigger[u].locked # Never => trigger'[u].locked # Never
  BY <1>5, <1>7
<1>17. ASSUME w \notin crossed'
       PROVE  NextTime(t, w) = n /\ \A s2 \in Schedulers \ {s} : ~HandlesRow(s2, t, w)
  <2>1. ~cond /\ w \notin crossed
    BY <1>9, <1>17
  <2>2. trigger[t].locked \in Time
    BY <1>4, <1>5 DEF TriggerRow
  <2>3. trigger[t].locked = Never
    BY <1>2, <1>4, <2>1, <2>2 DEF Time
  <2>4. ASSUME NEW s2 \in Schedulers \ {s}, HandlesRow(s2, t, w) PROVE FALSE
    BY <1>4, <2>1, <2>3, <2>4 DEF SlotInv, Alone, HandlesRow
  <2> QED
    BY <1>2, <2>1, <2>4 DEF NextTime
<1>18. \A i \in DOMAIN tick'[s].todo :
          /\ i \in DOMAIN tick[s].todo
          /\ tick'[s].todo[i].trigger = tick[s].todo[i].trigger
          /\ tick'[s].todo[i].worker = tick[s].todo[i].worker
  BY <1>12
<1> HIDE DEF cond
<1> QED
  BY <1>2, <1>3, <1>4, <1>9, <1>11, <1>12, <1>13, <1>14, <1>15, <1>16, <1>17, <1>18, TakeKeepsSlots

LEMMA TakeWorkerStep ==
    ASSUME TypeInv, SlotInv, NEW s \in Schedulers, TakeWorker(s)
    PROVE  TypeInv' /\ SlotInv'
<1>1. PICK w, n : w = Cur(s).worker /\ n = worker[Cur(s).worker].next
  OBVIOUS
<1> DEFINE cond == \E s2 \in Schedulers \ {s} : Handles(s2, w)
<1>2. /\ TickType' /\ OnlyTick(s)
      /\ tick[s].todo # <<>> /\ Cur(s).trigger = Nobody
      /\ tick'[s].pc \in {"late", "guard"} /\ tick'[s].now = tick[s].now
      /\ tick'[s].seen = tick[s].seen /\ tick'[s].todo # <<>>
      /\ Cur(s)' = [Cur(s) EXCEPT !.next = n]
      /\ \A i \in DOMAIN tick'[s].todo :
            /\ i \in DOMAIN tick[s].todo
            /\ tick'[s].todo[i].trigger = tick[s].todo[i].trigger
            /\ tick'[s].todo[i].worker = tick[s].todo[i].worker
  BY <1>1, TakeWorkerType
<1>3. /\ At(s, "row") /\ n # Never /\ n <= tick[s].now /\ Cross(cond, w)
      /\ UNCHANGED <<trigger, worker, runs, faults, world>>
  BY <1>1, <1>2 DEF TakeWorker, IsDue, NextOf
<1>4. w \in Workers /\ n \in Nat /\ tick[s].now \in Nat /\ Cur(s) \in Item
  BY <1>1, <1>2, <1>3, CurType DEF TypeInv, TableType, WorkerRow, Time, TickType, TickRow
<1>5. crossed \subseteq crossed' /\ crossed' \subseteq Workers /\ (cond => w \in crossed')
  <2>1. cond \in BOOLEAN
    OBVIOUS
  <2> HIDE DEF cond
  <2> QED
    BY <1>3, <1>4, <2>1, CrossType
<1>6. RestType'
  BY <1>3, <1>5, RestStays
<1>7. TypeInv' /\ SameHistory
  BY <1>2, <1>3, <1>6, TablesStay DEF TypeInv
<1>8. ~Handling(s) /\ Handling(s)'
  BY <1>2, <1>3 DEF Handling, At
<1>9. PICK t : t = Nobody
  OBVIOUS
<1>10. Cur(s)'.trigger = t /\ Cur(s)'.worker = w /\ Cur(s)'.next = n /\ t \in Triggers \cup {Nobody}
  BY <1>1, <1>2, <1>4, <1>9 DEF Item
<1>11. \A u \in Triggers \cup {Nobody}, v \in Workers : NextTime(u, v)' = NextTime(u, v)
  BY <1>3 DEF NextTime
<1>12. /\ t \in Triggers => trigger'[t].locked # Never
       /\ \A u \in Triggers : trigger[u].locked # Never => trigger'[u].locked # Never
  BY <1>3, <1>9, ConstantsAssumption
<1>13. ASSUME w \notin crossed'
       PROVE  NextTime(t, w) = n /\ \A s2 \in Schedulers \ {s} : ~HandlesRow(s2, t, w)
  <2>1. \A s2 \in Schedulers \ {s} : ~HandlesRow(s2, t, w)
    BY <1>5, <1>13 DEF Handles, HandlesRow
  <2> QED
    BY <1>1, <1>9, <2>1 DEF NextTime
<1> HIDE DEF cond
<1> QED
  BY <1>2, <1>3, <1>4, <1>5, <1>7, <1>8, <1>10, <1>11, <1>12, <1>13, TakeKeepsSlots

-----------------------------------------------------------------------------
(* Steps of a tick that stays at its row *)

GoesTo(s, pc) == Goto(s, pc) \/ \E code \in Code : Blame(s, pc, code)
HandlingPc == {"guard", "pausing", "persisting", "creating", "recording", "writing", "marking",
               "advancing", "row_error"}

LEMMA GoesToType ==
    ASSUME TypeInv, NEW s \in Schedulers, tick[s].todo # <<>>, NEW pc \in HandlingPc,
           GoesTo(s, pc), clock' = clock
    PROVE  /\ TickType' /\ OnlyTick(s)
           /\ tick'[s].pc = pc /\ tick'[s].now = tick[s].now
           /\ tick'[s].todo = tick[s].todo /\ tick'[s].seen = tick[s].seen
           /\ Handling(s)' /\ Cur(s)' = Cur(s)
<1>1. pc \in Pc
  BY DEF Pc, HandlingPc
<1>2. /\ TickType' /\ OnlyTick(s)
      /\ tick'[s].pc = pc /\ tick'[s].now = tick[s].now
      /\ tick'[s].todo = tick[s].todo /\ tick'[s].seen = tick[s].seen
  <2>1. CASE Goto(s, pc)
    BY <1>1, <2>1, GotoType
  <2>2. CASE \E code \in Code : Blame(s, pc, code)
    <3>1. PICK code \in Code : Blame(s, pc, code)
      BY <2>2
    <3> QED
      BY <1>1, <3>1, BlameType
  <2> QED
    BY <2>1, <2>2 DEF GoesTo
<1>3. Handling(s)' /\ Cur(s)' = Cur(s)
  BY <1>2 DEF Handling, Cur, HandlingPc
<1> QED
  BY <1>2, <1>3

LEMMA StayStep ==
    ASSUME TypeInv, SlotInv, NEW s \in Schedulers, Handling(s), NEW pc \in HandlingPc,
           GoesTo(s, pc), tick[s].pc \in FiredPc => pc \in FiredPc,
           TableType', SameHistory, \A w \in Workers : worker'[w].next = worker[w].next,
           UNCHANGED <<trigger, crossed, world>>, faults' = faults \/ Fault
    PROVE  TypeInv' /\ SlotInv'
<1>1. RestType' /\ clock' = clock
  BY RestStays DEF TypeInv, RestType
<1>2. tick[s].todo # <<>>
  BY CurKey
<1>3. /\ TickType' /\ OnlyTick(s)
      /\ tick'[s].pc = pc /\ tick'[s].now = tick[s].now
      /\ tick'[s].todo = tick[s].todo /\ tick'[s].seen = tick[s].seen
  BY <1>1, <1>2, GoesToType
<1>4. TypeInv'
  BY <1>1, <1>3 DEF TypeInv
<1>5. tick'[s].pc \notin {"idle", "listing", "row", "late", "mirroring", "legacy"}
  BY <1>3 DEF HandlingPc
<1> QED
  BY <1>3, <1>4, <1>5, MoveKeepsSlots

\* The tables stay as they are.
LEMMA QuietStep ==
    ASSUME TypeInv, SlotInv, NEW s \in Schedulers,
           \/ CheckRaises(s) \/ ConsiderPause(s) \/ CreateRaises(s)
           \/ ConsiderEpisode(s) \/ RecordFails(s) \/ MarkRaises(s)
    PROVE  TypeInv' /\ SlotInv'
<1>1. UNCHANGED <<trigger, worker, runs, crossed, world>> /\ (faults' = faults \/ Fault)
  BY DEF CheckRaises, ConsiderPause, CreateRaises, ConsiderEpisode, RecordFails, MarkRaises
<1>2. TableType' /\ SameHistory
  BY <1>1, TablesStay
<1>3. Handling(s)
  BY DEF CheckRaises, ConsiderPause, CreateRaises, ConsiderEpisode, RecordFails, MarkRaises,
         At, Handling
<1>4. PICK pc \in HandlingPc : GoesTo(s, pc) /\ (tick[s].pc \in FiredPc => pc \in FiredPc)
  <2>1. CASE CheckRaises(s)
    <3>1. GoesTo(s, "row_error") /\ "row_error" \in FiredPc
      BY <2>1 DEF CheckRaises, GoesTo, FiredPc
    <3> QED
      BY <3>1 DEF HandlingPc
  <2>2. CASE ConsiderPause(s)
    <3>1. \E pc \in {"persisting", "advancing"} : GoesTo(s, pc)
      BY <2>2 DEF ConsiderPause, GoesTo
    <3> QED
      BY <3>1 DEF HandlingPc, FiredPc
  <2>3. CASE CreateRaises(s)
    <3>1. GoesTo(s, "recording") /\ tick[s].pc \notin FiredPc
      BY <2>3 DEF CreateRaises, GoesTo, At, FiredPc, Code, FireCode
    <3> QED
      BY <3>1 DEF HandlingPc
  <2>4. CASE ConsiderEpisode(s)
    <3>1. \E pc \in {"writing", "advancing"} : GoesTo(s, pc)
      BY <2>4 DEF ConsiderEpisode, GoesTo
    <3>2. tick[s].pc \notin FiredPc
      BY <2>4 DEF ConsiderEpisode, At, FiredPc
    <3> QED
      BY <3>1, <3>2 DEF HandlingPc
  <2>5. CASE RecordFails(s)
    <3>1. tick[s].code \in Code
      BY DEF TypeInv, TickType, TickRow
    <3>2. PICK code : code = IF At(s, "row_error") THEN "scheduler_row_error" ELSE tick[s].code
      OBVIOUS
    <3>3. code \in Code /\ Blame(s, "advancing", code)
      BY <2>5, <3>1, <3>2 DEF RecordFails, Code
    <3>4. GoesTo(s, "advancing")
      BY <3>3 DEF GoesTo
    <3> QED
      BY <3>4 DEF HandlingPc, FiredPc
  <2>6. CASE MarkRaises(s)
    <3>1. GoesTo(s, "advancing")
      BY <2>6 DEF MarkRaises, GoesTo
    <3> QED
      BY <3>1 DEF HandlingPc, FiredPc
  <2> QED
    BY <2>1, <2>2, <2>3, <2>4, <2>5, <2>6
<1> QED
  BY <1>1, <1>2, <1>3, <1>4, StayStep

LEMMA PersistPauseStep ==
    ASSUME TypeInv, SlotInv, NEW s \in Schedulers, PersistPause(s)
    PROVE  TypeInv' /\ SlotInv'
<1>1. Handling(s) /\ GoesTo(s, "advancing") /\ "advancing" \in HandlingPc
      /\ "advancing" \in FiredPc
      /\ UNCHANGED <<trigger, runs, faults, crossed, world>>
      /\ worker' = [worker EXCEPT ![Cur(s).worker].enabled = FALSE, ![Cur(s).worker].paused = TRUE]
  BY DEF PersistPause, At, Handling, GoesTo, HandlingPc, FiredPc
<1>2. PICK w \in Workers : w = Cur(s).worker
  BY <1>1, CurKey
<1> DEFINE row == [worker[w] EXCEPT !.enabled = FALSE, !.paused = TRUE]
<1>3. worker \in [Workers -> WorkerRow] /\ row \in WorkerRow /\ row.next = worker[w].next
  BY DEF TypeInv, TableType, WorkerRow
<1>4. worker' = [worker EXCEPT ![w] = row]
  BY <1>1, <1>2, <1>3
<1> HIDE DEF row
<1>5. TableType'
  BY <1>1, <1>3, <1>4 DEF TypeInv, TableType
<1>6. \A v \in Workers : worker'[v].next = worker[v].next
  BY <1>3, <1>4
<1>7. SameHistory
  BY <1>1, RunsStay
<1> QED
  BY <1>1, <1>5, <1>6, <1>7, StayStep

\* A failed row that does not count as a fire.
LEMMA OtherRowStep ==
    ASSUME TypeInv, SlotInv, NEW s \in Schedulers, Handling(s), NEW pc \in HandlingPc,
           GoesTo(s, pc), tick[s].pc \in FiredPc => pc \in FiredPc,
           runs' = Append(runs, NewRow(s, "failure", "failed", "scheduler_row_error")),
           UNCHANGED <<trigger, worker, faults, crossed, world>>
    PROVE  TypeInv' /\ SlotInv'
<1>1. tick[s].todo # <<>>
  BY CurKey
<1>2. PICK row : row = NewRow(s, "failure", "failed", "scheduler_row_error")
  OBVIOUS
<1>3. row \in RunRow /\ row.kind = "failure" /\ row.status = "failed"
      /\ row.code = "scheduler_row_error"
  BY <1>1, <1>2, NewRowType DEF Kind, Code
<1>4. TableType'
  BY <1>2, <1>3, AppendType
<1>5. SameHistory
  BY <1>2, <1>3, OtherRow DEF IsFire
<1> QED
  BY <1>4, <1>5, StayStep

LEMMA RecordRowErrorStep ==
    ASSUME TypeInv, SlotInv, NEW s \in Schedulers, RecordRowError(s)
    PROVE  TypeInv' /\ SlotInv'
<1>1. Handling(s) /\ GoesTo(s, "advancing") /\ "advancing" \in HandlingPc /\ "advancing" \in FiredPc
  BY DEF RecordRowError, At, Handling, GoesTo, HandlingPc, FiredPc, Code
<1> QED
  BY <1>1, OtherRowStep DEF RecordRowError

-----------------------------------------------------------------------------
(* Steps that record the slot *)

LEMMA FireStep ==
    ASSUME TypeInv, SlotInv, NEW s \in Schedulers, Handling(s), tick[s].pc \notin FiredPc,
           NEW pc \in HandlingPc, pc \in FiredPc, GoesTo(s, pc),
           NEW kind \in {"run", "failure"}, NEW status \in {"queued", "failed"},
           NEW code \in Code, code # "scheduler_row_error",
           runs' = Append(runs, NewRow(s, kind, status, code)),
           UNCHANGED <<trigger, worker, faults, crossed, world>>
    PROVE  TypeInv' /\ SlotInv'
<1>1. tick[s].todo # <<>> /\ Cur(s).worker \in Workers /\ Cur(s).trigger \in Triggers \cup {Nobody}
  BY CurKey
<1>2. PICK row : row = NewRow(s, kind, status, code)
  OBVIOUS
<1>3. /\ row \in RunRow /\ row.kind = kind /\ row.code = code
      /\ row.worker = Cur(s).worker /\ row.trigger = Cur(s).trigger /\ row.slot = Cur(s).next
  BY <1>1, <1>2, NewRowType DEF Kind
<1>4. RestType' /\ clock' = clock
  BY RestStays DEF TypeInv, RestType
<1>5. /\ TickType' /\ OnlyTick(s)
      /\ tick'[s].pc = pc /\ tick'[s].now = tick[s].now
      /\ tick'[s].todo = tick[s].todo /\ tick'[s].seen = tick[s].seen
      /\ Handling(s)' /\ Cur(s)' = Cur(s)
  BY <1>1, <1>4, GoesToType
<1>6. TypeInv'
  BY <1>2, <1>3, <1>4, <1>5, AppendType DEF TypeInv
<1>7. row.worker \notin crossed => row.slot \notin FiresOf(row.trigger, row.worker)
  <2>1. Due(s) /\ Past(s)
    BY DEF SlotInv
  <2> SUFFICES ASSUME Cur(s).worker \notin crossed,
                      Cur(s).next \in FiresOf(Cur(s).trigger, Cur(s).worker)
               PROVE  FALSE
    BY <1>3
  <2>2. Cur(s).next < Cur(s).next
    BY <2>1 DEF Past
  <2>3. Cur(s).next \in Nat
    BY <2>1 DEF Due
  <2> QED
    BY <2>2, <2>3
<1>8. /\ \A u, v : \/ FiresOf(u, v)' = FiresOf(u, v)
                   \/ /\ u = row.trigger /\ v = row.worker
                      /\ FiresOf(u, v)' = FiresOf(u, v) \cup {row.slot}
      /\ \A u, v : MarkersOf(u, v)' = MarkersOf(u, v)
      /\ Unique(Fires)' /\ Unique(Markers)'
  <2>1. IsFire(row)
    BY <1>3 DEF IsFire
  <2> QED
    BY <1>2, <1>3, <1>7, <2>1, AddFire
<1>9. PICK t, w : t = Cur(s).trigger /\ w = Cur(s).worker
  OBVIOUS
<1>10. \A u, v : \/ FiresOf(u, v)' = FiresOf(u, v)
                 \/ /\ u = t /\ v = w /\ tick'[s].pc \in FiredPc
                    /\ FiresOf(u, v)' = FiresOf(u, v) \cup {Cur(s).next}
  BY <1>3, <1>5, <1>8, <1>9
<1>11. tick'[s].pc # "late"
  BY <1>5 DEF HandlingPc
<1> QED
  BY <1>5, <1>6, <1>8, <1>9, <1>10, <1>11, RecordKeepsSlots

LEMMA NoteMissedStep ==
    ASSUME TypeInv, SlotInv, NEW s \in Schedulers, NoteMissed(s)
    PROVE  TypeInv' /\ SlotInv'
<1>0. /\ tick[s].pc = "late" /\ Handling(s) /\ GoesTo(s, "guard") /\ "guard" \in HandlingPc
      /\ tick[s].pc \notin FiredPc
      /\ runs' = Append(runs, NewRow(s, "missed", "failed", "scheduler_missed"))
      /\ UNCHANGED <<trigger, worker, faults, crossed, world>>
  BY DEF NoteMissed, At, Handling, GoesTo, HandlingPc, FiredPc
<1>1. tick[s].todo # <<>> /\ Cur(s).worker \in Workers /\ Cur(s).trigger \in Triggers \cup {Nobody}
  BY <1>0, CurKey
<1>2. PICK row : row = NewRow(s, "missed", "failed", "scheduler_missed")
  OBVIOUS
<1>3. /\ row \in RunRow /\ row.kind = "missed" /\ row.code = "scheduler_missed"
      /\ row.worker = Cur(s).worker /\ row.trigger = Cur(s).trigger /\ row.slot = Cur(s).next
  BY <1>1, <1>2, NewRowType DEF Kind, Code
<1>4. RestType' /\ clock' = clock
  BY <1>0, RestStays DEF TypeInv, RestType
<1>5. /\ TickType' /\ OnlyTick(s)
      /\ tick'[s].pc = "guard" /\ tick'[s].now = tick[s].now
      /\ tick'[s].todo = tick[s].todo /\ tick'[s].seen = tick[s].seen
      /\ Handling(s)' /\ Cur(s)' = Cur(s)
  BY <1>0, <1>1, <1>4, GoesToType
<1>6. TypeInv'
  BY <1>0, <1>2, <1>3, <1>4, <1>5, AppendType DEF TypeInv
<1>7. row.worker \notin crossed => row.slot \notin MarkersOf(row.trigger, row.worker)
  <2>1. Due(s) /\ Past(s)
    BY DEF SlotInv
  <2> SUFFICES ASSUME Cur(s).worker \notin crossed,
                      Cur(s).next \in MarkersOf(Cur(s).trigger, Cur(s).worker)
               PROVE  FALSE
    BY <1>3
  <2>2. Cur(s).next < Cur(s).next
    BY <1>0, <2>1 DEF Past
  <2>3. Cur(s).next \in Nat
    BY <1>0, <2>1 DEF Due
  <2> QED
    BY <2>2, <2>3
<1>8. /\ \A u, v : \/ MarkersOf(u, v)' = MarkersOf(u, v)
                   \/ /\ u = row.trigger /\ v = row.worker
                      /\ MarkersOf(u, v)' = MarkersOf(u, v) \cup {row.slot}
      /\ \A u, v : FiresOf(u, v)' = FiresOf(u, v)
      /\ Unique(Fires)' /\ Unique(Markers)'
  BY <1>0, <1>2, <1>3, <1>7, AddMarker
<1>9. PICK t, w : t = Cur(s).trigger /\ w = Cur(s).worker
  OBVIOUS
<1>10. \A u, v : \/ MarkersOf(u, v)' = MarkersOf(u, v)
                 \/ /\ u = t /\ v = w
                    /\ MarkersOf(u, v)' = MarkersOf(u, v) \cup {Cur(s).next}
  BY <1>3, <1>8, <1>9
<1>11. tick'[s].pc # "late"
  BY <1>5
<1> QED
  BY <1>0, <1>5, <1>6, <1>8, <1>9, <1>10, <1>11, RecordKeepsSlots

LEMMA CheckSetupStep ==
    ASSUME TypeInv, SlotInv, NEW s \in Schedulers, CheckSetup(s)
    PROVE  TypeInv' /\ SlotInv'
<1>1. Handling(s) /\ tick[s].pc \notin FiredPc /\ UNCHANGED <<trigger, worker, faults, crossed, world>>
  BY DEF CheckSetup, At, Handling, FiredPc
<1>2. PICK w \in Workers : w = Cur(s).worker
  BY <1>1, CurKey
<1>3. setup[w] \in SetupCode \cup {"none"}
  BY DEF TypeInv, RestType
<1>4. CASE setup[w] \notin Foreseen
  <2>1. GoesTo(s, "creating") /\ "creating" \in HandlingPc /\ runs' = runs
    BY <1>2, <1>4 DEF CheckSetup, GoesTo, HandlingPc
  <2>2. TableType' /\ SameHistory
    BY <1>1, <2>1, TablesStay
  <2> QED
    BY <1>1, <2>1, <2>2, StayStep
<1>5. CASE setup[w] \in Foreseen
  <2>1. setup[w] \in Code /\ setup[w] # "scheduler_row_error"
    BY <1>5 DEF SetupCode, Foreseen, Code
  <2>2. PICK code \in Code : code = setup[w] /\ code # "scheduler_row_error"
    BY <2>1
  <2>3. runs' = Append(runs, NewRow(s, "failure", "failed", code)) /\ Blame(s, "pausing", code)
    BY <1>2, <1>5, <2>2 DEF CheckSetup
  <2>4. GoesTo(s, "pausing") /\ "pausing" \in HandlingPc /\ "pausing" \in FiredPc
    BY <2>3 DEF GoesTo, HandlingPc, FiredPc
  <2> QED
    BY <1>1, <2>2, <2>3, <2>4, FireStep
<1> QED
  BY <1>4, <1>5

LEMMA CreateRunStep ==
    ASSUME TypeInv, SlotInv, NEW s \in Schedulers, CreateRun(s)
    PROVE  TypeInv' /\ SlotInv'
<1>1. Handling(s) /\ tick[s].pc \notin FiredPc /\ UNCHANGED <<trigger, worker, faults, crossed, world>>
  BY DEF CreateRun, At, Handling, FiredPc
<1>2. CASE runs' = Append(runs, NewRow(s, "run", "queued", "none")) /\ Goto(s, "marking")
  <2>1. GoesTo(s, "marking") /\ "marking" \in HandlingPc /\ "marking" \in FiredPc
        /\ "none" \in Code
    BY <1>2 DEF GoesTo, HandlingPc, FiredPc, Code
  <2> QED
    BY <1>1, <1>2, <2>1, FireStep
<1>3. CASE runs' = runs /\ GoesTo(s, "recording")
  <2>1. TableType' /\ SameHistory
    BY <1>1, <1>3, TablesStay
  <2>2. "recording" \in HandlingPc
    BY DEF HandlingPc
  <2> QED
    BY <1>1, <1>3, <2>1, <2>2, StayStep
<1>4. "spend_cap_exceeded" \in Code /\ "schedule_fire_failed" \in Code
  BY DEF Code, FireCode
<1> QED
  BY <1>2, <1>3, <1>4 DEF CreateRun, GoesTo

LEMMA RecordFireFailureStep ==
    ASSUME TypeInv, SlotInv, NEW s \in Schedulers, RecordFireFailure(s)
    PROVE  TypeInv' /\ SlotInv'
<1>1. /\ Handling(s) /\ tick[s].pc \notin FiredPc
      /\ UNCHANGED <<trigger, worker, faults, crossed, world>>
      /\ GoesTo(s, "advancing") /\ "advancing" \in HandlingPc /\ "advancing" \in FiredPc
  BY DEF RecordFireFailure, At, Handling, FiredPc, GoesTo, HandlingPc
<1>2. PICK code \in Code : code = tick[s].code
  BY DEF TypeInv, TickType, TickRow
<1>3. runs' = Append(runs, NewRow(s, "failure", "failed", code))
  BY <1>2 DEF RecordFireFailure
<1>4. CASE code = "scheduler_row_error"
  BY <1>1, <1>3, <1>4, OtherRowStep
<1>5. CASE code # "scheduler_row_error"
  BY <1>1, <1>3, <1>5, FireStep
<1> QED
  BY <1>4, <1>5

-----------------------------------------------------------------------------
(* Steps that leave the row *)

LEMMA LeaveStep ==
    ASSUME TypeInv, SlotInv, NEW s \in Schedulers, Handling(s), NEW next \in Nat,
           next > tick[s].now, Done(s, next), TableType', UNCHANGED <<runs, faults, crossed, world>>,
           NEW t, NEW w, t = Cur(s).trigger, w = Cur(s).worker, NextTime(t, w)' = next,
           \A u \in Triggers \cup {Nobody}, v \in Workers :
               IsRow(u, v) /\ ~(u = t /\ v = w) => NextTime(u, v)' = NextTime(u, v),
           \A u \in Triggers : u # t => trigger'[u].locked = trigger[u].locked
    PROVE  TypeInv' /\ SlotInv'
<1>1. tick[s].todo # <<>> /\ next \in Time
  BY CurKey DEF Time
<1>2. RestType' /\ clock' = clock
  BY RestStays DEF TypeInv, RestType
<1>3. /\ TickType' /\ OnlyTick(s)
      /\ tick'[s].pc \in {"row", "idle", "mirroring"} /\ tick'[s].now = tick[s].now
      /\ tick'[s].seen = tick[s].seen
      /\ \A i \in DOMAIN tick'[s].todo : \E j \in DOMAIN tick[s].todo :
            tick'[s].todo[i] = tick[s].todo[j]
  BY <1>1, <1>2, DoneType
<1>4. TypeInv' /\ SameHistory
  BY <1>2, <1>3, RunsStay DEF TypeInv
<1>5. ~Handling(s)' /\ crossed \subseteq crossed'
  BY <1>3 DEF Handling
<1>6. \A v \in tick'[s].seen : HasRows(v)
  BY <1>3 DEF SlotInv, SeenHasRows
<1> QED
  BY <1>3, <1>4, <1>5, <1>6, LeaveKeepsSlots

LEMMA AdvanceStep ==
    ASSUME TypeInv, SlotInv, NEW s \in Schedulers, SkipFire(s) \/ Advance(s)
    PROVE  TypeInv' /\ SlotInv'
<1>1. Handling(s)
  BY DEF SkipFire, Advance, At, Handling
<1>2. PICK t, w, next : t = Cur(s).trigger /\ w = Cur(s).worker /\ next = NewNext(s)
  OBVIOUS
<1>3. SetNext(s, next) /\ Done(s, next) /\ UNCHANGED <<runs, faults, crossed, world>>
  BY <1>2 DEF SkipFire, Advance
<1>4. tick[s].todo # <<>> /\ next \in Nat /\ next \in Time /\ next > tick[s].now
  BY <1>1, <1>2, CurKey DEF Time
<1>5. TableType'
  BY <1>3, <1>4, SetNextType
<1>6. /\ NextTime(t, w)' = next
      /\ \A u \in Triggers \cup {Nobody}, v \in Workers :
            IsRow(u, v) /\ ~(u = t /\ v = w) => NextTime(u, v)' = NextTime(u, v)
      /\ \A u \in Triggers : u # t => trigger'[u].locked = trigger[u].locked
  BY <1>2, <1>3, <1>4, SetNextEffect
<1> QED
  BY <1>1, <1>2, <1>3, <1>4, <1>5, <1>6, LeaveStep

LEMMA MarkFiredStep ==
    ASSUME TypeInv, SlotInv, NEW s \in Schedulers, MarkFired(s)
    PROVE  TypeInv' /\ SlotInv'
<1>1. Handling(s)
  BY DEF MarkFired, At, Handling
<1>2. PICK t, w, next : t = Cur(s).trigger /\ w = Cur(s).worker /\ next = NewNext(s)
  OBVIOUS
<1>3. /\ trigger' = IF t = Nobody THEN trigger
                    ELSE [trigger EXCEPT ![t].fired = tick[s].now, ![t].next = next,
                                         ![t].locked = Never]
      /\ worker' = [worker EXCEPT ![w].next = next]
      /\ Done(s, next) /\ UNCHANGED <<runs, faults, crossed, world>>
  BY <1>2 DEF MarkFired
<1>4. /\ next \in Nat /\ next > tick[s].now /\ tick[s].now \in Nat
      /\ w \in Workers /\ t \in Triggers \cup {Nobody} /\ (t \in Triggers => w = WorkerOf[t])
  BY <1>1, <1>2, CurKey
<1>5. trigger \in [Triggers -> TriggerRow] /\ worker \in [Workers -> WorkerRow]
  BY DEF TypeInv, TableType
<1> DEFINE row == [trigger[t] EXCEPT !.fired = tick[s].now, !.next = next, !.locked = Never]
           own == [worker[w] EXCEPT !.next = next]
<1>6. own \in WorkerRow /\ own.next = next /\ worker' = [worker EXCEPT ![w] = own]
  BY <1>3, <1>4, <1>5 DEF WorkerRow, Time
<1>7. ASSUME t # Nobody
      PROVE  row \in TriggerRow /\ row.next = next /\ trigger' = [trigger EXCEPT ![t] = row]
  <2>1. t \in Triggers /\ trigger[t] \in TriggerRow
    BY <1>4, <1>5, <1>7
  <2>2. row \in TriggerRow /\ row.next = next
    BY <1>4, <2>1 DEF TriggerRow, Time
  <2>3. trigger' = [trigger EXCEPT ![t] = row]
    BY <1>3, <1>5, <1>7, <2>1
  <2> QED
    BY <2>2, <2>3
<1> HIDE DEF row, own
<1>8. worker'[w] = own /\ \A v \in Workers : v # w => worker'[v] = worker[v]
  BY <1>4, <1>5, <1>6
<1>9. /\ t # Nobody => trigger'[t] = row
      /\ \A u \in Triggers : u # t => trigger'[u] = trigger[u]
      /\ trigger' \in [Triggers -> TriggerRow]
  BY <1>3, <1>4, <1>5, <1>7
<1>10. TableType'
  <2>1. worker' \in [Workers -> WorkerRow]
    BY <1>5, <1>6
  <2> QED
    BY <1>3, <1>9, <2>1 DEF TypeInv, TableType
<1>11. NextTime(t, w)' = next
  BY <1>6, <1>7, <1>8, <1>9 DEF NextTime
<1>12. \A u \in Triggers \cup {Nobody}, v \in Workers :
          IsRow(u, v) /\ ~(u = t /\ v = w) => NextTime(u, v)' = NextTime(u, v)
  <2> SUFFICES ASSUME NEW u \in Triggers \cup {Nobody}, NEW v \in Workers, IsRow(u, v),
                      ~(u = t /\ v = w)
               PROVE  NextTime(u, v)' = NextTime(u, v)
    OBVIOUS
  <2>1. CASE u \in Triggers
    <3>1. u # t
      BY <1>4, <2>1, ConstantsAssumption DEF IsRow
    <3> QED
      BY <1>9, <2>1, <3>1, ConstantsAssumption DEF NextTime
  <2>2. CASE u = Nobody
    <3>1. ~HasRows(v)
      BY <2>2, ConstantsAssumption DEF IsRow
    <3>2. v # w
      BY <1>4, <2>2, <3>1 DEF HasRows
    <3> QED
      BY <1>8, <2>2, <3>2 DEF NextTime
  <2> QED
    BY <2>1, <2>2
<1>13. \A u \in Triggers : u # t => trigger'[u].locked = trigger[u].locked
  BY <1>9
<1>14. /\ Done(s, next) /\ UNCHANGED <<runs, faults, crossed, world>>
       /\ next \in Nat /\ next > tick[s].now
  BY <1>3, <1>4
<1> QED
  BY <1>1, <1>2, <1>10, <1>11, <1>12, <1>13, <1>14, LeaveStep

LEMMA AdvanceRaisesStep ==
    ASSUME TypeInv, SlotInv, NEW s \in Schedulers, AdvanceRaises(s)
    PROVE  TypeInv' /\ SlotInv'
<1>1. /\ Handling(s) /\ Fault /\ UNCHANGED <<trigger, worker, runs, world>>
      /\ "row_error" \in HandlingPc /\ "row_error" \in FiredPc
  BY DEF AdvanceRaises, At, Handling, HandlingPc, FiredPc
<1>2. TableType' /\ SameHistory
  BY <1>1, TablesStay
<1>3. CASE tick[s].code # "scheduler_row_error"
  <2>1. GoesTo(s, "row_error") /\ crossed' = crossed
    BY <1>3 DEF AdvanceRaises, GoesTo
  <2> QED
    BY <1>1, <1>2, <2>1, StayStep
<1>4. CASE tick[s].code = "scheduler_row_error"
  <2>1. PICK pc \in {"idle", "legacy"} : pc = IF tick[s].legacy THEN "idle" ELSE "legacy"
    OBVIOUS
  <2>2. PICK t, w : t = Cur(s).trigger /\ w = Cur(s).worker
    OBVIOUS
  <2>3. w \in Workers
    BY <1>1, <2>2, CurKey
  <2>4. tick' = [tick EXCEPT ![s].todo = <<>>, ![s].pc = pc] /\ crossed' = crossed \cup {w}
    BY <1>4, <2>1, <2>2 DEF AdvanceRaises
  <2>5. RestType' /\ clock' = clock
    BY <1>1, <2>3, <2>4, RestStays DEF TypeInv, RestType
  <2>6. /\ TickType' /\ OnlyTick(s)
        /\ tick'[s].pc = pc /\ tick'[s].now = tick[s].now /\ tick'[s].todo = <<>>
        /\ tick'[s].seen = tick[s].seen
    BY <2>4, <2>5, LostType
  <2>7. TypeInv'
    BY <1>2, <2>5, <2>6 DEF TypeInv
  <2>8. ~Handling(s)'
    BY <2>6 DEF Handling
  <2>11. crossed \subseteq crossed' /\ w \in crossed'
    BY <2>4
  <2>12. DOMAIN tick'[s].todo = {}
    BY <2>6
  <2>9. \A v \in tick'[s].seen : HasRows(v)
    BY <2>6 DEF SlotInv, SeenHasRows
  <2>10. \A u \in Triggers \cup {Nobody}, v \in Workers : NextTime(u, v)' = NextTime(u, v)
    BY <1>1 DEF NextTime
  <2> QED
    BY <1>1, <1>2, <2>2, <2>6, <2>7, <2>8, <2>9, <2>10, <2>11, <2>12, LeaveKeepsSlots
<1> QED
  BY <1>3, <1>4

LEMMA CrashStep ==
    ASSUME TypeInv, SlotInv, NEW s \in Schedulers, Crash(s)
    PROVE  TypeInv' /\ SlotInv'
<1>1. /\ TickType' /\ OnlyTick(s)
      /\ tick'[s].pc = "idle" /\ tick'[s].now = tick[s].now /\ tick'[s].todo = <<>>
      /\ tick'[s].seen = {}
  BY CrashType
<1>2. Fault /\ UNCHANGED <<trigger, worker, runs, world>>
      /\ crossed' = IF Handling(s) THEN crossed \cup {Cur(s).worker} ELSE crossed
  BY DEF Crash, Cross
<1>3. crossed \subseteq crossed' /\ crossed' \subseteq Workers
  BY <1>2, CurKey DEF TypeInv, RestType
<1>4. RestType' /\ TableType' /\ SameHistory
      /\ \A t \in Triggers \cup {Nobody}, w \in Workers : CalmRow(t, w)
  BY <1>2, <1>3, RestStays, TablesStay
<1>5. TypeInv'
  BY <1>1, <1>4 DEF TypeInv
<1>6. ~Handling(s)' /\ DOMAIN tick'[s].todo = {} /\ tick[s].now <= tick'[s].now
  BY <1>1 DEF Handling, TypeInv, TickType, TickRow
<1>7. CASE Handling(s)
  <2>1. PICK t, w : t = Cur(s).trigger /\ w = Cur(s).worker
    OBVIOUS
  <2>2. w \in crossed'
    BY <1>2, <1>7, <2>1
  <2>3. \A u \in Triggers \cup {Nobody}, v \in Workers : NextTime(u, v)' = NextTime(u, v)
    BY <1>2 DEF NextTime
  <2> QED
    BY <1>1, <1>2, <1>3, <1>4, <1>5, <1>6, <1>7, <2>1, <2>2, <2>3, LeaveKeepsSlots
<1>8. CASE ~Handling(s)
  BY <1>1, <1>2, <1>3, <1>4, <1>5, <1>6, <1>8, WaitKeepsSlots
<1> QED
  BY <1>7, <1>8

-----------------------------------------------------------------------------
(* Steps beside the scheduler *)

LEMMA TickStays ==
    ASSUME TypeInv, tick' = tick, clock' \in Nat, clock <= clock'
    PROVE  TickType'
<1>1. tick \in [Schedulers -> TickRow] /\ \A s \in Schedulers : TickOK(s)
  BY DEF TypeInv, TickType
<1>2. \A s \in Schedulers : tick[s].now \in Nat
  BY <1>1 DEF TickRow
<1>3. clock \in Nat
  BY ConstantsAssumption DEF TypeInv, RestType
<1>4. \A s \in Schedulers : TickOK(s)'
  BY <1>1, <1>2, <1>3 DEF TickOK
<1> QED
  BY <1>1, <1>4 DEF TickType

LEMMA PassTimeStep ==
    ASSUME TypeInv, SlotInv, PassTime
    PROVE  TypeInv' /\ SlotInv'
<1>1. clock \in Nat /\ clock < MaxTime /\ clock' = clock + 1
      /\ UNCHANGED <<trigger, worker, setup, capped, runs, tick, changes, faults, crossed, overtaken>>
  BY ConstantsAssumption DEF PassTime, TypeInv, RestType
<1>2. RestType'
  BY <1>1, ConstantsAssumption DEF TypeInv, RestType
<1>3. TickType'
  BY <1>1, TickStays
<1>4. TableType' /\ SameHistory
  BY <1>1, TablesStay
<1>5. TypeInv'
  BY <1>2, <1>3, <1>4 DEF TypeInv
<1> QED
  BY <1>1, <1>4, <1>5, BesideKeepsSlots

LEMMA RunStep ==
    ASSUME TypeInv, SlotInv, NEW i \in DOMAIN runs,
           StartRun(i) \/ EndRun(i) \/ FailRunForLack(i)
    PROVE  TypeInv' /\ SlotInv'
<1>1. UNCHANGED <<trigger, setup, capped, clock, tick, changes, faults, crossed, overtaken>>
  BY DEF StartRun, EndRun, FailRunForLack
<1>2. /\ runs \in Seq(RunRow)
      /\ \A k \in DOMAIN runs : runs[k].code = "scheduler_row_error" => runs[k].status = "failed"
      /\ worker \in [Workers -> WorkerRow]
  BY DEF TypeInv, TableType
<1>3. runs[i] \in RunRow /\ runs[i].worker \in Workers
  <2>1. runs[i] \in RunRow
    BY <1>2
  <2> QED
    BY <2>1 DEF RunRow
<1>4. runs[i].status \in {"queued", "running"} /\ runs[i].code # "scheduler_row_error"
  BY <1>2 DEF StartRun, EndRun, FailRunForLack
<1>5. PICK row \in RunRow :
         /\ runs' = [runs EXCEPT ![i] = row]
         /\ row.worker = runs[i].worker /\ row.trigger = runs[i].trigger
         /\ row.slot = runs[i].slot /\ row.kind = runs[i].kind
         /\ row.code # "scheduler_row_error"
  <2>1. CASE StartRun(i)
    <3> DEFINE row == [runs[i] EXCEPT !.status = "running"]
    <3>1. row \in RunRow /\ row.worker = runs[i].worker /\ row.trigger = runs[i].trigger
          /\ row.slot = runs[i].slot /\ row.kind = runs[i].kind /\ row.code = runs[i].code
      BY <1>3 DEF RunRow
    <3>2. runs' = [runs EXCEPT ![i] = row]
      BY <2>1 DEF StartRun
    <3> HIDE DEF row
    <3> QED
      BY <1>4, <3>1, <3>2
  <2>2. CASE EndRun(i)
    <3> DEFINE row == [runs[i] EXCEPT !.status = "completed"]
    <3>1. row \in RunRow /\ row.worker = runs[i].worker /\ row.trigger = runs[i].trigger
          /\ row.slot = runs[i].slot /\ row.kind = runs[i].kind /\ row.code = runs[i].code
      BY <1>3 DEF RunRow
    <3>2. runs' = [runs EXCEPT ![i] = row]
      BY <2>2 DEF EndRun
    <3> HIDE DEF row
    <3> QED
      BY <1>4, <3>1, <3>2
  <2>3. CASE FailRunForLack(i)
    <3>1. PICK code : /\ code = setup[runs[i].worker]
                      /\ code \in {"missing_secret", "llm_model_not_configured"}
      BY <2>3 DEF FailRunForLack
    <3> DEFINE row == [runs[i] EXCEPT !.status = "failed", !.code = code]
    <3>2. row \in RunRow /\ row.worker = runs[i].worker /\ row.trigger = runs[i].trigger
          /\ row.slot = runs[i].slot /\ row.kind = runs[i].kind /\ row.code = code
      BY <1>3, <3>1 DEF RunRow, Code, SetupCode, Foreseen
    <3>3. runs' = [runs EXCEPT ![i] = row]
      BY <2>3, <3>1 DEF FailRunForLack
    <3> HIDE DEF row
    <3> QED
      BY <3>1, <3>2, <3>3
  <2> QED
    BY <2>1, <2>2, <2>3
<1>6. /\ SameHistory /\ runs' \in Seq(RunRow)
      /\ \A k \in DOMAIN runs' : runs'[k].code = "scheduler_row_error" => runs'[k].status = "failed"
  BY <1>4, <1>5, ChangedRun
<1>7. worker' \in [Workers -> WorkerRow] /\ \A v \in Workers : worker'[v].next = worker[v].next
  <2>1. CASE worker' = worker
    BY <1>2, <2>1
  <2>2. CASE FailRunForLack(i) /\ worker' # worker
    <3> DEFINE w == runs[i].worker
               own == [worker[w] EXCEPT !.enabled = FALSE, !.paused = TRUE]
    <3>1. worker' = [worker EXCEPT ![w].enabled = FALSE, ![w].paused = TRUE]
      BY <2>2 DEF FailRunForLack
    <3>2. worker[w] \in WorkerRow
      BY <1>2, <1>3
    <3>3. own \in WorkerRow /\ own.next = worker[w].next
      BY <3>2 DEF WorkerRow
    <3>4. worker' = [worker EXCEPT ![w] = own]
      BY <1>2, <1>3, <3>1
    <3> HIDE DEF own
    <3> QED
      BY <1>2, <1>3, <3>3, <3>4
  <2> QED
    BY <2>1, <2>2 DEF StartRun, EndRun
<1>8. TableType'
  BY <1>1, <1>6, <1>7 DEF TypeInv, TableType
<1>9. RestType' /\ TickType'
  <2>1. clock \in Nat
    BY ConstantsAssumption DEF TypeInv, RestType
  <2>2. clock' \in Nat /\ clock <= clock'
    BY <1>1, <2>1
  <2>3. TickType'
    BY <1>1, <2>2, TickStays
  <2> QED
    BY <1>1, <2>3 DEF TypeInv, RestType
<1>10. TypeInv'
  BY <1>8, <1>9 DEF TypeInv
<1> QED
  BY <1>1, <1>6, <1>7, <1>10, BesideKeepsSlots

\* A user's change to the tables.
LEMMA ChangeStep ==
    ASSUME TypeInv, SlotInv, Change, TableType', SameHistory,
           UNCHANGED <<clock, tick, faults, crossed>>, capped' \in BOOLEAN,
           setup' \in [Workers -> SetupCode \cup {"none"}], overtaken' \subseteq Workers,
           \A u \in Triggers : trigger'[u].locked = trigger[u].locked,
           \A u \in Triggers : trigger'[u].next \in {trigger[u].next, Never},
           \A v \in Workers : worker'[v].next \in {worker[v].next, Never}
    PROVE  TypeInv' /\ SlotInv'
<1>1. RestType'
  BY ConstantsAssumption DEF TypeInv, RestType, Change
<1>2. clock \in Nat
  BY ConstantsAssumption DEF TypeInv, RestType
<1>3. clock' \in Nat /\ clock <= clock'
  BY <1>2
<1>4. TickType'
  BY <1>3, TickStays
<1>5. TypeInv'
  BY <1>1, <1>4 DEF TypeInv
<1> QED
  BY <1>5, BesideKeepsSlots

LEMMA RunByHandStep ==
    ASSUME TypeInv, SlotInv, NEW w \in Workers, RunByHand(w)
    PROVE  TypeInv' /\ SlotInv'
<1> DEFINE row == [worker |-> w, trigger |-> Nobody, kind |-> "manual", status |-> "queued",
                   code |-> "none", at |-> clock, slot |-> Never]
<1>1. clock \in Nat
  BY ConstantsAssumption DEF TypeInv, RestType
<1>2. row \in RunRow /\ row.kind = "manual" /\ row.code = "none"
  BY <1>1 DEF RunRow, Kind, Code, Time
<1>3. Change /\ runs' = Append(runs, row)
      /\ UNCHANGED <<trigger, worker, setup, capped, clock, tick, faults, crossed, overtaken>>
  BY DEF RunByHand
<1> HIDE DEF row
<1>4. TableType'
  BY <1>2, <1>3, AppendType
<1>5. SameHistory
  BY <1>2, <1>3, OtherRow DEF IsFire
<1>6. setup' \in [Workers -> SetupCode \cup {"none"}] /\ capped' \in BOOLEAN
      /\ overtaken' \subseteq Workers
  BY <1>3 DEF TypeInv, RestType
<1> QED
  BY <1>3, <1>4, <1>5, <1>6, ChangeStep

LEMMA ReconciledType ==
    ASSUME TypeInv, NEW w, NEW period \in Periods, NEW enabled \in BOOLEAN,
           trigger' = Reconciled(w, period, enabled)
    PROVE  /\ trigger' \in [Triggers -> TriggerRow]
           /\ \A t \in Triggers : trigger'[t].locked = trigger[t].locked
           /\ \A t \in Triggers : trigger'[t].next \in {trigger[t].next, Never}
<1> DEFINE row(t) == [trigger[t] EXCEPT !.enabled = enabled, !.period = period,
                         !.next = IF trigger[t].period = period THEN @ ELSE Never]
<1>1. trigger \in [Triggers -> TriggerRow]
  BY DEF TypeInv, TableType
<1>2. trigger' = [t \in Triggers |-> IF WorkerOf[t] # w THEN trigger[t] ELSE row(t)]
  BY DEF Reconciled
<1>3. \A t \in Triggers : /\ row(t) \in TriggerRow /\ row(t).locked = trigger[t].locked
                          /\ row(t).next \in {trigger[t].next, Never}
  BY <1>1 DEF TriggerRow, Time
<1> HIDE DEF row
<1> QED
  BY <1>1, <1>2, <1>3

\* What users do to the schedule of a worker.
LEMMA EditStep ==
    ASSUME TypeInv, SlotInv, NEW w \in Workers,
           (\E period \in Periods : EditSchedule(w, period)) \/ PauseWorker(w) \/ ResumeWorker(w)
    PROVE  TypeInv' /\ SlotInv'
<1>1. Change /\ UNCHANGED <<setup, capped, runs, clock, tick, faults, crossed>>
  BY DEF EditSchedule, PauseWorker, ResumeWorker
<1>2. overtaken' \subseteq Workers
  BY DEF EditSchedule, PauseWorker, ResumeWorker, TypeInv, RestType
<1>3. setup' \in [Workers -> SetupCode \cup {"none"}] /\ capped' \in BOOLEAN
  BY <1>1 DEF TypeInv, RestType
<1>4. worker \in [Workers -> WorkerRow] /\ worker[w] \in WorkerRow /\ worker[w].period \in Periods
      /\ worker[w].enabled \in BOOLEAN
  BY DEF TypeInv, TableType, WorkerRow
<1>5. PICK period \in Periods, enabled \in BOOLEAN : trigger' = Reconciled(w, period, enabled)
  BY <1>4 DEF EditSchedule, PauseWorker, ResumeWorker
<1>6. /\ trigger' \in [Triggers -> TriggerRow]
      /\ \A t \in Triggers : trigger'[t].locked = trigger[t].locked
      /\ \A t \in Triggers : trigger'[t].next \in {trigger[t].next, Never}
  BY <1>5, ReconciledType
<1>7. PICK row \in WorkerRow :
         worker' = [worker EXCEPT ![w] = row] /\ row.next \in {worker[w].next, Never}
  <2>1. CASE \E p \in Periods : EditSchedule(w, p)
    <3>1. PICK p \in Periods : EditSchedule(w, p)
      BY <2>1
    <3> DEFINE row == [worker[w] EXCEPT !.period = p, !.next = Never]
    <3>2. row \in WorkerRow /\ row.next = Never
      BY <1>4 DEF WorkerRow, Time
    <3>3. worker' = [worker EXCEPT ![w] = row]
      BY <1>4, <3>1 DEF EditSchedule
    <3> HIDE DEF row
    <3> QED
      BY <3>2, <3>3
  <2>2. CASE PauseWorker(w)
    <3> DEFINE row == [worker[w] EXCEPT !.enabled = FALSE, !.next = Never]
    <3>2. row \in WorkerRow /\ row.next = Never
      BY <1>4 DEF WorkerRow, Time
    <3>3. worker' = [worker EXCEPT ![w] = row]
      BY <1>4, <2>2 DEF PauseWorker
    <3> HIDE DEF row
    <3> QED
      BY <3>2, <3>3
  <2>3. CASE ResumeWorker(w)
    <3>1. PICK at : at = IF worker[w].paused THEN clock ELSE worker[w].resumed
      OBVIOUS
    <3>2. at \in Time
      BY <1>4, <3>1, ConstantsAssumption DEF WorkerRow, TypeInv, RestType, Time
    <3> DEFINE row == [worker[w] EXCEPT !.enabled = TRUE, !.paused = FALSE, !.resumed = at]
    <3>3. row \in WorkerRow /\ row.next = worker[w].next
      BY <1>4, <3>2 DEF WorkerRow
    <3>4. worker' = [worker EXCEPT ![w] = row]
      BY <1>4, <2>3, <3>1 DEF ResumeWorker
    <3> HIDE DEF row
    <3> QED
      BY <3>3, <3>4
  <2> QED
    BY <2>1, <2>2, <2>3
<1>8. worker' \in [Workers -> WorkerRow] /\ \A v \in Workers : worker'[v].next \in {worker[v].next, Never}
  BY <1>4, <1>7
<1>9. TableType' /\ SameHistory
  BY <1>1, <1>6, <1>8, RunsStay DEF TypeInv, TableType
<1> QED
  BY <1>1, <1>2, <1>3, <1>6, <1>8, <1>9, ChangeStep

LEMMA SettingStep ==
    ASSUME TypeInv, SlotInv, ChangeCap \/ \E w \in Workers : ChangeSetup(w)
    PROVE  TypeInv' /\ SlotInv'
<1>1. Change /\ UNCHANGED <<trigger, worker, runs, clock, tick, faults, crossed, overtaken>>
  BY DEF ChangeCap, ChangeSetup
<1>2. capped' \in BOOLEAN
  BY DEF ChangeCap, ChangeSetup, TypeInv, RestType
<1>3. setup' \in [Workers -> SetupCode \cup {"none"}]
  <2>1. setup \in [Workers -> SetupCode \cup {"none"}]
    BY DEF TypeInv, RestType
  <2>2. Lacks \cup {"none"} \subseteq SetupCode \cup {"none"}
    BY ConstantsAssumption DEF SetupCode, Foreseen
  <2>3. CASE ChangeCap
    BY <2>1, <2>3 DEF ChangeCap
  <2>4. CASE \E w \in Workers : ChangeSetup(w)
    <3>1. PICK w \in Workers, code \in Lacks \cup {"none"} : setup' = [setup EXCEPT ![w] = code]
      BY <2>4 DEF ChangeSetup
    <3> QED
      BY <2>1, <2>2, <3>1
  <2> QED
    BY <2>3, <2>4
<1>4. TableType' /\ SameHistory
  BY <1>1, TablesStay
<1>5. overtaken' \subseteq Workers
  BY <1>1 DEF TypeInv, RestType
<1> QED
  BY <1>1, <1>2, <1>3, <1>4, <1>5, ChangeStep

-----------------------------------------------------------------------------
(* The theorems *)

LEMMA StepInv ==
    ASSUME TypeInv, SlotInv, [Next]_vars
    PROVE  TypeInv' /\ SlotInv'
<1>1. CASE UNCHANGED vars
  <2>1. UNCHANGED <<trigger, worker, setup, capped, runs, clock, tick, changes, faults, crossed, overtaken>>
    BY <1>1 DEF vars
  <2>2. clock \in Nat /\ clock <= clock
    BY ConstantsAssumption DEF TypeInv, RestType
  <2>3. TypeInv'
    BY <2>1, <2>2, TablesStay, TickStays DEF TypeInv, RestType
  <2> QED
    BY <2>1, <2>3, TablesStay, BesideKeepsSlots
<1>2. ASSUME NEW s \in Schedulers, TickStep(s) PROVE TypeInv' /\ SlotInv'
  BY <1>2, StartTickStep, ListTriggersStep, InitRowStep, UnhandledStep, ClaimRowStep, TakeWorkerStep,
     NoteMissedStep, AdvanceStep, CheckSetupStep, RecordRowErrorStep, QuietStep, PersistPauseStep,
     CreateRunStep, RecordFireFailureStep, MarkFiredStep, MirrorRowsStep, ListWorkersStep
  DEF TickStep
<1>3. ASSUME NEW s \in Schedulers, FaultStep(s) PROVE TypeInv' /\ SlotInv'
  BY <1>3, ListFailsStep, UnhandledStep, QuietStep, AdvanceRaisesStep, CrashStep DEF FaultStep
<1>4. CASE UserStep
  BY <1>4, SettingStep, RunByHandStep, EditStep DEF UserStep
<1> QED
  BY <1>1, <1>2, <1>3, <1>4, RunStep, PassTimeStep DEF Next

LEMMA Invariance == Spec => [](TypeInv /\ SlotInv)
<1>1. Init => TypeInv /\ SlotInv
  BY InitInv
<1>2. (TypeInv /\ SlotInv) /\ [Next]_vars => (TypeInv /\ SlotInv)'
  BY StepInv
<1> QED
  BY <1>1, <1>2, PTL DEF Spec

\* The tables keep their types, a tick that is at a row has one and has read the time before,
\* and no more changes and faults happen than are allowed.
THEOREM TypeCorrect == Spec => []TypeOK
<1>1. TypeInv => TypeOK
  <2> SUFFICES ASSUME TypeInv PROVE TypeOK
    OBVIOUS
  <2>1. clock \in Nat
    BY ConstantsAssumption DEF TypeInv, RestType
  <2>2. \A s \in Schedulers :
           /\ tick[s].pc \in Pc /\ tick[s].now \in 0 .. clock
           /\ tick[s].todo \in Seq(Item) /\ tick[s].mirror \in Seq(Item)
           /\ tick[s].pc \notin {"idle", "listing", "mirroring", "legacy"} => tick[s].todo # <<>>
    BY <2>1 DEF TypeInv, TickType, TickRow, TickOK
  <2> QED
    BY <2>2 DEF TypeOK, TypeInv, TableType, RestType
<1> QED
  BY <1>1, Invariance, PTL

\* However many schedulers tick, a slot of a schedule is fired once and reported late once, while
\* the rows are claimed as they were listed and handled within their lease.
THEOREM SlotsHandledOnce == Spec => []SlotHandledOnce
<1>1. TypeInv /\ SlotInv => SlotHandledOnce
  <2> SUFFICES ASSUME TypeInv, SlotInv, NEW rows \in {Fires, Markers}, NEW i \in rows, NEW j \in rows,
                      i # j, runs[i].worker \notin crossed, SameFire(runs[i], runs[j])
               PROVE  FALSE
    BY DEF SlotHandledOnce
  <2>1. i \in DOMAIN runs /\ j \in DOMAIN runs /\ runs \in Seq(RunRow)
    BY DEF Fires, Markers, TypeInv, TableType
  <2>2. runs[i] \in RunRow /\ runs[j] \in RunRow
    BY <2>1
  <2>3. /\ runs[i].worker \in Workers /\ runs[i].trigger \in Triggers \cup {Nobody}
        /\ runs[j].worker \in Workers /\ runs[j].trigger \in Triggers \cup {Nobody}
    BY <2>2 DEF RunRow
  <2>4. Unique(rows)
    BY DEF SlotInv
  <2>5. runs[i].worker = runs[j].worker /\ runs[i].slot = runs[j].slot
    BY DEF SameFire
  <2>6. runs[i].trigger # runs[j].trigger /\ Nobody \in {runs[i].trigger, runs[j].trigger}
    BY <2>4, <2>5 DEF Unique, SameFire
  <2>7. \A k \in rows : runs[k].slot \in SlotsOf(runs[k].trigger, runs[k].worker)
    BY DEF SlotsOf, FiresOf, MarkersOf
  <2>8. PICK w \in Workers : w = runs[i].worker /\ w = runs[j].worker /\ w \notin crossed
    BY <2>3, <2>5
  <2>9. SlotsOf(Nobody, w) # {}
    BY <2>6, <2>7, <2>8
  <2>10. HasRows(w)
    <3>1. PICK k \in {i, j} : runs[k].trigger \in Triggers
      BY <2>3, <2>6
    <3>2. k \in rows /\ runs[k].worker = w
      BY <2>8
    <3>3. runs[k].slot \in SlotsOf(runs[k].trigger, w)
      BY <2>7, <3>2
    <3>4. w = WorkerOf[runs[k].trigger]
      BY <3>1, <3>3 DEF SlotInv, Known
    <3> QED
      BY <3>1, <3>4 DEF HasRows
  <2> QED
    BY <2>8, <2>9, <2>10 DEF SlotInv, ByRows
<1> QED
  BY <1>1, Invariance, PTL

-----------------------------------------------------------------------------
(* The newest of some rows *)

\* Rows are finitely many, and one of two is the newer.
LEMMA NewerOrders ==
    ASSUME NEW rows \in Seq(RunRow), NEW i \in DOMAIN rows, NEW j \in DOMAIN rows
    PROVE  /\ ~(Newer(rows, i, j) /\ Newer(rows, j, i))
           /\ i # j => Newer(rows, i, j) \/ Newer(rows, j, i)
           /\ Newer(rows, j, i) => rows[j].at >= rows[i].at
           /\ \A k \in DOMAIN rows :
                 Newer(rows, i, j) /\ Newer(rows, j, k) => Newer(rows, i, k)
<1>1. DOMAIN rows = 1 .. Len(rows) /\ Len(rows) \in Nat
  OBVIOUS
<1>2. \A k \in DOMAIN rows : rows[k].at \in Nat /\ k \in Nat
  <2>1. \A k \in DOMAIN rows : rows[k] \in RunRow
    OBVIOUS
  <2> QED BY <1>1, <2>1 DEF RunRow
<1> QED BY <1>2 DEF Newer

LEMMA FinitelyMany ==
    ASSUME NEW rows \in Seq(RunRow), NEW set \in SUBSET DOMAIN rows
    PROVE  IsFiniteSet(set) /\ Cardinality(set) \in Nat
<1>1. DOMAIN rows = 1 .. Len(rows) /\ Len(rows) \in Nat
  OBVIOUS
<1>2. IsFiniteSet(1 .. Len(rows))
  BY <1>1, FS_Interval
<1>3. IsFiniteSet(set)
  BY <1>1, <1>2, FS_Subset
<1> QED BY <1>3, FS_CardinalityType

LEMMA Fewer ==
    ASSUME NEW rows \in Seq(RunRow), NEW set \in SUBSET DOMAIN rows, NEW part \in SUBSET set
    PROVE  Cardinality(part) <= Cardinality(set)
BY FinitelyMany, FS_Subset

\* What is newer than one of the newest is one of them.
LEMMA NewestFirst ==
    ASSUME NEW rows \in Seq(RunRow), NEW set \in SUBSET DOMAIN rows, NEW n \in Nat,
           NEW i \in Newest(rows, set, n), NEW j \in set, Newer(rows, j, i)
    PROVE  j \in Newest(rows, set, n)
<1> DEFINE NewerThan(k) == {x \in set : Newer(rows, x, k)}
<1>1. i \in set /\ Cardinality(NewerThan(i)) < n
  BY DEF Newest
<1>2. NewerThan(j) \subseteq NewerThan(i)
  BY <1>1, NewerOrders
<1>3. Cardinality(NewerThan(j)) <= Cardinality(NewerThan(i))
  BY <1>2, Fewer
<1>4. Cardinality(NewerThan(j)) \in Nat /\ Cardinality(NewerThan(i)) \in Nat
  BY FinitelyMany
<1>5. Cardinality(NewerThan(j)) < n
  BY <1>1, <1>3, <1>4
<1> QED BY <1>5 DEF Newest

\* To look for the newest among some rows that are newer than all others finds those that are
\* among them.
LEMMA NewestRead ==
    ASSUME NEW rows \in Seq(RunRow), NEW set \in SUBSET DOMAIN rows,
           NEW m \in Nat, NEW n \in Nat, NEW part \in SUBSET set
    PROVE  Newest(rows, part \cap Newest(rows, set, m), n)
           = Newest(rows, part, n) \cap Newest(rows, set, m)
<1> DEFINE read == Newest(rows, set, m)
<1> SUFFICES ASSUME NEW i \in part, i \in read
             PROVE  {j \in part \cap read : Newer(rows, j, i)} = {j \in part : Newer(rows, j, i)}
  BY DEF Newest
<1>1. \A j \in part : Newer(rows, j, i) => j \in read
  BY NewestFirst
<1> QED BY <1>1

\* Where as many are found as were looked for, they are the newest of all, and so they are
\* where the newest of all are read.
LEMMA NewestFound ==
    ASSUME NEW rows \in Seq(RunRow), NEW set \in SUBSET DOMAIN rows,
           NEW m \in Nat, NEW n \in Nat, NEW part \in SUBSET set
    PROVE  LET read  == Newest(rows, set, m)
               found == Newest(rows, part \cap read, n)
           IN  Cardinality(found) = n \/ Newest(rows, part, n) \subseteq read
                  => found = Newest(rows, part, n)
<1> DEFINE read == Newest(rows, set, m)
           found == Newest(rows, part, n) \cap read
<1>1. Newest(rows, part \cap read, n) = found
  BY NewestRead
<1> SUFFICES ASSUME Cardinality(found) = n, NEW i \in Newest(rows, part, n), i \notin read
             PROVE  FALSE
  BY <1>1
<1> DEFINE ahead == {j \in part : Newer(rows, j, i)}
<1>2. i \in part /\ Cardinality(ahead) < n
  BY DEF Newest
<1>3. found \subseteq ahead
  <2> SUFFICES ASSUME NEW j \in found PROVE j \in part /\ Newer(rows, j, i)
    OBVIOUS
  <2>1. j \in part /\ j \in read /\ j \in DOMAIN rows /\ i \in DOMAIN rows
    BY <1>2 DEF Newest
  <2>2. ~Newer(rows, i, j)
    BY <1>2, <2>1, NewestFirst
  <2> QED BY <2>1, <2>2, NewerOrders
<1>4. Cardinality(found) <= Cardinality(ahead) /\ Cardinality(ahead) \in Nat
  BY <1>3, Fewer, FinitelyMany
<1> QED BY <1>2, <1>4

\* A further row that is not one of the newest leaves them as they were.
LEMMA NewestKept ==
    ASSUME NEW rows \in Seq(RunRow), NEW set \in SUBSET DOMAIN rows, NEW n \in Nat,
           NEW k \in DOMAIN rows, k \notin set, k \notin Newest(rows, set \cup {k}, n)
    PROVE  Newest(rows, set \cup {k}, n) = Newest(rows, set, n)
<1> DEFINE NewerThan(i) == {j \in set : Newer(rows, j, i)}
           All(i) == {j \in set \cup {k} : Newer(rows, j, i)}
<1>1. \A i \in set \cup {k} : Cardinality(NewerThan(i)) \in Nat /\ Cardinality(All(i)) \in Nat
  BY FinitelyMany
<1>2. ~(Cardinality(All(k)) < n)
  BY DEF Newest
<1> SUFFICES ASSUME NEW i \in set
             PROVE  Cardinality(All(i)) < n <=> Cardinality(NewerThan(i)) < n
  BY DEF Newest
<1>3. CASE ~Newer(rows, k, i)
  <2>1. All(i) = NewerThan(i)
    BY <1>3
  <2>2. Cardinality(All(i)) = Cardinality(NewerThan(i))
    BY <2>1
  <2> QED BY <2>2
<1>4. CASE Newer(rows, k, i)
  <2>1. ~Newer(rows, k, k)
    BY NewerOrders
  <2>2. All(k) \subseteq NewerThan(i) /\ All(k) \subseteq All(i)
    BY <1>4, <2>1, NewerOrders
  <2>3. Cardinality(All(k)) <= Cardinality(NewerThan(i)) /\ Cardinality(All(k)) <= Cardinality(All(i))
    <3>1. NewerThan(i) \in SUBSET DOMAIN rows /\ All(i) \in SUBSET DOMAIN rows
      OBVIOUS
    <3> HIDE DEF All, NewerThan
    <3>2. Cardinality(All(k)) <= Cardinality(NewerThan(i))
      BY <2>2, <3>1, Fewer
    <3>3. Cardinality(All(k)) <= Cardinality(All(i))
      BY <2>2, <3>1, Fewer
    <3> QED BY <3>2, <3>3
  <2>4. ~(Cardinality(All(i)) < n) /\ ~(Cardinality(NewerThan(i)) < n)
    <3> HIDE DEF All, NewerThan
    <3> QED BY <1>1, <1>2, <2>3
  <2> QED BY <2>4
<1> QED BY <1>3, <1>4

-----------------------------------------------------------------------------
(* What the policy and the record of a failed fire go by *)

\* The steps of a tick on what it has read of the runs.
Deciding == {"pausing", "persisting", "recording", "writing"}

\* Rows are not from the future, and those that the scheduler writes itself have failed.
RowsInv ==
    \A i \in DOMAIN runs :
        /\ runs[i].at <= clock
        /\ runs[i].kind \in {"failure", "missed"} => runs[i].status = "failed"
CodesInv ==
    \A s \in Schedulers :
        /\ At(s, "pausing") => tick[s].code \in SetupCode
        /\ tick[s].pc \in {"recording", "writing"} => tick[s].code \in FireCode

\* A tick is about to pause a worker.
Decided(w) == \E s \in Schedulers : At(s, "persisting") /\ Cur(s).worker = w
EarnedOnce(w) == \E n \in DOMAIN runs, code \in SetupCode : EarnedWith(w, n, code)
PauseInv ==
    /\ \A w \in Workers : worker[w].paused => ~worker[w].enabled
    /\ \A w \in Workers : w \notin overtaken /\ (worker[w].paused \/ Decided(w)) => EarnedOnce(w)

\* A worker is to be paused, and a tick will look at it, or has.
Ripe(w, code) ==
    /\ faults = 0 /\ Threshold > 0
    /\ worker[w].enabled /\ w \notin overtaken
    /\ Earned(runs, Recent(w), Threshold, code) /\ FewMarkers(w)
Pending(w, code) ==
    \E s \in Schedulers :
        /\ Cur(s).worker = w
        /\ At(s, "persisting") \/ (At(s, "pausing") /\ tick[s].code = code)
TimelyInv == \A w \in Workers, code \in SetupCode : Ripe(w, code) => Pending(w, code)

\* What a tick is about to write does not repeat the last row, while it is the newest.
LastRow(w, i) ==
    /\ i \in RowsOf(w, runs)
    /\ \A k \in RowsOf(w, runs) : k <= i /\ ~Newer(runs, k, i)
OneProcess == \A s1, s2 \in Schedulers : s1 = s2
WriteInv ==
    OneProcess =>
        \A s \in Schedulers : At(s, "writing") =>
            \A i \in DOMAIN runs :
                LastRow(Cur(s).worker, i) /\ runs[i].kind = "failure" /\ runs[i].code = tick[s].code
                    => ~SameMonth(runs[i].at, tick[s].now)

PolicyInv == RowsInv /\ CodesInv /\ PauseInv /\ TimelyInv /\ WriteInv /\ EpisodeIsCoalesced

\* What every step leaves of the rows: they stay where they are, those that have failed stay
\* as they are, and at most one is added.
RowsKept ==
    /\ DOMAIN runs \subseteq DOMAIN runs' /\ DOMAIN runs' \subseteq DOMAIN runs \cup {Len(runs) + 1}
    /\ \A i \in DOMAIN runs :
          /\ runs'[i].worker = runs[i].worker /\ runs'[i].kind = runs[i].kind
          /\ runs'[i].at = runs[i].at
          /\ runs'[i].code = runs[i].code \/ runs'[i].code \in SetupCode
          /\ runs[i].status = "failed" => runs'[i] = runs[i]

\* Most steps write no failure that the policy counts, and none of a fire.
SetupFailure(row) ==
    row.kind \in {"run", "failure"} /\ row.status = "failed" /\ row.code \in SetupCode
NoFailure ==
    \A i \in DOMAIN runs' : (i \in DOMAIN runs /\ runs'[i] = runs[i]) \/ ~SetupFailure(runs'[i])
NoFire == \A i \in DOMAIN runs' \ DOMAIN runs : runs'[i].code \notin FireCode

\* Most steps leave what the policy goes by, and the ticks that are deciding.
FlagsStay ==
    \A w \in Workers :
        /\ worker'[w].enabled = worker[w].enabled /\ worker'[w].paused = worker[w].paused
        /\ worker'[w].resumed = worker[w].resumed
SameTick(s) ==
    /\ tick'[s].pc = tick[s].pc /\ tick'[s].code = tick[s].code /\ tick'[s].now = tick[s].now
    /\ Cur(s)' = Cur(s)
TicksStay ==
    \A s \in Schedulers :
        /\ tick'[s].pc \in Deciding =>
              SameTick(s) \/ (tick'[s].pc = "recording" /\ tick'[s].code \in FireCode)
        /\ tick[s].pc \in {"pausing", "persisting"} /\ faults' = 0 => SameTick(s)
CalmStep == FlagsStay /\ overtaken' = overtaken /\ (faults' = 0 => faults = 0) /\ TicksStay

LEMMA RowType ==
    ASSUME TypeInv
    PROVE  /\ runs \in Seq(RunRow) /\ Len(runs) \in Nat /\ DOMAIN runs = 1 .. Len(runs)
           /\ Threshold \in Nat
           /\ \A i \in DOMAIN runs : runs[i] \in RunRow /\ runs[i].at \in Nat
<1>1. runs \in Seq(RunRow)
  BY DEF TypeInv, TableType
<1>2. \A i \in DOMAIN runs : runs[i] \in RunRow
  BY <1>1
<1> QED BY <1>1, <1>2, ConstantsAssumption DEF RunRow

\* Which of some rows are the newest does not change.
LEMMA NewestStay ==
    ASSUME RowsKept, NEW set \in SUBSET DOMAIN runs, NEW n
    PROVE  Newest(runs', set, n) = Newest(runs, set, n)
<1>1. \A i, j \in set : Newer(runs', j, i) <=> Newer(runs, j, i)
  BY DEF Newer, RowsKept
<1>2. \A i \in set : {j \in set : Newer(runs', j, i)} = {j \in set : Newer(runs, j, i)}
  BY <1>1
<1> QED BY <1>2 DEF Newest

\* What a worker was paused for stays.
LEMMA EarnedStays ==
    ASSUME TypeInv, TypeInv', RowsKept, NEW w \in Workers, worker'[w].resumed = worker[w].resumed,
           EarnedOnce(w)
    PROVE  EarnedOnce(w)'
<1>1. PICK n \in DOMAIN runs, code \in SetupCode : EarnedWith(w, n, code)
  BY DEF EarnedOnce
<1> DEFINE old == Attempts(w, runs, {i \in RowsOf(w, runs) : i <= n})
           new == Attempts(w, runs, {i \in RowsOf(w, runs) : i <= n})'
<1>2. {i \in RowsOf(w, runs) : i <= n}' = {i \in RowsOf(w, runs) : i <= n}
  <2>1. \A i \in DOMAIN runs' : i <= n => i \in DOMAIN runs
    BY RowType, <1>1 DEF RowsKept
  <2> QED BY <2>1 DEF RowsOf, RowsKept
<1>3. new = old /\ old \subseteq DOMAIN runs
  BY <1>2 DEF Attempts, RowsKept, RowsOf
<1>4. Newest(runs', new, Threshold) = Newest(runs, old, Threshold)
  BY <1>3, NewestStay
<1>5. Newest(runs, old, Threshold) \subseteq DOMAIN runs
  BY <1>3 DEF Newest
<1>6. Earned(runs, Newest(runs, old, Threshold), Threshold, code)
  BY <1>1 DEF EarnedWith
<1>7. Earned(runs', Newest(runs, old, Threshold), Threshold, code)
  BY <1>5, <1>6 DEF Earned, RowsKept
<1>8. EarnedWith(w, n, code)'
  BY <1>4, <1>7 DEF EarnedWith
<1> QED BY <1>1, <1>8 DEF EarnedOnce, RowsKept

\* A step that does not touch the newest attempts of a worker leaves what there is to decide.
LEMMA RipeBefore ==
    ASSUME TypeInv, TypeInv', RowsKept, NEW w \in Workers, NEW code, Ripe(w, code)',
           worker'[w].resumed = worker[w].resumed, worker'[w].enabled => worker[w].enabled,
           w \notin overtaken' => w \notin overtaken, faults' = 0 => faults = 0,
           \A i \in Recent(w)' : i \in DOMAIN runs /\ runs'[i] = runs[i]
    PROVE  Ripe(w, code)
<1> DEFINE k == Len(runs) + 1
           old == Attempts(w, runs, RowsOf(w, runs))
           new == Attempts(w, runs, RowsOf(w, runs))'
<1>1. runs' \in Seq(RunRow) /\ k \notin DOMAIN runs /\ Threshold \in Nat
  BY RowType DEF TypeInv, TableType
<1>2. old \subseteq DOMAIN runs /\ old \subseteq DOMAIN runs'
  BY DEF Attempts, RowsOf, RowsKept
<1>3. new = old \/ (new = old \cup {k} /\ k \in DOMAIN runs' /\ k \notin old)
  BY <1>1 DEF Attempts, RowsOf, RowsKept
<1>4. Recent(w)' = Newest(runs', new, Threshold) /\ Recent(w) = Newest(runs, old, Threshold)
  BY DEF Recent
<1>5. Newest(runs', old, Threshold) = Newest(runs, old, Threshold)
  BY <1>2, NewestStay
<1>6. k \notin Newest(runs', new, Threshold)
  BY <1>1, <1>4
<1>7. Recent(w)' = Recent(w)
  <2>1. CASE new = old
    BY <2>1, <1>4, <1>5
  <2>2. CASE new = old \cup {k} /\ k \in DOMAIN runs' /\ k \notin old
    <3> HIDE DEF k, old, new
    <3>1. Newest(runs', old \cup {k}, Threshold) = Newest(runs', old, Threshold)
      BY <1>1, <1>2, <1>6, <2>2, NewestKept
    <3> QED BY <3>1, <2>2, <1>4, <1>5
  <2> QED BY <1>3, <2>1, <2>2
<1>8. Earned(runs, Recent(w), Threshold, code)
  BY <1>7 DEF Ripe, Earned
<1>9. FewMarkers(w)
  <2> SUFFICES ASSUME NEW i \in Recent(w)
               PROVE  Cardinality({j \in Markers \cap RowsOf(w, runs) : Newer(runs, j, i)}) <= Threshold
    BY DEF FewMarkers
  <2> DEFINE before == {j \in Markers \cap RowsOf(w, runs) : Newer(runs, j, i)}
             after == {j \in Markers \cap RowsOf(w, runs) : Newer(runs, j, i)}'
  <2>1. i \in Recent(w)' /\ i \in DOMAIN runs
    BY <1>7
  <2>2. Cardinality(after) <= Threshold
    BY <2>1 DEF Ripe, FewMarkers
  <2>3. before \subseteq after /\ after \subseteq DOMAIN runs'
    BY <2>1 DEF Markers, RowsOf, Newer, RowsKept
  <2>4. Cardinality(before) <= Cardinality(after) /\ Cardinality(before) \in Nat
        /\ Cardinality(after) \in Nat
    BY <1>1, <2>3, Fewer, FinitelyMany
  <2> QED BY <1>1, <2>2, <2>4
<1> QED BY <1>8, <1>9 DEF Ripe

\* The policy finds the newest attempts among the rows it reads, unless there are more markers
\* of late fires than attempts.
LEMMA PolicyFinds ==
    ASSUME TypeInv, NEW rows \in Seq(RunRow), NEW w \in Workers, NEW code
    PROVE  LET recent == Newest(rows, Attempts(w, rows, RowsOf(w, rows)), Threshold)
               few == \A i \in recent :
                         Cardinality({j \in RowsOf(w, rows) :
                                         rows[j].kind = "missed" /\ Newer(rows, j, i)}) <= Threshold
           IN  /\ PolicyPauses(w, code, rows) => Earned(rows, recent, Threshold, code)
               /\ /\ Threshold > 0 /\ worker[w].enabled /\ ~worker[w].paused
                  /\ Earned(rows, recent, Threshold, code) /\ few
                  => PolicyPauses(w, code, rows)
<1> DEFINE all == RowsOf(w, rows)
           mine == Attempts(w, rows, all)
           read == Newest(rows, all, 2 * Threshold)
           recent == Newest(rows, mine, Threshold)
           found == Newest(rows, Attempts(w, rows, read), Threshold)
           missed(i) == {j \in all : rows[j].kind = "missed" /\ Newer(rows, j, i)}
<1>1. all \subseteq DOMAIN rows /\ mine \subseteq all /\ Threshold \in Nat /\ 2 * Threshold \in Nat
  BY RowType DEF RowsOf, Attempts
<1>2. Attempts(w, rows, read) = mine \cap read
  BY DEF Attempts, Newest
<1>3. Cardinality(found) = Threshold \/ recent \subseteq read => found = recent
  <2>1. LET seen == Newest(rows, mine \cap read, Threshold)
        IN  Cardinality(seen) = Threshold \/ recent \subseteq read => seen = recent
    <3> HIDE DEF all, mine
    <3> QED BY <1>1, NewestFound
  <2> QED BY <1>2, <2>1
<1>4. PolicyPauses(w, code, rows) => Earned(rows, recent, Threshold, code)
  <2> SUFFICES ASSUME PolicyPauses(w, code, rows) PROVE Earned(rows, recent, Threshold, code)
    OBVIOUS
  <2>1. Earned(rows, found, Threshold, code)
    BY DEF PolicyPauses
  <2>2. Cardinality(found) = Threshold
    BY <2>1 DEF Earned
  <2> HIDE DEF found, recent
  <2> QED BY <1>3, <2>1, <2>2
<1>5. ASSUME \A i \in recent : Cardinality(missed(i)) <= Threshold, NEW i \in recent
      PROVE  i \in read
  <2> DEFINE ahead == {j \in all : Newer(rows, j, i)}
             tries == {j \in mine : Newer(rows, j, i)}
             marks == missed(i)
  <2>1. i \in mine /\ i \in DOMAIN rows /\ Cardinality(tries) < Threshold
    BY <1>1 DEF Newest
  <2>2. ahead \subseteq tries \cup marks
    <3> SUFFICES ASSUME NEW j \in ahead, rows[j].kind # "missed" PROVE j \in mine
      OBVIOUS
    <3>1. rows[j].at >= rows[i].at /\ rows[i].at > worker[w].resumed
      BY <1>1, <2>1, NewerOrders DEF Attempts
    <3>2. rows[j].at \in Int /\ rows[i].at \in Int /\ worker[w].resumed \in Int
      <4>1. rows[i] \in RunRow /\ rows[j] \in RunRow /\ worker[w] \in WorkerRow
        BY <1>1, <2>1 DEF TypeInv, TableType
      <4> QED BY <4>1 DEF RunRow, WorkerRow, Time, Never
    <3> QED BY <3>1, <3>2 DEF Attempts
  <2>3. tries \subseteq DOMAIN rows /\ marks \subseteq DOMAIN rows /\ ahead \subseteq DOMAIN rows
    BY <1>1
  <2>4. Cardinality(marks) <= Threshold
    BY <1>5
  <2>5. Cardinality(ahead) < 2 * Threshold
    <3> HIDE DEF ahead, tries, marks
    <3>1. /\ IsFiniteSet(tries) /\ IsFiniteSet(marks) /\ IsFiniteSet(tries \cup marks)
          /\ Cardinality(tries) \in Nat /\ Cardinality(marks) \in Nat
          /\ Cardinality(tries \cap marks) \in Nat /\ Cardinality(ahead) \in Nat
      BY <2>3, FinitelyMany
    <3>2. Cardinality(tries \cup marks)
          = Cardinality(tries) + Cardinality(marks) - Cardinality(tries \cap marks)
      BY <3>1, FS_Union
    <3>3. Cardinality(ahead) <= Cardinality(tries \cup marks)
      BY <2>2, <3>1, FS_Subset
    <3> QED BY <1>1, <2>1, <2>4, <3>1, <3>2, <3>3
  <2> QED BY <1>1, <2>1, <2>5 DEF Newest
<1>6. ASSUME Threshold > 0, worker[w].enabled, ~worker[w].paused,
             Earned(rows, recent, Threshold, code), \A i \in recent : Cardinality(missed(i)) <= Threshold
      PROVE  PolicyPauses(w, code, rows)
  <2>1. recent \subseteq read
    BY <1>5, <1>6
  <2>2. found = recent
    <3> HIDE DEF found, recent, read
    <3> QED BY <1>3, <2>1
  <2>3. Earned(rows, found, Threshold, code)
    BY <1>6, <2>2
  <2> QED BY <1>6, <2>3 DEF PolicyPauses
<1> QED BY <1>4, <1>6

\* The newest attempts, when all have failed for the same lack, are what a worker is paused for.
LEMMA EarnedNow ==
    ASSUME TypeInv', NEW w \in Workers, NEW code \in SetupCode, Threshold > 0,
           Earned(runs', Recent(w)', Threshold, code)
    PROVE  EarnedOnce(w)'
<1>1. Recent(w)' # {}
  <2>1. Cardinality(Recent(w)') = Threshold
    BY DEF Earned
  <2> QED BY <2>1, FS_EmptySet
<1>2. DOMAIN runs' # {}
  BY <1>1 DEF Recent, Newest, Attempts, RowsOf
<1>3. Len(runs') \in DOMAIN runs' /\ \A i \in DOMAIN runs' : i <= Len(runs')
  <2>1. runs' \in Seq(RunRow)
    BY DEF TypeInv, TableType
  <2> QED BY <1>2, <2>1
<1>4. {i \in RowsOf(w, runs') : i <= Len(runs')} = RowsOf(w, runs')
  BY <1>3 DEF RowsOf
<1>5. Attempts(w, runs, {i \in RowsOf(w, runs) : i <= Len(runs)})' = Attempts(w, runs, RowsOf(w, runs))'
  BY <1>4 DEF Attempts
<1>6. Newest(runs', Attempts(w, runs, {i \in RowsOf(w, runs) : i <= Len(runs)})', Threshold) = Recent(w)'
  BY <1>5 DEF Recent
<1> DEFINE n == Len(runs')
<1>7. {i \in RowsOf(w, runs) : i <= Len(runs)}' = {i \in RowsOf(w, runs') : i <= n}
  OBVIOUS
<1> QED BY <1>3, <1>6 DEF EarnedOnce, EarnedWith

-----------------------------------------------------------------------------
(* What keeps the parts of the invariant *)

\* Rows that are added and changed do not undo a pause.
LEMMA KeepsPauses ==
    ASSUME TypeInv, TypeInv', PauseInv, RowsKept,
           \A w \in Workers : worker'[w].paused => ~worker'[w].enabled,
           \A w \in Workers : w \notin overtaken' /\ (worker'[w].paused \/ Decided(w)') =>
               /\ worker'[w].resumed = worker[w].resumed
               /\ w \notin overtaken /\ (worker[w].paused \/ Decided(w))
    PROVE  PauseInv'
<1> SUFFICES ASSUME NEW w \in Workers, w \notin overtaken', worker'[w].paused \/ Decided(w)'
             PROVE  EarnedOnce(w)'
  BY DEF PauseInv
<1>1. EarnedOnce(w)
  BY DEF PauseInv
<1> QED BY <1>1, EarnedStays

\* Where the rows that are counted have not changed, a tick was to look at them before.
LEMMA KeepsPending ==
    ASSUME TypeInv, TypeInv', TimelyInv, RowsKept, NEW w \in Workers, NEW code \in SetupCode,
           Ripe(w, code)', \A i \in Recent(w)' : i \in DOMAIN runs /\ runs'[i] = runs[i],
           worker'[w].resumed = worker[w].resumed, worker'[w].enabled => worker[w].enabled,
           w \notin overtaken' => w \notin overtaken, faults' = 0 => faults = 0
    PROVE  /\ Ripe(w, code) /\ faults' = 0
           /\ \E s \in Schedulers :
                 /\ Cur(s).worker = w
                 /\ At(s, "persisting") \/ (At(s, "pausing") /\ tick[s].code = code)
           /\ (\A s \in Schedulers : tick[s].pc \in {"pausing", "persisting"} => SameTick(s))
                 => Pending(w, code)'
<1>1. Ripe(w, code)
  BY RipeBefore
<1>2. faults' = 0
  BY DEF Ripe
<1>3. PICK s \in Schedulers : /\ Cur(s).worker = w
                              /\ At(s, "persisting") \/ (At(s, "pausing") /\ tick[s].code = code)
  BY <1>1 DEF TimelyInv, Pending
<1>4. SameTick(s) => Pending(w, code)'
  BY <1>3 DEF Pending, SameTick, At
<1>5. tick[s].pc \in {"pausing", "persisting"}
  BY <1>3 DEF At
<1> QED BY <1>1, <1>2, <1>3, <1>4, <1>5

\* What there is to look at are failures.
LEMMA RipeRows ==
    ASSUME NEW w, NEW code \in SetupCode, Ripe(w, code)'
    PROVE  \A i \in Recent(w)' : /\ i \in DOMAIN runs' /\ SetupFailure(runs'[i])
                                 /\ runs'[i].worker = w /\ runs'[i].code = code
BY DEF Ripe, Earned, SetupFailure, Recent, Newest, Attempts, RowsOf

\* Which row of a worker was before another does not change.
LEMMA RowBeforeStays ==
    ASSUME TypeInv, TypeInv', RowsKept, NEW i \in DOMAIN runs, NEW j \in DOMAIN runs, RowBefore(i, j)'
    PROVE  RowBefore(i, j)
<1> DEFINE old == {k \in RowsOf(runs[j].worker, runs) : k < j}
           new == {k \in RowsOf(runs[j].worker, runs) : k < j}'
<1>1. old \subseteq new
  BY DEF RowsOf, RowsKept
<1>2. \A k \in old : Newer(runs, k, i) <=> Newer(runs', k, i)
  BY DEF Newer, RowsKept, RowsOf
<1>3. i \in new /\ \A k \in new : k <= i /\ ~Newer(runs', k, i)
  BY DEF RowBefore
<1>4. i \in old
  BY <1>3 DEF RowsOf, RowsKept
<1> QED BY <1>1, <1>2, <1>3, <1>4 DEF RowBefore

\* Only the failure of a fire that is written can repeat another.
LEMMA KeepsEpisodes ==
    ASSUME TypeInv, TypeInv', RowsInv, CodesInv, WriteInv, EpisodeIsCoalesced, RowsKept, NoFire,
           \A s \in Schedulers : At(s, "writing")' => SameTick(s)
    PROVE  WriteInv' /\ EpisodeIsCoalesced'
<1>1. WriteInv'
  <2> SUFFICES ASSUME OneProcess, NEW s \in Schedulers, At(s, "writing")', NEW i \in DOMAIN runs',
                      LastRow(Cur(s).worker, i)', runs'[i].kind = "failure",
                      runs'[i].code = tick'[s].code
               PROVE  ~SameMonth(runs'[i].at, tick'[s].now)
    BY DEF WriteInv
  <2>1. SameTick(s) /\ At(s, "writing")
    BY DEF SameTick, At
  <2>2. tick[s].code \in FireCode
    BY <2>1 DEF CodesInv, At
  <2>3. i \in DOMAIN runs
    BY <2>1, <2>2 DEF NoFire, SameTick
  <2>4. runs[i].kind = "failure" /\ runs'[i] = runs[i]
    BY <2>3 DEF RowsKept, RowsInv
  <2>5. LastRow(Cur(s).worker, i)
    <3> DEFINE w == Cur(s).worker
    <3>1. RowsOf(w, runs) \subseteq RowsOf(w, runs)'
      BY <2>1 DEF RowsOf, RowsKept, SameTick
    <3>2. \A k \in RowsOf(w, runs) : Newer(runs, k, i) <=> Newer(runs', k, i)
      BY <2>3 DEF Newer, RowsKept, RowsOf
    <3>3. i \in RowsOf(w, runs)
      BY <2>1, <2>3, <2>4 DEF LastRow, RowsOf, SameTick
    <3>4. \A k \in RowsOf(w, runs)' : k <= i /\ ~Newer(runs', k, i)
      BY DEF LastRow
    <3> QED BY <3>1, <3>2, <3>3, <3>4 DEF LastRow
  <2> QED BY <2>1, <2>3, <2>4, <2>5 DEF WriteInv, SameTick
<1>2. EpisodeIsCoalesced'
  <2> SUFFICES ASSUME OneProcess, NEW i \in DOMAIN runs', NEW j \in DOMAIN runs', RowBefore(i, j)',
                      runs'[i].kind = "failure", runs'[i].code \in FireCode,
                      SameMonth(runs'[i].at, runs'[j].at), runs'[j].code = runs'[i].code
               PROVE  FALSE
    BY DEF EpisodeIsCoalesced, OneProcess
  <2>1. i \in DOMAIN runs /\ j \in DOMAIN runs
    BY DEF NoFire
  <2>2. RowBefore(i, j) /\ runs'[i] = runs[i]
    BY <2>1, RowBeforeStays DEF RowsInv, RowsKept
  <2>3. runs[j].code = runs'[j].code /\ runs[j].at = runs'[j].at
    BY <2>1 DEF RowsKept, FireCode, SetupCode, Foreseen
  <2> QED BY <2>1, <2>2, <2>3 DEF EpisodeIsCoalesced, OneProcess
<1> QED BY <1>1, <1>2

\* A step that writes no failure and leaves the ticks that are deciding keeps the invariant.
LEMMA CalmPolicy ==
    ASSUME TypeInv, TypeInv', PolicyInv, RowsInv', RowsKept, NoFailure, NoFire, CalmStep
    PROVE  PolicyInv'
<1>1. CodesInv'
  <2> SUFFICES ASSUME NEW s \in Schedulers
               PROVE  /\ At(s, "pausing")' => tick'[s].code \in SetupCode
                      /\ tick'[s].pc \in {"recording", "writing"} => tick'[s].code \in FireCode
    BY DEF CodesInv
  <2>1. tick'[s].pc \in Deciding => SameTick(s) \/ (tick'[s].pc = "recording" /\ tick'[s].code \in FireCode)
    BY DEF CalmStep, TicksStay
  <2> QED BY <2>1 DEF PolicyInv, CodesInv, SameTick, At, Deciding
<1>2. \A s \in Schedulers, pc \in {"pausing", "persisting", "writing"} :
         At(s, pc)' => SameTick(s) /\ At(s, pc)
  BY DEF CalmStep, TicksStay, At, Deciding, SameTick
<1>3. PauseInv'
  <2>1. \A w \in Workers : Decided(w)' => Decided(w)
    BY <1>2 DEF Decided, SameTick
  <2> QED BY <2>1, KeepsPauses DEF PolicyInv, PauseInv, CalmStep, FlagsStay
<1>4. TimelyInv'
  <2> SUFFICES ASSUME NEW w \in Workers, NEW code \in SetupCode, Ripe(w, code)'
               PROVE  Pending(w, code)'
    BY DEF TimelyInv
  <2>1. \A i \in Recent(w)' : i \in DOMAIN runs /\ runs'[i] = runs[i]
    BY RipeRows DEF NoFailure
  <2>2. faults' = 0
    BY DEF Ripe
  <2>3. \A s \in Schedulers : tick[s].pc \in {"pausing", "persisting"} => SameTick(s)
    BY <2>2 DEF CalmStep, TicksStay
  <2> QED BY <2>1, <2>3, KeepsPending DEF CalmStep, FlagsStay, PolicyInv
<1>5. WriteInv' /\ EpisodeIsCoalesced'
  BY <1>2, KeepsEpisodes DEF PolicyInv
<1> QED BY <1>1, <1>3, <1>4, <1>5 DEF PolicyInv

\* The rows after a step.
LEMMA RowsSame ==
    ASSUME TypeInv, RowsInv, runs' = runs, clock' = clock
    PROVE  RowsInv' /\ RowsKept /\ NoFailure /\ NoFire
BY DEF RowsInv, RowsKept, NoFailure, NoFire

LEMMA RowAdded ==
    ASSUME TypeInv, TypeInv', RowsInv, NEW row \in RunRow, runs' = Append(runs, row),
           clock' = clock, row.at <= clock, row.kind \in {"failure", "missed"} => row.status = "failed"
    PROVE  /\ RowsInv' /\ RowsKept
           /\ Len(runs) + 1 \notin DOMAIN runs /\ DOMAIN runs' = DOMAIN runs \cup {Len(runs) + 1}
           /\ \A i \in DOMAIN runs : runs'[i] = runs[i]
           /\ runs'[Len(runs) + 1] = row
           /\ ~SetupFailure(row) => NoFailure
           /\ row.code \notin FireCode => NoFire
<1>1. runs \in Seq(RunRow) /\ Len(runs) \in Nat /\ DOMAIN runs = 1 .. Len(runs)
  BY RowType
<1>2. /\ Len(runs') = Len(runs) + 1 /\ DOMAIN runs' = 1 .. Len(runs')
      /\ \A i \in 1 .. Len(runs) : runs'[i] = runs[i]
      /\ runs'[Len(runs) + 1] = row
  BY <1>1, AppendProperties, RowType DEF TypeInv, TableType
<1>3. Len(runs) + 1 \notin DOMAIN runs /\ DOMAIN runs' = DOMAIN runs \cup {Len(runs) + 1}
  BY <1>1, <1>2
<1>4. RowsInv' /\ RowsKept
  BY <1>1, <1>2, <1>3 DEF RowsInv, RowsKept
<1> QED BY <1>1, <1>2, <1>3, <1>4 DEF NoFailure, NoFire

LEMMA RowChanged ==
    ASSUME TypeInv, RowsInv, NEW i \in DOMAIN runs, NEW row, runs' = [runs EXCEPT ![i] = row],
           runs[i].status # "failed", clock' = clock,
           row.worker = runs[i].worker, row.kind = runs[i].kind, row.at = runs[i].at,
           row.code = runs[i].code \/ row.code \in SetupCode
    PROVE  /\ RowsInv' /\ RowsKept /\ NoFire
           /\ DOMAIN runs' = DOMAIN runs /\ runs'[i] = row
           /\ \A j \in DOMAIN runs : j # i => runs'[j] = runs[j]
           /\ ~SetupFailure(row) => NoFailure
<1>1. DOMAIN runs' = DOMAIN runs /\ runs'[i] = row /\ \A j \in DOMAIN runs : j # i => runs'[j] = runs[j]
  OBVIOUS
<1>2. RowsInv' /\ RowsKept
  BY <1>1 DEF RowsInv, RowsKept
<1> QED BY <1>1, <1>2 DEF NoFailure, NoFire

-----------------------------------------------------------------------------
(* The steps keep the invariant of the policy *)

\* Where a tick goes.
LEMMA TickMoves ==
    ASSUME TypeInv, NEW s \in Schedulers
    PROVE  /\ \A pc : Goto(s, pc) =>
                 OnlyTick(s) /\ tick'[s].pc = pc /\ tick'[s].code = tick[s].code
                     /\ tick'[s].now = tick[s].now /\ Cur(s)' = Cur(s)
           /\ \A pc, code : Blame(s, pc, code) =>
                 OnlyTick(s) /\ tick'[s].pc = pc /\ tick'[s].code = code
                     /\ tick'[s].now = tick[s].now /\ Cur(s)' = Cur(s)
           /\ \A next : Done(s, next) => OnlyTick(s) /\ tick'[s].pc \in {"row", "idle", "mirroring"}
<1>1. tick[s] \in TickRow /\ tick \in [Schedulers -> TickRow]
  BY DEF TypeInv, TickType
<1>2. \A pc, code : Blame(s, pc, code) =>
         OnlyTick(s) /\ tick'[s].pc = pc /\ tick'[s].code = code
             /\ tick'[s].now = tick[s].now /\ Cur(s)' = Cur(s)
  BY <1>1 DEF Blame, OnlyTick, TickRow, Cur
<1>3. \A pc : Goto(s, pc) =>
         OnlyTick(s) /\ tick'[s].pc = pc /\ tick'[s].code = tick[s].code
             /\ tick'[s].now = tick[s].now /\ Cur(s)' = Cur(s)
  BY <1>1 DEF Goto, OnlyTick, TickRow, Cur
<1>4. \A next : Done(s, next) => OnlyTick(s) /\ tick'[s].pc \in {"row", "idle", "mirroring"}
  BY <1>1 DEF Done, OnlyTick, TickRow
<1> QED BY <1>2, <1>3, <1>4

\* Ticks that do not come to a decision, and do not drop one unless something fails.
LEMMA OneTick ==
    ASSUME NEW s \in Schedulers, OnlyTick(s),
           tick'[s].pc \in Deciding => tick'[s].pc = "recording" /\ tick'[s].code \in FireCode,
           tick[s].pc \in {"pausing", "persisting"} => faults' # 0
    PROVE  TicksStay
<1> SUFFICES ASSUME NEW s2 \in Schedulers, s2 # s PROVE SameTick(s2)
  BY DEF TicksStay
<1> QED BY DEF OnlyTick, SameTick, Cur

LEMMA FaultCounts ==
    ASSUME TypeInv, faults' = faults \/ Fault
    PROVE  /\ faults' = 0 => faults = 0
           /\ Fault => faults' # 0
BY DEF TypeInv, RestType, Fault

LEMMA QuietTick ==
    ASSUME TypeInv, TypeInv', PolicyInv, NEW s \in Schedulers, OnlyTick(s), tick'[s].pc \notin Deciding,
           tick[s].pc \notin {"pausing", "persisting"} \/ Fault, faults' = faults \/ Fault,
           runs' = runs, UNCHANGED world, FlagsStay
    PROVE  PolicyInv'
<1>1. TicksStay /\ (faults' = 0 => faults = 0)
  BY OneTick, FaultCounts
<1>2. CalmStep
  BY <1>1 DEF CalmStep, world
<1> QED BY <1>2, RowsSame, CalmPolicy DEF PolicyInv, world

LEMMA FlagsSame ==
    ASSUME TypeInv,
           \/ worker' = worker
           \/ \E w \in Workers : \E next : worker' = [worker EXCEPT ![w].next = next]
    PROVE  FlagsStay
BY DEF FlagsStay, TypeInv, TableType, WorkerRow

LEMMA SetNextFlags ==
    ASSUME TypeInv, NEW s \in Schedulers, tick[s].todo # <<>>, NEW next, SetNext(s, next)
    PROVE  FlagsStay
BY FlagsSame, CurType DEF SetNext

\* The steps of a tick that find out what there is to do.
LEMMA ListPolicy ==
    ASSUME TypeInv, TypeInv', PolicyInv, NEW s \in Schedulers,
           StartTick(s) \/ ListTriggers(s) \/ ListWorkers(s) \/ TakeWorker(s) \/ ListFails(s) \/ ClaimRow(s)
    PROVE  PolicyInv'
<1>1. tick[s] \in TickRow /\ tick \in [Schedulers -> TickRow]
  BY DEF TypeInv, TickType
<1>2. tick[s].pc \notin {"pausing", "persisting"} /\ UNCHANGED <<worker, runs, world>>
      /\ (faults' = faults \/ Fault)
  BY DEF StartTick, ListTriggers, ListWorkers, TakeWorker, ListFails, ClaimRow, At
<1>3. OnlyTick(s) /\ tick'[s].pc \notin Deciding
  <2>1. CASE StartTick(s)
    BY <1>1, <2>1 DEF StartTick, OnlyTick, Idle, Deciding
  <2>2. CASE ListTriggers(s)
    BY <2>2, ListTriggersType DEF Deciding
  <2>3. CASE ListWorkers(s)
    BY <2>3, ListWorkersType DEF Deciding
  <2>4. CASE TakeWorker(s)
    BY <2>4, TakeWorkerType DEF Deciding
  <2>5. CASE ListFails(s) \/ ClaimRow(s)
    <3>1. PICK pc \in {"legacy", "late", "guard"} : Goto(s, pc)
      BY <2>5 DEF ListFails, ClaimRow, ToHandle
    <3> QED BY <3>1, TickMoves DEF Deciding
  <2> QED BY <2>1, <2>2, <2>3, <2>4, <2>5
<1> QED BY <1>2, <1>3, FlagsSame, QuietTick

\* Those that leave a row.
LEMMA LeavePolicy ==
    ASSUME TypeInv, TypeInv', PolicyInv, NEW s \in Schedulers,
           \/ InitRow(s) \/ SkipRow(s) \/ LoseClaim(s) \/ ClaimRaises(s) \/ SkipFire(s)
           \/ Advance(s) \/ MarkFired(s)
    PROVE  PolicyInv'
<1>1. /\ tick[s].pc \in {"row", "guard", "advancing", "marking"} /\ UNCHANGED <<runs, world>>
      /\ (faults' = faults \/ Fault)
      /\ \E next : Done(s, next)
  BY DEF InitRow, SkipRow, LoseClaim, ClaimRaises, SkipFire, Advance, MarkFired, At
<1>2. OnlyTick(s) /\ tick'[s].pc \notin Deciding
  BY <1>1, TickMoves DEF Deciding
<1>3. tick[s].todo # <<>>
  BY <1>1, AtRow DEF At
<1>4. FlagsStay
  <2>1. CASE InitRow(s) \/ SkipFire(s) \/ Advance(s)
    BY <2>1, <1>3, SetNextFlags DEF InitRow, SkipFire, Advance
  <2>2. CASE SkipRow(s) \/ LoseClaim(s) \/ ClaimRaises(s)
    BY <2>2, FlagsSame DEF SkipRow, LoseClaim, ClaimRaises
  <2>3. CASE MarkFired(s)
    BY <2>3, <1>3, CurType, FlagsSame DEF MarkFired
  <2> QED BY <2>1, <2>2, <2>3
<1> QED BY <1>1, <1>2, <1>4, QuietTick

\* Those that go on without a row, and a tick that dies.
LEMMA GoOnPolicy ==
    ASSUME TypeInv, TypeInv', PolicyInv, NEW s \in Schedulers,
           \/ CheckRaises(s) \/ RecordFails(s) \/ MarkRaises(s) \/ AdvanceRaises(s) \/ MirrorRows(s)
           \/ Crash(s)
    PROVE  PolicyInv'
<1>1. tick[s] \in TickRow /\ tick \in [Schedulers -> TickRow]
  BY DEF TypeInv, TickType
<1>2. /\ tick[s].pc \notin {"pausing", "persisting"} \/ Fault
      /\ UNCHANGED <<runs, world>> /\ (faults' = faults \/ Fault)
  BY DEF CheckRaises, RecordFails, MarkRaises, AdvanceRaises, MirrorRows, Crash, At
<1>3. OnlyTick(s) /\ tick'[s].pc \notin Deciding
  <2>1. CASE CheckRaises(s) \/ RecordFails(s) \/ MarkRaises(s) \/ MirrorRows(s)
    BY <2>1, TickMoves DEF CheckRaises, RecordFails, MarkRaises, MirrorRows, Deciding
  <2>2. CASE AdvanceRaises(s)
    <3>1. CASE Goto(s, "row_error")
      BY <3>1, TickMoves DEF Deciding
    <3>2. CASE tick' = [tick EXCEPT ![s].todo = <<>>,
                                    ![s].pc = IF tick[s].legacy THEN "idle" ELSE "legacy"]
      BY <1>1, <3>2 DEF OnlyTick, TickRow, Deciding
    <3> QED BY <2>2, <3>1, <3>2 DEF AdvanceRaises
  <2>3. CASE Crash(s)
    BY <1>1, <2>3 DEF Crash, OnlyTick, Idle, Deciding
  <2> QED BY <2>1, <2>2, <2>3
<1>4. FlagsStay
  <2>1. CASE MirrorRows(s)
    BY <2>1 DEF MirrorRows, FlagsStay, TypeInv, TableType, WorkerRow
  <2>2. CASE ~MirrorRows(s)
    BY <2>2, FlagsSame DEF CheckRaises, RecordFails, MarkRaises, AdvanceRaises, Crash
  <2> QED BY <2>1, <2>2
<1> QED BY <1>2, <1>3, <1>4, QuietTick

\* The rows that a tick writes.
LEMMA TickRowAt ==
    ASSUME TypeInv, NEW s \in Schedulers, NEW kind, NEW status, NEW code
    PROVE  /\ NewRow(s, kind, status, code).at <= clock
           /\ kind # "run" => NewRow(s, kind, status, code).at = tick[s].now
<1>1. tick[s].now <= clock /\ clock \in Nat
  BY ConstantsAssumption DEF TypeInv, TickType, TickOK, RestType
<1> QED BY <1>1 DEF NewRow

LEMMA QuietRow ==
    ASSUME TypeInv, TypeInv', PolicyInv, NEW row \in RunRow, runs' = Append(runs, row),
           row.at <= clock, row.kind \in {"failure", "missed"} => row.status = "failed",
           ~SetupFailure(row), row.code \notin FireCode, CalmStep, clock' = clock
    PROVE  PolicyInv'
BY RowAdded, CalmPolicy DEF PolicyInv

LEMMA WritePolicy ==
    ASSUME TypeInv, TypeInv', PolicyInv, NEW s \in Schedulers,
           NoteMissed(s) \/ RecordRowError(s) \/ CreateRun(s) \/ CreateRaises(s)
    PROVE  PolicyInv'
<1>1. /\ tick[s].pc \in {"late", "row_error", "creating"} /\ UNCHANGED <<worker, world>>
      /\ (faults' = faults \/ Fault) /\ tick[s].todo # <<>>
  BY AtRow DEF NoteMissed, RecordRowError, CreateRun, CreateRaises, At
<1>2. (faults' = 0 => faults = 0) /\ FlagsStay
  BY <1>1, FaultCounts, FlagsSame
<1>3. CASE NoteMissed(s)
  <2>1. TicksStay
    BY <1>1, <1>3, TickMoves, OneTick DEF NoteMissed, Deciding
  <2> DEFINE row == NewRow(s, "missed", "failed", "scheduler_missed")
  <2>2. row \in RunRow /\ row.kind = "missed" /\ row.status = "failed" /\ row.code = "scheduler_missed"
    BY <1>1, NewRowType DEF Kind, Code
  <2>3. row.at <= clock
    BY TickRowAt
  <2>4. runs' = Append(runs, row)
    BY <1>3 DEF NoteMissed
  <2> HIDE DEF row
  <2> QED BY <1>1, <1>2, <2>1, <2>2, <2>3, <2>4, QuietRow DEF CalmStep, world, SetupFailure, FireCode
<1>4. CASE RecordRowError(s)
  <2>1. TicksStay
    BY <1>1, <1>4, TickMoves, OneTick DEF RecordRowError, Deciding
  <2> DEFINE row == NewRow(s, "failure", "failed", "scheduler_row_error")
  <2>2. row \in RunRow /\ row.kind = "failure" /\ row.status = "failed" /\ row.code = "scheduler_row_error"
    BY <1>1, NewRowType DEF Kind, Code
  <2>3. row.at <= clock
    BY TickRowAt
  <2>4. runs' = Append(runs, row)
    BY <1>4 DEF RecordRowError
  <2> HIDE DEF row
  <2> QED BY <1>1, <1>2, <2>1, <2>2, <2>3, <2>4, QuietRow
          DEF CalmStep, world, SetupFailure, SetupCode, Foreseen, FireCode
<1>5. CASE (CreateRun(s) \/ CreateRaises(s)) /\ runs' = runs
  <2>1. TicksStay
    <3>1. \/ Goto(s, "marking") \/ Blame(s, "recording", "spend_cap_exceeded")
          \/ Blame(s, "recording", "schedule_fire_failed")
      BY <1>5 DEF CreateRun, CreateRaises
    <3> QED BY <1>1, <3>1, TickMoves, OneTick DEF Deciding, FireCode
  <2> QED BY <1>1, <1>2, <1>5, <2>1, RowsSame, CalmPolicy DEF CalmStep, PolicyInv, world
<1>6. CASE CreateRun(s) /\ runs' = Append(runs, NewRow(s, "run", "queued", "none"))
           /\ Goto(s, "marking")
  <2>1. TicksStay
    BY <1>1, <1>6, TickMoves, OneTick DEF Deciding
  <2> DEFINE row == NewRow(s, "run", "queued", "none")
  <2>2. row \in RunRow /\ row.kind = "run" /\ row.status = "queued" /\ row.code = "none"
    BY <1>1, NewRowType DEF Kind, Code
  <2>3. row.at <= clock
    BY TickRowAt
  <2>4. runs' = Append(runs, row)
    BY <1>6
  <2> HIDE DEF row
  <2> QED BY <1>1, <1>2, <2>1, <2>2, <2>3, <2>4, QuietRow
          DEF CalmStep, world, SetupFailure, FireCode
<1> QED BY <1>3, <1>4, <1>5, <1>6 DEF CreateRun, CreateRaises

\* A fire that fails for a lack is one the policy has to look at.
LEMMA FailSetupPolicy ==
    ASSUME TypeInv, TypeInv', PolicyInv, NEW s \in Schedulers, CheckSetup(s)
    PROVE  PolicyInv'
<1>1. /\ At(s, "guard") /\ UNCHANGED <<worker, faults, world>> /\ tick[s].todo # <<>>
      /\ Cur(s).worker \in Workers /\ FlagsStay
  BY AtRow, CurType, FlagsSame DEF CheckSetup
<1> DEFINE lack == setup[Cur(s).worker]
           row == NewRow(s, "failure", "failed", lack)
           k == Len(runs) + 1
<1>2. CASE lack \notin Foreseen
  <2>1. Goto(s, "creating") /\ runs' = runs
    BY <1>2 DEF CheckSetup
  <2>2. OnlyTick(s) /\ tick'[s].pc \notin Deciding
    BY <2>1, TickMoves DEF Deciding
  <2> QED BY <1>1, <2>1, <2>2, QuietTick DEF At
<1>3. CASE lack \in Foreseen
  <2>1. Blame(s, "pausing", lack) /\ runs' = Append(runs, row) /\ lack \in SetupCode
    BY <1>1, <1>3 DEF CheckSetup, SetupCode
  <2>2. OnlyTick(s) /\ tick'[s].pc = "pausing" /\ tick'[s].code = lack /\ Cur(s)' = Cur(s)
    BY <2>1, TickMoves
  <2>3. /\ row \in RunRow /\ row.kind = "failure" /\ row.status = "failed" /\ row.code = lack
        /\ row.worker = Cur(s).worker /\ row.at <= clock
    BY <1>1, <2>1, NewRowType, TickRowAt DEF Kind, Code
  <2> HIDE DEF row, lack
  <2>4. /\ RowsInv' /\ RowsKept /\ DOMAIN runs' = DOMAIN runs \cup {k}
        /\ \A i \in DOMAIN runs : runs'[i] = runs[i]
        /\ runs'[k] = row /\ NoFire
    BY <1>1, <2>1, <2>3, RowAdded DEF PolicyInv, world, FireCode, SetupCode, Foreseen
  <2>5. \A s2 \in Schedulers : s2 = s \/ SameTick(s2)
    BY <2>2 DEF OnlyTick, SameTick, Cur
  <2>6. CodesInv'
    BY <2>1, <2>2, <2>5 DEF CodesInv, PolicyInv, SameTick, At
  <2>7. PauseInv'
    <3>1. \A w \in Workers : Decided(w)' => Decided(w)
      BY <2>2, <2>5 DEF Decided, SameTick, At
    <3> QED BY <1>1, <2>4, <3>1, KeepsPauses DEF PolicyInv, PauseInv, FlagsStay, world
  <2>8. TimelyInv'
    <3> SUFFICES ASSUME NEW w \in Workers, NEW code \in SetupCode, Ripe(w, code)'
                 PROVE  Pending(w, code)'
      BY DEF TimelyInv
    <3>1. CASE k \in Recent(w)'
      <4>1. w = Cur(s).worker /\ code = lack
        BY <2>3, <2>4, <3>1, RipeRows
      <4> QED BY <2>2, <4>1 DEF Pending, At
    <3>2. CASE k \notin Recent(w)'
      <4>1. \A i \in Recent(w)' : i \in DOMAIN runs /\ runs'[i] = runs[i]
        BY <2>4, <3>2, RipeRows
      <4>2. \A s2 \in Schedulers : tick[s2].pc \in {"pausing", "persisting"} => SameTick(s2)
        BY <1>1, <2>5 DEF At
      <4> QED BY <1>1, <2>4, <4>1, <4>2, KeepsPending DEF FlagsStay, PolicyInv, world
    <3> QED BY <3>1, <3>2
  <2>9. WriteInv' /\ EpisodeIsCoalesced'
    BY <2>2, <2>4, <2>5, KeepsEpisodes DEF PolicyInv, At
  <2> QED BY <2>4, <2>6, <2>7, <2>8, <2>9 DEF PolicyInv
<1> QED BY <1>2, <1>3

\* The policy decides to pause a worker when that is due, and only then.
LEMMA DecidePolicy ==
    ASSUME TypeInv, TypeInv', PolicyInv, NEW s \in Schedulers, ConsiderPause(s)
    PROVE  PolicyInv'
<1> DEFINE v == Cur(s).worker
           code == tick[s].code
           pauses == PolicyPauses(v, code, runs)
<1>1. /\ At(s, "pausing") /\ UNCHANGED <<worker, runs, faults, world>> /\ v \in Workers
      /\ Goto(s, IF pauses THEN "persisting" ELSE "advancing")
      /\ code \in SetupCode
  BY AtRow, CurType DEF ConsiderPause, PolicyInv, CodesInv
<1>2. /\ OnlyTick(s) /\ tick'[s].pc = (IF pauses THEN "persisting" ELSE "advancing")
      /\ Cur(s)' = Cur(s)
  BY <1>1, TickMoves
<1>3. RowsInv' /\ RowsKept /\ NoFire /\ NoFailure
  BY <1>1, RowsSame DEF PolicyInv, world
<1>4. \A s2 \in Schedulers : s2 = s \/ SameTick(s2)
  BY <1>2 DEF OnlyTick, SameTick, Cur
<1>5. CodesInv'
  BY <1>2, <1>4 DEF CodesInv, PolicyInv, SameTick, At
<1>6. PauseInv'
  <2> SUFFICES ASSUME NEW w \in Workers, w \notin overtaken, worker[w].paused \/ Decided(w)'
               PROVE  EarnedOnce(w)'
    BY <1>1 DEF PauseInv, PolicyInv, world
  <2>1. CASE worker[w].paused \/ Decided(w)
    <3>1. EarnedOnce(w)
      BY <2>1 DEF PolicyInv, PauseInv
    <3> QED BY <1>1, <1>3, <3>1, EarnedStays
  <2>2. CASE Decided(w)' /\ ~Decided(w)
    <3>1. pauses /\ w = v
      BY <1>2, <1>4, <2>2 DEF Decided, SameTick, At
    <3>2. Earned(runs, Recent(w), Threshold, code) /\ Threshold > 0
      BY <3>1, PolicyFinds, RowType DEF Recent, PolicyPauses
    <3>3. Recent(w)' = Recent(w)
      BY <1>1 DEF Recent, Attempts
    <3> QED BY <1>1, <3>2, <3>3, EarnedNow
  <2> QED BY <2>1, <2>2
<1>7. TimelyInv'
  <2> SUFFICES ASSUME NEW w \in Workers, NEW c \in SetupCode, Ripe(w, c)'
               PROVE  Pending(w, c)'
    BY DEF TimelyInv
  <2>1. \A i \in Recent(w)' : i \in DOMAIN runs /\ runs'[i] = runs[i]
    BY <1>1, RipeRows
  <2>2. /\ Ripe(w, c)
        /\ \E s2 \in Schedulers :
              /\ Cur(s2).worker = w
              /\ At(s2, "persisting") \/ (At(s2, "pausing") /\ tick[s2].code = c)
    BY <1>1, <1>3, <2>1, KeepsPending DEF PolicyInv, world
  <2>3. PICK s2 \in Schedulers :
              /\ Cur(s2).worker = w
              /\ At(s2, "persisting") \/ (At(s2, "pausing") /\ tick[s2].code = c)
    BY <2>2
  <2>4. CASE s2 # s
    BY <1>4, <2>3, <2>4 DEF Pending, SameTick, At
  <2>5. CASE s2 = s
    <3>1. w = v /\ c = code
      BY <1>1, <2>3, <2>5 DEF At
    <3>2. /\ Threshold > 0 /\ worker[w].enabled /\ ~worker[w].paused
          /\ Earned(runs, Recent(w), Threshold, c)
      BY <2>2 DEF Ripe, PolicyInv, PauseInv
    <3>3. \A i \in Recent(w) :
             Cardinality({j \in RowsOf(w, runs) : runs[j].kind = "missed" /\ Newer(runs, j, i)}) <= Threshold
      <4> SUFFICES ASSUME NEW i \in Recent(w)
                   PROVE  {j \in RowsOf(w, runs) : runs[j].kind = "missed" /\ Newer(runs, j, i)}
                          = {j \in Markers \cap RowsOf(w, runs) : Newer(runs, j, i)}
        BY <2>2 DEF Ripe, FewMarkers
      <4> QED BY DEF Markers, RowsOf
    <3>4. PolicyPauses(w, c, runs)
      BY <3>2, <3>3, PolicyFinds, RowType DEF Recent
    <3> QED BY <1>2, <3>1, <3>4 DEF Pending, At
  <2> QED BY <2>4, <2>5
<1>8. WriteInv' /\ EpisodeIsCoalesced'
  BY <1>2, <1>3, <1>4, KeepsEpisodes DEF PolicyInv, At
<1> QED BY <1>3, <1>5, <1>6, <1>7, <1>8 DEF PolicyInv

LEMMA PersistPolicy ==
    ASSUME TypeInv, TypeInv', PolicyInv, NEW s \in Schedulers, PersistPause(s)
    PROVE  PolicyInv'
<1> DEFINE v == Cur(s).worker
<1>1. /\ At(s, "persisting") /\ UNCHANGED <<runs, faults, world>> /\ v \in Workers
      /\ Goto(s, "advancing")
      /\ worker' = [worker EXCEPT ![v].enabled = FALSE, ![v].paused = TRUE]
  BY AtRow, CurType DEF PersistPause
<1>2. OnlyTick(s) /\ tick'[s].pc = "advancing"
  BY <1>1, TickMoves
<1>3. RowsInv' /\ RowsKept /\ NoFire
  BY <1>1, RowsSame DEF PolicyInv, world
<1>4. \A s2 \in Schedulers : s2 = s \/ SameTick(s2)
  BY <1>2 DEF OnlyTick, SameTick, Cur
<1>5. /\ worker'[v].paused /\ ~worker'[v].enabled /\ worker'[v].resumed = worker[v].resumed
      /\ \A w \in Workers : w # v => worker'[w] = worker[w]
  BY <1>1 DEF TypeInv, TableType, WorkerRow
<1>6. CodesInv'
  BY <1>2, <1>4 DEF CodesInv, PolicyInv, SameTick, At
<1>7. PauseInv'
  <2>1. \A w \in Workers : Decided(w)' => Decided(w)
    BY <1>2, <1>4 DEF Decided, SameTick, At
  <2>2. Decided(v)
    BY <1>1 DEF Decided
  <2> QED BY <1>1, <1>3, <1>5, <2>1, <2>2, KeepsPauses DEF PolicyInv, PauseInv, world
<1>8. TimelyInv'
  <2> SUFFICES ASSUME NEW w \in Workers, NEW c \in SetupCode, Ripe(w, c)'
               PROVE  Pending(w, c)'
    BY DEF TimelyInv
  <2>1. w # v
    BY <1>5 DEF Ripe
  <2>2. \A i \in Recent(w)' : i \in DOMAIN runs /\ runs'[i] = runs[i]
    BY <1>1, RipeRows
  <2>3. \E s2 \in Schedulers :
           /\ Cur(s2).worker = w
           /\ At(s2, "persisting") \/ (At(s2, "pausing") /\ tick[s2].code = c)
    BY <1>1, <1>3, <1>5, <2>1, <2>2, KeepsPending DEF PolicyInv, world
  <2> QED BY <1>4, <2>1, <2>3 DEF Pending, SameTick, At
<1>9. WriteInv' /\ EpisodeIsCoalesced'
  BY <1>2, <1>3, <1>4, KeepsEpisodes DEF PolicyInv, At
<1> QED BY <1>3, <1>6, <1>7, <1>8, <1>9 DEF PolicyInv

\* A failure of a fire is recorded when the newest row is not that very failure.
LEMMA EpisodePolicy ==
    ASSUME TypeInv, TypeInv', PolicyInv, NEW s \in Schedulers, ConsiderEpisode(s)
    PROVE  PolicyInv'
<1>1. /\ At(s, "recording") /\ UNCHANGED <<worker, runs, faults, world>> /\ FlagsStay
      /\ Goto(s, IF EpisodeOpen(s) THEN "advancing" ELSE "writing")
      /\ tick[s].code \in FireCode
  BY FlagsSame DEF ConsiderEpisode, PolicyInv, CodesInv, At
<1>2. /\ OnlyTick(s) /\ tick'[s].pc = (IF EpisodeOpen(s) THEN "advancing" ELSE "writing")
      /\ tick'[s].code = tick[s].code /\ tick'[s].now = tick[s].now /\ Cur(s)' = Cur(s)
  BY <1>1, TickMoves
<1>3. CASE EpisodeOpen(s)
  BY <1>1, <1>2, <1>3, QuietTick DEF Deciding, At
<1>4. CASE ~EpisodeOpen(s)
  <2>1. RowsInv' /\ RowsKept /\ NoFire
    BY <1>1, RowsSame DEF PolicyInv, world
  <2>2. \A s2 \in Schedulers : s2 = s \/ SameTick(s2)
    BY <1>2 DEF OnlyTick, SameTick, Cur
  <2>3. CodesInv'
    BY <1>1, <1>2, <1>4, <2>2 DEF CodesInv, PolicyInv, SameTick, At
  <2>4. PauseInv'
    <3>1. \A w \in Workers : Decided(w)' => Decided(w)
      BY <1>2, <1>4, <2>2 DEF Decided, SameTick, At
    <3> QED BY <1>1, <2>1, <3>1, KeepsPauses DEF PolicyInv, PauseInv, world
  <2>5. TimelyInv'
    <3> SUFFICES ASSUME NEW w \in Workers, NEW code \in SetupCode, Ripe(w, code)'
                 PROVE  Pending(w, code)'
      BY DEF TimelyInv
    <3>1. \A i \in Recent(w)' : i \in DOMAIN runs /\ runs'[i] = runs[i]
      BY <1>1, RipeRows
    <3>2. \A s2 \in Schedulers : tick[s2].pc \in {"pausing", "persisting"} => SameTick(s2)
      BY <1>1, <2>2 DEF At
    <3> QED BY <1>1, <2>1, <3>1, <3>2, KeepsPending DEF PolicyInv, world
  <2>6. WriteInv'
    <3> SUFFICES ASSUME OneProcess, NEW s2 \in Schedulers, At(s2, "writing")', NEW i \in DOMAIN runs',
                        LastRow(Cur(s2).worker, i)', runs'[i].kind = "failure",
                        runs'[i].code = tick'[s2].code, SameMonth(runs'[i].at, tick'[s2].now)
                 PROVE  FALSE
      BY DEF WriteInv
    <3> DEFINE w == Cur(s).worker
    <3>1. s2 = s
      BY DEF OneProcess
    <3>2. i \in RowsOf(w, runs) /\ \A j \in RowsOf(w, runs) : ~Newer(runs, j, i)
      BY <1>1, <1>2, <3>1 DEF LastRow, RowsOf
    <3>3. i \in Newest(runs, RowsOf(w, runs), 1)
      <4>1. {j \in RowsOf(w, runs) : Newer(runs, j, i)} = {}
        BY <3>2
      <4>2. Cardinality({j \in RowsOf(w, runs) : Newer(runs, j, i)}) = 0
        BY <4>1, FS_EmptySet
      <4> QED BY <3>2, <4>2 DEF Newest
    <3>4. /\ runs[i].kind = "failure" /\ runs[i].status = "failed" /\ runs[i].code = tick[s].code
          /\ SameMonth(runs[i].at, tick[s].now)
      BY <1>1, <1>2, <3>1 DEF PolicyInv, RowsInv
    <3> QED BY <1>4, <3>3, <3>4 DEF EpisodeOpen, NewestOf
  <2>7. EpisodeIsCoalesced'
    BY <1>1, RowBeforeStays, <2>1 DEF PolicyInv, EpisodeIsCoalesced, RowBefore
  <2> QED BY <2>1, <2>3, <2>4, <2>5, <2>6, <2>7 DEF PolicyInv
<1> QED BY <1>3, <1>4

LEMMA RecordPolicy ==
    ASSUME TypeInv, TypeInv', PolicyInv, NEW s \in Schedulers, RecordFireFailure(s)
    PROVE  PolicyInv'
<1> DEFINE row == NewRow(s, "failure", "failed", tick[s].code)
           w == Cur(s).worker
           k == Len(runs) + 1
<1>1. /\ At(s, "writing") /\ UNCHANGED <<worker, faults, world>> /\ FlagsStay
      /\ tick[s].todo # <<>>
      /\ Goto(s, "advancing") /\ runs' = Append(runs, row)
      /\ tick[s].code \in FireCode
  BY AtRow, FlagsSame DEF RecordFireFailure, PolicyInv, CodesInv, At
<1>2. OnlyTick(s) /\ tick'[s].pc = "advancing"
  BY <1>1, TickMoves
<1>3. /\ row \in RunRow /\ row.kind = "failure" /\ row.status = "failed" /\ row.code = tick[s].code
      /\ row.worker = w /\ row.at <= clock /\ row.at = tick[s].now
  BY <1>1, NewRowType, TickRowAt DEF Kind, Code
<1> HIDE DEF row
<1>4. ~SetupFailure(row)
  BY <1>1, <1>3 DEF SetupFailure, SetupCode, Foreseen, FireCode
<1>5. /\ RowsInv' /\ RowsKept /\ DOMAIN runs' = DOMAIN runs \cup {k} /\ k \notin DOMAIN runs
      /\ \A i \in DOMAIN runs : runs'[i] = runs[i]
      /\ runs'[k] = row /\ NoFailure
  BY <1>1, <1>3, <1>4, RowAdded DEF PolicyInv, world
<1>6. \A s2 \in Schedulers : s2 = s \/ SameTick(s2)
  BY <1>2 DEF OnlyTick, SameTick, Cur
<1>7. CodesInv'
  BY <1>2, <1>6 DEF CodesInv, PolicyInv, SameTick, At
<1>8. PauseInv'
  <2>1. \A v \in Workers : Decided(v)' => Decided(v)
    BY <1>2, <1>6 DEF Decided, SameTick, At
  <2> QED BY <1>1, <1>5, <2>1, KeepsPauses DEF PolicyInv, PauseInv, world
<1>9. TimelyInv'
  <2> SUFFICES ASSUME NEW v \in Workers, NEW code \in SetupCode, Ripe(v, code)'
               PROVE  Pending(v, code)'
    BY DEF TimelyInv
  <2>1. \A i \in Recent(v)' : i \in DOMAIN runs /\ runs'[i] = runs[i]
    BY <1>5, RipeRows DEF NoFailure
  <2>2. \A s2 \in Schedulers : tick[s2].pc \in {"pausing", "persisting"} => SameTick(s2)
    BY <1>1, <1>6 DEF At
  <2> QED BY <1>1, <1>5, <2>1, <2>2, KeepsPending DEF PolicyInv, world
<1>10. WriteInv'
  BY <1>2 DEF WriteInv, OneProcess, At
<1>11. EpisodeIsCoalesced'
  <2> SUFFICES ASSUME OneProcess, NEW i \in DOMAIN runs', NEW j \in DOMAIN runs', RowBefore(i, j)',
                      runs'[i].kind = "failure", runs'[i].code \in FireCode,
                      SameMonth(runs'[i].at, runs'[j].at), runs'[j].code = runs'[i].code
               PROVE  FALSE
    BY DEF EpisodeIsCoalesced, OneProcess
  <2>1. i < j /\ i \in DOMAIN runs
    <3>1. i \in RowsOf(runs'[j].worker, runs') /\ i < j
      BY DEF RowBefore
    <3>2. DOMAIN runs = 1 .. Len(runs) /\ Len(runs) \in Nat
      BY RowType
    <3> QED BY <1>5, <3>1, <3>2
  <2>2. CASE j \in DOMAIN runs
    <3>1. RowBefore(i, j)
      BY <1>5, <2>1, <2>2, RowBeforeStays
    <3> QED BY <1>5, <2>1, <2>2, <3>1 DEF PolicyInv, EpisodeIsCoalesced, OneProcess
  <2>3. CASE j = k
    <3>1. LastRow(w, i)
      <4>1. /\ i \in RowsOf(w, runs')
            /\ \A m \in RowsOf(w, runs') : m < j => m <= i /\ ~Newer(runs', m, i)
        BY <1>3, <1>5, <2>3 DEF RowBefore
      <4>2. \A m \in RowsOf(w, runs) : m \in RowsOf(w, runs') /\ m < j
        <5>1. DOMAIN runs = 1 .. Len(runs) /\ Len(runs) \in Nat
          BY RowType
        <5> QED BY <1>5, <2>3, <5>1 DEF RowsOf
      <4>3. \A m \in RowsOf(w, runs) : Newer(runs, m, i) <=> Newer(runs', m, i)
        BY <1>5, <2>1 DEF Newer, RowsOf
      <4>4. i \in RowsOf(w, runs)
        BY <1>5, <2>1, <4>1 DEF RowsOf
      <4> QED BY <4>1, <4>2, <4>3, <4>4 DEF LastRow
    <3>2. /\ runs[i].kind = "failure" /\ runs[i].code = tick[s].code
          /\ SameMonth(runs[i].at, tick[s].now)
      BY <1>3, <1>5, <2>1, <2>3
    <3> QED BY <1>1, <2>1, <3>1, <3>2 DEF PolicyInv, WriteInv
  <2> QED BY <1>5, <2>2, <2>3
<1> QED BY <1>5, <1>7, <1>8, <1>9, <1>10, <1>11 DEF PolicyInv

LEMMA TicksSame ==
    ASSUME tick' = tick, faults' = faults
    PROVE  TicksStay /\ \A s \in Schedulers : SameTick(s)
BY DEF TicksStay, SameTick, Cur

\* Runs start and end.
LEMMA RunPolicy ==
    ASSUME TypeInv, TypeInv', PolicyInv, NEW i \in DOMAIN runs, StartRun(i) \/ EndRun(i)
    PROVE  PolicyInv'
<1>1. PICK status \in {"running", "completed"} : runs' = [runs EXCEPT ![i].status = status]
  BY DEF StartRun, EndRun
<1>2. /\ runs[i].status # "failed" /\ UNCHANGED <<worker, tick, faults, world>>
  BY DEF StartRun, EndRun, world
<1> DEFINE row == [runs[i] EXCEPT !.status = status]
<1>3. /\ runs' = [runs EXCEPT ![i] = row] /\ row.status # "failed"
      /\ row.worker = runs[i].worker /\ row.kind = runs[i].kind /\ row.at = runs[i].at
      /\ row.code = runs[i].code
  BY <1>1, RowType DEF RunRow
<1> HIDE DEF row
<1>4. RowsInv' /\ RowsKept /\ NoFire /\ NoFailure
  BY <1>2, <1>3, RowChanged DEF PolicyInv, world, SetupFailure
<1>5. CalmStep
  BY <1>2, TicksSame, FlagsSame DEF CalmStep, world
<1> QED BY <1>4, <1>5, CalmPolicy

\* A run that fails for a lack pauses its worker when that is due.
LEMMA FailRunPolicy ==
    ASSUME TypeInv, TypeInv', PolicyInv, NEW i \in DOMAIN runs, FailRunForLack(i)
    PROVE  PolicyInv'
<1> DEFINE v == runs[i].worker
           lack == setup[v]
           row == [runs[i] EXCEPT !.status = "failed", !.code = lack]
           pauses == runs[i].kind = "run" /\ PolicyPauses(v, lack, runs')
<1>1. /\ runs[i].status = "running" /\ lack \in {"missing_secret", "llm_model_not_configured"}
      /\ runs' = [runs EXCEPT ![i].status = "failed", ![i].code = lack]
      /\ worker' = IF pauses THEN [worker EXCEPT ![v].enabled = FALSE, ![v].paused = TRUE] ELSE worker
      /\ UNCHANGED <<tick, faults, world>>
  BY DEF FailRunForLack, world
<1>2. v \in Workers /\ runs[i] \in RunRow
  BY RowType DEF RunRow
<1>3. /\ runs' = [runs EXCEPT ![i] = row] /\ row.status = "failed" /\ row.code = lack
      /\ row.worker = v /\ row.kind = runs[i].kind /\ row.at = runs[i].at
  BY <1>1, <1>2 DEF RunRow
<1> HIDE DEF row
<1>4. /\ RowsInv' /\ RowsKept /\ NoFire
      /\ runs'[i] = row
      /\ \A j \in DOMAIN runs : j # i => runs'[j] = runs[j]
      /\ DOMAIN runs' = DOMAIN runs
  <2>1. row.code \in SetupCode /\ runs[i].status # "failed" /\ clock' = clock /\ RowsInv
    BY <1>1, <1>3 DEF PolicyInv, world, SetupCode, Foreseen
  <2> QED BY <1>3, <2>1, RowChanged
<1>5. /\ pauses => worker'[v].paused /\ ~worker'[v].enabled
      /\ \A w \in Workers : worker'[w].resumed = worker[w].resumed
      /\ \A w \in Workers : w # v \/ ~pauses => worker'[w] = worker[w]
  BY <1>1, <1>2 DEF TypeInv, TableType, WorkerRow
<1>6. \A s \in Schedulers : SameTick(s)
  BY <1>1, TicksSame
<1>7. CodesInv'
  BY <1>6 DEF CodesInv, PolicyInv, SameTick, At
<1>8. runs' \in Seq(RunRow) /\ lack \in SetupCode
  BY <1>1 DEF TypeInv, TableType, SetupCode, Foreseen
<1>9. \A w \in Workers : Recent(w)' = Newest(runs', Attempts(w, runs', RowsOf(w, runs')), Threshold)
  BY <1>5 DEF Recent, Attempts
<1>10. PauseInv'
  <2>1. \A w \in Workers : worker'[w].paused => ~worker'[w].enabled
    BY <1>5 DEF PolicyInv, PauseInv
  <2> SUFFICES ASSUME NEW w \in Workers, w \notin overtaken, worker'[w].paused \/ Decided(w)'
               PROVE  EarnedOnce(w)'
    BY <1>1, <2>1 DEF PauseInv, world
  <2>2. CASE worker[w].paused \/ Decided(w)
    <3>1. EarnedOnce(w)
      BY <2>2 DEF PolicyInv, PauseInv
    <3> QED BY <1>4, <1>5, <3>1, EarnedStays
  <2>3. CASE ~(worker[w].paused \/ Decided(w))
    <3>1. w = v /\ pauses
      BY <1>5, <1>6, <2>3 DEF Decided, SameTick, At
    <3>2. Threshold > 0 /\ Earned(runs', Recent(w)', Threshold, lack)
      BY <1>8, <1>9, <3>1, PolicyFinds DEF PolicyPauses
    <3> HIDE DEF lack
    <3> QED BY <1>8, <3>2, EarnedNow
  <2> QED BY <2>2, <2>3
<1>11. TimelyInv'
  <2> SUFFICES ASSUME NEW w \in Workers, NEW c \in SetupCode, Ripe(w, c)'
               PROVE  Pending(w, c)'
    BY DEF TimelyInv
  <2>1. worker'[w] = worker[w]
    BY <1>5 DEF Ripe
  <2>2. CASE i \notin Recent(w)'
    <3>1. \A j \in Recent(w)' : j \in DOMAIN runs /\ runs'[j] = runs[j]
      BY <1>4, <2>2, RipeRows
    <3> QED BY <1>1, <1>4, <1>6, <2>1, <3>1, KeepsPending DEF PolicyInv, world
  <2>3. CASE i \in Recent(w)'
    <3>1. w = v /\ c = lack /\ row.kind \in {"run", "failure"}
      BY <1>3, <1>4, <2>3, RipeRows DEF SetupFailure
    <3>2. runs[i].kind = "run"
      BY <1>1, <1>3, <3>1 DEF PolicyInv, RowsInv
    <3>3. /\ Threshold > 0 /\ worker[w].enabled /\ ~worker[w].paused
          /\ Earned(runs', Recent(w)', Threshold, c)
      BY <2>1 DEF Ripe, PolicyInv, PauseInv
    <3>4. \A j \in Recent(w)' :
             Cardinality({m \in RowsOf(w, runs') : runs'[m].kind = "missed" /\ Newer(runs', m, j)}) <= Threshold
      <4> SUFFICES ASSUME NEW j \in Recent(w)'
                   PROVE  {m \in RowsOf(w, runs') : runs'[m].kind = "missed" /\ Newer(runs', m, j)}
                          = {m \in Markers \cap RowsOf(w, runs) : Newer(runs, m, j)}'
        BY DEF Ripe, FewMarkers
      <4> QED BY DEF Markers, RowsOf
    <3>5. PolicyPauses(w, c, runs')
      BY <1>8, <1>9, <3>3, <3>4, PolicyFinds
    <3> QED BY <1>5, <3>1, <3>2, <3>5, <3>3 DEF Ripe
  <2> QED BY <2>2, <2>3
<1>12. WriteInv' /\ EpisodeIsCoalesced'
  BY <1>4, <1>6, KeepsEpisodes DEF PolicyInv
<1> QED BY <1>4, <1>7, <1>10, <1>11, <1>12 DEF PolicyInv

-----------------------------------------------------------------------------
(* What users do, and the theorems *)

LEMMA PassTimePolicy ==
    ASSUME TypeInv, TypeInv', PolicyInv, PassTime
    PROVE  PolicyInv'
<1>1. UNCHANGED <<worker, runs, tick, faults, overtaken>> /\ clock' = clock + 1 /\ clock \in Nat
  BY ConstantsAssumption DEF PassTime, TypeInv, RestType
<1>2. RowsInv'
  BY <1>1, RowType DEF PolicyInv, RowsInv
<1>3. RowsKept /\ NoFire /\ NoFailure
  BY <1>1 DEF RowsKept, NoFire, NoFailure
<1>4. CalmStep
  BY <1>1, TicksSame, FlagsSame DEF CalmStep
<1> QED BY <1>2, <1>3, <1>4, CalmPolicy

LEMMA RunByHandPolicy ==
    ASSUME TypeInv, TypeInv', PolicyInv, NEW w \in Workers, RunByHand(w)
    PROVE  PolicyInv'
<1> DEFINE row == [worker |-> w, trigger |-> Nobody, kind |-> "manual", status |-> "queued",
                   code |-> "none", at |-> clock, slot |-> Never]
<1>1. /\ runs' = Append(runs, row) /\ UNCHANGED <<worker, tick, faults, clock, overtaken>>
  BY DEF RunByHand
<1>2. clock \in Nat
  BY ConstantsAssumption DEF TypeInv, RestType
<1>3. row \in RunRow /\ row.kind = "manual" /\ row.at <= clock /\ row.code = "none"
  BY <1>2 DEF RunRow, Kind, Code, Time
<1> HIDE DEF row
<1>4. CalmStep
  BY <1>1, TicksSame, FlagsSame DEF CalmStep
<1>5. ~SetupFailure(row) /\ row.code \notin FireCode /\ row.kind \notin {"failure", "missed"}
  BY <1>3 DEF SetupFailure, FireCode
<1> QED BY <1>1, <1>3, <1>4, <1>5, QuietRow

\* A worker that a user pauses or resumes.
LEMMA SwitchPolicy ==
    ASSUME TypeInv, TypeInv', PolicyInv, NEW v \in Workers, PauseWorker(v) \/ ResumeWorker(v)
    PROVE  PolicyInv'
<1>1. UNCHANGED <<runs, clock, tick, faults>>
  BY DEF PauseWorker, ResumeWorker
<1>2. RowsInv' /\ RowsKept /\ NoFire
  BY <1>1, RowsSame DEF PolicyInv
<1>3. \A s \in Schedulers : SameTick(s)
  BY <1>1, TicksSame
<1>4. CodesInv'
  BY <1>3 DEF CodesInv, PolicyInv, SameTick, At
<1>5. WriteInv' /\ EpisodeIsCoalesced'
  BY <1>2, <1>3, KeepsEpisodes DEF PolicyInv
<1>6. \A w \in Workers : w # v => worker'[w] = worker[w]
  BY DEF PauseWorker, ResumeWorker, TypeInv, TableType
<1>7. CASE PauseWorker(v)
  <2>1. /\ ~worker'[v].enabled /\ worker'[v].paused = worker[v].paused
        /\ worker'[v].resumed = worker[v].resumed /\ overtaken' = overtaken
    BY <1>7 DEF PauseWorker, TypeInv, TableType, WorkerRow
  <2>2. PauseInv'
    <3>1. \A w \in Workers : Decided(w)' => Decided(w)
      BY <1>3 DEF Decided, SameTick, At
    <3> QED BY <1>2, <1>6, <2>1, <3>1, KeepsPauses DEF PolicyInv, PauseInv
  <2>3. TimelyInv'
    <3> SUFFICES ASSUME NEW w \in Workers, NEW code \in SetupCode, Ripe(w, code)'
                 PROVE  Pending(w, code)'
      BY DEF TimelyInv
    <3>1. w # v
      BY <2>1 DEF Ripe
    <3>2. \A i \in Recent(w)' : i \in DOMAIN runs /\ runs'[i] = runs[i]
      BY <1>1, RipeRows
    <3> QED BY <1>1, <1>2, <1>3, <1>6, <2>1, <3>1, <3>2, KeepsPending DEF PolicyInv
  <2> QED BY <1>2, <1>4, <1>5, <2>2, <2>3 DEF PolicyInv
<1>8. CASE ResumeWorker(v)
  <2>1. /\ worker'[v].enabled /\ ~worker'[v].paused
        /\ worker'[v].resumed = (IF worker[v].paused THEN clock ELSE worker[v].resumed)
        /\ overtaken' = (IF ~worker[v].paused \/ Decided(v) THEN overtaken \cup {v} ELSE overtaken)
    BY <1>8 DEF ResumeWorker, Decided, TypeInv, TableType, WorkerRow
  <2>2. PauseInv'
    <3>1. \A w \in Workers : Decided(w)' => Decided(w)
      BY <1>3 DEF Decided, SameTick, At
    <3>2. v \notin overtaken' => ~Decided(v)
      BY <2>1
    <3>3. \A w \in Workers : w \notin overtaken' => w \notin overtaken
      BY <2>1
    <3>4. \A w \in Workers : w \notin overtaken' /\ (worker'[w].paused \/ Decided(w)') => w # v
      BY <2>1, <3>1, <3>2
    <3> QED BY <1>2, <1>6, <2>1, <3>1, <3>3, <3>4, KeepsPauses DEF PolicyInv, PauseInv
  <2>3. TimelyInv'
    <3> SUFFICES ASSUME NEW w \in Workers, NEW code \in SetupCode, Ripe(w, code)'
                 PROVE  Pending(w, code)'
      BY DEF TimelyInv
    <3>1. \A i \in Recent(w)' : i \in DOMAIN runs /\ runs'[i] = runs[i]
      BY <1>1, RipeRows
    <3>2. CASE w # v
      <4>1. w \notin overtaken' => w \notin overtaken
        BY <2>1
      <4> QED BY <1>1, <1>2, <1>3, <1>6, <3>1, <3>2, <4>1, KeepsPending DEF PolicyInv
    <3>3. CASE w = v
      <4>1. worker'[v].resumed = clock
        BY <2>1, <3>3 DEF Ripe
      <4>2. Recent(v)' = {}
        <5>1. \A i \in DOMAIN runs' : ~(runs'[i].at > worker'[v].resumed)
          BY <1>1, <4>1, RowType, ConstantsAssumption DEF PolicyInv, RowsInv, TypeInv, RestType
        <5> QED BY <5>1 DEF Recent, Newest, Attempts, RowsOf
      <4>3. Cardinality(Recent(v)') = Threshold /\ Threshold > 0
        BY <3>3 DEF Ripe, Earned
      <4> QED BY <4>2, <4>3, FS_EmptySet
    <3> QED BY <3>2, <3>3
  <2> QED BY <1>2, <1>4, <1>5, <2>2, <2>3 DEF PolicyInv
<1> QED BY <1>7, <1>8

LEMMA SettingPolicy ==
    ASSUME TypeInv, TypeInv', PolicyInv,
           \/ ChangeCap
           \/ \E w \in Workers : ChangeSetup(w) \/ \E period \in Periods : EditSchedule(w, period)
           \/ UNCHANGED vars
    PROVE  PolicyInv'
<1>1. UNCHANGED <<runs, clock, tick, faults, overtaken>>
  BY DEF ChangeCap, ChangeSetup, EditSchedule, vars
<1>2. RowsInv' /\ RowsKept /\ NoFire /\ NoFailure
  BY <1>1, RowsSame DEF PolicyInv
<1>3. FlagsStay
  <2>1. CASE worker' = worker
    BY <2>1, FlagsSame
  <2>2. ASSUME NEW w \in Workers, NEW period \in Periods, EditSchedule(w, period) PROVE FlagsStay
    BY <2>2 DEF EditSchedule, FlagsStay, TypeInv, TableType, WorkerRow
  <2> QED BY <2>1, <2>2 DEF ChangeCap, ChangeSetup, vars
<1>4. CalmStep
  BY <1>1, <1>3, TicksSame DEF CalmStep
<1> QED BY <1>2, <1>4, CalmPolicy

LEMMA StepPolicy ==
    ASSUME TypeInv, TypeInv', PolicyInv, [Next]_vars
    PROVE  PolicyInv'
<1>1. ASSUME NEW s \in Schedulers, TickStep(s) PROVE PolicyInv'
  BY <1>1, ListPolicy, LeavePolicy, GoOnPolicy, WritePolicy, FailSetupPolicy, DecidePolicy,
     PersistPolicy, EpisodePolicy, RecordPolicy DEF TickStep
<1>2. ASSUME NEW s \in Schedulers, FaultStep(s) PROVE PolicyInv'
  BY <1>2, ListPolicy, LeavePolicy, GoOnPolicy, WritePolicy DEF FaultStep
<1>3. CASE UserStep
  BY <1>3, RunByHandPolicy, SwitchPolicy, SettingPolicy DEF UserStep
<1>4. ASSUME NEW i \in DOMAIN runs, StartRun(i) \/ EndRun(i) \/ FailRunForLack(i) PROVE PolicyInv'
  BY <1>4, RunPolicy, FailRunPolicy
<1> QED BY <1>1, <1>2, <1>3, <1>4, PassTimePolicy, SettingPolicy DEF Next

LEMMA InitPolicy == Init => PolicyInv
<1> SUFFICES ASSUME Init PROVE PolicyInv
  OBVIOUS
<1>1. DOMAIN runs = {} /\ \A s \in Schedulers : tick[s].pc = "idle"
  BY DEF Init, Idle
<1>2. \A w \in Workers : ~worker[w].paused
  BY DEF Init
<1>3. RowsInv /\ CodesInv /\ PauseInv /\ WriteInv /\ EpisodeIsCoalesced
  BY <1>1, <1>2 DEF RowsInv, CodesInv, PauseInv, Decided, WriteInv, EpisodeIsCoalesced, At
<1>4. TimelyInv
  <2> SUFFICES ASSUME NEW w \in Workers, NEW code \in SetupCode, Ripe(w, code) PROVE FALSE
    BY DEF TimelyInv
  <2>1. Recent(w) = {}
    BY <1>1 DEF Recent, Newest, Attempts, RowsOf
  <2>2. Cardinality(Recent(w)) = Threshold /\ Threshold > 0
    BY DEF Ripe, Earned
  <2> QED BY <2>1, <2>2, FS_EmptySet
<1> QED BY <1>3, <1>4 DEF PolicyInv

LEMMA PolicyInvariance == Spec => []PolicyInv
<1>1. TypeInv /\ TypeInv' /\ PolicyInv /\ [Next]_vars => PolicyInv'
  BY StepPolicy
<1> QED BY <1>1, InitPolicy, Invariance, PTL DEF Spec

\* Whatever ticks, runs and users do, a worker that the policy has paused had as many scheduled
\* attempts in a row fail for the same lack, none of them from before it was resumed.
THEOREM PausesEarned == Spec => []PauseIsEarned
<1>1. PolicyInv => PauseIsEarned
  BY DEF PolicyInv, PauseInv, EarnedOnce, PauseIsEarned
<1> QED BY <1>1, PolicyInvariance, PTL

\* While no call fails, a worker whose newest attempts have all failed for the same lack is paused,
\* or a tick is about to look at it, while there are no more markers of late fires than failures.
THEOREM PausesInTime == Spec => []PauseComesInTime
<1>1. PolicyInv => PauseComesInTime
  BY DEF PolicyInv, TimelyInv, Ripe, Pending, PauseComesInTime, At
<1> QED BY <1>1, PolicyInvariance, PTL

\* One scheduler never writes the same failure of a fire twice in a row in a month, also when calls
\* fail and it dies.
THEOREM EpisodesCoalesce == Spec => []EpisodeIsCoalesced
<1>1. PolicyInv => EpisodeIsCoalesced
  BY DEF PolicyInv
<1> QED BY <1>1, PolicyInvariance, PTL
=============================================================================
