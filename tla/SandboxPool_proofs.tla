-------------------------- MODULE SandboxPool_proofs --------------------------
(***************************************************************************)
(* The safety of the sandbox driver, for any number of runs, sandboxes,    *)
(* keys, attempts, cancel requests and faults: no sandbox is shared or     *)
(* lost, no command is left behind in a sandbox that is used again, no     *)
(* command starts twice, and a cancel request stops the command.           *)
(***************************************************************************)
EXTENDS SandboxPool, SequenceTheorems, TLAPS

-----------------------------------------------------------------------------
(* The inductive invariant *)

\* A thread uses a sandbox between creating and releasing it; one it means to keep has
\* a key to be kept under.
ShapeOf(r) ==
    /\ at[r] \in {"setup", "spawning", "done"} <=> holds[r] = NoSandbox
    /\ at[r] \in {"leaving", "returning", "pooling"} /\ exit[r] = "keep" => KeyOf[r] \in Keys
    /\ at[r] \in {"returning", "pooling"} => exit[r] = "keep"

\* Until the command is started, and where the attempt is to be repeated, it was not.
StartOf(r) ==
    /\ starts[r] <= 1
    /\ at[r] \in {"setup", "spawning", "registering", "preparing", "starting"} => starts[r] = 0
    /\ at[r] \in {"leaving", "killing"} /\ exit[r] = "retry" => starts[r] = 0

\* A cancel request finds the sandbox of a run that it did not keep from starting.
CancelOf(r) ==
    /\ cancel[r] = "none" <=> r \notin flagged
    /\ cancel[r] = "found" => target[r] \in Sandboxes
    /\ at[r] \in {"preparing", "starting", "running"} /\ cancel[r] # "over" =>
          registered[r] = holds[r]
    /\ at[r] \in {"starting", "running"} /\ cancel[r] = "found" => target[r] = holds[r]
    /\ at[r] \in {"starting", "running"} /\ cancel[r] = "over" =>
          state[holds[r]] = "down" \/ holds[r] \in escaped

\* A sandbox that is to be kept is idle.
KeptOf(r) ==
    /\ at[r] \in {"leaving", "returning", "pooling", "killing"}
    /\ exit[r] = "keep"
    /\ holds[r] \notin unended
    => commands[holds[r]] = {}

\* Nobody has a sandbox that was not created.
NewOf(s) == state[s] = "new" => s \notin Pooled /\ \A r \in Runs : holds[r] # s

\* Commands go on only in a sandbox that is up.
UpOf(s) == state[s] # "up" => commands[s] = {}

\* A command goes on only under the run that started it, but for sandboxes whose kill
\* failed, and for those kept without having seen its end.
OwnerOf(s) ==
    s \notin escaped \cup unended =>
        \A r \in commands[s] : holds[r] = s /\ at[r] \in {"running", "leaving", "killing"}

\* UsedByOne without what it says of the pool alone.
HoldersDiffer ==
    /\ \A q, r \in Runs : q # r /\ holds[q] # NoSandbox => holds[q] # holds[r]
    /\ \A r \in Runs : holds[r] \notin Pooled

ShapeInv == \A r \in Runs : ShapeOf(r)
StartInv == \A r \in Runs : StartOf(r)
CancelInv == \A r \in Runs : CancelOf(r)
KeptInv == \A r \in Runs : KeptOf(r)
NewInv == \A s \in Sandboxes : NewOf(s)
UpInv == \A s \in Sandboxes : UpOf(s)
OwnerInv == \A s \in Sandboxes : OwnerOf(s)

\* The inductive invariant.
PoolInv ==
    /\ TypeOK
    /\ ShapeInv
    /\ StartInv
    /\ NewInv
    /\ UsedByOne
    /\ NoSandboxLost
    /\ UpInv
    /\ KeptInv
    /\ NoCommandLeftBehind
    /\ OwnerInv
    /\ CancelInv


-----------------------------------------------------------------------------
(* The pool: what its operations do to the set of pooled sandboxes *)

EntriesIn(p, k) == {p[k][i] : i \in 1 .. Len(p[k])}
PooledIn(p) == UNION {EntriesIn(p, k) : k \in Keys}

PoolType(p) ==
    /\ DOMAIN p = Keys
    /\ \A k \in Keys : p[k] \in Seq(Sandboxes)

\* No sandbox is in the pool twice.
UniqueIn(p) ==
    \A k, l \in Keys : \A i \in 1 .. Len(p[k]), j \in 1 .. Len(p[l]) :
        p[k][i] = p[l][j] => k = l /\ i = j

LEMMA PooledMember ==
    ASSUME NEW p, NEW s
    PROVE  s \in PooledIn(p) <=> \E k \in Keys : \E i \in 1 .. Len(p[k]) : s = p[k][i]
<1> QED BY DEF PooledIn, EntriesIn

LEMMA PooledSubset ==
    ASSUME NEW p, NEW S, \A l \in Keys : \A i \in 1 .. Len(p[l]) : p[l][i] \in S
    PROVE  PooledIn(p) \subseteq S
<1> SUFFICES ASSUME NEW x \in PooledIn(p) PROVE x \in S
  OBVIOUS
<1>1. PICK l \in Keys : \E i \in 1 .. Len(p[l]) : x = p[l][i]
  BY PooledMember
<1> QED BY <1>1

LEMMA PooledEntry ==
    ASSUME NEW p, NEW l \in Keys, NEW i \in 1 .. Len(p[l])
    PROVE  p[l][i] \in PooledIn(p)
<1> QED BY PooledMember

\* q is p with the entries e for the key k.
Edited(p, q, k, e) ==
    /\ DOMAIN q = DOMAIN p
    /\ q[k] = e
    /\ \A l \in Keys : l # k => q[l] = p[l]

LEMMA ExceptEdits ==
    ASSUME NEW p, NEW k \in Keys, NEW e, DOMAIN p = Keys
    PROVE  Edited(p, [p EXCEPT ![k] = e], k, e)
<1> QED BY DEF Edited

\* The newest entry of a key is taken.
LEMMA PopPool ==
    ASSUME NEW p, NEW q, NEW k \in Keys, PoolType(p), UniqueIn(p), p[k] # <<>>,
           q = [p EXCEPT ![k] = SubSeq(@, 1, Len(@) - 1)]
    PROVE  /\ PoolType(q) /\ UniqueIn(q)
           /\ \A l \in Keys : Len(q[l]) <= Len(p[l])
           /\ p[k][Len(p[k])] \in Sandboxes \cap PooledIn(p)
           /\ PooledIn(q) = PooledIn(p) \ {p[k][Len(p[k])]}
<1> DEFINE n == Len(p[k])
           s == p[k][n]
<1>1. p[k] \in Seq(Sandboxes) /\ n \in Nat \ {0} /\ \A i \in 1 .. n : p[k][i] \in Sandboxes
  BY EmptySeq, ElementOfSeq DEF PoolType
<1>2. /\ SubSeq(p[k], 1, n - 1) \in Seq(Sandboxes)
      /\ Len(SubSeq(p[k], 1, n - 1)) = n - 1
      /\ \A i \in 1 .. n - 1 : SubSeq(p[k], 1, n - 1)[i] = p[k][i]
  <2>1. n - 1 \in Int /\ \A i \in 1 .. n - 1 : p[k][i] \in Sandboxes
    BY <1>1
  <2>2. /\ SubSeq(p[k], 1, n - 1) \in Seq(Sandboxes)
        /\ Len(SubSeq(p[k], 1, n - 1)) = IF 1 <= n - 1 THEN n - 1 - 1 + 1 ELSE 0
        /\ \A i \in 1 .. n - 1 - 1 + 1 : SubSeq(p[k], 1, n - 1)[i] = p[k][1 + i - 1]
    BY <2>1, SubSeqProperties
  <2> QED BY <1>1, <2>2
<1>3. /\ DOMAIN q = Keys
      /\ q[k] = SubSeq(p[k], 1, n - 1)
      /\ \A l \in Keys : l # k => q[l] = p[l]
  BY DEF PoolType
<1>4. /\ PoolType(q)
      /\ Len(q[k]) = n - 1
      /\ \A l \in Keys : Len(p[l]) \in Nat /\ Len(q[l]) \in Nat
  BY <1>1, <1>2, <1>3, LenProperties DEF PoolType
<1>5. \A l \in Keys : Len(q[l]) <= Len(p[l]) /\ \A i \in 1 .. Len(q[l]) : q[l][i] = p[l][i] /\ i \in 1 .. Len(p[l])
  <2> TAKE l \in Keys
  <2>1. CASE l = k
    BY <1>1, <1>2, <1>3, <1>4, <2>1
  <2>2. CASE l # k
    BY <1>3, <1>4, <2>2
  <2> QED BY <2>1, <2>2
<1>6. UniqueIn(q)
  BY <1>5 DEF UniqueIn
<1>7. s \in Sandboxes /\ s \in PooledIn(p)
  BY <1>1, PooledMember
<1>8. s \notin PooledIn(q)
  <2> SUFFICES ASSUME NEW l \in Keys, NEW i \in 1 .. Len(q[l]), s = q[l][i] PROVE FALSE
    BY ZenonT(60), PooledMember
  <2>1. i \in 1 .. Len(p[l]) /\ p[l][i] = p[k][n] /\ n \in 1 .. Len(p[k])
    BY <1>1, <1>5
  <2>2. l = k /\ i = n
    BY <2>1 DEF UniqueIn
  <2> QED BY <1>1, <1>4, <2>2
<1>9. PooledIn(q) \subseteq PooledIn(p)
  <2>1. \A l \in Keys : \A i \in 1 .. Len(q[l]) : q[l][i] \in PooledIn(p)
    BY <1>5, PooledEntry
  <2> QED BY <2>1, PooledSubset
<1>10. ASSUME NEW x \in PooledIn(p), x # s
       PROVE  x \in PooledIn(q)
  <2>1. PICK l \in Keys : \E i \in 1 .. Len(p[l]) : x = p[l][i]
    BY PooledMember
  <2>11. PICK i \in 1 .. Len(p[l]) : x = p[l][i]
    BY <2>1
  <2>2. CASE l = k
    <3>1. i \in 1 .. n - 1
      BY <1>1, <1>10, <2>11, <2>2
    <3>2. i \in 1 .. Len(q[k]) /\ q[k][i] = x
      BY <1>2, <1>3, <1>4, <2>11, <2>2, <3>1
    <3> QED BY <3>2, PooledMember
  <2>3. CASE l # k
    BY <1>3, <2>11, <2>3, PooledMember
  <2> QED BY <2>2, <2>3
<1> QED BY <1>4, <1>5, <1>6, <1>7, <1>8, <1>9, <1>10

\* A sandbox becomes the newest entry of a key.
LEMMA PushPool ==
    ASSUME NEW p, NEW q, NEW k \in Keys, NEW s \in Sandboxes, PoolType(p), UniqueIn(p),
           s \notin PooledIn(p), Edited(p, q, k, Append(p[k], s))
    PROVE  /\ PoolType(q) /\ UniqueIn(q)
           /\ Len(q[k]) = Len(p[k]) + 1
           /\ \A l \in Keys : l # k => q[l] = p[l]
           /\ PooledIn(q) = PooledIn(p) \cup {s}
<1> DEFINE n == Len(p[k])
<1>1. p[k] \in Seq(Sandboxes) /\ n \in Nat
  BY LenProperties DEF PoolType
<1>2. /\ Append(p[k], s) \in Seq(Sandboxes) /\ Len(Append(p[k], s)) = n + 1
      /\ \A i \in 1 .. n : Append(p[k], s)[i] = p[k][i]
      /\ Append(p[k], s)[n + 1] = s
  BY <1>1, AppendProperties
<1>3. /\ DOMAIN q = Keys
      /\ q[k] = Append(p[k], s)
      /\ \A l \in Keys : l # k => q[l] = p[l]
  BY DEF PoolType, Edited
<1>4. /\ PoolType(q)
      /\ Len(q[k]) = n + 1
      /\ q[k][n + 1] = s
      /\ \A l \in Keys : Len(p[l]) \in Nat /\ Len(q[l]) \in Nat
  BY <1>1, <1>2, <1>3, LenProperties DEF PoolType
<1>5. \A l \in Keys : \A i \in 1 .. Len(p[l]) : i \in 1 .. Len(q[l]) /\ q[l][i] = p[l][i]
  <2> TAKE l \in Keys
  <2>1. CASE l = k
    BY <1>1, <1>2, <1>3, <1>4, <2>1
  <2>2. CASE l # k
    BY <1>3, <1>4, <2>2
  <2> QED BY <2>1, <2>2
<1>6. \A l \in Keys : \A i \in 1 .. Len(q[l]) : i \in 1 .. Len(p[l]) \/ (l = k /\ i = n + 1)
  <2> TAKE l \in Keys
  <2>1. CASE l = k
    BY <1>1, <1>4, <2>1
  <2>2. CASE l # k
    BY <1>3, <1>4, <2>2
  <2> QED BY <2>1, <2>2
<1>7. \A l \in Keys : \A i \in 1 .. Len(p[l]) : p[l][i] # s
  BY PooledMember
<1>8. UniqueIn(q)
  <2> SUFFICES ASSUME NEW l \in Keys, NEW m \in Keys, NEW i \in 1 .. Len(q[l]), NEW j \in 1 .. Len(q[m]),
                      q[l][i] = q[m][j]
               PROVE  l = m /\ i = j
    BY DEF UniqueIn
  <2>1. CASE i \in 1 .. Len(p[l]) /\ j \in 1 .. Len(p[m])
    BY <1>5, <2>1 DEF UniqueIn
  <2>2. \A g \in Keys : \A x \in 1 .. Len(q[g]) :
            \/ x \in 1 .. Len(p[g]) /\ q[g][x] # s
            \/ x \notin 1 .. Len(p[g]) /\ g = k /\ x = n + 1 /\ q[g][x] = s
    <3> TAKE g \in Keys
    <3> TAKE x \in 1 .. Len(q[g])
    <3>1. CASE x \in 1 .. Len(p[g])
      BY <1>5, <1>7, <3>1
    <3>2. CASE x \notin 1 .. Len(p[g])
      BY <1>4, <1>6, <3>2
    <3> QED BY <3>1, <3>2
  <2> HIDE DEF n
  <2>3. CASE i \notin 1 .. Len(p[l])
    <3>1. l = k /\ i = n + 1 /\ q[l][i] = s
      BY <2>2, <2>3
    <3>2. m = k /\ j = n + 1
      BY <2>2, <3>1
    <3> QED BY <3>1, <3>2
  <2>4. CASE j \notin 1 .. Len(p[m])
    <3>1. m = k /\ j = n + 1 /\ q[m][j] = s
      BY <2>2, <2>4
    <3>2. l = k /\ i = n + 1
      BY <2>2, <3>1
    <3> QED BY <3>1, <3>2
  <2> QED BY <2>1, <2>3, <2>4
<1>9. PooledIn(q) \subseteq PooledIn(p) \cup {s}
  <2> SUFFICES ASSUME NEW l \in Keys, NEW i \in 1 .. Len(q[l]) PROVE q[l][i] \in PooledIn(p) \cup {s}
    BY PooledSubset
  <2>1. CASE i \in 1 .. Len(p[l])
    BY <1>5, <2>1, PooledEntry
  <2>2. CASE l = k /\ i = n + 1
    BY <1>4, <2>2
  <2> QED BY <1>6, <2>1, <2>2
<1>10. PooledIn(p) \subseteq PooledIn(q)
  <2> SUFFICES ASSUME NEW l \in Keys, NEW i \in 1 .. Len(p[l]) PROVE p[l][i] \in PooledIn(q)
    BY PooledSubset
  <2> QED BY <1>5, PooledEntry
<1>11. s \in PooledIn(q)
  <2>1. n + 1 \in 1 .. Len(q[k])
    BY <1>1, <1>4
  <2> QED BY <1>4, <2>1, PooledMember
<1> QED BY <1>3, <1>4, <1>8, <1>9, <1>10, <1>11

\* The oldest entry of a key is taken.
LEMMA ShiftPool ==
    ASSUME NEW p, NEW q, NEW k \in Keys, PoolType(p), UniqueIn(p), p[k] # <<>>,
           Edited(p, q, k, Tail(p[k]))
    PROVE  /\ PoolType(q) /\ UniqueIn(q)
           /\ Len(q[k]) = Len(p[k]) - 1
           /\ \A l \in Keys : l # k => q[l] = p[l]
           /\ Head(p[k]) \in Sandboxes
           /\ PooledIn(q) = PooledIn(p) \ {Head(p[k])}
<1> DEFINE n == Len(p[k])
           s == p[k][1]
           m(l) == IF l = k THEN 1 ELSE 0
<1>1. p[k] \in Seq(Sandboxes) /\ n \in Nat \ {0} /\ \A i \in 1 .. n : p[k][i] \in Sandboxes
  BY EmptySeq, ElementOfSeq DEF PoolType
<1>2. /\ Tail(p[k]) \in Seq(Sandboxes) /\ Len(Tail(p[k])) = n - 1
      /\ \A i \in 1 .. n - 1 : Tail(p[k])[i] = p[k][i + 1]
  BY <1>1, HeadTailProperties
<1>3. /\ DOMAIN q = Keys
      /\ q[k] = Tail(p[k])
      /\ \A l \in Keys : l # k => q[l] = p[l]
  BY DEF PoolType, Edited
<1>4. /\ PoolType(q)
      /\ Len(q[k]) = n - 1
      /\ \A l \in Keys : Len(p[l]) \in Nat /\ Len(q[l]) \in Nat
  BY <1>1, <1>2, <1>3, LenProperties DEF PoolType
<1>5. \A l \in Keys : m(l) \in {0, 1} /\ Len(q[l]) = Len(p[l]) - m(l)
            /\ \A i \in 1 .. Len(q[l]) : i + m(l) \in 1 .. Len(p[l]) /\ q[l][i] = p[l][i + m(l)]
  <2> TAKE l \in Keys
  <2>1. CASE l = k
    <3>1. m(l) = 1 /\ q[l] = Tail(p[k]) /\ Len(q[l]) = n - 1
      BY <1>3, <1>4, <2>1
    <3> HIDE DEF m
    <3> QED BY <1>1, <1>2, <2>1, <3>1
  <2>2. CASE l # k
    <3>1. m(l) = 0 /\ q[l] = p[l] /\ Len(p[l]) \in Nat
      BY <1>3, <1>4, <2>2
    <3> HIDE DEF m
    <3>2. \A i \in 1 .. Len(q[l]) : i + m(l) = i
      BY <3>1
    <3>3. Len(q[l]) = Len(p[l]) - m(l)
      <4>1. Len(q[l]) = Len(p[l])
        BY <3>1, Zenon
      <4>2. Len(p[l]) - m(l) = Len(p[l])
        BY <3>1
      <4> QED BY <4>1, <4>2
    <3> QED BY <3>1, <3>2, <3>3
  <2> QED BY <2>1, <2>2
<1>6. Head(p[k]) = s
  BY <1>1
<1>7. m(k) = 1 /\ 1 \in 1 .. Len(p[k])
  BY <1>1
<1>12. \A l \in Keys : l # k => m(l) = 0
  OBVIOUS
<1> HIDE DEF m
<1>8. UniqueIn(q)
  <2> SUFFICES ASSUME NEW l \in Keys, NEW h \in Keys, NEW i \in 1 .. Len(q[l]), NEW j \in 1 .. Len(q[h]),
                      q[l][i] = q[h][j]
               PROVE  l = h /\ i = j
    BY DEF UniqueIn
  <2>1. /\ i + m(l) \in 1 .. Len(p[l]) /\ q[l][i] = p[l][i + m(l)]
        /\ m(l) \in {0, 1}
    BY <1>5
  <2>2. /\ j + m(h) \in 1 .. Len(p[h]) /\ q[h][j] = p[h][j + m(h)]
        /\ m(h) \in {0, 1}
    BY <1>5
  <2>5. p[l][i + m(l)] = p[h][j + m(h)]
    BY <2>1, <2>2
  <2>3. l = h /\ i + m(l) = j + m(h)
    BY <2>1, <2>2, <2>5 DEF UniqueIn
  <2>4. i \in Int /\ j \in Int
    BY <1>4
  <2> QED BY <2>1, <2>3, <2>4
<1>9. s \notin PooledIn(q)
  <2> SUFFICES ASSUME NEW l \in Keys, NEW i \in 1 .. Len(q[l]), s = q[l][i] PROVE FALSE
    BY PooledMember
  <2>1. i + m(l) \in 1 .. Len(p[l]) /\ p[l][i + m(l)] = p[k][1]
    BY <1>5
  <2>2. l = k /\ i + m(l) = 1
    BY <1>7, <2>1 DEF UniqueIn
  <2> QED BY <1>7, <2>2
<1>10. PooledIn(q) \subseteq PooledIn(p)
  <2> SUFFICES ASSUME NEW l \in Keys, NEW i \in 1 .. Len(q[l]) PROVE q[l][i] \in PooledIn(p)
    BY PooledSubset
  <2>1. i + m(l) \in 1 .. Len(p[l]) /\ q[l][i] = p[l][i + m(l)]
    BY <1>5
  <2> QED BY <2>1, PooledEntry
<1>11. ASSUME NEW x \in PooledIn(p), x # s
       PROVE  x \in PooledIn(q)
  <2>1. PICK l \in Keys : \E i \in 1 .. Len(p[l]) : x = p[l][i]
    BY PooledMember
  <2>11. PICK i \in 1 .. Len(p[l]) : x = p[l][i]
    BY <2>1
  <2>2. i - m(l) \in 1 .. Len(q[l]) /\ (i - m(l)) + m(l) = i
    <3>1. CASE l = k
      BY <1>1, <1>4, <1>5, <1>7, <1>11, <2>11, <3>1
    <3>2. CASE l # k
      BY <1>4, <1>5, <1>12, <2>11, <3>2
    <3> QED BY <3>1, <3>2
  <2>3. q[l][i - m(l)] = x
    BY <1>5, <2>11, <2>2
  <2> QED BY <2>2, <2>3, PooledMember
<1> HIDE DEF s
<1>13. PooledIn(q) = PooledIn(p) \ {s}
  BY <1>9, <1>10, <1>11
<1>14. s \in Sandboxes
  BY <1>1, <1>7 DEF s
<1> QED BY <1>3, <1>4, <1>6, <1>8, <1>13, <1>14

LEMMA EmptyPool ==
    ASSUME NEW q, q = [k \in Keys |-> <<>>]
    PROVE  PoolType(q) /\ UniqueIn(q) /\ PooledIn(q) = {} /\ \A k \in Keys : Len(q[k]) = 0
<1>1. <<>> \in Seq(Sandboxes) /\ Len(<<>>) = 0
  BY EmptySeq
<1>2. PoolType(q) /\ \A k \in Keys : Len(q[k]) = 0
  BY <1>1 DEF PoolType
<1> QED BY <1>2, PooledMember DEF UniqueIn

-----------------------------------------------------------------------------
(* What the steps do that kill sandboxes or change the pool *)

LEMMA PooledIsPooledIn == Pooled = PooledIn(pool) /\ Pooled' = PooledIn(pool')
<1> QED BY DEF Pooled, Entries, PooledIn, EntriesIn

LEMMA PoolIsUnique ==
    ASSUME TypeOK
    PROVE  PoolType(pool) /\ (UsedByOne => UniqueIn(pool))
<1>1. PoolType(pool)
  BY DEF TypeOK, PoolType
<1>2. \A k \in Keys : DOMAIN pool[k] = 1 .. Len(pool[k])
  BY <1>1, LenProperties DEF PoolType
<1> QED BY <1>1, <1>2 DEF UsedByOne, UniqueIn

\* A unique pool stays what it is where it is read as UsedByOne reads it.
LEMMA UniqueIsUsed ==
    ASSUME PoolType(pool'), UniqueIn(pool')
    PROVE  \A k, l \in Keys : \A i \in DOMAIN pool'[k], j \in DOMAIN pool'[l] :
               pool'[k][i] = pool'[l][j] => k = l /\ i = j
<1>1. \A k \in Keys : DOMAIN pool'[k] = 1 .. Len(pool'[k])
  BY LenProperties DEF PoolType
<1> QED BY <1>1 DEF UniqueIn

LEMMA PooledAreSandboxes ==
    ASSUME TypeOK
    PROVE  Pooled \subseteq Sandboxes
<1>1. \A k \in Keys : \A i \in 1 .. Len(pool[k]) : pool[k][i] \in Sandboxes
  BY ElementOfSeq DEF TypeOK
<1> QED BY <1>1, PooledSubset, PooledIsPooledIn

\* The kill of the sandboxes S: each is down, or its kill failed; no other is touched.
Killed(S) ==
    /\ state' \in [Sandboxes -> {"new", "up", "down"}]
    /\ commands' \in [Sandboxes -> SUBSET Runs]
    /\ \A s \in Sandboxes :
          \/ state'[s] = state[s] /\ commands'[s] = commands[s]
          \/ s \in S /\ state'[s] = "down" /\ commands'[s] = {}
    /\ \A s \in S : state'[s] = "down" \/ s \in escaped'
    /\ escaped \subseteq escaped'
    /\ escaped' \subseteq escaped \cup S
    /\ escaped' \subseteq Sandboxes
    /\ faults' \in 0 .. MaxFaults

LEMMA FaultIsCounted ==
    ASSUME TypeOK, Fault
    PROVE  faults' \in 0 .. MaxFaults
<1> QED BY PoolAssumption DEF TypeOK, Fault

LEMMA KillEffect ==
    ASSUME TypeOK, NEW S \in SUBSET Sandboxes, Kill(S)
    PROVE  Killed(S)
<1>1. PICK failed \in SUBSET {s \in S : state[s] = "up"} :
        /\ Down(S \ failed)
        /\ escaped' = escaped \cup failed
        /\ IF failed = {} THEN UNCHANGED faults ELSE Fault
  BY DEF Kill
<1>2. faults' \in 0 .. MaxFaults
  BY <1>1, FaultIsCounted DEF TypeOK
<1>3. /\ state' \in [Sandboxes -> {"new", "up", "down"}]
      /\ commands' \in [Sandboxes -> SUBSET Runs]
  BY <1>1 DEF Down, TypeOK
<1>4. \A s \in Sandboxes :
          /\ s \in S \ failed => state'[s] = "down" /\ commands'[s] = {}
          /\ s \notin S \ failed => state'[s] = state[s] /\ commands'[s] = commands[s]
  BY <1>1 DEF Down
<1>5. failed \subseteq S /\ escaped' = escaped \cup failed
  BY <1>1
<1>6. \A s \in S : state'[s] = "down" \/ s \in escaped'
  BY <1>4, <1>5
<1>7. escaped' \subseteq Sandboxes
  BY <1>5 DEF TypeOK
<1> QED BY <1>2, <1>3, <1>4, <1>5, <1>6, <1>7 DEF Killed

LEMMA NothingKilled ==
    ASSUME TypeOK, UNCHANGED <<remote, escaped, faults>>
    PROVE  Killed({})
<1> QED BY DEF Killed, TypeOK, remote

\* Sandboxes go down beside the threads: pooled ones, or one that comes to its end.
Lost(S) ==
    /\ Killed(S)
    /\ UNCHANGED <<registered, thread, request, starts, unended, unseen, cancels>>
    /\ Pooled' \subseteq Pooled
    /\ Pooled \subseteq Pooled' \cup S

\* The pool after a step is a pool again, in which no key has too many entries.
PoolStays ==
    /\ PoolType(pool')
    /\ \A k \in Keys : Len(pool'[k]) <= PoolSize
    /\ UniqueIn(pool')

\* The newest entry is taken from the pool.
LEMMA NewestTaken ==
    ASSUME TypeOK, UsedByOne, NEW r \in Runs, Leasable(r), pool' = WithoutNewest(KeyOf[r])
    PROVE  /\ PoolStays
           /\ Newest(KeyOf[r]) \in Sandboxes \cap Pooled
           /\ Pooled' = Pooled \ {Newest(KeyOf[r])}
<1> DEFINE k == KeyOf[r]
<1>1. k \in Keys /\ pool[k] # <<>>
  BY PoolAssumption DEF Leasable
<1>2. PoolType(pool) /\ UniqueIn(pool)
  BY PoolIsUnique
<1>3. pool' = [pool EXCEPT ![k] = SubSeq(@, 1, Len(@) - 1)]
  BY DEF WithoutNewest
<1> HIDE DEF k
<1>4. /\ PoolType(pool') /\ UniqueIn(pool')
      /\ \A l \in Keys : Len(pool'[l]) <= Len(pool[l])
      /\ pool[k][Len(pool[k])] \in Sandboxes \cap PooledIn(pool)
      /\ PooledIn(pool') = PooledIn(pool) \ {pool[k][Len(pool[k])]}
  BY <1>1, <1>2, <1>3, PopPool
<1>5. \A l \in Keys : Len(pool'[l]) <= PoolSize
  <2> TAKE l \in Keys
  <2>1. Len(pool[l]) \in Nat /\ Len(pool'[l]) \in Nat /\ Len(pool[l]) <= PoolSize
    BY <1>2, <1>4, LenProperties DEF TypeOK, PoolType
  <2> QED BY <1>4, <2>1, PoolAssumption
<1> QED BY <1>4, <1>5, PooledIsPooledIn DEF PoolStays, Newest, k

LEMMA DiscardEffect ==
    ASSUME TypeOK, UsedByOne, NEW r \in Runs, Discard(r)
    PROVE  PoolStays /\ \E S \in SUBSET Sandboxes : Lost(S)
<1> DEFINE s == Newest(KeyOf[r])
<1>1. PoolStays /\ s \in Sandboxes /\ Pooled' = Pooled \ {s}
  BY NewestTaken DEF Discard
<1>2. Killed({s})
  BY <1>1, KillEffect DEF Discard
<1>3. Lost({s})
  BY <1>1, <1>2 DEF Lost, Discard
<1> QED BY <1>1, <1>3

LEMMA ClearPoolEffect ==
    ASSUME TypeOK, ClearPool
    PROVE  PoolStays /\ \E S \in SUBSET Sandboxes : Lost(S)
<1>1. /\ PoolType(pool') /\ UniqueIn(pool') /\ PooledIn(pool') = {}
      /\ \A k \in Keys : Len(pool'[k]) = 0
  BY EmptyPool DEF ClearPool
<1>2. PoolStays /\ Pooled' = {}
  BY <1>1, PoolAssumption, PooledIsPooledIn DEF PoolStays
<1>3. Killed(Pooled)
  BY PooledAreSandboxes, KillEffect DEF ClearPool
<1>4. Lost(Pooled)
  BY <1>2, <1>3 DEF Lost, ClearPool
<1> QED BY <1>2, <1>4, PooledAreSandboxes

LEMMA ExpireEffect ==
    ASSUME TypeOK, UsedByOne, NEW s \in Sandboxes, Expire(s)
    PROVE  \E S \in SUBSET Sandboxes : Lost(S)
<1>1. faults' \in 0 .. MaxFaults
  BY FaultIsCounted DEF Expire
<1>2. /\ state' \in [Sandboxes -> {"new", "up", "down"}]
      /\ commands' \in [Sandboxes -> SUBSET Runs]
  BY DEF Expire, Down, TypeOK
<1>3. \A t \in Sandboxes :
          /\ t \in {s} => state'[t] = "down" /\ commands'[t] = {}
          /\ t \notin {s} => state'[t] = state[t] /\ commands'[t] = commands[t]
  BY DEF Expire, Down
<1>4. escaped' = escaped /\ Pooled' = Pooled /\ escaped' \subseteq Sandboxes
  BY PooledIsPooledIn DEF Expire, history, TypeOK
<1>5. Killed({s})
  BY <1>1, <1>2, <1>3, <1>4 DEF Killed
<1>6. Lost({s})
  BY <1>4, <1>5 DEF Lost, Expire, history
<1> QED BY <1>6

\* A run's sandbox joins the pool, and what is too much is killed.
LEMMA PoolEffect ==
    ASSUME TypeOK, UsedByOne, NEW r \in Runs, Pool(r), holds[r] \in Sandboxes, KeyOf[r] \in Keys
    PROVE  /\ PoolStays
           /\ \E S \in SUBSET Sandboxes :
                 Killed(S) /\ Pooled' = (Pooled \cup {holds[r]}) \ S
<1> DEFINE k == KeyOf[r]
           s == holds[r]
           p == [pool EXCEPT ![k] = Append(pool[k], s)]
<1>1. /\ k \in Keys /\ s \in Sandboxes /\ s \notin PooledIn(pool)
      /\ PoolType(pool) /\ UniqueIn(pool)
  BY PoolIsUnique, PooledIsPooledIn DEF UsedByOne
<1> HIDE DEF k, s
<1>2. /\ PoolType(p) /\ UniqueIn(p)
      /\ Len(p[k]) = Len(pool[k]) + 1
      /\ \A l \in Keys : l # k => p[l] = pool[l]
      /\ PooledIn(p) = PooledIn(pool) \cup {s}
  <2>1. Edited(pool, p, k, Append(pool[k], s))
    BY <1>1, ExceptEdits DEF PoolType
  <2> HIDE DEF p
  <2> QED BY <1>1, <2>1, PushPool
<1>3. p[k] = Append(pool[k], s)
  BY <1>1 DEF PoolType
<1>4. \A l \in Keys : Len(pool[l]) \in Nat /\ Len(pool[l]) <= PoolSize
  BY <1>1, LenProperties DEF TypeOK, PoolType
<1>5. CASE Len(pool[k]) < PoolSize
  <2>1. pool' = p /\ UNCHANGED <<remote, escaped, faults>>
    BY <1>5 DEF Pool, Returned, k, s
  <2>2. \A l \in Keys : Len(pool'[l]) <= PoolSize
    <3> TAKE l \in Keys
    <3>1. CASE l = k
      BY <1>1, <1>2, <1>4, <1>5, <2>1, <3>1, PoolAssumption
    <3>2. CASE l # k
      BY <1>2, <1>4, <2>1, <3>2
    <3> QED BY <3>1, <3>2
  <2>3. PoolStays
    BY <1>2, <2>1, <2>2 DEF PoolStays
  <2>4. Killed({}) /\ Pooled' = (Pooled \cup {s}) \ {}
    BY <1>2, <2>1, NothingKilled, PooledIsPooledIn
  <2> QED BY <2>3, <2>4 DEF s
<1>6. CASE ~(Len(pool[k]) < PoolSize)
  <2> DEFINE h == Head(p[k])
  <2>1. pool' = [pool EXCEPT ![k] = Tail(p[k])] /\ Kill({h})
    BY <1>3, <1>6 DEF Pool, Returned, k, s
  <2>2. Edited(p, pool', k, Tail(p[k]))
    BY <1>1, <2>1 DEF Edited, PoolType
  <2> HIDE DEF p
  <2>3. p[k] # <<>>
    <3>1. Len(p[k]) # 0
      BY <1>1, <1>2, <1>4
    <3>2. Len(<<>>) = 0
      OBVIOUS
    <3> QED BY <3>1, <3>2, Zenon
  <2>4. /\ PoolType(pool') /\ UniqueIn(pool')
        /\ Len(pool'[k]) = Len(p[k]) - 1
        /\ \A l \in Keys : l # k => pool'[l] = p[l]
        /\ h \in Sandboxes
        /\ PooledIn(pool') = PooledIn(p) \ {h}
    <3>1. k \in Keys /\ PoolType(p) /\ UniqueIn(p)
      BY <1>1, <1>2
    <3> QED BY <3>1, <2>2, <2>3, ShiftPool
  <2> HIDE DEF h
  <2>5. \A l \in Keys : Len(pool'[l]) <= PoolSize
    <3> TAKE l \in Keys
    <3>1. CASE l = k
      BY <1>1, <1>2, <1>4, <2>4, <3>1, PoolAssumption
    <3>2. CASE l # k
      BY <1>2, <1>4, <2>4, <3>2
    <3> QED BY <3>1, <3>2
  <2>6. PoolStays
    BY <2>4, <2>5 DEF PoolStays
  <2>7. Killed({h}) /\ Pooled' = (Pooled \cup {s}) \ {h}
    BY <1>2, <2>1, <2>4, KillEffect, PooledIsPooledIn
  <2> QED BY <2>4, <2>6, <2>7 DEF s
<1> QED BY <1>5, <1>6

-----------------------------------------------------------------------------
(* The steps, as the proofs below take them apart *)

\* The steps that neither kill a sandbox nor touch the pool.
QuietStep(r) ==
    \/ CheckBeforeSpawn(r)
    \/ Create(r)
    \/ CreateFails(r)
    \/ Register(r)
    \/ PrepareFails(r)
    \/ CheckBeforeCommand(r)
    \/ Start(r)
    \/ Return(r)
    \/ Drop(r)
    \/ Recover(r)
    \/ Unregister(r)
    \/ Probe(r)
    \/ Flag(r)
    \/ LookUp(r)

\* A lease: r has got a sandbox out of the pool.
Leased(r) ==
    /\ at[r] = "spawning"
    /\ \E s \in Sandboxes \cap Pooled :
          /\ state[s] = "up"
          /\ holds' = [holds EXCEPT ![r] = s]
          /\ Pooled' = Pooled \ {s}
    /\ at' = [at EXCEPT ![r] = "registering"]
    /\ UNCHANGED <<remote, registered, attempt, exit, request, history, cancels, faults>>

\* A return to the pool, and what is killed to make room.
PutBack(r) ==
    /\ at[r] = "pooling"
    /\ holds[r] \in Sandboxes
    /\ \E S \in SUBSET Sandboxes :
          Killed(S) /\ Pooled' = (Pooled \cup {holds[r]}) \ S
    /\ holds' = [holds EXCEPT ![r] = NoSandbox]
    /\ at' = [at EXCEPT ![r] = "done"]
    /\ UNCHANGED <<registered, attempt, exit, request, starts, unended, unseen, cancels>>

\* A release of the sandbox that r holds.
GivenUp(r) ==
    /\ at[r] = "killing"
    /\ holds[r] \in Sandboxes
    /\ Killed({holds[r]})
    /\ Pooled' = Pooled
    /\ holds' = [holds EXCEPT ![r] = NoSandbox]
    /\ attempt' \in [Runs -> 1 .. MaxAttempts]
    /\ \/ at' = [at EXCEPT ![r] = "setup"] /\ exit[r] = "retry"
       \/ at' = [at EXCEPT ![r] = "done"]
    /\ UNCHANGED <<registered, exit, request, starts, unended, unseen, cancels>>

\* The kill that a cancel request makes.
TargetKilled(r) ==
    /\ cancel[r] = "found"
    /\ target[r] \in Sandboxes
    /\ Killed({target[r]})
    /\ Pooled' = Pooled
    /\ registered' = [registered EXCEPT ![r] = IF @ = target[r] THEN NoSandbox ELSE @]
    /\ cancel' = [cancel EXCEPT ![r] = "over"]
    /\ UNCHANGED <<thread, flagged, target, starts, unended, unseen, cancels>>

Effect ==
    \/ \E r \in Runs :
          \/ QuietStep(r) /\ pool' = pool /\ Pooled' = Pooled
          \/ Leased(r)
          \/ PutBack(r)
          \/ GivenUp(r)
          \/ TargetKilled(r)
    \/ \E S \in SUBSET Sandboxes : Lost(S)

LEMMA HoldsIsSandbox ==
    ASSUME TypeOK, ShapeInv, NEW r \in Runs, at[r] \notin {"setup", "spawning", "done"}
    PROVE  holds[r] \in Sandboxes
<1> QED BY DEF TypeOK, ShapeInv, ShapeOf

LEMMA PoolUnchanged ==
    ASSUME PoolInv, UNCHANGED pool
    PROVE  PoolStays /\ Pooled' = Pooled
<1>1. TypeOK /\ UsedByOne
  BY DEF PoolInv
<1>2. PoolType(pool) /\ UniqueIn(pool)
  BY <1>1, PoolIsUnique
<1>3. \A k \in Keys : Len(pool[k]) <= PoolSize
  BY <1>1 DEF TypeOK
<1> QED BY <1>2, <1>3, PooledIsPooledIn DEF PoolStays

LEMMA StepEffect ==
    ASSUME PoolInv, Next
    PROVE  PoolStays /\ Effect
<1>0. TypeOK /\ ShapeInv /\ UsedByOne /\ CancelInv
  BY DEF PoolInv
<1>1. ASSUME NEW r \in Runs, QuietStep(r)
      PROVE  PoolStays /\ Effect
  <2>1. UNCHANGED pool
    BY <1>1 DEF QuietStep, CheckBeforeSpawn, Create, CreateFails, Register, PrepareFails,
       CheckBeforeCommand, Start, Return, Drop, Recover, Unregister, Probe, Flag, LookUp
  <2> QED BY <1>1, <2>1, PoolUnchanged DEF Effect
<1>2. ASSUME NEW r \in Runs, Lease(r)
      PROVE  PoolStays /\ Effect
  <2>1. /\ PoolStays
        /\ Newest(KeyOf[r]) \in Sandboxes \cap Pooled
        /\ Pooled' = Pooled \ {Newest(KeyOf[r])}
    BY <1>0, <1>2, NewestTaken DEF Lease
  <2>2. Leased(r)
    BY <1>2, <2>1 DEF Leased, Lease, Goto
  <2> QED BY <2>1, <2>2 DEF Effect
<1>3. ASSUME NEW r \in Runs, Discard(r)
      PROVE  PoolStays /\ Effect
  BY <1>0, <1>3, DiscardEffect DEF Effect
<1>4. ASSUME NEW r \in Runs, Pool(r)
      PROVE  PoolStays /\ Effect
  <2>1. holds[r] \in Sandboxes /\ KeyOf[r] \in Keys
    BY <1>0, <1>4, HoldsIsSandbox DEF Pool, ShapeInv, ShapeOf
  <2>2. /\ PoolStays
        /\ \E S \in SUBSET Sandboxes :
              Killed(S) /\ Pooled' = (Pooled \cup {holds[r]}) \ S
    BY <1>0, <1>4, <2>1, PoolEffect
  <2>3. PutBack(r)
    BY <1>4, <2>1, <2>2 DEF PutBack, Pool, Goto
  <2> QED BY <2>2, <2>3 DEF Effect
<1>5. ASSUME NEW r \in Runs, Release(r)
      PROVE  PoolStays /\ Effect
  <2>1. holds[r] \in Sandboxes
    BY <1>0, <1>5, HoldsIsSandbox DEF Release
  <2>2. Killed({holds[r]})
    BY <1>0, <1>5, <2>1, KillEffect DEF Release
  <2>3. PoolStays /\ Pooled' = Pooled
    BY <1>5, PoolUnchanged DEF Release
  <2>4. attempt' \in [Runs -> 1 .. MaxAttempts]
    <3>1. attempt' = attempt \/ (attempt[r] < MaxAttempts /\ attempt' = [attempt EXCEPT ![r] = @ + 1])
      BY <1>5 DEF Release, Again
    <3>2. attempt[r] \in 1 .. MaxAttempts /\ MaxAttempts \in Nat
      BY <1>0, PoolAssumption DEF TypeOK
    <3>3. attempt[r] < MaxAttempts => attempt[r] + 1 \in 1 .. MaxAttempts
      BY <3>2
    <3> QED BY <1>0, <3>1, <3>3 DEF TypeOK
  <2>5. GivenUp(r)
    BY <1>5, <2>1, <2>2, <2>3, <2>4 DEF GivenUp, Release, Again, Goto
  <2> QED BY <2>3, <2>5 DEF Effect
<1>6. ASSUME NEW r \in Runs, KillTarget(r)
      PROVE  PoolStays /\ Effect
  <2>1. target[r] \in Sandboxes
    BY <1>0, <1>6 DEF KillTarget, CancelInv, CancelOf
  <2>2. Killed({target[r]})
    BY <1>0, <1>6, <2>1, KillEffect DEF KillTarget
  <2>3. PoolStays /\ Pooled' = Pooled
    BY <1>6, PoolUnchanged DEF KillTarget
  <2>4. TargetKilled(r)
    BY <1>6, <2>1, <2>2, <2>3 DEF TargetKilled, KillTarget
  <2> QED BY <2>3, <2>4 DEF Effect
<1>7. ASSUME ClearPool
      PROVE  PoolStays /\ Effect
  BY <1>0, <1>7, ClearPoolEffect DEF Effect
<1>8. ASSUME NEW s \in Sandboxes, Expire(s)
      PROVE  PoolStays /\ Effect
  <2>1. UNCHANGED pool
    BY <1>8 DEF Expire
  <2> QED BY <1>0, <1>8, <2>1, ExpireEffect, PoolUnchanged DEF Effect
<1> QED
  BY <1>1, <1>2, <1>3, <1>4, <1>5, <1>6, <1>7, <1>8 DEF Next, RunStep, CancelStep, QuietStep

LEMMA FreshIsNew ==
    ASSUME \E s \in Sandboxes : state[s] = "new"
    PROVE  Fresh \in Sandboxes /\ state[Fresh] = "new"
<1> QED BY DEF Fresh

-----------------------------------------------------------------------------
(* Each part of the invariant is kept by every step *)

LEMMA TypeOKKept ==
    ASSUME PoolInv, PoolStays, Effect
    PROVE  TypeOK'
<1>0. TypeOK
  BY DEF PoolInv
<1>1. ASSUME NEW r \in Runs, CheckBeforeSpawn(r), pool' = pool, Pooled' = Pooled
      PROVE  TypeOK'
  BY <1>0, <1>1, PoolAssumption, FaultIsCounted DEF CheckBeforeSpawn, Goto, At, PoolStays,
     PoolType, TypeOK, remote, thread, request, history
<1>2. ASSUME NEW r \in Runs, Create(r), pool' = pool, Pooled' = Pooled
      PROVE  TypeOK'
  BY <1>0, <1>2, PoolAssumption, FaultIsCounted, FreshIsNew DEF Create, Goto, At, PoolStays,
     PoolType, TypeOK, remote, thread, request, history
<1>3. ASSUME NEW r \in Runs, CreateFails(r), pool' = pool, Pooled' = Pooled
      PROVE  TypeOK'
  <2>1. attempt' = attempt \/ (attempt[r] < MaxAttempts /\ attempt' = [attempt EXCEPT ![r] = @ + 1])
    BY <1>3 DEF CreateFails, Again
  <2>2. attempt[r] < MaxAttempts => attempt[r] + 1 \in 1 .. MaxAttempts
    BY <1>0, PoolAssumption DEF TypeOK
  <2>3. attempt' \in [Runs -> 1 .. MaxAttempts]
    BY <1>0, <2>1, <2>2 DEF TypeOK
  <2>6. \E w \in {"setup", "done"} : at' = [at EXCEPT ![r] = w]
    BY <1>3 DEF CreateFails, Again, Goto
  <2>4. at' \in [Runs -> At]
    BY <1>0, <2>6 DEF At, TypeOK
  <2>5. faults' \in 0 .. MaxFaults
    BY <1>0, <1>3, FaultIsCounted DEF CreateFails
  <2>7. CASE UNCHANGED <<state, unseen>>
    BY <1>0, <1>3, <2>3, <2>4, <2>5, <2>7 DEF CreateFails, PoolStays, PoolType, TypeOK, request
  <2>8. CASE /\ \E s \in Sandboxes : state[s] = "new"
             /\ state' = [state EXCEPT ![Fresh] = "up"]
             /\ unseen' = unseen \cup {Fresh}
    <3>1. Fresh \in Sandboxes
      BY <2>8, FreshIsNew
    <3>2. state' \in [Sandboxes -> {"new", "up", "down"}] /\ unseen' \subseteq Sandboxes
      BY <1>0, <2>8, <3>1 DEF TypeOK
    <3> QED BY <1>0, <1>3, <2>3, <2>4, <2>5, <3>2 DEF CreateFails, PoolStays, PoolType, TypeOK,
           request
  <2> QED BY <1>3, <2>7, <2>8 DEF CreateFails
<1>4. ASSUME NEW r \in Runs, Register(r), pool' = pool, Pooled' = Pooled
      PROVE  TypeOK'
  BY <1>0, <1>4, PoolAssumption, FaultIsCounted DEF Register, Goto, At, PoolStays, PoolType,
     TypeOK, remote, thread, request, history
<1>5. ASSUME NEW r \in Runs, PrepareFails(r), pool' = pool, Pooled' = Pooled
      PROVE  TypeOK'
  BY <1>0, <1>5, PoolAssumption, FaultIsCounted DEF PrepareFails, LeaveAs, Goto, At, PoolStays,
     PoolType, TypeOK, remote, thread, request, history
<1>6. ASSUME NEW r \in Runs, CheckBeforeCommand(r), pool' = pool, Pooled' = Pooled
      PROVE  TypeOK'
  <2>1. at' \in [Runs -> At] /\ exit' \in [Runs -> {"keep", "kill", "retry"}]
    <3>1. /\ \E w \in {"starting", "leaving"} : at' = [at EXCEPT ![r] = w]
          /\ exit' = exit \/ exit' = [exit EXCEPT ![r] = "kill"]
      BY <1>6 DEF CheckBeforeCommand, LeaveAs, Goto
    <3>2. at' \in [Runs -> At]
      BY <1>0, <3>1 DEF At, TypeOK
    <3>3. exit' \in [Runs -> {"keep", "kill", "retry"}]
      BY <1>0, <3>1 DEF TypeOK
    <3> QED BY <3>2, <3>3
  <2> QED BY <1>0, <1>6, <2>1 DEF CheckBeforeCommand, PoolStays, PoolType, TypeOK, remote,
     thread, request, history
<1>7. ASSUME NEW r \in Runs, Start(r), pool' = pool, Pooled' = Pooled
      PROVE  TypeOK'
  <2>1. at' \in [Runs -> At]
    BY <1>0, <1>7 DEF Start, Goto, At, TypeOK
  <2>2. commands' \in [Sandboxes -> SUBSET Runs] /\ starts' \in [Runs -> Nat]
    <3>1. CASE state[holds[r]] = "up"
      <4>1. /\ commands' = [commands EXCEPT ![holds[r]] = @ \cup {r}]
            /\ starts' = [starts EXCEPT ![r] = @ + 1]
        BY <1>7, <3>1 DEF Start
      <4>2. commands' \in [Sandboxes -> SUBSET Runs]
        BY <1>0, <4>1 DEF TypeOK
      <4>3. starts' \in [Runs -> Nat]
        BY <1>0, <4>1 DEF TypeOK
      <4> QED BY <4>2, <4>3
    <3>2. CASE state[holds[r]] # "up"
      BY <1>0, <1>7, <3>2 DEF Start, TypeOK
    <3> QED BY <3>1, <3>2
  <2> QED BY <1>0, <1>7, <2>1, <2>2 DEF Start, PoolStays, PoolType, TypeOK, remote, thread,
     request, history
<1>8. ASSUME NEW r \in Runs, Return(r), pool' = pool, Pooled' = Pooled
      PROVE  TypeOK'
  <2>1. at' \in [Runs -> At] /\ exit' \in [Runs -> {"keep", "kill", "retry"}]
    BY <1>0, <1>8 DEF Return, LeaveAs, Goto, At, TypeOK
  <2>2. commands' \in [Sandboxes -> SUBSET Runs]
    BY <1>0, <1>8 DEF Return, TypeOK
  <2> QED BY <1>0, <1>8, <2>1, <2>2 DEF Return, PoolStays, PoolType, TypeOK, remote, thread,
     request, history
<1>9. ASSUME NEW r \in Runs, Drop(r), pool' = pool, Pooled' = Pooled
      PROVE  TypeOK'
  BY <1>0, <1>9, PoolAssumption, FaultIsCounted DEF Drop, LeaveAs, Goto, At, PoolStays,
     PoolType, TypeOK, remote, thread, request, history
<1>10. ASSUME NEW r \in Runs, Recover(r), pool' = pool, Pooled' = Pooled
      PROVE  TypeOK'
  <2>1. at' \in [Runs -> At] /\ exit' \in [Runs -> {"keep", "kill", "retry"}]
    BY <1>0, <1>10 DEF Recover, LeaveAs, Goto, At, TypeOK
  <2>2. holds[r] \in Sandboxes
    BY <1>0, <1>10, HoldsIsSandbox DEF Recover, PoolInv
  <2>3. unended' \subseteq Sandboxes /\ faults' \in 0 .. MaxFaults
    BY <1>0, <1>10, <2>2, FaultIsCounted DEF Recover, TypeOK
  <2> QED BY <1>0, <1>10, <2>1, <2>3 DEF Recover, PoolStays, PoolType, TypeOK, remote, thread,
     request, history
<1>11. ASSUME NEW r \in Runs, Unregister(r), pool' = pool, Pooled' = Pooled
      PROVE  TypeOK'
  BY <1>0, <1>11, PoolAssumption, FaultIsCounted DEF Unregister, Goto, At, PoolStays, PoolType,
     TypeOK, remote, thread, request, history
<1>12. ASSUME NEW r \in Runs, Probe(r), pool' = pool, Pooled' = Pooled
      PROVE  TypeOK'
  <2>1. at' \in [Runs -> At]
    BY ZenonT(60), <1>0, <1>12 DEF Probe, Goto, At, TypeOK
  <2>2. faults' \in 0 .. MaxFaults
    BY <1>0, <1>12, FaultIsCounted DEF Probe, TypeOK
  <2> QED BY <1>0, <1>12, <2>1, <2>2 DEF Probe, PoolStays, PoolType, TypeOK, remote, thread,
     request, history
<1>13. ASSUME NEW r \in Runs, Flag(r), pool' = pool, Pooled' = Pooled
      PROVE  TypeOK'
  BY <1>0, <1>13, PoolAssumption, FaultIsCounted DEF Flag, At, PoolStays, PoolType, TypeOK,
     remote, thread, request, history
<1>14. ASSUME NEW r \in Runs, LookUp(r), pool' = pool, Pooled' = Pooled
      PROVE  TypeOK'
  BY <1>0, <1>14, PoolAssumption, FaultIsCounted DEF LookUp, At, PoolStays, PoolType, TypeOK,
     remote, thread, request, history
<1>15. ASSUME NEW r \in Runs, Leased(r)
      PROVE  TypeOK'
  BY <1>0, <1>15, PoolAssumption, FaultIsCounted DEF Leased, At, PoolStays, PoolType, TypeOK,
     remote, thread, request, history
<1>16. ASSUME NEW r \in Runs, PutBack(r)
      PROVE  TypeOK'
  BY <1>0, <1>16, PoolAssumption, FaultIsCounted DEF PutBack, Killed, At, PoolStays, PoolType,
     TypeOK, remote, thread, request, history
<1>17. ASSUME NEW r \in Runs, GivenUp(r)
      PROVE  TypeOK'
  BY <1>0, <1>17, PoolAssumption, FaultIsCounted DEF GivenUp, Killed, At, PoolStays, PoolType,
     TypeOK, remote, thread, request, history
<1>18. ASSUME NEW r \in Runs, TargetKilled(r)
      PROVE  TypeOK'
  BY <1>0, <1>18, PoolAssumption, FaultIsCounted DEF TargetKilled, Killed, At, PoolStays,
     PoolType, TypeOK, remote, thread, request, history
<1>19. ASSUME NEW S \in SUBSET Sandboxes, Lost(S)
      PROVE  TypeOK'
  BY <1>0, <1>19, PoolAssumption, FaultIsCounted DEF Lost, Killed, At, PoolStays, PoolType,
     TypeOK, remote, thread, request, history
<1> QED BY <1>1, <1>2, <1>3, <1>4, <1>5, <1>6, <1>7, <1>8, <1>9, <1>10, <1>11, <1>12, <1>13,
   <1>14, <1>15, <1>16, <1>17, <1>18, <1>19 DEF Effect, QuietStep

LEMMA ShapeInvKept ==
    ASSUME PoolInv, PoolStays, Effect
    PROVE  ShapeInv'
<1> SUFFICES ASSUME NEW q \in Runs PROVE ShapeOf(q)'
  BY DEF ShapeInv
<1>0. TypeOK /\ ShapeInv /\ ShapeOf(q)
  BY DEF PoolInv, ShapeInv
<1>1. ASSUME NEW r \in Runs, CheckBeforeSpawn(r), pool' = pool, Pooled' = Pooled
      PROVE  ShapeOf(q)'
  BY <1>0, <1>1, PoolAssumption DEF CheckBeforeSpawn, Goto, ShapeOf, TypeOK, remote, thread,
     request, history
<1>2. ASSUME NEW r \in Runs, Create(r), pool' = pool, Pooled' = Pooled
      PROVE  ShapeOf(q)'
  BY <1>0, <1>2, PoolAssumption, FreshIsNew DEF Create, Goto, ShapeOf, TypeOK, remote, thread,
     request, history
<1>3. ASSUME NEW r \in Runs, CreateFails(r), pool' = pool, Pooled' = Pooled
      PROVE  ShapeOf(q)'
  BY <1>0, <1>3, PoolAssumption DEF CreateFails, Again, Goto, ShapeOf, TypeOK, remote, thread,
     request, history
<1>4. ASSUME NEW r \in Runs, Register(r), pool' = pool, Pooled' = Pooled
      PROVE  ShapeOf(q)'
  BY <1>0, <1>4, PoolAssumption DEF Register, Goto, ShapeOf, TypeOK, remote, thread, request,
     history
<1>5. ASSUME NEW r \in Runs, PrepareFails(r), pool' = pool, Pooled' = Pooled
      PROVE  ShapeOf(q)'
  BY <1>0, <1>5, PoolAssumption DEF PrepareFails, LeaveAs, Goto, ShapeOf, TypeOK, remote,
     thread, request, history
<1>6. ASSUME NEW r \in Runs, CheckBeforeCommand(r), pool' = pool, Pooled' = Pooled
      PROVE  ShapeOf(q)'
  BY <1>0, <1>6, PoolAssumption DEF CheckBeforeCommand, LeaveAs, Goto, ShapeOf, TypeOK, remote,
     thread, request, history
<1>7. ASSUME NEW r \in Runs, Start(r), pool' = pool, Pooled' = Pooled
      PROVE  ShapeOf(q)'
  BY <1>0, <1>7, PoolAssumption DEF Start, Goto, ShapeOf, TypeOK, remote, thread, request,
     history
<1>8. ASSUME NEW r \in Runs, Return(r), pool' = pool, Pooled' = Pooled
      PROVE  ShapeOf(q)'
  <2>1. PICK how \in {"keep", "kill"} :
          /\ how = "keep" => KeyOf[r] # NoKey
          /\ at' = [at EXCEPT ![r] = "leaving"]
          /\ exit' = [exit EXCEPT ![r] = how]
    BY <1>8 DEF Return, LeaveAs, Goto
  <2>2. at[r] = "running" /\ holds' = holds
    BY <1>8 DEF Return
  <2>3. KeyOf[r] \in Keys \/ how # "keep"
    BY <2>1, PoolAssumption
  <2>4. CASE q = r
    BY <1>0, <2>1, <2>2, <2>3, <2>4 DEF ShapeOf, TypeOK
  <2>5. CASE q # r
    BY <1>0, <2>1, <2>2, <2>5 DEF ShapeOf, TypeOK
  <2> QED BY <2>4, <2>5
<1>9. ASSUME NEW r \in Runs, Drop(r), pool' = pool, Pooled' = Pooled
      PROVE  ShapeOf(q)'
  BY <1>0, <1>9, PoolAssumption DEF Drop, LeaveAs, Goto, ShapeOf, TypeOK, remote, thread,
     request, history
<1>10. ASSUME NEW r \in Runs, Recover(r), pool' = pool, Pooled' = Pooled
      PROVE  ShapeOf(q)'
  <2>1. PICK how \in {"keep", "kill"} :
          /\ how = "keep" => KeyOf[r] # NoKey
          /\ at' = [at EXCEPT ![r] = "leaving"]
          /\ exit' = [exit EXCEPT ![r] = how]
    BY <1>10 DEF Recover, LeaveAs, Goto
  <2>2. at[r] = "running" /\ holds' = holds
    BY <1>10 DEF Recover
  <2>3. KeyOf[r] \in Keys \/ how # "keep"
    BY <2>1, PoolAssumption
  <2>4. CASE q = r
    BY <1>0, <2>1, <2>2, <2>3, <2>4 DEF ShapeOf, TypeOK
  <2>5. CASE q # r
    BY <1>0, <2>1, <2>2, <2>5 DEF ShapeOf, TypeOK
  <2> QED BY <2>4, <2>5
<1>11. ASSUME NEW r \in Runs, Unregister(r), pool' = pool, Pooled' = Pooled
      PROVE  ShapeOf(q)'
  BY <1>0, <1>11, PoolAssumption DEF Unregister, Goto, ShapeOf, TypeOK, remote, thread, request,
     history
<1>12. ASSUME NEW r \in Runs, Probe(r), pool' = pool, Pooled' = Pooled
      PROVE  ShapeOf(q)'
  BY <1>0, <1>12, PoolAssumption DEF Probe, Goto, ShapeOf, TypeOK, remote, thread, request,
     history
<1>13. ASSUME NEW r \in Runs, Flag(r), pool' = pool, Pooled' = Pooled
      PROVE  ShapeOf(q)'
  BY <1>0, <1>13, PoolAssumption DEF Flag, ShapeOf, TypeOK, remote, thread, request, history
<1>14. ASSUME NEW r \in Runs, LookUp(r), pool' = pool, Pooled' = Pooled
      PROVE  ShapeOf(q)'
  BY <1>0, <1>14, PoolAssumption DEF LookUp, ShapeOf, TypeOK, remote, thread, request, history
<1>15. ASSUME NEW r \in Runs, Leased(r)
      PROVE  ShapeOf(q)'
  BY <1>0, <1>15, PoolAssumption DEF Leased, ShapeOf, TypeOK, remote, thread, request, history
<1>16. ASSUME NEW r \in Runs, PutBack(r)
      PROVE  ShapeOf(q)'
  BY <1>0, <1>16, PoolAssumption DEF PutBack, Killed, ShapeOf, TypeOK, remote, thread, request,
     history
<1>17. ASSUME NEW r \in Runs, GivenUp(r)
      PROVE  ShapeOf(q)'
  BY <1>0, <1>17, PoolAssumption DEF GivenUp, Killed, ShapeOf, TypeOK, remote, thread, request,
     history
<1>18. ASSUME NEW r \in Runs, TargetKilled(r)
      PROVE  ShapeOf(q)'
  BY <1>0, <1>18, PoolAssumption DEF TargetKilled, Killed, ShapeOf, TypeOK, remote, thread,
     request, history
<1>19. ASSUME NEW S \in SUBSET Sandboxes, Lost(S)
      PROVE  ShapeOf(q)'
  BY <1>0, <1>19, PoolAssumption DEF Lost, Killed, ShapeOf, TypeOK, remote, thread, request,
     history
<1> QED BY <1>1, <1>2, <1>3, <1>4, <1>5, <1>6, <1>7, <1>8, <1>9, <1>10, <1>11, <1>12, <1>13,
   <1>14, <1>15, <1>16, <1>17, <1>18, <1>19 DEF Effect, QuietStep

LEMMA StartInvKept ==
    ASSUME PoolInv, PoolStays, Effect
    PROVE  StartInv'
<1> SUFFICES ASSUME NEW q \in Runs PROVE StartOf(q)'
  BY DEF StartInv
<1>0. TypeOK /\ StartInv /\ StartOf(q)
  BY DEF PoolInv, StartInv
<1>1. ASSUME NEW r \in Runs, CheckBeforeSpawn(r), pool' = pool, Pooled' = Pooled
      PROVE  StartOf(q)'
  BY <1>0, <1>1 DEF CheckBeforeSpawn, Goto, StartOf, TypeOK, remote, thread, request, history
<1>2. ASSUME NEW r \in Runs, Create(r), pool' = pool, Pooled' = Pooled
      PROVE  StartOf(q)'
  BY <1>0, <1>2, FreshIsNew DEF Create, Goto, StartOf, TypeOK, remote, thread, request, history
<1>3. ASSUME NEW r \in Runs, CreateFails(r), pool' = pool, Pooled' = Pooled
      PROVE  StartOf(q)'
  BY <1>0, <1>3 DEF CreateFails, Again, Goto, StartOf, TypeOK, remote, thread, request, history
<1>4. ASSUME NEW r \in Runs, Register(r), pool' = pool, Pooled' = Pooled
      PROVE  StartOf(q)'
  BY <1>0, <1>4 DEF Register, Goto, StartOf, TypeOK, remote, thread, request, history
<1>5. ASSUME NEW r \in Runs, PrepareFails(r), pool' = pool, Pooled' = Pooled
      PROVE  StartOf(q)'
  BY <1>0, <1>5 DEF PrepareFails, LeaveAs, Goto, StartOf, TypeOK, remote, thread, request,
     history
<1>6. ASSUME NEW r \in Runs, CheckBeforeCommand(r), pool' = pool, Pooled' = Pooled
      PROVE  StartOf(q)'
  BY <1>0, <1>6 DEF CheckBeforeCommand, LeaveAs, Goto, StartOf, TypeOK, remote, thread, request,
     history
<1>7. ASSUME NEW r \in Runs, Start(r), pool' = pool, Pooled' = Pooled
      PROVE  StartOf(q)'
  BY <1>0, <1>7 DEF Start, Goto, StartOf, TypeOK, remote, thread, request, history
<1>8. ASSUME NEW r \in Runs, Return(r), pool' = pool, Pooled' = Pooled
      PROVE  StartOf(q)'
  BY <1>0, <1>8 DEF Return, LeaveAs, Goto, StartOf, TypeOK, remote, thread, request, history
<1>9. ASSUME NEW r \in Runs, Drop(r), pool' = pool, Pooled' = Pooled
      PROVE  StartOf(q)'
  BY <1>0, <1>9 DEF Drop, LeaveAs, Goto, StartOf, TypeOK, remote, thread, request, history
<1>10. ASSUME NEW r \in Runs, Recover(r), pool' = pool, Pooled' = Pooled
      PROVE  StartOf(q)'
  BY <1>0, <1>10 DEF Recover, LeaveAs, Goto, StartOf, TypeOK, remote, thread, request, history
<1>11. ASSUME NEW r \in Runs, Unregister(r), pool' = pool, Pooled' = Pooled
      PROVE  StartOf(q)'
  BY <1>0, <1>11 DEF Unregister, Goto, StartOf, TypeOK, remote, thread, request, history
<1>12. ASSUME NEW r \in Runs, Probe(r), pool' = pool, Pooled' = Pooled
      PROVE  StartOf(q)'
  <2>1. /\ at[r] = "returning" /\ exit' = exit /\ starts' = starts
        /\ at' = [at EXCEPT ![r] = "pooling"] \/ at' = [at EXCEPT ![r] = "killing"]
    BY <1>12 DEF Probe, Goto, remote, thread, request, history
  <2>2. exit[r] = "keep"
    BY <1>0, <2>1 DEF PoolInv, ShapeInv, ShapeOf
  <2> QED BY <1>0, <2>1, <2>2 DEF StartOf, TypeOK
<1>13. ASSUME NEW r \in Runs, Flag(r), pool' = pool, Pooled' = Pooled
      PROVE  StartOf(q)'
  BY <1>0, <1>13 DEF Flag, StartOf, TypeOK, remote, thread, request, history
<1>14. ASSUME NEW r \in Runs, LookUp(r), pool' = pool, Pooled' = Pooled
      PROVE  StartOf(q)'
  BY <1>0, <1>14 DEF LookUp, StartOf, TypeOK, remote, thread, request, history
<1>15. ASSUME NEW r \in Runs, Leased(r)
      PROVE  StartOf(q)'
  BY <1>0, <1>15 DEF Leased, StartOf, TypeOK, remote, thread, request, history
<1>16. ASSUME NEW r \in Runs, PutBack(r)
      PROVE  StartOf(q)'
  BY <1>0, <1>16 DEF PutBack, Killed, StartOf, TypeOK, remote, thread, request, history
<1>17. ASSUME NEW r \in Runs, GivenUp(r)
      PROVE  StartOf(q)'
  BY <1>0, <1>17 DEF GivenUp, Killed, StartOf, TypeOK, remote, thread, request, history
<1>18. ASSUME NEW r \in Runs, TargetKilled(r)
      PROVE  StartOf(q)'
  BY <1>0, <1>18 DEF TargetKilled, Killed, StartOf, TypeOK, remote, thread, request, history
<1>19. ASSUME NEW S \in SUBSET Sandboxes, Lost(S)
      PROVE  StartOf(q)'
  BY <1>0, <1>19 DEF Lost, Killed, StartOf, TypeOK, remote, thread, request, history
<1> QED BY <1>1, <1>2, <1>3, <1>4, <1>5, <1>6, <1>7, <1>8, <1>9, <1>10, <1>11, <1>12, <1>13,
   <1>14, <1>15, <1>16, <1>17, <1>18, <1>19 DEF Effect, QuietStep

LEMMA NewInvKept ==
    ASSUME PoolInv, PoolStays, Effect
    PROVE  NewInv'
<1> SUFFICES ASSUME NEW s \in Sandboxes PROVE NewOf(s)'
  BY DEF NewInv
<1>0. TypeOK /\ ShapeInv /\ NewInv /\ NewOf(s)
  BY DEF PoolInv, ShapeInv, NewInv
<1>1. ASSUME NEW r \in Runs, CheckBeforeSpawn(r), pool' = pool, Pooled' = Pooled
      PROVE  NewOf(s)'
  BY <1>0, <1>1, PoolAssumption DEF CheckBeforeSpawn, Goto, NewOf, ShapeOf, TypeOK, remote,
     thread, request, history
<1>2. ASSUME NEW r \in Runs, Create(r), pool' = pool, Pooled' = Pooled
      PROVE  NewOf(s)'
  BY <1>0, <1>2, PoolAssumption, FreshIsNew DEF Create, Goto, NewOf, ShapeOf, TypeOK, remote,
     thread, request, history
<1>3. ASSUME NEW r \in Runs, CreateFails(r), pool' = pool, Pooled' = Pooled
      PROVE  NewOf(s)'
  BY <1>0, <1>3, PoolAssumption DEF CreateFails, Again, Goto, NewOf, ShapeOf, TypeOK, remote,
     thread, request, history
<1>4. ASSUME NEW r \in Runs, Register(r), pool' = pool, Pooled' = Pooled
      PROVE  NewOf(s)'
  BY <1>0, <1>4, PoolAssumption DEF Register, Goto, NewOf, ShapeOf, TypeOK, remote, thread,
     request, history
<1>5. ASSUME NEW r \in Runs, PrepareFails(r), pool' = pool, Pooled' = Pooled
      PROVE  NewOf(s)'
  BY <1>0, <1>5, PoolAssumption DEF PrepareFails, LeaveAs, Goto, NewOf, ShapeOf, TypeOK, remote,
     thread, request, history
<1>6. ASSUME NEW r \in Runs, CheckBeforeCommand(r), pool' = pool, Pooled' = Pooled
      PROVE  NewOf(s)'
  BY <1>0, <1>6, PoolAssumption DEF CheckBeforeCommand, LeaveAs, Goto, NewOf, ShapeOf, TypeOK,
     remote, thread, request, history
<1>7. ASSUME NEW r \in Runs, Start(r), pool' = pool, Pooled' = Pooled
      PROVE  NewOf(s)'
  BY <1>0, <1>7, PoolAssumption DEF Start, Goto, NewOf, ShapeOf, TypeOK, remote, thread,
     request, history
<1>8. ASSUME NEW r \in Runs, Return(r), pool' = pool, Pooled' = Pooled
      PROVE  NewOf(s)'
  BY <1>0, <1>8, PoolAssumption DEF Return, LeaveAs, Goto, NewOf, ShapeOf, TypeOK, remote,
     thread, request, history
<1>9. ASSUME NEW r \in Runs, Drop(r), pool' = pool, Pooled' = Pooled
      PROVE  NewOf(s)'
  BY <1>0, <1>9, PoolAssumption DEF Drop, LeaveAs, Goto, NewOf, ShapeOf, TypeOK, remote, thread,
     request, history
<1>10. ASSUME NEW r \in Runs, Recover(r), pool' = pool, Pooled' = Pooled
      PROVE  NewOf(s)'
  BY <1>0, <1>10, PoolAssumption DEF Recover, LeaveAs, Goto, NewOf, ShapeOf, TypeOK, remote,
     thread, request, history
<1>11. ASSUME NEW r \in Runs, Unregister(r), pool' = pool, Pooled' = Pooled
      PROVE  NewOf(s)'
  BY <1>0, <1>11, PoolAssumption DEF Unregister, Goto, NewOf, ShapeOf, TypeOK, remote, thread,
     request, history
<1>12. ASSUME NEW r \in Runs, Probe(r), pool' = pool, Pooled' = Pooled
      PROVE  NewOf(s)'
  BY <1>0, <1>12, PoolAssumption DEF Probe, Goto, NewOf, ShapeOf, TypeOK, remote, thread,
     request, history
<1>13. ASSUME NEW r \in Runs, Flag(r), pool' = pool, Pooled' = Pooled
      PROVE  NewOf(s)'
  BY <1>0, <1>13, PoolAssumption DEF Flag, NewOf, ShapeOf, TypeOK, remote, thread, request,
     history
<1>14. ASSUME NEW r \in Runs, LookUp(r), pool' = pool, Pooled' = Pooled
      PROVE  NewOf(s)'
  BY <1>0, <1>14, PoolAssumption DEF LookUp, NewOf, ShapeOf, TypeOK, remote, thread, request,
     history
<1>15. ASSUME NEW r \in Runs, Leased(r)
      PROVE  NewOf(s)'
  BY <1>0, <1>15, PoolAssumption DEF Leased, NewOf, ShapeOf, TypeOK, remote, thread, request,
     history
<1>16. ASSUME NEW r \in Runs, PutBack(r)
      PROVE  NewOf(s)'
  BY <1>0, <1>16, PoolAssumption DEF PutBack, Killed, NewOf, ShapeOf, TypeOK, remote, thread,
     request, history
<1>17. ASSUME NEW r \in Runs, GivenUp(r)
      PROVE  NewOf(s)'
  BY <1>0, <1>17, PoolAssumption DEF GivenUp, Killed, NewOf, ShapeOf, TypeOK, remote, thread,
     request, history
<1>18. ASSUME NEW r \in Runs, TargetKilled(r)
      PROVE  NewOf(s)'
  BY <1>0, <1>18, PoolAssumption DEF TargetKilled, Killed, NewOf, ShapeOf, TypeOK, remote,
     thread, request, history
<1>19. ASSUME NEW S \in SUBSET Sandboxes, Lost(S)
      PROVE  NewOf(s)'
  BY <1>0, <1>19, PoolAssumption DEF Lost, Killed, NewOf, ShapeOf, TypeOK, remote, thread,
     request, history
<1> QED BY <1>1, <1>2, <1>3, <1>4, <1>5, <1>6, <1>7, <1>8, <1>9, <1>10, <1>11, <1>12, <1>13,
   <1>14, <1>15, <1>16, <1>17, <1>18, <1>19 DEF Effect, QuietStep

LEMMA HoldersDifferKept ==
    ASSUME PoolInv, PoolStays, Effect
    PROVE  HoldersDiffer'
<1>0. TypeOK /\ ShapeInv /\ NewInv /\ HoldersDiffer
  BY DEF PoolInv, UsedByOne, HoldersDiffer
<1>1. ASSUME NEW r \in Runs, CheckBeforeSpawn(r), pool' = pool, Pooled' = Pooled
      PROVE  HoldersDiffer'
  BY <1>0, <1>1, PoolAssumption, PooledAreSandboxes DEF CheckBeforeSpawn, Goto, HoldersDiffer,
     NewOf, ShapeOf, TypeOK, ShapeInv, NewInv, remote, thread, request, history
<1>2. ASSUME NEW r \in Runs, Create(r), pool' = pool, Pooled' = Pooled
      PROVE  HoldersDiffer'
  BY <1>0, <1>2, PoolAssumption, PooledAreSandboxes, FreshIsNew DEF Create, Goto, HoldersDiffer,
     NewOf, ShapeOf, TypeOK, ShapeInv, NewInv, remote, thread, request, history
<1>3. ASSUME NEW r \in Runs, CreateFails(r), pool' = pool, Pooled' = Pooled
      PROVE  HoldersDiffer'
  BY <1>0, <1>3, PoolAssumption, PooledAreSandboxes DEF CreateFails, Again, Goto, HoldersDiffer,
     NewOf, ShapeOf, TypeOK, ShapeInv, NewInv, remote, thread, request, history
<1>4. ASSUME NEW r \in Runs, Register(r), pool' = pool, Pooled' = Pooled
      PROVE  HoldersDiffer'
  BY <1>0, <1>4, PoolAssumption, PooledAreSandboxes DEF Register, Goto, HoldersDiffer, NewOf,
     ShapeOf, TypeOK, ShapeInv, NewInv, remote, thread, request, history
<1>5. ASSUME NEW r \in Runs, PrepareFails(r), pool' = pool, Pooled' = Pooled
      PROVE  HoldersDiffer'
  BY <1>0, <1>5, PoolAssumption, PooledAreSandboxes DEF PrepareFails, LeaveAs, Goto,
     HoldersDiffer, NewOf, ShapeOf, TypeOK, ShapeInv, NewInv, remote, thread, request, history
<1>6. ASSUME NEW r \in Runs, CheckBeforeCommand(r), pool' = pool, Pooled' = Pooled
      PROVE  HoldersDiffer'
  BY <1>0, <1>6, PoolAssumption, PooledAreSandboxes DEF CheckBeforeCommand, LeaveAs, Goto,
     HoldersDiffer, NewOf, ShapeOf, TypeOK, ShapeInv, NewInv, remote, thread, request, history
<1>7. ASSUME NEW r \in Runs, Start(r), pool' = pool, Pooled' = Pooled
      PROVE  HoldersDiffer'
  BY <1>0, <1>7, PoolAssumption, PooledAreSandboxes DEF Start, Goto, HoldersDiffer, NewOf,
     ShapeOf, TypeOK, ShapeInv, NewInv, remote, thread, request, history
<1>8. ASSUME NEW r \in Runs, Return(r), pool' = pool, Pooled' = Pooled
      PROVE  HoldersDiffer'
  BY <1>0, <1>8, PoolAssumption, PooledAreSandboxes DEF Return, LeaveAs, Goto, HoldersDiffer,
     NewOf, ShapeOf, TypeOK, ShapeInv, NewInv, remote, thread, request, history
<1>9. ASSUME NEW r \in Runs, Drop(r), pool' = pool, Pooled' = Pooled
      PROVE  HoldersDiffer'
  BY <1>0, <1>9, PoolAssumption, PooledAreSandboxes DEF Drop, LeaveAs, Goto, HoldersDiffer,
     NewOf, ShapeOf, TypeOK, ShapeInv, NewInv, remote, thread, request, history
<1>10. ASSUME NEW r \in Runs, Recover(r), pool' = pool, Pooled' = Pooled
      PROVE  HoldersDiffer'
  BY <1>0, <1>10, PoolAssumption, PooledAreSandboxes DEF Recover, LeaveAs, Goto, HoldersDiffer,
     NewOf, ShapeOf, TypeOK, ShapeInv, NewInv, remote, thread, request, history
<1>11. ASSUME NEW r \in Runs, Unregister(r), pool' = pool, Pooled' = Pooled
      PROVE  HoldersDiffer'
  BY <1>0, <1>11, PoolAssumption, PooledAreSandboxes DEF Unregister, Goto, HoldersDiffer, NewOf,
     ShapeOf, TypeOK, ShapeInv, NewInv, remote, thread, request, history
<1>12. ASSUME NEW r \in Runs, Probe(r), pool' = pool, Pooled' = Pooled
      PROVE  HoldersDiffer'
  BY <1>0, <1>12, PoolAssumption, PooledAreSandboxes DEF Probe, Goto, HoldersDiffer, NewOf,
     ShapeOf, TypeOK, ShapeInv, NewInv, remote, thread, request, history
<1>13. ASSUME NEW r \in Runs, Flag(r), pool' = pool, Pooled' = Pooled
      PROVE  HoldersDiffer'
  BY <1>0, <1>13, PoolAssumption, PooledAreSandboxes DEF Flag, HoldersDiffer, NewOf, ShapeOf,
     TypeOK, ShapeInv, NewInv, remote, thread, request, history
<1>14. ASSUME NEW r \in Runs, LookUp(r), pool' = pool, Pooled' = Pooled
      PROVE  HoldersDiffer'
  BY <1>0, <1>14, PoolAssumption, PooledAreSandboxes DEF LookUp, HoldersDiffer, NewOf, ShapeOf,
     TypeOK, ShapeInv, NewInv, remote, thread, request, history
<1>15. ASSUME NEW r \in Runs, Leased(r)
      PROVE  HoldersDiffer'
  BY <1>0, <1>15, PoolAssumption, PooledAreSandboxes DEF Leased, HoldersDiffer, NewOf, ShapeOf,
     TypeOK, ShapeInv, NewInv, remote, thread, request, history
<1>16. ASSUME NEW r \in Runs, PutBack(r)
      PROVE  HoldersDiffer'
  BY <1>0, <1>16, PoolAssumption, PooledAreSandboxes DEF PutBack, Killed, HoldersDiffer, NewOf,
     ShapeOf, TypeOK, ShapeInv, NewInv, remote, thread, request, history
<1>17. ASSUME NEW r \in Runs, GivenUp(r)
      PROVE  HoldersDiffer'
  BY <1>0, <1>17, PoolAssumption, PooledAreSandboxes DEF GivenUp, Killed, HoldersDiffer, NewOf,
     ShapeOf, TypeOK, ShapeInv, NewInv, remote, thread, request, history
<1>18. ASSUME NEW r \in Runs, TargetKilled(r)
      PROVE  HoldersDiffer'
  BY <1>0, <1>18, PoolAssumption, PooledAreSandboxes DEF TargetKilled, Killed, HoldersDiffer,
     NewOf, ShapeOf, TypeOK, ShapeInv, NewInv, remote, thread, request, history
<1>19. ASSUME NEW S \in SUBSET Sandboxes, Lost(S)
      PROVE  HoldersDiffer'
  BY <1>0, <1>19, PoolAssumption, PooledAreSandboxes DEF Lost, Killed, HoldersDiffer, NewOf,
     ShapeOf, TypeOK, ShapeInv, NewInv, remote, thread, request, history
<1> QED BY <1>1, <1>2, <1>3, <1>4, <1>5, <1>6, <1>7, <1>8, <1>9, <1>10, <1>11, <1>12, <1>13,
   <1>14, <1>15, <1>16, <1>17, <1>18, <1>19 DEF Effect, QuietStep

LEMMA UsedByOneKept ==
    ASSUME PoolInv, PoolStays, Effect
    PROVE  UsedByOne'
<1>1. HoldersDiffer'
  BY HoldersDifferKept
<1>2. \A k, l \in Keys : \A i \in DOMAIN pool'[k], j \in DOMAIN pool'[l] :
          pool'[k][i] = pool'[l][j] => k = l /\ i = j
  BY UniqueIsUsed DEF PoolStays
<1> QED BY <1>1, <1>2 DEF UsedByOne, HoldersDiffer

LEMMA NoSandboxLostKept ==
    ASSUME PoolInv, PoolStays, Effect
    PROVE  NoSandboxLost'
<1>0. TypeOK /\ ShapeInv /\ NoSandboxLost
  BY DEF PoolInv
<1>1. ASSUME NEW r \in Runs, CheckBeforeSpawn(r), pool' = pool, Pooled' = Pooled
      PROVE  NoSandboxLost'
  BY <1>0, <1>1 DEF CheckBeforeSpawn, Goto, NoSandboxLost, ShapeInv, ShapeOf, TypeOK, remote,
     thread, request, history
<1>2. ASSUME NEW r \in Runs, Create(r), pool' = pool, Pooled' = Pooled
      PROVE  NoSandboxLost'
  <2> SUFFICES ASSUME NEW s \in Sandboxes, state'[s] = "up",
                      s \notin Pooled' \cup escaped' \cup unseen'
               PROVE  \E q \in Runs : holds'[q] = s
    BY DEF NoSandboxLost
  <2>1. state[s] = "up" => s \in Pooled \cup escaped \cup unseen \/ \E q \in Runs : holds[q] = s
    BY <1>0 DEF NoSandboxLost
  <2>2. /\ holds[r] = NoSandbox /\ escaped' = escaped /\ unseen' = unseen
        /\ holds' = [holds EXCEPT ![r] = Fresh] /\ holds \in [Runs -> Sandboxes \cup {NoSandbox}]
        /\ state' = [state EXCEPT ![Fresh] = "up"] /\ state \in [Sandboxes -> {"new", "up", "down"}]
    BY <1>0, <1>2 DEF Create, ShapeInv, ShapeOf, TypeOK, remote, thread, request, history
  <2>3. CASE s = Fresh
    BY <2>2, <2>3
  <2>4. CASE s # Fresh
    <3>1. PICK q \in Runs : holds[q] = s
      BY <1>2, <2>1, <2>2, <2>4
    <3>2. q # r
      BY <2>2, <3>1, PoolAssumption
    <3> QED BY <2>2, <3>1, <3>2
  <2> QED BY <2>3, <2>4
<1>3. ASSUME NEW r \in Runs, CreateFails(r), pool' = pool, Pooled' = Pooled
      PROVE  NoSandboxLost'
  BY <1>0, <1>3 DEF CreateFails, Again, Goto, NoSandboxLost, ShapeInv, ShapeOf, TypeOK, remote,
     thread, request, history
<1>4. ASSUME NEW r \in Runs, Register(r), pool' = pool, Pooled' = Pooled
      PROVE  NoSandboxLost'
  BY <1>0, <1>4 DEF Register, Goto, NoSandboxLost, ShapeInv, ShapeOf, TypeOK, remote, thread,
     request, history
<1>5. ASSUME NEW r \in Runs, PrepareFails(r), pool' = pool, Pooled' = Pooled
      PROVE  NoSandboxLost'
  BY <1>0, <1>5 DEF PrepareFails, LeaveAs, Goto, NoSandboxLost, ShapeInv, ShapeOf, TypeOK,
     remote, thread, request, history
<1>6. ASSUME NEW r \in Runs, CheckBeforeCommand(r), pool' = pool, Pooled' = Pooled
      PROVE  NoSandboxLost'
  BY <1>0, <1>6 DEF CheckBeforeCommand, LeaveAs, Goto, NoSandboxLost, ShapeInv, ShapeOf, TypeOK,
     remote, thread, request, history
<1>7. ASSUME NEW r \in Runs, Start(r), pool' = pool, Pooled' = Pooled
      PROVE  NoSandboxLost'
  BY <1>0, <1>7 DEF Start, Goto, NoSandboxLost, ShapeInv, ShapeOf, TypeOK, remote, thread,
     request, history
<1>8. ASSUME NEW r \in Runs, Return(r), pool' = pool, Pooled' = Pooled
      PROVE  NoSandboxLost'
  BY <1>0, <1>8 DEF Return, LeaveAs, Goto, NoSandboxLost, ShapeInv, ShapeOf, TypeOK, remote,
     thread, request, history
<1>9. ASSUME NEW r \in Runs, Drop(r), pool' = pool, Pooled' = Pooled
      PROVE  NoSandboxLost'
  BY <1>0, <1>9 DEF Drop, LeaveAs, Goto, NoSandboxLost, ShapeInv, ShapeOf, TypeOK, remote,
     thread, request, history
<1>10. ASSUME NEW r \in Runs, Recover(r), pool' = pool, Pooled' = Pooled
      PROVE  NoSandboxLost'
  BY <1>0, <1>10 DEF Recover, LeaveAs, Goto, NoSandboxLost, ShapeInv, ShapeOf, TypeOK, remote,
     thread, request, history
<1>11. ASSUME NEW r \in Runs, Unregister(r), pool' = pool, Pooled' = Pooled
      PROVE  NoSandboxLost'
  BY <1>0, <1>11 DEF Unregister, Goto, NoSandboxLost, ShapeInv, ShapeOf, TypeOK, remote, thread,
     request, history
<1>12. ASSUME NEW r \in Runs, Probe(r), pool' = pool, Pooled' = Pooled
      PROVE  NoSandboxLost'
  BY <1>0, <1>12 DEF Probe, Goto, NoSandboxLost, ShapeInv, ShapeOf, TypeOK, remote, thread,
     request, history
<1>13. ASSUME NEW r \in Runs, Flag(r), pool' = pool, Pooled' = Pooled
      PROVE  NoSandboxLost'
  BY <1>0, <1>13 DEF Flag, NoSandboxLost, ShapeInv, ShapeOf, TypeOK, remote, thread, request,
     history
<1>14. ASSUME NEW r \in Runs, LookUp(r), pool' = pool, Pooled' = Pooled
      PROVE  NoSandboxLost'
  BY <1>0, <1>14 DEF LookUp, NoSandboxLost, ShapeInv, ShapeOf, TypeOK, remote, thread, request,
     history
<1>15. ASSUME NEW r \in Runs, Leased(r)
      PROVE  NoSandboxLost'
  <2> SUFFICES ASSUME NEW s \in Sandboxes, state'[s] = "up",
                      s \notin Pooled' \cup escaped' \cup unseen'
               PROVE  \E q \in Runs : holds'[q] = s
    BY DEF NoSandboxLost
  <2>1. state[s] = "up" => s \in Pooled \cup escaped \cup unseen \/ \E q \in Runs : holds[q] = s
    BY <1>0 DEF NoSandboxLost
  <2>2. PICK t \in Sandboxes \cap Pooled : holds' = [holds EXCEPT ![r] = t] /\ Pooled' = Pooled \ {t}
    BY <1>15 DEF Leased
  <2>3. /\ holds[r] = NoSandbox /\ escaped' = escaped /\ unseen' = unseen /\ state' = state
        /\ holds \in [Runs -> Sandboxes \cup {NoSandbox}]
    BY <1>0, <1>15 DEF Leased, ShapeInv, ShapeOf, TypeOK, remote, thread, request, history
  <2>4. CASE s = t
    BY <2>2, <2>3, <2>4
  <2>5. CASE s # t
    <3>1. PICK q \in Runs : holds[q] = s
      BY <2>1, <2>2, <2>3, <2>5
    <3>2. q # r
      BY <2>3, <3>1, PoolAssumption
    <3> QED BY <2>2, <2>3, <3>1, <3>2
  <2> QED BY <2>4, <2>5
<1>16. ASSUME NEW r \in Runs, PutBack(r)
      PROVE  NoSandboxLost'
  BY <1>0, <1>16 DEF PutBack, Killed, NoSandboxLost, ShapeInv, ShapeOf, TypeOK, remote, thread,
     request, history
<1>17. ASSUME NEW r \in Runs, GivenUp(r)
      PROVE  NoSandboxLost'
  <2> SUFFICES ASSUME NEW s \in Sandboxes, state'[s] = "up",
                      s \notin Pooled' \cup escaped' \cup unseen'
               PROVE  \E q \in Runs : holds'[q] = s
    BY DEF NoSandboxLost
  <2>1. state[s] = "up" => s \in Pooled \cup escaped \cup unseen \/ \E q \in Runs : holds[q] = s
    BY <1>0 DEF NoSandboxLost
  <2>2. /\ holds[r] \in Sandboxes /\ Killed({holds[r]}) /\ Pooled' = Pooled /\ unseen' = unseen
        /\ holds' = [holds EXCEPT ![r] = NoSandbox] /\ holds \in [Runs -> Sandboxes \cup {NoSandbox}]
    BY <1>0, <1>17 DEF GivenUp, TypeOK
  <2>3. state[s] = "up" /\ s # holds[r] /\ escaped \subseteq escaped'
    BY <2>2 DEF Killed
  <2>4. PICK q \in Runs : holds[q] = s
    BY <2>1, <2>2, <2>3
  <2> QED BY <2>2, <2>3, <2>4
<1>18. ASSUME NEW r \in Runs, TargetKilled(r)
      PROVE  NoSandboxLost'
  BY <1>0, <1>18 DEF TargetKilled, Killed, NoSandboxLost, ShapeInv, ShapeOf, TypeOK, remote,
     thread, request, history
<1>19. ASSUME NEW S \in SUBSET Sandboxes, Lost(S)
      PROVE  NoSandboxLost'
  <2> SUFFICES ASSUME NEW s \in Sandboxes, state'[s] = "up",
                      s \notin Pooled' \cup escaped' \cup unseen'
               PROVE  \E q \in Runs : holds'[q] = s
    BY DEF NoSandboxLost
  <2>1. state[s] = "up" => s \in Pooled \cup escaped \cup unseen \/ \E q \in Runs : holds[q] = s
    BY <1>0 DEF NoSandboxLost
  <2>2. /\ holds' = holds /\ Killed(S) /\ Pooled \subseteq Pooled' \cup S /\ unseen' = unseen
    BY <1>19 DEF Lost, thread
  <2>3. state[s] = "up" /\ s \notin S /\ escaped \subseteq escaped'
    BY <2>2 DEF Killed
  <2> QED BY <2>1, <2>2, <2>3
<1> QED BY <1>1, <1>2, <1>3, <1>4, <1>5, <1>6, <1>7, <1>8, <1>9, <1>10, <1>11, <1>12, <1>13,
   <1>14, <1>15, <1>16, <1>17, <1>18, <1>19 DEF Effect, QuietStep

LEMMA UpInvKept ==
    ASSUME PoolInv, PoolStays, Effect
    PROVE  UpInv'
<1> SUFFICES ASSUME NEW s \in Sandboxes PROVE UpOf(s)'
  BY DEF UpInv
<1>0. TypeOK /\ UpInv /\ UpOf(s)
  BY DEF PoolInv, UpInv
<1>1. ASSUME NEW r \in Runs, CheckBeforeSpawn(r), pool' = pool, Pooled' = Pooled
      PROVE  UpOf(s)'
  BY <1>0, <1>1 DEF CheckBeforeSpawn, Goto, UpOf, TypeOK, remote, thread, request, history
<1>2. ASSUME NEW r \in Runs, Create(r), pool' = pool, Pooled' = Pooled
      PROVE  UpOf(s)'
  BY <1>0, <1>2, FreshIsNew DEF Create, Goto, UpOf, TypeOK, remote, thread, request, history
<1>3. ASSUME NEW r \in Runs, CreateFails(r), pool' = pool, Pooled' = Pooled
      PROVE  UpOf(s)'
  BY <1>0, <1>3 DEF CreateFails, Again, Goto, UpOf, TypeOK, remote, thread, request, history
<1>4. ASSUME NEW r \in Runs, Register(r), pool' = pool, Pooled' = Pooled
      PROVE  UpOf(s)'
  BY <1>0, <1>4 DEF Register, Goto, UpOf, TypeOK, remote, thread, request, history
<1>5. ASSUME NEW r \in Runs, PrepareFails(r), pool' = pool, Pooled' = Pooled
      PROVE  UpOf(s)'
  BY <1>0, <1>5 DEF PrepareFails, LeaveAs, Goto, UpOf, TypeOK, remote, thread, request, history
<1>6. ASSUME NEW r \in Runs, CheckBeforeCommand(r), pool' = pool, Pooled' = Pooled
      PROVE  UpOf(s)'
  BY <1>0, <1>6 DEF CheckBeforeCommand, LeaveAs, Goto, UpOf, TypeOK, remote, thread, request,
     history
<1>7. ASSUME NEW r \in Runs, Start(r), pool' = pool, Pooled' = Pooled
      PROVE  UpOf(s)'
  BY <1>0, <1>7 DEF Start, Goto, UpOf, TypeOK, remote, thread, request, history
<1>8. ASSUME NEW r \in Runs, Return(r), pool' = pool, Pooled' = Pooled
      PROVE  UpOf(s)'
  BY <1>0, <1>8 DEF Return, LeaveAs, Goto, UpOf, TypeOK, remote, thread, request, history
<1>9. ASSUME NEW r \in Runs, Drop(r), pool' = pool, Pooled' = Pooled
      PROVE  UpOf(s)'
  BY <1>0, <1>9 DEF Drop, LeaveAs, Goto, UpOf, TypeOK, remote, thread, request, history
<1>10. ASSUME NEW r \in Runs, Recover(r), pool' = pool, Pooled' = Pooled
      PROVE  UpOf(s)'
  BY <1>0, <1>10 DEF Recover, LeaveAs, Goto, UpOf, TypeOK, remote, thread, request, history
<1>11. ASSUME NEW r \in Runs, Unregister(r), pool' = pool, Pooled' = Pooled
      PROVE  UpOf(s)'
  BY <1>0, <1>11 DEF Unregister, Goto, UpOf, TypeOK, remote, thread, request, history
<1>12. ASSUME NEW r \in Runs, Probe(r), pool' = pool, Pooled' = Pooled
      PROVE  UpOf(s)'
  BY <1>0, <1>12 DEF Probe, Goto, UpOf, TypeOK, remote, thread, request, history
<1>13. ASSUME NEW r \in Runs, Flag(r), pool' = pool, Pooled' = Pooled
      PROVE  UpOf(s)'
  BY <1>0, <1>13 DEF Flag, UpOf, TypeOK, remote, thread, request, history
<1>14. ASSUME NEW r \in Runs, LookUp(r), pool' = pool, Pooled' = Pooled
      PROVE  UpOf(s)'
  BY <1>0, <1>14 DEF LookUp, UpOf, TypeOK, remote, thread, request, history
<1>15. ASSUME NEW r \in Runs, Leased(r)
      PROVE  UpOf(s)'
  BY <1>0, <1>15 DEF Leased, UpOf, TypeOK, remote, thread, request, history
<1>16. ASSUME NEW r \in Runs, PutBack(r)
      PROVE  UpOf(s)'
  BY <1>0, <1>16 DEF PutBack, Killed, UpOf, TypeOK, remote, thread, request, history
<1>17. ASSUME NEW r \in Runs, GivenUp(r)
      PROVE  UpOf(s)'
  BY <1>0, <1>17 DEF GivenUp, Killed, UpOf, TypeOK, remote, thread, request, history
<1>18. ASSUME NEW r \in Runs, TargetKilled(r)
      PROVE  UpOf(s)'
  BY <1>0, <1>18 DEF TargetKilled, Killed, UpOf, TypeOK, remote, thread, request, history
<1>19. ASSUME NEW S \in SUBSET Sandboxes, Lost(S)
      PROVE  UpOf(s)'
  BY <1>0, <1>19 DEF Lost, Killed, UpOf, TypeOK, remote, thread, request, history
<1> QED BY <1>1, <1>2, <1>3, <1>4, <1>5, <1>6, <1>7, <1>8, <1>9, <1>10, <1>11, <1>12, <1>13,
   <1>14, <1>15, <1>16, <1>17, <1>18, <1>19 DEF Effect, QuietStep

LEMMA KeptInvKept ==
    ASSUME PoolInv, PoolStays, Effect
    PROVE  KeptInv'
<1> SUFFICES ASSUME NEW q \in Runs PROVE KeptOf(q)'
  BY DEF KeptInv
<1>0. /\ TypeOK /\ ShapeInv /\ UpInv /\ KeptInv /\ NoCommandLeftBehind /\ HoldersDiffer
      /\ ShapeOf(q) /\ KeptOf(q)
  BY DEF PoolInv, UsedByOne, HoldersDiffer, ShapeInv, UpInv, KeptInv
<1>1. ASSUME NEW r \in Runs, CheckBeforeSpawn(r), pool' = pool, Pooled' = Pooled
      PROVE  KeptOf(q)'
  BY <1>0, <1>1 DEF CheckBeforeSpawn, Goto, KeptOf, ShapeOf, NoCommandLeftBehind, UpInv, UpOf,
     HoldersDiffer, TypeOK, remote, thread, request, history
<1>2. ASSUME NEW r \in Runs, Create(r), pool' = pool, Pooled' = Pooled
      PROVE  KeptOf(q)'
  BY <1>0, <1>2, FreshIsNew DEF Create, Goto, KeptOf, ShapeOf, NoCommandLeftBehind, UpInv, UpOf,
     HoldersDiffer, TypeOK, remote, thread, request, history
<1>3. ASSUME NEW r \in Runs, CreateFails(r), pool' = pool, Pooled' = Pooled
      PROVE  KeptOf(q)'
  BY <1>0, <1>3 DEF CreateFails, Again, Goto, KeptOf, ShapeOf, NoCommandLeftBehind, UpInv, UpOf,
     HoldersDiffer, TypeOK, remote, thread, request, history
<1>4. ASSUME NEW r \in Runs, Register(r), pool' = pool, Pooled' = Pooled
      PROVE  KeptOf(q)'
  BY <1>0, <1>4 DEF Register, Goto, KeptOf, ShapeOf, NoCommandLeftBehind, UpInv, UpOf,
     HoldersDiffer, TypeOK, remote, thread, request, history
<1>5. ASSUME NEW r \in Runs, PrepareFails(r), pool' = pool, Pooled' = Pooled
      PROVE  KeptOf(q)'
  BY <1>0, <1>5 DEF PrepareFails, LeaveAs, Goto, KeptOf, ShapeOf, NoCommandLeftBehind, UpInv,
     UpOf, HoldersDiffer, TypeOK, remote, thread, request, history
<1>6. ASSUME NEW r \in Runs, CheckBeforeCommand(r), pool' = pool, Pooled' = Pooled
      PROVE  KeptOf(q)'
  BY <1>0, <1>6 DEF CheckBeforeCommand, LeaveAs, Goto, KeptOf, ShapeOf, NoCommandLeftBehind,
     UpInv, UpOf, HoldersDiffer, TypeOK, remote, thread, request, history
<1>7. ASSUME NEW r \in Runs, Start(r), pool' = pool, Pooled' = Pooled
      PROVE  KeptOf(q)'
  BY <1>0, <1>7 DEF Start, Goto, KeptOf, ShapeOf, NoCommandLeftBehind, UpInv, UpOf,
     HoldersDiffer, TypeOK, remote, thread, request, history
<1>8. ASSUME NEW r \in Runs, Return(r), pool' = pool, Pooled' = Pooled
      PROVE  KeptOf(q)'
  BY <1>0, <1>8 DEF Return, LeaveAs, Goto, KeptOf, ShapeOf, NoCommandLeftBehind, UpInv, UpOf,
     HoldersDiffer, TypeOK, remote, thread, request, history
<1>9. ASSUME NEW r \in Runs, Drop(r), pool' = pool, Pooled' = Pooled
      PROVE  KeptOf(q)'
  BY <1>0, <1>9 DEF Drop, LeaveAs, Goto, KeptOf, ShapeOf, NoCommandLeftBehind, UpInv, UpOf,
     HoldersDiffer, TypeOK, remote, thread, request, history
<1>10. ASSUME NEW r \in Runs, Recover(r), pool' = pool, Pooled' = Pooled
      PROVE  KeptOf(q)'
  BY <1>0, <1>10 DEF Recover, LeaveAs, Goto, KeptOf, ShapeOf, NoCommandLeftBehind, UpInv, UpOf,
     HoldersDiffer, TypeOK, remote, thread, request, history
<1>11. ASSUME NEW r \in Runs, Unregister(r), pool' = pool, Pooled' = Pooled
      PROVE  KeptOf(q)'
  BY <1>0, <1>11 DEF Unregister, Goto, KeptOf, ShapeOf, NoCommandLeftBehind, UpInv, UpOf,
     HoldersDiffer, TypeOK, remote, thread, request, history
<1>12. ASSUME NEW r \in Runs, Probe(r), pool' = pool, Pooled' = Pooled
      PROVE  KeptOf(q)'
  BY <1>0, <1>12 DEF Probe, Goto, KeptOf, ShapeOf, NoCommandLeftBehind, UpInv, UpOf,
     HoldersDiffer, TypeOK, remote, thread, request, history
<1>13. ASSUME NEW r \in Runs, Flag(r), pool' = pool, Pooled' = Pooled
      PROVE  KeptOf(q)'
  BY <1>0, <1>13 DEF Flag, KeptOf, ShapeOf, NoCommandLeftBehind, UpInv, UpOf, HoldersDiffer,
     TypeOK, remote, thread, request, history
<1>14. ASSUME NEW r \in Runs, LookUp(r), pool' = pool, Pooled' = Pooled
      PROVE  KeptOf(q)'
  BY <1>0, <1>14 DEF LookUp, KeptOf, ShapeOf, NoCommandLeftBehind, UpInv, UpOf, HoldersDiffer,
     TypeOK, remote, thread, request, history
<1>15. ASSUME NEW r \in Runs, Leased(r)
      PROVE  KeptOf(q)'
  BY <1>0, <1>15 DEF Leased, KeptOf, ShapeOf, NoCommandLeftBehind, UpInv, UpOf, HoldersDiffer,
     TypeOK, remote, thread, request, history
<1>16. ASSUME NEW r \in Runs, PutBack(r)
      PROVE  KeptOf(q)'
  BY ZenonT(60), <1>0, <1>16 DEF PutBack, Killed, KeptOf, ShapeOf, NoCommandLeftBehind, UpInv, UpOf,
     HoldersDiffer, TypeOK, remote, thread, request, history
<1>17. ASSUME NEW r \in Runs, GivenUp(r)
      PROVE  KeptOf(q)'
  BY <1>0, <1>17 DEF GivenUp, Killed, KeptOf, ShapeOf, NoCommandLeftBehind, UpInv, UpOf,
     HoldersDiffer, TypeOK, remote, thread, request, history
<1>18. ASSUME NEW r \in Runs, TargetKilled(r)
      PROVE  KeptOf(q)'
  BY ZenonT(60), <1>0, <1>18 DEF TargetKilled, Killed, KeptOf, ShapeOf, NoCommandLeftBehind, UpInv, UpOf,
     HoldersDiffer, TypeOK, remote, thread, request, history
<1>19. ASSUME NEW S \in SUBSET Sandboxes, Lost(S)
      PROVE  KeptOf(q)'
  BY ZenonT(60), <1>0, <1>19 DEF Lost, Killed, KeptOf, ShapeOf, NoCommandLeftBehind, UpInv, UpOf,
     HoldersDiffer, TypeOK, remote, thread, request, history
<1> QED BY <1>1, <1>2, <1>3, <1>4, <1>5, <1>6, <1>7, <1>8, <1>9, <1>10, <1>11, <1>12, <1>13,
   <1>14, <1>15, <1>16, <1>17, <1>18, <1>19 DEF Effect, QuietStep

LEMMA NoCommandLeftBehindKept ==
    ASSUME PoolInv, PoolStays, Effect
    PROVE  NoCommandLeftBehind'
<1>0. TypeOK /\ ShapeInv /\ NewInv /\ UpInv /\ KeptInv /\ NoCommandLeftBehind /\ HoldersDiffer
  BY DEF PoolInv, UsedByOne, HoldersDiffer
<1>00. Pooled' \subseteq Sandboxes /\ holds' \in [Runs -> Sandboxes \cup {NoSandbox}]
  <2>1. TypeOK'
    BY TypeOKKept
  <2>2. \A k \in Keys : \A i \in 1 .. Len(pool'[k]) : pool'[k][i] \in Sandboxes
    BY ElementOfSeq DEF PoolStays, PoolType
  <2> QED BY <2>1, <2>2, PooledSubset, PooledIsPooledIn DEF TypeOK
<1>1. ASSUME NEW r \in Runs, CheckBeforeSpawn(r), pool' = pool, Pooled' = Pooled
      PROVE  NoCommandLeftBehind'
  BY <1>0, <1>1, PoolAssumption DEF CheckBeforeSpawn, Goto, NoCommandLeftBehind, KeptInv,
     KeptOf, ShapeInv, ShapeOf, UpInv, UpOf, HoldersDiffer, NewInv, NewOf, TypeOK, remote,
     thread, request, history
<1>2. ASSUME NEW r \in Runs, Create(r), pool' = pool, Pooled' = Pooled
      PROVE  NoCommandLeftBehind'
  BY <1>0, <1>2, PoolAssumption, FreshIsNew DEF Create, Goto, NoCommandLeftBehind, KeptInv,
     KeptOf, ShapeInv, ShapeOf, UpInv, UpOf, HoldersDiffer, NewInv, NewOf, TypeOK, remote,
     thread, request, history
<1>3. ASSUME NEW r \in Runs, CreateFails(r), pool' = pool, Pooled' = Pooled
      PROVE  NoCommandLeftBehind'
  BY <1>0, <1>3, PoolAssumption DEF CreateFails, Again, Goto, NoCommandLeftBehind, KeptInv,
     KeptOf, ShapeInv, ShapeOf, UpInv, UpOf, HoldersDiffer, NewInv, NewOf, TypeOK, remote,
     thread, request, history
<1>4. ASSUME NEW r \in Runs, Register(r), pool' = pool, Pooled' = Pooled
      PROVE  NoCommandLeftBehind'
  BY <1>0, <1>4, PoolAssumption DEF Register, Goto, NoCommandLeftBehind, KeptInv, KeptOf,
     ShapeInv, ShapeOf, UpInv, UpOf, HoldersDiffer, NewInv, NewOf, TypeOK, remote, thread,
     request, history
<1>5. ASSUME NEW r \in Runs, PrepareFails(r), pool' = pool, Pooled' = Pooled
      PROVE  NoCommandLeftBehind'
  BY <1>0, <1>5, PoolAssumption DEF PrepareFails, LeaveAs, Goto, NoCommandLeftBehind, KeptInv,
     KeptOf, ShapeInv, ShapeOf, UpInv, UpOf, HoldersDiffer, NewInv, NewOf, TypeOK, remote,
     thread, request, history
<1>6. ASSUME NEW r \in Runs, CheckBeforeCommand(r), pool' = pool, Pooled' = Pooled
      PROVE  NoCommandLeftBehind'
  BY <1>0, <1>6, PoolAssumption DEF CheckBeforeCommand, LeaveAs, Goto, NoCommandLeftBehind,
     KeptInv, KeptOf, ShapeInv, ShapeOf, UpInv, UpOf, HoldersDiffer, NewInv, NewOf, TypeOK,
     remote, thread, request, history
<1>7. ASSUME NEW r \in Runs, Start(r), pool' = pool, Pooled' = Pooled
      PROVE  NoCommandLeftBehind'
  <2> SUFFICES /\ \A s \in Sandboxes : s \in Pooled' \ unended' => commands'[s] = {}
               /\ \A q \in Runs : holds'[q] \in Sandboxes \ unended' => commands'[holds'[q]] \subseteq {q}
    BY <1>00 DEF NoCommandLeftBehind
  <2>1. /\ holds[r] \in Sandboxes /\ holds' = holds /\ unended' = unended
        /\ \/ commands' = [commands EXCEPT ![holds[r]] = @ \cup {r}]
           \/ commands' = commands
    BY <1>0, <1>7, HoldsIsSandbox DEF Start, remote, thread, request, history
  <2>2. \A s \in Sandboxes : s # holds[r] => commands'[s] = commands[s]
    BY <1>0, <2>1 DEF TypeOK
  <2>3. commands'[holds[r]] \subseteq commands[holds[r]] \cup {r}
    BY <1>0, <2>1 DEF TypeOK
  <2>4. \A s \in Sandboxes : s \in Pooled' \ unended' => commands'[s] = {}
    BY <1>0, <1>7, <2>1, <2>2 DEF NoCommandLeftBehind, HoldersDiffer
  <2>5. ASSUME NEW q \in Runs, holds'[q] \in Sandboxes \ unended'
        PROVE  commands'[holds'[q]] \subseteq {q}
    <3>1. commands[holds[q]] \subseteq {q}
      BY <1>0, <2>1, <2>5, PoolAssumption DEF NoCommandLeftBehind
    <3>2. CASE q = r
      BY <2>1, <2>3, <3>1, <3>2
    <3>3. CASE q # r
      BY <1>0, <2>1, <2>2, <2>5, <3>1, <3>3, PoolAssumption DEF HoldersDiffer
    <3> QED BY <3>2, <3>3
  <2> QED BY <2>4, <2>5
<1>8. ASSUME NEW r \in Runs, Return(r), pool' = pool, Pooled' = Pooled
      PROVE  NoCommandLeftBehind'
  BY <1>0, <1>8, PoolAssumption DEF Return, LeaveAs, Goto, NoCommandLeftBehind, KeptInv, KeptOf,
     ShapeInv, ShapeOf, UpInv, UpOf, HoldersDiffer, NewInv, NewOf, TypeOK, remote, thread,
     request, history
<1>9. ASSUME NEW r \in Runs, Drop(r), pool' = pool, Pooled' = Pooled
      PROVE  NoCommandLeftBehind'
  BY <1>0, <1>9, PoolAssumption DEF Drop, LeaveAs, Goto, NoCommandLeftBehind, KeptInv, KeptOf,
     ShapeInv, ShapeOf, UpInv, UpOf, HoldersDiffer, NewInv, NewOf, TypeOK, remote, thread,
     request, history
<1>10. ASSUME NEW r \in Runs, Recover(r), pool' = pool, Pooled' = Pooled
      PROVE  NoCommandLeftBehind'
  BY <1>0, <1>10, PoolAssumption DEF Recover, LeaveAs, Goto, NoCommandLeftBehind, KeptInv,
     KeptOf, ShapeInv, ShapeOf, UpInv, UpOf, HoldersDiffer, NewInv, NewOf, TypeOK, remote,
     thread, request, history
<1>11. ASSUME NEW r \in Runs, Unregister(r), pool' = pool, Pooled' = Pooled
      PROVE  NoCommandLeftBehind'
  BY <1>0, <1>11, PoolAssumption DEF Unregister, Goto, NoCommandLeftBehind, KeptInv, KeptOf,
     ShapeInv, ShapeOf, UpInv, UpOf, HoldersDiffer, NewInv, NewOf, TypeOK, remote, thread,
     request, history
<1>12. ASSUME NEW r \in Runs, Probe(r), pool' = pool, Pooled' = Pooled
      PROVE  NoCommandLeftBehind'
  BY <1>0, <1>12, PoolAssumption DEF Probe, Goto, NoCommandLeftBehind, KeptInv, KeptOf,
     ShapeInv, ShapeOf, UpInv, UpOf, HoldersDiffer, NewInv, NewOf, TypeOK, remote, thread,
     request, history
<1>13. ASSUME NEW r \in Runs, Flag(r), pool' = pool, Pooled' = Pooled
      PROVE  NoCommandLeftBehind'
  BY <1>0, <1>13, PoolAssumption DEF Flag, NoCommandLeftBehind, KeptInv, KeptOf, ShapeInv,
     ShapeOf, UpInv, UpOf, HoldersDiffer, NewInv, NewOf, TypeOK, remote, thread, request,
     history
<1>14. ASSUME NEW r \in Runs, LookUp(r), pool' = pool, Pooled' = Pooled
      PROVE  NoCommandLeftBehind'
  BY <1>0, <1>14, PoolAssumption DEF LookUp, NoCommandLeftBehind, KeptInv, KeptOf, ShapeInv,
     ShapeOf, UpInv, UpOf, HoldersDiffer, NewInv, NewOf, TypeOK, remote, thread, request,
     history
<1>15. ASSUME NEW r \in Runs, Leased(r)
      PROVE  NoCommandLeftBehind'
  BY <1>0, <1>15, PoolAssumption DEF Leased, NoCommandLeftBehind, KeptInv, KeptOf, ShapeInv,
     ShapeOf, UpInv, UpOf, HoldersDiffer, NewInv, NewOf, TypeOK, remote, thread, request,
     history
<1>16. ASSUME NEW r \in Runs, PutBack(r)
      PROVE  NoCommandLeftBehind'
  <2> SUFFICES /\ \A s \in Sandboxes : s \in Pooled' \ unended' => commands'[s] = {}
               /\ \A q \in Runs : holds'[q] \in Sandboxes \ unended' => commands'[holds'[q]] \subseteq {q}
    BY <1>00 DEF NoCommandLeftBehind
  <2>1. PICK S \in SUBSET Sandboxes : Killed(S) /\ Pooled' = (Pooled \cup {holds[r]}) \ S
    BY <1>16 DEF PutBack
  <2>2. \A s \in Sandboxes : commands'[s] \subseteq commands[s]
    BY <2>1 DEF Killed
  <2>3. /\ unended' = unended /\ holds[r] \in Sandboxes /\ at[r] = "pooling"
        /\ holds' = [holds EXCEPT ![r] = NoSandbox] /\ holds \in [Runs -> Sandboxes \cup {NoSandbox}]
    BY <1>0, <1>16 DEF PutBack, TypeOK
  <2>4. holds[r] \notin unended => commands[holds[r]] = {}
    BY <1>0, <2>3 DEF ShapeInv, ShapeOf, KeptInv, KeptOf
  <2>5. \A s \in Sandboxes : s \in Pooled' \ unended' => commands'[s] = {}
    BY <1>0, <2>1, <2>2, <2>3, <2>4 DEF NoCommandLeftBehind
  <2>6. \A q \in Runs : holds'[q] \in Sandboxes => holds'[q] = holds[q]
    BY <2>3, PoolAssumption
  <2>7. ASSUME NEW q \in Runs, holds'[q] \in Sandboxes \ unended'
        PROVE  commands'[holds'[q]] \subseteq {q}
    BY <1>0, <2>2, <2>3, <2>6, <2>7, PoolAssumption DEF NoCommandLeftBehind
  <2> QED BY <2>5, <2>7
<1>17. ASSUME NEW r \in Runs, GivenUp(r)
      PROVE  NoCommandLeftBehind'
  <2> SUFFICES /\ \A s \in Sandboxes : s \in Pooled' \ unended' => commands'[s] = {}
               /\ \A q \in Runs : holds'[q] \in Sandboxes \ unended' => commands'[holds'[q]] \subseteq {q}
    BY <1>00 DEF NoCommandLeftBehind
  <2>1. /\ unended' = unended /\ Pooled' = Pooled
        /\ holds' = [holds EXCEPT ![r] = NoSandbox] /\ holds \in [Runs -> Sandboxes \cup {NoSandbox}]
    BY <1>0, <1>17 DEF GivenUp, Killed, TypeOK, thread
  <2>2. \A s \in Sandboxes : commands'[s] \subseteq commands[s]
    BY <1>17 DEF GivenUp, Killed
  <2>3. \A q \in Runs : holds'[q] \in Sandboxes => holds'[q] = holds[q]
    BY <2>1, PoolAssumption
  <2>4. \A s \in Sandboxes : s \in Pooled' \ unended' => commands'[s] = {}
    BY <1>0, <2>1, <2>2 DEF NoCommandLeftBehind
  <2>5. ASSUME NEW q \in Runs, holds'[q] \in Sandboxes \ unended'
        PROVE  commands'[holds'[q]] \subseteq {q}
    BY <1>0, <2>1, <2>2, <2>3, <2>5, PoolAssumption DEF NoCommandLeftBehind
  <2> QED BY <2>4, <2>5
<1>18. ASSUME NEW r \in Runs, TargetKilled(r)
      PROVE  NoCommandLeftBehind'
  <2> SUFFICES /\ \A s \in Sandboxes : s \in Pooled' \ unended' => commands'[s] = {}
               /\ \A q \in Runs : holds'[q] \in Sandboxes \ unended' => commands'[holds'[q]] \subseteq {q}
    BY <1>00 DEF NoCommandLeftBehind
  <2>1. unended' = unended /\ Pooled' = Pooled /\ holds' = holds
    BY <1>0, <1>18 DEF TargetKilled, Killed, TypeOK, thread
  <2>2. \A s \in Sandboxes : commands'[s] \subseteq commands[s]
    BY <1>18 DEF TargetKilled, Killed
  <2>3. \A q \in Runs : holds'[q] \in Sandboxes => holds'[q] = holds[q]
    BY <2>1, PoolAssumption
  <2>4. \A s \in Sandboxes : s \in Pooled' \ unended' => commands'[s] = {}
    BY <1>0, <2>1, <2>2 DEF NoCommandLeftBehind
  <2>5. ASSUME NEW q \in Runs, holds'[q] \in Sandboxes \ unended'
        PROVE  commands'[holds'[q]] \subseteq {q}
    BY <1>0, <2>1, <2>2, <2>3, <2>5, PoolAssumption DEF NoCommandLeftBehind
  <2> QED BY <2>4, <2>5
<1>19. ASSUME NEW S \in SUBSET Sandboxes, Lost(S)
      PROVE  NoCommandLeftBehind'
  <2> SUFFICES /\ \A s \in Sandboxes : s \in Pooled' \ unended' => commands'[s] = {}
               /\ \A q \in Runs : holds'[q] \in Sandboxes \ unended' => commands'[holds'[q]] \subseteq {q}
    BY <1>00 DEF NoCommandLeftBehind
  <2>1. unended' = unended /\ Pooled' \subseteq Pooled /\ holds' = holds
    BY <1>0, <1>19 DEF Lost, Killed, TypeOK, thread
  <2>2. \A s \in Sandboxes : commands'[s] \subseteq commands[s]
    BY <1>19 DEF Lost, Killed
  <2>3. \A q \in Runs : holds'[q] \in Sandboxes => holds'[q] = holds[q]
    BY <2>1, PoolAssumption
  <2>4. \A s \in Sandboxes : s \in Pooled' \ unended' => commands'[s] = {}
    BY <1>0, <2>1, <2>2 DEF NoCommandLeftBehind
  <2>5. ASSUME NEW q \in Runs, holds'[q] \in Sandboxes \ unended'
        PROVE  commands'[holds'[q]] \subseteq {q}
    BY <1>0, <2>1, <2>2, <2>3, <2>5, PoolAssumption DEF NoCommandLeftBehind
  <2> QED BY <2>4, <2>5
<1> QED BY <1>1, <1>2, <1>3, <1>4, <1>5, <1>6, <1>7, <1>8, <1>9, <1>10, <1>11, <1>12, <1>13,
   <1>14, <1>15, <1>16, <1>17, <1>18, <1>19 DEF Effect, QuietStep

LEMMA OwnerInvKept ==
    ASSUME PoolInv, PoolStays, Effect
    PROVE  OwnerInv'
<1> SUFFICES ASSUME NEW s \in Sandboxes PROVE OwnerOf(s)'
  BY DEF OwnerInv
<1>0. TypeOK /\ ShapeInv /\ OwnerInv /\ OwnerOf(s)
  BY DEF PoolInv, ShapeInv, OwnerInv
<1>1. ASSUME NEW r \in Runs, CheckBeforeSpawn(r), pool' = pool, Pooled' = Pooled
      PROVE  OwnerOf(s)'
  BY <1>0, <1>1 DEF CheckBeforeSpawn, Goto, OwnerOf, ShapeInv, ShapeOf, TypeOK, remote, thread,
     request, history
<1>2. ASSUME NEW r \in Runs, Create(r), pool' = pool, Pooled' = Pooled
      PROVE  OwnerOf(s)'
  BY <1>0, <1>2, FreshIsNew DEF Create, Goto, OwnerOf, ShapeInv, ShapeOf, TypeOK, remote,
     thread, request, history
<1>3. ASSUME NEW r \in Runs, CreateFails(r), pool' = pool, Pooled' = Pooled
      PROVE  OwnerOf(s)'
  BY ZenonT(60), <1>0, <1>3 DEF CreateFails, Again, Goto, OwnerOf, ShapeInv, ShapeOf, TypeOK, remote,
     thread, request, history
<1>4. ASSUME NEW r \in Runs, Register(r), pool' = pool, Pooled' = Pooled
      PROVE  OwnerOf(s)'
  BY <1>0, <1>4 DEF Register, Goto, OwnerOf, ShapeInv, ShapeOf, TypeOK, remote, thread, request,
     history
<1>5. ASSUME NEW r \in Runs, PrepareFails(r), pool' = pool, Pooled' = Pooled
      PROVE  OwnerOf(s)'
  BY <1>0, <1>5 DEF PrepareFails, LeaveAs, Goto, OwnerOf, ShapeInv, ShapeOf, TypeOK, remote,
     thread, request, history
<1>6. ASSUME NEW r \in Runs, CheckBeforeCommand(r), pool' = pool, Pooled' = Pooled
      PROVE  OwnerOf(s)'
  BY <1>0, <1>6 DEF CheckBeforeCommand, LeaveAs, Goto, OwnerOf, ShapeInv, ShapeOf, TypeOK,
     remote, thread, request, history
<1>7. ASSUME NEW r \in Runs, Start(r), pool' = pool, Pooled' = Pooled
      PROVE  OwnerOf(s)'
  <2>1. commands \in [Sandboxes -> SUBSET Runs] /\ at \in [Runs -> At]
    BY <1>0 DEF TypeOK
  <2>3. at' = [at EXCEPT ![r] = "running"] /\ UNCHANGED <<holds, escaped, unended>>
    BY <1>7 DEF Start, Goto
  <2>4. commands' \in {commands, [commands EXCEPT ![holds[r]] = @ \cup {r}]}
    BY <1>7 DEF Start
  <2>5. commands'[s] \subseteq commands[s] \cup (IF holds[r] = s THEN {r} ELSE {})
    BY <2>1, <2>4
  <2> QED BY <1>0, <2>1, <2>3, <2>5 DEF OwnerOf
<1>8. ASSUME NEW r \in Runs, Return(r), pool' = pool, Pooled' = Pooled
      PROVE  OwnerOf(s)'
  BY <1>0, <1>8 DEF Return, LeaveAs, Goto, OwnerOf, ShapeInv, ShapeOf, TypeOK, remote, thread,
     request, history
<1>9. ASSUME NEW r \in Runs, Drop(r), pool' = pool, Pooled' = Pooled
      PROVE  OwnerOf(s)'
  BY <1>0, <1>9 DEF Drop, LeaveAs, Goto, OwnerOf, ShapeInv, ShapeOf, TypeOK, remote, thread,
     request, history
<1>10. ASSUME NEW r \in Runs, Recover(r), pool' = pool, Pooled' = Pooled
      PROVE  OwnerOf(s)'
  BY <1>0, <1>10 DEF Recover, LeaveAs, Goto, OwnerOf, ShapeInv, ShapeOf, TypeOK, remote, thread,
     request, history
<1>11. ASSUME NEW r \in Runs, Unregister(r), pool' = pool, Pooled' = Pooled
      PROVE  OwnerOf(s)'
  <2>1. /\ at[r] = "leaving"
        /\ exit[r] = "keep" \/ at' = [at EXCEPT ![r] = "killing"]
        /\ \E w \in {"returning", "killing"} : at' = [at EXCEPT ![r] = w]
        /\ holds' = holds /\ commands' = commands /\ escaped' = escaped /\ unended' = unended
    BY <1>11 DEF Unregister, Goto, remote, thread, request, history
  <2>2. ASSUME NEW q \in commands[s], s \notin escaped \cup unended
        PROVE  holds'[q] = s /\ at'[q] \in {"running", "leaving", "killing"}
    <3>1. holds[q] = s /\ at[q] \in {"running", "leaving", "killing"} /\ q \in Runs
      BY <1>0, <2>2 DEF OwnerOf, TypeOK
    <3>2. q = r => exit[r] # "keep"
      BY <1>0, <2>1, <2>2, <3>1 DEF PoolInv, KeptInv, KeptOf
    <3> QED BY <1>0, <2>1, <3>1, <3>2 DEF TypeOK
  <2> QED BY <2>1, <2>2 DEF OwnerOf
<1>12. ASSUME NEW r \in Runs, Probe(r), pool' = pool, Pooled' = Pooled
      PROVE  OwnerOf(s)'
  BY ZenonT(60), <1>0, <1>12 DEF Probe, Goto, OwnerOf, ShapeInv, ShapeOf, TypeOK, remote, thread, request,
     history
<1>13. ASSUME NEW r \in Runs, Flag(r), pool' = pool, Pooled' = Pooled
      PROVE  OwnerOf(s)'
  BY <1>0, <1>13 DEF Flag, OwnerOf, ShapeInv, ShapeOf, TypeOK, remote, thread, request, history
<1>14. ASSUME NEW r \in Runs, LookUp(r), pool' = pool, Pooled' = Pooled
      PROVE  OwnerOf(s)'
  BY <1>0, <1>14 DEF LookUp, OwnerOf, ShapeInv, ShapeOf, TypeOK, remote, thread, request,
     history
<1>15. ASSUME NEW r \in Runs, Leased(r)
      PROVE  OwnerOf(s)'
  BY <1>0, <1>15 DEF Leased, OwnerOf, ShapeInv, ShapeOf, TypeOK, remote, thread, request,
     history
<1>16. ASSUME NEW r \in Runs, PutBack(r)
      PROVE  OwnerOf(s)'
  BY ZenonT(60), <1>0, <1>16 DEF PutBack, Killed, OwnerOf, ShapeInv, ShapeOf, TypeOK, remote, thread,
     request, history
<1>17. ASSUME NEW r \in Runs, GivenUp(r)
      PROVE  OwnerOf(s)'
  <2>1. /\ holds[r] \in Sandboxes /\ Killed({holds[r]}) /\ unended' = unended
        /\ holds' = [holds EXCEPT ![r] = NoSandbox]
        /\ \E w \in {"setup", "done"} : at' = [at EXCEPT ![r] = w]
    BY <1>17 DEF GivenUp
  <2>2. /\ commands'[s] \subseteq commands[s] /\ escaped \subseteq escaped'
        /\ s = holds[r] => commands'[s] = {} \/ s \in escaped'
    BY <1>0, <2>1 DEF Killed, PoolInv, UpInv, UpOf
  <2>3. ASSUME NEW q \in commands'[s], s \notin escaped' \cup unended'
        PROVE  holds'[q] = s /\ at'[q] \in {"running", "leaving", "killing"}
    <3>1. holds[q] = s /\ at[q] \in {"running", "leaving", "killing"} /\ q \in Runs
      BY <1>0, <2>1, <2>2, <2>3 DEF OwnerOf, TypeOK
    <3>2. q # r
      BY <2>2, <2>3, <3>1
    <3> QED BY <1>0, <2>1, <3>1, <3>2 DEF TypeOK
  <2> QED BY <2>3 DEF OwnerOf
<1>18. ASSUME NEW r \in Runs, TargetKilled(r)
      PROVE  OwnerOf(s)'
  BY <1>0, <1>18 DEF TargetKilled, Killed, OwnerOf, ShapeInv, ShapeOf, TypeOK, remote, thread,
     request, history
<1>19. ASSUME NEW S \in SUBSET Sandboxes, Lost(S)
      PROVE  OwnerOf(s)'
  BY <1>0, <1>19 DEF Lost, Killed, OwnerOf, ShapeInv, ShapeOf, TypeOK, remote, thread, request,
     history
<1> QED BY <1>1, <1>2, <1>3, <1>4, <1>5, <1>6, <1>7, <1>8, <1>9, <1>10, <1>11, <1>12, <1>13,
   <1>14, <1>15, <1>16, <1>17, <1>18, <1>19 DEF Effect, QuietStep

LEMMA CancelInvKept ==
    ASSUME PoolInv, PoolStays, Effect
    PROVE  CancelInv'
<1> SUFFICES ASSUME NEW q \in Runs PROVE CancelOf(q)'
  BY DEF CancelInv
<1>0. TypeOK /\ ShapeInv /\ CancelInv /\ ShapeOf(q) /\ CancelOf(q)
  BY DEF PoolInv, ShapeInv, CancelInv
<1>1. ASSUME NEW r \in Runs, CheckBeforeSpawn(r), pool' = pool, Pooled' = Pooled
      PROVE  CancelOf(q)'
  BY <1>0, <1>1 DEF CheckBeforeSpawn, Goto, CancelOf, ShapeOf, TypeOK, remote, thread, request,
     history
<1>2. ASSUME NEW r \in Runs, Create(r), pool' = pool, Pooled' = Pooled
      PROVE  CancelOf(q)'
  BY <1>0, <1>2, FreshIsNew DEF Create, Goto, CancelOf, ShapeOf, TypeOK, remote, thread,
     request, history
<1>3. ASSUME NEW r \in Runs, CreateFails(r), pool' = pool, Pooled' = Pooled
      PROVE  CancelOf(q)'
  <2>1. /\ registered' = registered /\ cancel' = cancel /\ target' = target /\ holds' = holds
        /\ escaped' = escaped /\ unended' = unended /\ flagged' = flagged
    BY <1>3 DEF CreateFails, request
  <2> QED BY <1>0, <1>3, <2>1, FreshIsNew DEF CreateFails, Again, Goto, CancelOf, ShapeOf, TypeOK
<1>4. ASSUME NEW r \in Runs, Register(r), pool' = pool, Pooled' = Pooled
      PROVE  CancelOf(q)'
  BY <1>0, <1>4 DEF Register, Goto, CancelOf, ShapeOf, TypeOK, remote, thread, request, history
<1>5. ASSUME NEW r \in Runs, PrepareFails(r), pool' = pool, Pooled' = Pooled
      PROVE  CancelOf(q)'
  BY <1>0, <1>5 DEF PrepareFails, LeaveAs, Goto, CancelOf, ShapeOf, TypeOK, remote, thread,
     request, history
<1>6. ASSUME NEW r \in Runs, CheckBeforeCommand(r), pool' = pool, Pooled' = Pooled
      PROVE  CancelOf(q)'
  BY <1>0, <1>6 DEF CheckBeforeCommand, LeaveAs, Goto, CancelOf, ShapeOf, TypeOK, remote,
     thread, request, history
<1>7. ASSUME NEW r \in Runs, Start(r), pool' = pool, Pooled' = Pooled
      PROVE  CancelOf(q)'
  BY <1>0, <1>7 DEF Start, Goto, CancelOf, ShapeOf, TypeOK, remote, thread, request, history
<1>8. ASSUME NEW r \in Runs, Return(r), pool' = pool, Pooled' = Pooled
      PROVE  CancelOf(q)'
  BY <1>0, <1>8 DEF Return, LeaveAs, Goto, CancelOf, ShapeOf, TypeOK, remote, thread, request,
     history
<1>9. ASSUME NEW r \in Runs, Drop(r), pool' = pool, Pooled' = Pooled
      PROVE  CancelOf(q)'
  BY <1>0, <1>9 DEF Drop, LeaveAs, Goto, CancelOf, ShapeOf, TypeOK, remote, thread, request,
     history
<1>10. ASSUME NEW r \in Runs, Recover(r), pool' = pool, Pooled' = Pooled
      PROVE  CancelOf(q)'
  BY <1>0, <1>10 DEF Recover, LeaveAs, Goto, CancelOf, ShapeOf, TypeOK, remote, thread, request,
     history
<1>11. ASSUME NEW r \in Runs, Unregister(r), pool' = pool, Pooled' = Pooled
      PROVE  CancelOf(q)'
  BY <1>0, <1>11 DEF Unregister, Goto, CancelOf, ShapeOf, TypeOK, remote, thread, request,
     history
<1>12. ASSUME NEW r \in Runs, Probe(r), pool' = pool, Pooled' = Pooled
      PROVE  CancelOf(q)'
  BY <1>0, <1>12 DEF Probe, Goto, CancelOf, ShapeOf, TypeOK, remote, thread, request, history
<1>13. ASSUME NEW r \in Runs, Flag(r), pool' = pool, Pooled' = Pooled
      PROVE  CancelOf(q)'
  BY <1>0, <1>13 DEF Flag, CancelOf, ShapeOf, TypeOK, remote, thread, request, history
<1>14. ASSUME NEW r \in Runs, LookUp(r), pool' = pool, Pooled' = Pooled
      PROVE  CancelOf(q)'
  BY <1>0, <1>14 DEF LookUp, CancelOf, ShapeOf, TypeOK, remote, thread, request, history
<1>15. ASSUME NEW r \in Runs, Leased(r)
      PROVE  CancelOf(q)'
  BY <1>0, <1>15 DEF Leased, CancelOf, ShapeOf, TypeOK, remote, thread, request, history
<1>16. ASSUME NEW r \in Runs, PutBack(r)
      PROVE  CancelOf(q)'
  BY <1>0, <1>16 DEF PutBack, Killed, CancelOf, ShapeOf, TypeOK, remote, thread, request,
     history
<1>17. ASSUME NEW r \in Runs, GivenUp(r)
      PROVE  CancelOf(q)'
  BY <1>0, <1>17 DEF GivenUp, Killed, CancelOf, ShapeOf, TypeOK, remote, thread, request,
     history
<1>18. ASSUME NEW r \in Runs, TargetKilled(r)
      PROVE  CancelOf(q)'
  BY <1>0, <1>18 DEF TargetKilled, Killed, CancelOf, ShapeOf, TypeOK, remote, thread, request,
     history
<1>19. ASSUME NEW S \in SUBSET Sandboxes, Lost(S)
      PROVE  CancelOf(q)'
  BY <1>0, <1>19 DEF Lost, Killed, CancelOf, ShapeOf, TypeOK, remote, thread, request, history
<1> QED BY <1>1, <1>2, <1>3, <1>4, <1>5, <1>6, <1>7, <1>8, <1>9, <1>10, <1>11, <1>12, <1>13,
   <1>14, <1>15, <1>16, <1>17, <1>18, <1>19 DEF Effect, QuietStep

-----------------------------------------------------------------------------
(* The theorems *)

LEMMA PoolInvInit == Init => PoolInv
<1> SUFFICES ASSUME Init PROVE PoolInv
  OBVIOUS
<1> USE DEF Init
<1>1. <<>> \in Seq(Sandboxes) /\ Len(<<>>) = 0
  BY EmptySeq
<1>2. Pooled = {}
  <2>1. PooledIn(pool) = {}
    BY EmptyPool
  <2> QED BY <2>1, PooledIsPooledIn
<1>3. TypeOK
  <2>1. DOMAIN pool = Keys /\ \A k \in Keys : pool[k] \in Seq(Sandboxes) /\ Len(pool[k]) <= PoolSize
    BY <1>1, PoolAssumption
  <2>2. cancels \in 0 .. MaxCancels /\ faults \in 0 .. MaxFaults
    BY PoolAssumption
  <2>3. attempt \in [Runs -> 1 .. MaxAttempts]
    BY PoolAssumption
  <2>4. /\ state \in [Sandboxes -> {"new", "up", "down"}]
        /\ commands \in [Sandboxes -> SUBSET Runs]
        /\ registered \in [Runs -> Sandboxes \cup {NoSandbox}]
        /\ at \in [Runs -> At]
        /\ holds \in [Runs -> Sandboxes \cup {NoSandbox}]
    BY DEF At
  <2>5. /\ exit \in [Runs -> {"keep", "kill", "retry"}]
        /\ flagged \subseteq Runs
        /\ cancel \in [Runs -> {"none", "flagged", "found", "over"}]
        /\ target \in [Runs -> Sandboxes \cup {NoSandbox}]
        /\ starts \in [Runs -> Nat]
        /\ escaped \subseteq Sandboxes /\ unended \subseteq Sandboxes
    OBVIOUS
  <2> QED BY <2>1, <2>2, <2>3, <2>4, <2>5 DEF TypeOK
<1>4. ShapeInv /\ StartInv /\ CancelInv /\ KeptInv
  BY PoolAssumption DEF ShapeInv, ShapeOf, StartInv, StartOf, CancelInv, CancelOf, KeptInv,
     KeptOf
<1>5. NewInv /\ UpInv /\ OwnerInv
  BY <1>2, PoolAssumption DEF NewInv, NewOf, UpInv, UpOf, OwnerInv, OwnerOf
<1>6. UsedByOne
  <2>1. \A k \in Keys : DOMAIN pool[k] = {}
    OBVIOUS
  <2> QED BY <1>2, <2>1 DEF UsedByOne
<1>7. NoSandboxLost /\ NoCommandLeftBehind
  BY <1>2 DEF NoSandboxLost, NoCommandLeftBehind
<1> QED BY <1>3, <1>4, <1>5, <1>6, <1>7 DEF PoolInv

\* The invariant is inductive.
LEMMA PoolInvKept == PoolInv /\ [Next]_vars => PoolInv'
<1> SUFFICES ASSUME PoolInv, [Next]_vars PROVE PoolInv'
  OBVIOUS
<1>1. CASE Next
  <2>1. PoolStays /\ Effect
    BY <1>1, StepEffect
  <2> QED BY <2>1, TypeOKKept, ShapeInvKept, StartInvKept, NewInvKept, UsedByOneKept,
             NoSandboxLostKept, UpInvKept, KeptInvKept, NoCommandLeftBehindKept, OwnerInvKept,
             CancelInvKept DEF PoolInv
<1>2. CASE UNCHANGED vars
  <2>1. /\ UNCHANGED <<state, commands, pool, registered, at, holds, attempt, exit>>
        /\ UNCHANGED <<flagged, cancel, target, starts, escaped, unended, unseen, cancels, faults>>
    BY <1>2 DEF vars, remote, thread, request, history
  <2>2. Pooled' = Pooled
    BY <2>1, PooledIsPooledIn
  <2>3. TypeOK'
    BY <2>1 DEF PoolInv, TypeOK
  <2>4. ShapeInv' /\ StartInv' /\ KeptInv' /\ CancelInv'
    BY <2>1 DEF PoolInv, ShapeInv, ShapeOf, StartInv, StartOf, KeptInv, KeptOf, CancelInv,
       CancelOf
  <2>5. NewInv' /\ UpInv' /\ OwnerInv'
    BY <2>1, <2>2 DEF PoolInv, NewInv, NewOf, UpInv, UpOf, OwnerInv, OwnerOf
  <2>6. UsedByOne'
    BY <2>1, <2>2 DEF PoolInv, UsedByOne
  <2>7. NoSandboxLost' /\ NoCommandLeftBehind'
    BY <2>1, <2>2 DEF PoolInv, NoSandboxLost, NoCommandLeftBehind
  <2> QED BY <2>3, <2>4, <2>5, <2>6, <2>7 DEF PoolInv
<1> QED BY <1>1, <1>2

\* The inductive invariant of the driver holds of every behaviour, and with it the
\* types of the variables (e2b_driver.py: run, _warm_pool_lease, _warm_pool_return).
THEOREM DriverInvariant == Spec => []PoolInv
<1> QED BY PoolInvInit, PoolInvKept, PTL DEF Spec

\* Every variable of the driver keeps its type, and no key of the pool has more entries
\* than it may (_warm_pool_return).
THEOREM DriverTypes == Spec => []TypeOK
<1>1. PoolInv => TypeOK
  BY DEF PoolInv
<1> QED BY <1>1, DriverInvariant, PTL

\* No two runs use one sandbox, and no pooled one is used (_warm_pool_lease pops the
\* entry under the lock, _warm_pool_return comes after the last use).
THEOREM SandboxUsedByOne == Spec => []UsedByOne
<1>1. PoolInv => UsedByOne
  BY DEF PoolInv
<1> QED BY <1>1, DriverInvariant, PTL

\* A sandbox that is used again has no command of an earlier run in it (the finally
\* block of the driver pools only what its run has seen to end).
THEOREM NoCommandIsLeft == Spec => []NoCommandLeftBehind
<1>1. PoolInv => NoCommandLeftBehind
  BY DEF PoolInv
<1> QED BY <1>1, DriverInvariant, PTL

\* The command of a run starts at most once, however often the driver tries (the
\* retry loop of run() stops once the command was started).
THEOREM CommandStartsAtMostOnce == Spec => []CommandStartsOnce
<1>1. PoolInv => CommandStartsOnce
  BY DEF PoolInv, StartInv, StartOf, CommandStartsOnce
<1> QED BY <1>1, DriverInvariant, PTL

\* When a cancel request is over, the command is not going on (cancel_run flags the
\* run before cancel_sandbox looks it up; the driver registers before it looks at the
\* flag again).
THEOREM CancelStops == Spec => []CancelledIsStopped
<1>1. PoolInv => CancelledIsStopped
  <2> SUFFICES ASSUME PoolInv, NEW r \in Runs, cancel[r] = "over",
                      NEW s \in Sandboxes \ (escaped \cup unended), r \in commands[s]
               PROVE  at[r] \in {"leaving", "killing"}
    BY DEF CancelledIsStopped
  <2>1. holds[r] = s /\ at[r] \in {"running", "leaving", "killing"}
    BY DEF PoolInv, OwnerInv, OwnerOf
  <2>2. state[s] = "up"
    BY DEF PoolInv, UpInv, UpOf
  <2>3. at[r] # "running"
    BY <2>1, <2>2 DEF PoolInv, CancelInv, CancelOf
  <2> QED BY <2>1, <2>3
<1> QED BY <1>1, DriverInvariant, PTL

\* A sandbox that is up is used, pooled, or one whose kill failed (the finally block
\* and _warm_pool_return kill what they do not keep).
THEOREM SandboxesAreKept == Spec => []NoSandboxLost
<1>1. PoolInv => NoSandboxLost
  BY DEF PoolInv
<1> QED BY <1>1, DriverInvariant, PTL
=============================================================================
