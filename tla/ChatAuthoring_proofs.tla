------------------------ MODULE ChatAuthoring_proofs ------------------------
(***************************************************************************)
(* For any number of requests, keys, limits and faults: one idempotency    *)
(* key starts one run, and the rate limits hold over the span that the     *)
(* shared table keeps for them, whoever claims from it.                    *)
(***************************************************************************)
EXTENDS ChatAuthoring, FiniteSetTheorems, WellFoundedInduction, TLAPS

-----------------------------------------------------------------------------
(* Numbers and sets *)

LessThan == {ss \in Nat \X Nat : ss[1] < ss[2]}

\* A set of naturals that is not empty has a least element.
LEMMA LeastNatural ==
    ASSUME NEW T, T \subseteq Nat, T # {}
    PROVE  \E m \in T : \A k \in T : m <= k
<1>1. IsWellFoundedOn(LessThan, Nat)
  BY NatLessThanWellFounded DEF OpToRel, LessThan
<1>2. PICK x \in T : \A y \in T : ~(<<y, x>> \in LessThan)
  BY <1>1, WFMin
<1>3. ASSUME NEW y \in T PROVE x <= y
  <2>1. x \in Nat /\ y \in Nat /\ ~(<<y, x>> \in LessThan)
    BY <1>2
  <2>2. <<y, x>> \in Nat \X Nat
    BY <2>1
  <2>3. ~(y < x)
    BY <2>1, <2>2 DEF LessThan
  <2> QED BY <2>1, <2>3
<1> QED BY <1>3

\* A bounded one has a greatest, which Max finds.
LEMMA MaxIsGreatest ==
    ASSUME NEW n \in Nat, NEW S, S \subseteq 0 .. n, S # {}
    PROVE  Max(S) \in S
<1> DEFINE T == {n - k : k \in S}
<1>1. T \subseteq Nat /\ T # {}
  <2>1. \A k \in S : n - k \in Nat
    OBVIOUS
  <2> QED BY <2>1
<1>2. \E m \in T : \A k \in T : m <= k
  <2> HIDE DEF T
  <2> QED BY <1>1, LeastNatural
<1>3. PICK m \in S : \A k \in S : n - m <= n - k
  BY <1>2
<1>4. \A k \in S : m >= k
  BY <1>3
<1> QED BY <1>4 DEF Max

\* The rows that Total counts.
Rows(rows) == UNION {{t} \X (1 .. rows[t]) : t \in DOMAIN rows}

LEMMA RowsMember ==
    ASSUME NEW rows, NEW x
    PROVE  x \in Rows(rows) <=> \E t \in DOMAIN rows : \E i \in 1 .. rows[t] : x = <<t, i>>
<1> QED BY DEF Rows

LEMMA RowsFinite ==
    ASSUME NEW D, IsFiniteSet(D), NEW rows \in [D -> Nat]
    PROVE  /\ IsFiniteSet(Rows(rows))
           /\ Total(rows) = Cardinality(Rows(rows))
           /\ Total(rows) \in Nat
<1> DEFINE Of(t) == {t} \X (1 .. rows[t])
           Parts == {Of(t) : t \in D}
<1>1. ASSUME NEW t \in D PROVE IsFiniteSet(Of(t))
  <2>1. IsFiniteSet({t}) /\ IsFiniteSet(1 .. rows[t])
    <3>1. 1 \in Int /\ rows[t] \in Int
      OBVIOUS
    <3>2. IsFiniteSet(1 .. rows[t])
      BY <3>1, FS_Interval
    <3> QED BY <3>2, FS_Singleton
  <2> QED BY <2>1, FS_Product
<1>2. IsFiniteSet(Parts)
  <2>1. [t \in D |-> Of(t)] \in Surjection(D, Parts)
    BY DEF Surjection
  <2> QED BY <2>1, FS_Surjection
<1>3. \A P \in Parts : IsFiniteSet(P)
  BY <1>1
<1>4. Rows(rows) = UNION Parts
  BY DEF Rows
<1>5. IsFiniteSet(Rows(rows))
  <2> HIDE DEF Parts
  <2> QED BY <1>2, <1>3, <1>4, FS_UNION
<1>6. Total(rows) = Cardinality(Rows(rows))
  BY DEF Total, Rows
<1> QED BY <1>5, <1>6, FS_CardinalityType

\* More slots at one time are so many more slots in all.
LEMMA TotalGrows ==
    ASSUME NEW D, IsFiniteSet(D), NEW f \in [D -> Nat], NEW g \in [D -> Nat],
           NEW u \in D, NEW n \in Nat, g[u] = f[u] + n, \A t \in D : t # u => g[t] = f[t]
    PROVE  Total(g) = Total(f) + n
<1> DEFINE New == {u} \X (f[u] + 1 .. f[u] + n)
<1>1. IsFiniteSet(Rows(f)) /\ Total(f) = Cardinality(Rows(f)) /\ Total(f) \in Nat
  BY RowsFinite
<1>2. Total(g) = Cardinality(Rows(g))
  BY RowsFinite
<1>3. IsFiniteSet(New) /\ Cardinality(New) = n
  <2>1. /\ IsFiniteSet({u}) /\ Cardinality({u}) = 1
        /\ IsFiniteSet(f[u] + 1 .. f[u] + n) /\ Cardinality(f[u] + 1 .. f[u] + n) = n
    <3> DEFINE a == f[u] + 1
               b == f[u] + n
    <3>1. a \in Int /\ b \in Int /\ (IF a > b THEN 0 ELSE b - a + 1) = n
      OBVIOUS
    <3> HIDE DEF a, b
    <3>2. IsFiniteSet(a .. b) /\ Cardinality(a .. b) = n
      BY <3>1, FS_Interval
    <3>3. IsFiniteSet({u}) /\ Cardinality({u}) = 1
      BY FS_Singleton
    <3> QED BY <3>2, <3>3 DEF a, b
  <2>2. IsFiniteSet(New) /\ Cardinality(New) = 1 * n
    <3> DEFINE I == f[u] + 1 .. f[u] + n
    <3> HIDE DEF I
    <3>1. /\ IsFiniteSet({u}) /\ Cardinality({u}) = 1
          /\ IsFiniteSet(I) /\ Cardinality(I) = n
      BY <2>1 DEF I
    <3>2. IsFiniteSet({u} \X I) /\ Cardinality({u} \X I) = 1 * n
      BY <3>1, FS_Product
    <3> QED BY <3>2 DEF I
  <2> QED BY <2>2
<1>4. Rows(g) = Rows(f) \cup New
  <2>1. ASSUME NEW x \in Rows(g) PROVE x \in Rows(f) \cup New
    <3>1. PICK t \in D : \E i \in 1 .. g[t] : x = <<t, i>>
      BY RowsMember
    <3>2. PICK i \in 1 .. g[t] : x = <<t, i>>
      BY <3>1
    <3>3. CASE i \in 1 .. f[t]
      BY <3>2, <3>3, RowsMember
    <3>4. CASE i \notin 1 .. f[t]
      <4>1. t = u /\ i \in f[u] + 1 .. f[u] + n
        BY <3>2, <3>4
      <4> QED BY <3>2, <4>1
    <3> QED BY <3>3, <3>4
  <2>2. ASSUME NEW x \in Rows(f) PROVE x \in Rows(g)
    <3>1. PICK t \in D : \E i \in 1 .. f[t] : x = <<t, i>>
      BY RowsMember
    <3>2. PICK i \in 1 .. f[t] : x = <<t, i>>
      BY <3>1
    <3>3. i \in 1 .. g[t]
      BY <3>2
    <3> QED BY <3>2, <3>3, RowsMember
  <2>3. ASSUME NEW x \in New PROVE x \in Rows(g)
    <3>1. PICK i \in f[u] + 1 .. f[u] + n : x = <<u, i>>
      OBVIOUS
    <3>2. i \in 1 .. g[u]
      OBVIOUS
    <3> QED BY <3>1, <3>2, RowsMember
  <2> QED BY <2>1, <2>2, <2>3
<1>5. Rows(f) \cap New = {}
  <2> SUFFICES ASSUME NEW x \in Rows(f), x \in New PROVE FALSE
    OBVIOUS
  <2>1. PICK t \in D : \E i \in 1 .. f[t] : x = <<t, i>>
    BY RowsMember
  <2> QED BY <2>1
<1>6. Cardinality(Rows(g)) = Cardinality(Rows(f)) + Cardinality(New) - 0
  <2> HIDE DEF New
  <2> QED BY SMTT(30), <1>1, <1>3, <1>4, <1>5, FS_Union, FS_EmptySet
<1> QED BY <1>1, <1>2, <1>3, <1>6

\* What is counted in less of the table is no more.
LEMMA TotalOfPart ==
    ASSUME NEW D, IsFiniteSet(D), NEW f \in [D -> Nat],
           NEW E, NEW g \in [E -> Nat],
           \A t \in E : g[t] > 0 => t \in D /\ g[t] = f[t]
    PROVE  Total(g) <= Total(f)
<1>1. IsFiniteSet(Rows(f)) /\ Total(f) = Cardinality(Rows(f))
  BY RowsFinite
<1>2. Rows(g) \subseteq Rows(f)
  <2> SUFFICES ASSUME NEW x \in Rows(g) PROVE x \in Rows(f)
    OBVIOUS
  <2>1. PICK t \in E : \E i \in 1 .. g[t] : x = <<t, i>>
    BY RowsMember
  <2>2. PICK i \in 1 .. g[t] : x = <<t, i>>
    BY <2>1
  <2>3. g[t] > 0
    BY <2>2
  <2> QED BY <2>2, <2>3, RowsMember
<1>3. Cardinality(Rows(g)) <= Cardinality(Rows(f))
  BY <1>1, <1>2, FS_Subset
<1>4. Total(g) = Cardinality(Rows(g))
  BY DEF Total, Rows
<1> QED BY <1>1, <1>3, <1>4

-----------------------------------------------------------------------------
(* The table of slots *)

\* The chat tool's runs and the endpoints, of which no slot is given back.
Kept == {"runs", "endpoint"}

\* In the shortest window that ends now, the table has what was granted.
TableInv ==
    \A k \in Kept, t \in Times : t > now - Shortest => slots[k][t] = granted[k][t]

LEMMA ShortestType ==
    Shortest \in Nat /\ SafeSpan \in Int /\ \A j \in RateKeys : Shortest <= Window[j]
<1> DEFINE T == {Window[j] : j \in RateKeys}
<1>1. T \subseteq Nat /\ T # {}
  BY LimitsAssumption DEF RateKeys
<1>2. \E m \in T : \A n \in T : m <= n
  <2> HIDE DEF T
  <2> QED BY <1>1, LeastNatural
<1>3. Shortest \in T /\ \A n \in T : Shortest <= n
  BY <1>2 DEF Shortest, Min
<1>4. Shortest \in Nat /\ \A j \in RateKeys : Shortest <= Window[j]
  BY <1>1, <1>3
<1> QED BY <1>4, LimitsAssumption DEF SafeSpan

\* What the clock may have said.
LEMMA ReadType ==
    ASSUME TypeOK, NEW c \in Read
    PROVE  /\ c \in Times /\ c \in Int /\ now \in Int /\ MaxLag \in Nat
           /\ now - MaxLag <= c /\ c <= now
           /\ Times \subseteq Int
<1>1. now \in Times /\ c \in Times /\ now - MaxLag <= c /\ c <= now
  BY DEF TypeOK, Read
<1>2. Times \subseteq Int /\ MaxLag \in Nat
  BY LimitsAssumption DEF Times
<1> QED BY <1>1, <1>2

LEMMA KeysType ==
    /\ Kept \subseteq RateKeys
    /\ \A k \in RateKeys : Window[k] \in Nat \ {0} /\ Limit[k] \in Nat
<1> QED BY LimitsAssumption DEF Kept, RateKeys

LEMMA TimesFinite == IsFiniteSet(Times)
<1>1. 0 \in Int /\ MaxTime \in Int
  BY LimitsAssumption
<1> QED BY <1>1, FS_Interval DEF Times

LEMMA RecentType ==
    ASSUME TypeOK, NEW k \in RateKeys, NEW c \in Times
    PROVE  /\ Recent(k, c) \in [RateKeys -> [Times -> Nat]]
           /\ \A j \in RateKeys, t \in Times :
                 Recent(k, c)[j][t] = IF t <= c - Window[k] THEN 0 ELSE slots[j][t]
<1> QED BY DEF Recent, TypeOK

LEMMA WithoutNewestType ==
    ASSUME TypeOK, NEW k \in RateKeys
    PROVE  /\ WithoutNewest(k) \in [RateKeys -> [Times -> Nat]]
           /\ \A j \in RateKeys : j # k => WithoutNewest(k)[j] = slots[j]
<1> DEFINE used == {t \in Times : slots[k][t] > 0}
<1>1. CASE used = {}
  <2>1. WithoutNewest(k) = slots
    BY <1>1 DEF WithoutNewest
  <2> QED BY <2>1 DEF TypeOK
<1>2. CASE used # {}
  <2>1. Max(used) \in used
    <3>1. MaxTime \in Nat /\ used \subseteq 0 .. MaxTime
      BY LimitsAssumption DEF Times
    <3> HIDE DEF used
    <3> QED BY <1>2, <3>1, MaxIsGreatest
  <2> DEFINE m == Max(used)
  <2>2. m \in Times /\ slots[k][m] > 0
    BY <2>1
  <2>3. WithoutNewest(k) = [slots EXCEPT ![k][m] = @ - 1]
    BY <1>2 DEF WithoutNewest
  <2> HIDE DEF used, m
  <2>4. slots[k] \in [Times -> Nat] /\ slots[k][m] - 1 \in Nat
    BY <2>2 DEF TypeOK
  <2>5. [slots[k] EXCEPT ![m] = @ - 1] \in [Times -> Nat]
    BY <2>2, <2>4
  <2> QED BY <2>3, <2>5 DEF TypeOK
<1> QED BY <1>1, <1>2

\* A claim keeps the types of the table.
LEMMA ClaimType ==
    ASSUME TypeOK, NEW k \in RateKeys, NEW cost \in Nat, NEW c \in Times,
           Claimed(k, cost, c) \/ Refused(k, cost, c)
    PROVE  /\ slots' \in [RateKeys -> [Times -> Nat]]
           /\ granted' \in [RateKeys -> [Times -> Nat]]
<1>1. Recent(k, c) \in [RateKeys -> [Times -> Nat]]
  BY RecentType
<1>2. granted \in [RateKeys -> [Times -> Nat]]
  BY DEF TypeOK
<1>3. \A f \in [RateKeys -> [Times -> Nat]] :
          [f EXCEPT ![k][c] = @ + cost] \in [RateKeys -> [Times -> Nat]]
  <2> TAKE f \in [RateKeys -> [Times -> Nat]]
  <2>1. [f[k] EXCEPT ![c] = @ + cost] \in [Times -> Nat]
    OBVIOUS
  <2> QED BY <2>1
<1>4. CASE Claimed(k, cost, c)
  BY <1>1, <1>2, <1>3, <1>4 DEF Claimed
<1>5. CASE Refused(k, cost, c)
  BY <1>1, <1>2, <1>5 DEF Refused
<1> QED BY <1>4, <1>5

\* A claim that is granted keeps the limit of every safe span: if its time is in the
\* span, no row in the span has been deleted, and all of them are counted.
LEMMA ClaimKeepsLimit ==
    ASSUME TypeOK, TableInv, RatesHeld, NEW k \in Kept, NEW cost \in Nat, NEW c \in Read,
           Claimed(k, cost, c), NEW t \in Times
    PROVE  Total([u \in (t - SafeSpan + 1 .. t) \cap Times |-> granted'[k][u]]) <= Limit[k]
<1> DEFINE W == (t - SafeSpan + 1 .. t) \cap Times
           before == [u \in W |-> granted[k][u]]
           after == [u \in W |-> granted'[k][u]]
           counted == Recent(k, c)[k]
           all == [counted EXCEPT ![c] = @ + cost]
<1>1. /\ k \in RateKeys /\ now \in Int /\ Times \subseteq Int
      /\ c \in Times /\ c \in Int /\ now - MaxLag <= c /\ c <= now
      /\ Window[k] \in Nat \ {0} /\ Limit[k] \in Nat /\ MaxLag \in Nat
  BY KeysType, ReadType
<1>2. /\ Shortest \in Nat /\ SafeSpan = Shortest - MaxLag /\ Shortest <= Window[k]
  BY <1>1, ShortestType DEF SafeSpan
<1>3. /\ granted[k] \in [Times -> Nat] /\ granted'[k] \in [Times -> Nat]
      /\ granted'[k][c] = granted[k][c] + cost
      /\ \A u \in Times : u # c => granted'[k][u] = granted[k][u]
  <2>1. granted' = [granted EXCEPT ![k][c] = @ + cost] /\ granted \in [RateKeys -> [Times -> Nat]]
    BY DEF Claimed, TypeOK
  <2> QED BY <1>1, <2>1, ClaimType
<1>4. /\ counted \in [Times -> Nat]
      /\ \A u \in Times : counted[u] = IF u <= c - Window[k] THEN 0 ELSE slots[k][u]
  BY <1>1, RecentType
<1>5. Total(counted) + cost <= Limit[k]
  BY DEF Claimed, Fits
<1> HIDE DEF counted
<1>6. all \in [Times -> Nat] /\ all[c] = counted[c] + cost /\ \A u \in Times : u # c => all[u] = counted[u]
  BY <1>1, <1>4
<1> HIDE DEF all
<1>7. Total(all) = Total(counted) + cost
  <2>1. /\ IsFiniteSet(Times) /\ c \in Times /\ cost \in Nat
        /\ counted \in [Times -> Nat] /\ all \in [Times -> Nat]
        /\ all[c] = counted[c] + cost /\ \A u \in Times : c # u => all[u] = counted[u]
    BY <1>1, <1>4, <1>6, TimesFinite
  <2> HIDE DEF W
  <2> QED BY <2>1, TotalGrows
<1>8. IsFiniteSet(W) /\ W \subseteq Times
  BY TimesFinite, FS_Intersection
<1>9. CASE c \notin W
  <2>1. after = before
    BY <1>3, <1>9
  <2>2. Total(before) <= Limit[k]
    BY DEF RatesHeld, GrantedIn, Kept
  <2> QED BY <2>1, <2>2
<1>10. CASE c \in W
  <2>1. ASSUME NEW u \in W PROVE after[u] = all[u]
    <3>1. u \in Times /\ u \in Int /\ u > t - SafeSpan /\ c <= t /\ t \in Int /\ SafeSpan \in Int
      BY <1>1, <1>2, <1>10
    <3>2. u > c - SafeSpan
      BY <1>1, <3>1
    <3>3. u > now - Shortest /\ ~(u <= c - Window[k])
      BY <1>1, <1>2, <3>1, <3>2
    <3>4. counted[u] = granted[k][u]
      BY <1>4, <3>1, <3>3 DEF TableInv
    <3>5. after[u] = granted'[k][u]
      OBVIOUS
    <3> HIDE DEF after, W
    <3> QED BY <1>3, <1>6, <3>1, <3>4, <3>5
  <2>2. after \in [W -> Nat]
    BY <1>3
  <2> HIDE DEF after
  <2>3. Total(after) <= Total(all)
    <3> HIDE DEF W
    <3> QED BY <1>6, <1>8, <2>1, <2>2, TimesFinite, TotalOfPart
  <2>4. Total(all) <= Limit[k]
    BY <1>5, <1>7
  <2>5. Total(after) \in Nat /\ Total(all) \in Nat
    <3> HIDE DEF W
    <3> QED BY <1>6, <1>8, <2>2, TimesFinite, RowsFinite
  <2> QED BY <1>1, <2>3, <2>4, <2>5 DEF after
<1> QED BY <1>9, <1>10

\* A claim keeps the limits, whoever makes it.
LEMMA ClaimKeeps ==
    ASSUME TypeOK, TableInv, RatesHeld, NEW k \in RateKeys, NEW cost \in Nat, NEW c \in Read,
           Claimed(k, cost, c) \/ Refused(k, cost, c), now' = now
    PROVE  TableInv' /\ RatesHeld'
<1>1. /\ granted \in [RateKeys -> [Times -> Nat]] /\ now \in Int /\ Times \subseteq Int
      /\ c \in Times /\ c \in Int /\ c <= now /\ Window[k] \in Nat \ {0} /\ Kept \subseteq RateKeys
  <2>1. granted \in [RateKeys -> [Times -> Nat]]
    BY DEF TypeOK
  <2> QED BY <2>1, KeysType, ReadType
<1>2. Shortest \in Nat /\ Shortest <= Window[k]
  BY ShortestType
<1>3. /\ Recent(k, c) \in [RateKeys -> [Times -> Nat]]
      /\ \A j \in RateKeys, t \in Times :
            Recent(k, c)[j][t] = IF t <= c - Window[k] THEN 0 ELSE slots[j][t]
  BY <1>1, RecentType
<1>4. \A j \in Kept, t \in Times : t > now - Shortest => Recent(k, c)[j][t] = granted[j][t]
  <2> SUFFICES ASSUME NEW j \in Kept, NEW t \in Times, t > now - Shortest
               PROVE  Recent(k, c)[j][t] = granted[j][t]
    OBVIOUS
  <2>1. ~(t <= c - Window[k])
    BY <1>1, <1>2
  <2> QED BY <1>1, <1>3, <2>1 DEF TableInv
<1>5. CASE Refused(k, cost, c)
  <2>1. slots' = Recent(k, c) /\ granted' = granted
    BY <1>5 DEF Refused
  <2>2. TableInv'
    BY <1>4, <2>1 DEF TableInv
  <2>3. RatesHeld'
    BY <2>1 DEF RatesHeld, GrantedIn
  <2> QED BY <2>2, <2>3
<1>6. CASE Claimed(k, cost, c)
  <2>1. /\ slots' = [Recent(k, c) EXCEPT ![k][c] = @ + cost]
        /\ granted' = [granted EXCEPT ![k][c] = @ + cost]
    BY <1>6 DEF Claimed
  <2>2. /\ \A j \in RateKeys, t \in Times : <<j, t>> # <<k, c>> =>
              slots'[j][t] = Recent(k, c)[j][t] /\ granted'[j][t] = granted[j][t]
        /\ slots'[k][c] = Recent(k, c)[k][c] + cost
        /\ granted'[k][c] = granted[k][c] + cost
    BY <1>1, <1>3, <2>1
  <2>3. ASSUME NEW j \in Kept, NEW t \in Times, t > now - Shortest
        PROVE  slots'[j][t] = granted'[j][t]
    <3>1. CASE <<j, t>> # <<k, c>>
      BY <1>1, <1>4, <2>2, <2>3, <3>1
    <3>2. CASE j = k /\ t = c
      BY <1>1, <1>4, <2>2, <2>3, <3>2
    <3> QED BY <3>1, <3>2
  <2>4. TableInv'
    BY <2>3 DEF TableInv
  <2>5. ASSUME NEW j \in Kept, NEW t \in Times
        PROVE  Total([u \in (t - SafeSpan + 1 .. t) \cap Times |-> granted'[j][u]]) <= Limit[j]
    <3>1. CASE j = k
      BY <1>6, <3>1, ClaimKeepsLimit
    <3>2. CASE j # k
      <4>1. granted'[j] = granted[j]
        BY <1>1, <2>1, <3>2
      <4> QED BY <4>1 DEF RatesHeld, GrantedIn, Kept
    <3> QED BY <3>1, <3>2
  <2>6. RatesHeld'
    BY <2>5 DEF RatesHeld, GrantedIn, Kept
  <2> QED BY <2>4, <2>6
<1> QED BY <1>5, <1>6

-----------------------------------------------------------------------------
(* The inductive invariant *)

\* The request whose reservation the key's row is.
Owner(q) ==
    at[q] \in {"drafting", "counting", "refunding", "registering", "creating", "recording",
               "releasing"}

OwnerInv ==
    /\ \A q \in Requests : Owner(q) => reserved[key[q]] = "pending"
    /\ \A p, q \in Requests : Owner(p) /\ Owner(q) /\ key[p] = key[q] => p = q

\* Only a request that is done has a run, or one that is about to write it into the row.
EarlyInv ==
    \A q \in Requests : q \in created => at[q] \in {"recording", "starting", "releasing", "done"}

\* The row names the run, or nobody but the run's own request may change it.
NamedInv ==
    \A q \in created \ unnamed :
        \/ reserved[key[q]] = q
        \/ /\ reserved[key[q]] = "pending"
           /\ \A p \in Requests : Owner(p) /\ key[p] = key[q] => p = q /\ at[q] = "recording"

KeyInv ==
    /\ TypeOK
    /\ OwnerInv
    /\ EarlyInv
    /\ NamedInv
    /\ OneRunPerKey

\* With the table of slots.
RateInv ==
    /\ KeyInv
    /\ TableInv
    /\ RatesHeld

LEMMA FaultIsCounted ==
    ASSUME TypeOK, Fault
    PROVE  faults' \in 0 .. MaxFaults
<1> QED BY LimitsAssumption DEF TypeOK, Fault

-----------------------------------------------------------------------------
(* Each part of the invariant is kept by every step *)

LEMMA TypeOKKept ==
    ASSUME KeyInv, Next
    PROVE  TypeOK'
<1>0. TypeOK /\ OwnerInv /\ EarlyInv /\ NamedInv /\ OneRunPerKey
  BY DEF KeyInv
<1>1. ASSUME NEW q \in Requests, Wait(q)
      PROVE  TypeOK'
  BY <1>0, <1>1, LimitsAssumption, FaultIsCounted DEF Wait, TypeOK, At, Goto, tables, history
<1>2. ASSUME NEW q \in Requests, ClaimDraft(q)
      PROVE  TypeOK'
  <2>1. slots' \in [RateKeys -> [Times -> Nat]] /\ granted' \in [RateKeys -> [Times -> Nat]]
    <3>1. PICK t \in Times : Claimed("drafts", 1, t) \/ Refused("drafts", 1, t)
      BY <1>2 DEF ClaimDraft, Read
    <3> QED BY <1>0, <3>1, ClaimType DEF RateKeys
  <2>2. \E next \in {"counting", "releasing"} : at' = [at EXCEPT ![q] = next]
    BY <1>2 DEF ClaimDraft, Goto
  <2>3. at' \in [Requests -> At] /\ \A p \in Requests : at'[p] # "idle" => key[p] \in Keys
    BY <1>0, <1>2, <2>2 DEF ClaimDraft, TypeOK, At
  <2>4. drafted' \in [Requests -> Times \cup {-1}]
    BY <1>0, <1>2 DEF ClaimDraft, Read, TypeOK
  <2>5. since' \in [Requests -> Times]
    BY <1>0, <1>2 DEF ClaimDraft, TypeOK
  <2> QED BY <1>0, <1>2, <2>1, <2>3, <2>4, <2>5 DEF ClaimDraft, TypeOK
<1>3. ASSUME NEW q \in Requests, ClaimRun(q)
      PROVE  TypeOK'
  <2>1. slots' \in [RateKeys -> [Times -> Nat]] /\ granted' \in [RateKeys -> [Times -> Nat]]
    <3>1. PICK t \in Times : Claimed("runs", 1, t) \/ Refused("runs", 1, t)
      BY <1>3 DEF ClaimRun, Read
    <3> QED BY <1>0, <3>1, ClaimType DEF RateKeys
  <2>2. \E next \in {"registering", "refunding"} : at' = [at EXCEPT ![q] = next]
    BY <1>3 DEF ClaimRun, Goto
  <2>3. at' \in [Requests -> At] /\ \A p \in Requests : at'[p] # "idle" => key[p] \in Keys
    BY <1>0, <1>3, <2>2 DEF ClaimRun, TypeOK, At
  <2>4. drafted' \in [Requests -> Times \cup {-1}]
    BY <1>0, <1>3 DEF ClaimRun, TypeOK
  <2> QED BY <1>0, <1>3, <2>1, <2>3, <2>4 DEF ClaimRun, TypeOK
<1>4. ASSUME NEW q \in Requests, Refund(q)
      PROVE  TypeOK'
  <2>1. slots' \in [RateKeys -> [Times -> Nat]]
    BY <1>0, <1>4, WithoutNewestType DEF Refund, RateKeys
  <2> QED BY <1>0, <1>4, <2>1 DEF Refund, Goto, TypeOK, At
<1>5. ASSUME NEW q \in Requests, Register(q)
      PROVE  TypeOK'
  BY <1>0, <1>5, LimitsAssumption, FaultIsCounted DEF Register, TypeOK, At, Goto, tables,
     history
<1>6. ASSUME NEW q \in Requests, Create(q)
      PROVE  TypeOK'
  BY <1>0, <1>6, LimitsAssumption, FaultIsCounted DEF Create, TypeOK, At, Goto, tables, history
<1>7. ASSUME NEW q \in Requests, Record(q)
      PROVE  TypeOK'
  BY <1>0, <1>7, LimitsAssumption, FaultIsCounted DEF Record, TypeOK, At, Goto, tables, history
<1>8. ASSUME NEW q \in Requests, Start(q)
      PROVE  TypeOK'
  BY <1>0, <1>8, LimitsAssumption, FaultIsCounted DEF Start, TypeOK, At, Goto, tables, history
<1>9. ASSUME NEW q \in Requests, Release(q)
      PROVE  TypeOK'
  BY <1>0, <1>9, LimitsAssumption, FaultIsCounted DEF Release, TypeOK, At, Goto, tables, history
<1>10. ASSUME NEW q \in Requests, RefundFails(q)
      PROVE  TypeOK'
  BY <1>0, <1>10, LimitsAssumption, FaultIsCounted DEF RefundFails, TypeOK, At, Goto, tables,
     history
<1>11. ASSUME NEW q \in Requests, CallRaises(q)
      PROVE  TypeOK'
  BY <1>0, <1>11, LimitsAssumption, FaultIsCounted DEF CallRaises, TypeOK, At, Goto, tables,
     history
<1>12. ASSUME NEW q \in Requests, ReleaseFails(q)
      PROVE  TypeOK'
  BY <1>0, <1>12, LimitsAssumption, FaultIsCounted DEF ReleaseFails, TypeOK, At, Goto, tables,
     history
<1>13. ASSUME NEW q \in Requests, Die(q)
      PROVE  TypeOK'
  BY <1>0, <1>13, LimitsAssumption, FaultIsCounted DEF Die, TypeOK, At, Goto, tables, history
<1>14. ASSUME NEW q \in Requests, NEW k \in Keys, Reserve(q, k)
      PROVE  TypeOK'
  <2>1. now \in Times
    BY <1>0 DEF TypeOK
  <2>2. since' \in [Requests -> Times]
    BY <1>0, <1>14, <2>1 DEF Reserve, TypeOK
  <2>3. /\ \E next \in At \ {"idle"} : at' = [at EXCEPT ![q] = next]
        /\ key' = [key EXCEPT ![q] = k]
    BY <1>14 DEF Reserve, Goto, At
  <2>4. /\ at' \in [Requests -> At] /\ key' \in [Requests -> Keys \cup {None}]
        /\ \A p \in Requests : at'[p] # "idle" => key'[p] \in Keys
    BY <1>0, <2>3 DEF TypeOK
  <2> QED BY <1>0, <1>14, <2>2, <2>4 DEF Reserve, TypeOK, tables, history
<1>15. ASSUME NEW cost \in 1 .. MaxCost, EndpointClaim(cost)
      PROVE  TypeOK'
  <2>1. slots' \in [RateKeys -> [Times -> Nat]] /\ granted' \in [RateKeys -> [Times -> Nat]]
    <3>1. PICK t \in Times : Claimed("endpoint", cost, t) \/ Refused("endpoint", cost, t)
      BY <1>15 DEF EndpointClaim, Read
    <3>2. cost \in Nat
      BY LimitsAssumption
    <3> QED BY <1>0, <3>1, <3>2, ClaimType DEF RateKeys
  <2> QED BY <1>0, <1>15, <2>1 DEF EndpointClaim, TypeOK, handler
<1>16. CASE Tick
  <2>1. now' \in Times
    BY <1>0, <1>16, LimitsAssumption DEF Tick, TypeOK, Times
  <2> QED BY <1>0, <1>16, <2>1 DEF Tick, TypeOK, tables, handler, history
<1> QED BY <1>1, <1>2, <1>3, <1>4, <1>5, <1>6, <1>7, <1>8, <1>9, <1>10, <1>11, <1>12, <1>13,
   <1>14, <1>15, <1>16 DEF Next, RequestStep, FaultStep

LEMMA OwnerInvKept ==
    ASSUME KeyInv, Next
    PROVE  OwnerInv'
<1>0. TypeOK /\ OwnerInv /\ EarlyInv /\ NamedInv /\ OneRunPerKey
  BY DEF KeyInv
<1>1. ASSUME NEW q \in Requests, Wait(q)
      PROVE  OwnerInv'
  BY <1>0, <1>1, NoneAssumption DEF Wait, OwnerInv, Owner, TypeOK, Goto, tables, history
<1>2. ASSUME NEW q \in Requests, ClaimDraft(q)
      PROVE  OwnerInv'
  <2>1. /\ at[q] \in {"drafting", "counting"}
        /\ \E next \in {"counting", "registering", "refunding", "releasing"} : at' = [at EXCEPT ![q] = next]
        /\ UNCHANGED <<reserved, key, created, unnamed>>
    BY <1>2 DEF ClaimDraft, Goto
  <2> QED BY <1>0, <2>1 DEF OwnerInv, Owner, TypeOK
<1>3. ASSUME NEW q \in Requests, ClaimRun(q)
      PROVE  OwnerInv'
  <2>1. /\ at[q] \in {"drafting", "counting"}
        /\ \E next \in {"counting", "registering", "refunding", "releasing"} : at' = [at EXCEPT ![q] = next]
        /\ UNCHANGED <<reserved, key, created, unnamed>>
    BY <1>3 DEF ClaimRun, Goto
  <2> QED BY <1>0, <2>1 DEF OwnerInv, Owner, TypeOK
<1>4. ASSUME NEW q \in Requests, Refund(q)
      PROVE  OwnerInv'
  BY <1>0, <1>4, NoneAssumption DEF Refund, OwnerInv, Owner, TypeOK, Goto, tables, history
<1>5. ASSUME NEW q \in Requests, Register(q)
      PROVE  OwnerInv'
  BY <1>0, <1>5, NoneAssumption DEF Register, OwnerInv, Owner, TypeOK, Goto, tables, history
<1>6. ASSUME NEW q \in Requests, Create(q)
      PROVE  OwnerInv'
  BY <1>0, <1>6, NoneAssumption DEF Create, OwnerInv, Owner, TypeOK, Goto, tables, history
<1>7. ASSUME NEW q \in Requests, Record(q)
      PROVE  OwnerInv'
  BY <1>0, <1>7, NoneAssumption DEF Record, OwnerInv, Owner, TypeOK, Goto, tables, history
<1>8. ASSUME NEW q \in Requests, Start(q)
      PROVE  OwnerInv'
  BY <1>0, <1>8, NoneAssumption DEF Start, OwnerInv, Owner, TypeOK, Goto, tables, history
<1>9. ASSUME NEW q \in Requests, Release(q)
      PROVE  OwnerInv'
  BY <1>0, <1>9, NoneAssumption DEF Release, OwnerInv, Owner, TypeOK, Goto, tables, history
<1>10. ASSUME NEW q \in Requests, RefundFails(q)
      PROVE  OwnerInv'
  BY <1>0, <1>10, NoneAssumption DEF RefundFails, OwnerInv, Owner, TypeOK, Goto, tables, history
<1>11. ASSUME NEW q \in Requests, CallRaises(q)
      PROVE  OwnerInv'
  BY <1>0, <1>11, NoneAssumption DEF CallRaises, OwnerInv, Owner, TypeOK, Goto, tables, history
<1>12. ASSUME NEW q \in Requests, ReleaseFails(q)
      PROVE  OwnerInv'
  BY <1>0, <1>12, NoneAssumption DEF ReleaseFails, OwnerInv, Owner, TypeOK, Goto, tables,
     history
<1>13. ASSUME NEW q \in Requests, Die(q)
      PROVE  OwnerInv'
  BY <1>0, <1>13, NoneAssumption DEF Die, OwnerInv, Owner, TypeOK, Goto, tables, history
<1>14. ASSUME NEW q \in Requests, NEW k \in Keys, Reserve(q, k)
      PROVE  OwnerInv'
  BY <1>0, <1>14, NoneAssumption DEF Reserve, OwnerInv, Owner, TypeOK, Goto, tables, history
<1>15. ASSUME NEW cost \in 1 .. MaxCost, EndpointClaim(cost)
      PROVE  OwnerInv'
  BY <1>0, <1>15, NoneAssumption DEF EndpointClaim, handler, OwnerInv, Owner, TypeOK, Goto, tables,
     history
<1>16. CASE Tick
  BY <1>0, <1>16, NoneAssumption DEF Tick, handler, OwnerInv, Owner, TypeOK, Goto, tables, history
<1> QED BY <1>1, <1>2, <1>3, <1>4, <1>5, <1>6, <1>7, <1>8, <1>9, <1>10, <1>11, <1>12, <1>13,
   <1>14, <1>15, <1>16 DEF Next, RequestStep, FaultStep

LEMMA EarlyInvKept ==
    ASSUME KeyInv, Next
    PROVE  EarlyInv'
<1>0. TypeOK /\ OwnerInv /\ EarlyInv /\ NamedInv /\ OneRunPerKey
  BY DEF KeyInv
<1>1. ASSUME NEW q \in Requests, Wait(q)
      PROVE  EarlyInv'
  BY <1>0, <1>1 DEF Wait, EarlyInv, TypeOK, Goto, tables, history
<1>2. ASSUME NEW q \in Requests, ClaimDraft(q)
      PROVE  EarlyInv'
  <2>1. /\ at[q] \in {"drafting", "counting"}
        /\ \E next \in {"counting", "registering", "refunding", "releasing"} : at' = [at EXCEPT ![q] = next]
        /\ UNCHANGED <<reserved, key, created, unnamed>>
    BY <1>2 DEF ClaimDraft, Goto
  <2> QED BY <1>0, <2>1 DEF EarlyInv, TypeOK
<1>3. ASSUME NEW q \in Requests, ClaimRun(q)
      PROVE  EarlyInv'
  <2>1. /\ at[q] \in {"drafting", "counting"}
        /\ \E next \in {"counting", "registering", "refunding", "releasing"} : at' = [at EXCEPT ![q] = next]
        /\ UNCHANGED <<reserved, key, created, unnamed>>
    BY <1>3 DEF ClaimRun, Goto
  <2> QED BY <1>0, <2>1 DEF EarlyInv, TypeOK
<1>4. ASSUME NEW q \in Requests, Refund(q)
      PROVE  EarlyInv'
  BY <1>0, <1>4 DEF Refund, EarlyInv, TypeOK, Goto, tables, history
<1>5. ASSUME NEW q \in Requests, Register(q)
      PROVE  EarlyInv'
  BY <1>0, <1>5 DEF Register, EarlyInv, TypeOK, Goto, tables, history
<1>6. ASSUME NEW q \in Requests, Create(q)
      PROVE  EarlyInv'
  BY <1>0, <1>6 DEF Create, EarlyInv, TypeOK, Goto, tables, history
<1>7. ASSUME NEW q \in Requests, Record(q)
      PROVE  EarlyInv'
  BY <1>0, <1>7 DEF Record, EarlyInv, TypeOK, Goto, tables, history
<1>8. ASSUME NEW q \in Requests, Start(q)
      PROVE  EarlyInv'
  BY <1>0, <1>8 DEF Start, EarlyInv, TypeOK, Goto, tables, history
<1>9. ASSUME NEW q \in Requests, Release(q)
      PROVE  EarlyInv'
  BY <1>0, <1>9 DEF Release, EarlyInv, TypeOK, Goto, tables, history
<1>10. ASSUME NEW q \in Requests, RefundFails(q)
      PROVE  EarlyInv'
  BY <1>0, <1>10 DEF RefundFails, EarlyInv, TypeOK, Goto, tables, history
<1>11. ASSUME NEW q \in Requests, CallRaises(q)
      PROVE  EarlyInv'
  BY <1>0, <1>11 DEF CallRaises, EarlyInv, TypeOK, Goto, tables, history
<1>12. ASSUME NEW q \in Requests, ReleaseFails(q)
      PROVE  EarlyInv'
  BY <1>0, <1>12 DEF ReleaseFails, EarlyInv, TypeOK, Goto, tables, history
<1>13. ASSUME NEW q \in Requests, Die(q)
      PROVE  EarlyInv'
  BY <1>0, <1>13 DEF Die, EarlyInv, TypeOK, Goto, tables, history
<1>14. ASSUME NEW q \in Requests, NEW k \in Keys, Reserve(q, k)
      PROVE  EarlyInv'
  BY <1>0, <1>14 DEF Reserve, EarlyInv, TypeOK, Goto, tables, history
<1>15. ASSUME NEW cost \in 1 .. MaxCost, EndpointClaim(cost)
      PROVE  EarlyInv'
  BY <1>0, <1>15 DEF EndpointClaim, handler, EarlyInv, TypeOK, Goto, tables, history
<1>16. CASE Tick
  BY <1>0, <1>16 DEF Tick, handler, EarlyInv, TypeOK, Goto, tables, history
<1> QED BY <1>1, <1>2, <1>3, <1>4, <1>5, <1>6, <1>7, <1>8, <1>9, <1>10, <1>11, <1>12, <1>13,
   <1>14, <1>15, <1>16 DEF Next, RequestStep, FaultStep

LEMMA NamedInvKept ==
    ASSUME KeyInv, Next
    PROVE  NamedInv'
<1>0. TypeOK /\ OwnerInv /\ EarlyInv /\ NamedInv /\ OneRunPerKey
  BY DEF KeyInv
<1>1. ASSUME NEW q \in Requests, Wait(q)
      PROVE  NamedInv'
  BY <1>0, <1>1, NoneAssumption DEF Wait, NamedInv, OwnerInv, EarlyInv, OneRunPerKey, Owner,
     TypeOK, Goto, tables, history
<1>2. ASSUME NEW q \in Requests, ClaimDraft(q)
      PROVE  NamedInv'
  <2>1. /\ at[q] \in {"drafting", "counting"}
        /\ \E next \in {"counting", "registering", "refunding", "releasing"} : at' = [at EXCEPT ![q] = next]
        /\ UNCHANGED <<reserved, key, created, unnamed>>
    BY <1>2 DEF ClaimDraft, Goto
  <2> QED BY <1>0, <2>1 DEF NamedInv, OwnerInv, EarlyInv, OneRunPerKey, Owner, TypeOK
<1>3. ASSUME NEW q \in Requests, ClaimRun(q)
      PROVE  NamedInv'
  <2>1. /\ at[q] \in {"drafting", "counting"}
        /\ \E next \in {"counting", "registering", "refunding", "releasing"} : at' = [at EXCEPT ![q] = next]
        /\ UNCHANGED <<reserved, key, created, unnamed>>
    BY <1>3 DEF ClaimRun, Goto
  <2> QED BY <1>0, <2>1 DEF NamedInv, OwnerInv, EarlyInv, OneRunPerKey, Owner, TypeOK
<1>4. ASSUME NEW q \in Requests, Refund(q)
      PROVE  NamedInv'
  BY <1>0, <1>4, NoneAssumption DEF Refund, NamedInv, OwnerInv, EarlyInv, OneRunPerKey, Owner,
     TypeOK, Goto, tables, history
<1>5. ASSUME NEW q \in Requests, Register(q)
      PROVE  NamedInv'
  BY <1>0, <1>5, NoneAssumption DEF Register, NamedInv, OwnerInv, EarlyInv, OneRunPerKey, Owner,
     TypeOK, Goto, tables, history
<1>6. ASSUME NEW q \in Requests, Create(q)
      PROVE  NamedInv'
  BY <1>0, <1>6, NoneAssumption DEF Create, NamedInv, OwnerInv, EarlyInv, OneRunPerKey, Owner,
     TypeOK, Goto, tables, history
<1>7. ASSUME NEW q \in Requests, Record(q)
      PROVE  NamedInv'
  BY <1>0, <1>7, NoneAssumption DEF Record, NamedInv, OwnerInv, EarlyInv, OneRunPerKey, Owner,
     TypeOK, Goto, tables, history
<1>8. ASSUME NEW q \in Requests, Start(q)
      PROVE  NamedInv'
  BY <1>0, <1>8, NoneAssumption DEF Start, NamedInv, OwnerInv, EarlyInv, OneRunPerKey, Owner,
     TypeOK, Goto, tables, history
<1>9. ASSUME NEW q \in Requests, Release(q)
      PROVE  NamedInv'
  BY <1>0, <1>9, NoneAssumption DEF Release, NamedInv, OwnerInv, EarlyInv, OneRunPerKey, Owner,
     TypeOK, Goto, tables, history
<1>10. ASSUME NEW q \in Requests, RefundFails(q)
      PROVE  NamedInv'
  BY <1>0, <1>10, NoneAssumption DEF RefundFails, NamedInv, OwnerInv, EarlyInv, OneRunPerKey,
     Owner, TypeOK, Goto, tables, history
<1>11. ASSUME NEW q \in Requests, CallRaises(q)
      PROVE  NamedInv'
  BY <1>0, <1>11, NoneAssumption DEF CallRaises, NamedInv, OwnerInv, EarlyInv, OneRunPerKey,
     Owner, TypeOK, Goto, tables, history
<1>12. ASSUME NEW q \in Requests, ReleaseFails(q)
      PROVE  NamedInv'
  BY <1>0, <1>12, NoneAssumption DEF ReleaseFails, NamedInv, OwnerInv, EarlyInv, OneRunPerKey,
     Owner, TypeOK, Goto, tables, history
<1>13. ASSUME NEW q \in Requests, Die(q)
      PROVE  NamedInv'
  BY <1>0, <1>13, NoneAssumption DEF Die, NamedInv, OwnerInv, EarlyInv, OneRunPerKey, Owner,
     TypeOK, Goto, tables, history
<1>14. ASSUME NEW q \in Requests, NEW k \in Keys, Reserve(q, k)
      PROVE  NamedInv'
  BY <1>0, <1>14, NoneAssumption DEF Reserve, NamedInv, OwnerInv, EarlyInv, OneRunPerKey, Owner,
     TypeOK, Goto, tables, history
<1>15. ASSUME NEW cost \in 1 .. MaxCost, EndpointClaim(cost)
      PROVE  NamedInv'
  BY <1>0, <1>15, NoneAssumption DEF EndpointClaim, handler, NamedInv, OwnerInv, EarlyInv, OneRunPerKey,
     Owner, TypeOK, Goto, tables, history
<1>16. CASE Tick
  BY <1>0, <1>16, NoneAssumption DEF Tick, handler, NamedInv, OwnerInv, EarlyInv, OneRunPerKey, Owner,
     TypeOK, Goto, tables, history
<1> QED BY <1>1, <1>2, <1>3, <1>4, <1>5, <1>6, <1>7, <1>8, <1>9, <1>10, <1>11, <1>12, <1>13,
   <1>14, <1>15, <1>16 DEF Next, RequestStep, FaultStep

LEMMA OneRunPerKeyKept ==
    ASSUME KeyInv, Next
    PROVE  OneRunPerKey'
<1>0. TypeOK /\ OwnerInv /\ EarlyInv /\ NamedInv /\ OneRunPerKey
  BY DEF KeyInv
<1>1. ASSUME NEW q \in Requests, Wait(q)
      PROVE  OneRunPerKey'
  BY <1>0, <1>1, NoneAssumption DEF Wait, OneRunPerKey, NamedInv, OwnerInv, EarlyInv, Owner,
     TypeOK, Goto, tables, history
<1>2. ASSUME NEW q \in Requests, ClaimDraft(q)
      PROVE  OneRunPerKey'
  <2>1. /\ at[q] \in {"drafting", "counting"}
        /\ \E next \in {"counting", "registering", "refunding", "releasing"} : at' = [at EXCEPT ![q] = next]
        /\ UNCHANGED <<reserved, key, created, unnamed>>
    BY <1>2 DEF ClaimDraft, Goto
  <2> QED BY <1>0, <2>1 DEF OneRunPerKey, NamedInv, OwnerInv, EarlyInv, Owner, TypeOK
<1>3. ASSUME NEW q \in Requests, ClaimRun(q)
      PROVE  OneRunPerKey'
  <2>1. /\ at[q] \in {"drafting", "counting"}
        /\ \E next \in {"counting", "registering", "refunding", "releasing"} : at' = [at EXCEPT ![q] = next]
        /\ UNCHANGED <<reserved, key, created, unnamed>>
    BY <1>3 DEF ClaimRun, Goto
  <2> QED BY <1>0, <2>1 DEF OneRunPerKey, NamedInv, OwnerInv, EarlyInv, Owner, TypeOK
<1>4. ASSUME NEW q \in Requests, Refund(q)
      PROVE  OneRunPerKey'
  BY <1>0, <1>4, NoneAssumption DEF Refund, OneRunPerKey, NamedInv, OwnerInv, EarlyInv, Owner,
     TypeOK, Goto, tables, history
<1>5. ASSUME NEW q \in Requests, Register(q)
      PROVE  OneRunPerKey'
  BY <1>0, <1>5, NoneAssumption DEF Register, OneRunPerKey, NamedInv, OwnerInv, EarlyInv, Owner,
     TypeOK, Goto, tables, history
<1>6. ASSUME NEW q \in Requests, Create(q)
      PROVE  OneRunPerKey'
  BY <1>0, <1>6, NoneAssumption DEF Create, OneRunPerKey, NamedInv, OwnerInv, EarlyInv, Owner,
     TypeOK, Goto, tables, history
<1>7. ASSUME NEW q \in Requests, Record(q)
      PROVE  OneRunPerKey'
  BY <1>0, <1>7, NoneAssumption DEF Record, OneRunPerKey, NamedInv, OwnerInv, EarlyInv, Owner,
     TypeOK, Goto, tables, history
<1>8. ASSUME NEW q \in Requests, Start(q)
      PROVE  OneRunPerKey'
  BY <1>0, <1>8, NoneAssumption DEF Start, OneRunPerKey, NamedInv, OwnerInv, EarlyInv, Owner,
     TypeOK, Goto, tables, history
<1>9. ASSUME NEW q \in Requests, Release(q)
      PROVE  OneRunPerKey'
  BY <1>0, <1>9, NoneAssumption DEF Release, OneRunPerKey, NamedInv, OwnerInv, EarlyInv, Owner,
     TypeOK, Goto, tables, history
<1>10. ASSUME NEW q \in Requests, RefundFails(q)
      PROVE  OneRunPerKey'
  BY <1>0, <1>10, NoneAssumption DEF RefundFails, OneRunPerKey, NamedInv, OwnerInv, EarlyInv,
     Owner, TypeOK, Goto, tables, history
<1>11. ASSUME NEW q \in Requests, CallRaises(q)
      PROVE  OneRunPerKey'
  BY <1>0, <1>11, NoneAssumption DEF CallRaises, OneRunPerKey, NamedInv, OwnerInv, EarlyInv,
     Owner, TypeOK, Goto, tables, history
<1>12. ASSUME NEW q \in Requests, ReleaseFails(q)
      PROVE  OneRunPerKey'
  BY <1>0, <1>12, NoneAssumption DEF ReleaseFails, OneRunPerKey, NamedInv, OwnerInv, EarlyInv,
     Owner, TypeOK, Goto, tables, history
<1>13. ASSUME NEW q \in Requests, Die(q)
      PROVE  OneRunPerKey'
  BY <1>0, <1>13, NoneAssumption DEF Die, OneRunPerKey, NamedInv, OwnerInv, EarlyInv, Owner,
     TypeOK, Goto, tables, history
<1>14. ASSUME NEW q \in Requests, NEW k \in Keys, Reserve(q, k)
      PROVE  OneRunPerKey'
  BY <1>0, <1>14, NoneAssumption DEF Reserve, OneRunPerKey, NamedInv, OwnerInv, EarlyInv, Owner,
     TypeOK, Goto, tables, history
<1>15. ASSUME NEW cost \in 1 .. MaxCost, EndpointClaim(cost)
      PROVE  OneRunPerKey'
  BY <1>0, <1>15, NoneAssumption DEF EndpointClaim, handler, OneRunPerKey, NamedInv, OwnerInv, EarlyInv,
     Owner, TypeOK, Goto, tables, history
<1>16. CASE Tick
  BY <1>0, <1>16, NoneAssumption DEF Tick, handler, OneRunPerKey, NamedInv, OwnerInv, EarlyInv, Owner,
     TypeOK, Goto, tables, history
<1> QED BY <1>1, <1>2, <1>3, <1>4, <1>5, <1>6, <1>7, <1>8, <1>9, <1>10, <1>11, <1>12, <1>13,
   <1>14, <1>15, <1>16 DEF Next, RequestStep, FaultStep

\* Every step keeps them.
LEMMA TableKept ==
    ASSUME RateInv, Next
    PROVE  TableInv' /\ RatesHeld'
<1>0. TypeOK /\ TableInv /\ RatesHeld
  BY DEF RateInv, KeyInv
<1>1. ASSUME NEW q \in Requests, ClaimDraft(q)
      PROVE  TableInv' /\ RatesHeld'
  <2>1. PICK t \in Read : Claimed("drafts", 1, t) \/ Refused("drafts", 1, t)
    BY <1>1 DEF ClaimDraft
  <2>2. now' = now /\ "drafts" \in RateKeys
    BY <1>1 DEF ClaimDraft, RateKeys
  <2> QED BY <1>0, <2>1, <2>2, ClaimKeeps
<1>2. ASSUME NEW q \in Requests, ClaimRun(q)
      PROVE  TableInv' /\ RatesHeld'
  <2>1. PICK t \in Read : Claimed("runs", 1, t) \/ Refused("runs", 1, t)
    BY <1>2 DEF ClaimRun
  <2>2. now' = now /\ "runs" \in RateKeys
    BY <1>2 DEF ClaimRun, RateKeys
  <2> QED BY <1>0, <2>1, <2>2, ClaimKeeps
<1>3. ASSUME NEW cost \in 1 .. MaxCost, EndpointClaim(cost)
      PROVE  TableInv' /\ RatesHeld'
  <2>1. PICK t \in Read : Claimed("endpoint", cost, t) \/ Refused("endpoint", cost, t)
    BY <1>3 DEF EndpointClaim
  <2>2. now' = now /\ "endpoint" \in RateKeys /\ cost \in Nat
    BY <1>3, LimitsAssumption DEF EndpointClaim, RateKeys
  <2> QED BY <1>0, <2>1, <2>2, ClaimKeeps
<1>4. ASSUME UNCHANGED <<now, slots, granted>>
      PROVE  TableInv' /\ RatesHeld'
  BY <1>0, <1>4 DEF TableInv, RatesHeld, GrantedIn
<1>5. ASSUME NEW q \in Requests, Refund(q)
      PROVE  TableInv' /\ RatesHeld'
  <2>1. /\ UNCHANGED <<now, granted>>
        /\ \A j \in RateKeys : j # "drafts" => slots'[j] = slots[j]
    BY <1>0, <1>5, WithoutNewestType DEF Refund, RateKeys
  <2>2. \A j \in Kept : slots'[j] = slots[j]
    BY <2>1 DEF Kept, RateKeys
  <2>3. TableInv'
    BY <1>0, <2>1, <2>2 DEF TableInv
  <2>4. RatesHeld'
    BY <1>0, <2>1 DEF RatesHeld, GrantedIn
  <2> QED BY <2>3, <2>4
<1>6. CASE Tick
  <2>1. UNCHANGED <<slots, granted>> /\ now' = now + 1
    BY <1>6 DEF Tick, tables, history
  <2>2. now \in Int /\ Times \subseteq Int /\ Shortest \in Int
    BY <1>0, LimitsAssumption, ShortestType DEF TypeOK, Times
  <2>3. \A t \in Times : t > now' - Shortest => t > now - Shortest
    BY <2>1, <2>2
  <2>4. TableInv'
    BY <1>0, <2>1, <2>3 DEF TableInv
  <2>5. RatesHeld'
    BY <1>0, <2>1 DEF RatesHeld, GrantedIn
  <2> QED BY <2>4, <2>5
<1>7. ASSUME NEW q \in Requests,
             \/ Wait(q) \/ Register(q) \/ Create(q) \/ Record(q) \/ Start(q) \/ Release(q)
             \/ FaultStep(q) \/ \E k \in Keys : Reserve(q, k)
      PROVE  UNCHANGED <<now, slots, granted>>
  BY <1>7 DEF Wait, Register, Create, Record, Start, Release, FaultStep, RefundFails,
     CallRaises,
              ReleaseFails, Die, Reserve, tables, history
<1> QED BY <1>1, <1>2, <1>3, <1>4, <1>5, <1>6, <1>7 DEF Next, RequestStep

-----------------------------------------------------------------------------
(* The theorems *)

LEMMA AuthoringInit == Init => RateInv
<1> SUFFICES ASSUME Init PROVE RateInv
  OBVIOUS
<1>1. TypeOK
  <2>1. now \in Times /\ faults \in 0 .. MaxFaults
    BY LimitsAssumption DEF Init, Times
  <2>2. /\ slots \in [RateKeys -> [Times -> Nat]]
        /\ granted \in [RateKeys -> [Times -> Nat]]
    BY DEF Init
  <2>3. /\ reserved \in [Keys -> {"absent", "pending"} \cup Requests]
        /\ at \in [Requests -> At]
        /\ since \in [Requests -> Times]
        /\ key \in [Requests -> Keys \cup {None}]
        /\ \A q \in Requests : at[q] = "idle"
    BY <2>1 DEF Init, At
  <2>4. created \subseteq Requests /\ unnamed \subseteq Requests /\ stuck \subseteq Keys
    BY DEF Init
  <2>5. drafted \in [Requests -> Times \cup {-1}]
    BY DEF Init
  <2> QED BY <2>1, <2>2, <2>3, <2>4, <2>5 DEF TypeOK
<1>2. Kept \subseteq RateKeys
  BY DEF Kept, RateKeys
<1>3. TableInv
  BY <1>2 DEF Init, TableInv
<1>4. RatesHeld
  <2> SUFFICES ASSUME NEW k \in Kept, NEW t \in Times PROVE GrantedIn(k, SafeSpan, t) <= Limit[k]
    BY DEF RatesHeld, Kept
  <2> DEFINE W == (t - SafeSpan + 1 .. t) \cap Times
             g == [u \in W |-> granted[k][u]]
  <2>1. \A u \in W : g[u] = 0
    <3>1. k \in RateKeys
      BY <1>2
    <3>2. \A u \in Times : granted[k][u] = 0
      BY <3>1 DEF Init
    <3>3. W \subseteq Times
      OBVIOUS
    <3> HIDE DEF W
    <3>4. \A u \in W : g[u] = granted[k][u]
      OBVIOUS
    <3> QED BY <3>2, <3>3, <3>4
  <2>2. Rows(g) = {}
    <3>1. DOMAIN g = W /\ \A u \in W : 1 .. g[u] = {}
      BY <2>1
    <3> HIDE DEF g, W
    <3>2. \A x : x \notin Rows(g)
      BY <3>1, RowsMember
    <3> QED BY <3>2
  <2>3. Total(g) = 0
    <3>1. Total(g) = Cardinality(Rows(g))
      BY DEF Total, Rows
    <3> QED BY <2>2, <3>1, FS_EmptySet
  <2>4. Limit[k] \in Nat
    BY <1>2, LimitsAssumption
  <2> QED BY <2>3, <2>4 DEF GrantedIn
<1>5. OwnerInv /\ EarlyInv /\ NamedInv /\ OneRunPerKey
  BY DEF Init, OwnerInv, Owner, EarlyInv, NamedInv, OneRunPerKey
<1> QED BY <1>1, <1>3, <1>4, <1>5 DEF RateInv, KeyInv

LEMMA KeyInvKept == KeyInv /\ [Next]_vars => KeyInv'
<1> SUFFICES ASSUME KeyInv, [Next]_vars PROVE KeyInv'
  OBVIOUS
<1>1. CASE Next
  BY <1>1, TypeOKKept, OwnerInvKept, EarlyInvKept, NamedInvKept, OneRunPerKeyKept DEF KeyInv
<1>2. CASE UNCHANGED vars
  <2>1. UNCHANGED <<now, slots, reserved, at, since, key, created, drafted, granted, unnamed, stuck, faults>>
    BY <1>2 DEF vars, tables, handler, history
  <2>2. TypeOK'
    BY <2>1 DEF KeyInv, TypeOK
  <2>3. OwnerInv' /\ EarlyInv' /\ NamedInv' /\ OneRunPerKey'
    BY <2>1 DEF KeyInv, OwnerInv, Owner, EarlyInv, NamedInv, OneRunPerKey
  <2> QED BY <2>2, <2>3 DEF KeyInv
<1> QED BY <1>1, <1>2

LEMMA RateInvKept == RateInv /\ [Next]_vars => RateInv'
<1> SUFFICES ASSUME RateInv, [Next]_vars PROVE RateInv'
  OBVIOUS
<1>1. KeyInv'
  BY KeyInvKept DEF RateInv
<1>2. CASE Next
  BY <1>1, <1>2, TableKept DEF RateInv
<1>3. CASE UNCHANGED vars
  <2>1. UNCHANGED <<now, slots, granted>>
    BY <1>3 DEF vars, tables, history
  <2>2. TableInv' /\ RatesHeld'
    BY <2>1 DEF RateInv, TableInv, RatesHeld, GrantedIn
  <2> QED BY <1>1, <2>2 DEF RateInv
<1> QED BY <1>2, <1>3

\* The variables keep their types.
THEOREM AuthoringTypes == Spec => []TypeOK
<1>1. Init => KeyInv
  BY AuthoringInit DEF RateInv
<1>2. KeyInv => TypeOK
  BY DEF KeyInv
<1> QED BY <1>1, <1>2, KeyInvKept, PTL DEF Spec

\* One idempotency key starts one run, whatever the limits and the faults are
\* (_idempotent_worker_author_run: the reserved row has one owner).
THEOREM KeyStartsOneRun == Spec => []OneRunPerKey
<1>1. Init => KeyInv
  BY AuthoringInit DEF RateInv
<1>2. KeyInv => OneRunPerKey
  BY DEF KeyInv
<1> QED BY <1>1, <1>2, KeyInvKept, PTL DEF Spec

\* Whatever the windows are and however claims wait for the lock, no span of time as long
\* as the shortest window less that wait holds more of the chat tool's runs, or of the
\* endpoints' slots, than their limit (_claim_chat_rate_slot and
\* _claim_run_create_quota_slot, which delete each other's rows).
THEOREM RatesAreHeld == Spec => []RatesHeld
<1>1. RateInv => RatesHeld
  BY DEF RateInv
<1> QED BY <1>1, AuthoringInit, RateInvKept, PTL DEF Spec

=============================================================================
