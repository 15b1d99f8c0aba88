--------------------------- MODULE Evidence_proofs ---------------------------
(***************************************************************************)
(* Whatever is written, revised, ingested and asked for, in whatever       *)
(* order: what is read as evidence was written, is current and admissible, *)
(* and stands in the order that both rankings agree on.                    *)
(***************************************************************************)
EXTENDS EvidenceMC, FiniteSetTheorems, WellFoundedInduction, TLAPS

LEMMA LeastElement ==
    ASSUME NEW T \in SUBSET Nat, T # {}
    PROVE  \E n \in T : \A m \in T : n <= m
<1>1. PICK n \in T : \A m \in T : <<m, n>> \notin OpToRel(<, Nat)
    BY NatLessThanWellFounded, WFMin
<1>2. \A m \in T : ~(m < n)
    BY <1>1 DEF OpToRel
<1> QED
    BY <1>2

\* Induction, over the set of the numbers of which something holds.
LEMMA InductionSet ==
    ASSUME NEW T, 0 \in T, \A n \in Nat : n \in T => n + 1 \in T
    PROVE  \A n \in Nat : n \in T
<1> DEFINE Rest == {n \in Nat : n \notin T}
<1> SUFFICES ASSUME Rest # {}
             PROVE  FALSE
    OBVIOUS
<1>1. PICK n \in Rest : \A m \in Rest : n <= m
    BY LeastElement
<1>2. n # 0 /\ n - 1 \in Nat /\ ~(n <= n - 1)
    BY <1>1
<1>3. n - 1 \in T
    BY <1>1, <1>2
<1>4. (n - 1) + 1 \in T
    BY <1>2, <1>3
<1> QED
    BY <1>1, <1>4

-----------------------------------------------------------------------------
(* The observation table.                                                  *)

\* The tables one record after the other, as AfterBatch computes them.
Passes(f, rs, batch, n) ==
    f = [i \in 0..n |-> IF i = 0 THEN rs ELSE Upsert(f[i - 1], batch[i])]

LEMMA PassesExist ==
    ASSUME NEW rs, NEW batch
    PROVE  \A n \in Nat : \E f : Passes(f, rs, batch, n)
<1> DEFINE T == {n \in Nat : \E f : Passes(f, rs, batch, n)}
<1>1. 0 \in T
    <2>1. Passes([i \in 0..0 |-> rs], rs, batch, 0)
        BY DEF Passes
    <2> QED
        BY <2>1
<1>2. ASSUME NEW n \in Nat, n \in T
      PROVE  n + 1 \in T
    <2>1. PICK f : Passes(f, rs, batch, n)
        BY <1>2
    <2> DEFINE g == [i \in 0..(n + 1) |-> IF i = n + 1 THEN Upsert(f[n], batch[n + 1]) ELSE f[i]]
    <2>2. \A i \in 0..n : f[i] = IF i = 0 THEN rs ELSE Upsert(f[i - 1], batch[i])
        BY <2>1 DEF Passes
    <2>3. \A i \in 0..(n + 1) : g[i] = IF i = 0 THEN rs ELSE Upsert(g[i - 1], batch[i])
        <3>1. \A i \in 0..n : g[i] = f[i]
            OBVIOUS
        <3>2. g[n + 1] = Upsert(f[n], batch[n + 1])
            OBVIOUS
        <3> HIDE DEF g
        <3>3. ASSUME NEW i \in 0..(n + 1)
              PROVE  g[i] = IF i = 0 THEN rs ELSE Upsert(g[i - 1], batch[i])
            <4>1. CASE i = n + 1
                <5>1. i - 1 = n /\ i # 0 /\ g[n] = f[n]
                    BY <3>1, <4>1
                <5> QED
                    BY <3>2, <4>1, <5>1
            <4>2. CASE i \in 0..n
                <5>1. i = 0 \/ i - 1 \in 0..n
                    BY <4>2
                <5> QED
                    BY <2>2, <3>1, <4>2, <5>1
            <4> QED
                BY <4>1, <4>2
        <3> QED
            BY <3>3
    <2>4. g = [i \in 0..(n + 1) |-> g[i]]
        OBVIOUS
    <2> HIDE DEF g
    <2>5. Passes(g, rs, batch, n + 1)
        BY <2>3, <2>4 DEF Passes
    <2> QED
        BY <2>5
<1> HIDE DEF T
<1>3. \A n \in Nat : n \in T
    BY <1>1, <1>2, InductionSet
<1> QED
    BY <1>3 DEF T

\* f goes from rs to the tables after the batch, one record at a time.
Upserts(f, rs, batch) ==
    /\ f[0] = rs /\ f[Len(batch)] = AfterBatch(rs, batch)
    /\ \A i \in 1..Len(batch) : f[i] = Upsert(f[i - 1], batch[i])

\* AfterBatch upserts the records one after the other.
LEMMA AfterBatchPasses ==
    ASSUME NEW rs, NEW batch, Len(batch) \in Nat
    PROVE  \E f : Upserts(f, rs, batch)
<1> DEFINE n == Len(batch)
           after == CHOOSE f : f = [i \in 0..n |-> IF i = 0 THEN rs ELSE Upsert(f[i - 1], batch[i])]
<1>1. \E f : f = [i \in 0..n |-> IF i = 0 THEN rs ELSE Upsert(f[i - 1], batch[i])]
    <2>1. PICK f : Passes(f, rs, batch, n)
        BY PassesExist
    <2> QED
        BY <2>1, Zenon DEF Passes
<1>2. after = [i \in 0..n |-> IF i = 0 THEN rs ELSE Upsert(after[i - 1], batch[i])]
    BY <1>1
<1>3. AfterBatch(rs, batch) = after[n]
    BY DEF AfterBatch
<1> HIDE DEF after
<1>4. after[0] = rs /\ \A i \in 1..n : after[i] = Upsert(after[i - 1], batch[i])
    BY <1>2
<1>5. Upserts(after, rs, batch)
    BY <1>3, <1>4 DEF Upserts
<1> QED
    BY <1>5

OneRowPerKey(rs) == \A r, q \in rs : NaturalKey(r) = NaturalKey(q) => r = q

\* The rows hold what was written, the latest value under each key.
Hold(rs, ws) ==
    /\ rs \subseteq Observation
    /\ OneRowPerKey(rs)
    /\ \A r \in rs : \E w \in ws : NaturalKey(w) = NaturalKey(r) /\ w.value = r.value
    /\ \A w \in ws : \E r \in rs : NaturalKey(r) = NaturalKey(w)

LEMMA UpsertHolds ==
    ASSUME NEW rs, NEW ws, Hold(rs, ws), NEW r \in Observation
    PROVE  Hold(Upsert(rs, r), ws \cup {r})
<1> DEFINE there == {q \in rs : NaturalKey(q) = NaturalKey(r)}
           new == IF there = {} THEN {r} ELSE {[q EXCEPT !.value = r.value] : q \in there}
<1>1. Upsert(rs, r) = (rs \ there) \cup new
    BY DEF Upsert
<1>2. ASSUME NEW q \in there
      PROVE  LET x == [q EXCEPT !.value = r.value] IN
             x \in Observation /\ NaturalKey(x) = NaturalKey(r) /\ x.value = r.value
    BY DEF Hold, Observation, NaturalKey
<1>3. \A q, p \in there : q = p
    BY DEF Hold, OneRowPerKey
<1>4. PICK x : /\ new = {x} /\ x \in Observation /\ NaturalKey(x) = NaturalKey(r)
               /\ x.value = r.value
    <2>1. CASE there = {}
        BY <2>1
    <2>2. CASE there # {}
        <3>1. PICK q \in there : TRUE
            BY <2>2
        <3>2. new = {[q EXCEPT !.value = r.value]}
            BY <1>3, <2>2, <3>1
        <3> QED
            BY <1>2, <3>2
    <2> QED
        BY <2>1, <2>2
<1> HIDE DEF new
<1>5. \A q \in rs \ there : q \in rs /\ NaturalKey(q) # NaturalKey(r)
    OBVIOUS
<1>6. \A q \in rs : q \in rs \ there \/ NaturalKey(q) = NaturalKey(r)
    OBVIOUS
<1> HIDE DEF there
<1>7. Upsert(rs, r) = (rs \ there) \cup {x}
    BY <1>1, <1>4
<1>8. /\ Upsert(rs, r) \subseteq Observation /\ OneRowPerKey(Upsert(rs, r))
    BY <1>4, <1>5, <1>7 DEF Hold, OneRowPerKey
<1>9. \A q \in Upsert(rs, r) : \E w \in ws \cup {r} : NaturalKey(w) = NaturalKey(q) /\ w.value = q.value
    BY <1>4, <1>5, <1>7 DEF Hold
<1>10. \A w \in ws \cup {r} : \E q \in Upsert(rs, r) : NaturalKey(q) = NaturalKey(w)
    BY <1>4, <1>6, <1>7 DEF Hold
<1> QED
    BY <1>8, <1>9, <1>10 DEF Hold

\* A batch of any length is upserted record by record.
LEMMA BatchHolds ==
    ASSUME NEW rs, NEW ws, Hold(rs, ws), NEW n \in Nat, NEW batch \in [1..n -> Observation]
    PROVE  Hold(AfterBatch(rs, batch), ws \cup {batch[i] : i \in DOMAIN batch})
<1>1. Len(batch) = n /\ DOMAIN batch = 1..n
    OBVIOUS
<1>0. PICK f : Upserts(f, rs, batch)
    BY <1>1, AfterBatchPasses
<1>2. /\ f[0] = rs /\ f[n] = AfterBatch(rs, batch)
      /\ \A i \in 1..n : f[i] = Upsert(f[i - 1], batch[i])
    BY <1>0, <1>1 DEF Upserts
<1> DEFINE Up(i) == ws \cup {batch[j] : j \in 1..i}
           T == {i \in Nat : i <= n => Hold(f[i], Up(i))}
<1>3. 0 \in T
    <2>1. Up(0) = ws
        OBVIOUS
    <2> QED
        BY <1>2, <2>1
<1>4. ASSUME NEW i \in Nat, i \in T
      PROVE  i + 1 \in T
    <2> SUFFICES ASSUME i + 1 <= n
                 PROVE  Hold(f[i + 1], Up(i + 1))
        OBVIOUS
    <2>1. Hold(f[i], Up(i))
        BY <1>4
    <2>2. i + 1 \in 1..n /\ (i + 1) - 1 = i /\ batch[i + 1] \in Observation
        OBVIOUS
    <2>3. f[i + 1] = Upsert(f[i], batch[i + 1])
        BY <1>2, <2>2
    <2>4. Up(i + 1) = Up(i) \cup {batch[i + 1]}
        <3>1. 1..(i + 1) = 1..i \cup {i + 1}
            OBVIOUS
        <3> QED
            BY <3>1
    <2> HIDE DEF Up
    <2> QED
        BY <2>1, <2>2, <2>3, <2>4, UpsertHolds
<1> HIDE DEF T
<1>5. n \in T
    BY <1>3, <1>4, InductionSet
<1> QED
    BY <1>1, <1>2, <1>5 DEF T

ObservationsInv == Hold(rows, written) /\ StoreTypeOK

LEMMA WriteKeeps ==
    ASSUME ObservationsInv, NEW n \in 1..MaxBatch, NEW batch \in [1..n -> Observation], WriteBatch(batch)
    PROVE  ObservationsInv'
<1>1. n \in Nat
    BY StoreAssumption DEF StoreAssumption
<1>2. /\ rows' = AfterBatch(rows, batch) /\ written' = written \cup {batch[i] : i \in DOMAIN batch}
      /\ writes' = writes + 1 /\ writes < MaxWrites /\ UNCHANGED <<storeClock, asked>>
    BY DEF WriteBatch
<1>3. Hold(rows', written')
    BY <1>1, <1>2, BatchHolds DEF ObservationsInv
<1>4. written' \subseteq Observation
    BY <1>2 DEF ObservationsInv, StoreTypeOK
<1>5. writes' \in 0..MaxWrites
    BY <1>2, StoreAssumption DEF ObservationsInv, StoreTypeOK, StoreAssumption
<1> QED
    BY <1>2, <1>3, <1>4, <1>5 DEF ObservationsInv, StoreTypeOK, Hold, OneRowPerKey, NaturalKey

LEMMA QueryKeeps ==
    ASSUME ObservationsInv, Query
    PROVE  ObservationsInv'
<1>1. PICK t \in 0..storeClock :
          asked' = asked \cup {[asOf |-> t, at |-> storeClock, answer |-> AsOf(t)]}
    BY DEF Query
<1>2. AsOf(t) \subseteq Observation /\ t <= storeClock
    BY DEF AsOf, ObservationsInv, Hold
<1>3. UNCHANGED <<storeClock, rows, written, writes>>
    BY DEF Query
<1> QED
    BY <1>1, <1>2, <1>3 DEF ObservationsInv, StoreTypeOK, Hold, OneRowPerKey, NaturalKey

LEMMA ObservationsInvStep ==
    ASSUME ObservationsInv, [StoreNext]_storeVars
    PROVE  ObservationsInv'
<1>1. ASSUME NEW n \in 1..MaxBatch, NEW batch \in [1..n -> Observation], WriteBatch(batch)
      PROVE  ObservationsInv'
    BY <1>1, WriteKeeps
<1>2. CASE StoreTick
    BY <1>2, StoreAssumption
       DEF StoreTick, ObservationsInv, StoreTypeOK, Hold, OneRowPerKey, NaturalKey, StoreAssumption
<1>3. CASE UNCHANGED storeVars
    BY <1>3 DEF storeVars, ObservationsInv, StoreTypeOK, Hold, OneRowPerKey, NaturalKey
<1> QED
    BY <1>1, <1>2, <1>3, QueryKeeps DEF StoreNext

\* For every batch of every length: the table holds one row per key, what was
\* last written under it, and all that was ever written.
THEOREM ObservationsInvariance == StoreSpec => []ObservationsInv
<1>1. StoreInit => ObservationsInv
    BY StoreAssumption
       DEF StoreInit, ObservationsInv, StoreTypeOK, Hold, OneRowPerKey, StoreAssumption
<1> QED
    BY <1>1, ObservationsInvStep, PTL DEF StoreSpec

\* A row that a batch touches keeps its key, and so its issue: what was issued
\* up to t is what it was, unless the batch brings some of it.
THEOREM RevisionsTheorem == StoreSpec => RevisionsLeaveThePast
<1> DEFINE Leaves == \A t \in 0..StoreClockBound :
                         (\A r \in written' \ written : r.issued > t) /\ (\A r \in rows' \ rows : r.issued > t)
                         => AsOf(t) = AsOf(t)'
<1>1. ASSUME ObservationsInv, ObservationsInv', [StoreNext]_storeVars
      PROVE  [Leaves]_storeVars
    <2>1. written \subseteq written'
        BY <1>1 DEF StoreNext, WriteBatch, Query, StoreTick, storeVars
    <2> SUFFICES ASSUME NEW t \in 0..StoreClockBound, \A r \in rows' \ rows : r.issued > t
                 PROVE  AsOf(t) = AsOf(t)'
        OBVIOUS
    <2> DEFINE Past(rs) == {r \in rs : r.issued <= t}
               Latest(rs) == {r \in rs : \A q \in rs : (q.source = r.source /\ q.valid = r.valid) => q.issued <= r.issued}
    <2>2. \A r \in rows \cup rows' : r.issued \in Nat
        BY <1>1 DEF ObservationsInv, Hold, Observation
    <2>3. Past(rows') \subseteq Past(rows)
        BY <2>2
    <2>4. ASSUME NEW r \in Past(rows)
          PROVE  r \in Past(rows')
        <3>1. PICK w \in written : NaturalKey(w) = NaturalKey(r)
            BY <1>1 DEF ObservationsInv, Hold
        <3>2. PICK q \in rows' : NaturalKey(q) = NaturalKey(w)
            BY <1>1, <2>1 DEF ObservationsInv, Hold, NaturalKey
        <3>3. q.issued = r.issued
            BY <3>1, <3>2 DEF NaturalKey
        <3>4. q \in Past(rows)
            BY <2>3, <3>3
        <3>5. q = r
            BY <1>1, <3>1, <3>2, <3>4 DEF ObservationsInv, Hold, OneRowPerKey
        <3> QED
            BY <3>2, <3>5
    <2>5. AsOf(t) = Latest(Past(rows)) /\ AsOf(t)' = Latest(Past(rows'))
        BY DEF AsOf
    <2> QED
        BY <2>3, <2>4, <2>5
<1> QED
    BY <1>1, ObservationsInvariance, PTL DEF StoreSpec, RevisionsLeaveThePast

-----------------------------------------------------------------------------
(* Finite sets in an order.                                                *)

Precedes(S, R, x) == {y \in S : <<y, x>> \in R}
Place(S, R, x) == Cardinality(Precedes(S, R, x))

StrictOrder(S, R) ==
    /\ \A x \in S : <<x, x>> \notin R
    /\ \A x, y, z \in S : <<x, y>> \in R /\ <<y, z>> \in R => <<x, z>> \in R
    /\ \A x, y \in S : x = y \/ <<x, y>> \in R \/ <<y, x>> \in R

LEMMA PlaceRises ==
    ASSUME NEW S, NEW R, IsFiniteSet(S), StrictOrder(S, R)
    PROVE  /\ \A x \in S : Place(S, R, x) \in 0..(Cardinality(S) - 1)
           /\ \A x, y \in S : <<x, y>> \in R <=> Place(S, R, x) < Place(S, R, y)
<1>1. Cardinality(S) \in Nat /\ \A x : Precedes(S, R, x) \in SUBSET S
    BY FS_CardinalityType DEF Precedes
<1>2. ASSUME NEW T \in SUBSET S, NEW U \in SUBSET T, U # T
      PROVE  Cardinality(U) \in Nat /\ Cardinality(T) \in Nat /\ Cardinality(U) < Cardinality(T)
    <2>1. IsFiniteSet(T) /\ Cardinality(T) \in Nat
        BY FS_Subset, FS_CardinalityType
    <2>2. IsFiniteSet(U) /\ Cardinality(U) \in Nat
        BY FS_Subset, FS_CardinalityType, <2>1
    <2>3. Cardinality(U) <= Cardinality(T) /\ Cardinality(U) # Cardinality(T)
        BY FS_Subset, <2>1, <1>2
    <2> QED
        BY <2>1, <2>2, <2>3
<1>3. ASSUME NEW x \in S
      PROVE  Place(S, R, x) \in 0..(Cardinality(S) - 1)
    <2>1. Precedes(S, R, x) # S
        BY DEF Precedes, StrictOrder
    <2>2. Place(S, R, x) \in Nat /\ Place(S, R, x) < Cardinality(S)
        BY <1>1, <1>2, <2>1 DEF Place
    <2> QED
        BY <1>1, <2>2
<1>4. ASSUME NEW x \in S, NEW y \in S, <<x, y>> \in R
      PROVE  Place(S, R, x) < Place(S, R, y)
    <2>1. Precedes(S, R, x) \subseteq Precedes(S, R, y)
        BY <1>4 DEF Precedes, StrictOrder
    <2>2. x \in Precedes(S, R, y) /\ x \notin Precedes(S, R, x)
        BY <1>4 DEF Precedes, StrictOrder
    <2> QED
        BY <1>1, <1>2, <2>1, <2>2 DEF Place
<1>5. ASSUME NEW x \in S, NEW y \in S, Place(S, R, x) < Place(S, R, y)
      PROVE  <<x, y>> \in R
    <2>1. Place(S, R, x) \in Int /\ Place(S, R, y) \in Int
        BY <1>1, <1>3
    <2>2. x # y /\ <<y, x>> \notin R
        BY <1>4, <1>5, <2>1
    <2> QED
        BY <2>2 DEF StrictOrder
<1> QED
    BY <1>3, <1>4, <1>5

\* Every place is somebody's.
LEMMA PlacesAreTaken ==
    ASSUME NEW S, NEW R, IsFiniteSet(S), StrictOrder(S, R)
    PROVE  \A i \in 0..(Cardinality(S) - 1) : \E x \in S : Place(S, R, x) = i
<1> DEFINE n == Cardinality(S)
           f == [x \in S |-> Place(S, R, x)]
           P == 0..(n - 1)
<1>1. n \in Nat
    BY FS_CardinalityType
<1>2. IsFiniteSet(P) /\ Cardinality(P) = n
    BY <1>1, FS_Interval
<1>3. f \in [S -> P]
    BY PlaceRises
<1>4. \A x, y \in S : f[x] = f[y] => x = y
    <2>1. \A x, y \in S : x = y \/ f[x] < f[y] \/ f[y] < f[x]
        BY PlaceRises DEF StrictOrder
    <2>2. \A x \in S : f[x] \in Int
        BY <1>1, <1>3
    <2> HIDE DEF f
    <2> QED
        BY <2>1, <2>2
<1>5. f \in Injection(S, P)
    BY <1>3, <1>4, Zenon DEF Injection, IsInjective
<1>6. f \in Surjection(S, P)
    BY <1>2, <1>5, FS_Injection, Zenon
<1>7. \A i \in P : \E x \in S : f[x] = i
    BY <1>6, Zenon DEF Surjection
<1> QED
    BY <1>7

-----------------------------------------------------------------------------
(* The registry.                                                           *)

Asked == question \in Questions /\ registry \subseteq Capabilities \cup Registrable

LEMMA RegistryInv == RegistrySpec => []Asked
<1>1. RegistryInit => Asked
    BY DEF RegistryInit, Asked
<1>2. Asked /\ [RegistryNext]_registryVars => Asked'
    BY DEF RegistryNext, AskAgain, Register, registryVars, Asked
<1> QED
    BY <1>1, <1>2, PTL DEF RegistrySpec

\* A narrower question selects no dataset that the wider one does not, and
\* registering one loses none, for every registry and whatever may be asked.
THEOREM SelectionTheorem == RegistrySpec => MoreIsAnsweredByMore
<1>1. ASSUME Asked
      PROVE  \A c \in registry : c.cost \in Nat
    BY <1>1, RegistryAssumption DEF RegistryAssumption, Asked
<1>2. ASSUME Asked, NEW p \in Questions, NEW q \in Questions, Narrower(p, q)
      PROVE  Selected(p) \subseteq Selected(q)
    <2> SUFFICES ASSUME NEW c \in registry, Verdict(c, p) = "selected"
                 PROVE  Verdict(c, q) = "selected"
        BY DEF Selected
    <2>1. /\ p.variable \in c.variables /\ Covers(c, p.box) /\ CoversTime(c, p.at)
          /\ WithinBudget(c, p) /\ ~(c.auth /\ (~p.allowAuth \/ c.source \notin p.credentials))
        BY DEF Verdict
    <2>2. q.variable \in c.variables /\ Covers(c, q.box) /\ CoversTime(c, q.at)
        BY <1>2, <2>1 DEF Narrower, Covers
    <2>3. WithinBudget(c, q)
        <3>1. CASE q.maxCost = Unlimited
            BY <3>1 DEF WithinBudget
        <3>2. CASE q.maxCost # Unlimited
            <4>1. c.cost <= p.maxCost /\ p.maxCost <= q.maxCost
                BY <1>2, <2>1, <3>2 DEF Narrower, WithinBudget
            <4>2. c.cost \in Nat /\ p.maxCost \in Nat /\ q.maxCost \in Nat
                BY <1>1, <1>2, <3>2, RegistryAssumption DEF RegistryAssumption, Narrower
            <4> QED
                BY <4>1, <4>2 DEF WithinBudget
        <3> QED
            BY <3>1, <3>2
    <2>4. ~(c.auth /\ (~q.allowAuth \/ c.source \notin q.credentials))
        BY <1>2, <2>1 DEF Narrower
    <2> QED
        BY <2>2, <2>3, <2>4 DEF Verdict
<1>3. ASSUME Asked, AskAgain, Narrower(question, question')
      PROVE  Selected(question) \subseteq Selected(question)'
    <2>1. Selected(question)' = Selected(question')
        BY <1>3 DEF AskAgain, Selected
    <2> QED
        BY <1>2, <1>3, <2>1 DEF AskAgain, Asked
<1>4. ASSUME NEW c \in Registrable, Register(c)
      PROVE  Selected(question) \subseteq Selected(question)'
    BY <1>4 DEF Register, Selected
<1>5. Asked /\ RegistryNext => (Narrower(question, question') => Selected(question) \subseteq Selected(question)')
    BY <1>3, <1>4 DEF RegistryNext
<1> QED
    BY <1>5, RegistryInv, PTL DEF RegistrySpec, MoreIsAnsweredByMore

-----------------------------------------------------------------------------
(* The corpus: what a retrieval makes of two rankings.                     *)

Positive == Nat \ {0}

LEMMA BothAreAhead ==
    ASSUME NEW a \in Positive, NEW b \in Positive, NEW c \in Positive, NEW d \in Positive, a < c, b < d
    PROVE  (c + d) * (a * b) < (a + b) * (c * d)
BY DEF Positive

LEMMA OneIsAhead ==
    ASSUME NEW a \in Positive, NEW b \in Positive, NEW d \in Positive, a < d \/ b < d
    PROVE  1 * (a * b) < (a + b) * d
<1>1. CASE a < d
    BY <1>1 DEF Positive
<1>2. CASE b < d
    BY <1>2 DEF Positive
<1> QED
    BY <1>1, <1>2

Fraction == Positive \X Positive

\* The scores, as fractions, are in a linear order.
LEMMA FractionsAreOrdered ==
    ASSUME NEW x \in Fraction, NEW y \in Fraction, NEW z \in Fraction
    PROVE  /\ ~IsLess(x, x)
           /\ IsLess(x, y) => ~IsLess(y, x)
           /\ ~IsLess(y, x) /\ ~IsLess(z, y) => ~IsLess(z, x)
           /\ IsLess(x, y) /\ ~IsLess(z, y) => IsLess(x, z)
           /\ ~IsLess(y, x) /\ IsLess(y, z) => IsLess(x, z)
<1>1. \A a, b, c, d, e, f \in Positive : a * d <= c * b /\ c * f <= e * d => a * f <= e * b
    BY DEF Positive
<1>2. \A a, b, c, d, e, f \in Positive : a * d < c * b /\ c * f <= e * d => a * f < e * b
    BY DEF Positive
<1>3. \A a, b, c, d, e, f \in Positive : a * d <= c * b /\ c * f < e * d => a * f < e * b
    BY DEF Positive
<1>4. \A a, b \in Positive : a * b \in Int
    BY DEF Positive
<1> DEFINE a == x[1]  b == x[2]  c == y[1]  d == y[2]  e == z[1]  f == z[2]
<1>5. a \in Positive /\ b \in Positive /\ c \in Positive /\ d \in Positive /\ e \in Positive /\ f \in Positive
    BY DEF Fraction
<1> HIDE DEF a, b, c, d, e, f
<1>6. \A p, q \in Int : ~(p < q) <=> q <= p
    OBVIOUS
<1>7. /\ IsLess(x, y) <=> a * d < c * b
      /\ IsLess(y, z) <=> c * f < e * d
      /\ IsLess(x, z) <=> a * f < e * b
      /\ ~IsLess(y, x) <=> a * d <= c * b
      /\ ~IsLess(z, y) <=> c * f <= e * d
      /\ ~IsLess(z, x) <=> a * f <= e * b
    BY <1>4, <1>5, <1>6 DEF IsLess, a, b, c, d, e, f
<1>8. ~IsLess(x, x)
    BY <1>4, <1>5 DEF IsLess, a, b
<1>9. IsLess(x, y) => ~IsLess(y, x)
    BY <1>4, <1>5, <1>7
<1> QED
    BY <1>1, <1>2, <1>3, <1>5, <1>7, <1>8, <1>9

LEMMA RankInFinds ==
    ASSUME NEW X, NEW n \in Nat, NEW r \in [1..n -> X], NEW id
    PROVE  /\ id \in IdsIn(r) => RankIn(r, id) \in 1..n /\ ChunkId(r[RankIn(r, id)].chunk) = id
           /\ id \notin IdsIn(r) => RankIn(r, id) = 0
<1> DEFINE at == {i \in DOMAIN r : ChunkId(r[i].chunk) = id}
<1>1. at \in SUBSET Nat /\ at \subseteq 1..n
    OBVIOUS
<1>2. id \in IdsIn(r) <=> at # {}
    BY DEF IdsIn
<1>3. RankIn(r, id) = IF at = {} THEN 0 ELSE Min(at)
    BY DEF RankIn
<1>4. ASSUME at # {}
      PROVE  Min(at) \in at
    <2>1. \E x \in at : \A y \in at : x <= y
        BY <1>1, <1>4, LeastElement
    <2> QED
        BY <2>1, Zenon DEF Min
<1> QED
    BY <1>1, <1>2, <1>3, <1>4

LEMMA IdsAreFinite ==
    ASSUME NEW X, NEW n \in Nat, NEW r \in [1..n -> X]
    PROVE  IsFiniteSet(IdsIn(r))
<1> DEFINE f == [i \in 1..n |-> ChunkId(r[i].chunk)]
<1>1. f \in [1..n -> IdsIn(r)] /\ \A id \in IdsIn(r) : \E i \in 1..n : f[i] = id
    BY DEF IdsIn
<1>2. f \in Surjection(1..n, IdsIn(r))
    BY <1>1, Zenon DEF Surjection
<1>3. IsFiniteSet(1..n)
    BY FS_Interval
<1> QED
    BY <1>2, <1>3, FS_Surjection, Zenon

\* A ranking of passages that the gates of f let through.
PassageOf(f) ==
    [chunk : Chunk, document : {d \in CorpusDocument : Temporal(d, f) /\ Regional(d, f)}]
RankingOf(f, r) == \E n \in Nat : r \in [1..n -> PassageOf(f)]

LEMMA ChunkIdIsAPair == \A c \in Chunk : ChunkId(c) \in Nat \X Nat
BY CorpusAssumption DEF CorpusAssumption, Chunk, ChunkId

LEMMA RankingFacts ==
    ASSUME NEW f, NEW r, RankingOf(f, r)
    PROVE  /\ IsFiniteSet(IdsIn(r)) /\ IdsIn(r) \subseteq Nat \X Nat
           /\ \A id : RankIn(r, id) \in Nat /\ (RankIn(r, id) # 0 <=> id \in IdsIn(r))
           /\ \A id \in IdsIn(r) : r[RankIn(r, id)] \in PassageOf(f) /\ ChunkId(r[RankIn(r, id)].chunk) = id
<1>1. PICK n \in Nat : r \in [1..n -> PassageOf(f)]
    BY DEF RankingOf
<1>2. IdsIn(r) \subseteq Nat \X Nat
    BY <1>1, ChunkIdIsAPair DEF IdsIn, PassageOf
<1>3. \A id : /\ id \in IdsIn(r) => RankIn(r, id) \in 1..n /\ ChunkId(r[RankIn(r, id)].chunk) = id
              /\ id \notin IdsIn(r) => RankIn(r, id) = 0
    BY <1>1, RankInFinds, Zenon
<1>4. IsFiniteSet(IdsIn(r))
    BY <1>1, IdsAreFinite
<1>5. \A id : RankIn(r, id) \in Nat /\ (RankIn(r, id) # 0 <=> id \in IdsIn(r))
    BY <1>3
<1>6. ASSUME NEW id \in IdsIn(r)
      PROVE  r[RankIn(r, id)] \in PassageOf(f) /\ ChunkId(r[RankIn(r, id)].chunk) = id
    <2>1. RankIn(r, id) \in 1..n /\ ChunkId(r[RankIn(r, id)].chunk) = id
        BY <1>3, Zenon
    <2> QED
        BY <1>1, <2>1
<1> QED
    BY <1>2, <1>4, <1>5, <1>6, Zenon

LEMMA FusedIsAFraction ==
    ASSUME NEW f, NEW lexical, NEW vector, RankingOf(f, lexical), RankingOf(f, vector),
           NEW id \in IdsIn(lexical) \cup IdsIn(vector)
    PROVE  Fused(lexical, vector, id) \in Fraction
<1> DEFINE a == RankIn(lexical, id)  b == RankIn(vector, id)
<1>1. a \in Nat /\ b \in Nat /\ (a # 0 \/ b # 0)
    BY RankingFacts
<1>2. Fused(lexical, vector, id) =
        IF a = 0 THEN <<1, RrfK + b>>
        ELSE IF b = 0 THEN <<1, RrfK + a>>
        ELSE <<(RrfK + a) + (RrfK + b), (RrfK + a) * (RrfK + b)>>
    BY DEF Fused
<1>3. RrfK + a \in Positive /\ RrfK + b \in Positive /\ 1 \in Positive
    BY <1>1, CorpusAssumption DEF CorpusAssumption, Positive
<1>4. \A x, y \in Positive : x + y \in Positive /\ x * y \in Positive
    BY DEF Positive
<1> HIDE DEF a, b
<1> QED
    BY <1>2, <1>3, <1>4 DEF Fraction

Sorted(lexical, vector) ==
    LET ids == IdsIn(lexical) \cup IdsIn(vector) IN
    {p \in ids \X ids : Before(lexical, vector, p[1], p[2])}

\* The sort key is a strict order on the ids: no two passages tie.
LEMMA SortKeyIsStrict ==
    ASSUME NEW f, NEW lexical, NEW vector, RankingOf(f, lexical), RankingOf(f, vector)
    PROVE  StrictOrder(IdsIn(lexical) \cup IdsIn(vector), Sorted(lexical, vector))
<1> DEFINE ids == IdsIn(lexical) \cup IdsIn(vector)
           S(x) == Fused(lexical, vector, x)
<1>1. \A x \in ids : S(x) \in Fraction
    BY FusedIsAFraction
<1>2. \A x, y \in ids : <<x, y>> \in Sorted(lexical, vector) <=> Before(lexical, vector, x, y)
    BY DEF Sorted
<1>3. \A x, y : Before(lexical, vector, x, y) <=> IsLess(S(y), S(x)) \/ (~IsLess(S(x), S(y)) /\ IdIsLess(x, y))
    BY DEF Before
<1>4. ids \subseteq Nat \X Nat
    BY RankingFacts
<1>5. ASSUME NEW x \in Nat \X Nat, NEW y \in Nat \X Nat, NEW z \in Nat \X Nat
      PROVE  /\ ~IdIsLess(x, x) /\ (x = y \/ IdIsLess(x, y) \/ IdIsLess(y, x))
             /\ IdIsLess(x, y) /\ IdIsLess(y, z) => IdIsLess(x, z)
    BY DEF IdIsLess
<1>6. \A x, y, z \in ids : /\ ~IdIsLess(x, x) /\ (x = y \/ IdIsLess(x, y) \/ IdIsLess(y, x))
                           /\ IdIsLess(x, y) /\ IdIsLess(y, z) => IdIsLess(x, z)
    BY <1>4, <1>5
<1>7. \A x, y, z \in ids :
        /\ ~IsLess(S(x), S(x))
        /\ IsLess(S(x), S(y)) => ~IsLess(S(y), S(x))
        /\ ~IsLess(S(y), S(x)) /\ ~IsLess(S(z), S(y)) => ~IsLess(S(z), S(x))
        /\ IsLess(S(x), S(y)) /\ ~IsLess(S(z), S(y)) => IsLess(S(x), S(z))
        /\ ~IsLess(S(y), S(x)) /\ IsLess(S(y), S(z)) => IsLess(S(x), S(z))
    BY <1>1, FractionsAreOrdered
<1> HIDE DEF ids, S
<1>8. \A x \in ids : <<x, x>> \notin Sorted(lexical, vector)
    BY <1>2, <1>3, <1>6, <1>7
<1>9. \A x, y \in ids : x = y \/ Before(lexical, vector, x, y) \/ Before(lexical, vector, y, x)
    BY <1>3, <1>6, <1>7
<1>10. ASSUME NEW x \in ids, NEW y \in ids, NEW z \in ids,
              Before(lexical, vector, x, y), Before(lexical, vector, y, z)
       PROVE  Before(lexical, vector, x, z)
    <2>1. IsLess(S(y), S(x)) \/ (~IsLess(S(x), S(y)) /\ IdIsLess(x, y))
        BY <1>3, <1>10
    <2>2. IsLess(S(z), S(y)) \/ (~IsLess(S(y), S(z)) /\ IdIsLess(y, z))
        BY <1>3, <1>10
    <2>3. IsLess(S(z), S(x)) \/ (~IsLess(S(x), S(z)) /\ IdIsLess(x, y) /\ IdIsLess(y, z))
        BY <2>1, <2>2, <1>7
    <2> QED
        BY <2>3, <1>3, <1>6
<1> QED
    BY <1>2, <1>8, <1>9, <1>10 DEF StrictOrder, ids

\* The passage in place i is one of those ranked, and i - 1 of them sort before it.
LEMMA OrderedByPlace ==
    ASSUME NEW f, NEW lexical, NEW vector, RankingOf(f, lexical), RankingOf(f, vector)
    PROVE  LET ids == IdsIn(lexical) \cup IdsIn(vector)
               o == Ordered(lexical, vector) IN
           /\ Len(o) \in Nat /\ o \in [1..Len(o) -> ids]
           /\ \A i \in 1..Len(o) : Place(ids, Sorted(lexical, vector), o[i]) = i - 1
<1> DEFINE ids == IdsIn(lexical) \cup IdsIn(vector)
           n == Cardinality(ids)
           o == Ordered(lexical, vector)
           Num(x) == Cardinality({y \in ids : Before(lexical, vector, y, x)})
<1>1. IsFiniteSet(ids) /\ n \in Nat
    BY RankingFacts, FS_Union, FS_CardinalityType
<1>2. StrictOrder(ids, Sorted(lexical, vector))
    BY SortKeyIsStrict
<1>3. ASSUME NEW x \in ids
      PROVE  Place(ids, Sorted(lexical, vector), x) = Num(x)
    <2>1. Precedes(ids, Sorted(lexical, vector), x) = {y \in ids : Before(lexical, vector, y, x)}
        BY DEF Precedes, Sorted
    <2> QED
        BY <2>1 DEF Place
<1>4. o = [i \in 1..n |-> CHOOSE x \in ids : Num(x) = i - 1]
    BY DEF Ordered
<1>5. DOMAIN o = 1..n /\ Len(o) = n
    BY <1>1, <1>4
<1>6. ASSUME NEW i \in 1..n
      PROVE  o[i] \in ids /\ Num(o[i]) = i - 1
    <2>1. i - 1 \in 0..(n - 1)
        BY <1>1
    <2>2. PICK x \in ids : Place(ids, Sorted(lexical, vector), x) = i - 1
        <3>1. \A j \in 0..(n - 1) : \E x \in ids : Place(ids, Sorted(lexical, vector), x) = j
            BY <1>1, <1>2, PlacesAreTaken, Zenon
        <3> QED
            BY <2>1, <3>1
    <2>3. \E y \in ids : Num(y) = i - 1
        BY <1>3, <2>2
    <2>4. o[i] = CHOOSE y \in ids : Num(y) = i - 1
        BY <1>4
    <2> QED
        BY <2>3, <2>4, Zenon
<1>7. o \in [1..n -> ids]
    BY <1>4, <1>5, <1>6
<1> QED
    BY <1>1, <1>3, <1>5, <1>6, <1>7

\* What both rankings put first scores more.
LEMMA OutranksScores ==
    ASSUME NEW f, NEW lexical, NEW vector, RankingOf(f, lexical), RankingOf(f, vector),
           NEW x \in IdsIn(lexical) \cup IdsIn(vector), NEW y \in IdsIn(lexical) \cup IdsIn(vector),
           Outranks(lexical, x, y), Outranks(vector, x, y)
    PROVE  Before(lexical, vector, x, y)
<1> DEFINE a == RankIn(lexical, x)  b == RankIn(vector, x)
           c == RankIn(lexical, y)  d == RankIn(vector, y)
<1>1. a \in Nat /\ b \in Nat /\ c \in Nat /\ d \in Nat /\ (c # 0 \/ d # 0)
    BY RankingFacts
<1>2. a # 0 /\ b # 0 /\ (c = 0 \/ a < c) /\ (d = 0 \/ b < d)
    BY DEF Outranks
<1>3. Fused(lexical, vector, x) = <<(RrfK + a) + (RrfK + b), (RrfK + a) * (RrfK + b)>>
    BY <1>2 DEF Fused
<1>4. Fused(lexical, vector, y) =
        IF c = 0 THEN <<1, RrfK + d>>
        ELSE IF d = 0 THEN <<1, RrfK + c>>
        ELSE <<(RrfK + c) + (RrfK + d), (RrfK + c) * (RrfK + d)>>
    BY DEF Fused
<1> HIDE DEF a, b, c, d
<1> DEFINE A == RrfK + a  B == RrfK + b  C == RrfK + c  D == RrfK + d
<1>5. /\ A \in Positive /\ B \in Positive /\ C \in Positive /\ D \in Positive
      /\ (c # 0 => A < C) /\ (d # 0 => B < D)
    BY <1>1, <1>2, CorpusAssumption DEF CorpusAssumption, Positive
<1> HIDE DEF A, B, C, D
<1>6. Fused(lexical, vector, x) = <<A + B, A * B>>
    BY <1>3 DEF A, B
<1>7. IsLess(Fused(lexical, vector, y), Fused(lexical, vector, x))
    <2>1. CASE c # 0 /\ d # 0
        <3>1. Fused(lexical, vector, y) = <<C + D, C * D>>
            BY <1>4, <2>1 DEF C, D
        <3>2. (C + D) * (A * B) < (A + B) * (C * D)
            BY <1>5, <2>1, BothAreAhead
        <3> QED
            BY <1>6, <3>1, <3>2 DEF IsLess
    <2>2. CASE c = 0
        <3>1. Fused(lexical, vector, y) = <<1, D>>
            BY <1>4, <2>2 DEF D
        <3>2. 1 * (A * B) < (A + B) * D
            BY <1>1, <1>5, <2>2, OneIsAhead
        <3> QED
            BY <1>6, <3>1, <3>2 DEF IsLess
    <2>3. CASE d = 0
        <3>1. Fused(lexical, vector, y) = <<1, C>>
            BY <1>1, <1>4, <2>3 DEF C
        <3>2. 1 * (A * B) < (A + B) * C
            BY <1>1, <1>5, <2>3, OneIsAhead
        <3> QED
            BY <1>6, <3>1, <3>2 DEF IsLess
    <2> QED
        BY <2>1, <2>2, <2>3
<1> QED
    BY <1>7 DEF Before

\* What retrieve() returns of two rankings: passages of theirs, in the order
\* that both agree on.
LEMMA RetrievedIsSound ==
    ASSUME NEW f, NEW lexical, NEW vector, RankingOf(f, lexical), RankingOf(f, vector)
    PROVE  LET r == Retrieved(lexical, vector) IN
           /\ \A i \in DOMAIN r : r[i] \in PassageOf(f)
           /\ \A i, j \in DOMAIN r :
                 LET x == ChunkId(r[i].chunk)  y == ChunkId(r[j].chunk) IN
                 Outranks(lexical, x, y) /\ Outranks(vector, x, y) => i < j
<1> DEFINE ids == IdsIn(lexical) \cup IdsIn(vector)
           R == Sorted(lexical, vector)
           o == Ordered(lexical, vector)
           m == Min({Len(o), PassageLimit})
           r == Retrieved(lexical, vector)
<1>1. /\ Len(o) \in Nat /\ o \in [1..Len(o) -> ids]
      /\ \A i \in 1..Len(o) : Place(ids, R, o[i]) = i - 1
    BY OrderedByPlace
<1>2. r = [i \in 1..m |-> RowOf(lexical, vector, o[i])]
    BY DEF Retrieved
<1>3. m \in Nat /\ m <= Len(o)
    <2>1. {Len(o), PassageLimit} \in SUBSET Nat
        BY <1>1, CorpusAssumption DEF CorpusAssumption
    <2>2. \E x \in {Len(o), PassageLimit} : \A y \in {Len(o), PassageLimit} : x <= y
        BY <2>1, LeastElement
    <2>3. m \in {Len(o), PassageLimit} /\ \A y \in {Len(o), PassageLimit} : m <= y
        BY <2>2, Zenon DEF Min
    <2> QED
        BY <2>1, <2>3
<1> HIDE DEF r, m, o
<1>4. ASSUME NEW i \in DOMAIN r
      PROVE  /\ i \in 1..Len(o) /\ o[i] \in ids
             /\ r[i] \in PassageOf(f) /\ ChunkId(r[i].chunk) = o[i]
    <2>1. i \in 1..m /\ i \in 1..Len(o) /\ r[i] = RowOf(lexical, vector, o[i])
        BY <1>1, <1>2, <1>3
    <2>2. o[i] \in ids
        BY <1>1, <2>1
    <2>3. CASE o[i] \in IdsIn(lexical)
        BY <2>1, <2>2, <2>3, RankingFacts DEF RowOf
    <2>4. CASE o[i] \notin IdsIn(lexical)
        <3>1. o[i] \in IdsIn(vector) /\ r[i] = vector[RankIn(vector, o[i])]
            BY <2>1, <2>2, <2>4 DEF RowOf
        <3> QED
            BY <2>1, <2>2, <3>1, RankingFacts
    <2> QED
        BY <2>3, <2>4
<1>5. IsFiniteSet(ids) /\ StrictOrder(ids, R)
    BY RankingFacts, FS_Union, SortKeyIsStrict
<1>6. ASSUME NEW i \in DOMAIN r, NEW j \in DOMAIN r,
             Outranks(lexical, o[i], o[j]), Outranks(vector, o[i], o[j])
      PROVE  i < j
    <2>1. o[i] \in ids /\ o[j] \in ids /\ i \in 1..Len(o) /\ j \in 1..Len(o)
        BY <1>4
    <2>2. Before(lexical, vector, o[i], o[j])
        BY <1>6, <2>1, OutranksScores
    <2>3. <<o[i], o[j]>> \in R
        BY <2>1, <2>2 DEF Sorted
    <2> HIDE DEF ids, R
    <2>4. Place(ids, R, o[i]) < Place(ids, R, o[j])
        BY <1>5, <2>1, <2>3, PlaceRises
    <2>5. Place(ids, R, o[i]) = i - 1 /\ Place(ids, R, o[j]) = j - 1
        BY <1>1, <2>1
    <2> QED
        BY <1>1, <2>1, <2>4, <2>5
<1> QED
    BY <1>4, <1>6 DEF r

-----------------------------------------------------------------------------
(* The corpus: what ingests and retrievals keep true of it.                *)

CorpusInv ==
    /\ documents \in [Document -> CorpusDocument \cup {NoDocument}]
    /\ NoStaleChunks /\ IsFiniteSet(chunks)
    /\ \A s \in search : RankingOf(s.filters, s.lexical)
    /\ EveryPassageIsAdmissible /\ FusionKeepsAgreement

LEMMA ChunksOfADocument ==
    ASSUME NEW d \in Document, NEW text \in Text
    PROVE  ChunkDocument(d, text) \subseteq Chunk /\ IsFiniteSet(ChunkDocument(d, text))
<1> DEFINE n == ChunksOf[text]
           f == [i \in 1..n |-> [document |-> d, ordinal |-> i, text |-> text]]
<1>1. n \in Nat
    BY CorpusAssumption DEF CorpusAssumption
<1>2. ChunkDocument(d, text) \subseteq Chunk
    BY <1>1 DEF ChunkDocument, Chunk
<1>3. f \in Surjection(1..n, ChunkDocument(d, text))
    <2>1. f \in [1..n -> ChunkDocument(d, text)] /\ \A c \in ChunkDocument(d, text) : \E i \in 1..n : f[i] = c
        BY DEF ChunkDocument
    <2> QED
        BY <2>1, Zenon DEF Surjection
<1>4. IsFiniteSet(1..n)
    BY <1>1, FS_Interval
<1> QED
    BY <1>2, <1>3, <1>4, FS_Surjection, Zenon

LEMMA ChunksAreChunks ==
    ASSUME CorpusInv
    PROVE  chunks \subseteq Chunk
<1> SUFFICES ASSUME NEW d \in Document, documents[d] # NoDocument
             PROVE  ChunkDocument(d, documents[d].text) \subseteq Chunk
    BY DEF CorpusInv, NoStaleChunks
<1>1. documents[d] \in CorpusDocument
    BY DEF CorpusInv
<1>2. documents[d].text \in Text
    BY <1>1 DEF CorpusDocument
<1> QED
    BY <1>2, ChunksOfADocument

LEMMA IngestKeeps ==
    ASSUME CorpusInv, NEW d \in Document, Ingest(d)
    PROVE  CorpusInv'
<1>1. PICK doc \in CorpusDocument : /\ documents' = [documents EXCEPT ![d] = doc]
                                   /\ chunks' = ReplaceChunks(chunks, d, doc.text)
    BY DEF Ingest
<1>2. doc.text \in Text /\ doc # NoDocument
    BY CorpusAssumption DEF CorpusAssumption, CorpusDocument
<1>3. documents' \in [Document -> CorpusDocument \cup {NoDocument}]
    BY <1>1 DEF CorpusInv
<1> DEFINE others == {c \in chunks : c.document # d}
<1>4. chunks' = others \cup ChunkDocument(d, doc.text)
    <2>1. \A k \in others, c \in ChunkDocument(d, doc.text) : ChunkId(k) # ChunkId(c)
        BY DEF ChunkDocument, ChunkId
    <2>2. {k \in others : \A c \in ChunkDocument(d, doc.text) : ChunkId(k) # ChunkId(c)} = others
        BY <2>1
    <2> HIDE DEF others
    <2>3. ReplaceChunks(chunks, d, doc.text) = InsertChunks(others, ChunkDocument(d, doc.text))
        BY DEF ReplaceChunks, others
    <2> QED
        BY <1>1, <2>2, <2>3 DEF InsertChunks
<1>5. IsFiniteSet(chunks')
    <2>1. IsFiniteSet(others)
        BY FS_Subset DEF CorpusInv
    <2> QED
        BY <1>2, <1>4, <2>1, ChunksOfADocument, FS_Union
<1>6. NoStaleChunks'
    <2> DEFINE Of(docs) == UNION {ChunkDocument(e, docs[e].text) : e \in {x \in Document : docs[x] # NoDocument}}
    <2>1. \A e \in Document : \A c \in ChunkDocument(e, documents[e].text) : c.document = e
        BY DEF ChunkDocument
    <2>2. chunks = Of(documents)
        BY DEF CorpusInv, NoStaleChunks
    <2>3. others = UNION {ChunkDocument(e, documents[e].text) : e \in {x \in Document \ {d} : documents[x] # NoDocument}}
        BY <2>1, <2>2
    <2>4. \A e \in Document \ {d} : documents'[e] = documents[e]
        BY <1>1 DEF CorpusInv
    <2>5. documents'[d] = doc
        BY <1>1 DEF CorpusInv
    <2>6. Of(documents') = others \cup ChunkDocument(d, doc.text)
        <3>1. ASSUME NEW c \in Of(documents')
              PROVE  c \in others \cup ChunkDocument(d, doc.text)
            BY <2>3, <2>4, <2>5
        <3>2. ASSUME NEW c \in others
              PROVE  c \in Of(documents')
            BY <2>3, <2>4
        <3>3. ASSUME NEW c \in ChunkDocument(d, doc.text)
              PROVE  c \in Of(documents')
            BY <1>2, <2>5
        <3> QED
            BY <3>1, <3>2, <3>3
    <2> QED
        BY <1>4, <2>6 DEF NoStaleChunks
<1>7. UNCHANGED <<search, passages>>
    BY DEF Ingest
<1> QED
    BY <1>3, <1>5, <1>6, <1>7 DEF CorpusInv, EveryPassageIsAdmissible, FusionKeepsAgreement

\* A row of either query passes the gates it was selected by.
LEMMA HitsPass ==
    ASSUME CorpusInv, NEW f
    PROVE  Hits(f) \subseteq PassageOf(f) /\ IsFiniteSet(Hits(f))
<1> DEFINE found == {k \in chunks : k.document \in Admissible(f)}
           row == [c \in found |-> [chunk |-> c, document |-> documents[c.document]]]
<1>1. ASSUME NEW c \in found
      PROVE  /\ c \in Chunk /\ documents[c.document] \in CorpusDocument
             /\ Temporal(documents[c.document], f) /\ Regional(documents[c.document], f)
    BY ChunksAreChunks DEF CorpusInv, Admissible
<1>2. Hits(f) \subseteq PassageOf(f)
    BY <1>1 DEF Hits, PassageOf
<1>3. row \in Surjection(found, Hits(f))
    <2>1. row \in [found -> Hits(f)] /\ \A h \in Hits(f) : \E c \in found : row[c] = h
        BY DEF Hits
    <2> QED
        BY <2>1, Zenon DEF Surjection
<1>4. IsFiniteSet(found)
    BY FS_Subset DEF CorpusInv
<1> QED
    BY <1>2, <1>3, <1>4, FS_Surjection, Zenon

LEMMA LexicalQueryKeeps ==
    ASSUME CorpusInv, LexicalQuery
    PROVE  CorpusInv'
<1>1. PICK f, lexical :
          /\ lexical \in LexicalRankings(f)
          /\ search' = {[filters |-> f, lexical |-> lexical, admissible |-> Admissible(f)]}
    BY DEF LexicalQuery
<1>2. PICK n \in 0..Fits(f) : lexical \in RankingsOf(Hits(f), n)
    BY <1>1 DEF LexicalRankings
<1>3. lexical \in [1..n -> PassageOf(f)] /\ n \in Nat
    BY <1>2, HitsPass DEF RankingsOf
<1>4. \A s \in search' : RankingOf(s.filters, s.lexical)
    BY <1>1, <1>3 DEF RankingOf
<1>5. passages' = Nothing /\ UNCHANGED <<documents, chunks>>
    BY DEF LexicalQuery
<1>6. EveryPassageIsAdmissible' /\ FusionKeepsAgreement'
    <2>1. DOMAIN passages'.result = {}
        BY <1>5 DEF Nothing
    <2> QED
        BY <2>1 DEF EveryPassageIsAdmissible, FusionKeepsAgreement
<1> QED
    BY <1>4, <1>5, <1>6 DEF CorpusInv, NoStaleChunks

LEMMA VectorQueryKeeps ==
    ASSUME CorpusInv, VectorQuery
    PROVE  CorpusInv'
<1>1. PICK s, vector :
          /\ s \in search /\ vector \in VectorRankings(s.filters)
          /\ passages' = [filters |-> s.filters, lexical |-> s.lexical, vector |-> vector,
                          result |-> Retrieved(s.lexical, vector)]
          /\ search' = {} /\ UNCHANGED <<documents, chunks>>
    BY DEF VectorQuery
<1> DEFINE f == s.filters
<1>2. RankingOf(f, s.lexical)
    BY <1>1 DEF CorpusInv
<1>3. RankingOf(f, vector)
    <2>1. Cardinality(Hits(f)) \in Nat
        BY HitsPass, FS_CardinalityType
    <2>2. {CandidateLimit, Cardinality(Hits(f))} \in SUBSET Nat
        BY <2>1, CorpusAssumption DEF CorpusAssumption
    <2>3. \E x \in {CandidateLimit, Cardinality(Hits(f))} : \A y \in {CandidateLimit, Cardinality(Hits(f))} : x <= y
        BY <2>2, LeastElement
    <2>4. Fits(f) \in {CandidateLimit, Cardinality(Hits(f))}
        BY <2>3, Zenon DEF Fits, Min
    <2>5. vector \in [1..Fits(f) -> Hits(f)]
        BY <1>1 DEF VectorRankings, RankingsOf
    <2> QED
        BY <2>2, <2>4, <2>5, HitsPass DEF RankingOf
<1> DEFINE r == Retrieved(s.lexical, vector)
<1>4. /\ \A i \in DOMAIN r : r[i] \in PassageOf(f)
      /\ \A i, j \in DOMAIN r :
            LET x == ChunkId(r[i].chunk)  y == ChunkId(r[j].chunk) IN
            Outranks(s.lexical, x, y) /\ Outranks(vector, x, y) => i < j
    BY <1>2, <1>3, RetrievedIsSound
<1>5. passages'.result = r /\ passages'.filters = f /\ passages'.lexical = s.lexical /\ passages'.vector = vector
    BY <1>1
<1> HIDE DEF r, f
<1>6. EveryPassageIsAdmissible'
    <2>1. \A i \in DOMAIN r : Temporal(r[i].document, f) /\ Regional(r[i].document, f)
        BY <1>4 DEF PassageOf
    <2> QED
        BY <1>5, <2>1 DEF EveryPassageIsAdmissible
<1>7. FusionKeepsAgreement'
    BY <1>4, <1>5 DEF FusionKeepsAgreement
<1> QED
    BY <1>1, <1>6, <1>7 DEF CorpusInv, NoStaleChunks

LEMMA CorpusInvStep ==
    ASSUME CorpusInv, [CorpusNext]_corpusVars
    PROVE  CorpusInv'
<1>1. ASSUME CorpusTick \/ UNCHANGED corpusVars
      PROVE  CorpusInv'
    <2>1. UNCHANGED <<documents, chunks, search, passages>>
        BY <1>1 DEF CorpusTick, corpusVars
    <2> QED
        BY <2>1 DEF CorpusInv, NoStaleChunks, EveryPassageIsAdmissible, FusionKeepsAgreement
<1> QED
    BY <1>1, IngestKeeps, LexicalQueryKeeps, VectorQueryKeeps DEF CorpusNext

\* After any history of ingests and of retrievals under way beside them: the
\* chunks are those of the current texts, and what was returned is admissible
\* in the version it quotes and in an order both rankings agree on.
THEOREM CorpusInvariance == CorpusSpec => []CorpusInv
<1>1. CorpusInit => CorpusInv
    BY FS_EmptySet DEF CorpusInit, CorpusInv, NoStaleChunks, EveryPassageIsAdmissible, FusionKeepsAgreement, Nothing
<1> QED
    BY <1>1, CorpusInvStep, PTL DEF CorpusSpec

-----------------------------------------------------------------------------
(* The stores side by side.                                                *)

\* What is read as evidence was written, is current and admissible, and was
\* asked for, whatever is interleaved with the reading of it.
THEOREM EvidenceTheorem == EvidenceSpec => []EvidenceIsSound
<1>1. EvidenceInit => ObservationsInv /\ CorpusInv
    BY StoreAssumption, FS_EmptySet
       DEF EvidenceInit, StoreInit, ObservationsInv, StoreTypeOK, Hold, OneRowPerKey, StoreAssumption,
           CorpusInit, CorpusInv, NoStaleChunks, EveryPassageIsAdmissible, FusionKeepsAgreement, Nothing
<1>2. [EvidenceNext]_evidenceVars => [StoreNext]_storeVars /\ [CorpusNext]_corpusVars
    BY DEF EvidenceNext, evidenceVars
<1>3. ObservationsInv /\ CorpusInv => EvidenceIsSound
    BY DEF ObservationsInv, CorpusInv, EvidenceIsSound, Hold, OneRowPerKey, RowsWereWritten
<1> QED
    BY <1>1, <1>2, <1>3, ObservationsInvStep, CorpusInvStep, PTL DEF EvidenceSpec
=============================================================================
