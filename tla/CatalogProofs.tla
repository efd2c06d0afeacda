--------------------------- MODULE CatalogProofs ---------------------------
(* Proofs about Catalog and CatalogApi, for any sources, payloads,         *)
(* manifests, policies, listings and page sizes.                           *)
EXTENDS CatalogApi, FiniteSetTheorems, FunctionTheorems, TLAPS

-----------------------------------------------------------------------------
(* Operators *)

\* A manifest lists finitely many sources, each at a place of its own.
LEMMA OrderFinite ==
    /\ IsFiniteSet(Range(Order))
    /\ Range(Order) \subseteq Source
    /\ \A s \in Range(Order) : Place(s) \in 1 .. Len(Order) /\ Order[Place(s)] = s
<1> DEFINE N == 1 .. Len(Order)
<1>1. Order \in Seq(Source) /\ Len(Order) \in Nat /\ DOMAIN Order = N
  BY CatalogAssumption DEF CatalogAssumption
<1>2. Order \in Surjection(N, Range(Order))
  BY <1>1 DEF Surjection, Range
<1>3. IsFiniteSet(N)
  BY <1>1, FS_Interval
<1>4. IsFiniteSet(Range(Order))
  <2> HIDE DEF N
  <2> QED BY <1>2, <1>3, FS_Surjection
<1>5. \A s \in Range(Order) : Place(s) \in N /\ Order[Place(s)] = s
  BY <1>1 DEF Range, Place
<1> QED BY <1>1, <1>4, <1>5 DEF Range

\* In a finite totally ordered set every element has a rank of its own, and every
\* rank up to the size of the set is taken.
LEMMA RanksOnce ==
    ASSUME NEW S, IsFiniteSet(S), NEW upTo,
           \A x \in S : upTo[x] \subseteq S /\ x \in upTo[x],
           \A x, y \in S : x \in upTo[y] \/ y \in upTo[x],
           \A x, y \in S : x \in upTo[y] => upTo[x] \subseteq upTo[y],
           \A x, y \in S : x \in upTo[y] /\ y \in upTo[x] => x = y
    PROVE  /\ Cardinality(S) \in Nat
           /\ \A x \in S : Cardinality(upTo[x]) \in 1 .. Cardinality(S)
           /\ \A x, y \in S : Cardinality(upTo[x]) = Cardinality(upTo[y]) => x = y
           /\ \A x, y \in S : x \in upTo[y] =>
                                  Cardinality(upTo[x]) <= Cardinality(upTo[y])
           /\ \A k \in 1 .. Cardinality(S) :
                  \E x \in S : Cardinality(upTo[x]) = k
<1> DEFINE n == Cardinality(S)
           N == 1 .. n
           rank == [x \in S |-> Cardinality(upTo[x])]
<1>1. n \in Nat
  BY FS_CardinalityType
<1>2. ASSUME NEW x \in S
      PROVE  /\ IsFiniteSet(upTo[x])
             /\ rank[x] \in N
  <2>1. IsFiniteSet(upTo[x]) /\ Cardinality(upTo[x]) <= n
    BY FS_Subset
  <2>2. Cardinality(upTo[x]) \in Nat /\ Cardinality(upTo[x]) # 0
    BY <2>1, FS_CardinalityType, FS_EmptySet, Zenon
  <2> QED BY <1>1, <2>1, <2>2
<1>3. ASSUME NEW x \in S, NEW y \in S, x \in upTo[y]
      PROVE  rank[x] <= rank[y] /\ (rank[x] = rank[y] => x = y)
  <2>1. upTo[x] \subseteq upTo[y]
    BY <1>3
  <2>2. /\ Cardinality(upTo[x]) <= Cardinality(upTo[y])
        /\ Cardinality(upTo[x]) = Cardinality(upTo[y]) => upTo[x] = upTo[y]
    BY <1>2, <2>1, FS_Subset
  <2>3. upTo[x] = upTo[y] => y \in upTo[x]
    OBVIOUS
  <2> QED BY <1>3, <2>2, <2>3
<1>4. \A x, y \in S : rank[x] = rank[y] => x = y
  BY <1>3
<1>5. rank \in [S -> N]
  BY <1>2
<1> HIDE DEF N
<1>6. rank \in Surjection(S, N)
  <2> HIDE DEF rank
  <2>1. rank \in Injection(S, N)
    BY <1>4, <1>5 DEF Injection, IsInjective
  <2>2. IsFiniteSet(N) /\ Cardinality(N) = n
    BY <1>1, FS_Interval DEF N
  <2> QED BY <1>1, <2>1, <2>2, FS_Injection
<1>7. \A k \in N : \E x \in S : rank[x] = k
  <2> HIDE DEF rank
  <2> QED BY <1>6 DEF Surjection
<1>8. \A x \in S : rank[x] = Cardinality(upTo[x])
  OBVIOUS
<1> HIDE DEF rank
<1> QED BY <1>1, <1>2, <1>3, <1>4, <1>7, <1>8 DEF N

\* q lists every element of S once.
ListsOnce(q, S) ==
    /\ Cardinality(S) \in Nat
    /\ q \in [1 .. Cardinality(S) -> S]
    /\ \A s \in S : \E k \in 1 .. Cardinality(S) : q[k] = s
    /\ \A j, k \in 1 .. Cardinality(S) : q[j] = q[k] => j = k

\* The list of some sources has each of them once.
LEMMA ListedOnce ==
    ASSUME NEW S, S \subseteq Range(Order)
    PROVE  ListsOnce(Listed(S), S)
<1> DEFINE N == 1 .. Cardinality(S)
           upTo == [s \in S |-> {t \in S : Place(t) <= Place(s)}]
           rank == [s \in S |-> Cardinality(upTo[s])]
<1>1. IsFiniteSet(S)
  BY OrderFinite, FS_Subset
<1>2. \A s \in S : Place(s) \in Nat /\ Order[Place(s)] = s
  BY OrderFinite, CatalogAssumption DEF CatalogAssumption
<1>3. /\ \A x \in S : upTo[x] \subseteq S /\ x \in upTo[x]
      /\ \A x, y \in S : x \in upTo[y] \/ y \in upTo[x]
      /\ \A x, y \in S : x \in upTo[y] => upTo[x] \subseteq upTo[y]
      /\ \A x, y \in S : x \in upTo[y] /\ y \in upTo[x] => x = y
  BY <1>2
<1>4. /\ Cardinality(S) \in Nat
      /\ \A x \in S : rank[x] \in N
      /\ \A x, y \in S : rank[x] = rank[y] => x = y
      /\ \A k \in N : \E x \in S : rank[x] = k
  <2> HIDE DEF upTo
  <2> QED BY <1>1, <1>3, RanksOnce
<1>5. Listed(S) = [k \in N |-> CHOOSE s \in S : rank[s] = k]
  BY DEF Listed, Ranked
<1> HIDE DEF N, rank, upTo
<1>6. \A k \in N : Listed(S)[k] \in S /\ rank[Listed(S)[k]] = k
  BY <1>4, <1>5
<1>7. Listed(S) \in [N -> S]
  BY <1>5, <1>6
<1>8. \A s \in S : Listed(S)[rank[s]] = s
  BY <1>4, <1>6
<1> QED BY <1>4, <1>6, <1>7, <1>8 DEF N, ListsOnce

\* A set of naturals has a least one.
LEMMA LeastNat ==
    ASSUME NEW S, S \subseteq Nat, S # {}
    PROVE  \E n \in S : \A k \in S : n <= k
<1>1. PICK n \in S : \A k \in S : <<k, n>> \notin OpToRel(<, Nat)
  BY NatLessThanWellFounded, WFMin
<1>2. \A k \in S : ~(k < n)
  BY <1>1 DEF OpToRel
<1> QED BY <1>2

\* What distinct values of a list's elements list.
LEMMA ListsImage ==
    ASSUME NEW G, NEW q, ListsOnce(q, G), NEW F, NEW g \in [G -> F],
           \A x, y \in G : g[x] = g[y] => x = y,
           \A z \in F : \E x \in G : g[x] = z
    PROVE  ListsOnce([i \in 1 .. Len(q) |-> g[q[i]]], F)
<1> DEFINE n == Cardinality(G)
           r == [i \in 1 .. Len(q) |-> g[q[i]]]
<1>1. /\ n \in Nat /\ q \in [1 .. n -> G]
      /\ \A x \in G : \E k \in 1 .. n : q[k] = x
      /\ \A j, k \in 1 .. n : q[j] = q[k] => j = k
  BY DEF ListsOnce
<1> HIDE DEF n
<1>2. Len(q) = n
  BY <1>1
<1>3. r \in [1 .. n -> F] /\ \A k \in 1 .. n : r[k] = g[q[k]]
  BY <1>1, <1>2
<1> HIDE DEF r
<1>4. \A z \in F : \E k \in 1 .. n : r[k] = z
  BY <1>1, <1>3
<1>5. \A j, k \in 1 .. n : r[j] = r[k] => j = k
  BY <1>1, <1>3
<1>6. r \in Bijection(1 .. n, F)
  BY <1>3, <1>4, <1>5 DEF Bijection, Injection, Surjection, IsInjective
<1>7. IsFiniteSet(1 .. n) /\ Cardinality(1 .. n) = n
  BY <1>1, FS_Interval
<1>8. Cardinality(F) = n
  BY <1>6, <1>7, FS_Bijection DEF ExistsBijection
<1> QED BY <1>1, <1>3, <1>4, <1>5, <1>8 DEF ListsOnce, r

\* A table stays numbered when the rows of a list are added to it.
LEMMA NumberedGrows ==
    ASSUME NEW t, Numbered(t), NEW F, F \cap DOMAIN t = {},
           NEW fresh, ListsOnce(fresh, F),
           NEW u, DOMAIN u = DOMAIN t \cup F,
           \A x \in DOMAIN u : "id" \in DOMAIN u[x],
           \A x \in DOMAIN t : u[x].id = t[x].id,
           \A x \in F : u[x].id = NewId(t, fresh, x)
    PROVE  Numbered(u)
<1> DEFINE n == Cardinality(F)
           c == Cardinality(DOMAIN t)
           place(x) == CHOOSE i \in 1 .. Len(fresh) : fresh[i] = x
<1>1. IsFiniteSet(DOMAIN t) /\ c \in Nat
  BY FS_CardinalityType DEF Numbered
<1>0. /\ n \in Nat /\ fresh \in [1 .. n -> F]
      /\ \A x \in F : \E k \in 1 .. n : fresh[k] = x
      /\ \A j, k \in 1 .. n : fresh[j] = fresh[k] => j = k
  BY DEF ListsOnce
<1> HIDE DEF n
<1>2. IsFiniteSet(F) /\ Cardinality(F) = n
  <2>1. fresh \in Bijection(1 .. n, F)
    BY <1>0 DEF Bijection, Injection, Surjection, IsInjective
  <2>2. IsFiniteSet(1 .. n)
    BY <1>0, FS_Interval
  <2> QED BY <2>1, <2>2, FS_Bijection DEF ExistsBijection, n
<1>3. IsFiniteSet(DOMAIN u) /\ Cardinality(DOMAIN u) = c + n
  <2>1. /\ IsFiniteSet(DOMAIN t \cup F)
        /\ Cardinality(DOMAIN t \cup F) = c + n - Cardinality(DOMAIN t \cap F)
    BY <1>1, <1>2, FS_Union
  <2>2. Cardinality(DOMAIN t \cap F) = 0
    <3>1. DOMAIN t \cap F = {}
      OBVIOUS
    <3> QED BY <3>1, FS_EmptySet
  <2> HIDE DEF c
  <2> QED BY <1>0, <1>1, <2>1, <2>2
<1>4. \A x \in F : place(x) \in 1 .. n /\ fresh[place(x)] = x
  <2>1. Len(fresh) = n
    BY <1>0
  <2> QED BY <1>0, <2>1
<1>5. \A x \in DOMAIN t : t[x].id \in 1 .. c
  BY DEF Numbered
<1>6. \A x \in F : u[x].id = c + place(x)
  BY DEF NewId
<1> HIDE DEF c, place
<1>7. \A x \in DOMAIN u : u[x].id \in 1 .. c + n
  BY <1>0, <1>1, <1>4, <1>5, <1>6
<1>8. ASSUME NEW x \in DOMAIN u, NEW y \in DOMAIN u, u[x].id = u[y].id
      PROVE  x = y
  <2>1. CASE x \in DOMAIN t /\ y \in DOMAIN t
    BY <1>8, <2>1 DEF Numbered
  <2>2. CASE x \in F /\ y \in F
    <3>1. place(x) = place(y)
      BY <1>0, <1>1, <1>4, <1>6, <1>8, <2>2
    <3> QED BY <1>4, <2>2, <3>1
  <2>3. CASE (x \in F /\ y \in DOMAIN t) \/ (x \in DOMAIN t /\ y \in F)
    BY <1>0, <1>1, <1>4, <1>5, <1>6, <1>8, <2>3
  <2> QED BY <2>1, <2>2, <2>3
<1> QED BY <1>3, <1>7, <1>8 DEF Numbered

\* Of finitely many observations one is the newest.
LEMMA NewestExists ==
    ASSUME NEW S, IsFiniteSet(S), S # {}, \A o \in S : o.at \in Nat
    PROVE  Newest(S) \in S /\ \A q \in S : q.at <= Newest(S).at
<1> DEFINE since(o) == {q \in S : o.at <= q.at}
           B == {since(o) : o \in S}
<1>1. IsWellFoundedOn(StrictSubsetOrdering(S), SUBSET S)
  BY FS_FiniteSubsetsOfFinite, FS_StrictSubsetOrderingWellFounded
<1>2. B \subseteq SUBSET S /\ B # {}
  OBVIOUS
<1>3. PICK T \in B : \A U \in B : <<U, T>> \notin StrictSubsetOrdering(S)
  <2> HIDE DEF B
  <2> QED BY <1>1, <1>2, WFMin
<1>4. PICK o \in S : T = since(o)
  OBVIOUS
<1>5. ASSUME NEW q \in S, ~(q.at <= o.at)
      PROVE  FALSE
  <2>1. o.at < q.at /\ o.at \in Nat /\ q.at \in Nat
    BY <1>5
  <2>2. since(q) \subseteq since(o)
    BY <2>1
  <2>3. o \in since(o) /\ o \notin since(q)
    BY <2>1
  <2>4. <<since(q), T>> \in StrictSubsetOrdering(S)
    BY <1>2, <1>4, <2>2, <2>3 DEF StrictSubsetOrdering
  <2> QED BY <1>3, <2>4
<1>6. \E r \in S : \A q \in S : q.at <= r.at
  BY <1>5
<1> QED BY <1>6, Zenon DEF Newest

-----------------------------------------------------------------------------
(* The ledger *)

\* A command keeps every observation, and every verdict that was passed.
LEMMA ObservationsKeep ==
    ASSUME NEW m, NEW p, NEW o \in DOMAIN obs
    PROVE  /\ o \in DOMAIN Observations(m, p)
           /\ obs[o].status # "pending" => Observations(m, p)[o] = obs[o]
BY Zenon DEF Observations, Over

LEMMA ObservationsTyped ==
    ASSUME LedgerTyped, NEW m \in Manifest, NEW p
    PROVE  /\ IsFiniteSet(DOMAIN Observations(m, p))
           /\ DOMAIN Observations(m, p) \subseteq Observation
<1> DEFINE A == Answered(m)  R == Range(Observed(m))
<1>1. /\ DOMAIN m \subseteq Range(Order)
      /\ \A s \in DOMAIN m : m[s].body \in Payload /\ m[s].at \in Nat
  BY CatalogAssumption DEF CatalogAssumption, Range
<1>2. A \subseteq Range(Order) /\ IsFiniteSet(A)
  BY <1>1, OrderFinite, FS_Subset DEF Answered
<1>3. Observed(m) \in Surjection(A, R)
  BY DEF Surjection, Range, Observed
<1>4. IsFiniteSet(R)
  <2> HIDE DEF A, R
  <2> QED BY <1>2, <1>3, FS_Surjection
<1>5. \A s \in A : Observed(m)[s] \in Observation
  BY <1>1, <1>2, OrderFinite DEF Observed, Observation, Answered
<1>6. R \subseteq Observation
  BY <1>5 DEF Range, Observed
<1>7. DOMAIN Observations(m, p) = DOMAIN obs \cup R
  BY DEF Observations, Over
<1> HIDE DEF R
<1>8. IsFiniteSet(DOMAIN obs) /\ DOMAIN obs \subseteq Observation
  BY DEF LedgerTyped
<1>9. IsFiniteSet(DOMAIN obs \cup R)
  BY <1>4, <1>8, FS_Union
<1> QED BY <1>6, <1>7, <1>8, <1>9

-----------------------------------------------------------------------------
(* The history of metric snapshots *)

\* What a projection reads for each of its sources: a valid observation of the
\* source itself.
Lines(L, O) ==
    /\ DOMAIN L \subseteq Range(Order)
    /\ \A s \in DOMAIN L :
           /\ L[s] \in Observation
           /\ L[s].source = s
           /\ L[s] \in DOMAIN O
           /\ O[L[s]].status = "valid"

LEMMA LineageReads ==
    ASSUME LedgerTyped, NEW m \in Manifest, NEW p,
           Projectable(m, Observations(m, p))
    PROVE  Lines(Lineage(m, Observations(m, p)), Observations(m, p))
<1> DEFINE O == Observations(m, p)  L == Lineage(m, O)
<1>1. DOMAIN L = Projected(m) /\ Projected(m) \subseteq Range(Order)
  BY CatalogAssumption DEF CatalogAssumption, Range, Lineage, Projected
<1>2. IsFiniteSet(DOMAIN O) /\ DOMAIN O \subseteq Observation
  BY ObservationsTyped
<1>3. ASSUME NEW s \in Projected(m)
      PROVE  L[s] \in Exact(m, O, s)
  <2> DEFINE E == Exact(m, O, s)
  <2>1. E \subseteq DOMAIN O
    BY DEF Exact
  <2>2. IsFiniteSet(E)
    BY <1>2, <2>1, FS_Subset
  <2>3. \A o \in E : o.at \in Nat
    BY <1>2, <2>1 DEF Observation
  <2>4. E # {}
    BY DEF Projectable
  <2>5. Newest(E) \in E
    <3> HIDE DEF E
    <3> QED BY <2>2, <2>3, <2>4, NewestExists
  <2> QED BY <2>5 DEF Lineage
<1>4. \A s \in Projected(m) :
          /\ L[s] \in DOMAIN O /\ L[s].source = s /\ O[L[s]].status = "valid"
  BY <1>3 DEF Exact
<1> QED BY <1>1, <1>2, <1>4 DEF Lines

\* A projection adds to the history what it read of each work, once.
LEMMA SnapshotsGrow ==
    ASSUME snaps \in Seq(Observation), SnapsDistinct, NEW L, NEW O, Lines(L, O)
    PROVE  LET T == Snapshots(L) IN
           /\ T \in Seq(Observation)
           /\ \A i, j \in 1 .. Len(T) : T[i] = T[j] => i = j
           /\ \A i \in 1 .. Len(T) :
                  \/ i \in 1 .. Len(snaps) /\ T[i] = snaps[i]
                  \/ T[i].source \in ProjectedWorks(L) /\ T[i] = L[T[i].source]
           /\ \A i \in 1 .. Len(snaps) : i \in 1 .. Len(T) /\ T[i] = snaps[i]
           /\ \A w \in ProjectedWorks(L) : \E i \in 1 .. Len(T) : T[i] = L[w]
<1> DEFINE F == {w \in ProjectedWorks(L) : L[w] \notin Range(snaps)}
           fresh == Listed(F)
           n == Cardinality(F)
           G == [i \in 1 .. Len(fresh) |-> L[fresh[i]]]
           T == Snapshots(L)
<1>1. F \subseteq Range(Order) /\ F \subseteq DOMAIN L
  BY DEF Lines, ProjectedWorks
<1>2. /\ n \in Nat
      /\ fresh \in [1 .. n -> F]
      /\ \A s \in F : \E k \in 1 .. n : fresh[k] = s
      /\ \A j, k \in 1 .. n : fresh[j] = fresh[k] => j = k
  <2> HIDE DEF F
  <2> QED BY <1>1, ListedOnce DEF ListsOnce
<1> HIDE DEF fresh, n
<1>3. Len(fresh) = n
  BY <1>2
<1>4. T = snaps \o G
  BY DEF Snapshots, fresh
<1>5. /\ Len(G) = n
      /\ \A i \in 1 .. n : G[i] = L[fresh[i]] /\ fresh[i] \in F
      /\ G \in Seq(Observation)
  <2>1. \A i \in 1 .. n : fresh[i] \in F /\ L[fresh[i]] \in Observation
    <3> HIDE DEF F
    <3> QED BY <1>1, <1>2 DEF Lines
  <2> QED BY <1>2, <1>3, <2>1
<1> DEFINE l == Len(snaps)
<1> HIDE DEF G, T
<1>6. /\ l \in Nat
      /\ T \in Seq(Observation)
      /\ Len(T) = l + n
      /\ \A i \in 1 .. l : T[i] = snaps[i]
      /\ \A i \in 1 .. n : T[l + i] = G[i]
  BY <1>2, <1>4, <1>5
<1>7. \A i \in 1 .. Len(T) : i \in 1 .. l \/ (i - l \in 1 .. n /\ T[i] = G[i - l])
  BY <1>2, <1>6
<1>8. \A i \in 1 .. l : snaps[i] \in Range(snaps)
  BY DEF Range
<1>9. \A i \in 1 .. n : /\ G[i] = L[fresh[i]]
                        /\ G[i].source = fresh[i]
                        /\ fresh[i] \in ProjectedWorks(L)
                        /\ G[i] \notin Range(snaps)
  BY <1>1, <1>5 DEF Lines
<1>10. \A i, j \in 1 .. n : G[i] = G[j] => i = j
  BY <1>2, <1>9
<1>11. \A i, j \in 1 .. Len(T) : T[i] = T[j] => i = j
  <2> SUFFICES ASSUME NEW i \in 1 .. Len(T), NEW j \in 1 .. Len(T), T[i] = T[j]
               PROVE  i = j
    OBVIOUS
  <2>1. CASE i \in 1 .. l /\ j \in 1 .. l
    BY <1>6, <2>1 DEF SnapsDistinct
  <2>2. CASE i \in 1 .. l /\ j \notin 1 .. l
    BY <1>6, <1>7, <1>8, <1>9, <2>2
  <2>3. CASE i \notin 1 .. l /\ j \in 1 .. l
    BY <1>6, <1>7, <1>8, <1>9, <2>3
  <2>4. CASE i \notin 1 .. l /\ j \notin 1 .. l
    <3>1. i - l = j - l
      BY <1>7, <1>10, <2>4
    <3> QED BY <1>6, <3>1
  <2> QED BY <2>1, <2>2, <2>3, <2>4
<1>12. \A i \in 1 .. Len(T) :
           \/ i \in 1 .. l /\ T[i] = snaps[i]
           \/ T[i].source \in ProjectedWorks(L) /\ T[i] = L[T[i].source]
  BY <1>6, <1>7, <1>9
<1>13. \A i \in 1 .. l : i \in 1 .. Len(T) /\ T[i] = snaps[i]
  BY <1>2, <1>6
<1>14. ASSUME NEW w \in ProjectedWorks(L)
       PROVE  \E i \in 1 .. Len(T) : T[i] = L[w]
  <2>1. CASE L[w] \in Range(snaps)
    <3>1. PICK i \in 1 .. l : snaps[i] = L[w]
      BY <2>1 DEF Range
    <3> QED BY <1>13, <3>1
  <2>2. CASE L[w] \notin Range(snaps)
    <3>1. PICK k \in 1 .. n : fresh[k] = w
      BY <1>2, <2>2
    <3>2. l + k \in 1 .. Len(T)
      BY <1>2, <1>6
    <3>3. T[l + k] = L[w]
      BY <1>6, <1>9, <3>1
    <3> QED BY <3>2, <3>3
  <2> QED BY <2>1, <2>2
<1> QED BY <1>6, <1>11, <1>12, <1>13, <1>14 DEF T

\* A projection writes a row for each of its works, and changes one only to an
\* observation that is no older.
LEMMA WorksFollow ==
    ASSUME LedgerTyped, NEW L, NEW O, Lines(L, O)
    PROVE  LET T == Works(L) IN
           /\ DOMAIN T = DOMAIN works \cup ProjectedWorks(L)
           /\ DOMAIN T \subseteq Range(Order)
           /\ T \in [DOMAIN T -> [id : Nat, obs : Observation]]
           /\ \A w \in DOMAIN T :
                  IF w \notin ProjectedWorks(L) \/ Older(L, w)
                  THEN w \in DOMAIN works /\ T[w] = works[w]
                  ELSE T[w].obs = L[w]
<1> DEFINE T == Works(L)
           P == ProjectedWorks(L)
           F == P \ DOMAIN works
           fresh == Listed(F)
           WorkRow == [id : Nat, obs : Observation]
<1>1. P \subseteq Range(Order) /\ P \subseteq DOMAIN L
  BY DEF Lines, ProjectedWorks
<1>2. \A w \in P : L[w] \in Observation
  BY <1>1 DEF Lines
<1>3. /\ DOMAIN works \subseteq Range(Order)
      /\ works \in [DOMAIN works -> WorkRow]
      /\ Cardinality(DOMAIN works) \in Nat
  BY OrderFinite, FS_Subset, FS_CardinalityType DEF LedgerTyped
<1>4. ASSUME NEW w \in F
      PROVE  NewId(works, fresh, w) \in Nat
  <2> DEFINE n == Cardinality(F)
  <2>1. n \in Nat /\ fresh \in [1 .. n -> F] /\ \E k \in 1 .. n : fresh[k] = w
    <3> HIDE DEF F
    <3>1. F \subseteq Range(Order)
      BY <1>1 DEF F
    <3> QED BY <1>4, <3>1, ListedOnce DEF ListsOnce
  <2> HIDE DEF F, n, fresh
  <2>2. Len(fresh) = n
    BY <2>1
  <2>3. \E k \in 1 .. Len(fresh) : fresh[k] = w
    BY <2>1, <2>2
  <2>4. (CHOOSE i \in 1 .. Len(fresh) : fresh[i] = w) \in Nat
    BY <2>1, <2>2, <2>3
  <2> QED BY <1>3, <2>4 DEF NewId
<1>5. DOMAIN T = DOMAIN works \cup P
  BY DEF Works, Over
<1>6. ASSUME NEW w \in DOMAIN works \ P
      PROVE  T[w] = works[w]
  BY <1>6 DEF Works, Over
<1>7. ASSUME NEW w \in P
      PROVE  T[w] = IF w \notin DOMAIN works
                    THEN [id |-> NewId(works, fresh, w), obs |-> L[w]]
                    ELSE IF Older(L, w) THEN works[w]
                    ELSE [works[w] EXCEPT !.obs = L[w]]
  BY <1>7 DEF Works, Over
<1> HIDE DEF T, P, fresh
<1>8. ASSUME NEW w \in P
      PROVE  /\ T[w] \in WorkRow
             /\ IF Older(L, w) THEN w \in DOMAIN works /\ T[w] = works[w]
                ELSE T[w].obs = L[w]
  <2>1. CASE w \notin DOMAIN works
    <3>1. NewId(works, fresh, w) \in Nat
      BY <1>4, <1>8, <2>1
    <3>2. T[w] = [id |-> NewId(works, fresh, w), obs |-> L[w]]
      BY <1>7, <1>8, <2>1
    <3>3. ~Older(L, w)
      BY <2>1 DEF Older
    <3> HIDE DEF Older, NewId
    <3> QED BY <1>2, <1>8, <3>1, <3>2, <3>3
  <2>2. CASE w \in DOMAIN works /\ Older(L, w)
    BY <1>3, <1>7, <1>8, <2>2
  <2>3. CASE w \in DOMAIN works /\ ~Older(L, w)
    <3>1. works[w] \in WorkRow /\ L[w] \in Observation
      BY <1>2, <1>3, <1>8, <2>3
    <3>2. T[w] = [works[w] EXCEPT !.obs = L[w]]
      BY <1>7, <1>8, <2>3
    <3> QED BY <2>3, <3>1, <3>2
  <2> QED BY <2>1, <2>2, <2>3
<1>9. T = [w \in DOMAIN T |-> T[w]]
  BY DEF T, Works, Over
<1>10. \A w \in DOMAIN T : T[w] \in WorkRow
  BY <1>3, <1>5, <1>6, <1>8
<1>11. T \in [DOMAIN T -> WorkRow]
  BY <1>9, <1>10
<1> QED BY <1>1, <1>3, <1>5, <1>6, <1>8, <1>11 DEF T, P, Older

\* An observation of a work stays valid, and in the history.
LEMMA HistoryStep ==
    ASSUME HistoryInv, CatalogNext
    PROVE  HistoryInv'
<1>1. PICK m \in Manifest, p \in Policy :
          IngestOnly(m, p) \/ IngestAndProject(m, p) \/ RollBack(m, p)
  BY DEF CatalogNext
<1> DEFINE O == Observations(m, p)  L == Lineage(m, O)
<1>2. /\ IsFiniteSet(DOMAIN O) /\ DOMAIN O \subseteq Observation
      /\ \A o \in DOMAIN obs : /\ o \in DOMAIN O
                               /\ obs[o].status = "valid" => O[o] = obs[o]
  <2>1. IsFiniteSet(DOMAIN O) /\ DOMAIN O \subseteq Observation
    BY ObservationsTyped DEF HistoryInv
  <2>2. ASSUME NEW o \in DOMAIN obs
        PROVE  o \in DOMAIN O /\ (obs[o].status = "valid" => O[o] = obs[o])
    BY ObservationsKeep
  <2> QED BY <2>1, <2>2
<1>3. CASE RollBack(m, p)
  <2>1. UNCHANGED <<obs, snaps, works>>
    BY <1>3 DEF RollBack, ledger, catalog
  <2> QED BY <2>1 DEF HistoryInv, LedgerTyped, SnapsDistinct, SnapsValid,
                      RowsNewest, SnapsOf
<1>4. CASE IngestOnly(m, p)
  <2>1. obs' = O /\ UNCHANGED <<snaps, works>>
    BY <1>4 DEF IngestOnly, Ingest, catalog
  <2>2. LedgerTyped' /\ SnapsDistinct' /\ RowsNewest'
    BY <1>2, <2>1 DEF HistoryInv, LedgerTyped, SnapsDistinct, RowsNewest, SnapsOf
  <2>3. SnapsValid'
    <3> HIDE DEF O
    <3> QED BY <1>2, <2>1 DEF HistoryInv, SnapsValid
  <2> QED BY <2>2, <2>3 DEF HistoryInv
<1>5. CASE IngestAndProject(m, p)
  <2> DEFINE P == ProjectedWorks(L)
  <2>1. /\ obs' = O /\ snaps' = Snapshots(L) /\ works' = Works(L)
        /\ Projectable(m, O)
    BY <1>5, Zenon DEF IngestAndProject, Ingest
  <2>2. Lines(L, O)
    BY <2>1, LineageReads DEF HistoryInv
  <2> HIDE DEF O, L
  <2>3. /\ snaps \in Seq(Observation) /\ LedgerTyped /\ SnapsDistinct
        /\ SnapsValid /\ RowsNewest
    BY DEF HistoryInv, LedgerTyped
  <2>4. /\ snaps' \in Seq(Observation)
        /\ \A i, j \in 1 .. Len(snaps') : snaps'[i] = snaps'[j] => i = j
        /\ \A i \in 1 .. Len(snaps') :
               \/ i \in 1 .. Len(snaps) /\ snaps'[i] = snaps[i]
               \/ snaps'[i].source \in P /\ snaps'[i] = L[snaps'[i].source]
        /\ \A i \in 1 .. Len(snaps) : /\ i \in 1 .. Len(snaps')
                                      /\ snaps'[i] = snaps[i]
        /\ \A w \in P : \E i \in 1 .. Len(snaps') : snaps'[i] = L[w]
    BY <2>1, <2>2, <2>3, SnapshotsGrow
  <2>5. /\ DOMAIN works' = DOMAIN works \cup P
        /\ DOMAIN works' \subseteq Range(Order)
        /\ works' \in [DOMAIN works' -> [id : Nat, obs : Observation]]
        /\ \A w \in DOMAIN works' :
               IF w \notin P \/ Older(L, w)
               THEN w \in DOMAIN works /\ works'[w] = works[w]
               ELSE works'[w].obs = L[w]
    BY <2>1, <2>2, <2>3, WorksFollow
  <2> DEFINE Had(w) == SnapsOf(w)
             Has(w) == SnapsOf(w)'
  <2>6. \A w : /\ Had(w) \subseteq Has(w)
               /\ \A o \in Has(w) : o \in Had(w) \/ (w \in P /\ o = L[w])
    <3> SUFFICES ASSUME NEW w
                 PROVE  /\ Had(w) \subseteq Has(w)
                        /\ \A o \in Has(w) : o \in Had(w) \/ (w \in P /\ o = L[w])
      OBVIOUS
    <3>1. Had(w) \subseteq Has(w)
      BY <2>4 DEF SnapsOf
    <3>2. ASSUME NEW o \in Has(w)
          PROVE  o \in Had(w) \/ (w \in P /\ o = L[w])
      <4>1. PICK i \in 1 .. Len(snaps') : snaps'[i] = o /\ o.source = w
        BY <3>2 DEF SnapsOf
      <4> QED BY <2>4, <4>1 DEF SnapsOf
    <3> QED BY <3>1, <3>2
  <2>7. \A w \in P : L[w] \in Has(w) /\ L[w].source = w /\ L[w] \in Observation
    <3> SUFFICES ASSUME NEW w \in P
                 PROVE  L[w] \in Has(w) /\ L[w].source = w /\ L[w] \in Observation
      OBVIOUS
    <3>1. L[w].source = w /\ L[w] \in Observation
      BY <2>2 DEF Lines, ProjectedWorks
    <3> QED BY <2>4, <3>1 DEF SnapsOf
  <2>8. LedgerTyped'
    BY <1>2, <2>1, <2>4, <2>5 DEF LedgerTyped
  <2>9. SnapsDistinct'
    BY <2>4 DEF SnapsDistinct
  <2>10. SnapsValid'
    <3> SUFFICES ASSUME NEW i \in 1 .. Len(snaps')
                 PROVE  /\ snaps'[i] \in DOMAIN O
                        /\ O[snaps'[i]].status = "valid"
                        /\ snaps'[i].source \in DOMAIN works'
      BY <2>1 DEF SnapsValid
    <3>1. CASE i \in 1 .. Len(snaps) /\ snaps'[i] = snaps[i]
      BY <1>2, <2>3, <2>5, <3>1 DEF SnapsValid
    <3>2. CASE snaps'[i].source \in P /\ snaps'[i] = L[snaps'[i].source]
      BY <2>2, <2>5, <3>2 DEF Lines, ProjectedWorks
    <3> QED BY <2>4, <3>1, <3>2
  <2>11. RowsNewest'
    <3> SUFFICES ASSUME NEW w \in DOMAIN works'
                 PROVE  /\ works'[w].obs \in Has(w)
                        /\ \A o \in Has(w) : o.at <= works'[w].obs.at
      BY DEF RowsNewest
    <3>1. CASE w \in DOMAIN works
      <4>1. /\ works[w].obs \in Had(w) /\ works[w].obs.at \in Nat
            /\ \A o \in Had(w) : o.at \in Nat /\ o.at <= works[w].obs.at
        <5>1. works[w].obs \in Observation
          BY <2>3, <3>1 DEF LedgerTyped
        <5>2. \A o \in Had(w) : o \in Observation
          BY <2>3 DEF SnapsOf
        <5>3. \A o \in Observation : o.at \in Nat
          BY DEF Observation
        <5>4. works[w].obs \in Had(w) /\ \A o \in Had(w) : o.at <= works[w].obs.at
          BY <2>3, <3>1 DEF RowsNewest
        <5> HIDE DEF Had
        <5> QED BY <5>1, <5>2, <5>3, <5>4
      <4>2. w \in P => L[w].at \in Nat
        BY <2>7 DEF Observation
      <4> HIDE DEF Had, Has, P
      <4>3. CASE w \notin P \/ Older(L, w)
        <5>1. works'[w] = works[w]
          BY <2>5, <4>3
        <5>2. w \in P => L[w].at <= works[w].obs.at
          BY <4>1, <4>2, <4>3 DEF Older
        <5> QED BY <2>6, <4>1, <5>1, <5>2
      <4>4. CASE w \in P /\ ~Older(L, w)
        <5>1. works'[w].obs = L[w] /\ works[w].obs.at <= L[w].at
          BY <2>5, <3>1, <4>1, <4>2, <4>4 DEF Older
        <5>2. \A o \in Had(w) : o.at <= L[w].at
          BY <4>1, <4>2, <4>4, <5>1
        <5> QED BY <2>6, <2>7, <4>2, <4>4, <5>1, <5>2
      <4> QED BY <4>3, <4>4
    <3>2. CASE w \notin DOMAIN works
      <4>1. w \in P /\ works'[w].obs = L[w]
        BY <2>5, <3>2
      <4>2. Had(w) = {}
        BY <2>3, <3>2 DEF SnapsOf, SnapsValid
      <4>3. L[w].at \in Nat
        BY <2>7, <4>1 DEF Observation
      <4> HIDE DEF Had, Has, P
      <4> QED BY <2>6, <2>7, <4>1, <4>2, <4>3
    <3> QED BY <3>1, <3>2
  <2> QED BY <2>8, <2>9, <2>10, <2>11 DEF HistoryInv
<1> QED BY <1>1, <1>3, <1>4, <1>5

LEMMA HistoryKept == HistoryInv /\ [CatalogNext]_vars => HistoryInv'
<1>1. ASSUME HistoryInv, UNCHANGED vars PROVE HistoryInv'
  BY <1>1 DEF vars, ledger, catalog, HistoryInv, LedgerTyped, SnapsDistinct,
              SnapsValid, RowsNewest, SnapsOf
<1> QED BY <1>1, HistoryStep

LEMMA HistoryInit == Init => HistoryInv
<1> SUFFICES ASSUME Init PROVE HistoryInv
  OBVIOUS
<1>1. DOMAIN obs = {} /\ DOMAIN works = {} /\ snaps = <<>>
  BY DEF Init, Empty
<1>2. works \in [DOMAIN works -> [id : Nat, obs : Observation]]
  BY DEF Init, Empty
<1>3. LedgerTyped
  BY <1>1, <1>2, FS_EmptySet DEF LedgerTyped
<1> QED BY <1>1, <1>3 DEF HistoryInv, SnapsDistinct, SnapsValid, RowsNewest

\* Distinct snapshots are as many as the observations they show.
LEMMA SnapsCounted ==
    ASSUME HistoryInv, NEW w
    PROVE  Cardinality({i \in 1 .. Len(snaps) : snaps[i].source = w})
               = Cardinality(SnapsOf(w))
<1> DEFINE I == {j \in 1 .. Len(snaps) : snaps[j].source = w}
           f == [i \in I |-> snaps[i]]
<1>1. IsFiniteSet(I)
  <2>1. Len(snaps) \in Nat
    BY DEF HistoryInv, LedgerTyped
  <2>2. IsFiniteSet(1 .. Len(snaps))
    BY <2>1, FS_Interval
  <2> QED BY <2>2, FS_Subset
<1>2. f \in Injection(I, SnapsOf(w))
  BY DEF Injection, IsInjective, SnapsOf, HistoryInv, SnapsDistinct
<1>3. f \in Surjection(I, SnapsOf(w))
  BY DEF Surjection, SnapsOf
<1> HIDE DEF f, I
<1>4. Cardinality(I) = Cardinality(SnapsOf(w))
  BY <1>1, <1>2, <1>3, FS_Surjection
<1> QED BY <1>4 DEF I

\* THEOREM (normalized-catalog.md:18 and 22): whatever manifests are replayed,
\* in whatever order and under whatever policies, a work's row references the
\* newest observation its history holds, that observation is valid, and the
\* history holds each observation once.
THEOREM RowsAreNewest == CatalogSpec => []WorkIsNewest
<1>1. HistoryInv /\ [CatalogNext]_vars => HistoryInv'
  BY HistoryKept
<1>2. HistoryInv => WorkIsNewest
  <2> SUFFICES ASSUME HistoryInv, NEW w \in DOMAIN works
               PROVE  /\ works[w].obs \in SnapsOf(w)
                      /\ obs[works[w].obs].status = "valid"
                      /\ \A o \in SnapsOf(w) : o.at <= works[w].obs.at
                      /\ Cardinality({i \in 1 .. Len(snaps) : snaps[i].source = w})
                             = Cardinality(SnapsOf(w))
    BY DEF WorkIsNewest
  <2>1. /\ works[w].obs \in SnapsOf(w)
        /\ \A o \in SnapsOf(w) : o.at <= works[w].obs.at
    BY DEF HistoryInv, RowsNewest
  <2>2. obs[works[w].obs].status = "valid"
    BY <2>1 DEF HistoryInv, SnapsValid, SnapsOf
  <2> QED BY <2>1, <2>2, SnapsCounted
<1> QED BY <1>1, <1>2, HistoryInit, PTL DEF CatalogSpec

-----------------------------------------------------------------------------
(* The links of works to tags *)

LEMMA LinksStep ==
    ASSUME LedgerTyped, LinksInv, CatalogNext
    PROVE  LinksInv'
<1>1. PICK m \in Manifest, p \in Policy :
          IngestOnly(m, p) \/ IngestAndProject(m, p) \/ RollBack(m, p)
  BY DEF CatalogNext
<1>2. CASE RollBack(m, p) \/ IngestOnly(m, p)
  <2>1. UNCHANGED <<works, links, replayed>>
    BY <1>2 DEF RollBack, IngestOnly, catalog
  <2> QED BY <2>1 DEF LinksInv, TagsFollowRow
<1>3. CASE IngestAndProject(m, p)
  <2> DEFINE O == Observations(m, p)  L == Lineage(m, O)  P == ProjectedWorks(L)
  <2>1. /\ works' = Works(L) /\ links' = Links(L) /\ Projectable(m, O)
        /\ replayed' = {w \in replayed \cup P : w \in P => Older(L, w)}
    BY <1>3, Zenon DEF IngestAndProject
  <2>2. Lines(L, O)
    BY <2>1, LineageReads
  <2> HIDE DEF O, L
  <2>3. /\ DOMAIN works' = DOMAIN works \cup P
        /\ works' \in [DOMAIN works' -> [id : Nat, obs : Observation]]
        /\ \A w \in DOMAIN works' :
               IF w \notin P \/ Older(L, w)
               THEN w \in DOMAIN works /\ works'[w] = works[w]
               ELSE works'[w].obs = L[w]
    BY <2>1, <2>2, WorksFollow
  <2>4. DOMAIN links' = DOMAIN links \cup P
    BY <2>1 DEF Links, Over
  <2>5. \A w \in P : links'[w] = Range(L[w].body.tags)
    BY <2>1 DEF Links, Over
  <2>6. \A w \in DOMAIN links \ P : links'[w] = links[w]
    BY <2>1 DEF Links, Over
  <2> HIDE DEF P
  <2>7. ASSUME NEW w \in DOMAIN works' \ replayed'
        PROVE  links'[w] = Range(works'[w].obs.body.tags)
    <3>1. CASE w \in P
      <4>1. ~Older(L, w)
        BY <2>1, <2>7, <3>1
      <4> QED BY <2>3, <2>5, <2>7, <3>1, <4>1
    <3>2. CASE w \notin P
      <4>1. w \in DOMAIN works /\ w \notin replayed /\ works'[w] = works[w]
        BY <2>1, <2>3, <2>7, <3>2
      <4>2. w \in DOMAIN links /\ links[w] = Range(works[w].obs.body.tags)
        BY <4>1 DEF LinksInv, TagsFollowRow
      <4> QED BY <2>6, <3>2, <4>1, <4>2
    <3> QED BY <3>1, <3>2
  <2>8. TagsFollowRow'
    BY <2>7 DEF TagsFollowRow
  <2> QED BY <2>3, <2>4, <2>8 DEF LinksInv
<1> QED BY <1>1, <1>2, <1>3

\* THEOREM (the link loop of project_fixture_catalog): a work's tags are those of
\* the observation its row references, unless an older one was projected last.
THEOREM LinksFollowRows == CatalogSpec => []TagsFollowRow
<1>1. Init => LinksInv
  BY DEF Init, Empty, LinksInv, TagsFollowRow
<1>2. HistoryInv /\ LinksInv /\ [CatalogNext]_vars => LinksInv'
  <2>1. ASSUME LinksInv, UNCHANGED vars PROVE LinksInv'
    BY <2>1 DEF vars, ledger, catalog, LinksInv, TagsFollowRow
  <2> QED BY <2>1, LinksStep DEF HistoryInv
<1>3. HistoryInv /\ [CatalogNext]_vars => HistoryInv'
  BY HistoryKept
<1>4. LinksInv => TagsFollowRow
  BY DEF LinksInv
<1> QED BY <1>1, <1>2, <1>3, <1>4, HistoryInit, PTL DEF CatalogSpec
-----------------------------------------------------------------------------
(* The numbers of rows *)

LEMMA RecordNumbered ==
    ASSUME Numbered(record), NEW m \in Manifest
    PROVE  Numbered(Records(m))
<1> DEFINE F == DOMAIN m \ DOMAIN record
           fresh == Listed(F)
           u == Records(m)
<1>1. DOMAIN m \subseteq Range(Order)
  BY CatalogAssumption DEF CatalogAssumption, Range
<1>2. ListsOnce(fresh, F)
  <2> HIDE DEF F
  <2>1. F \subseteq Range(Order)
    BY <1>1 DEF F
  <2> QED BY <2>1, ListedOnce
<1>3. DOMAIN u = DOMAIN record \cup DOMAIN m
  BY DEF Records, Over
<1>4. \A x \in DOMAIN record \ DOMAIN m : u[x] = record[x]
  BY DEF Records, Over
<1> DEFINE row(s) == IF s \in DOMAIN record THEN record[s]
                     ELSE [id |-> NewId(record, fresh, s), seen |-> 0,
                           available |-> "unknown"]
<1>5. \A s \in DOMAIN m :
          u[s] = IF s \in Fetched(m) THEN Over(Availability(m, s), row(s)) ELSE row(s)
  BY Zenon DEF Records, Over
<1>6. \A x \in DOMAIN record : "id" \in DOMAIN record[x]
  BY DEF Numbered
<1>7. \A s \in DOMAIN m : /\ "id" \in DOMAIN row(s)
                          /\ row(s).id = IF s \in DOMAIN record THEN record[s].id
                                         ELSE NewId(record, fresh, s)
  <2> HIDE DEF fresh
  <2> QED BY <1>6
<1>8. \A r, s : "id" \in DOMAIN r =>
          /\ "id" \in DOMAIN Over(Availability(m, s), r)
          /\ Over(Availability(m, s), r).id = r.id
  BY DEF Over, Availability
<1>9. \A x \in DOMAIN u : "id" \in DOMAIN u[x]
  <2> HIDE DEF row, u
  <2> QED BY <1>3, <1>4, <1>5, <1>6, <1>7, <1>8
<1>10. \A x \in DOMAIN record : u[x].id = record[x].id
  <2> HIDE DEF row, u
  <2> QED BY <1>4, <1>5, <1>7, <1>8
<1>11. \A x \in F : u[x].id = NewId(record, fresh, x)
  <2> HIDE DEF row, u, fresh
  <2> QED BY <1>5, <1>7, <1>8
<1>12. DOMAIN u = DOMAIN record \cup F /\ F \cap DOMAIN record = {}
  BY <1>3
<1>13. Numbered(u)
  <2> HIDE DEF fresh, u, F
  <2> QED BY <1>2, <1>9, <1>10, <1>11, <1>12, NumberedGrows
<1> QED BY <1>13

LEMMA ObservationsNumbered ==
    ASSUME Numbered(obs), NEW m \in Manifest, NEW p
    PROVE  Numbered(Observations(m, p))
<1> DEFINE R == Range(Observed(m))
           F == R \ DOMAIN obs
           G == {s \in Answered(m) : Observed(m)[s] \notin DOMAIN obs}
           q == Listed(G)
           g == [s \in G |-> Observed(m)[s]]
           fresh == FreshObservations(m)
           u == Observations(m, p)
<1>1. ListsOnce(q, G)
  <2>1. G \subseteq Range(Order)
    BY CatalogAssumption DEF CatalogAssumption, Range, Answered
  <2> HIDE DEF G
  <2> QED BY <2>1, ListedOnce
<1>2. DOMAIN Observed(m) = Answered(m) /\ \A s \in Answered(m) : Observed(m)[s].source = s
  BY DEF Observed
<1>3. g \in [G -> F] /\ \A z \in F : \E s \in G : g[s] = z
  <2> HIDE DEF Observed, Answered
  <2> QED BY <1>2 DEF Range
<1>4. \A s, t \in G : g[s] = g[t] => s = t
  <2> HIDE DEF Observed, Answered
  <2> QED BY <1>2
<1>5. fresh = [i \in 1 .. Len(q) |-> g[q[i]]]
  <2>1. \A i \in 1 .. Len(q) : q[i] \in G
    <3> HIDE DEF G, q
    <3> QED BY <1>1 DEF ListsOnce
  <2>2. fresh = [i \in 1 .. Len(q) |-> Observed(m)[q[i]]]
    BY DEF FreshObservations
  <2> HIDE DEF G, q, fresh
  <2>3. \A i \in 1 .. Len(q) : g[q[i]] = Observed(m)[q[i]]
    BY <2>1
  <2> HIDE DEF g
  <2> QED BY <2>2, <2>3
<1>6. ListsOnce(fresh, F)
  <2> HIDE DEF G, q, g, F, fresh
  <2> QED BY <1>1, <1>3, <1>4, <1>5, ListsImage
<1>7. /\ DOMAIN u = DOMAIN obs \cup F
      /\ F \cap DOMAIN obs = {}
  <2> HIDE DEF R
  <2>1. DOMAIN u = DOMAIN obs \cup R
    BY DEF Observations, Over, R
  <2> QED BY <2>1
<1>8. \A o \in DOMAIN obs : "id" \in DOMAIN obs[o]
  BY DEF Numbered
<1>9. \A o \in DOMAIN u : /\ "id" \in DOMAIN u[o]
                          /\ u[o].id = IF o \in DOMAIN obs THEN obs[o].id
                                       ELSE NewId(obs, fresh, o)
  <2> SUFFICES ASSUME NEW o \in DOMAIN u
               PROVE  /\ "id" \in DOMAIN u[o]
                      /\ u[o].id = IF o \in DOMAIN obs THEN obs[o].id
                                   ELSE NewId(obs, fresh, o)
    OBVIOUS
  <2> HIDE DEF fresh
  <2>1. CASE o \in DOMAIN obs \ R
    <3>1. u[o] = obs[o]
      BY <2>1, Zenon DEF Observations, Over
    <3> QED BY <1>8, <2>1, <3>1
  <2>2. CASE o \in R \cap DOMAIN obs
    <3>1. u[o] = IF p.checked /\ obs[o].status = "pending"
                 THEN [obs[o] EXCEPT !.status = Validate(p, o.body)] ELSE obs[o]
      BY <2>2 DEF Observations, Over
    <3> HIDE DEF u, Validate
    <3> QED BY <1>8, <2>2, <3>1
  <2>3. CASE o \in R \ DOMAIN obs
    <3>1. u[o] = [id |-> NewId(obs, fresh, o), status |-> Validate(p, o.body)]
      BY <2>3 DEF Observations, Over, fresh
    <3> HIDE DEF u, Validate
    <3> QED BY <2>3, <3>1
  <2> HIDE DEF u, R
  <2>4. o \in DOMAIN obs \/ o \in R
    BY <1>7 DEF R
  <2> QED BY <2>1, <2>2, <2>3, <2>4
<1>10. Numbered(u)
  <2> HIDE DEF F, fresh, u
  <2> QED BY <1>6, <1>7, <1>9, NumberedGrows
<1> QED BY <1>10

LEMMA WorksNumbered ==
    ASSUME Numbered(works), LedgerTyped, NEW L, NEW O, Lines(L, O)
    PROVE  Numbered(Works(L))
<1> DEFINE P == ProjectedWorks(L)
           F == P \ DOMAIN works
           fresh == Listed(F)
           u == Works(L)
<1>1. ListsOnce(fresh, F)
  <2>1. F \subseteq Range(Order)
    BY DEF Lines, ProjectedWorks
  <2> HIDE DEF F
  <2> QED BY <2>1, ListedOnce
<1>2. /\ DOMAIN u = DOMAIN works \cup F /\ F \cap DOMAIN works = {}
      /\ \A w \in DOMAIN works : "id" \in DOMAIN works[w]
  <2>1. DOMAIN u = DOMAIN works \cup P
    BY DEF Works, Over
  <2> HIDE DEF P, u
  <2> QED BY <2>1 DEF Numbered
<1>3. \A w \in DOMAIN u : /\ "id" \in DOMAIN u[w]
                          /\ u[w].id = IF w \in DOMAIN works THEN works[w].id
                                       ELSE NewId(works, fresh, w)
  <2> SUFFICES ASSUME NEW w \in DOMAIN u
               PROVE  /\ "id" \in DOMAIN u[w]
                      /\ u[w].id = IF w \in DOMAIN works THEN works[w].id
                                   ELSE NewId(works, fresh, w)
    OBVIOUS
  <2>1. CASE w \notin P
    <3>1. u[w] = works[w] /\ w \in DOMAIN works
      BY <2>1 DEF Works, Over
    <3> QED BY <1>2, <3>1
  <2>2. CASE w \in P
    <3>1. u[w] = IF w \notin DOMAIN works
                 THEN [id |-> NewId(works, fresh, w), obs |-> L[w]]
                 ELSE IF Older(L, w) THEN works[w]
                 ELSE [works[w] EXCEPT !.obs = L[w]]
      BY <2>2 DEF Works, Over
    <3> HIDE DEF u, P, fresh
    <3> QED BY <1>2, <3>1
  <2> QED BY <2>1, <2>2
<1>4. Numbered(u)
  <2> HIDE DEF F, fresh, u
  <2> QED BY <1>1, <1>2, <1>3, NumberedGrows
<1> QED BY <1>4

LEMMA AuthorsNumbered ==
    ASSUME Numbered(authors), NEW L, NEW O, Lines(L, O)
    PROVE  Numbered(Authors(L))
<1> DEFINE name(s) == L[s].body.author
           N == {name(s) : s \in DOMAIN L}
           F == N \ DOMAIN authors
           G == {s \in DOMAIN L : /\ name(s) \notin DOMAIN authors
                                  /\ \A q \in Named(L, name(s)) : Place(s) <= Place(q)}
           q == Listed(G)
           g == [s \in G |-> name(s)]
           fresh == FreshAuthors(L)
           u == Authors(L)
<1>1. G \subseteq DOMAIN L /\ DOMAIN L \subseteq Range(Order)
  BY DEF Lines
<1>2. ListsOnce(q, G)
  <2> HIDE DEF G
  <2>1. G \subseteq Range(Order)
    BY <1>1
  <2> QED BY <2>1, ListedOnce
<1>3. \A s \in DOMAIN L : Place(s) \in Nat /\ Order[Place(s)] = s
  BY <1>1, OrderFinite, CatalogAssumption DEF CatalogAssumption
<1>4. \A s, t \in G : g[s] = g[t] => s = t
  <2> SUFFICES ASSUME NEW s \in G, NEW t \in G, name(s) = name(t)
               PROVE  s = t
    OBVIOUS
  <2>1. t \in Named(L, name(s)) /\ s \in Named(L, name(t))
    BY DEF Named
  <2>2. Place(s) <= Place(t) /\ Place(t) <= Place(s)
    BY <2>1
  <2>3. Place(s) = Place(t)
    BY <1>3, <2>2
  <2> QED BY <1>3, <2>3
<1>5. g \in [G -> F]
  OBVIOUS
<1>6. ASSUME NEW a \in F
      PROVE  \E s \in G : g[s] = a
  <2> DEFINE I == {Place(s) : s \in Named(L, a)}
  <2>1. Named(L, a) \subseteq DOMAIN L /\ Named(L, a) # {}
    BY <1>6 DEF Named
  <2>2. I \subseteq Nat /\ I # {}
    BY <1>3, <2>1
  <2>3. PICK n \in I : \A k \in I : n <= k
    <3> HIDE DEF I
    <3> QED BY <2>2, LeastNat
  <2>4. PICK s \in Named(L, a) : n = Place(s)
    OBVIOUS
  <2>5. \A t \in Named(L, a) : Place(s) <= Place(t)
    BY <2>3, <2>4
  <2>6. name(s) = a /\ s \in DOMAIN L
    BY <2>4 DEF Named
  <2> QED BY <1>6, <2>5, <2>6
<1>7. fresh = [i \in 1 .. Len(q) |-> g[q[i]]]
  <2>1. \A i \in 1 .. Len(q) : q[i] \in G
    <3> HIDE DEF G, q
    <3> QED BY <1>2 DEF ListsOnce
  <2>2. fresh = [i \in 1 .. Len(q) |-> name(q[i])]
    BY DEF FreshAuthors
  <2> HIDE DEF G, q, fresh
  <2>3. \A i \in 1 .. Len(q) : g[q[i]] = name(q[i])
    BY <2>1
  <2> HIDE DEF g
  <2> QED BY <2>2, <2>3
<1>8. ListsOnce(fresh, F)
  <2> HIDE DEF G, q, g, F, fresh
  <2> QED BY <1>2, <1>4, <1>5, <1>6, <1>7, ListsImage
<1>9. /\ DOMAIN u = DOMAIN authors \cup F /\ F \cap DOMAIN authors = {}
      /\ \A a \in DOMAIN authors : "id" \in DOMAIN authors[a]
  <2>1. DOMAIN u = DOMAIN authors \cup N
    BY DEF Authors, Over
  <2> HIDE DEF N, u
  <2> QED BY <2>1 DEF Numbered
<1>10. \A a \in DOMAIN u : /\ "id" \in DOMAIN u[a]
                           /\ u[a].id = IF a \in DOMAIN authors THEN authors[a].id
                                        ELSE NewId(authors, fresh, a)
  <2> SUFFICES ASSUME NEW a \in DOMAIN u
               PROVE  /\ "id" \in DOMAIN u[a]
                      /\ u[a].id = IF a \in DOMAIN authors THEN authors[a].id
                                   ELSE NewId(authors, fresh, a)
    OBVIOUS
  <2> DEFINE at(i) == L[Order[i]].at
             named(b) == {i \in 1 .. Len(Order) : Order[i] \in Named(L, b)}
             best(b) == CHOOSE i \in named(b) :
                            \A j \in named(b) : at(j) < at(i) \/ (at(j) = at(i) /\ j <= i)
             row == L[Order[best(a)]]
  <2>1. CASE a \notin N
    <3>1. u[a] = authors[a] /\ a \in DOMAIN authors
      BY <2>1 DEF Authors, Over
    <3> QED BY <1>9, <3>1
  <2>2. CASE a \in N
    <3>1. u[a] = IF a \notin DOMAIN authors
                 THEN [id |-> NewId(authors, fresh, a), obs |-> row]
                 ELSE IF at(best(a)) >= authors[a].obs.at
                 THEN [authors[a] EXCEPT !.obs = row]
                 ELSE authors[a]
      BY <2>2 DEF Authors, Over
    <3> HIDE DEF u, N, fresh, row, best
    <3> QED BY <1>9, <3>1
  <2> QED BY <2>1, <2>2
<1>11. Numbered(u)
  <2> HIDE DEF F, fresh, u
  <2> QED BY <1>8, <1>9, <1>10, NumberedGrows
<1> QED BY <1>11

\* What the ledger's logs get is typed, and so is the list of tags.
LEMMA LogsTyped ==
    ASSUME IdsInv, NEW m \in Manifest, NEW p
    PROVE  /\ Append(crawls, Crawl(m, p))
                  \in Seq([status : {"completed", "completed_with_errors"},
                           tasks : Seq({"succeeded", "failed"})])
           /\ Quarantined(m, p)
                  \in Seq([source : Source, code : ErrorCodes,
                           obs : Observation \cup {NoObservation}])
<1> DEFINE Entry == [source : Source, code : ErrorCodes,
                     obs : Observation \cup {NoObservation}]
           Task == {"succeeded", "failed"}
<1>1. /\ DOMAIN m \subseteq Range(Order) /\ Range(Order) \subseteq Source
      /\ \A s \in DOMAIN m : m[s].body \in Payload /\ m[s].at \in Nat
  BY CatalogAssumption, OrderFinite DEF CatalogAssumption, Range
<1>2. Crawl(m, p).tasks \in Seq(Task)
  <2> DEFINE all == Listed(DOMAIN m)  n == Cardinality(DOMAIN m)
  <2>1. n \in Nat /\ all \in [1 .. n -> DOMAIN m]
    BY <1>1, ListedOnce DEF ListsOnce
  <2>2. Crawl(m, p).tasks = [i \in 1 .. Len(all) |->
            IF all[i] \in Answered(m) THEN "succeeded" ELSE "failed"]
    BY DEF Crawl
  <2> HIDE DEF all, n
  <2>3. Len(all) \in Nat
    BY <2>1
  <2> QED BY <2>2, <2>3
<1>3. Crawl(m, p) \in [status : {"completed", "completed_with_errors"},
                       tasks : Seq(Task)]
  BY <1>2 DEF Crawl
<1>4. ASSUME NEW s \in DOMAIN m
      PROVE  Item(m, p, s) \in Entry
  <2>1. s \in Answered(m) => Observed(m)[s] \in Observation
    BY <1>1 DEF Observed, Observation, Answered
  <2>2. ErrorCode(m, p, s) \in ErrorCodes
    BY DEF ErrorCode, ErrorCodes
  <2> HIDE DEF Answered, Observed
  <2> QED BY <1>1, <2>1, <2>2 DEF Item
<1> DEFINE entry(s) == Item(m, p, s)
           S == {s \in Refused(m, p) : entry(s) \notin Range(quarantine)}
                    \cup (DOMAIN m \ Answered(m))
           fresh == Listed(S)
<1>5. Quarantined(m, p) = quarantine \o [i \in 1 .. Len(fresh) |-> entry(fresh[i])]
  BY DEF Quarantined
<1>6. S \subseteq DOMAIN m
  BY DEF Refused, Answered
<1>7. Cardinality(S) \in Nat /\ fresh \in [1 .. Cardinality(S) -> S]
  <2> HIDE DEF S
  <2> QED BY <1>1, <1>6, ListedOnce DEF ListsOnce
<1>8. \A s \in DOMAIN m : entry(s) \in Entry
  BY <1>4
<1>9. [i \in 1 .. Len(fresh) |-> entry(fresh[i])] \in Seq(Entry)
  <2> HIDE DEF S, fresh, entry
  <2>1. Len(fresh) \in Nat /\ \A i \in 1 .. Len(fresh) : fresh[i] \in DOMAIN m
    BY <1>6, <1>7
  <2>2. \A i \in 1 .. Len(fresh) : entry(fresh[i]) \in Entry
    BY <1>8, <2>1
  <2> QED BY <2>1, <2>2
<1>10. Quarantined(m, p) \in Seq(Entry)
  <2> HIDE DEF fresh, entry
  <2> QED BY <1>5, <1>9 DEF IdsInv
<1> QED BY <1>3, <1>10 DEF IdsInv

LEMMA TagsListed ==
    ASSUME tags \in Seq(Range(tags)), NEW L, NEW O, Lines(L, O)
    PROVE  Tags(L) \in Seq(Range(Tags(L)))
<1> DEFINE W == Listed(ProjectedWorks(L))
           named == FlattenSeq([i \in 1 .. Len(W) |-> L[W[i]].body.tags])
           first(t) == CHOOSE i \in 1 .. Len(named) :
                           named[i] = t /\ \A j \in 1 .. i - 1 : named[j] # t
           U == UNION {Range(L[w].body.tags) : w \in ProjectedWorks(L)}
           fresh == U \ Range(tags)
           R == Ranked(fresh, LAMBDA t, u : first(t) <= first(u))
           T == Tags(L)
<1>1. T = tags \o R
  BY DEF Tags
<1>2. IsFiniteSet(fresh)
  <2> DEFINE P == ProjectedWorks(L)
             f == [w \in P |-> Range(L[w].body.tags)]
  <2>1. IsFiniteSet(P)
    <3>1. P \subseteq Range(Order)
      BY DEF Lines, ProjectedWorks
    <3> QED BY <3>1, OrderFinite, FS_Subset
  <2>2. f \in Surjection(P, {f[w] : w \in P})
    BY DEF Surjection
  <2>3. IsFiniteSet({f[w] : w \in P})
    <3> HIDE DEF f, P
    <3> QED BY <2>1, <2>2, FS_Surjection
  <2>4. ASSUME NEW w \in P
        PROVE  IsFiniteSet(f[w])
    <3>1. L[w].body \in Payload
      BY DEF Lines, ProjectedWorks, Observation
    <3> DEFINE b == L[w].body.tags
    <3>2. b \in Seq(Range(b))
      BY <3>1, CatalogAssumption DEF CatalogAssumption
    <3> HIDE DEF b
    <3>3. Len(b) \in Nat /\ DOMAIN b = 1 .. Len(b)
      BY <3>2
    <3>4. b \in Surjection(1 .. Len(b), Range(b))
      BY <3>2, <3>3 DEF Surjection, Range
    <3>5. IsFiniteSet(1 .. Len(b))
      BY <3>3, FS_Interval
    <3>6. IsFiniteSet(Range(b))
      BY <3>4, <3>5, FS_Surjection
    <3> QED BY <3>6 DEF b
  <2>5. U = UNION {f[w] : w \in P}
    OBVIOUS
  <2>6. IsFiniteSet(U)
    <3> HIDE DEF f, P, U
    <3> QED BY <2>3, <2>4, <2>5, FS_UNION
  <2> HIDE DEF U
  <2> QED BY <2>6, FS_Subset
<1>3. Cardinality(fresh) \in Nat
  BY <1>2, FS_CardinalityType
<1>4. DOMAIN R = 1 .. Cardinality(fresh) /\ R = [k \in DOMAIN R |-> R[k]]
  <2> HIDE DEF fresh, first
  <2> QED BY DEF Ranked
<1> HIDE DEF R, fresh, T
<1>5. R \in Seq(Range(R))
  BY <1>3, <1>4 DEF Range
<1> DEFINE A == Range(tags) \cup Range(R)
<1>6. tags \in Seq(A) /\ R \in Seq(A)
  <2> HIDE DEF Range
  <2> QED BY <1>5
<1>7. T \in Seq(A)
  <2> HIDE DEF A
  <2> QED BY <1>1, <1>6
<1>8. T \in Seq(Range(T))
  <2> HIDE DEF A
  <2>1. Len(T) \in Nat /\ DOMAIN T = 1 .. Len(T) /\ T = [i \in 1 .. Len(T) |-> T[i]]
    BY <1>7
  <2>2. \A i \in 1 .. Len(T) : T[i] \in Range(T)
    BY <2>1 DEF Range
  <2> HIDE DEF Range
  <2> QED BY <2>1, <2>2
<1> QED BY <1>8 DEF T

LEMMA IdsStep ==
    ASSUME LedgerTyped, IdsInv, CatalogNext
    PROVE  IdsInv'
<1>1. PICK m \in Manifest, p \in Policy :
          IngestOnly(m, p) \/ IngestAndProject(m, p) \/ RollBack(m, p)
  BY DEF CatalogNext
<1>2. CASE RollBack(m, p)
  <2>1. UNCHANGED <<record, obs, authors, works, crawls, quarantine, tags>>
    BY <1>2 DEF RollBack, ledger, catalog
  <2> QED BY <2>1 DEF IdsInv, Numbered
<1>3. /\ Numbered(Records(m)) /\ Numbered(Observations(m, p))
      /\ Append(crawls, Crawl(m, p))
             \in Seq([status : {"completed", "completed_with_errors"},
                      tasks : Seq({"succeeded", "failed"})])
      /\ Quarantined(m, p)
             \in Seq([source : Source, code : ErrorCodes,
                      obs : Observation \cup {NoObservation}])
  BY RecordNumbered, ObservationsNumbered, LogsTyped DEF IdsInv
<1>4. CASE IngestOnly(m, p)
  <2>1. /\ crawls' = Append(crawls, Crawl(m, p)) /\ record' = Records(m)
        /\ obs' = Observations(m, p) /\ quarantine' = Quarantined(m, p)
        /\ UNCHANGED <<authors, works, tags>>
    BY <1>4 DEF IngestOnly, Ingest, catalog
  <2> HIDE DEF Numbered
  <2>2. /\ Numbered(record)' /\ Numbered(obs)' /\ Numbered(authors)' /\ Numbered(works)'
    BY <1>3, <2>1, Zenon DEF IdsInv, Numbered
  <2> QED BY <1>3, <2>1, <2>2 DEF IdsInv
<1>5. CASE IngestAndProject(m, p)
  <2> DEFINE O == Observations(m, p)  L == Lineage(m, O)
  <2>1. /\ crawls' = Append(crawls, Crawl(m, p)) /\ record' = Records(m)
        /\ obs' = O /\ quarantine' = Quarantined(m, p)
        /\ authors' = Authors(L) /\ works' = Works(L) /\ tags' = Tags(L)
        /\ Projectable(m, O)
    BY <1>5, Zenon DEF IngestAndProject, Ingest
  <2>2. Lines(L, O)
    BY <2>1, LineageReads
  <2>3. Numbered(Authors(L)) /\ Numbered(Works(L)) /\ Tags(L) \in Seq(Range(Tags(L)))
    <3> HIDE DEF L, O
    <3> QED BY <2>2, AuthorsNumbered, WorksNumbered, TagsListed DEF IdsInv
  <2> HIDE DEF L
  <2>4. /\ Numbered(record)' /\ Numbered(obs)' /\ Numbered(authors)' /\ Numbered(works)'
    BY <1>3, <2>1, <2>3, Zenon DEF Numbered
  <2> QED BY <1>3, <2>1, <2>3, <2>4 DEF IdsInv
<1> QED BY <1>1, <1>2, <1>4, <1>5

LEMMA IdsInit == Init => IdsInv
<1> SUFFICES ASSUME Init PROVE IdsInv
  OBVIOUS
<1>1. \A t : DOMAIN t = {} => Numbered(t)
  BY FS_EmptySet DEF Numbered
<1>2. DOMAIN record = {} /\ DOMAIN obs = {} /\ DOMAIN authors = {} /\ DOMAIN works = {}
  BY DEF Init, Empty
<1>3. Numbered(record) /\ Numbered(obs) /\ Numbered(authors) /\ Numbered(works)
  BY <1>1, <1>2
<1> QED BY <1>3 DEF IdsInv, Init
-----------------------------------------------------------------------------
(* Sums over finite sets, by counting units *)

\* Among sets of finite sets there is a smallest one: induction over finite
\* sets, by a counterexample that has no smaller one.
LEMMA LeastSet ==
    ASSUME NEW S, IsFiniteSet(S), NEW B, B \subseteq SUBSET S, B # {}
    PROVE  \E T \in B : \A U \in B : U \subseteq T => U = T
<1>1. FiniteSubsetsOf(S) = SUBSET S
  BY FS_FiniteSubsetsOfFinite
<1>2. IsWellFoundedOn(StrictSubsetOrdering(S), SUBSET S)
  BY <1>1, FS_StrictSubsetOrderingWellFounded
<1>3. PICK T \in B : \A U \in B : <<U, T>> \notin StrictSubsetOrdering(S)
  BY <1>2, WFMin
<1> QED BY <1>3 DEF StrictSubsetOrdering

\* What a sum counts: f[x] units for each x.
Units(f, S) == {u \in S \X Nat : u[2] < f[u[1]]}

LEMMA UnitsOfOne ==
    ASSUME NEW f, NEW S, NEW x, x \notin S, f[x] \in Nat
    PROVE  /\ Units(f, S \cup {x}) = Units(f, S) \cup ({x} \X (0 .. f[x] - 1))
           /\ Units(f, S) \cap ({x} \X (0 .. f[x] - 1)) = {}
           /\ IsFiniteSet({x} \X (0 .. f[x] - 1))
           /\ Cardinality({x} \X (0 .. f[x] - 1)) = f[x]
<1> DEFINE n == f[x]  N == 0 .. n - 1
<1>1. IsFiniteSet(N) /\ Cardinality(N) = n
  <2>1. n \in Nat /\ 0 \in Int /\ n - 1 \in Int
    OBVIOUS
  <2> HIDE DEF n
  <2>2. IsFiniteSet(N) /\ Cardinality(N) = IF 0 > n - 1 THEN 0 ELSE (n - 1) - 0 + 1
    BY <2>1, FS_Interval
  <2> QED BY <2>1, <2>2
<1>2. IsFiniteSet({x}) /\ Cardinality({x}) = 1
  BY FS_Singleton
<1>3. /\ IsFiniteSet({x} \X N)
      /\ Cardinality({x} \X N) = Cardinality({x}) * Cardinality(N)
  <2> HIDE DEF N
  <2> QED BY <1>1, <1>2, FS_Product
<1>4. Cardinality({x} \X N) = n
  BY <1>1, <1>2, <1>3
<1>5. N = {i \in Nat : i < n}
  OBVIOUS
<1>6. Units(f, S \cup {x}) = Units(f, S) \cup ({x} \X N)
  <2> HIDE DEF N
  <2> QED BY <1>5 DEF Units
<1>7. Units(f, S) \cap ({x} \X N) = {}
  BY DEF Units
<1> QED BY <1>3, <1>4, <1>6, <1>7

\* A finite sum of naturals counts finitely many units.
LEMMA UnitsFinite ==
    ASSUME NEW S, IsFiniteSet(S), NEW f, \A x \in S : f[x] \in Nat
    PROVE  IsFiniteSet(Units(f, S))
<1> DEFINE B == {T \in SUBSET S : ~IsFiniteSet(Units(f, T))}
<1> SUFFICES ASSUME B # {} PROVE FALSE
  OBVIOUS
<1>0. B \subseteq SUBSET S
  OBVIOUS
<1>1. PICK T \in B : \A U \in B : U \subseteq T => U = T
  <2> HIDE DEF B
  <2> QED BY <1>0, LeastSet
<1>2. CASE T = {}
  <2>1. Units(f, T) = {}
    BY <1>2 DEF Units
  <2> QED BY <1>1, <2>1, FS_EmptySet
<1>3. CASE T # {}
  <2>1. PICK x \in T : TRUE
    BY <1>3
  <2> DEFINE U == T \ {x}
  <2>2. U \in SUBSET S /\ T = U \cup {x} /\ x \notin U /\ f[x] \in Nat
    BY <1>1, <2>1
  <2>3. IsFiniteSet(Units(f, U))
    BY <1>1, <2>2
  <2> HIDE DEF U
  <2>4. IsFiniteSet(Units(f, U) \cup ({x} \X (0 .. f[x] - 1)))
    BY <2>2, <2>3, UnitsOfOne, FS_Union
  <2>5. Units(f, T) = Units(f, U) \cup ({x} \X (0 .. f[x] - 1))
    BY <2>2, UnitsOfOne
  <2> QED BY <1>1, <2>4, <2>5
<1> QED BY <1>2, <1>3

LEMMA UnitsAdd ==
    ASSUME NEW S, IsFiniteSet(S), NEW f, NEW x, x \notin S,
           \A y \in S \cup {x} : f[y] \in Nat
    PROVE  /\ Cardinality(Units(f, S)) \in Nat
           /\ Cardinality(Units(f, S \cup {x})) = Cardinality(Units(f, S)) + f[x]
<1> DEFINE V == {x} \X (0 .. f[x] - 1)
<1>1. /\ Units(f, S \cup {x}) = Units(f, S) \cup V
      /\ Units(f, S) \cap V = {}
      /\ IsFiniteSet(V) /\ Cardinality(V) = f[x]
  BY UnitsOfOne
<1>2. IsFiniteSet(Units(f, S))
  BY UnitsFinite
<1> HIDE DEF V
<1>3. Cardinality(Units(f, S) \cup V)
         = Cardinality(Units(f, S)) + Cardinality(V) - Cardinality(Units(f, S) \cap V)
  BY <1>1, <1>2, FS_Union
<1>4. Cardinality(Units(f, S) \cap V) = 0
  BY <1>1, FS_EmptySet
<1>5. Cardinality(Units(f, S)) \in Nat /\ f[x] \in Nat
  BY <1>2, FS_CardinalityType
<1> DEFINE n == Cardinality(Units(f, S))  m == f[x]
<1>6. n \in Nat /\ m \in Nat /\ Cardinality(Units(f, S) \cup V) = n + m - 0
  BY <1>1, <1>3, <1>4, <1>5
<1> HIDE DEF n, m
<1>7. Cardinality(Units(f, S) \cup V) = n + m
  BY <1>6
<1> QED BY <1>1, <1>6, <1>7 DEF n, m

\* The recursion of the community modules' sum has a solution, the number of
\* units, and no other.
LEMMA SumIsUnits ==
    ASSUME NEW S, IsFiniteSet(S), NEW f, \A x \in S : f[x] \in Nat
    PROVE  SumFunctionOnSet(f, S) = Cardinality(Units(f, S))
<1> DEFINE c(s) == CHOOSE x \in s : TRUE
           Sums(g) == g = [s \in SUBSET S |->
                             IF s = {} THEN 0 ELSE f[c(s)] + g[s \ {c(s)}]]
           units == [s \in SUBSET S |-> Cardinality(Units(f, s))]
<1>1. SumFunctionOnSet(f, S) = (CHOOSE g : Sums(g))[S]
  BY DEF SumFunctionOnSet, FoldFunctionOnSet, MapThenFoldSet
<1>2. ASSUME NEW s \in SUBSET S, s # {}
      PROVE  /\ c(s) \in s /\ s \ {c(s)} \in SUBSET S
             /\ Cardinality(Units(f, s))
                   = f[c(s)] + Cardinality(Units(f, s \ {c(s)}))
  <2>1. c(s) \in s
    BY <1>2
  <2> DEFINE x == c(s)  t == s \ {x}
  <2>2. IsFiniteSet(t) /\ x \notin t /\ s = t \cup {x}
        /\ \A y \in t \cup {x} : f[y] \in Nat
    BY <1>2, <2>1, FS_Subset
  <2> HIDE DEF x, t
  <2>3. /\ Cardinality(Units(f, t)) \in Nat /\ f[x] \in Nat
        /\ Cardinality(Units(f, s)) = Cardinality(Units(f, t)) + f[x]
    BY <2>2, UnitsAdd
  <2>4. Cardinality(Units(f, s)) = f[x] + Cardinality(Units(f, t))
    BY <2>3
  <2> QED BY <1>2, <2>1, <2>4 DEF x, t
<1>3. Units(f, {}) = {} /\ Cardinality(Units(f, {})) = 0
  BY FS_EmptySet DEF Units
<1>4. Sums(units)
  BY <1>2, <1>3
<1> DEFINE g == CHOOSE h : Sums(h)
<1>5. Sums(g)
  BY <1>4
<1> HIDE DEF g
<1>6. ASSUME NEW s \in SUBSET S
      PROVE  g[s] = IF s = {} THEN 0 ELSE f[c(s)] + g[s \ {c(s)}]
  BY <1>5
<1> DEFINE B == {T \in SUBSET S : g[T] # Cardinality(Units(f, T))}
<1>7. B = {}
  <2> SUFFICES ASSUME B # {} PROVE FALSE
    OBVIOUS
  <2>0. B \subseteq SUBSET S
    OBVIOUS
  <2>1. PICK T \in B : \A U \in B : U \subseteq T => U = T
    <3> HIDE DEF B
    <3> QED BY <2>0, LeastSet
  <2>2. CASE T = {}
    BY <1>3, <1>6, <2>1, <2>2
  <2>3. CASE T # {}
    <3>1. c(T) \in T /\ T \ {c(T)} \in SUBSET S
          /\ Cardinality(Units(f, T)) = f[c(T)] + Cardinality(Units(f, T \ {c(T)}))
      BY <1>2, <2>1, <2>3
    <3>2. g[T] = f[c(T)] + g[T \ {c(T)}]
      BY <1>6, <2>1, <2>3
    <3>3. T \ {c(T)} \notin B
      BY <2>1, <3>1
    <3>4. g[T \ {c(T)}] = Cardinality(Units(f, T \ {c(T)}))
      BY <3>1, <3>3
    <3> QED BY <2>1, <3>1, <3>2, <3>4
  <2> QED BY <2>2, <2>3
<1> QED BY <1>1, <1>7 DEF g

\* A count that is shown is a natural, and so is the total of those shown.
LEMMA TotalsTyped ==
    ASSUME LedgerTyped, NEW k \in Metric
    PROVE  /\ IsFiniteSet(DOMAIN works)
           /\ \A w \in DOMAIN works : Coalesce(CountOf(w, k)) \in Nat
           /\ \A W \in SUBSET DOMAIN works : Total(W, k) \in Nat
<1>1. IsFiniteSet(DOMAIN works)
  BY OrderFinite, FS_Subset DEF LedgerTyped
<1>2. \A w \in DOMAIN works : CountOf(w, k) \in Nat \cup {Null}
  BY CatalogAssumption DEF CatalogAssumption, LedgerTyped, Observation, CountOf
<1>3. ASSUME NEW W \in SUBSET DOMAIN works
      PROVE  Total(W, k) \in Nat
  <2> DEFINE S == {w \in W : CountOf(w, k) # Null}
             f == [w \in W |-> CountOf(w, k)]
  <2>1. Total(W, k) = SumFunctionOnSet(f, S)
    BY DEF Total
  <2>2. IsFiniteSet(S) /\ \A w \in S : f[w] \in Nat
    BY <1>1, <1>2, FS_Subset
  <2> HIDE DEF S, f
  <2> QED BY <2>1, <2>2, SumIsUnits, UnitsFinite, FS_CardinalityType
<1> QED BY <1>1, <1>2, <1>3 DEF Coalesce
-----------------------------------------------------------------------------
(* The rows of listings *)

\* Finitely many whole rows, each with an id of its own.
Sound(S) ==
    /\ IsFiniteSet(S)
    /\ S \subseteq RowType
    /\ \A q, r \in S : q.id = r.id => q = r

LEMMA NumberedRows ==
    ASSUME NEW n \in Nat, NEW S, \A r \in S : \E i \in 1 .. n : r = Row(i)
    PROVE  Sound(S)
<1>1. S \subseteq RowType /\ \A q, r \in S : q.id = r.id => q = r
  BY DEF RowType, Row
<1>2. \A r \in S : r.id \in 1 .. n
  BY DEF Row
<1>3. [r \in S |-> r.id] \in Injection(S, 1 .. n)
  BY <1>1, <1>2 DEF Injection, IsInjective
<1>4. IsFiniteSet(1 .. n)
  BY FS_Interval
<1>5. IsFiniteSet(S)
  BY <1>3, <1>4, FS_Injection
<1> QED BY <1>1, <1>5 DEF Sound

LEMMA ScoredRows ==
    ASSUME NEW t, Numbered(t), NEW S,
           \A r \in S : \E x \in DOMAIN t : r.id = t[x].id,
           S \subseteq RowType,
           NEW s, \A r \in S, x \in DOMAIN t : r.id = t[x].id => r.num = s[x]
    PROVE  Sound(S)
<1> DEFINE n == Cardinality(DOMAIN t)
<1>1. n \in Nat /\ \A x \in DOMAIN t : t[x].id \in 1 .. n
  BY FS_CardinalityType DEF Numbered
<1> HIDE DEF n
<1>2. \A r \in S : r.id \in 1 .. n
  BY <1>1
<1>3. ASSUME NEW q \in S, NEW r \in S, q.id = r.id
      PROVE  q = r
  <2>1. q.num = r.num
    BY <1>3
  <2>2. q.den = r.den
    BY DEF RowType
  <2> QED BY <1>3, <2>1, <2>2 DEF RowType
<1>4. [r \in S |-> r.id] \in Injection(S, 1 .. n)
  BY <1>2, <1>3 DEF Injection, IsInjective
<1>5. IsFiniteSet(1 .. n)
  BY <1>1, FS_Interval
<1>6. IsFiniteSet(S)
  BY <1>4, <1>5, FS_Injection
<1> QED BY <1>3, <1>6 DEF Sound

\* The rows of every listing but the one of averages are sound.
LEMMA RowsSound ==
    ASSUME LedgerTyped, IdsInv, NEW l \in Listing, l.list # "rank_averages"
    PROVE  Sound(Rows(l))
<1>1. l.list \in Lists /\ (l.list \in Rankings => l.arg \in Metric)
  BY ApiAssumption DEF ApiAssumption
<1>2. /\ Numbered(record) /\ Numbered(obs) /\ Numbered(authors) /\ Numbered(works)
      /\ Len(crawls) \in Nat /\ Len(quarantine) \in Nat /\ Len(tags) \in Nat
      /\ Len(snaps) \in Nat
  BY DEF IdsInv, LedgerTyped
<1>3. ASSUME NEW t, Numbered(t), NEW S, \A r \in S : \E x \in DOMAIN t : r = Row(t[x].id)
      PROVE  Sound(S)
  <2>1. Cardinality(DOMAIN t) \in Nat
    BY <1>3, FS_CardinalityType DEF Numbered
  <2>2. \A r \in S : \E i \in 1 .. Cardinality(DOMAIN t) : r = Row(i)
    BY <1>3 DEF Numbered
  <2> QED BY <2>1, <2>2, NumberedRows
<1>4. CASE l.list = "sources"
  <2>1. Sound(ListSourceRecords(l.arg))
    BY <1>2, <1>3 DEF ListSourceRecords
  <2> QED BY <1>4, <2>1 DEF Rows
<1>5. CASE l.list = "observations"
  <2>1. Sound(ListObservations(l.arg))
    BY <1>2, <1>3 DEF ListObservations
  <2> QED BY <1>5, <2>1 DEF Rows
<1>6. CASE l.list = "schemas"
  <2>1. ASSUME NEW h \in {o.body.shape : o \in DOMAIN obs}
        PROVE  \E x \in DOMAIN obs :
                   Min({obs[o].id : o \in {q \in DOMAIN obs : q.body.shape = h}}) = obs[x].id
    <3> DEFINE I == {obs[o].id : o \in {q \in DOMAIN obs : q.body.shape = h}}
    <3>1. I # {} /\ I \subseteq Nat
      BY <1>2, FS_CardinalityType DEF Numbered
    <3>2. Min(I) \in I
      <4> HIDE DEF I
      <4>1. \E n \in I : \A k \in I : n <= k
        BY <3>1, LeastNat
      <4> QED BY <4>1 DEF Min
    <3> QED BY <3>2
  <2>2. Sound(ListSchemaDefinitions)
    <3>1. \A r \in ListSchemaDefinitions : \E x \in DOMAIN obs : r = Row(obs[x].id)
      BY <2>1, Zenon DEF ListSchemaDefinitions
    <3> QED BY <1>2, <1>3, <3>1
  <2> QED BY <1>6, <2>2 DEF Rows
<1>7. CASE l.list = "runs"
  <2>1. Sound(ListRuns(l.arg))
    BY <1>2, NumberedRows DEF ListRuns
  <2> QED BY <1>7, <2>1 DEF Rows
<1>8. CASE l.list = "tasks"
  <2>1. Sound(ListTasks(l.arg))
    <3>1. CASE l.arg \in 1 .. Len(crawls)
      <4>1. Len(crawls[l.arg].tasks) \in Nat
        BY <3>1 DEF IdsInv
      <4> QED BY <3>1, <4>1, NumberedRows DEF ListTasks
    <3>2. CASE l.arg \notin 1 .. Len(crawls)
      <4>1. ListTasks(l.arg) = {}
        BY <3>2 DEF ListTasks
      <4> QED BY <1>2, <4>1, NumberedRows
    <3> QED BY <3>1, <3>2
  <2> QED BY <1>8, <2>1 DEF Rows
<1>9. CASE l.list = "quarantine"
  <2>1. Sound(ListQuarantine)
    BY <1>2, NumberedRows DEF ListQuarantine
  <2> QED BY <1>9, <2>1 DEF Rows
<1>10. CASE l.list = "works"
  <2>1. Sound(ListWorks(l.arg))
    BY <1>2, <1>3 DEF ListWorks
  <2> QED BY <1>10, <2>1 DEF Rows
<1>11. CASE l.list = "tags"
  <2>1. Sound(ListTagAggregates)
    BY <1>2, NumberedRows DEF ListTagAggregates
  <2> QED BY <1>11, <2>1 DEF Rows
<1>12. CASE l.list = "authors"
  <2>1. Sound(ListAuthorAggregates)
    BY <1>2, <1>3 DEF ListAuthorAggregates
  <2> QED BY <1>12, <2>1 DEF Rows
<1>13. CASE l.list = "history"
  <2>1. Sound(ListMetricHistory(l.arg))
    BY <1>2, NumberedRows DEF ListMetricHistory
  <2> QED BY <1>13, <2>1 DEF Rows
<1>14. CASE l.list = "rank_works"
  <2> DEFINE k == l.arg
             s == [w \in DOMAIN works |-> Coalesce(CountOf(w, k))]
             S == RankWorks(k)
  <2>1. \A w \in DOMAIN works : s[w] \in Nat
    BY <1>1, <1>14, TotalsTyped DEF Rankings
  <2>2. S = {Scored(works[w].id, s[w], 1) : w \in DOMAIN works}
    BY DEF RankWorks
  <2> HIDE DEF s, S
  <2>3. Sound(S)
    <3>1. /\ \A x, y \in DOMAIN works : works[x].id = works[y].id => x = y
          /\ \A x \in DOMAIN works : works[x].id \in Nat
      BY <1>2, FS_CardinalityType DEF Numbered
    <3>2. /\ \A r \in S : \E x \in DOMAIN works : r.id = works[x].id
          /\ S \subseteq RowType
          /\ \A r \in S, x \in DOMAIN works : r.id = works[x].id => r.num = s[x]
      BY <2>1, <2>2, <3>1 DEF RowType, Scored
    <3> QED BY <1>2, <3>2, ScoredRows
  <2> QED BY <1>14, <2>3 DEF Rows, S
<1>15. ASSUME NEW s, \A a \in DOMAIN authors : s[a] \in Nat, NEW A \in SUBSET DOMAIN authors
       PROVE  Sound({Scored(authors[a].id, s[a], 1) : a \in A})
  <2> DEFINE S == {Scored(authors[a].id, s[a], 1) : a \in A}
  <2>1. /\ \A x, y \in DOMAIN authors : authors[x].id = authors[y].id => x = y
        /\ \A x \in DOMAIN authors : authors[x].id \in Nat
    BY <1>2, FS_CardinalityType DEF Numbered
  <2>2. /\ \A r \in S : \E x \in DOMAIN authors : r.id = authors[x].id
        /\ S \subseteq RowType
        /\ \A r \in S, x \in DOMAIN authors : r.id = authors[x].id => r.num = s[x]
    BY <1>15, <2>1 DEF RowType, Scored
  <2> HIDE DEF S
  <2>3. Numbered(authors)
    BY <1>2
  <2>4. Sound(S)
    BY <2>2, <2>3, ScoredRows
  <2> QED BY <2>4 DEF S
<1>16. CASE l.list = "rank_authors"
  <2> DEFINE k == l.arg
             s == [a \in DOMAIN authors |-> Total(WorksOf(a), k)]
             A == {b \in DOMAIN authors : Coverage(WorksOf(b), k) > 0}
  <2>1. k \in Metric
    BY <1>1, <1>16 DEF Rankings
  <2>2. \A a \in DOMAIN authors : WorksOf(a) \in SUBSET DOMAIN works
    BY DEF WorksOf
  <2> HIDE DEF k
  <2>3. \A a \in DOMAIN authors : s[a] \in Nat
    BY <2>1, <2>2, TotalsTyped
  <2>4. \A a \in A : Total(WorksOf(a), k) * 1 = s[a]
    BY <2>3
  <2>5. RankAuthors(k, FALSE) = {Scored(authors[a].id, s[a], 1) : a \in A}
    <3> HIDE DEF s
    <3>1. RankAuthors(k, FALSE) = {Scored(authors[a].id, Total(WorksOf(a), k) * 1, 1) : a \in A}
      BY DEF RankAuthors
    <3> QED BY <2>4, <3>1
  <2> HIDE DEF s
  <2>6. Sound(RankAuthors(k, FALSE))
    BY <1>15, <2>3, <2>5
  <2> QED BY <1>16, <2>6 DEF Rows, k
<1>17. CASE l.list = "rank_by_works"
  <2> DEFINE s == [a \in DOMAIN authors |-> Cardinality(WorksOf(a))]
             A == {b \in DOMAIN authors : WorksOf(b) # {}}
  <2>1. IsFiniteSet(DOMAIN works)
    BY <1>2 DEF Numbered
  <2>2. \A a \in DOMAIN authors : s[a] \in Nat
    <3>1. \A a \in DOMAIN authors : WorksOf(a) \subseteq DOMAIN works
      BY DEF WorksOf
    <3> QED BY <2>1, <3>1, FS_Subset, FS_CardinalityType
  <2>3. RankAuthorsByWorks = {Scored(authors[a].id, s[a], 1) : a \in A}
    BY DEF RankAuthorsByWorks
  <2> HIDE DEF s
  <2>4. Sound(RankAuthorsByWorks)
    BY <1>15, <2>2, <2>3
  <2> QED BY <1>17, <2>4 DEF Rows
<1> QED BY <1>1, <1>4, <1>5, <1>6, <1>7, <1>8, <1>9, <1>10, <1>11, <1>12, <1>13,
           <1>14, <1>16, <1>17 DEF Lists, Rankings
-----------------------------------------------------------------------------
(* Pages *)

\* ORDER BY lists sound rows once each, in their order.
LEMMA RankedOnce ==
    ASSUME NEW A, Sound(A)
    PROVE  LET sorted == Ranked(A, LAMBDA q, r : q = r \/ Before(q, r))
           IN  /\ ListsOnce(sorted, A)
               /\ \A j, k \in 1 .. Cardinality(A) : j < k => Before(sorted[j], sorted[k])
<1> DEFINE N == 1 .. Cardinality(A)
           upTo == [r \in A |-> {q \in A : q = r \/ Before(q, r)}]
           rank == [r \in A |-> Cardinality(upTo[r])]
           sorted == Ranked(A, LAMBDA q, r : q = r \/ Before(q, r))
<1>1. \A r \in A : r.id \in Nat /\ r.num \in Nat /\ r.den = 1
  BY DEF Sound, RowType
<1>2. \A q, r \in A : /\ q.num * r.den = q.num
                      /\ Before(q, r) <=> \/ q.num > r.num
                                          \/ q.num = r.num /\ q.id < r.id
  BY <1>1 DEF Before
<1>3. \A q, r \in A : q.id = r.id => q = r
  BY DEF Sound
<1>4. /\ \A x \in A : upTo[x] \subseteq A /\ x \in upTo[x]
      /\ \A x, y \in A : x \in upTo[y] \/ y \in upTo[x]
      /\ \A x, y \in A : x \in upTo[y] => upTo[x] \subseteq upTo[y]
      /\ \A x, y \in A : x \in upTo[y] /\ y \in upTo[x] => x = y
  BY <1>1, <1>2, <1>3
<1>5. /\ Cardinality(A) \in Nat
      /\ \A x \in A : rank[x] \in N
      /\ \A x, y \in A : rank[x] = rank[y] => x = y
      /\ \A x, y \in A : x \in upTo[y] => rank[x] <= rank[y]
      /\ \A k \in N : \E x \in A : rank[x] = k
  <2> HIDE DEF upTo
  <2>1. IsFiniteSet(A)
    BY DEF Sound
  <2> QED BY <1>4, <2>1, RanksOnce
<1> DEFINE upToOf(x) == {y \in A : y = x \/ Before(y, x)}
<1>6. /\ sorted = [k \in N |-> CHOOSE x \in A : Cardinality(upToOf(x)) = k]
      /\ \A x \in A : rank[x] = Cardinality(upToOf(x))
  BY DEF Ranked
<1>7. \A x, y \in A : x \in upTo[y] <=> x = y \/ Before(x, y)
  OBVIOUS
<1> HIDE DEF N, rank, upTo, upToOf, sorted
<1>8. ASSUME NEW k \in N
      PROVE  sorted[k] \in A /\ rank[sorted[k]] = k
  <2>1. \E x \in A : Cardinality(upToOf(x)) = k
    BY <1>5, <1>6
  <2>2. sorted[k] = CHOOSE x \in A : Cardinality(upToOf(x)) = k
    BY <1>6
  <2>3. sorted[k] \in A /\ Cardinality(upToOf(sorted[k])) = k
    BY <2>1, <2>2, Zenon
  <2> QED BY <1>6, <2>3
<1>9. sorted \in [N -> A]
  BY <1>6, <1>8
<1>10. \A r \in A : sorted[rank[r]] = r
  BY <1>5, <1>8
<1>11. ListsOnce(sorted, A)
  BY <1>5, <1>8, <1>9, <1>10 DEF N, ListsOnce
<1>12. ASSUME NEW j \in N, NEW k \in N, j < k
       PROVE  Before(sorted[j], sorted[k])
  <2>1. sorted[k] \notin upTo[sorted[j]] /\ sorted[j] # sorted[k]
    BY <1>5, <1>8, <1>12 DEF N
  <2>2. sorted[j] \in upTo[sorted[k]]
    BY <1>4, <1>8, <2>1
  <2> QED BY <1>7, <1>8, <2>1, <2>2
<1> QED BY <1>11, <1>12 DEF N, sorted

\* A cursor with a whole score stands exactly behind the row it was made of.
LEMMA CursorStands ==
    ASSUME NEW q \in RowType, NEW r \in RowType
    PROVE  /\ EncodeCursor(q) \in [id : Nat, score : Nat]
           /\ After(r, EncodeCursor(q)) <=> Before(q, r)
<1> DEFINE c == EncodeCursor(q)
<1>1. /\ q.id \in Nat /\ q.num \in Nat /\ q.den = 1
      /\ r.id \in Nat /\ r.num \in Nat /\ r.den = 1
  BY DEF RowType
<1>2. q.num \div q.den = q.num
  BY <1>1
<1>3. c = [id |-> q.id, score |-> q.num]
  BY <1>2 DEF EncodeCursor
<1>4. c # Start
  <2>1. "score" \in DOMAIN c /\ "score" \notin DOMAIN Start
    BY <1>3 DEF Start
  <2> QED BY <2>1
<1>5. After(r, c) <=> r.num < q.num \/ (r.num = q.num /\ r.id > q.id)
  BY <1>1, <1>3, <1>4 DEF After
<1>6. Before(q, r) <=> q.num > r.num \/ (q.num = r.num /\ q.id < r.id)
  BY <1>1 DEF Before
<1> QED BY <1>1, <1>3, <1>5, <1>6

\* A page has rows after the cursor, each once; the next cursor is behind them
\* and before all other rows, and without a next cursor there are no others.
LEMMA PageExact ==
    ASSUME NEW l, Sound(Rows(l)), NEW c \in {Start} \cup [id : Nat, score : Nat]
    PROVE  LET A == {r \in Rows(l) : After(r, c)}
               rows == PageRows(l, c)
               page == SubSeq(rows, 1, Min({PageLimit, Len(rows)}))
               next == EncodeCursor(page[Len(page)])
           IN  /\ Len(rows) \in Nat
               /\ page \in Seq(A)
               /\ \A i, j \in 1 .. Len(page) : page[i] = page[j] => i = j
               /\ Len(rows) <= PageLimit =>
                      \A r \in A : \E i \in 1 .. Len(page) : page[i] = r
               /\ Len(rows) > PageLimit =>
                      /\ next \in [id : Nat, score : Nat]
                      /\ \A r \in Rows(l) :
                             After(r, next) <=> /\ r \in A
                                               /\ \A i \in 1 .. Len(page) : page[i] # r
<1> DEFINE A == {r \in Rows(l) : After(r, c)}
           n == Cardinality(A)
           sorted == Ranked(A, LAMBDA q, r : q = r \/ Before(q, r))
           rows == PageRows(l, c)
           page == SubSeq(rows, 1, Min({PageLimit, Len(rows)}))
           next == EncodeCursor(page[Len(page)])
<1>1. PageLimit \in Nat \ {0}
  BY ApiAssumption DEF ApiAssumption
<1>2. \A i, j \in Nat : Min({i, j}) = IF i <= j THEN i ELSE j
  BY DEF Min
<1>3. Sound(A)
  BY FS_Subset DEF Sound
<1>4. /\ n \in Nat /\ sorted \in [1 .. n -> A] /\ sorted \in Seq(A) /\ Len(sorted) = n
      /\ \A r \in A : \E k \in 1 .. n : sorted[k] = r
      /\ \A j, k \in 1 .. n : sorted[j] = sorted[k] => j = k
      /\ \A j, k \in 1 .. n : j < k => Before(sorted[j], sorted[k])
  <2>1. ListsOnce(sorted, A) /\ \A j, k \in 1 .. n : j < k => Before(sorted[j], sorted[k])
    BY <1>3, RankedOnce
  <2> HIDE DEF sorted, A
  <2> QED BY <2>1 DEF ListsOnce
<1>5. rows = SubSeq(sorted, 1, Min({PageLimit + 1, Len(sorted)}))
  BY DEF PageRows
<1>6. A \subseteq Rows(l) /\ A \subseteq RowType /\ Rows(l) \subseteq RowType
  BY DEF Sound
<1>7. \A r \in Rows(l) : r \in A <=> After(r, c)
  OBVIOUS
<1> HIDE DEF A, n, sorted, rows
<1> DEFINE m == IF PageLimit <= n THEN PageLimit ELSE n
<1>8. /\ rows \in Seq(A)
      /\ Len(rows) = IF PageLimit + 1 <= n THEN PageLimit + 1 ELSE n
      /\ \A i \in 1 .. Len(rows) : rows[i] = sorted[i]
  BY <1>1, <1>2, <1>4, <1>5
<1>9. Min({PageLimit, Len(rows)}) = m
  BY <1>1, <1>2, <1>4, <1>8
<1>10. page \in Seq(A) /\ Len(page) = m /\ \A i \in 1 .. m : page[i] = sorted[i]
  <2>1. m \in Nat /\ m <= Len(rows)
    BY <1>1, <1>4, <1>8
  <2> HIDE DEF m
  <2>2. page = SubSeq(rows, 1, m)
    BY <1>9
  <2> HIDE DEF page
  <2> QED BY <1>8, <2>1, <2>2
<1> HIDE DEF page
<1>11. \A i, j \in 1 .. Len(page) : page[i] = page[j] => i = j
  BY <1>1, <1>4, <1>10
<1>12. ASSUME Len(rows) <= PageLimit
       PROVE  \A r \in A : \E i \in 1 .. Len(page) : page[i] = r
  BY <1>1, <1>4, <1>8, <1>10, <1>12
<1>13. ASSUME Len(rows) > PageLimit
       PROVE  /\ next \in [id : Nat, score : Nat]
              /\ \A r \in Rows(l) :
                     After(r, next) <=> /\ r \in A
                                       /\ \A i \in 1 .. Len(page) : page[i] # r
  <2> DEFINE q == sorted[PageLimit]
  <2>0. PageLimit < n /\ m = PageLimit
    BY <1>1, <1>4, <1>8, <1>13
  <2>1. Len(page) = PageLimit /\ page[PageLimit] = q /\ q \in A
    BY <1>1, <1>4, <1>10, <2>0
  <2>2. next = EncodeCursor(q)
    BY <2>1
  <2>3. q \in RowType /\ After(q, c)
    BY <1>6, <1>7, <2>1
  <2>4. \A i \in 1 .. PageLimit : page[i] = sorted[i] /\ i \in 1 .. n
    BY <1>1, <1>4, <1>10, <2>0
  <2> HIDE DEF next, q, m
  <2>5. next \in [id : Nat, score : Nat]
    BY <2>2, <2>3, CursorStands
  <2>6. ASSUME NEW r \in Rows(l)
        PROVE  After(r, next) <=> /\ r \in A
                                 /\ \A i \in 1 .. Len(page) : page[i] # r
    <3>1. After(r, next) <=> Before(q, r)
      BY <1>6, <2>2, <2>3, CursorStands
    <3>2. /\ q.id \in Nat /\ q.num \in Nat /\ q.den = 1
          /\ r.id \in Nat /\ r.num \in Nat /\ r.den = 1
      BY <1>6, <2>3 DEF RowType
    <3>3. Before(q, r) => After(r, c)
      <4>1. CASE c = Start
        BY <4>1 DEF After
      <4>2. CASE c \in [id : Nat, score : Nat]
        BY <2>3, <3>2, <4>2 DEF After, Before, Start
      <4> QED BY <4>1, <4>2
    <3>4. ~Before(q, q) /\ (Before(q, r) => ~Before(r, q))
      BY <3>2 DEF Before
    <3>5. ASSUME Before(q, r), NEW i \in 1 .. Len(page), page[i] = r
          PROVE  FALSE
      <4>1. i \in 1 .. PageLimit /\ r = sorted[i] /\ PageLimit \in 1 .. n
        BY <1>1, <1>4, <2>0, <2>1, <2>4, <3>5
      <4>2. CASE i = PageLimit
        BY <3>4, <3>5, <4>1, <4>2 DEF q
      <4>3. CASE i < PageLimit
        <5>1. Before(sorted[i], sorted[PageLimit])
          BY <1>4, <2>4, <4>1, <4>3
        <5> QED BY <3>4, <3>5, <4>1, <5>1 DEF q
      <4> QED BY <1>1, <4>1, <4>2, <4>3
    <3>6. ASSUME r \in A, \A i \in 1 .. Len(page) : page[i] # r
          PROVE  Before(q, r)
      <4>1. PICK k \in 1 .. n : sorted[k] = r
        BY <1>4, <3>6
      <4>2. k > PageLimit
        BY <1>1, <1>4, <2>0, <2>1, <2>4, <3>6, <4>1
      <4> QED BY <1>1, <1>4, <2>0, <4>1, <4>2 DEF q
    <3> QED BY <1>7, <3>1, <3>3, <3>5, <3>6
  <2> QED BY <2>5, <2>6
<1>14. Len(rows) \in Nat
  BY <1>8
<1> HIDE DEF next
<1> QED BY <1>10, <1>11, <1>12, <1>13, <1>14 DEF A, rows, page, next
-----------------------------------------------------------------------------
(* Walks *)

\* Rows depend on the catalog only.
LEMMA RowsStay ==
    ASSUME UNCHANGED vars, NEW l
    PROVE  Rows(l)' = Rows(l)
<1>1. UNCHANGED <<record, obs, crawls, quarantine, works, links, tags, authors, snaps>>
  BY DEF vars, ledger, catalog
<1> QED BY <1>1 DEF Rows, ListSourceRecords, ListObservations, ListSchemaDefinitions,
       ListRuns, ListTasks, ListQuarantine, ListWorks, ListTagAggregates,
       ListAuthorAggregates, ListMetricHistory, RankWorks, RankAuthors,
       RankAuthorsByWorks, CountOf, WorksOf, Total, Coverage

LEMMA BeginKeeps ==
    ASSUME NEW l \in Listing, BeginWalk(l)
    PROVE  WalkInv'
<1>1. walk' = [NoWalk EXCEPT !.of = l, !.stable = Rows(l)] /\ UNCHANGED vars
  BY DEF BeginWalk
<1>2. l # Idle
  BY ApiAssumption DEF ApiAssumption, Idle, Lists, Rankings
<1>3. /\ walk' = [of |-> l, cursor |-> Start, shown |-> <<>>, stable |-> Rows(l),
                  over |-> FALSE]
      /\ Rows(l)' = Rows(l)
  BY <1>1, RowsStay DEF NoWalk
<1>4. \A r : After(r, Start) /\ ShownAt(r)' = {}
  BY <1>3 DEF After, ShownAt
<1>5. Unfractional'
  BY <1>3, <1>4 DEF Unfractional
<1> QED BY <1>2, <1>3, <1>5 DEF WalkInv, NoWalk

\* What a client was shown, page after page.
LEMMA ShownGrows ==
    ASSUME NEW p, walk.shown \in Seq(RowType), p \in Seq(RowType),
           walk'.shown = walk.shown \o p,
           \A i, j \in 1 .. Len(p) : p[i] = p[j] => i = j,
           NEW r
    PROVE  /\ walk'.shown \in Seq(RowType)
           /\ (\A j \in 1 .. Len(p) : p[j] # r) => ShownAt(r)' = ShownAt(r)
           /\ \A j \in 1 .. Len(p) :
                  p[j] = r => ShownAt(r)' = ShownAt(r) \cup {Len(walk.shown) + j}
<1> DEFINE n == Len(walk.shown)
           shown == walk.shown
           after == shown \o p
<1>1. n \in Nat /\ Len(p) \in Nat /\ after \in Seq(RowType) /\ Len(after) = n + Len(p)
  OBVIOUS
<1>2. \A i \in 1 .. n + Len(p) : after[i] = IF i <= n THEN shown[i] ELSE p[i - n]
  OBVIOUS
<1>3. ShownAt(r) = {i \in 1 .. n : shown[i] = r}
  BY DEF ShownAt
<1>4. ShownAt(r)' = {i \in 1 .. n + Len(p) : after[i] = r}
  BY <1>1 DEF ShownAt
<1> HIDE DEF n, shown, after
<1>5. ShownAt(r)' = ShownAt(r) \cup {i \in n + 1 .. n + Len(p) : p[i - n] = r}
  BY <1>1, <1>2, <1>3, <1>4
<1>6. ASSUME \A j \in 1 .. Len(p) : p[j] # r
      PROVE  ShownAt(r)' = ShownAt(r)
  <2>1. \A i \in n + 1 .. n + Len(p) : i - n \in 1 .. Len(p)
    BY <1>1
  <2> QED BY <1>5, <1>6, <2>1
<1>7. ASSUME NEW j \in 1 .. Len(p), p[j] = r
      PROVE  ShownAt(r)' = ShownAt(r) \cup {n + j}
  <2>1. \A i \in n + 1 .. n + Len(p) : i - n \in 1 .. Len(p)
    BY <1>1
  <2>2. ASSUME NEW i \in n + 1 .. n + Len(p), p[i - n] = r
        PROVE  i = n + j
    <3>1. i - n = j
      BY <1>7, <2>1, <2>2
    <3> QED BY <1>1, <3>1
  <2>3. n + j \in n + 1 .. n + Len(p) /\ (n + j) - n = j
    BY <1>1
  <2>4. {i \in n + 1 .. n + Len(p) : p[i - n] = r} = {n + j}
    BY <1>7, <2>2, <2>3
  <2> QED BY <1>5, <2>4
<1> QED BY <1>1, <1>6, <1>7 DEF n, after, shown

LEMMA PageKeeps ==
    ASSUME WalkInv, LedgerTyped, IdsInv, NextPage
    PROVE  WalkInv'
<1>0. PICK l, c : l = walk.of /\ c = walk.cursor
  OBVIOUS
<1> DEFINE A == {r \in Rows(l) : After(r, c)}
           rows == PageRows(l, c)
           page == SubSeq(rows, 1, Min({PageLimit, Len(rows)}))
           next == EncodeCursor(page[Len(page)])
<1>1. /\ walk.of # Idle /\ ~walk.over
      /\ walk' = [walk EXCEPT !.shown = @ \o page,
                              !.over = Len(rows) <= PageLimit,
                              !.cursor = IF Len(rows) > PageLimit THEN next ELSE @]
      /\ UNCHANGED vars
  BY <1>0 DEF NextPage
<1> HIDE DEF rows, page, next
<1>2. /\ l \in Listing /\ DOMAIN walk = DOMAIN NoWalk
      /\ "of" \in DOMAIN walk /\ "shown" \in DOMAIN walk /\ "over" \in DOMAIN walk
      /\ "cursor" \in DOMAIN walk /\ "stable" \in DOMAIN walk
  BY <1>0, <1>1 DEF WalkInv, NoWalk
<1>3. /\ walk'.of = l /\ walk'.stable = walk.stable
      /\ walk'.shown = walk.shown \o page /\ (walk'.over <=> Len(rows) <= PageLimit)
      /\ walk'.cursor = IF Len(rows) > PageLimit THEN next ELSE c
      /\ DOMAIN walk' = DOMAIN NoWalk
  BY <1>0, <1>1, <1>2
<1>4. Rows(l)' = Rows(l)
  BY <1>1, RowsStay
<1>5. ASSUME l.list # "rank_averages"
      PROVE  Unfractional'
  <2>1. Unfractional
    BY <1>0, <1>2, <1>5 DEF WalkInv
  <2>2. Sound(Rows(l))
    BY <1>2, <1>5, RowsSound
  <2>3. c \in {Start} \cup [id : Nat, score : Nat] /\ walk.shown \in Seq(RowType)
        /\ walk.stable \subseteq Rows(l)
    BY <1>0, <2>1 DEF Unfractional
  <2>4. /\ Len(rows) \in Nat
        /\ page \in Seq(A)
        /\ \A i, j \in 1 .. Len(page) : page[i] = page[j] => i = j
        /\ Len(rows) <= PageLimit =>
               \A r \in A : \E i \in 1 .. Len(page) : page[i] = r
        /\ Len(rows) > PageLimit =>
               /\ next \in [id : Nat, score : Nat]
               /\ \A r \in Rows(l) :
                      After(r, next) <=> /\ r \in A
                                        /\ \A i \in 1 .. Len(page) : page[i] # r
    BY <2>2, <2>3, PageExact DEF rows, page, next
  <2>5. page \in Seq(RowType) /\ \A j \in 1 .. Len(page) : page[j] \in A
    <3>1. A \subseteq RowType
      BY <2>2 DEF Sound
    <3> HIDE DEF A
    <3> QED BY <2>4, <3>1
  <2>6. \A r \in walk.stable : r \in A <=> After(r, c)
    BY <2>3
  <2> HIDE DEF A
  <2>7. walk'.shown \in Seq(RowType)
    BY <1>3, <2>3, <2>5
  <2>8. walk'.cursor \in {Start} \cup [id : Nat, score : Nat]
    BY <1>3, <2>3, <2>4
  <2>9. Len(rows) <= PageLimit \/ Len(rows) > PageLimit
    BY <2>4, ApiAssumption DEF ApiAssumption
  <2>10. ASSUME NEW r \in walk.stable
         PROVE  IF ~walk'.over /\ After(r, walk'.cursor) THEN ShownAt(r)' = {}
                ELSE \E i \in 1 .. Len(walk'.shown) : ShownAt(r)' = {i}
    <3>1. IF r \in A THEN ShownAt(r) = {}
          ELSE \E i \in 1 .. Len(walk.shown) : ShownAt(r) = {i}
      BY <1>0, <1>1, <2>1, <2>6 DEF Unfractional
    <3>2. /\ (\A j \in 1 .. Len(page) : page[j] # r) => ShownAt(r)' = ShownAt(r)
          /\ \A j \in 1 .. Len(page) :
                 page[j] = r => ShownAt(r)' = ShownAt(r) \cup {Len(walk.shown) + j}
      <4>1. PICK p : p = page
        OBVIOUS
      <4>2. /\ p \in Seq(RowType) /\ walk'.shown = walk.shown \o p
            /\ \A i, j \in 1 .. Len(p) : p[i] = p[j] => i = j
        BY <1>3, <2>4, <2>5, <4>1
      <4>3. /\ (\A j \in 1 .. Len(p) : p[j] # r) => ShownAt(r)' = ShownAt(r)
            /\ \A j \in 1 .. Len(p) :
                   p[j] = r => ShownAt(r)' = ShownAt(r) \cup {Len(walk.shown) + j}
        BY <2>3, <4>2, ShownGrows
      <4> QED BY <4>1, <4>3
    <3>3. /\ Len(walk'.shown) = Len(walk.shown) + Len(page)
          /\ Len(walk.shown) \in Nat /\ Len(page) \in Nat
      BY <1>3, <2>3, <2>5
    <3>4. ASSUME NEW j \in 1 .. Len(page), page[j] = r
          PROVE  \E i \in 1 .. Len(walk'.shown) : ShownAt(r)' = {i}
      <4>1. r \in A
        BY <2>5, <3>4
      <4>2. ShownAt(r)' = {Len(walk.shown) + j}
        BY <3>1, <3>2, <3>4, <4>1
      <4>3. Len(walk.shown) + j \in 1 .. Len(walk'.shown)
        BY <3>3
      <4> QED BY <4>2, <4>3
    <3>5. ASSUME r \notin A
          PROVE  \E i \in 1 .. Len(walk'.shown) : ShownAt(r)' = {i}
      <4>1. ShownAt(r)' = ShownAt(r)
        BY <2>5, <3>2, <3>5
      <4>2. PICK i \in 1 .. Len(walk.shown) : ShownAt(r) = {i}
        BY <3>1, <3>5
      <4>3. i \in 1 .. Len(walk'.shown)
        BY <3>3
      <4> QED BY <4>1, <4>2, <4>3
    <3>6. CASE Len(rows) <= PageLimit
      <4>1. walk'.over
        BY <1>3, <3>6
      <4> QED BY <2>4, <3>4, <3>5, <3>6, <4>1
    <3>7. CASE Len(rows) > PageLimit
      <4>1. walk'.cursor = next
        BY <1>3, <3>7
      <4>2. After(r, next) <=> r \in A /\ \A i \in 1 .. Len(page) : page[i] # r
        BY <2>3, <2>4, <3>7
      <4>3. CASE r \in A /\ \A i \in 1 .. Len(page) : page[i] # r
        <5>1. ShownAt(r)' = {}
          BY <3>1, <3>2, <4>3
        <5>2. ~walk'.over
          BY <1>3, <2>4, <3>7, ApiAssumption DEF ApiAssumption
        <5> QED BY <4>1, <4>2, <4>3, <5>1, <5>2
      <4>4. CASE ~(r \in A /\ \A i \in 1 .. Len(page) : page[i] # r)
        BY <3>4, <3>5, <4>1, <4>2, <4>4
      <4> QED BY <4>3, <4>4
    <3> QED BY <2>9, <3>6, <3>7
  <2>11. walk'.stable \subseteq Rows(l)'
    BY <1>3, <1>4, <2>3
  <2> QED BY <1>3, <2>7, <2>8, <2>10, <2>11 DEF Unfractional
<1> QED BY <1>0, <1>1, <1>2, <1>3, <1>5 DEF WalkInv

LEMMA IngestKeeps ==
    ASSUME WalkInv, IngestCommand
    PROVE  WalkInv'
<1>1. PICK l : /\ l = walk.of /\ ~walk.over
               /\ walk' = IF l = Idle THEN walk
                          ELSE [walk EXCEPT !.stable = @ \cap Rows(l)']
  BY DEF IngestCommand
<1>2. CASE l = Idle
  <2>1. walk' = walk /\ walk = NoWalk /\ Idle \notin Listing
    BY <1>1, <1>2, ApiAssumption DEF WalkInv, ApiAssumption, Lists, Rankings, Idle
  <2> QED BY <2>1 DEF WalkInv, NoWalk
<1>3. CASE l # Idle
  <2>1. /\ l \in Listing /\ DOMAIN walk = DOMAIN NoWalk
        /\ "of" \in DOMAIN walk /\ "shown" \in DOMAIN walk /\ "over" \in DOMAIN walk
        /\ "cursor" \in DOMAIN walk /\ "stable" \in DOMAIN walk
    BY <1>1, <1>3 DEF WalkInv, NoWalk
  <2>2. /\ walk'.of = l /\ walk'.stable = walk.stable \cap Rows(l)'
        /\ walk'.shown = walk.shown /\ walk'.over = walk.over
        /\ walk'.cursor = walk.cursor /\ DOMAIN walk' = DOMAIN NoWalk
    BY <1>1, <1>3, <2>1
  <2>3. ASSUME Unfractional
        PROVE  Unfractional'
    <3>1. \A r : ShownAt(r)' = ShownAt(r)
      BY <2>2 DEF ShownAt
    <3>2. \A r : After(r, walk'.cursor) <=> After(r, walk.cursor)
      BY <2>2
    <3>3. walk'.stable \subseteq Rows(l)' /\ walk'.stable \subseteq walk.stable
      BY <2>2
    <3>4. \A r \in walk'.stable :
              IF ~walk'.over /\ After(r, walk'.cursor) THEN ShownAt(r)' = {}
              ELSE \E i \in 1 .. Len(walk'.shown) : ShownAt(r)' = {i}
      BY <2>2, <2>3, <3>1, <3>2, <3>3 DEF Unfractional
    <3> QED BY <2>2, <2>3, <3>3, <3>4 DEF Unfractional
  <2> QED BY <1>1, <1>3, <2>1, <2>2, <2>3 DEF WalkInv
<1> QED BY <1>2, <1>3

LEMMA WalkStep ==
    WalkInv /\ HistoryInv /\ IdsInv /\ [ApiNext]_apivars => WalkInv'
<1> SUFFICES ASSUME WalkInv, HistoryInv, IdsInv, [ApiNext]_apivars
             PROVE  WalkInv'
  OBVIOUS
<1>1. CASE UNCHANGED apivars
  <2>1. UNCHANGED <<walk, vars>>
    BY <1>1 DEF apivars
  <2>2. \A l : Rows(l)' = Rows(l)
    BY <2>1, RowsStay
  <2>3. \A r : ShownAt(r)' = ShownAt(r)
    BY <2>1 DEF ShownAt
  <2> QED BY <2>1, <2>2, <2>3 DEF WalkInv, Unfractional
<1>2. CASE ApiNext
  BY <1>2, BeginKeeps, PageKeeps, IngestKeeps DEF ApiNext, HistoryInv
<1> QED BY <1>1, <1>2

\* A request and a command are steps of the catalog, or leave it alone.
LEMMA ApiStepsCatalog == [ApiNext]_apivars => [CatalogNext]_vars
BY DEF ApiNext, apivars, BeginWalk, NextPage, IngestCommand

\* Reading does not write: what holds of the catalog holds while clients walk.
THEOREM ReadersChangeNothing == ApiSpec => CatalogSpec
<1>1. ApiInit => Init
  BY DEF ApiInit
<1> QED BY <1>1, ApiStepsCatalog, PTL DEF ApiSpec, CatalogSpec

LEMMA IdsKept == HistoryInv /\ IdsInv /\ [CatalogNext]_vars => IdsInv'
<1>1. ASSUME IdsInv, UNCHANGED vars PROVE IdsInv'
  BY <1>1 DEF IdsInv, Numbered, vars, ledger, catalog
<1> QED BY <1>1, IdsStep DEF HistoryInv

LEMMA CatalogInvariants == CatalogSpec => [](HistoryInv /\ IdsInv)
BY HistoryInit, IdsInit, HistoryKept, IdsKept, PTL DEF CatalogSpec

\* A client that follows next_cursor to the end is shown every row that did not
\* move exactly once, in every listing but that of averages, for any page size
\* and whatever is ingested between its pages.
THEOREM WalksAreExact == ApiSpec => []WalkIsExact
<1>1. ApiInit => Init /\ WalkInv
  <2>1. ApiInit => Init /\ walk = NoWalk
    BY DEF ApiInit
  <2>2. Idle \notin Listing
    BY ApiAssumption DEF ApiAssumption, Lists, Rankings, Idle
  <2>3. walk = NoWalk => walk.of = Idle /\ walk.over = FALSE
    BY DEF NoWalk
  <2> QED BY <2>1, <2>2, <2>3 DEF WalkInv
<1>2. WalkInv => WalkIsExact
  <2> SUFFICES ASSUME WalkInv, walk.of.list # "rank_averages", NEW r \in walk.stable
               PROVE  /\ Cardinality(ShownAt(r)) <= 1
                      /\ walk.over => ShownAt(r) # {}
    BY DEF WalkIsExact, ShownOnce
  <2>1. walk.of # Idle
    BY DEF WalkInv, NoWalk
  <2>2. IF ~walk.over /\ After(r, walk.cursor) THEN ShownAt(r) = {}
        ELSE \E i \in 1 .. Len(walk.shown) : ShownAt(r) = {i}
    BY <2>1 DEF WalkInv, Unfractional
  <2>3. CASE ShownAt(r) = {} /\ ~walk.over
    <3>1. Cardinality(ShownAt(r)) = 0
      BY <2>3, FS_EmptySet
    <3> QED BY <2>3, <3>1
  <2>4. CASE \E i \in 1 .. Len(walk.shown) : ShownAt(r) = {i}
    <3>1. PICK i : ShownAt(r) = {i}
      BY <2>4
    <3>2. Cardinality(ShownAt(r)) = 1
      BY <3>1, FS_Singleton
    <3> QED BY <3>1, <3>2
  <2> QED BY <2>2, <2>3, <2>4
<1>3. CatalogSpec => [](HistoryInv /\ IdsInv)
  BY CatalogInvariants
<1>4. WalkInv /\ (HistoryInv /\ IdsInv) /\ [ApiNext]_apivars => WalkInv'
  BY WalkStep
<1> QED BY <1>1, <1>2, <1>3, <1>4, ReadersChangeNothing, PTL DEF ApiSpec
-----------------------------------------------------------------------------
(* The review queue *)

\* An open item is a record of its error; what is new is asked once.
LEMMA QuarantineGrows ==
    ASSUME IdsInv, NEW m \in Manifest, NEW p, NEW fresh,
           fresh = {s \in Refused(m, p) : Item(m, p, s) \notin Range(quarantine)}
                       \cup (DOMAIN m \ Answered(m))
    PROVE  LET n == Len(quarantine)  q == Quarantined(m, p) IN
           /\ n \in Nat /\ Len(q) \in Nat /\ n <= Len(q)
           /\ \A i \in 1 .. n : q[i] = quarantine[i]
           /\ \A s \in fresh : \E i \in n + 1 .. Len(q) : q[i] = Item(m, p, s)
           /\ \A i \in n + 1 .. Len(q) : \E s \in fresh : q[i] = Item(m, p, s)
           /\ \A i, j \in n + 1 .. Len(q) : q[i].source = q[j].source => i = j
<1> DEFINE n == Len(quarantine)
           list == Listed(fresh)
           item == [s \in fresh |-> Item(m, p, s)]
           c == Cardinality(fresh)
           added == [i \in 1 .. Len(list) |-> Item(m, p, list[i])]
           q == quarantine \o added
<1>1. fresh \subseteq Range(Order)
  BY CatalogAssumption DEF CatalogAssumption, Range, Refused, Answered
<1>2. /\ c \in Nat /\ list \in [1 .. c -> fresh]
      /\ \A s \in fresh : \E k \in 1 .. c : list[k] = s
      /\ \A j, k \in 1 .. c : list[j] = list[k] => j = k
  BY <1>1, ListedOnce DEF ListsOnce
<1>3. Quarantined(m, p) = q
  BY DEF Quarantined
<1>4. \A s : item[s] = Item(m, p, s) \/ s \notin fresh
  OBVIOUS
<1>5. \A s \in fresh : item[s].source = s
  BY DEF Item
<1> HIDE DEF list, c, item
<1>6. Len(list) = c
  BY <1>2
<1>7. added = [i \in 1 .. c |-> item[list[i]]]
  BY <1>2, <1>4, <1>6
<1> HIDE DEF added
<1>8. added \in Seq(Range(added)) /\ Len(added) = c
  <2>1. \A i \in 1 .. c : added[i] \in Range(added)
    BY <1>7 DEF Range
  <2> QED BY <1>2, <1>7, <2>1
<1>9. quarantine \in Seq(Range(quarantine)) /\ n \in Nat
  <2> DEFINE E == [source : Source, code : ErrorCodes,
                   obs : Observation \cup {NoObservation}]
  <2>1. quarantine \in Seq(E)
    BY DEF IdsInv
  <2> HIDE DEF E
  <2>2. \A i \in 1 .. n : quarantine[i] \in Range(quarantine)
    BY <2>1 DEF Range
  <2> QED BY <2>1, <2>2
<1>10. /\ Len(q) = n + c
       /\ \A i \in 1 .. n : q[i] = quarantine[i]
       /\ \A i \in n + 1 .. n + c : i - n \in 1 .. c /\ q[i] = item[list[i - n]]
       /\ \A k \in 1 .. c : n + k \in n + 1 .. n + c /\ q[n + k] = item[list[k]]
  <2>1. Len(q) = n + c
    BY <1>2, <1>8, <1>9
  <2>2. \A i \in 1 .. n : q[i] = quarantine[i]
    BY <1>2, <1>8, <1>9
  <2>3. \A i \in n + 1 .. n + c : i - n \in 1 .. c /\ q[i] = added[i - n]
    BY <1>2, <1>8, <1>9
  <2>4. \A i \in n + 1 .. n + c : i - n \in 1 .. c /\ q[i] = item[list[i - n]]
    BY <1>7, <2>3
  <2>5. \A k \in 1 .. c : n + k \in n + 1 .. n + c /\ (n + k) - n = k
    BY <1>2, <1>9
  <2> HIDE DEF q, n
  <2>6. \A k \in 1 .. c : q[n + k] = item[list[k]]
    BY <2>4, <2>5
  <2> QED BY <2>1, <2>2, <2>4, <2>5, <2>6
<1> HIDE DEF q
<1>11. ASSUME NEW s \in fresh
       PROVE  \E i \in n + 1 .. Len(q) : q[i] = Item(m, p, s)
  <2>1. PICK k \in 1 .. c : list[k] = s
    BY <1>2
  <2> QED BY <1>4, <1>10, <2>1
<1>12. ASSUME NEW i \in n + 1 .. Len(q)
       PROVE  /\ i - n \in 1 .. c /\ list[i - n] \in fresh
              /\ q[i] = Item(m, p, list[i - n])
              /\ q[i].source = list[i - n]
  <2>1. i - n \in 1 .. c /\ q[i] = item[list[i - n]]
    BY <1>10
  <2>2. list[i - n] \in fresh
    BY <1>2, <2>1
  <2> QED BY <1>4, <1>5, <2>1, <2>2
<1>13. ASSUME NEW i \in n + 1 .. Len(q), NEW j \in n + 1 .. Len(q), q[i].source = q[j].source
       PROVE  i = j
  <2>1. i - n = j - n
    BY <1>2, <1>12, <1>13
  <2> QED BY <1>9, <2>1
<1>14. n <= Len(q) /\ Len(q) \in Nat
  BY <1>2, <1>9, <1>10
<1> HIDE DEF n
<1> QED BY <1>3, <1>9, <1>10, <1>11, <1>12, <1>13, <1>14 DEF n

RowsRead == \A o \in DOMAIN obs : obs[o] = [id |-> obs[o].id, status |-> obs[o].status]

LEMMA RowsReadStep ==
    ASSUME RowsRead, CatalogNext
    PROVE  RowsRead'
<1>1. PICK m \in Manifest, p \in Policy :
          IngestOnly(m, p) \/ IngestAndProject(m, p) \/ RollBack(m, p)
  BY DEF CatalogNext
<1>2. CASE RollBack(m, p)
  BY <1>2 DEF RollBack, ledger, RowsRead
<1>3. CASE Ingest(m, p)
  <2>1. obs' = Observations(m, p)
    BY <1>3 DEF Ingest
  <2>2. ASSUME NEW o \in DOMAIN obs'
        PROVE  obs'[o] = [id |-> obs'[o].id, status |-> obs'[o].status]
    <3>1. \/ obs'[o] = [id |-> NewId(obs, FreshObservations(m), o),
                       status |-> Validate(p, o.body)]
          \/ /\ o \in DOMAIN obs
             /\ \/ obs'[o] = [obs[o] EXCEPT !.status = Validate(p, o.body)]
                \/ obs'[o] = obs[o]
      BY <2>1, <2>2, Zenon DEF Observations, Over
    <3>2. ASSUME NEW i, NEW v, NEW w
          PROVE  [[id |-> i, status |-> v] EXCEPT !.status = w] = [id |-> i, status |-> w]
      OBVIOUS
    <3>3. o \in DOMAIN obs => obs[o] = [id |-> obs[o].id, status |-> obs[o].status]
      BY DEF RowsRead
    <3>4. CASE obs'[o] = [id |-> NewId(obs, FreshObservations(m), o),
                          status |-> Validate(p, o.body)]
      BY <3>4
    <3>5. CASE o \in DOMAIN obs /\ obs'[o] = [obs[o] EXCEPT !.status = Validate(p, o.body)]
      <4>1. obs'[o] = [id |-> obs[o].id, status |-> Validate(p, o.body)]
        BY <3>2, <3>3, <3>5
      <4> QED BY <4>1
    <3>6. CASE o \in DOMAIN obs /\ obs'[o] = obs[o]
      BY <3>3, <3>6
    <3> QED BY <3>1, <3>4, <3>5, <3>6
  <2> QED BY <2>2 DEF RowsRead
<1> QED BY <1>1, <1>2, <1>3 DEF IngestOnly, IngestAndProject

LEMMA ReviewsStep ==
    ASSUME IdsInv, RowsRead, ReviewsAreQueued, CatalogNext
    PROVE  ReviewsAreQueued'
<1>1. PICK m \in Manifest, p \in Policy :
          IngestOnly(m, p) \/ IngestAndProject(m, p) \/ RollBack(m, p)
  BY DEF CatalogNext
<1>2. CASE RollBack(m, p)
  <2>1. UNCHANGED <<obs, quarantine>>
    BY <1>2 DEF RollBack, ledger
  <2> QED BY <2>1 DEF ReviewsAreQueued
<1>3. CASE Ingest(m, p)
  <2> DEFINE n == Len(quarantine)
             q == Quarantined(m, p)
             N == Len(q)
             fresh == {s \in Refused(m, p) : Item(m, p, s) \notin Range(quarantine)}
                          \cup (DOMAIN m \ Answered(m))
  <2>1. obs' = Observations(m, p) /\ quarantine' = q
    BY <1>3 DEF Ingest
  <2>2. /\ n \in Nat /\ N \in Nat /\ n <= N
        /\ \A i \in 1 .. n : q[i] = quarantine[i]
        /\ \A s \in fresh : \E i \in n + 1 .. N : q[i] = Item(m, p, s)
        /\ \A i \in n + 1 .. N : \E s \in fresh : q[i] = Item(m, p, s)
        /\ \A i, j \in n + 1 .. N : q[i].source = q[j].source => i = j
    BY QuarantineGrows
  <2>3. \A e \in Range(quarantine) : \E i \in 1 .. n : quarantine[i] = e
    <3> DEFINE E == [source : Source, code : ErrorCodes,
                     obs : Observation \cup {NoObservation}]
    <3>1. quarantine \in Seq(E)
      BY DEF IdsInv
    <3> HIDE DEF E
    <3> QED BY <3>1 DEF Range
  <2>4. \A i \in 1 .. n : quarantine[i] \in Range(quarantine)
    <3> DEFINE E == [source : Source, code : ErrorCodes,
                     obs : Observation \cup {NoObservation}]
    <3>1. quarantine \in Seq(E)
      BY DEF IdsInv
    <3> HIDE DEF E
    <3> QED BY <3>1 DEF Range
  <2> HIDE DEF q, fresh, n
  <2>5. ASSUME NEW s \in Refused(m, p)
        PROVE  \E i \in 1 .. N : q[i].obs = Observed(m)[s]
    <3>1. Item(m, p, s).obs = Observed(m)[s]
      BY DEF Item, Refused
    <3>2. CASE Item(m, p, s) \in Range(quarantine)
      <4>1. PICK i \in 1 .. n : quarantine[i] = Item(m, p, s)
        BY <2>3, <3>2
      <4> QED BY <2>2, <3>1, <4>1
    <3>3. CASE Item(m, p, s) \notin Range(quarantine)
      <4>1. s \in fresh
        BY <3>3 DEF fresh
      <4>2. PICK i \in n + 1 .. N : q[i] = Item(m, p, s)
        BY <2>2, <4>1
      <4> QED BY <2>2, <3>1, <4>2
    <3> QED BY <3>2, <3>3
  <2>6. ASSUME NEW o \in DOMAIN obs', obs'[o].status = "quarantined"
        PROVE  \E i \in 1 .. N : q[i].obs = o
    <3>1. CASE o \in DOMAIN obs /\ obs'[o] = obs[o]
      <4>1. PICK i \in 1 .. n : quarantine[i].obs = o
        BY <2>6, <3>1 DEF ReviewsAreQueued, n
      <4> QED BY <2>2, <4>1
    <3>2. CASE ~(o \in DOMAIN obs /\ obs'[o] = obs[o])
      <4>1. o \in Range(Observed(m))
        BY <2>1, <2>6, <3>2, Zenon DEF Observations, Over
      <4>2. PICK s \in Answered(m) : o = Observed(m)[s]
        BY <4>1 DEF Range, Observed
      <4>3. o.body = m[s].body
        BY <4>2 DEF Observed
      <4>4. \/ obs'[o].status = Validate(p, o.body)
            \/ o \in DOMAIN obs /\ obs'[o] = obs[o]
        <5>1. obs'[o] = IF o \notin DOMAIN obs
                        THEN [id |-> NewId(obs, FreshObservations(m), o),
                              status |-> Validate(p, o.body)]
                        ELSE IF p.checked /\ obs[o].status = "pending"
                        THEN [obs[o] EXCEPT !.status = Validate(p, o.body)]
                        ELSE obs[o]
          BY <2>1, <4>1, Zenon DEF Observations, Over
        <5>2. CASE o \in DOMAIN obs /\ p.checked /\ obs[o].status = "pending"
          <6>1. obs'[o] = [obs[o] EXCEPT !.status = Validate(p, o.body)]
            BY <5>1, <5>2
          <6>2. obs[o] = [id |-> obs[o].id, status |-> obs[o].status]
            BY <5>2 DEF RowsRead
          <6>3. obs'[o].status = Validate(p, o.body)
            BY <6>1, <6>2
          <6> QED BY <6>3
        <5> QED BY <5>1, <5>2
      <4>5. s \in Refused(m, p)
        BY <2>6, <3>2, <4>2, <4>3, <4>4 DEF Refused
      <4> QED BY <2>5, <4>2, <4>5
    <3> QED BY <3>1, <3>2
  <2>7. ASSUME NEW i \in 1 .. N, NEW j \in 1 .. N, q[i] = q[j], q[i].obs # NoObservation
        PROVE  i = j
    <3>1. ASSUME NEW k \in 1 .. n, NEW l \in n + 1 .. N, q[k] = q[l], q[l].obs # NoObservation
          PROVE  FALSE
      <4>1. PICK s \in fresh : q[l] = Item(m, p, s)
        BY <2>2
      <4>2. s \in Answered(m)
        BY <3>1, <4>1 DEF Item
      <4>3. Item(m, p, s) \notin Range(quarantine)
        BY <4>1, <4>2 DEF fresh
      <4>4. q[k] = quarantine[k]
        BY <2>2
      <4>5. q[k] \in Range(quarantine)
        BY <2>4, <4>4
      <4> QED BY <3>1, <4>1, <4>3, <4>5
    <3>2. CASE i \in 1 .. n /\ j \in 1 .. n
      BY <2>2, <2>7, <3>2 DEF ReviewsAreQueued, n
    <3>3. CASE i \in n + 1 .. N /\ j \in n + 1 .. N
      BY <2>2, <2>7, <3>3
    <3>4. \A k \in 1 .. N : k \in 1 .. n \/ k \in n + 1 .. N
      BY <2>2
    <3> QED BY <2>7, <3>1, <3>2, <3>3, <3>4
  <2> QED BY <2>1, <2>6, <2>7 DEF ReviewsAreQueued
<1> QED BY <1>1, <1>2, <1>3 DEF IngestOnly, IngestAndProject

\* THEOREM (_persist_validation_quarantine): whatever is replayed, and however the
\* policies change between commands, an observation in quarantine has an open
\* item, and no error of it has two.
THEOREM ReviewsStayQueued == CatalogSpec => []ReviewsAreQueued
<1>1. Init => RowsRead /\ ReviewsAreQueued
  BY DEF Init, Empty, RowsRead, ReviewsAreQueued
<1>2. ASSUME RowsRead, ReviewsAreQueued, UNCHANGED vars
      PROVE  RowsRead' /\ ReviewsAreQueued'
  BY <1>2 DEF vars, ledger, RowsRead, ReviewsAreQueued
<1>3. IdsInv /\ (RowsRead /\ ReviewsAreQueued) /\ [CatalogNext]_vars
          => (RowsRead /\ ReviewsAreQueued)'
  BY <1>2, RowsReadStep, ReviewsStep
<1> QED BY <1>1, <1>3, CatalogInvariants, PTL DEF CatalogSpec
-----------------------------------------------------------------------------
(* Rounded shares *)

LEMMA QuotientGrows ==
    ASSUME NEW m \in Nat, NEW n \in Nat, NEW d \in Nat, d > 0, m <= n
    PROVE  m \div d \in Nat /\ m \div d <= n \div d
OBVIOUS

LEMMA FullTyped ==
    FullShare \in Nat /\ FullShare > 0
BY SMT DEF FullShare

\* A whole, with half a divisor added to round it, is divided exactly.
LEMMA RoundedWhole ==
    ASSUME NEW m \in Nat, m > 0, NEW n \in Nat
    PROVE  (m * n + m \div 2) \div m = n
OBVIOUS

LEMMA TimesGrows ==
    ASSUME NEW m \in Nat, NEW n \in Nat, NEW d \in Nat, m <= n
    PROVE  m * d \in Nat /\ n * d \in Nat /\ m * d <= n * d
OBVIOUS

\* The share of a value in the greatest one is whole for the greatest itself and
\* does not fall as the value grows.
LEMMA RelativeShares ==
    ASSUME NEW m \in Nat, NEW v \in Nat, v <= m
    PROVE  /\ RelativeBasisPoints(v, m) \in 0 .. FullShare
           /\ m > 0 => RelativeBasisPoints(m, m) = FullShare
           /\ \A u \in Nat : u <= v => RelativeBasisPoints(u, m) <= RelativeBasisPoints(v, m)
<1>1. FullShare \in Nat /\ FullShare > 0 /\ 0 \in 0 .. FullShare
  <2>1. \A k \in Nat : 0 \in 0 .. k
    OBVIOUS
  <2> QED BY <2>1, FullTyped
<1>2. CASE m = 0
  BY <1>1, <1>2 DEF RelativeBasisPoints
<1>3. CASE m > 0
  <2> DEFINE part(n) == n * FullShare + m \div 2
  <2>1. m \div 2 \in Nat /\ \A n \in Nat : part(n) \in Nat
    BY <1>1
  <2>2. part(m) \div m = FullShare
    BY <1>1, <1>3, RoundedWhole
  <2>3. \A n \in Nat : RelativeBasisPoints(n, m) = part(n) \div m
    BY <1>3 DEF RelativeBasisPoints, BasisPoints
  <2>4. part(v) <= part(m) /\ \A u \in Nat : u <= v => part(u) <= part(v)
    <3>1. \A x, y \in Nat : x <= y => x * FullShare \in Nat /\ y * FullShare \in Nat
                                       /\ x * FullShare <= y * FullShare
      BY <1>1, TimesGrows
    <3> QED BY <2>1, <3>1
  <2> HIDE DEF part
  <2>5. \A x, y \in Nat : x <= y => x \div m \in Nat /\ x \div m <= y \div m
    BY <1>3, QuotientGrows
  <2>6. part(v) \div m \in 0 .. FullShare
    <3>1. part(v) \in Nat /\ part(m) \in Nat
      BY <2>1
    <3>2. part(v) \div m \in Nat /\ part(v) \div m <= part(m) \div m
      BY <2>4, <2>5, <3>1
    <3> HIDE DEF RelativeBasisPoints
    <3> DEFINE q == part(v) \div m
    <3>3. q \in Nat /\ q <= FullShare
      BY <2>2, <3>2
    <3> HIDE DEF q
    <3>4. q \in 0 .. FullShare
      BY <1>1, <3>3
    <3> QED BY <3>4 DEF q
  <2>7. \A u \in Nat : u <= v => part(u) \div m <= part(v) \div m
    BY <2>1, <2>4, <2>5
  <2> QED BY <1>3, <2>2, <2>3, <2>6, <2>7
<1> QED BY <1>2, <1>3

\* A finite set of naturals has a greatest.
LEMMA GreatestNat ==
    ASSUME NEW S, S \subseteq Nat, S # {}, IsFiniteSet(S)
    PROVE  Max(S) \in S /\ \A n \in S : n <= Max(S)
<1> DEFINE T == {[at |-> n] : n \in S}
<1>1. IsFiniteSet(T) /\ T # {} /\ \A o \in T : o.at \in Nat
  <2> DEFINE f == [n \in S |-> [at |-> n]]
  <2>1. f \in Surjection(S, T)
    BY DEF Surjection
  <2>2. IsFiniteSet(T)
    <3> HIDE DEF f, T
    <3> QED BY <2>1, FS_Surjection
  <2> HIDE DEF f
  <2>3. PICK n \in S : TRUE
    OBVIOUS
  <2>4. [at |-> n] \in T
    OBVIOUS
  <2>5. ASSUME NEW o \in T
        PROVE  o.at \in Nat
    <3>1. PICK k \in S : o = [at |-> k]
      OBVIOUS
    <3> QED BY <3>1
  <2> QED BY <2>2, <2>4, <2>5
<1>2. Newest(T) \in T /\ \A q \in T : q.at <= Newest(T).at
  <2> HIDE DEF T
  <2> QED BY <1>1, NewestExists
<1>3. PICK n \in S : Newest(T) = [at |-> n]
  BY <1>2
<1>4. \A k \in S : k <= n
  <2> SUFFICES ASSUME NEW k \in S PROVE k <= n
    OBVIOUS
  <2> DEFINE o == [at |-> k]
  <2>1. o \in T /\ o.at = k /\ Newest(T).at = n
    BY <1>3
  <2> HIDE DEF T, o
  <2> QED BY <1>2, <2>1
<1>5. \E x \in S : \A y \in S : x >= y
  BY <1>3, <1>4
<1>6. Max(S) \in S /\ \A y \in S : Max(S) >= y
  BY <1>5, Zenon DEF Max
<1> QED BY <1>6
-----------------------------------------------------------------------------
(* Influence *)

LEMMA AverageTyped ==
    ASSUME LedgerTyped, IdsInv, NEW a, NEW k \in Metric, Coverage(WorksOf(a), k) > 0
    PROVE  Average(a, k) \in Nat
<1> DEFINE W == WorksOf(a)  c == Coverage(W, k)
<1>1. W \in SUBSET DOMAIN works /\ IsFiniteSet(W)
  <2>1. W \in SUBSET DOMAIN works
    BY DEF WorksOf
  <2> QED BY <2>1, FS_Subset DEF IdsInv, Numbered
<1>2. c \in Nat
  BY <1>1, FS_Subset, FS_CardinalityType DEF Coverage
<1>3. Total(W, k) \in Nat
  BY <1>1, TotalsTyped
<1>4. Average(a, k) = (Total(W, k) * 100) \div c /\ c > 0
  BY DEF Average
<1> HIDE DEF W, c
<1> DEFINE t == Total(W, k) * 100
<1>5. t \in Nat
  BY <1>3
<1> HIDE DEF t
<1>6. t \div c \in Nat
  BY <1>2, <1>4, <1>5, QuotientGrows
<1> QED BY <1>4, <1>6 DEF t

\* What the score of an author is made of.
LEMMA InfluenceTyped ==
    ASSUME LedgerTyped, IdsInv, NEW a \in InfluenceSample
    PROVE  InfluenceInput(a) \in [{"bookmark", "like", "production"} -> Nat]
<1> DEFINE W == WorksOf(a)
<1>1. /\ W # {} /\ W \in SUBSET DOMAIN works
      /\ Coverage(W, "bookmarks") = Cardinality(W) /\ Coverage(W, "likes") = Cardinality(W)
  BY DEF InfluenceSample, WorksOf
<1>2. IsFiniteSet(W)
  BY <1>1, FS_Subset DEF IdsInv, Numbered
<1>3. Cardinality(W) \in Nat /\ Cardinality(W) > 0
  <2>1. Cardinality(W) \in Nat /\ Cardinality(W) # 0
    BY <1>1, <1>2, FS_CardinalityType, FS_EmptySet
  <2> QED BY <2>1
<1>4. Average(a, "bookmarks") \in Nat /\ Average(a, "likes") \in Nat
  BY <1>1, <1>3, AverageTyped DEF Metric
<1> HIDE DEF W
<1> QED BY <1>3, <1>4 DEF InfluenceInput, W

LEMMA WeightsTyped ==
    /\ Weights.bookmark \in Nat /\ Weights.like \in Nat /\ Weights.production \in Nat
    /\ Weights.bookmark + Weights.like + Weights.production = FullShare
<1>1. /\ Weights \in [{"bookmark", "like", "production"} -> 0 .. FullShare]
      /\ Weights.bookmark + Weights.like + Weights.production = FullShare
  BY AnalyticsAssumption, Zenon DEF AnalyticsAssumption
<1>2. Weights.bookmark \in 0 .. FullShare
  BY <1>1
<1>3. Weights.like \in 0 .. FullShare
  BY <1>1
<1>4. Weights.production \in 0 .. FullShare
  BY <1>1
<1> QED BY <1>1, <1>2, <1>3, <1>4

\* The weighted score of three shares.
LEMMA WeightedShare ==
    ASSUME NEW x \in 0 .. FullShare, NEW y \in 0 .. FullShare, NEW z \in 0 .. FullShare,
           NEW u \in 0 .. x, NEW v \in 0 .. y, NEW w \in 0 .. z
    PROVE  LET score(p, q, r) == (p * Weights.bookmark + q * Weights.like
                                     + r * Weights.production + FullShare \div 2) \div FullShare
           IN  /\ score(x, y, z) \in 0 .. FullShare
               /\ score(u, v, w) <= score(x, y, z)
               /\ score(FullShare, FullShare, FullShare) = FullShare
<1> DEFINE F == FullShare  a == Weights.bookmark  b == Weights.like  c == Weights.production
           h == FullShare \div 2
<1>1. /\ a \in Nat /\ b \in Nat /\ c \in Nat /\ a + b + c = F
      /\ F \in Nat /\ F > 0 /\ h \in Nat
  <2>1. F \in Nat /\ F > 0
    BY FullTyped
  <2>2. h = F \div 2
    OBVIOUS
  <2> HIDE DEF h, F
  <2>3. h \in Nat
    BY <2>1, <2>2
  <2> QED BY <2>1, <2>3, WeightsTyped DEF F
<1>2. /\ x \in 0 .. F /\ y \in 0 .. F /\ z \in 0 .. F
      /\ h = F \div 2
  OBVIOUS
<1> HIDE DEF a, b, c, F, h
<1>3. /\ u * a <= x * a /\ v * b <= y * b /\ w * c <= z * c
      /\ x * a <= F * a /\ y * b <= F * b /\ z * c <= F * c
      /\ u * a \in Nat /\ v * b \in Nat /\ w * c \in Nat
      /\ x * a \in Nat /\ y * b \in Nat /\ z * c \in Nat
      /\ F * a \in Nat /\ F * b \in Nat /\ F * c \in Nat
  <2>1. \A m, n, d \in Nat : m <= n => m * d \in Nat /\ n * d \in Nat /\ m * d <= n * d
    BY TimesGrows
  <2>2. /\ u \in Nat /\ v \in Nat /\ w \in Nat /\ x \in Nat /\ y \in Nat /\ z \in Nat
        /\ u <= x /\ v <= y /\ w <= z /\ x <= F /\ y <= F /\ z <= F
    BY <1>1, <1>2
  <2> QED BY <1>1, <2>1, <2>2
<1> DEFINE low == u * a + v * b + w * c + h
           high == x * a + y * b + z * c + h
           full == F * a + F * b + F * c + h
<1>4. full = F * F + h
  <2>1. F * a + F * b + F * c = F * (a + b + c)
    BY <1>1
  <2> QED BY <1>1, <2>1
<1>5. /\ low \in Nat /\ high \in Nat /\ full \in Nat /\ low <= high /\ high <= full
  <2> DEFINE ua == u * a  vb == v * b  wc == w * c  xa == x * a  yb == y * b  zc == z * c
             a1 == F * a  b1 == F * b  c1 == F * c
  <2>2. /\ a1 \in Nat /\ b1 \in Nat /\ c1 \in Nat
        /\ ua <= xa /\ vb <= yb /\ wc <= zc /\ xa <= a1 /\ yb <= b1 /\ zc <= c1
        /\ ua \in Nat /\ vb \in Nat /\ wc \in Nat /\ xa \in Nat /\ yb \in Nat /\ zc \in Nat
    BY <1>3
  <2>4. low = ua + vb + wc + h /\ high = xa + yb + zc + h /\ full = a1 + b1 + c1 + h
    OBVIOUS
  <2> HIDE DEF ua, vb, wc, xa, yb, zc, a1, b1, c1, low, high, full
  <2> QED BY <1>1, <2>2, <2>4
<1> HIDE DEF low, high, full
<1>6. full \div F = F
  BY <1>1, <1>4, <1>2, RoundedWhole
<1>7. /\ low \div F <= high \div F
      /\ high \div F \in Nat /\ high \div F <= full \div F
  BY <1>1, <1>5, QuotientGrows
<1>8. high \div F \in 0 .. F
  BY <1>1, <1>6, <1>7
<1>9. /\ low = u * Weights.bookmark + v * Weights.like + w * Weights.production + FullShare \div 2
      /\ high = x * Weights.bookmark + y * Weights.like + z * Weights.production + FullShare \div 2
      /\ full = FullShare * Weights.bookmark + FullShare * Weights.like
                    + FullShare * Weights.production + FullShare \div 2
  BY Zenon DEF a, b, c, low, high, full, F, h
<1>10. F = FullShare
  BY DEF F
<1> QED BY <1>6, <1>7, <1>8, <1>9, <1>10, Zenon

\* A score is a share of the whole that grows with every component and is whole for
\* the one who leads in all of them.
LEMMA ScoreGrows ==
    ASSUME NEW top \in [{"bookmark", "like", "production"} -> Nat],
           NEW x \in [{"bookmark", "like", "production"} -> Nat],
           NEW y \in [{"bookmark", "like", "production"} -> Nat],
           \A c \in {"bookmark", "like", "production"} : x[c] <= y[c] /\ y[c] <= top[c]
    PROVE  /\ ScoreOne(y, top) \in 0 .. FullShare
           /\ ScoreOne(x, top) <= ScoreOne(y, top)
           /\ (\A c \in {"bookmark", "like", "production"} : y[c] = top[c] /\ y[c] > 0)
                  => ScoreOne(y, top) = FullShare
<1> DEFINE part(v, c) == RelativeBasisPoints(v[c], top[c])
<1>1. ASSUME NEW c \in {"bookmark", "like", "production"}
      PROVE  /\ part(y, c) \in 0 .. FullShare
             /\ part(x, c) \in 0 .. part(y, c)
             /\ y[c] = top[c] /\ y[c] > 0 => part(y, c) = FullShare
  <2>1. x[c] \in Nat /\ y[c] \in Nat /\ top[c] \in Nat /\ x[c] <= y[c] /\ y[c] <= top[c]
    OBVIOUS
  <2>2. x[c] <= top[c]
    BY <2>1
  <2>3. part(y, c) \in 0 .. FullShare /\ part(x, c) \in 0 .. FullShare
    BY <2>1, <2>2, RelativeShares
  <2>4. part(x, c) <= part(y, c)
    BY <2>1, RelativeShares
  <2>5. part(x, c) \in 0 .. part(y, c)
    <3> HIDE DEF part
    <3> QED BY <2>3, <2>4, FullTyped
  <2>6. ASSUME y[c] = top[c], y[c] > 0
        PROVE  part(y, c) = FullShare
    BY <2>1, <2>6, RelativeShares
  <2> QED BY <2>3, <2>5, <2>6
<1>2. \A v \in {x, y} :
          ScoreOne(v, top) = (part(v, "bookmark") * Weights.bookmark
                                + part(v, "like") * Weights.like
                                + part(v, "production") * Weights.production
                                + FullShare \div 2) \div FullShare
  BY DEF ScoreOne
<1>3. FullShare \in 0 .. FullShare /\ \A k \in 0 .. FullShare : k \in 0 .. k
  BY FullTyped
<1> HIDE DEF part
<1>4. /\ ScoreOne(y, top) \in 0 .. FullShare
      /\ ScoreOne(x, top) <= ScoreOne(y, top)
  BY <1>1, <1>2, WeightedShare
<1>5. ASSUME \A c \in {"bookmark", "like", "production"} : y[c] = top[c] /\ y[c] > 0
      PROVE  ScoreOne(y, top) = FullShare
  <2>1. \A c \in {"bookmark", "like", "production"} : part(y, c) = FullShare
    BY <1>1, <1>5
  <2>2. ScoreOne(y, top) = (FullShare * Weights.bookmark + FullShare * Weights.like
                              + FullShare * Weights.production
                              + FullShare \div 2) \div FullShare
    BY <1>2, <2>1
  <2> QED BY <1>3, <2>2, WeightedShare
<1> QED BY <1>4, <1>5

LEMMA InfluenceMonotone ==
    ASSUME LedgerTyped, IdsInv
    PROVE  InfluenceIsMonotone
<1> DEFINE C == {"bookmark", "like", "production"}
           in(a) == InfluenceInput(a)
           top == [c \in C |-> Max({in(a)[c] : a \in InfluenceSample})]
<1>1. \A a \in InfluenceSample : in(a) \in [C -> Nat]
  BY InfluenceTyped
<1>2. IsFiniteSet(InfluenceSample)
  BY FS_Subset DEF IdsInv, Numbered, InfluenceSample
<1>3. Influence = [a \in InfluenceSample |-> ScoreOne(in(a), top)]
  BY DEF Influence
<1> HIDE DEF in
<1>4. ASSUME InfluenceSample # {}, NEW c \in C
      PROVE  /\ top[c] \in Nat
             /\ \A a \in InfluenceSample : in(a)[c] <= top[c]
             /\ \E a \in InfluenceSample : in(a)[c] = top[c]
  <2> DEFINE V == {in(a)[c] : a \in InfluenceSample}
             f == [a \in InfluenceSample |-> in(a)[c]]
  <2>1. V \subseteq Nat /\ V # {}
    BY <1>1, <1>4
  <2>2. f \in Surjection(InfluenceSample, V)
    BY DEF Surjection
  <2>3. IsFiniteSet(V)
    <3> HIDE DEF f, V
    <3> QED BY <1>2, <2>2, FS_Surjection
  <2>4. Max(V) \in V /\ \A n \in V : n <= Max(V)
    <3> HIDE DEF V
    <3> QED BY <2>1, <2>3, GreatestNat
  <2>5. top[c] = Max(V)
    OBVIOUS
  <2> HIDE DEF top
  <2> QED BY <2>1, <2>4, <2>5
<1> SUFFICES ASSUME NEW a \in InfluenceSample
    PROVE  /\ Influence[a] \in 0 .. FullShare
           /\ \A b \in InfluenceSample :
                  (\A c \in C : in(a)[c] >= in(b)[c]) => Influence[a] >= Influence[b]
           /\ (/\ \A b \in InfluenceSample : \A c \in C : in(a)[c] >= in(b)[c]
               /\ \A c \in C : in(a)[c] > 0)
              => Influence[a] = FullShare
  <2>1. DOMAIN Influence = InfluenceSample
    BY <1>3
  <2>2. \A a \in InfluenceSample : DOMAIN InfluenceInput(a) = C /\ InfluenceInput(a) = in(a)
    BY <1>1 DEF in
  <2> QED BY <2>1, <2>2 DEF InfluenceIsMonotone
<1>5. top \in [C -> Nat] /\ \A b \in InfluenceSample, c \in C : in(b)[c] <= top[c]
  <2>1. \A c \in C : top[c] \in Nat
    BY <1>4
  <2>2. top \in [C -> Nat]
    BY <2>1
  <2> HIDE DEF top
  <2> QED BY <1>4, <2>2
<1>6. \A b \in InfluenceSample : Influence[b] = ScoreOne(in(b), top)
  BY <1>3
<1>7. ASSUME NEW b \in InfluenceSample, \A c \in C : in(a)[c] >= in(b)[c]
      PROVE  Influence[a] >= Influence[b]
  <2>1. \A c \in C : in(b)[c] <= in(a)[c]
    BY <1>1, <1>7
  <2> HIDE DEF top
  <2>2. ScoreOne(in(b), top) <= ScoreOne(in(a), top)
    BY <1>1, <1>5, <2>1, ScoreGrows
  <2>3. ScoreOne(in(a), top) \in 0 .. FullShare /\ ScoreOne(in(b), top) \in 0 .. FullShare
    <3>1. \A d \in InfluenceSample, c \in C : in(d)[c] <= in(d)[c]
      BY <1>1
    <3> QED BY <1>1, <1>5, <3>1, ScoreGrows
  <2>4. \A m, n \in 0 .. FullShare : m <= n => n >= m
    BY FullTyped
  <2> QED BY <1>6, <2>2, <2>3, <2>4
<1>8. \A c \in C : in(a)[c] <= in(a)[c]
  BY <1>1
<1>9. Influence[a] \in 0 .. FullShare
  <2> HIDE DEF top
  <2> QED BY <1>1, <1>5, <1>6, <1>8, ScoreGrows
<1>10. ASSUME \A b \in InfluenceSample : \A c \in C : in(a)[c] >= in(b)[c],
              \A c \in C : in(a)[c] > 0
       PROVE  Influence[a] = FullShare
  <2> HIDE DEF top
  <2>1. ASSUME NEW c \in C
        PROVE  in(a)[c] = top[c]
    <3>1. PICK b \in InfluenceSample : in(b)[c] = top[c]
      BY <1>4
    <3>2. in(a)[c] \in Nat /\ in(b)[c] \in Nat /\ in(a)[c] >= in(b)[c] /\ in(a)[c] <= top[c]
      BY <1>1, <1>5, <1>10
    <3> QED BY <3>1, <3>2
  <2> QED BY <1>1, <1>5, <1>6, <1>8, <1>10, <2>1, ScoreGrows
<1> QED BY <1>7, <1>9, <1>10

\* THEOREM (score_author_influence, author_influence.py:109): whatever catalog the
\* ingest has built and whatever the weights are, a score is a share of 10000 that
\* is never below that of an author who is no better in anything.
THEOREM InfluenceRanksFairly == CatalogSpec => []InfluenceIsMonotone
<1>1. LedgerTyped /\ IdsInv => InfluenceIsMonotone
  BY InfluenceMonotone
<1>2. HistoryInv /\ IdsInv => LedgerTyped /\ IdsInv
  BY DEF HistoryInv
<1> QED BY <1>1, <1>2, CatalogInvariants, PTL
-----------------------------------------------------------------------------
(* Sums over the parts of a set *)

\* The parts of a set add up to it.
LEMMA PartsAddUp ==
    ASSUME NEW S, IsFiniteSet(S), NEW P, NEW f,
           \A a \in S : IsFiniteSet(P[a]) /\ f[a] = Cardinality(P[a]),
           \A a, b \in S : a # b => P[a] \cap P[b] = {}
    PROVE  Cardinality(UNION {P[a] : a \in S}) = SumFunctionOnSet(f, S)
<1> DEFINE V == UNION {P[a] : a \in S}
           U == Units(f, S)
           n(a) == 0 .. Cardinality(P[a]) - 1
           to(a) == CHOOSE h : h \in Bijection(n(a), P[a])
           b == [a \in S |-> to(a)]
           g == [u \in U |-> b[u[1]][u[2]]]
<1>1. \A a \in S : f[a] \in Nat
  BY FS_CardinalityType
<1>2. ASSUME NEW a \in S
      PROVE  b[a] \in Bijection(n(a), P[a])
  <2> DEFINE k == Cardinality(P[a])  Q == P[a]
  <2>1. IsFiniteSet(Q) /\ k \in Nat /\ IsFiniteSet(n(a)) /\ Cardinality(n(a)) = k
    <3>1. IsFiniteSet(Q) /\ k \in Nat
      BY FS_CardinalityType
    <3> HIDE DEF k
    <3>2. 0 \in Int /\ k - 1 \in Int
      BY <3>1
    <3>3. IsFiniteSet(0 .. k - 1)
          /\ Cardinality(0 .. k - 1) = IF 0 > k - 1 THEN 0 ELSE (k - 1) - 0 + 1
      BY <3>2, FS_Interval
    <3>4. Cardinality(0 .. k - 1) = k
      BY <3>1, <3>3
    <3>5. n(a) = 0 .. k - 1
      BY DEF k
    <3> QED BY <3>1, <3>3, <3>4, <3>5
  <2> HIDE DEF k, Q, n
  <2>2. ExistsBijection(1 .. k, Q) /\ ExistsBijection(1 .. k, n(a))
    <3>1. Cardinality(Q) = k
      BY DEF k, Q
    <3> QED BY <2>1, <3>1, FS_CardinalityType
  <2>3. ExistsBijection(n(a), Q)
    BY <2>2, Fun_ExistsBijSymmetric, Fun_ExistsBijTransitive
  <2>4. PICK h : h \in Bijection(n(a), Q)
    BY <2>3 DEF ExistsBijection
  <2>5. to(a) \in Bijection(n(a), Q)
    BY <2>4 DEF Q
  <2> HIDE DEF to
  <2> QED BY <2>5 DEF Q
<1> HIDE DEF b
<1>3. ASSUME NEW u \in U
      PROVE  u[1] \in S /\ u[2] \in n(u[1]) /\ u = <<u[1], u[2]>>
  <2>1. /\ u \in S \X Nat /\ u[2] < f[u[1]]
    BY DEF Units
  <2>2. u[1] \in S /\ u[2] \in Nat /\ f[u[1]] \in Nat /\ u = <<u[1], u[2]>>
    BY <1>1, <2>1
  <2>3. u[2] \in 0 .. f[u[1]] - 1
    BY <2>1, <2>2
  <2> QED BY <2>2, <2>3
<1>4. ASSUME NEW a \in S, NEW i \in n(a)
      PROVE  <<a, i>> \in U
  <2>1. f[a] \in Nat /\ i \in 0 .. f[a] - 1
    BY <1>1
  <2>2. i \in Nat /\ i < f[a]
    BY <2>1
  <2> QED BY <2>2 DEF Units
<1> HIDE DEF U, n
<1>5. g \in [U -> V]
  <2> SUFFICES ASSUME NEW u \in U PROVE b[u[1]][u[2]] \in V
    OBVIOUS
  <2>1. b[u[1]][u[2]] \in P[u[1]]
    BY <1>2, <1>3 DEF Bijection, Injection
  <2> QED BY <1>3, <2>1
<1>6. g \in Surjection(U, V)
  <2> SUFFICES ASSUME NEW v \in V
               PROVE  \E u \in U : g[u] = v
    BY <1>5 DEF Surjection
  <2>1. PICK a \in S : v \in P[a]
    OBVIOUS
  <2>2. PICK i \in n(a) : b[a][i] = v
    BY <1>2, <2>1 DEF Bijection, Surjection
  <2>3. <<a, i>> \in U /\ g[<<a, i>>] = v
    BY <1>4, <2>2
  <2> QED BY <2>3
<1>7. g \in Injection(U, V)
  <2> SUFFICES ASSUME NEW u \in U, NEW v \in U, g[u] = g[v]
               PROVE  u = v
    BY <1>5 DEF Injection, IsInjective
  <2>1. b[u[1]][u[2]] = b[v[1]][v[2]]
    OBVIOUS
  <2>2. b[u[1]][u[2]] \in P[u[1]] /\ b[v[1]][v[2]] \in P[v[1]]
    BY <1>2, <1>3 DEF Bijection, Injection
  <2>3. u[1] = v[1]
    BY <1>3, <2>1, <2>2
  <2>4. u[2] = v[2]
    BY <1>2, <1>3, <2>1, <2>3 DEF Bijection, Injection, IsInjective
  <2> QED BY <1>3, <2>3, <2>4
<1>8. IsFiniteSet(U)
  BY <1>1, UnitsFinite DEF U
<1> HIDE DEF g
<1>9. Cardinality(V) = Cardinality(U)
  BY <1>6, <1>7, <1>8, FS_Surjection
<1>10. SumFunctionOnSet(f, S) = Cardinality(U)
  BY <1>1, SumIsUnits DEF U
<1> QED BY <1>9, <1>10
-----------------------------------------------------------------------------
(* The authors of works *)

LEMMA AuthorsStep ==
    ASSUME LedgerTyped, AuthorsKnown, CatalogNext
    PROVE  AuthorsKnown'
<1>1. PICK m \in Manifest, p \in Policy :
          IngestOnly(m, p) \/ IngestAndProject(m, p) \/ RollBack(m, p)
  BY DEF CatalogNext
<1> DEFINE O == Observations(m, p)  L == Lineage(m, O)
<1>2. CASE ~IngestAndProject(m, p)
  <2>1. UNCHANGED <<works, authors>>
    BY <1>1, <1>2 DEF IngestOnly, RollBack, catalog
  <2> QED BY <2>1 DEF AuthorsKnown
<1>3. CASE IngestAndProject(m, p)
  <2>1. /\ works' = Works(L) /\ authors' = Authors(L) /\ Projectable(m, O)
    BY <1>3, Zenon DEF IngestAndProject
  <2>2. Lines(L, O)
    BY <2>1, LineageReads
  <2>3. DOMAIN Authors(L) = DOMAIN authors \cup {L[s].body.author : s \in DOMAIN L}
    BY DEF Authors, Over
  <2>4. /\ DOMAIN works' = DOMAIN works \cup ProjectedWorks(L)
        /\ \A w \in DOMAIN works' :
               IF w \notin ProjectedWorks(L) \/ Older(L, w)
               THEN w \in DOMAIN works /\ works'[w] = works[w]
               ELSE works'[w].obs = L[w]
    <3> HIDE DEF O, L
    <3> QED BY <2>1, <2>2, WorksFollow
  <2> HIDE DEF O, L
  <2> QED BY <2>1, <2>3, <2>4 DEF AuthorsKnown, ProjectedWorks
<1> QED BY <1>2, <1>3

LEMMA AuthorsHold == CatalogSpec => []AuthorsKnown
<1>1. Init => AuthorsKnown
  BY DEF Init, Empty, AuthorsKnown
<1>2. ASSUME AuthorsKnown, UNCHANGED vars PROVE AuthorsKnown'
  BY <1>2 DEF vars, ledger, catalog, AuthorsKnown
<1>3. HistoryInv /\ AuthorsKnown /\ [CatalogNext]_vars => AuthorsKnown'
  BY <1>2, AuthorsStep DEF HistoryInv
<1> QED BY <1>1, <1>3, CatalogInvariants, PTL DEF CatalogSpec
-----------------------------------------------------------------------------
(* The names of tags *)

LinksNamed ==
    /\ DOMAIN links = DOMAIN works
    /\ \A w \in DOMAIN works : links[w] \subseteq Range(TagNames)

LEMMA LinksNamedStep ==
    ASSUME LedgerTyped, LinksNamed, CatalogNext
    PROVE  LinksNamed'
<1>1. PICK m \in Manifest, p \in Policy :
          IngestOnly(m, p) \/ IngestAndProject(m, p) \/ RollBack(m, p)
  BY DEF CatalogNext
<1>2. CASE RollBack(m, p) \/ IngestOnly(m, p)
  <2>1. UNCHANGED <<works, links>>
    BY <1>2 DEF RollBack, IngestOnly, catalog
  <2> QED BY <2>1 DEF LinksNamed
<1>3. CASE IngestAndProject(m, p)
  <2> DEFINE O == Observations(m, p)  L == Lineage(m, O)  P == ProjectedWorks(L)
  <2>1. works' = Works(L) /\ links' = Links(L) /\ Projectable(m, O)
    BY <1>3, Zenon DEF IngestAndProject
  <2>2. Lines(L, O)
    BY <2>1, LineageReads
  <2> HIDE DEF O, L
  <2>3. DOMAIN works' = DOMAIN works \cup P
    BY <2>1, <2>2, WorksFollow
  <2>4. /\ DOMAIN links' = DOMAIN links \cup P
        /\ \A w \in P : links'[w] = Range(L[w].body.tags)
        /\ \A w \in DOMAIN links \ P : links'[w] = links[w]
    BY <2>1 DEF Links, Over
  <2>5. ASSUME NEW w \in P
        PROVE  Range(L[w].body.tags) \subseteq Range(TagNames)
    <3>1. L[w] \in Observation
      BY <2>2 DEF Lines, ProjectedWorks
    <3>2. L[w].body \in Payload
      BY <3>1 DEF Observation
    <3> QED BY <3>2, AnalyticsAssumption DEF AnalyticsAssumption
  <2> HIDE DEF P
  <2> QED BY <2>3, <2>4, <2>5 DEF LinksNamed
<1> QED BY <1>1, <1>2, <1>3

LEMMA LinksStayNamed == CatalogSpec => []LinksNamed
<1>1. Init => LinksNamed
  BY DEF Init, Empty, LinksNamed
<1>2. ASSUME LinksNamed, UNCHANGED vars PROVE LinksNamed'
  BY <1>2 DEF vars, catalog, LinksNamed
<1>3. HistoryInv /\ LinksNamed /\ [CatalogNext]_vars => LinksNamed'
  BY <1>2, LinksNamedStep DEF HistoryInv
<1> QED BY <1>1, <1>3, CatalogInvariants, PTL DEF CatalogSpec
-----------------------------------------------------------------------------
(* Views that count the same rows *)

\* A list made of the ranks in a total order has every element once, in order.
LEMMA RanksInOrder ==
    ASSUME NEW S, IsFiniteSet(S), NEW upTo,
           \A x \in S : upTo[x] \subseteq S /\ x \in upTo[x],
           \A x, y \in S : x \in upTo[y] \/ y \in upTo[x],
           \A x, y \in S : x \in upTo[y] => upTo[x] \subseteq upTo[y],
           \A x, y \in S : x \in upTo[y] /\ y \in upTo[x] => x = y,
           NEW q, q = [k \in 1 .. Cardinality(S) |-> q[k]],
           \A k \in 1 .. Cardinality(S) :
               (\E x \in S : Cardinality(upTo[x]) = k)
                   => q[k] \in S /\ Cardinality(upTo[q[k]]) = k
    PROVE  /\ ListsOnce(q, S)
           /\ \A k \in 1 .. Cardinality(S) : Cardinality(upTo[q[k]]) = k
           /\ \A j, k \in 1 .. Cardinality(S) : j <= k => q[j] \in upTo[q[k]]
<1> DEFINE N == 1 .. Cardinality(S)
           rank == [x \in S |-> Cardinality(upTo[x])]
<1>1. /\ Cardinality(S) \in Nat
      /\ \A x \in S : rank[x] \in N
      /\ \A x, y \in S : rank[x] = rank[y] => x = y
      /\ \A x, y \in S : x \in upTo[y] => rank[x] <= rank[y]
      /\ \A k \in N : \E x \in S : rank[x] = k
  BY RanksOnce
<1>2. q = [k \in N |-> q[k]]
  OBVIOUS
<1>3. \A k \in N : q[k] \in S /\ rank[q[k]] = k
  BY <1>1
<1>4. \A k \in N : Cardinality(upTo[q[k]]) = k
  BY <1>3
<1> HIDE DEF N, rank
<1>5. q \in [N -> S]
  BY <1>2, <1>3
<1>6. ASSUME NEW x \in S
      PROVE  q[rank[x]] = x
  <2>1. rank[x] \in N
    BY <1>1
  <2>2. q[rank[x]] \in S /\ rank[q[rank[x]]] = rank[x]
    BY <1>3, <2>1
  <2> QED BY <1>1, <2>2
<1>7. ListsOnce(q, S)
  BY <1>1, <1>3, <1>5, <1>6 DEF N, ListsOnce
<1>8. ASSUME NEW j \in N, NEW k \in N, j <= k
      PROVE  q[j] \in upTo[q[k]]
  <2>1. CASE q[k] \in upTo[q[j]]
    <3>1. rank[q[k]] <= rank[q[j]]
      BY <1>1, <1>3, <2>1
    <3>2. j = k
      BY <1>1, <1>3, <1>8, <3>1 DEF N
    <3> QED BY <1>3, <3>2
  <2> QED BY <1>3, <2>1
<1> QED BY <1>7, <1>8, <1>4 DEF N

Least(m, n) == IF m <= n THEN m ELSE n

LEMMA LeastIsMin ==
    ASSUME NEW m \in Nat, NEW n \in Nat
    PROVE  Min({m, n}) = Least(m, n) /\ Least(m, n) \in Nat
           /\ Least(m, n) <= m /\ Least(m, n) <= n
<1> DEFINE P(x) == x \in {m, n} /\ \A y \in {m, n} : x <= y
<1>1. Min({m, n}) = CHOOSE x \in {m, n} : \A y \in {m, n} : x <= y
  BY DEF Min
<1>2. /\ Least(m, n) \in {m, n} /\ \A y \in {m, n} : Least(m, n) <= y
      /\ Least(m, n) \in Nat /\ Least(m, n) <= m /\ Least(m, n) <= n
  BY DEF Least
<1>3. Min({m, n}) \in {m, n} /\ \A y \in {m, n} : Min({m, n}) <= y
  BY <1>1, <1>2
<1>4. Min({m, n}) <= Least(m, n) /\ Least(m, n) <= Min({m, n}) /\ Min({m, n}) \in Nat
  BY <1>2, <1>3
<1> HIDE DEF P
<1> QED BY <1>2, <1>4

\* The tables order the names of the tags.
LEMMA PositionsTyped ==
    /\ \A t \in Range(TagNames) : Position(t) \in Nat
    /\ \A s, t \in Range(TagNames) : Position(s) = Position(t) => s = t
<1>1. ASSUME NEW t \in Range(TagNames)
      PROVE  Position(t) \in DOMAIN TagNames /\ TagNames[Position(t)] = t
  <2>1. \E i \in DOMAIN TagNames : TagNames[i] = t
    BY DEF Range
  <2> QED BY <2>1 DEF Position
<1>2. DOMAIN TagNames = 1 .. Len(TagNames) /\ Len(TagNames) \in Nat
  <2>1. TagNames \in Seq(Range(TagNames))
    BY AnalyticsAssumption DEF AnalyticsAssumption
  <2> QED BY <2>1
<1>3. \A t \in Range(TagNames) : Position(t) \in Nat
  BY <1>1, <1>2
<1>4. ASSUME NEW s \in Range(TagNames), NEW t \in Range(TagNames), Position(s) = Position(t)
      PROVE  s = t
  BY <1>1, <1>4
<1> QED BY <1>3, <1>4

\* The time of the newest snapshot is that of the newest row.
LEMMA FreshnessIsOfRows ==
    ASSUME HistoryInv, DOMAIN works # {}
    PROVE  Freshness.latest = Max({works[w].obs.at : w \in DOMAIN works})
<1> DEFINE N == 1 .. Len(snaps)
           W == DOMAIN works
           A == {snaps[i].at : i \in N}
           B == {works[w].obs.at : w \in W}
           f == [i \in N |-> snaps[i].at]
           g == [w \in W |-> works[w].obs.at]
<1>1. /\ snaps \in Seq(Observation) /\ IsFiniteSet(N) /\ IsFiniteSet(W)
      /\ \A w \in W : works[w].obs \in Observation
  <2>1. snaps \in Seq(Observation) /\ \A w \in W : works[w].obs \in Observation
    BY DEF HistoryInv, LedgerTyped
  <2>2. 1 \in Int /\ Len(snaps) \in Int
    BY <2>1
  <2> QED BY <2>1, <2>2, FS_Interval, OrderFinite, FS_Subset DEF HistoryInv, LedgerTyped
<1>2. \A o \in Observation : o.at \in Nat
  BY DEF Observation
<1>3. \A w \in W : \E i \in N : snaps[i] = works[w].obs
  BY DEF HistoryInv, RowsNewest, SnapsOf
<1>4. \A i \in N : /\ snaps[i].source \in W
                   /\ snaps[i].at <= works[snaps[i].source].obs.at
  BY DEF HistoryInv, RowsNewest, SnapsOf, SnapsValid
<1>5. A \subseteq Nat /\ B \subseteq Nat /\ A # {} /\ B # {} /\ snaps # <<>>
  <2>1. A \subseteq Nat /\ B \subseteq Nat
    BY <1>1, <1>2
  <2>2. PICK w \in W : TRUE
    OBVIOUS
  <2>3. PICK i \in N : snaps[i] = works[w].obs
    BY <1>3
  <2>4. N # {} => snaps # <<>>
    OBVIOUS
  <2> QED BY <2>1, <2>2, <2>3, <2>4
<1>6. IsFiniteSet(A) /\ IsFiniteSet(B)
  <2>1. f \in Surjection(N, A) /\ g \in Surjection(W, B)
    BY DEF Surjection
  <2> HIDE DEF A, B, f, g, N, W
  <2> QED BY <1>1, <2>1, FS_Surjection
<1>7. /\ Max(A) \in A /\ \A n \in A : n <= Max(A)
      /\ Max(B) \in B /\ \A n \in B : n <= Max(B)
  <2> HIDE DEF A, B
  <2> QED BY <1>5, <1>6, GreatestNat
<1>8. Max(A) <= Max(B)
  <2>1. PICK i \in N : Max(A) = snaps[i].at
    BY <1>7
  <2> DEFINE w == snaps[i].source
  <2>2. w \in W /\ Max(A) <= works[w].obs.at
    BY <1>4, <2>1
  <2>3. works[w].obs.at \in B
    BY <2>2
  <2> DEFINE x == Max(A)  y == Max(B)  z == works[w].obs.at
  <2>4. x \in Nat /\ y \in Nat /\ z \in Nat /\ x <= z /\ z <= y
    <3> HIDE DEF A, B, w
    <3> QED BY <1>5, <1>7, <2>2, <2>3
  <2> HIDE DEF x, y, z
  <2>5. x <= y
    BY <2>4
  <2> QED BY <2>5 DEF x, y
<1>9. Max(B) \in A
  <2>1. PICK w \in W : Max(B) = works[w].obs.at
    BY <1>7
  <2>2. PICK i \in N : snaps[i] = works[w].obs
    BY <1>3
  <2> QED BY <2>1, <2>2
<1>10. Max(A) = Max(B)
  <2> DEFINE x == Max(A)  y == Max(B)
  <2>1. x \in Nat /\ y \in Nat /\ x <= y /\ y <= x
    <3> HIDE DEF A, B
    <3> QED BY <1>5, <1>7, <1>8, <1>9
  <2> HIDE DEF x, y
  <2>2. x = y
    BY <2>1
  <2> QED BY <2>2 DEF x, y
<1> QED BY <1>5, <1>10 DEF Freshness

\* The works of the authors are all the works, and no two have one in common.
LEMMA WorksByAuthor ==
    ASSUME LedgerTyped, AuthorsKnown
    PROVE  /\ \A a \in DOMAIN authors : WorksOf(a) \subseteq DOMAIN works
           /\ \A w \in DOMAIN works : \E a \in DOMAIN authors : w \in WorksOf(a)
           /\ \A a, b : a # b => WorksOf(a) \cap WorksOf(b) = {}
BY DEF WorksOf, AuthorsKnown

\* A profile's list has the tags of the most works: one that it leaves out has
\* none of them, or the list is full of tags that have no fewer.
LEMMA TopTagsLead ==
    ASSUME IdsInv, LinksNamed, NEW W, IsFiniteSet(W), W \subseteq DOMAIN works,
           NEW t \in Range(tags), NEW top, top = TopTags(W),
           NEW n, n = Cardinality(Tagged(W, t))
    PROVE  \/ \E i \in DOMAIN top : top[i] = [tag |-> t, works |-> n]
           \/ n = 0
           \/ /\ Len(top) = ProfileTagLimit
              /\ \A i \in DOMAIN top : top[i].tag # t /\ n <= top[i].works
<1> DEFINE S == {u \in Range(tags) : Tagged(W, u) # {}}
           size(u) == Cardinality(Tagged(W, u))
           q == Ranked(S, LAMBDA u, v : \/ size(u) > size(v)
                                        \/ size(u) = size(v) /\ Position(u) <= Position(v))
           upToOf(v) == {u \in S : \/ size(u) > size(v)
                                   \/ size(u) = size(v) /\ Position(u) <= Position(v)}
           upTo == [v \in S |-> upToOf(v)]
           c == Cardinality(S)
           limit == Least(ProfileTagLimit, Len(q))
<1>1. IsFiniteSet(S)
  <2> DEFINE N == 1 .. Len(tags)
  <2>1. tags \in Seq(Range(tags)) /\ Len(tags) \in Nat
    BY DEF IdsInv
  <2>2. tags \in Surjection(N, Range(tags))
    BY <2>1 DEF Surjection, Range
  <2>3. IsFiniteSet(N)
    BY <2>1, FS_Interval
  <2>4. IsFiniteSet(Range(tags))
    <3> HIDE DEF N
    <3> QED BY <2>2, <2>3, FS_Surjection
  <2> QED BY <2>4, FS_Subset
<1>2. ASSUME NEW u
      PROVE  IsFiniteSet(Tagged(W, u)) /\ size(u) \in Nat
  <2>1. Tagged(W, u) \subseteq W
    BY DEF Tagged
  <2>2. IsFiniteSet(Tagged(W, u))
    BY <2>1, FS_Subset
  <2> QED BY <2>2, FS_CardinalityType
<1>3. S \subseteq Range(TagNames)
  BY DEF Tagged, LinksNamed
<1>4. \A u, v \in S : /\ size(u) \in Nat /\ Position(u) \in Nat
                      /\ Position(u) = Position(v) => u = v
  BY <1>2, <1>3, PositionsTyped
<1>5. /\ \A x \in S : upTo[x] \subseteq S /\ x \in upTo[x]
      /\ \A x, y \in S : x \in upTo[y] \/ y \in upTo[x]
      /\ \A x, y \in S : x \in upTo[y] => upTo[x] \subseteq upTo[y]
      /\ \A x, y \in S : x \in upTo[y] /\ y \in upTo[x] => x = y
  <2> HIDE DEF S, size
  <2> QED BY <1>4
<1>6. /\ q = [k \in 1 .. c |-> CHOOSE x \in S : Cardinality(upToOf(x)) = k]
      /\ \A x \in S : upTo[x] = upToOf(x)
  BY DEF Ranked
<1>7. /\ ListsOnce(q, S)
      /\ \A j, k \in 1 .. c : j <= k => q[j] \in upTo[q[k]]
  <2> HIDE DEF upTo, S, q, upToOf
  <2>1. ASSUME NEW k \in 1 .. c, \E x \in S : Cardinality(upTo[x]) = k
        PROVE  q[k] \in S /\ Cardinality(upTo[q[k]]) = k
    <3>1. q[k] = CHOOSE x \in S : Cardinality(upToOf(x)) = k
      BY <1>6
    <3>2. \E x \in S : Cardinality(upToOf(x)) = k
      BY <1>6, <2>1
    <3> QED BY <1>6, <3>1, <3>2
  <2>2. q = [k \in 1 .. c |-> q[k]]
    BY <1>6
  <2> QED BY <1>1, <1>5, <2>1, <2>2, RanksInOrder
<1>8. /\ c \in Nat /\ q \in [1 .. c -> S] /\ Len(q) = c
      /\ \A u \in S : \E k \in 1 .. c : q[k] = u
  <2> HIDE DEF q, S
  <2>1. /\ c \in Nat /\ q \in [1 .. c -> S]
        /\ \A u \in S : \E k \in 1 .. c : q[k] = u
    BY <1>7 DEF ListsOnce
  <2> QED BY <2>1
<1>9. \A j, k \in 1 .. c : j <= k => size(q[k]) <= size(q[j])
  <2> SUFFICES ASSUME NEW j \in 1 .. c, NEW k \in 1 .. c, j <= k
               PROVE  size(q[k]) <= size(q[j])
    OBVIOUS
  <2>1. q[j] \in S /\ q[k] \in S /\ q[j] \in upTo[q[k]]
    BY <1>7, <1>8
  <2> HIDE DEF q, S, size
  <2> QED BY <1>4, <2>1
<1>10. n = size(t)
  OBVIOUS
<1>11. ProfileTagLimit \in Nat
  BY AnalyticsAssumption DEF AnalyticsAssumption
<1>12. /\ top = [i \in 1 .. Min({ProfileTagLimit, Len(q)}) |->
                    [tag |-> q[i], works |-> size(q[i])]]
       /\ Min({ProfileTagLimit, Len(q)}) = limit
       /\ limit \in Nat /\ limit <= ProfileTagLimit /\ limit <= c
  <2>1. top = [i \in 1 .. Min({ProfileTagLimit, Len(q)}) |->
                    [tag |-> q[i], works |-> size(q[i])]]
    BY DEF TopTags
  <2> HIDE DEF q
  <2> QED BY <1>8, <1>11, <2>1, LeastIsMin
<1> HIDE DEF q, upTo, upToOf, size
<1>13. /\ DOMAIN top = 1 .. limit /\ Len(top) = limit
       /\ \A i \in 1 .. limit : /\ top[i] = [tag |-> q[i], works |-> size(q[i])]
                                /\ i \in 1 .. c
  <2> DEFINE row == [i \in 1 .. limit |-> [tag |-> q[i], works |-> size(q[i])]]
  <2>1. top = row
    BY <1>12
  <2>2. DOMAIN row = 1 .. limit
        /\ \A i \in 1 .. limit : row[i] = [tag |-> q[i], works |-> size(q[i])]
    OBVIOUS
  <2> HIDE DEF row, c, limit
  <2>3. Len(top) = limit
    BY <1>12, <2>1, <2>2
  <2>4. \A i \in 1 .. limit : i \in 1 .. c
    BY <1>8, <1>12
  <2> QED BY <2>1, <2>2, <2>3, <2>4
<1>14. CASE Tagged(W, t) = {}
  BY <1>10, <1>14, FS_EmptySet DEF size
<1>15. CASE Tagged(W, t) # {}
  <2>1. PICK k \in 1 .. c : q[k] = t
    BY <1>8, <1>15
  <2>2. CASE k \in 1 .. limit
    BY <1>10, <1>13, <2>1, <2>2
  <2>3. CASE k \notin 1 .. limit
    <3>1. limit < k /\ limit = ProfileTagLimit
      BY <1>8, <1>11, <1>12, <2>1, <2>3 DEF Least
    <3>2. ASSUME NEW i \in 1 .. limit
          PROVE  top[i].tag # t /\ n <= top[i].works
      <4>1. i \in 1 .. c /\ i <= k /\ i # k
        BY <1>13, <3>1
      <4>2. size(q[k]) <= size(q[i]) /\ q[i] # q[k]
        BY <1>7, <1>9, <4>1 DEF ListsOnce
      <4>3. top[i] = [tag |-> q[i], works |-> size(q[i])]
        BY <1>13
      <4>4. top[i].tag = q[i] /\ top[i].works = size(q[i])
        BY <4>3
      <4> QED BY <1>10, <2>1, <4>2, <4>4
    <3> QED BY <1>13, <3>1, <3>2
  <2> QED BY <2>2, <2>3
<1> QED BY <1>14, <1>15

LEMMA ViewsAgree ==
    ASSUME HistoryInv, IdsInv, AuthorsKnown, LinksNamed
    PROVE  ViewsReconcile
<1> DEFINE profile == [a \in DOMAIN authors |-> AuthorProfile(a)]
           tagged(a, t) == Cardinality({w \in DOMAIN works :
                               WorkDetail(w).author = a /\ t \in WorkDetail(w).tags})
<1>0. LedgerTyped /\ IsFiniteSet(DOMAIN works) /\ IsFiniteSet(DOMAIN authors)
  BY DEF HistoryInv, IdsInv, Numbered
<1>1. DOMAIN works # {} =>
          Freshness.latest = Max({works[w].obs.at : w \in DOMAIN works})
  BY FreshnessIsOfRows
<1>2. ASSUME NEW a \in DOMAIN authors
      PROVE  /\ WorksOf(a) \in SUBSET DOMAIN works
             /\ IsFiniteSet(WorksOf(a))
             /\ \A t : /\ Tagged(WorksOf(a), t) \in SUBSET WorksOf(a)
                       /\ IsFiniteSet(Tagged(WorksOf(a), t))
  <2>1. WorksOf(a) \in SUBSET DOMAIN works
    BY DEF WorksOf
  <2>2. IsFiniteSet(WorksOf(a))
    BY <1>0, <2>1, FS_Subset
  <2>3. \A t : Tagged(WorksOf(a), t) \in SUBSET WorksOf(a)
    BY DEF Tagged
  <2> QED BY <2>1, <2>2, <2>3, FS_Subset
<1>3. ASSUME NEW a \in DOMAIN authors, NEW k \in Metric
      PROVE  /\ AuthorDetail(a).works = profile[a].works
             /\ profile[a].total[k] \in {Null, AuthorDetail(a).total[k]}
             /\ profile[a].total[k] = Null =>
                    \A w \in DOMAIN works :
                        WorkDetail(w).author = a => WorkDetail(w).count[k] = Null
  <2> DEFINE W == WorksOf(a)
  <2>1. /\ profile[a].works = Cardinality(W)
        /\ profile[a].total[k] = CoveredTotal(Coverage(W, k), Total(W, k))
        /\ AuthorDetail(a).works = Cardinality(W)
        /\ AuthorDetail(a).total[k] = Total(W, k)
    BY DEF AuthorProfile, AuthorDetail
  <2>2. Total(W, k) \in Nat
    BY <1>0, <1>2, TotalsTyped
  <2>3. ASSUME profile[a].total[k] = Null, NEW w \in DOMAIN works,
               WorkDetail(w).author = a
        PROVE  WorkDetail(w).count[k] = Null
    <3> DEFINE C == {v \in W : CountOf(v, k) # Null}
    <3>1. w \in W /\ WorkDetail(w).count[k] = CountOf(w, k)
      BY <2>3 DEF WorkDetail, WorksOf, CountOf
    <3>2. IsFiniteSet(C)
      BY <1>2, FS_Subset
    <3>3. ~(Cardinality(C) > 0)
      BY <2>1, <2>2, <2>3 DEF CoveredTotal, Coverage, Null
    <3>4. C = {}
      <4> HIDE DEF C
      <4>1. Cardinality(C) \in Nat /\ (Cardinality(C) = 0 <=> C = {})
        BY <3>2, FS_CardinalityType, FS_EmptySet
      <4> QED BY <3>3, <4>1
    <3> QED BY <3>1, <3>4
  <2> QED BY <2>1, <2>3 DEF CoveredTotal
<1>4. \A a, t : tagged(a, t) = Cardinality(Tagged(WorksOf(a), t))
  <2> SUFFICES ASSUME NEW a, NEW t
               PROVE  {w \in DOMAIN works :
                          WorkDetail(w).author = a /\ t \in WorkDetail(w).tags}
                          = Tagged(WorksOf(a), t)
    OBVIOUS
  <2> QED BY DEF WorkDetail, WorksOf, Tagged
<1>5. ASSUME NEW a \in DOMAIN authors, NEW t \in Range(tags)
      PROVE  LET top == profile[a].tags IN
             \/ \E i \in DOMAIN top : top[i] = [tag |-> t, works |-> tagged(a, t)]
             \/ tagged(a, t) = 0
             \/ /\ Len(top) = ProfileTagLimit
                /\ \A i \in DOMAIN top : top[i].tag # t /\ tagged(a, t) <= top[i].works
  <2>1. profile[a].tags = TopTags(WorksOf(a))
    BY DEF AuthorProfile
  <2> HIDE DEF profile, tagged
  <2> QED BY <1>2, <1>4, <2>1, TopTagsLead
<1>6. ASSUME NEW t \in Range(tags)
      PROVE  TagDetail(t) = SumFunctionOnSet([a \in DOMAIN authors |-> tagged(a, t)],
                                             DOMAIN authors)
  <2> DEFINE S == DOMAIN authors
             P == [a \in S |-> Tagged(WorksOf(a), t)]
             f == [a \in S |-> tagged(a, t)]
  <2>1. ASSUME NEW a \in S
        PROVE  IsFiniteSet(P[a]) /\ f[a] = Cardinality(P[a])
    BY <1>2, <1>4
  <2>2. \A a, b \in S : a # b => P[a] \cap P[b] = {}
    BY <1>0, WorksByAuthor DEF Tagged
  <2>3. UNION {P[a] : a \in S} = Tagged(DOMAIN works, t)
    BY <1>0, WorksByAuthor DEF Tagged
  <2> HIDE DEF P, f, tagged
  <2>4. Cardinality(UNION {P[a] : a \in S}) = SumFunctionOnSet(f, S)
    BY <1>0, <2>1, <2>2, PartsAddUp
  <2> QED BY <2>3, <2>4 DEF TagDetail, f
<1> QED BY <1>1, <1>3, <1>5, <1>6, Zenon DEF ViewsReconcile

\* THEOREM (author_analytics.py:446, catalog_api.py:455 and detail_api.py): in every
\* catalog the ingest can build, the endpoints that count the same rows in
\* different ways agree, and a profile leaves out no tag that belongs on its list.
THEOREM ViewsReconciled == CatalogSpec => []ViewsReconcile
<1>1. HistoryInv /\ IdsInv /\ AuthorsKnown /\ LinksNamed => ViewsReconcile
  BY ViewsAgree
<1> QED BY <1>1, CatalogInvariants, AuthorsHold, LinksStayNamed, PTL
-----------------------------------------------------------------------------
(* Trends *)

\* The snapshot that counts for a day exists.
LEMMA DailyTyped ==
    ASSUME HistoryInv, NEW w, NEW d, SnapsOn(w, d) # {}, NEW k \in Metric
    PROVE  Daily(w, d, k) \in Nat \cup {Null}
<1> DEFINE I == SnapsOn(w, d)
           newest(i) == \A j \in I : \/ snaps[j].at < snaps[i].at
                                     \/ snaps[j].at = snaps[i].at /\ j <= i
           A == {snaps[i].at : i \in I}
           f == [i \in I |-> snaps[i].at]
           J == {i \in I : snaps[i].at = Max(A)}
<1>1. /\ snaps \in Seq(Observation) /\ I \subseteq 1 .. Len(snaps)
      /\ IsFiniteSet(1 .. Len(snaps))
  <2>1. snaps \in Seq(Observation)
    BY DEF HistoryInv, LedgerTyped
  <2>2. 1 \in Int /\ Len(snaps) \in Int
    BY <2>1
  <2> QED BY <2>1, <2>2, FS_Interval DEF SnapsOn
<1>2. \A i \in I : i \in Nat /\ snaps[i] \in Observation /\ snaps[i].at \in Nat
  <2>1. \A o \in Observation : o.at \in Nat
    BY DEF Observation
  <2>2. \A i \in 1 .. Len(snaps) : i \in Nat /\ snaps[i] \in Observation
    BY <1>1
  <2> HIDE DEF I
  <2> QED BY <1>1, <2>1, <2>2
<1>3. IsFiniteSet(I) /\ I # {}
  BY <1>1, FS_Subset
<1> HIDE DEF I
<1>4. IsFiniteSet(A)
  <2>1. f \in Surjection(I, A)
    BY DEF Surjection
  <2> HIDE DEF f, A
  <2> QED BY <1>3, <2>1, FS_Surjection
<1>5. A \subseteq Nat /\ A # {}
  BY <1>2, <1>3
<1>6. Max(A) \in A /\ \A n \in A : n <= Max(A)
  <2> HIDE DEF A
  <2> QED BY <1>4, <1>5, GreatestNat
<1> DEFINE top == Max(A)
<1>7. top \in A /\ top \in Nat /\ \A i \in I : snaps[i].at <= top
  BY <1>5, <1>6
<1>8. \A i \in J : i \in I /\ snaps[i].at = top
  OBVIOUS
<1>9. \A i \in I : snaps[i].at = top => i \in J
  OBVIOUS
<1>10. \E i \in I : snaps[i].at = top
  BY <1>7
<1> HIDE DEF A, J, top
<1>11. J # {} /\ J \subseteq Nat /\ IsFiniteSet(J)
  BY <1>2, <1>3, <1>8, <1>9, <1>10, FS_Subset
<1> DEFINE last == Max(J)
<1>12. last \in J /\ \A i \in J : i <= last
  BY <1>11, GreatestNat
<1> HIDE DEF last
<1>13. last \in I /\ newest(last)
  <2> SUFFICES ASSUME NEW j \in I
               PROVE  \/ snaps[j].at < snaps[last].at
                      \/ snaps[j].at = snaps[last].at /\ j <= last
    BY <1>8, <1>12
  <2>1. snaps[last].at = top /\ snaps[j].at \in Nat /\ snaps[j].at <= top /\ top \in Nat
    BY <1>2, <1>7, <1>8, <1>12
  <2>2. snaps[j].at = top => j <= last
    BY <1>9, <1>12
  <2> QED BY <2>1, <2>2
<1> DEFINE chosen == CHOOSE i \in I : newest(i)
<1>14. chosen \in I
  BY <1>13
<1>15. Daily(w, d, k) = snaps[chosen].body.count[k]
  BY DEF Daily, I
<1> HIDE DEF chosen
<1>16. snaps[chosen].body \in Payload
  BY <1>2, <1>14 DEF Observation
<1>17. snaps[chosen].body.count \in [Metric -> Nat \cup {Null}]
  BY <1>16, CatalogAssumption DEF CatalogAssumption
<1> QED BY <1>15, <1>17

\* The covered works of a day, the day's total over them, and what it counts.
LEMMA DayTotals ==
    ASSUME HistoryInv, NEW W \in SUBSET DOMAIN works, IsFiniteSet(W), NEW d,
           NEW k \in Metric
    PROVE  LET C == CoveredOn(W, d, k)
               f == [w \in C |-> Daily(w, d, k)]
           IN  /\ C \subseteq SeenOn(W, d) /\ SeenOn(W, d) \subseteq W
               /\ IsFiniteSet(SeenOn(W, d)) /\ IsFiniteSet(C)
               /\ \A w \in C : f[w] \in Nat
               /\ TotalOn(W, d, k) = Cardinality(Units(f, C))
               /\ TotalOn(W, d, k) \in Nat
               /\ Cardinality(C) \in Nat
<1> DEFINE C == CoveredOn(W, d, k)
           f == [w \in C |-> Daily(w, d, k)]
<1>1. C \subseteq SeenOn(W, d) /\ SeenOn(W, d) \subseteq W
  BY DEF CoveredOn, SeenOn
<1>2. IsFiniteSet(SeenOn(W, d)) /\ IsFiniteSet(C)
  BY <1>1, FS_Subset
<1>3. \A w \in C : f[w] \in Nat
  <2> SUFFICES ASSUME NEW w \in C PROVE Daily(w, d, k) \in Nat
    OBVIOUS
  <2>1. SnapsOn(w, d) # {} /\ Daily(w, d, k) # Null
    BY DEF CoveredOn, SeenOn
  <2> QED BY <2>1, DailyTyped
<1>4. TotalOn(W, d, k) = SumFunctionOnSet(f, C)
  BY DEF TotalOn, DailyTotal
<1> HIDE DEF f, C
<1>5. TotalOn(W, d, k) = Cardinality(Units(f, C))
  BY <1>2, <1>3, <1>4, SumIsUnits
<1>6. TotalOn(W, d, k) \in Nat /\ Cardinality(C) \in Nat
  BY <1>2, <1>3, <1>5, UnitsFinite, FS_CardinalityType
<1> QED BY <1>1, <1>2, <1>3, <1>5, <1>6 DEF f, C

\* The trend of one author.
LEMMA AuthorTrend ==
    ASSUME HistoryInv, NEW a, NEW d \in Days
    PROVE  LET t == AuthorMetricTrends(a) IN
           /\ d \in DOMAIN t <=> SeenOn(WorksOf(a), d) # {}
           /\ d \in DOMAIN t =>
                  /\ t[d].works = Cardinality(SeenOn(WorksOf(a), d))
                  /\ \A k \in Metric :
                         LET C == CoveredOn(WorksOf(a), d, k) IN
                         /\ t[d].coverage[k] = Cardinality(C)
                         /\ t[d].total[k] = CoveredTotal(Cardinality(C),
                                                         TotalOn(WorksOf(a), d, k))
BY DEF AuthorMetricTrends

LEMMA CoveredTotals ==
    ASSUME HistoryInv, IsFiniteSet(DOMAIN works), NEW a, NEW d, NEW k \in Metric
    PROVE  LET C == CoveredOn(WorksOf(a), d, k)
               t == CoveredTotal(Cardinality(C), TotalOn(WorksOf(a), d, k))
           IN  /\ t # Null <=> C # {}
               /\ C # {} => t = TotalOn(WorksOf(a), d, k)
<1> DEFINE C == CoveredOn(WorksOf(a), d, k)  n == TotalOn(WorksOf(a), d, k)
<1>1. WorksOf(a) \in SUBSET DOMAIN works /\ IsFiniteSet(WorksOf(a))
  <2>1. WorksOf(a) \in SUBSET DOMAIN works
    BY DEF WorksOf
  <2> QED BY <2>1, FS_Subset
<1>2. IsFiniteSet(C) /\ Cardinality(C) \in Nat /\ n \in Nat
  BY <1>1, DayTotals
<1>3. Cardinality(C) = 0 <=> C = {}
  BY <1>2, FS_EmptySet
<1> HIDE DEF C, n
<1>4. Cardinality(C) > 0 <=> C # {}
  BY <1>2, <1>3
<1> QED BY <1>2, <1>4 DEF CoveredTotal, Null, C, n

\* The days of a trend add up by author.
LEMMA DayAddsUp ==
    ASSUME HistoryInv, IdsInv, AuthorsKnown, NEW d, NEW k \in Metric,
           NEW S, S \subseteq DOMAIN authors, NEW f
    PROVE  /\ (/\ S = {a \in DOMAIN authors : SeenOn(WorksOf(a), d) # {}}
               /\ \A a \in S : f[a] = Cardinality(SeenOn(WorksOf(a), d)))
                 => Cardinality(SeenOn(DOMAIN works, d)) = SumFunctionOnSet(f, S)
           /\ (/\ S = {a \in DOMAIN authors : CoveredOn(WorksOf(a), d, k) # {}}
               /\ \A a \in S : f[a] = TotalOn(WorksOf(a), d, k))
                 => TotalOn(DOMAIN works, d, k) = SumFunctionOnSet(f, S)
<1>1. LedgerTyped /\ IsFiniteSet(DOMAIN works) /\ IsFiniteSet(S)
  BY FS_Subset DEF HistoryInv, IdsInv, Numbered
<1>2. ASSUME NEW a \in DOMAIN authors
      PROVE  WorksOf(a) \in SUBSET DOMAIN works /\ IsFiniteSet(WorksOf(a))
  <2>1. WorksOf(a) \in SUBSET DOMAIN works
    BY DEF WorksOf
  <2> QED BY <1>1, <2>1, FS_Subset
<1>3. ASSUME S = {a \in DOMAIN authors : SeenOn(WorksOf(a), d) # {}},
             \A a \in S : f[a] = Cardinality(SeenOn(WorksOf(a), d))
      PROVE  Cardinality(SeenOn(DOMAIN works, d)) = SumFunctionOnSet(f, S)
  <2> DEFINE P == [a \in S |-> SeenOn(WorksOf(a), d)]
  <2>1. \A a \in S : IsFiniteSet(P[a]) /\ f[a] = Cardinality(P[a])
    BY <1>2, <1>3, DayTotals
  <2>2. \A a, b \in S : a # b => P[a] \cap P[b] = {}
    BY <1>1, WorksByAuthor DEF SeenOn
  <2>3. UNION {P[a] : a \in S} = SeenOn(DOMAIN works, d)
    <3>1. ASSUME NEW w \in SeenOn(DOMAIN works, d)
          PROVE  \E a \in S : w \in P[a]
      <4>1. w \in DOMAIN works /\ SnapsOn(w, d) # {}
        BY DEF SeenOn
      <4>2. PICK a \in DOMAIN authors : w \in WorksOf(a)
        BY <1>1, <4>1, WorksByAuthor
      <4>3. w \in SeenOn(WorksOf(a), d)
        BY <4>1, <4>2 DEF SeenOn
      <4> QED BY <1>3, <4>3
    <3>2. \A a \in S : P[a] \subseteq SeenOn(DOMAIN works, d)
      BY <1>2 DEF SeenOn
    <3> HIDE DEF P
    <3> QED BY <3>1, <3>2
  <2> HIDE DEF P
  <2> QED BY <1>1, <2>1, <2>2, <2>3, PartsAddUp
<1>4. ASSUME S = {a \in DOMAIN authors : CoveredOn(WorksOf(a), d, k) # {}},
             \A a \in S : f[a] = TotalOn(WorksOf(a), d, k)
      PROVE  TotalOn(DOMAIN works, d, k) = SumFunctionOnSet(f, S)
  <2> DEFINE C(W) == CoveredOn(W, d, k)
             g(W) == [w \in C(W) |-> Daily(w, d, k)]
             P == [a \in S |-> Units(g(WorksOf(a)), C(WorksOf(a)))]
  <2>1. ASSUME NEW a \in S
        PROVE  IsFiniteSet(P[a]) /\ f[a] = Cardinality(P[a])
    <3> DEFINE W == WorksOf(a)
    <3>1. /\ IsFiniteSet(C(W)) /\ \A w \in C(W) : g(W)[w] \in Nat
          /\ TotalOn(W, d, k) = Cardinality(Units(g(W), C(W)))
      BY <1>2, DayTotals
    <3> HIDE DEF g, C, W
    <3>2. IsFiniteSet(Units(g(W), C(W)))
      BY <3>1, UnitsFinite
    <3>3. P[a] = Units(g(W), C(W))
      BY DEF W
    <3> QED BY <1>4, <3>1, <3>2, <3>3 DEF W
  <2>2. \A a, b \in S : a # b => C(WorksOf(a)) \cap C(WorksOf(b)) = {}
    BY <1>1, WorksByAuthor DEF CoveredOn, SeenOn
  <2>3. \A a, b \in S : a # b => P[a] \cap P[b] = {}
    <3> HIDE DEF C, g
    <3> QED BY <2>2 DEF Units
  <2>4. UNION {P[a] : a \in S} = Units(g(DOMAIN works), C(DOMAIN works))
    <3> DEFINE all == DOMAIN works
    <3>1. \A a \in S : C(WorksOf(a)) \subseteq C(all)
      BY <1>2 DEF CoveredOn, SeenOn
    <3>2. ASSUME NEW w \in C(all)
          PROVE  \E a \in S : w \in C(WorksOf(a))
      <4>1. w \in DOMAIN works /\ SnapsOn(w, d) # {} /\ Daily(w, d, k) # Null
        BY DEF CoveredOn, SeenOn
      <4>2. PICK a \in DOMAIN authors : w \in WorksOf(a)
        BY <1>1, <4>1, WorksByAuthor
      <4>3. w \in C(WorksOf(a))
        BY <4>1, <4>2 DEF CoveredOn, SeenOn
      <4> QED BY <1>4, <4>3
    <3>3. \A W : \A w \in C(W) : g(W)[w] = Daily(w, d, k)
      OBVIOUS
    <3> HIDE DEF C, g
    <3>4. \A W : Units(g(W), C(W)) = {u \in C(W) \X Nat : u[2] < Daily(u[1], d, k)}
      BY <3>3 DEF Units
    <3>5. \A a \in S : P[a] = {u \in C(WorksOf(a)) \X Nat : u[2] < Daily(u[1], d, k)}
      BY <3>4
    <3> HIDE DEF P
    <3>6. \A a \in S : P[a] \subseteq Units(g(all), C(all))
      BY <3>1, <3>4, <3>5
    <3>7. ASSUME NEW u \in Units(g(all), C(all))
          PROVE  \E a \in S : u \in P[a]
      <4>1. u \in C(all) \X Nat /\ u[2] < Daily(u[1], d, k)
        BY <3>4
      <4>2. PICK a \in S : u[1] \in C(WorksOf(a))
        BY <3>2, <4>1
      <4>3. u \in C(WorksOf(a)) \X Nat
        BY <4>1, <4>2
      <4> QED BY <3>5, <4>1, <4>3
    <3> QED BY <3>6, <3>7
  <2>5. TotalOn(DOMAIN works, d, k) = Cardinality(Units(g(DOMAIN works), C(DOMAIN works)))
    BY <1>1, DayTotals
  <2> HIDE DEF C, g, P
  <2>6. Cardinality(UNION {P[a] : a \in S}) = SumFunctionOnSet(f, S)
    BY <1>1, <2>1, <2>3, PartsAddUp
  <2> QED BY <2>4, <2>5, <2>6
<1> QED BY <1>3, <1>4

\* What growth between two days counts, for one author.
LEMMA GrowthCounts ==
    ASSUME HistoryInv, IdsInv, NEW a, NEW d1 \in Days, NEW d2 \in Days
    PROVE  LET g == Growth(a, d1, d2)
               W == WorksOf(a)
               S == SeenOn(W, d1)
               E == SeenOn(W, d2)
           IN
           /\ g.start = Cardinality(S) /\ g.end = Cardinality(E)
           /\ g.start_only + g.matched = g.start /\ g.end_only + g.matched = g.end
           /\ \A k \in Metric :
                  LET n == g.metric[k].complete
                      C1 == CoveredOn(W, d1, k)
                      C2 == CoveredOn(W, d2, k)
                  IN  /\ n > 0 => /\ C1 # {} /\ n <= Cardinality(C1)
                                  /\ C2 # {} /\ n <= Cardinality(C2)
                      /\ n > 0 /\ n = g.start /\ n = g.end =>
                             g.metric[k].change = TotalOn(W, d2, k) - TotalOn(W, d1, k)
<1> DEFINE g == Growth(a, d1, d2)
           W == WorksOf(a)
           S == SeenOn(W, d1)
           E == SeenOn(W, d2)
<1>1. W \in SUBSET DOMAIN works /\ IsFiniteSet(W)
  <2>1. W \in SUBSET DOMAIN works /\ IsFiniteSet(DOMAIN works)
    BY DEF WorksOf, IdsInv, Numbered
  <2> QED BY <2>1, FS_Subset
<1>2. /\ g.start = Cardinality(S) /\ g.end = Cardinality(E)
      /\ g.matched = Cardinality(S \cap E)
      /\ g.start_only = Cardinality(S \ E) /\ g.end_only = Cardinality(E \ S)
  BY DEF Growth, Matched
<1>3. ASSUME NEW k \in Metric
      PROVE  g.metric[k] = LET C == Complete(a, d1, d2, k) IN
                           MetricCohortGrowth(Cardinality(C),
                               DailyTotal(C, d1, k), DailyTotal(C, d2, k))
  BY DEF Growth
<1> HIDE DEF g, S, E, W
<1>4. IsFiniteSet(S) /\ IsFiniteSet(E) /\ Cardinality(S) \in Nat /\ Cardinality(E) \in Nat
  BY <1>1, FS_Subset, FS_CardinalityType DEF S, E, SeenOn
<1>5. g.start_only + g.matched = g.start /\ g.end_only + g.matched = g.end
  <2>1. /\ Cardinality(S \ E) = Cardinality(S) - Cardinality(S \cap E)
        /\ Cardinality(E \ S) = Cardinality(E) - Cardinality(E \cap S)
    BY <1>4, FS_Difference
  <2>2. S \cap E = E \cap S /\ Cardinality(S \cap E) \in Nat
    BY <1>4, FS_Intersection, FS_CardinalityType
  <2> QED BY <1>2, <1>4, <2>1, <2>2
<1>6. ASSUME NEW k \in Metric
      PROVE  LET n == g.metric[k].complete
                 C1 == CoveredOn(W, d1, k)
                 C2 == CoveredOn(W, d2, k)
             IN  /\ n > 0 => /\ C1 # {} /\ n <= Cardinality(C1)
                             /\ C2 # {} /\ n <= Cardinality(C2)
                 /\ n > 0 /\ n = g.start /\ n = g.end =>
                        g.metric[k].change = TotalOn(W, d2, k) - TotalOn(W, d1, k)
  <2> DEFINE n == g.metric[k].complete
             C1 == CoveredOn(W, d1, k)
             C2 == CoveredOn(W, d2, k)
             C == Complete(a, d1, d2, k)
  <2>0. g.metric[k] = MetricCohortGrowth(Cardinality(C), DailyTotal(C, d1, k),
                                         DailyTotal(C, d2, k))
    BY <1>3
  <2>1. C = C1 \cap C2
    BY DEF Complete, W
  <2>2. C1 \subseteq S /\ C2 \subseteq E /\ IsFiniteSet(C1) /\ IsFiniteSet(C2)
    BY <1>1, DayTotals DEF S, E
  <2> HIDE DEF C, C1, C2
  <2>3. /\ IsFiniteSet(C) /\ Cardinality(C) \in Nat
        /\ Cardinality(C) <= Cardinality(C1) /\ Cardinality(C) <= Cardinality(C2)
        /\ (Cardinality(C) = 0 <=> C = {})
        /\ (Cardinality(C) = Cardinality(S) => C = S)
        /\ (Cardinality(C) = Cardinality(E) => C = E)
    <3>1. C \in SUBSET C1 /\ C \in SUBSET C2 /\ C \in SUBSET S /\ C \in SUBSET E
      BY <2>1, <2>2
    <3> QED BY <1>4, <2>2, <3>1, FS_Subset, FS_CardinalityType, FS_EmptySet
  <2>4. n = Cardinality(C)
    BY <2>0, <2>3 DEF MetricCohortGrowth
  <2>5. ASSUME n > 0
        PROVE  /\ C1 # {} /\ n <= Cardinality(C1)
               /\ C2 # {} /\ n <= Cardinality(C2)
    BY <2>1, <2>3, <2>4, <2>5
  <2>6. ASSUME n > 0, n = g.start, n = g.end
        PROVE  g.metric[k].change = TotalOn(W, d2, k) - TotalOn(W, d1, k)
    <3>1. C = S /\ C = E
      BY <1>2, <2>3, <2>4, <2>6
    <3>2. C = C1 /\ C = C2
      BY <2>1, <2>2, <3>1
    <3>3. g.metric[k].change = DailyTotal(C, d2, k) - DailyTotal(C, d1, k)
      <4>1. Cardinality(C) # 0
        BY <2>3, <2>4, <2>6
      <4> QED BY <2>0, <4>1 DEF MetricCohortGrowth
    <3> QED BY <3>2, <3>3 DEF TotalOn, C1, C2
  <2> HIDE DEF n
  <2>7. /\ n > 0 => /\ C1 # {} /\ n <= Cardinality(C1)
                    /\ C2 # {} /\ n <= Cardinality(C2)
        /\ n > 0 /\ n = g.start /\ n = g.end =>
               g.metric[k].change = TotalOn(W, d2, k) - TotalOn(W, d1, k)
    BY <2>5, <2>6
  <2> QED BY <2>7 DEF n, C1, C2
<1> QED BY <1>2, <1>5, <1>6 DEF g, S, E, W

LEMMA TrendsAgree ==
    ASSUME HistoryInv, IdsInv, AuthorsKnown
    PROVE  TrendsAddUp
<1> DEFINE trend == [a \in DOMAIN authors |-> AuthorMetricTrends(a)]
           on(d) == {a \in DOMAIN authors : d \in DOMAIN trend[a]}
           seen(a, d) == IF d \in DOMAIN trend[a] THEN trend[a][d].works ELSE 0
<1>1. IsFiniteSet(DOMAIN works)
  BY DEF IdsInv, Numbered
<1>2. ASSUME NEW a \in DOMAIN authors, NEW d \in Days
      PROVE  /\ d \in DOMAIN trend[a] <=> SeenOn(WorksOf(a), d) # {}
             /\ d \in DOMAIN trend[a] =>
                    /\ trend[a][d].works = Cardinality(SeenOn(WorksOf(a), d))
                    /\ \A k \in Metric :
                           LET C == CoveredOn(WorksOf(a), d, k) IN
                           /\ trend[a][d].coverage[k] = Cardinality(C)
                           /\ trend[a][d].total[k] # Null <=> C # {}
                           /\ C # {} => trend[a][d].total[k] = TotalOn(WorksOf(a), d, k)
  <2>1. trend[a] = AuthorMetricTrends(a)
    OBVIOUS
  <2> HIDE DEF trend
  <2>2. d \in DOMAIN trend[a] <=> SeenOn(WorksOf(a), d) # {}
    BY <2>1, AuthorTrend
  <2>3. ASSUME d \in DOMAIN trend[a]
        PROVE  /\ trend[a][d].works = Cardinality(SeenOn(WorksOf(a), d))
               /\ \A k \in Metric :
                      LET C == CoveredOn(WorksOf(a), d, k) IN
                      /\ trend[a][d].coverage[k] = Cardinality(C)
                      /\ trend[a][d].total[k]
                             = CoveredTotal(Cardinality(C), TotalOn(WorksOf(a), d, k))
    BY <2>1, <2>3, AuthorTrend
  <2>4. ASSUME d \in DOMAIN trend[a], NEW k \in Metric
        PROVE  LET C == CoveredOn(WorksOf(a), d, k) IN
               /\ trend[a][d].coverage[k] = Cardinality(C)
               /\ trend[a][d].total[k] # Null <=> C # {}
               /\ C # {} => trend[a][d].total[k] = TotalOn(WorksOf(a), d, k)
    BY <1>1, <2>3, <2>4, CoveredTotals
  <2> QED BY <2>2, <2>3, <2>4
<1>3. ASSUME NEW d \in Days
      PROVE  /\ on(d) = {a \in DOMAIN authors : SeenOn(WorksOf(a), d) # {}}
             /\ \A a \in on(d) : trend[a][d].works = Cardinality(SeenOn(WorksOf(a), d))
             /\ \A k \in Metric :
                    {a \in on(d) : trend[a][d].total[k] # Null}
                        = {a \in DOMAIN authors : CoveredOn(WorksOf(a), d, k) # {}}
  <2> HIDE DEF trend
  <2>1. \A a \in DOMAIN authors, k \in Metric :
            CoveredOn(WorksOf(a), d, k) # {} => SeenOn(WorksOf(a), d) # {}
    BY DEF CoveredOn
  <2>2. /\ on(d) = {a \in DOMAIN authors : SeenOn(WorksOf(a), d) # {}}
        /\ \A a \in on(d) : trend[a][d].works = Cardinality(SeenOn(WorksOf(a), d))
    BY <1>2
  <2>3. ASSUME NEW k \in Metric
        PROVE  {a \in on(d) : trend[a][d].total[k] # Null}
                   = {a \in DOMAIN authors : CoveredOn(WorksOf(a), d, k) # {}}
    <3>1. \A a \in DOMAIN authors :
              a \in on(d) => (trend[a][d].total[k] # Null
                                  <=> CoveredOn(WorksOf(a), d, k) # {})
      BY <1>2
    <3>2. \A a \in DOMAIN authors : CoveredOn(WorksOf(a), d, k) # {} => a \in on(d)
      BY <2>1, <2>2
    <3>3. \A a \in on(d) : a \in DOMAIN authors
      OBVIOUS
    <3> HIDE DEF on
    <3> QED BY <3>1, <3>2, <3>3
  <2> QED BY <2>2, <2>3
<1>4. ASSUME NEW d \in Days
      PROVE  MetricTrends[d].works
                 = SumFunctionOnSet([a \in on(d) |-> trend[a][d].works], on(d))
  <2> DEFINE S == on(d)  f == [a \in S |-> trend[a][d].works]
  <2>1. MetricTrends[d].works = Cardinality(SeenOn(DOMAIN works, d))
    BY DEF MetricTrends
  <2>2. \A a \in S : f[a] = Cardinality(SeenOn(WorksOf(a), d))
    BY <1>3
  <2>3. S \subseteq DOMAIN authors /\ "views" \in Metric
    BY DEF Metric
  <2>4. S = {a \in DOMAIN authors : SeenOn(WorksOf(a), d) # {}}
    BY <1>3
  <2> HIDE DEF f, S
  <2>5. Cardinality(SeenOn(DOMAIN works, d)) = SumFunctionOnSet(f, S)
    BY <2>2, <2>3, <2>4, DayAddsUp
  <2> QED BY <2>1, <2>5 DEF f, S
<1>5. ASSUME NEW d \in Days, NEW k \in Metric
      PROVE  MetricTrends[d].total[k] =
                 SumFunctionOnSet([a \in on(d) |-> trend[a][d].total[k]],
                                  {a \in on(d) : trend[a][d].total[k] # Null})
  <2> DEFINE S == {a \in on(d) : trend[a][d].total[k] # Null}
             f == [a \in on(d) |-> trend[a][d].total[k]]
  <2>1. MetricTrends[d].total[k] = TotalOn(DOMAIN works, d, k)
    BY DEF MetricTrends
  <2>2. S = {a \in DOMAIN authors : CoveredOn(WorksOf(a), d, k) # {}}
    BY <1>3
  <2>3. ASSUME NEW a \in S
        PROVE  f[a] = TotalOn(WorksOf(a), d, k)
    <3>1. a \in on(d) /\ a \in DOMAIN authors /\ d \in DOMAIN trend[a]
      BY DEF S
    <3>2. CoveredOn(WorksOf(a), d, k) # {}
      BY <2>2
    <3>3. f[a] = trend[a][d].total[k]
      BY <3>1
    <3> HIDE DEF trend, f, S, on
    <3> QED BY <1>2, <3>1, <3>2, <3>3
  <2>4. S \subseteq DOMAIN authors
    OBVIOUS
  <2> HIDE DEF f, S
  <2>5. TotalOn(DOMAIN works, d, k) = SumFunctionOnSet(f, S)
    BY <2>2, <2>3, <2>4, DayAddsUp
  <2> QED BY <2>1, <2>5 DEF f, S
<1>6. ASSUME NEW a \in DOMAIN authors, NEW d1 \in Days, NEW d2 \in Days
      PROVE  LET g == Growth(a, d1, d2) IN
             /\ g.start = seen(a, d1) /\ g.end = seen(a, d2)
             /\ g.start_only + g.matched = g.start /\ g.end_only + g.matched = g.end
             /\ \A k \in Metric :
                    LET n == g.metric[k].complete IN
                    /\ n > 0 => /\ n <= trend[a][d1].coverage[k]
                                /\ n <= trend[a][d2].coverage[k]
                    /\ n > 0 /\ n = g.start /\ n = g.end =>
                           g.metric[k].change =
                               trend[a][d2].total[k] - trend[a][d1].total[k]
  <2> DEFINE g == Growth(a, d1, d2)
  <2> HIDE DEF trend
  <2>1. ASSUME NEW d \in Days
        PROVE  seen(a, d) = Cardinality(SeenOn(WorksOf(a), d))
    <3>1. CASE SeenOn(WorksOf(a), d) = {}
      BY <1>2, <3>1, FS_EmptySet
    <3>2. CASE SeenOn(WorksOf(a), d) # {}
      BY <1>2, <3>2
    <3> QED BY <3>1, <3>2
  <2>2. /\ g.start = Cardinality(SeenOn(WorksOf(a), d1))
        /\ g.end = Cardinality(SeenOn(WorksOf(a), d2))
        /\ g.start_only + g.matched = g.start /\ g.end_only + g.matched = g.end
    BY GrowthCounts
  <2>3. ASSUME NEW k \in Metric, g.metric[k].complete > 0
        PROVE  /\ CoveredOn(WorksOf(a), d1, k) # {}
               /\ g.metric[k].complete <= Cardinality(CoveredOn(WorksOf(a), d1, k))
               /\ CoveredOn(WorksOf(a), d2, k) # {}
               /\ g.metric[k].complete <= Cardinality(CoveredOn(WorksOf(a), d2, k))
               /\ g.metric[k].complete = g.start /\ g.metric[k].complete = g.end =>
                      g.metric[k].change = TotalOn(WorksOf(a), d2, k)
                                               - TotalOn(WorksOf(a), d1, k)
    BY <2>3, GrowthCounts
  <2> HIDE DEF g
  <2>4. ASSUME NEW d \in Days, NEW k \in Metric, CoveredOn(WorksOf(a), d, k) # {}
        PROVE  /\ trend[a][d].coverage[k] = Cardinality(CoveredOn(WorksOf(a), d, k))
               /\ trend[a][d].total[k] = TotalOn(WorksOf(a), d, k)
    <3>1. d \in DOMAIN trend[a]
      BY <1>2, <2>4 DEF CoveredOn
    <3> QED BY <1>2, <2>4, <3>1
  <2>5. ASSUME NEW k \in Metric
        PROVE  LET n == g.metric[k].complete IN
               /\ n > 0 => /\ n <= trend[a][d1].coverage[k]
                           /\ n <= trend[a][d2].coverage[k]
               /\ n > 0 /\ n = g.start /\ n = g.end =>
                      g.metric[k].change =
                          trend[a][d2].total[k] - trend[a][d1].total[k]
    BY <2>3, <2>4
  <2> HIDE DEF seen
  <2> QED BY <2>1, <2>2, <2>5 DEF g
<1>7. \A d \in Days :
          /\ MetricTrends[d].works
                 = SumFunctionOnSet([a \in on(d) |-> trend[a][d].works], on(d))
          /\ \A k \in Metric :
                 MetricTrends[d].total[k] =
                     SumFunctionOnSet([a \in on(d) |-> trend[a][d].total[k]],
                                      {a \in on(d) : trend[a][d].total[k] # Null})
  <2> HIDE DEF trend, on
  <2> QED BY <1>4, <1>5
<1>8. \A a \in DOMAIN authors, d1, d2 \in Days :
          d1 < d2 =>
          LET g == Growth(a, d1, d2) IN
          /\ g.start = seen(a, d1) /\ g.end = seen(a, d2)
          /\ g.start_only + g.matched = g.start /\ g.end_only + g.matched = g.end
          /\ \A k \in Metric :
                 LET n == g.metric[k].complete IN
                 /\ n > 0 => /\ n <= trend[a][d1].coverage[k]
                             /\ n <= trend[a][d2].coverage[k]
                 /\ n > 0 /\ n = g.start /\ n = g.end =>
                        g.metric[k].change =
                            trend[a][d2].total[k] - trend[a][d1].total[k]
  <2> HIDE DEF trend, seen
  <2> QED BY <1>6
<1> QED BY <1>7, <1>8, Zenon DEF TrendsAddUp

\* THEOREM (author_analytics.py:749): in every catalog the ingest can build, the
\* trends of the authors add up to that of the catalog on every day, and growth
\* between two days counts the works these trends count.
THEOREM TrendsReconciled == CatalogSpec => []TrendsAddUp
<1>1. HistoryInv /\ IdsInv /\ AuthorsKnown => TrendsAddUp
  BY TrendsAgree
<1> QED BY <1>1, CatalogInvariants, AuthorsHold, PTL
-----------------------------------------------------------------------------
(* Medians *)

LEMMA AscendingOrders ==
    ASSUME NEW n \in Nat, NEW s \in [1 .. n -> Nat]
    PROVE  \E at : /\ ListsOnce(at, 1 .. n)
                   /\ Cardinality(1 .. n) = n
                   /\ Ascending(s) = [k \in 1 .. n |-> s[at[k]]]
                   /\ \A j, k \in 1 .. n : j <= k => s[at[j]] <= s[at[k]]
<1> DEFINE N == 1 .. n
           upTo == [j \in N |-> {i \in N : s[i] < s[j] \/ (s[i] = s[j] /\ i <= j)}]
           upToOf(j) == {i \in N : s[i] < s[j] \/ (s[i] = s[j] /\ i <= j)}
           at == Ranked(N, LAMBDA i, j : s[i] < s[j] \/ (s[i] = s[j] /\ i <= j))
<1>1. IsFiniteSet(N) /\ Cardinality(N) = n
  <2>1. 1 \in Int /\ n \in Int
    OBVIOUS
  <2>2. IsFiniteSet(N) /\ Cardinality(N) = IF 1 > n THEN 0 ELSE n - 1 + 1
    BY <2>1, FS_Interval
  <2>3. (IF 1 > n THEN 0 ELSE n - 1 + 1) = n
    OBVIOUS
  <2> QED BY <2>2, <2>3
<1>2. /\ \A x \in N : upTo[x] \subseteq N /\ x \in upTo[x]
      /\ \A x, y \in N : x \in upTo[y] \/ y \in upTo[x]
      /\ \A x, y \in N : x \in upTo[y] => upTo[x] \subseteq upTo[y]
      /\ \A x, y \in N : x \in upTo[y] /\ y \in upTo[x] => x = y
  OBVIOUS
<1>3. /\ at = [k \in 1 .. Cardinality(N) |-> CHOOSE x \in N : Cardinality(upToOf(x)) = k]
      /\ \A x \in N : upTo[x] = upToOf(x)
  BY DEF Ranked
<1>4. /\ ListsOnce(at, N)
      /\ \A j, k \in 1 .. Cardinality(N) : j <= k => at[j] \in upTo[at[k]]
  <2> HIDE DEF upTo, N, at, upToOf
  <2>1. ASSUME NEW k \in 1 .. Cardinality(N), \E x \in N : Cardinality(upTo[x]) = k
        PROVE  at[k] \in N /\ Cardinality(upTo[at[k]]) = k
    <3>1. at[k] = CHOOSE x \in N : Cardinality(upToOf(x)) = k
      BY <1>3
    <3>2. \E x \in N : Cardinality(upToOf(x)) = k
      BY <1>3, <2>1
    <3> QED BY <1>3, <3>1, <3>2
  <2>2. at = [k \in 1 .. Cardinality(N) |-> at[k]]
    BY <1>3
  <2> QED BY <1>1, <1>2, <2>1, <2>2, RanksInOrder
<1>5. \A j, k \in N : j \in upTo[k] => s[j] <= s[k]
  OBVIOUS
<1>6. Len(s) = n
  OBVIOUS
<1>7. Ascending(s) = [k \in N |-> s[at[k]]]
  BY <1>6 DEF Ascending
<1> HIDE DEF at, upTo
<1>8. at \in [N -> N]
  BY <1>1, <1>4 DEF ListsOnce
<1> QED BY <1>1, <1>5, <1>4, <1>7, <1>8

\* At least half of the values are no less than the median.
LEMMA HalfAbove ==
    ASSUME NEW n \in Nat, NEW s \in [1 .. n -> Nat],
           NEW H, H \subseteq 1 .. n, \A i \in 1 .. n : i \in H <=> s[i] >= MedianScaled(s)
    PROVE  /\ Cardinality(H) \in Nat
           /\ 2 * Cardinality(H) >= n
<1> DEFINE N == 1 .. n
           m == MedianScaled(s)
           o == Ascending(s)
           h == n \div 2 + 1
<1>1. PICK at : /\ ListsOnce(at, N)
                /\ Cardinality(N) = n
                /\ o = [k \in N |-> s[at[k]]]
                /\ \A j, k \in N : j <= k => s[at[j]] <= s[at[k]]
  BY AscendingOrders
<1>2. Len(s) = n
  OBVIOUS
<1>3. /\ at \in [N -> N]
      /\ \A j, k \in N : at[j] = at[k] => j = k
  BY <1>1 DEF ListsOnce
<1>4. \A k \in N : o[k] = s[at[k]] /\ o[k] \in Nat
  BY <1>1, <1>3
<1>5. \A j, k \in N : j <= k => o[j] <= o[k]
  BY <1>1, <1>4
<1>6. m = IF n = 0 THEN 0
          ELSE IF n % 2 = 1 THEN o[n \div 2 + 1]
          ELSE (o[n \div 2] + o[n \div 2 + 1]) \div 2
  BY <1>2 DEF MedianScaled
<1> HIDE DEF o, m
<1>7. H \subseteq N /\ \A i \in N : i \in H <=> s[i] >= m
  BY DEF m
<1>8. m \in Nat /\ (n > 0 => h \in N /\ m <= o[h])
  <2>1. CASE n = 0
    BY <1>6, <2>1
  <2>2. CASE n > 0 /\ n % 2 = 1
    BY <1>4, <1>6, <2>2
  <2>3. CASE n > 0 /\ n % 2 = 0
    <3>1. h \in N /\ h - 1 \in N /\ h - 1 <= h /\ h - 1 = n \div 2
      BY <2>3
    <3>2. o[h - 1] \in Nat /\ o[h] \in Nat /\ o[h - 1] <= o[h]
      BY <1>4, <1>5, <3>1
    <3>3. m = (o[h - 1] + o[h]) \div 2
      BY <1>6, <2>3, <3>1
    <3>4. \A x, y \in Nat : x <= y => (x + y) \div 2 \in Nat /\ (x + y) \div 2 <= y
      OBVIOUS
    <3> HIDE DEF h
    <3> QED BY <3>1, <3>2, <3>3, <3>4
  <2> QED BY <2>1, <2>2, <2>3
<1>9. IsFiniteSet(H) /\ Cardinality(H) \in Nat
  <2>1. IsFiniteSet(N)
    BY FS_Interval
  <2>2. IsFiniteSet(H)
    BY <1>7, <2>1, FS_Subset
  <2> QED BY <2>2, FS_CardinalityType
<1>10. CASE n = 0
  <2> DEFINE c == Cardinality(H)
  <2>1. c \in Nat
    BY <1>9
  <2> HIDE DEF c
  <2>2. 2 * c >= n
    BY <1>10, <2>1
  <2> QED BY <1>9, <2>2 DEF c
<1>11. CASE n > 0
  <2> DEFINE T == h .. n
             f == [k \in T |-> at[k]]
  <2>1. h \in Nat /\ h <= n /\ h > 0 /\ n - h + 1 = n - n \div 2
    BY <1>11
  <2>2. IsFiniteSet(T) /\ Cardinality(T) = n - h + 1
    <3> HIDE DEF h
    <3>1. h \in Int /\ n \in Int
      BY <2>1
    <3>2. IsFiniteSet(T) /\ Cardinality(T) = IF h > n THEN 0 ELSE n - h + 1
      BY <3>1, FS_Interval
    <3> QED BY <2>1, <3>2
  <2>3. \A k \in T : k \in N /\ h <= k /\ f[k] = at[k]
    BY <2>1
  <2>4. \A k \in T : f[k] \in H
    <3> SUFFICES ASSUME NEW k \in T PROVE s[at[k]] >= m /\ at[k] \in N
      BY <1>7, <2>3
    <3>1. h \in N /\ k \in N /\ h <= k /\ m <= o[h] /\ m \in Nat
      BY <1>8, <1>11, <2>3
    <3>2. o[h] <= o[k] /\ o[k] = s[at[k]] /\ o[h] \in Nat /\ o[k] \in Nat
      BY <1>4, <1>5, <3>1
    <3>3. at[k] \in N
      BY <1>3, <3>1
    <3> DEFINE x == o[h]  y == s[at[k]]
    <3>4. x \in Nat /\ y \in Nat /\ m <= x /\ x <= y
      BY <3>1, <3>2
    <3> HIDE DEF x, y
    <3>5. y >= m
      BY <3>1, <3>4
    <3> QED BY <3>3, <3>5 DEF y
  <2>5. f \in Injection(T, H)
    <3>1. \A j, k \in T : f[j] = f[k] => j = k
      BY <1>3, <2>3
    <3> HIDE DEF T
    <3> QED BY <2>4, <3>1 DEF Injection, IsInjective
  <2>6. Cardinality(T) <= Cardinality(H)
    <3> HIDE DEF f, T
    <3> QED BY <1>9, <2>5, FS_Injection
  <2> DEFINE c == Cardinality(H)
  <2>7. c \in Nat /\ n - n \div 2 <= c
    BY <1>9, <2>1, <2>2, <2>6
  <2> HIDE DEF c
  <2>8. 2 * c >= n
    BY <2>7
  <2> QED BY <1>9, <2>8 DEF c
<1> QED BY <1>10, <1>11

\* Listed once each, at least half of the members have a value no less than the
\* median of the values.
LEMMA HalfOfSample ==
    ASSUME NEW n \in Nat, NEW q, NEW S,
           q \in [1 .. n -> S], \A a \in S : \E i \in 1 .. n : q[i] = a,
           \A i, j \in 1 .. n : q[i] = q[j] => i = j,
           NEW g \in [S -> Nat], NEW s, s = [i \in 1 .. n |-> g[q[i]]],
           NEW A, A \subseteq S, \A a \in S : a \in A <=> g[a] >= MedianScaled(s)
    PROVE  2 * Cardinality(A) >= Cardinality(S)
<1> DEFINE N == 1 .. n
           m == MedianScaled(s)
           H == {i \in N : s[i] >= m}
           f == [i \in H |-> q[i]]
<1>1. IsFiniteSet(N) /\ Cardinality(N) = n
  <2>1. 1 \in Int /\ n \in Int
    OBVIOUS
  <2>2. IsFiniteSet(N) /\ Cardinality(N) = IF 1 > n THEN 0 ELSE n - 1 + 1
    BY <2>1, FS_Interval
  <2>3. (IF 1 > n THEN 0 ELSE n - 1 + 1) = n
    OBVIOUS
  <2> QED BY <2>2, <2>3
<1>2. IsFiniteSet(S) /\ Cardinality(S) = n
  <2>1. q \in Surjection(N, S) /\ q \in Injection(N, S)
    BY DEF Surjection, Injection, IsInjective
  <2> HIDE DEF N
  <2> QED BY <1>1, <2>1, FS_Surjection
<1>3. s \in [N -> Nat]
  OBVIOUS
<1>4. Cardinality(H) \in Nat /\ 2 * Cardinality(H) >= n
  <2>1. H \subseteq 1 .. n /\ \A i \in 1 .. n : i \in H <=> s[i] >= MedianScaled(s)
    OBVIOUS
  <2> HIDE DEF H
  <2> QED BY <1>3, <2>1, HalfAbove
<1>5. f \in Injection(H, A)
  <2>1. \A i \in H : f[i] = q[i] /\ q[i] \in A
    OBVIOUS
  <2>2. \A i, j \in H : f[i] = f[j] => i = j
    BY <2>1
  <2>3. f = [i \in H |-> f[i]]
    OBVIOUS
  <2> HIDE DEF f, H
  <2> QED BY <2>1, <2>2, <2>3 DEF Injection, IsInjective
<1>6. IsFiniteSet(A) /\ Cardinality(A) \in Nat
  BY <1>2, FS_Subset, FS_CardinalityType
<1>7. Cardinality(H) <= Cardinality(A)
  <2> HIDE DEF f, H
  <2> QED BY <1>5, <1>6, FS_Injection
<1> DEFINE h == Cardinality(H)  c == Cardinality(A)
<1>8. h \in Nat /\ c \in Nat /\ 2 * h >= n /\ h <= c
  BY <1>4, <1>6, <1>7
<1> HIDE DEF h, c
<1>9. 2 * c >= n
  BY <1>8
<1> QED BY <1>2, <1>9 DEF c

LEMMA SampleHalved ==
    ASSUME LedgerTyped, IdsInv
    PROVE  SampleIsHalved
<1> DEFINE E == {a \in DOMAIN authors : Coverage(WorksOf(a), "bookmarks") > 0}
           size(a) == Cardinality(WorksOf(a))
           rows == Ranked(E, LAMBDA a, b :
                              \/ size(a) > size(b)
                              \/ size(a) = size(b) /\ authors[a].id <= authors[b].id)
           upToOf(x) == {y \in E : \/ size(y) > size(x)
                                   \/ size(y) = size(x) /\ authors[y].id <= authors[x].id}
           upTo == [x \in E |-> upToOf(x)]
           N == 1 .. Cardinality(E)
<1>1. /\ IsFiniteSet(E) /\ Cardinality(E) \in Nat
      /\ \A a \in E : authors[a].id \in Nat
      /\ \A a, b \in E : authors[a].id = authors[b].id => a = b
  <2>1. /\ IsFiniteSet(DOMAIN authors)
        /\ \A a \in DOMAIN authors : authors[a].id \in Nat
        /\ \A a, b \in DOMAIN authors : authors[a].id = authors[b].id => a = b
    BY DEF IdsInv, Numbered
  <2> QED BY <2>1, FS_Subset, FS_CardinalityType
<1>2. \A a \in E : size(a) \in Nat /\ Average(a, "bookmarks") \in Nat
  <2> SUFFICES ASSUME NEW a \in E
               PROVE  size(a) \in Nat /\ Average(a, "bookmarks") \in Nat
    OBVIOUS
  <2>1. Average(a, "bookmarks") \in Nat
    BY AverageTyped DEF Metric
  <2>2. WorksOf(a) \in SUBSET DOMAIN works
    BY DEF WorksOf
  <2>3. IsFiniteSet(WorksOf(a))
    BY <2>2, FS_Subset DEF IdsInv, Numbered
  <2> QED BY <2>1, <2>3, FS_CardinalityType
<1>3. /\ rows = [k \in N |-> CHOOSE x \in E : Cardinality(upToOf(x)) = k]
      /\ \A x \in E : upTo[x] = upToOf(x)
  BY DEF Ranked
<1> HIDE DEF E, size
<1>4. /\ \A x \in E : upTo[x] \subseteq E /\ x \in upTo[x]
      /\ \A x, y \in E : x \in upTo[y] \/ y \in upTo[x]
      /\ \A x, y \in E : x \in upTo[y] => upTo[x] \subseteq upTo[y]
      /\ \A x, y \in E : x \in upTo[y] /\ y \in upTo[x] => x = y
  BY <1>1, <1>2
<1>5. ListsOnce(rows, E)
  <2> HIDE DEF upTo, rows, upToOf
  <2>1. ASSUME NEW k \in N, \E x \in E : Cardinality(upTo[x]) = k
        PROVE  rows[k] \in E /\ Cardinality(upTo[rows[k]]) = k
    <3>1. rows[k] = CHOOSE x \in E : Cardinality(upToOf(x)) = k
      BY <1>3
    <3>2. \E x \in E : Cardinality(upToOf(x)) = k
      BY <1>3, <2>1
    <3> QED BY <1>3, <3>1, <3>2
  <2>2. rows = [k \in N |-> rows[k]]
    BY <1>3
  <2> QED BY <1>1, <1>4, <2>1, <2>2, RanksInOrder
<1> DEFINE n == Min({SampleLimit, Len(rows)})
           sample == SubSeq(rows, 1, n)
           S == Range(sample)
           volume == MedianScaled([i \in 1 .. Len(sample) |-> size(sample[i]) * 100])
           quality == MedianScaled([i \in 1 .. Len(sample) |->
                                       Average(sample[i], "bookmarks")])
<1>6. QualityMap = [a \in S |->
                       Quadrant(size(a) * 100 >= volume,
                                Average(a, "bookmarks") >= quality)]
  BY DEF QualityMap, E, size
<1> HIDE DEF rows, upTo, upToOf
<1>7. n \in Nat /\ n <= Cardinality(E) /\ Len(rows) = Cardinality(E)
  <2>1. Len(rows) = Cardinality(E) /\ Len(rows) \in Nat
    BY <1>5 DEF ListsOnce
  <2>2. SampleLimit \in Nat
    BY AnalyticsAssumption DEF AnalyticsAssumption
  <2>3. \A x, y \in Nat : Min({x, y}) \in Nat /\ Min({x, y}) <= y
    <3>1. \A x, y \in Nat : Min({x, y}) = IF x <= y THEN x ELSE y
      BY DEF Min
    <3> QED BY <3>1
  <2> QED BY <2>1, <2>2, <2>3
<1> HIDE DEF n
<1>8. /\ Len(sample) = n
      /\ \A i \in 1 .. n : i \in N /\ sample[i] = rows[i]
      /\ sample \in [1 .. n -> E]
  <2>1. rows \in [1 .. Cardinality(E) -> E] /\ Cardinality(E) \in Nat
    BY <1>5 DEF ListsOnce
  <2>2. rows \in Seq(E)
    BY <2>1
  <2>3. /\ Len(sample) = n
        /\ \A i \in 1 .. n : i \in 1 .. Cardinality(E) /\ sample[i] = rows[i]
    BY <1>7, <2>2
  <2>4. sample \in Seq(E)
    BY <1>7, <2>2, <2>3
  <2> HIDE DEF sample
  <2> QED BY <2>3, <2>4
<1> HIDE DEF sample
<1>9. /\ S \subseteq E
      /\ sample \in [1 .. n -> S]
      /\ \A a \in S : \E i \in 1 .. n : sample[i] = a
      /\ \A i, j \in 1 .. n : sample[i] = sample[j] => i = j
  BY <1>5, <1>8 DEF Range, ListsOnce
<1> HIDE DEF S, N
<1>10. ASSUME NEW g \in [S -> Nat]
       PROVE  2 * Cardinality({a \in S : g[a] >= MedianScaled([i \in 1 .. n |-> g[sample[i]]])})
                  >= Cardinality(S)
  <2> DEFINE s == [i \in 1 .. n |-> g[sample[i]]]
  <2>1. s = [i \in 1 .. n |-> g[sample[i]]]
    OBVIOUS
  <2> DEFINE A == {a \in S : g[a] >= MedianScaled(s)}
  <2>2. A \subseteq S /\ \A a \in S : a \in A <=> g[a] >= MedianScaled(s)
    OBVIOUS
  <2> HIDE DEF s, A
  <2>3. 2 * Cardinality(A) >= Cardinality(S)
    BY <1>7, <1>9, <2>1, <2>2, HalfOfSample
  <2> QED BY <2>3 DEF s, A
<1>11. 2 * Cardinality({a \in S : size(a) * 100 >= volume}) >= Cardinality(S)
  <2> DEFINE g == [a \in S |-> size(a) * 100]
  <2>1. g \in [S -> Nat]
    BY <1>2, <1>9
  <2>2. [i \in 1 .. n |-> g[sample[i]]] = [i \in 1 .. Len(sample) |-> size(sample[i]) * 100]
    BY <1>8, <1>9
  <2>3. \A a \in S : g[a] = size(a) * 100
    OBVIOUS
  <2> HIDE DEF g
  <2>4. {a \in S : g[a] >= volume} = {a \in S : size(a) * 100 >= volume}
    BY <2>3
  <2> QED BY <1>10, <2>1, <2>2, <2>4
<1>12. 2 * Cardinality({a \in S : Average(a, "bookmarks") >= quality}) >= Cardinality(S)
  <2> DEFINE g == [a \in S |-> Average(a, "bookmarks")]
  <2>1. g \in [S -> Nat]
    BY <1>2, <1>9
  <2>2. [i \in 1 .. n |-> g[sample[i]]]
            = [i \in 1 .. Len(sample) |-> Average(sample[i], "bookmarks")]
    BY <1>8, <1>9
  <2>3. \A a \in S : g[a] = Average(a, "bookmarks")
    OBVIOUS
  <2> HIDE DEF g
  <2>4. {a \in S : g[a] >= quality} = {a \in S : Average(a, "bookmarks") >= quality}
    BY <2>3
  <2> QED BY <1>10, <2>1, <2>2, <2>4
<1> HIDE DEF volume, quality
<1>13. \A v, q \in BOOLEAN : /\ Quadrant(v, q) \in {"core", "volume"} <=> v
                             /\ Quadrant(v, q) \in {"core", "boutique"} <=> q
  BY DEF Quadrant
<1>14. \A a \in S : /\ QualityMap[a] \in {"core", "volume"} <=> size(a) * 100 >= volume
                    /\ QualityMap[a] \in {"core", "boutique"}
                           <=> Average(a, "bookmarks") >= quality
  <2> SUFFICES ASSUME NEW a \in S
               PROVE  /\ QualityMap[a] \in {"core", "volume"} <=> size(a) * 100 >= volume
                      /\ QualityMap[a] \in {"core", "boutique"}
                             <=> Average(a, "bookmarks") >= quality
    OBVIOUS
  <2> DEFINE v == (size(a) * 100 >= volume)  q == (Average(a, "bookmarks") >= quality)
  <2>1. QualityMap[a] = Quadrant(v, q)
    BY <1>6
  <2>2. v \in BOOLEAN /\ q \in BOOLEAN
    OBVIOUS
  <2> HIDE DEF v, q
  <2>3. /\ QualityMap[a] \in {"core", "volume"} <=> v
        /\ QualityMap[a] \in {"core", "boutique"} <=> q
    BY <1>13, <2>1, <2>2
  <2> QED BY <2>3 DEF v, q
<1>15. /\ DOMAIN QualityMap = S
       /\ {a \in S : QualityMap[a] \in {"core", "volume"}}
              = {a \in S : size(a) * 100 >= volume}
       /\ {a \in S : QualityMap[a] \in {"core", "boutique"}}
              = {a \in S : Average(a, "bookmarks") >= quality}
  BY <1>6, <1>14
<1> QED BY <1>11, <1>12, <1>15 DEF SampleIsHalved

\* THEOREM (phase4-author-analytics.md:50): whatever the sample of the quality map
\* is, at least half of it is high in volume and at least half in quality.
THEOREM SamplesAreHalved == CatalogSpec => []SampleIsHalved
<1>1. HistoryInv /\ IdsInv => SampleIsHalved
  BY SampleHalved DEF HistoryInv
<1> QED BY <1>1, CatalogInvariants, PTL
-----------------------------------------------------------------------------
(* The order of the edges of a tag graph *)

\* What a pair of tags is when some work has both.
EdgeType(e) ==
    /\ e.left \in Range(TagNames) /\ e.right \in Range(TagNames)
    /\ e.both \in Nat /\ e.both > 0
    /\ e.jaccard \in Nat
    /\ e.lift[1] \in Nat /\ e.lift[2] \in Nat /\ e.lift[2] > 0

LEMMA EdgesTyped ==
    ASSUME NEW W, IsFiniteSet(W)
    PROVE  /\ IsFiniteSet(EdgesOf(W))
           /\ \A e \in EdgesOf(W) :
                  /\ EdgeType(e)
                  /\ e = Edge(W, e.left, e.right)
                  /\ e.both = Cardinality(Tagged(W, e.left) \cap Tagged(W, e.right))
<1> DEFINE D == DOMAIN TagNames
           f == [p \in D \X D |-> Edge(W, TagNames[p[1]], TagNames[p[2]])]
           all == {f[p] : p \in D \X D}
<1>1. IsFiniteSet(D)
  <2>1. TagNames \in Seq(Range(TagNames))
    BY AnalyticsAssumption DEF AnalyticsAssumption
  <2>2. D = 1 .. Len(TagNames) /\ Len(TagNames) \in Nat
    BY <2>1
  <2> QED BY <2>2, FS_Interval
<1>2. IsFiniteSet(all)
  <2>1. f \in Surjection(D \X D, all)
    BY DEF Surjection
  <2>2. IsFiniteSet(D \X D)
    <3> HIDE DEF D
    <3> QED BY <1>1, FS_Product
  <2> HIDE DEF f, all, D
  <2> QED BY <2>1, <2>2, FS_Surjection
<1>3. ASSUME NEW e \in EdgesOf(W)
      PROVE  \E i, j \in D : e = Edge(W, TagNames[i], TagNames[j]) /\ e.both > 0
  BY DEF EdgesOf
<1>4. EdgesOf(W) \subseteq all
  <2> SUFFICES ASSUME NEW e \in EdgesOf(W) PROVE e \in all
    OBVIOUS
  <2>1. PICK i \in D, j \in D : e = Edge(W, TagNames[i], TagNames[j])
    BY <1>3
  <2>2. <<i, j>> \in D \X D /\ f[<<i, j>>] = e
    BY <2>1
  <2> HIDE DEF f
  <2> QED BY <2>2
<1>5. IsFiniteSet(EdgesOf(W))
  <2> HIDE DEF all
  <2> QED BY <1>2, <1>4, FS_Subset
<1>6. ASSUME NEW e \in EdgesOf(W)
      PROVE  /\ EdgeType(e)
             /\ e = Edge(W, e.left, e.right)
             /\ e.both = Cardinality(Tagged(W, e.left) \cap Tagged(W, e.right))
  <2>1. PICK i \in D, j \in D : e = Edge(W, TagNames[i], TagNames[j]) /\ e.both > 0
    BY <1>3
  <2> DEFINE l == TagNames[i]  r == TagNames[j]
             L == Tagged(W, l)  R == Tagged(W, r)
             both == Cardinality(L \cap R)  left == Cardinality(L)  right == Cardinality(R)
  <2>2. /\ e.left = l /\ e.right = r /\ e.both = both
        /\ e.jaccard = RatioBasisPoints(both, left + right - both)
        /\ e.lift = <<both * Cardinality(W), left * right>>
    BY <2>1 DEF Edge
  <2>3. /\ both \in Nat /\ left \in Nat /\ right \in Nat /\ Cardinality(W) \in Nat
        /\ both <= left /\ both <= right
    <3>1. IsFiniteSet(L) /\ IsFiniteSet(R)
      BY FS_Subset DEF Tagged
    <3> HIDE DEF L, R
    <3>2. L \cap R \in SUBSET L /\ L \cap R \in SUBSET R
      OBVIOUS
    <3> QED BY <3>1, <3>2, FS_Subset, FS_CardinalityType
  <2>4. l \in Range(TagNames) /\ r \in Range(TagNames)
    BY DEF Range
  <2> HIDE DEF both, left, right, l, r
  <2>5. both > 0 /\ left > 0 /\ right > 0
    BY <2>1, <2>2, <2>3
  <2>6. RatioBasisPoints(both, left + right - both) \in Nat
    <3> DEFINE d == left + right - both  n == both * FullShare + d \div 2
    <3>1. d \in Nat /\ d > 0
      BY <2>3, <2>5
    <3> HIDE DEF d
    <3>2. n \in Nat
      <4>1. \A x, y \in Nat : x * y \in Nat /\ x + y \in Nat /\ x \div 2 \in Nat
        OBVIOUS
      <4> QED BY <2>3, <3>1, <4>1, FullTyped
    <3>3. RatioBasisPoints(both, d) = n \div d
      BY <3>1 DEF RatioBasisPoints, BasisPoints
    <3> HIDE DEF n
    <3>4. n \div d \in Nat
      BY <3>1, <3>2, QuotientGrows
    <3> QED BY <3>3, <3>4 DEF d
  <2>7. /\ both * Cardinality(W) \in Nat
        /\ left * right \in Nat /\ left * right > 0
    BY <2>3, <2>5
  <2>8. EdgeType(e)
    BY <2>2, <2>3, <2>4, <2>5, <2>6, <2>7 DEF EdgeType
  <2> QED BY <2>1, <2>2, <2>8 DEF l, r, both
<1> QED BY <1>5, <1>6

\* e lifts its pair no less than f.
Lifts(e, f) == f.lift[1] * e.lift[2] <= e.lift[1] * f.lift[2]

\* Fractions are ordered.
LEMMA FractionsOrdered ==
    ASSUME NEW a \in Nat, NEW b \in Nat, NEW c \in Nat, NEW d \in Nat,
           NEW x \in Nat, NEW y \in Nat, b > 0, d > 0, y > 0,
           c * b <= a * d, x * d <= c * y
    PROVE  x * b <= a * y
<1> DEFINE xd == x * d  cy == c * y  cb == c * b  ad == a * d
<1>1. xd \in Nat /\ cy \in Nat /\ cb \in Nat /\ ad \in Nat /\ xd <= cy /\ cb <= ad
  OBVIOUS
<1>2. (x * b) * d = xd * b /\ cy * b = cb * y /\ ad * y = (a * y) * d
  OBVIOUS
<1> HIDE DEF xd, cy, cb, ad
<1>3. xd * b <= cy * b /\ cb * y <= ad * y
  BY <1>1, TimesGrows
<1> DEFINE p == x * b  q == a * y  s == xd * b  t == cy * b  u == ad * y
<1>4. p \in Nat /\ q \in Nat /\ s \in Nat /\ t \in Nat /\ u \in Nat
      /\ p * d = s /\ s <= t /\ t <= u /\ u = q * d
  BY <1>1, <1>2, <1>3
<1> HIDE DEF p, q, s, t, u
<1>5. p * d <= q * d
  BY <1>4
<1>6. p <= q
  <2>1. ASSUME q < p PROVE FALSE
    <3>1. q + 1 <= p /\ q + 1 \in Nat
      BY <1>4, <2>1
    <3>2. (q + 1) * d <= p * d
      BY <1>4, <3>1, TimesGrows
    <3>3. (q + 1) * d = q * d + d /\ q * d \in Nat /\ p * d \in Nat
      BY <1>4
    <3> QED BY <1>5, <3>2, <3>3
  <2> QED BY <1>4, <2>1
<1> QED BY <1>6 DEF p, q

LEMMA LiftsOrdered ==
    /\ \A e, f : EdgeType(e) /\ EdgeType(f) => Lifts(e, f) \/ Lifts(f, e)
    /\ \A e, f, g : EdgeType(e) /\ EdgeType(f) /\ EdgeType(g)
                    /\ Lifts(e, f) /\ Lifts(f, g) => Lifts(e, g)
<1>1. ASSUME NEW e, NEW f, EdgeType(e), EdgeType(f)
      PROVE  Lifts(e, f) \/ Lifts(f, e)
  <2> DEFINE a == f.lift[1] * e.lift[2]  b == e.lift[1] * f.lift[2]
  <2>1. a \in Nat /\ b \in Nat
    BY <1>1 DEF EdgeType
  <2>2. Lifts(e, f) <=> a <= b
    BY DEF Lifts
  <2>3. Lifts(f, e) <=> b <= a
    BY DEF Lifts
  <2> HIDE DEF a, b
  <2> QED BY <2>1, <2>2, <2>3
<1>2. ASSUME NEW e, NEW f, NEW g, EdgeType(e), EdgeType(f), EdgeType(g),
             Lifts(e, f), Lifts(f, g)
      PROVE  Lifts(e, g)
  BY <1>2, FractionsOrdered DEF EdgeType, Lifts
<1> QED BY <1>1, <1>2

\* The order of edges, one key after the other.
EdgeLess(e, f) ==
    \/ f.both < e.both
    \/ /\ e.both = f.both
       /\ \/ f.jaccard < e.jaccard
          \/ /\ e.jaccard = f.jaccard
             /\ \/ ~Lifts(f, e)
                \/ /\ Lifts(e, f) /\ Lifts(f, e)
                   /\ \/ Position(e.left) < Position(f.left)
                      \/ /\ Position(e.left) = Position(f.left)
                         /\ Position(e.right) < Position(f.right)

LEMMA BeforeIsLexical ==
    ASSUME NEW e, NEW f, EdgeType(e), EdgeType(f)
    PROVE  EdgeBefore(e, f) <=> EdgeLess(e, f)
<1> DEFINE c1 == f.both - e.both
           c2 == f.jaccard - e.jaccard
           c3 == f.lift[1] * e.lift[2] - e.lift[1] * f.lift[2]
           c4 == Position(e.left) - Position(f.left)
           c5 == Position(e.right) - Position(f.right)
           key == <<c1, c2, c3, c4, c5>>
<1>1. EdgeBefore(e, f) <=> \E i \in DOMAIN key : key[i] < 0 /\ \A j \in 1 .. i - 1 : key[j] = 0
  BY DEF EdgeBefore
<1>2. DOMAIN key = {1, 2, 3, 4, 5}
  <2> HIDE DEF c1, c2, c3, c4, c5
  <2> QED OBVIOUS
<1>3. key[1] = c1 /\ key[2] = c2 /\ key[3] = c3 /\ key[4] = c4 /\ key[5] = c5
  <2> HIDE DEF c1, c2, c3, c4, c5
  <2> QED OBVIOUS
<1>4. 1 .. 1 - 1 = {} /\ 1 .. 2 - 1 = {1} /\ 1 .. 3 - 1 = {1, 2}
      /\ 1 .. 4 - 1 = {1, 2, 3} /\ 1 .. 5 - 1 = {1, 2, 3, 4}
  OBVIOUS
<1>5. EdgeBefore(e, f) <=>
        \/ c1 < 0
        \/ c2 < 0 /\ c1 = 0
        \/ c3 < 0 /\ c1 = 0 /\ c2 = 0
        \/ c4 < 0 /\ c1 = 0 /\ c2 = 0 /\ c3 = 0
        \/ c5 < 0 /\ c1 = 0 /\ c2 = 0 /\ c3 = 0 /\ c4 = 0
  <2> DEFINE at(i) == key[i] < 0 /\ \A j \in 1 .. i - 1 : key[j] = 0
  <2>1. EdgeBefore(e, f) <=> at(1) \/ at(2) \/ at(3) \/ at(4) \/ at(5)
    <3> HIDE DEF key
    <3> QED BY <1>1, <1>2
  <2> HIDE DEF key, c1, c2, c3, c4, c5
  <2>2. at(1) <=> c1 < 0
    BY <1>3, <1>4
  <2>3. at(2) <=> c2 < 0 /\ c1 = 0
    BY <1>3, <1>4
  <2>4. at(3) <=> c3 < 0 /\ c1 = 0 /\ c2 = 0
    BY <1>3, <1>4
  <2>5. at(4) <=> c4 < 0 /\ c1 = 0 /\ c2 = 0 /\ c3 = 0
    BY <1>3, <1>4
  <2>6. at(5) <=> c5 < 0 /\ c1 = 0 /\ c2 = 0 /\ c3 = 0 /\ c4 = 0
    BY <1>3, <1>4
  <2> HIDE DEF at
  <2> QED BY <2>1, <2>2, <2>3, <2>4, <2>5, <2>6
<1>6. /\ c1 < 0 <=> f.both < e.both
      /\ c1 = 0 <=> e.both = f.both
      /\ c2 < 0 <=> f.jaccard < e.jaccard
      /\ c2 = 0 <=> e.jaccard = f.jaccard
  BY DEF EdgeType
<1>7. /\ c3 < 0 <=> ~Lifts(f, e)
      /\ c3 = 0 <=> Lifts(e, f) /\ Lifts(f, e)
  <2> DEFINE a == f.lift[1] * e.lift[2]  b == e.lift[1] * f.lift[2]
  <2>1. a \in Nat /\ b \in Nat
    BY DEF EdgeType
  <2>2. (Lifts(e, f) <=> a <= b) /\ (Lifts(f, e) <=> b <= a) /\ c3 = a - b
    BY DEF Lifts
  <2> HIDE DEF a, b, c3
  <2> QED BY <2>1, <2>2
<1>8. /\ c4 < 0 <=> Position(e.left) < Position(f.left)
      /\ c4 = 0 <=> Position(e.left) = Position(f.left)
      /\ c5 < 0 <=> Position(e.right) < Position(f.right)
      /\ c5 = 0 <=> Position(e.right) = Position(f.right)
  BY PositionsTyped DEF EdgeType
<1> HIDE DEF c1, c2, c3, c4, c5, key
<1>9. EdgeBefore(e, f) <=>
        \/ f.both < e.both
        \/ f.jaccard < e.jaccard /\ e.both = f.both
        \/ ~Lifts(f, e) /\ e.both = f.both /\ e.jaccard = f.jaccard
        \/ /\ Position(e.left) < Position(f.left)
           /\ e.both = f.both /\ e.jaccard = f.jaccard /\ Lifts(e, f) /\ Lifts(f, e)
        \/ /\ Position(e.right) < Position(f.right)
           /\ e.both = f.both /\ e.jaccard = f.jaccard /\ Lifts(e, f) /\ Lifts(f, e)
           /\ Position(e.left) = Position(f.left)
  BY <1>5, <1>6, <1>7, <1>8
<1> QED BY <1>9 DEF EdgeLess

\* The edges that come no later than f.
NoLater(A, f) == {e \in A : e = f \/ EdgeBefore(e, f)}

\* The order of the edges is total: any two are apart, whatever they tie on.
LEMMA EdgesOrdered ==
    ASSUME NEW W, IsFiniteSet(W)
    PROVE  LET E == EdgesOf(W) IN
           /\ \A e, f \in E : e = f \/ EdgeBefore(e, f) \/ EdgeBefore(f, e)
           /\ \A e, f \in E : ~(EdgeBefore(e, f) /\ EdgeBefore(f, e))
           /\ \A e, f, g \in E : EdgeBefore(e, f) /\ EdgeBefore(f, g) => EdgeBefore(e, g)
           /\ \A e, f \in E : EdgeBefore(e, f) => f.both <= e.both
<1> DEFINE E == EdgesOf(W)
<1>1. \A e \in E : EdgeType(e) /\ e = Edge(W, e.left, e.right)
  BY EdgesTyped
<1> HIDE DEF E
<1>2. \A e, f \in E : EdgeBefore(e, f) <=> EdgeLess(e, f)
  BY <1>1, BeforeIsLexical
<1>3. ASSUME NEW e \in E, NEW f \in E
      PROVE  /\ e.both \in Nat /\ f.both \in Nat /\ e.jaccard \in Nat /\ f.jaccard \in Nat
             /\ Position(e.left) \in Nat /\ Position(f.left) \in Nat
             /\ Position(e.right) \in Nat /\ Position(f.right) \in Nat
             /\ Lifts(e, f) \/ Lifts(f, e)
  BY <1>1, PositionsTyped, LiftsOrdered DEF EdgeType
<1>4. ASSUME NEW e \in E, NEW f \in E
      PROVE  e = f \/ EdgeLess(e, f) \/ EdgeLess(f, e)
  <2>1. CASE Position(e.left) = Position(f.left) /\ Position(e.right) = Position(f.right)
    <3>1. e.left = f.left /\ e.right = f.right
      BY <1>1, <2>1, PositionsTyped DEF EdgeType
    <3> QED BY <1>1, <3>1
  <2>2. CASE ~(Position(e.left) = Position(f.left) /\ Position(e.right) = Position(f.right))
    BY <1>3, <2>2 DEF EdgeLess
  <2> QED BY <2>1, <2>2
<1>5. ASSUME NEW e \in E, NEW f \in E
      PROVE  ~(EdgeLess(e, f) /\ EdgeLess(f, e))
  BY <1>3 DEF EdgeLess
<1>6. ASSUME NEW e \in E, NEW f \in E, NEW g \in E, EdgeLess(e, f), EdgeLess(f, g)
      PROVE  EdgeLess(e, g)
  <2>1. /\ EdgeType(e) /\ EdgeType(f) /\ EdgeType(g)
        /\ Lifts(e, f) /\ Lifts(f, g) => Lifts(e, g)
        /\ Lifts(g, f) /\ Lifts(f, e) => Lifts(g, e)
        /\ Lifts(g, e) /\ Lifts(e, f) => Lifts(g, f)
        /\ Lifts(f, g) /\ Lifts(g, e) => Lifts(f, e)
    BY <1>1, LiftsOrdered
  <2>2. /\ Lifts(e, f) \/ Lifts(f, e)
        /\ Lifts(f, g) \/ Lifts(g, f)
        /\ Lifts(e, g) \/ Lifts(g, e)
    BY <2>1, LiftsOrdered
  <2>3. /\ e.both \in Nat /\ f.both \in Nat /\ g.both \in Nat
        /\ e.jaccard \in Nat /\ f.jaccard \in Nat /\ g.jaccard \in Nat
        /\ Position(e.left) \in Nat /\ Position(f.left) \in Nat /\ Position(g.left) \in Nat
        /\ Position(e.right) \in Nat /\ Position(f.right) \in Nat /\ Position(g.right) \in Nat
    BY <1>3
  <2> QED BY <1>6, <2>1, <2>2, <2>3 DEF EdgeLess
<1>7. ASSUME NEW e \in E, NEW f \in E, EdgeLess(e, f)
      PROVE  f.both <= e.both
  BY <1>3, <1>7 DEF EdgeLess
<1> QED BY <1>2, <1>4, <1>5, <1>6, <1>7 DEF E

SortedEdges(A) == Ranked(A, LAMBDA e, f : e = f \/ EdgeBefore(e, f))

\* The edges that are returned first have the most works.
LEMMA EdgesSorted ==
    ASSUME NEW W, IsFiniteSet(W), NEW A, A \subseteq EdgesOf(W)
    PROVE  LET q == SortedEdges(A)  n == Cardinality(A) IN
           /\ IsFiniteSet(A) /\ n \in Nat
           /\ ListsOnce(q, A)
           /\ \A k \in 1 .. n : Cardinality(NoLater(A, q[k])) = k
           /\ \A j, k \in 1 .. n : j <= k => q[k].both <= q[j].both
<1> DEFINE q == SortedEdges(A)  n == Cardinality(A)
           upTo == [f \in A |-> NoLater(A, f)]
<1>1. IsFiniteSet(A)
  BY EdgesTyped, FS_Subset
<1>2. /\ \A e, f \in A : e = f \/ EdgeBefore(e, f) \/ EdgeBefore(f, e)
      /\ \A e, f \in A : ~(EdgeBefore(e, f) /\ EdgeBefore(f, e))
      /\ \A e, f, g \in A : EdgeBefore(e, f) /\ EdgeBefore(f, g) => EdgeBefore(e, g)
      /\ \A e, f \in A : EdgeBefore(e, f) => f.both <= e.both
      /\ \A e \in A : e.both \in Nat
  <2>1. \A e \in EdgesOf(W) : e.both \in Nat
    BY EdgesTyped DEF EdgeType
  <2> QED BY <2>1, EdgesOrdered
<1>3. /\ \A x \in A : upTo[x] \subseteq A /\ x \in upTo[x]
      /\ \A x, y \in A : x \in upTo[y] \/ y \in upTo[x]
      /\ \A x, y \in A : x \in upTo[y] => upTo[x] \subseteq upTo[y]
      /\ \A x, y \in A : x \in upTo[y] /\ y \in upTo[x] => x = y
  BY <1>2 DEF NoLater
<1>4. q = [k \in 1 .. n |-> CHOOSE x \in A : Cardinality(NoLater(A, x)) = k]
  BY DEF SortedEdges, Ranked, NoLater
<1>5. ASSUME NEW k \in 1 .. n, \E x \in A : Cardinality(upTo[x]) = k
      PROVE  q[k] \in A /\ Cardinality(upTo[q[k]]) = k
  <2>1. q[k] = CHOOSE x \in A : Cardinality(NoLater(A, x)) = k
    BY <1>4
  <2>2. \E x \in A : Cardinality(NoLater(A, x)) = k
    BY <1>5
  <2>3. q[k] \in A /\ Cardinality(NoLater(A, q[k])) = k
    BY <2>1, <2>2
  <2> QED BY <2>3
<1>6. q = [k \in 1 .. n |-> q[k]]
  BY <1>4
<1>7. /\ ListsOnce(q, A)
      /\ \A k \in 1 .. n : Cardinality(upTo[q[k]]) = k
      /\ \A j, k \in 1 .. n : j <= k => q[j] \in upTo[q[k]]
  <2> HIDE DEF upTo, q
  <2> QED BY <1>1, <1>3, <1>5, <1>6, RanksInOrder
<1> HIDE DEF q
<1>8. n \in Nat /\ \A k \in 1 .. n : q[k] \in A
  BY <1>7 DEF ListsOnce
<1>9. \A k \in 1 .. n : Cardinality(NoLater(A, q[k])) = k
  BY <1>7, <1>8
<1>10. ASSUME NEW j \in 1 .. n, NEW k \in 1 .. n, j <= k
       PROVE  q[k].both <= q[j].both
  <2>1. q[j] \in NoLater(A, q[k]) /\ q[j] \in A /\ q[k] \in A
    BY <1>7, <1>8, <1>10
  <2>2. q[j] = q[k] \/ EdgeBefore(q[j], q[k])
    BY <2>1 DEF NoLater
  <2> QED BY <1>2, <2>1, <2>2
<1> QED BY <1>1, <1>7, <1>8, <1>9, <1>10 DEF q

\* Raising the threshold keeps the first edges, in their order.
LEMMA FirstEdges ==
    ASSUME NEW W, IsFiniteSet(W), NEW A, A \subseteq EdgesOf(W), NEW h \in Nat,
           NEW B, B = {e \in A : e.both >= h}
    PROVE  /\ Cardinality(B) \in Nat /\ Cardinality(A) \in Nat
           /\ Cardinality(B) <= Cardinality(A)
           /\ \A k \in 1 .. Cardinality(B) : SortedEdges(B)[k] = SortedEdges(A)[k]
           /\ \A k \in 1 .. Cardinality(A) :
                  SortedEdges(A)[k].both >= h <=> k <= Cardinality(B)
<1> DEFINE p == SortedEdges(A)  q == SortedEdges(B)
           n == Cardinality(A)  m == Cardinality(B)
<1>1. B \subseteq EdgesOf(W)
  OBVIOUS
<1>2. /\ IsFiniteSet(A) /\ n \in Nat
      /\ ListsOnce(p, A)
      /\ \A k \in 1 .. n : Cardinality(NoLater(A, p[k])) = k
  BY EdgesSorted
<1>3. /\ m \in Nat
      /\ ListsOnce(q, B)
      /\ \A k \in 1 .. m : Cardinality(NoLater(B, q[k])) = k
  BY <1>1, EdgesSorted
<1>4. m <= n
  <2>1. B \in SUBSET A
    OBVIOUS
  <2> QED BY <1>2, <2>1, FS_Subset
<1>5. ASSUME NEW b \in B
      PROVE  NoLater(A, b) = NoLater(B, b)
  <2>1. ASSUME NEW e \in A, e = b \/ EdgeBefore(e, b)
        PROVE  e \in B
    <3>1. e \in EdgesOf(W) /\ b \in EdgesOf(W) /\ b.both >= h
      OBVIOUS
    <3>2. e.both \in Nat /\ b.both \in Nat
      BY <3>1, EdgesTyped DEF EdgeType
    <3>3. b.both <= e.both
      BY <2>1, <3>1, <3>2, EdgesOrdered
    <3> QED BY <3>1, <3>2, <3>3
  <2> QED BY <2>1 DEF NoLater
<1> HIDE DEF p, q, n, m
<1>6. ASSUME NEW k \in 1 .. m
      PROVE  k \in 1 .. n /\ q[k] \in B /\ q[k] = p[k]
  <2>1. k \in 1 .. n
    BY <1>2, <1>3, <1>4
  <2>2. q[k] \in B
    BY <1>3 DEF m, ListsOnce
  <2>3. Cardinality(NoLater(A, q[k])) = k
    BY <1>3, <1>5, <2>2
  <2>4. PICK j \in 1 .. n : p[j] = q[k]
    BY <1>2, <2>2 DEF n, ListsOnce
  <2>5. j = k
    BY <1>2, <2>3, <2>4
  <2> QED BY <2>1, <2>2, <2>4, <2>5
<1>7. ASSUME NEW k \in 1 .. n
      PROVE  p[k].both >= h <=> k <= m
  <2>1. p[k] \in A
    BY <1>2 DEF n, ListsOnce
  <2>2. ASSUME p[k].both >= h PROVE k <= m
    <3>1. p[k] \in B
      BY <2>1, <2>2
    <3>2. PICK j \in 1 .. m : q[j] = p[k]
      BY <1>3, <3>1 DEF m, ListsOnce
    <3>3. Cardinality(NoLater(A, p[k])) = j
      BY <1>3, <1>5, <3>1, <3>2
    <3> QED BY <1>2, <1>3, <3>2, <3>3
  <2>3. ASSUME k <= m PROVE p[k].both >= h
    <3>1. k \in 1 .. m
      BY <1>2, <1>3, <2>3
    <3> QED BY <1>6, <3>1
  <2> QED BY <2>2, <2>3
<1> QED BY <1>2, <1>3, <1>4, <1>6, <1>7 DEF p, q, n, m

\* The edges of an anchor, and those that some number of works has.
Anchored(W, anchor) ==
    {e \in EdgesOf(W) : anchor = NoAnchor \/ anchor \cap {e.left, e.right} # {}}
AtLeast(A, h) == {e \in A : e.both >= h}
LEMMA HeadOfList ==
    ASSUME NEW S, NEW q \in Seq(S), NEW r \in Nat, r <= Len(q)
    PROVE  SubSeq(q, 1, r) = [k \in 1 .. r |-> q[k]] /\ Len(SubSeq(q, 1, r)) = r
<1> DEFINE s == SubSeq(q, 1, r)
<1>1. s \in Seq(S) /\ Len(s) = r /\ \A k \in 1 .. r : s[k] = q[k]
  OBVIOUS
<1> HIDE DEF s
<1>2. s = [k \in 1 .. Len(s) |-> s[k]]
  BY <1>1
<1>3. s = [k \in 1 .. r |-> q[k]]
  BY <1>1, <1>2
<1> QED BY <1>1, <1>3 DEF s

\* Whatever the threshold and the limit, the answer is the head of one list.
LEMMA GraphEdges ==
    ASSUME NEW W, IsFiniteSet(W), NEW anchor, NEW minimum \in Nat, NEW limit \in Nat,
           NEW A, A = Anchored(W, anchor),
           NEW r, r = Least(limit, Cardinality(AtLeast(A, minimum))),
           NEW g, g = AssociationGraph(EdgesOf(W), anchor, minimum, limit)
    PROVE  /\ r \in Nat /\ r <= Cardinality(A)
           /\ g.edges = [k \in 1 .. r |-> SortedEdges(A)[k]]
           /\ Len(g.edges) = r
<1> DEFINE B == AtLeast(A, minimum)  q == SortedEdges(B)  m == Cardinality(B)
<1>1. B = {e \in EdgesOf(W) :
              e.both >= minimum /\ (anchor = NoAnchor \/ anchor \cap {e.left, e.right} # {})}
  BY DEF AtLeast, Anchored
<1>2. g.edges = SubSeq(q, 1, Min({limit, Len(q)}))
  BY <1>1 DEF AssociationGraph, SortedEdges
<1>3. A \subseteq EdgesOf(W) /\ B = {e \in A : e.both >= minimum}
  BY DEF Anchored, AtLeast
<1>4. /\ m \in Nat /\ Cardinality(A) \in Nat /\ m <= Cardinality(A)
      /\ \A k \in 1 .. m : q[k] = SortedEdges(A)[k]
  <2> HIDE DEF B
  <2> QED BY <1>3, FirstEdges
<1>5. q \in [1 .. m -> B]
  <2>1. B \subseteq EdgesOf(W)
    BY <1>3
  <2>2. ListsOnce(q, B)
    <3> HIDE DEF B
    <3> QED BY <2>1, EdgesSorted
  <2> QED BY <2>2 DEF ListsOnce
<1> HIDE DEF q, B, m
<1>6. Len(q) = m /\ q \in Seq(B)
  BY <1>4, <1>5
<1>7. /\ r = Min({limit, m}) /\ r \in Nat /\ r <= m
  BY <1>4, LeastIsMin DEF m, B
<1> DEFINE s == SubSeq(q, 1, r)
<1>8. s = [k \in 1 .. r |-> q[k]] /\ Len(s) = r
  <2>1. r <= Len(q)
    BY <1>6, <1>7
  <2> QED BY <1>6, <1>7, <2>1, HeadOfList
<1>10. g.edges = s
  BY <1>2, <1>6, <1>7
<1> HIDE DEF s
<1>9. [k \in 1 .. r |-> q[k]] = [k \in 1 .. r |-> SortedEdges(A)[k]]
  BY <1>4, <1>7
<1>11. g.edges = [k \in 1 .. r |-> SortedEdges(A)[k]] /\ Len(g.edges) = r
  BY <1>8, <1>9, <1>10, Zenon
<1>12. r \in Nat /\ r <= Cardinality(A)
  BY <1>4, <1>7
<1> QED BY <1>11, <1>12

LEMMA IntervalCounted ==
    ASSUME NEW n \in Nat
    PROVE  IsFiniteSet(1 .. n) /\ Cardinality(1 .. n) = n
<1>1. IsFiniteSet(1 .. n) /\ Cardinality(1 .. n) = IF 1 > n THEN 0 ELSE n - 1 + 1
  BY FS_Interval
<1>2. (IF 1 > n THEN 0 ELSE n - 1 + 1) = n
  OBVIOUS
<1> QED BY <1>1, <1>2

EdgeKey(e) == <<e.left, e.right>>

\* The pairs of the first edges: one for each edge.
LEMMA KeysCounted ==
    ASSUME NEW W, IsFiniteSet(W), NEW A, A \subseteq EdgesOf(W),
           NEW r \in Nat, r <= Cardinality(A),
           NEW K, K = {EdgeKey(SortedEdges(A)[k]) : k \in 1 .. r}
    PROVE  /\ IsFiniteSet(K) /\ Cardinality(K) = r
           /\ \A n \in 1 .. Cardinality(A) : EdgeKey(SortedEdges(A)[n]) \in K <=> n <= r
<1> DEFINE p == SortedEdges(A)  n == Cardinality(A)
           f == [k \in 1 .. r |-> EdgeKey(p[k])]
<1>1. n \in Nat /\ ListsOnce(p, A)
  BY EdgesSorted
<1>2. \A k \in 1 .. n : p[k] \in A /\ p[k] = Edge(W, p[k].left, p[k].right)
  <2>1. \A k \in 1 .. n : p[k] \in A
    BY <1>1 DEF ListsOnce
  <2> HIDE DEF p, n
  <2> QED BY <2>1, EdgesTyped
<1>3. \A j, k \in 1 .. n : p[j] = p[k] => j = k
  BY <1>1 DEF ListsOnce
<1> HIDE DEF p, n
<1>4. ASSUME NEW j \in 1 .. n, NEW k \in 1 .. n, EdgeKey(p[j]) = EdgeKey(p[k])
      PROVE  j = k
  <2>1. p[j].left = p[k].left /\ p[j].right = p[k].right
    BY <1>4 DEF EdgeKey
  <2>2. p[j] = p[k]
    BY <1>2, <2>1
  <2> QED BY <1>3, <2>2
<1>5. \A k \in 1 .. r : k \in 1 .. n
  BY <1>1 DEF n
<1>6. K = {EdgeKey(p[k]) : k \in 1 .. r}
  BY DEF p
<1>7. f \in Bijection(1 .. r, K)
  <2>1. f \in [1 .. r -> K] /\ \A x \in K : \E k \in 1 .. r : f[k] = x
    BY <1>6
  <2>2. \A j, k \in 1 .. r : f[j] = f[k] => j = k
    BY <1>4, <1>5
  <2> HIDE DEF f
  <2> QED BY <2>1, <2>2 DEF Bijection, Injection, Surjection, IsInjective
<1>8. IsFiniteSet(1 .. r) /\ Cardinality(1 .. r) = r
  BY IntervalCounted
<1>9. IsFiniteSet(K) /\ Cardinality(K) = r
  <2> HIDE DEF f
  <2>1. ExistsBijection(1 .. r, K)
    BY <1>7, Zenon DEF ExistsBijection
  <2> QED BY <1>8, <2>1, FS_Bijection
<1>10. ASSUME NEW m \in 1 .. n
       PROVE  EdgeKey(p[m]) \in K <=> m <= r
  <2>1. ASSUME EdgeKey(p[m]) \in K PROVE m <= r
    <3>0. \A x \in K : \E k \in 1 .. r : x = EdgeKey(p[k])
      BY <1>6
    <3>1. PICK k \in 1 .. r : EdgeKey(p[m]) = EdgeKey(p[k])
      BY <2>1, <3>0
    <3>2. m = k
      BY <1>4, <1>5, <3>1
    <3> QED BY <3>2
  <2>2. ASSUME m <= r PROVE EdgeKey(p[m]) \in K
    <3>1. m \in 1 .. r
      BY <1>1, <2>2
    <3> QED BY <1>6, <3>1
  <2> QED BY <2>1, <2>2
<1> QED BY <1>9, <1>10 DEF p, n

\* The share of a part that is kept depends on the two numbers alone, and does
\* not rise as less is kept.
LEMMA SharesRetained ==
    ASSUME NEW r \in Nat
    PROVE  /\ \A K, L : /\ IsFiniteSet(K) /\ Cardinality(K) = r
                        /\ IsFiniteSet(L) /\ L \subseteq K
                        => Retention(K, L) = Retention(1 .. r, 1 .. Cardinality(L))
           /\ \A m, n \in Nat : m <= n /\ n <= r
                  => Retention(1 .. r, 1 .. m) <= Retention(1 .. r, 1 .. n)
<1> DEFINE share(k) == IF r = 0 THEN 0 ELSE BasisPoints(k, r)
<1>1. \A k \in Nat : IsFiniteSet(1 .. k) /\ Cardinality(1 .. k) = k
  BY IntervalCounted
<1>2. ASSUME NEW K, NEW L, IsFiniteSet(K), Cardinality(K) = r, L \subseteq K
      PROVE  Retention(K, L) = share(Cardinality(L))
  <2>1. K = {} <=> r = 0
    BY <1>2, FS_EmptySet
  <2>2. K \cap L = L
    BY <1>2
  <2> QED BY <1>2, <2>1, <2>2 DEF Retention
<1>3. ASSUME NEW m \in Nat, m <= r
      PROVE  Retention(1 .. r, 1 .. m) = share(m)
  <2>1. 1 .. m \subseteq 1 .. r
    BY <1>3
  <2> HIDE DEF share
  <2> QED BY <1>1, <1>2, <2>1
<1>4. ASSUME NEW m \in Nat, NEW n \in Nat, m <= n
      PROVE  share(m) <= share(n)
  <2>1. CASE r = 0
    BY <2>1
  <2>2. CASE r # 0
    <3> DEFINE a == m * FullShare  b == n * FullShare
    <3>1. a \in Nat /\ b \in Nat /\ a <= b
      BY <1>4, FullTyped, TimesGrows
    <3>2. share(m) = (a + r \div 2) \div r /\ share(n) = (b + r \div 2) \div r
      BY <2>2 DEF BasisPoints
    <3> HIDE DEF a, b
    <3> DEFINE c == a + r \div 2  d == b + r \div 2
    <3>3. c \in Nat /\ d \in Nat /\ c <= d /\ r > 0
      BY <2>2, <3>1
    <3>4. c \div r <= d \div r
      <4> HIDE DEF c, d
      <4> QED BY <3>3, QuotientGrows
    <3> QED BY <3>2, <3>4
  <2> QED BY <2>1, <2>2
<1> HIDE DEF share
<1>5. ASSUME NEW K, NEW L, IsFiniteSet(K), Cardinality(K) = r, IsFiniteSet(L), L \subseteq K
      PROVE  Retention(K, L) = Retention(1 .. r, 1 .. Cardinality(L))
  <2>1. Cardinality(L) \in Nat /\ Cardinality(L) <= r
    BY <1>5, FS_Subset, FS_CardinalityType
  <2> QED BY <1>2, <1>3, <1>5, <2>1
<1>6. ASSUME NEW m \in Nat, NEW n \in Nat, m <= n, n <= r
      PROVE  Retention(1 .. r, 1 .. m) <= Retention(1 .. r, 1 .. n)
  BY <1>3, <1>4, <1>6
<1> QED BY <1>5, <1>6

\* The thresholds start at one and rise.
LEMMA ThresholdsGrow ==
    /\ MaxEdgeLimit \in Nat /\ CandidateLimit \in Nat /\ CandidateLimit <= MaxEdgeLimit
    /\ \A i \in DOMAIN Thresholds : Thresholds[i] \in Nat
    /\ DOMAIN Thresholds = 1 .. Len(Thresholds) /\ Len(Thresholds) \in Nat
    /\ 1 \in DOMAIN Thresholds /\ Thresholds[1] = 1
    /\ \A i, j \in DOMAIN Thresholds : i <= j => Thresholds[i] <= Thresholds[j]
<1>1. /\ MaxEdgeLimit \in Nat /\ CandidateLimit \in Nat /\ CandidateLimit <= MaxEdgeLimit
      /\ Thresholds \in Seq(Nat \ {0}) /\ Thresholds # <<>> /\ Thresholds[1] = 1
      /\ \A i, j \in DOMAIN Thresholds : i < j => Thresholds[i] < Thresholds[j]
  BY TagAssumption DEF TagAssumption
<1>2. /\ DOMAIN Thresholds = 1 .. Len(Thresholds) /\ Len(Thresholds) \in Nat
      /\ 1 \in DOMAIN Thresholds /\ \A i \in DOMAIN Thresholds : Thresholds[i] \in Nat
  BY <1>1
<1>3. ASSUME NEW i \in DOMAIN Thresholds, NEW j \in DOMAIN Thresholds, i <= j
      PROVE  Thresholds[i] <= Thresholds[j]
  BY <1>1, <1>2, <1>3
<1> QED BY <1>1, <1>2, <1>3

\* What each threshold returns is the head of one list of the anchor's edges.
Heads(A, r, graphs) ==
    /\ \A i \in DOMAIN Thresholds :
           /\ r[i] \in Nat /\ r[i] <= Cardinality(A) /\ r[i] <= MaxEdgeLimit
           /\ graphs[i].edges = [k \in 1 .. r[i] |-> SortedEdges(A)[k]]
           /\ Len(graphs[i].edges) = r[i]
           /\ EdgeKeys(graphs[i]) = {EdgeKey(SortedEdges(A)[k]) : k \in 1 .. r[i]}
           /\ \A k \in 1 .. Cardinality(A) : k <= MaxEdgeLimit =>
                  (k <= r[i] <=> SortedEdges(A)[k].both >= Thresholds[i])
    /\ \A i, j \in DOMAIN Thresholds : i <= j => r[j] <= r[i]
    /\ r[1] = Least(MaxEdgeLimit, Cardinality(A))

LEMMA GraphsAreHeads ==
    ASSUME NEW W, IsFiniteSet(W), NEW anchor,
           NEW A, A = Anchored(W, anchor),
           NEW r, r = [i \in DOMAIN Thresholds |->
                           Least(MaxEdgeLimit, Cardinality(AtLeast(A, Thresholds[i])))],
           NEW graphs, graphs = [i \in DOMAIN Thresholds |->
               AssociationGraph(EdgesOf(W), anchor, Thresholds[i], MaxEdgeLimit)]
    PROVE  Heads(A, r, graphs)
<1> DEFINE D == DOMAIN Thresholds
           m(i) == Cardinality(AtLeast(A, Thresholds[i]))
<1>1. /\ MaxEdgeLimit \in Nat
      /\ \A i \in D : Thresholds[i] \in Nat
      /\ 1 \in D /\ Thresholds[1] = 1
      /\ \A i, j \in D : i <= j => Thresholds[i] <= Thresholds[j]
  BY ThresholdsGrow
<1>2. A \subseteq EdgesOf(W) /\ IsFiniteSet(A) /\ Cardinality(A) \in Nat
  <2>1. A \subseteq EdgesOf(W)
    BY DEF Anchored
  <2> QED BY <2>1, EdgesSorted
<1>3. ASSUME NEW i \in D
      PROVE  /\ m(i) \in Nat /\ m(i) <= Cardinality(A)
             /\ \A k \in 1 .. Cardinality(A) :
                    SortedEdges(A)[k].both >= Thresholds[i] <=> k <= m(i)
  <2> DEFINE B == AtLeast(A, Thresholds[i])
  <2>1. B = {e \in A : e.both >= Thresholds[i]} /\ Thresholds[i] \in Nat
    BY <1>1 DEF AtLeast
  <2> HIDE DEF B
  <2>2. /\ Cardinality(B) \in Nat /\ Cardinality(B) <= Cardinality(A)
        /\ \A k \in 1 .. Cardinality(A) :
               SortedEdges(A)[k].both >= Thresholds[i] <=> k <= Cardinality(B)
    BY <1>2, <2>1, FirstEdges
  <2> QED BY <2>2 DEF B
<1>4. ASSUME NEW i \in D
      PROVE  r[i] = Least(MaxEdgeLimit, m(i))
  OBVIOUS
<1> HIDE DEF m
<1>5. ASSUME NEW i \in D
      PROVE  /\ r[i] \in Nat /\ r[i] <= MaxEdgeLimit /\ r[i] <= m(i)
             /\ r[i] = MaxEdgeLimit \/ r[i] = m(i)
  BY <1>1, <1>3, <1>4, LeastIsMin DEF Least
<1>6. ASSUME NEW i \in D
      PROVE  /\ graphs[i].edges = [k \in 1 .. r[i] |-> SortedEdges(A)[k]]
             /\ Len(graphs[i].edges) = r[i]
  <2>1. graphs[i] = AssociationGraph(EdgesOf(W), anchor, Thresholds[i], MaxEdgeLimit)
    OBVIOUS
  <2>2. r[i] = Least(MaxEdgeLimit, Cardinality(AtLeast(A, Thresholds[i])))
    OBVIOUS
  <2> QED BY <1>1, <2>1, <2>2, GraphEdges
<1>7. ASSUME NEW i \in D
      PROVE  EdgeKeys(graphs[i]) = {EdgeKey(SortedEdges(A)[k]) : k \in 1 .. r[i]}
  <2> DEFINE s == graphs[i].edges  p == SortedEdges(A)
  <2>1. s = [k \in 1 .. r[i] |-> p[k]]
    BY <1>6
  <2>2. EdgeKeys(graphs[i]) = {EdgeKey(e) : e \in {s[k] : k \in DOMAIN s}}
    BY DEF EdgeKeys, EdgeKey, Range
  <2> HIDE DEF s, p
  <2>3. EdgeKeys(graphs[i]) = {EdgeKey(p[k]) : k \in 1 .. r[i]}
    BY <2>1, <2>2
  <2> QED BY <2>3 DEF p
<1>8. ASSUME NEW i \in D, NEW k \in 1 .. Cardinality(A), k <= MaxEdgeLimit
      PROVE  k <= r[i] <=> SortedEdges(A)[k].both >= Thresholds[i]
  <2>1. SortedEdges(A)[k].both >= Thresholds[i] <=> k <= m(i)
    BY <1>3
  <2>2. /\ m(i) \in Nat /\ r[i] \in Nat /\ r[i] <= m(i)
        /\ r[i] = MaxEdgeLimit \/ r[i] = m(i)
    BY <1>3, <1>5
  <2> QED BY <1>1, <1>8, <2>1, <2>2
<1>9. ASSUME NEW i \in D, NEW j \in D, i <= j
      PROVE  r[j] <= r[i]
  <2> DEFINE B == AtLeast(A, Thresholds[i])  C == AtLeast(A, Thresholds[j])
  <2>1. \A e \in A : e.both \in Nat
    BY <1>2, EdgesTyped DEF EdgeType
  <2>2. Thresholds[i] \in Nat /\ Thresholds[j] \in Nat /\ Thresholds[i] <= Thresholds[j]
    BY <1>1, <1>9
  <2>3. C \in SUBSET B /\ B \in SUBSET A
    BY <2>1, <2>2 DEF AtLeast
  <2>4. m(j) <= m(i)
    <3> HIDE DEF B, C
    <3>1. IsFiniteSet(B)
      BY <1>2, <2>3, FS_Subset
    <3> QED BY <2>3, <3>1, FS_Subset DEF m, B, C
  <2>5. m(i) \in Nat /\ m(j) \in Nat
    BY <1>3
  <2>6. r[i] = Least(MaxEdgeLimit, m(i)) /\ r[j] = Least(MaxEdgeLimit, m(j))
    BY <1>4
  <2> HIDE DEF B, C
  <2> QED BY <1>1, <2>4, <2>5, <2>6 DEF Least
<1>10. r[1] = Least(MaxEdgeLimit, Cardinality(A))
  <2>1. ASSUME NEW e \in A PROVE e.both >= 1
    <3>1. EdgeType(e)
      BY <1>2, EdgesTyped
    <3> QED BY <3>1 DEF EdgeType
  <2>2. AtLeast(A, Thresholds[1]) = A
    BY <1>1, <2>1 DEF AtLeast
  <2> QED BY <1>1, <1>4, <2>2 DEF m
<1>11. ASSUME NEW i \in D
       PROVE  r[i] \in Nat /\ r[i] <= Cardinality(A) /\ r[i] <= MaxEdgeLimit
  BY <1>2, <1>3, <1>5
<1> QED BY <1>6, <1>7, <1>8, <1>9, <1>10, <1>11 DEF Heads

\* The report of one anchor.
LEMMA ReportIsNested ==
    ASSUME IsFiniteSet(DOMAIN works), NEW anchor, NEW report, NEW graph,
           anchor = NoAnchor \/ \E t : anchor = {t},
           Answerable, report = TagAssociationSensitivity(anchor),
           graph = TagCooccurrence(anchor, 1, CandidateLimit)
    PROVE  /\ \A i \in DOMAIN report.points :
                  /\ i > 1 => report.points[i].retention <= report.points[i - 1].retention
                  /\ report.points[i].retention =
                         Retention(1 .. report.points[1].returned,
                                   1 .. report.points[i].returned)
           /\ graph.edges = [n \in DOMAIN report.candidates |-> report.candidates[n].edge]
           /\ \A c \in Range(report.candidates) :
                  /\ c.survives = {h \in Range(Thresholds) : h <= c.edge.both}
                  /\ c.edge.both <= TagDetail(c.edge.left)
                  /\ c.edge.both <= TagDetail(c.edge.right)
                  /\ anchor \subseteq {c.edge.left, c.edge.right}
<1> DEFINE W == SampledWorks
           E == EdgesOf(W)
           A == Anchored(W, anchor)
           p == SortedEdges(A)
           N == Cardinality(A)
           D == DOMAIN Thresholds
           r == [i \in D |-> Least(MaxEdgeLimit, Cardinality(AtLeast(A, Thresholds[i])))]
           graphs == [i \in D |-> AssociationGraph(E, anchor, Thresholds[i], MaxEdgeLimit)]
           keys == [i \in D |-> EdgeKeys(graphs[i])]
           c0 == Min({CandidateLimit, Len(graphs[1].edges)})
<1>1. /\ MaxEdgeLimit \in Nat /\ CandidateLimit \in Nat /\ CandidateLimit <= MaxEdgeLimit
      /\ \A i \in D : Thresholds[i] \in Nat
      /\ D = 1 .. Len(Thresholds) /\ Len(Thresholds) \in Nat
      /\ 1 \in D /\ Thresholds[1] = 1
  BY ThresholdsGrow
<1>2. W \subseteq DOMAIN works /\ IsFiniteSet(W)
  <2>1. W \in SUBSET DOMAIN works
    BY DEF SampledWorks
  <2> QED BY <2>1, FS_Subset
<1>3. A \subseteq E /\ N \in Nat /\ ListsOnce(p, A)
  <2>1. A \subseteq E
    BY DEF Anchored
  <2> HIDE DEF A
  <2> QED BY <1>2, <2>1, EdgesSorted
<1>4. report.points = [i \in D |->
          [eligible |-> graphs[i].eligible, returned |-> Len(graphs[i].edges),
           retention |-> Retention(keys[1], keys[i]),
           comparable |-> ~graphs[1].truncated /\ ~graphs[i].truncated]]
  BY DEF TagAssociationSensitivity, SensitivityReport
<1>5. report.candidates = [n \in 1 .. c0 |->
          [edge |-> graphs[1].edges[n],
           survives |-> {Thresholds[i] : i \in {j \in D : EdgeKey(graphs[1].edges[n]) \in keys[j]}}]]
  BY DEF TagAssociationSensitivity, SensitivityReport, EdgeKey
<1>6. /\ \A i \in D :
            /\ r[i] \in Nat /\ r[i] <= N /\ r[i] <= MaxEdgeLimit
            /\ graphs[i].edges = [k \in 1 .. r[i] |-> p[k]]
            /\ Len(graphs[i].edges) = r[i]
            /\ EdgeKeys(graphs[i]) = {EdgeKey(p[k]) : k \in 1 .. r[i]}
            /\ \A k \in 1 .. N : k <= MaxEdgeLimit =>
                   (k <= r[i] <=> p[k].both >= Thresholds[i])
      /\ \A i, j \in D : i <= j => r[j] <= r[i]
      /\ r[1] = Least(MaxEdgeLimit, N)
  <2> HIDE DEF W
  <2>1. A = Anchored(W, anchor)
    OBVIOUS
  <2> HIDE DEF A
  <2>2. /\ r = [i \in D |->
                    Least(MaxEdgeLimit, Cardinality(AtLeast(A, Thresholds[i])))]
        /\ graphs = [i \in D |->
               AssociationGraph(EdgesOf(W), anchor, Thresholds[i], MaxEdgeLimit)]
    OBVIOUS
  <2> HIDE DEF r, graphs
  <2>3. Heads(A, r, graphs)
    BY <1>2, <2>1, <2>2, GraphsAreHeads
  <2> QED BY <2>3 DEF Heads
<1>7. /\ graph.edges = [k \in 1 .. Least(CandidateLimit, N) |-> p[k]]
  <2>1. AtLeast(A, 1) = A
    <3>1. ASSUME NEW e \in A PROVE e.both >= 1
      <4>1. EdgeType(e)
        BY <1>2, <1>3, EdgesTyped
      <4> QED BY <4>1 DEF EdgeType
    <3> HIDE DEF A
    <3> QED BY <3>1 DEF AtLeast
  <2>2. graph = AssociationGraph(EdgesOf(W), anchor, 1, CandidateLimit)
    BY DEF TagCooccurrence
  <2> HIDE DEF W
  <2>3. A = Anchored(W, anchor)
    OBVIOUS
  <2> HIDE DEF A
  <2> QED BY <1>1, <1>2, <2>1, <2>2, <2>3, GraphEdges
<1>8. ASSUME NEW e \in A
      PROVE  /\ e.both = Cardinality(Tagged(W, e.left) \cap Tagged(W, e.right))
             /\ e.both \in Nat
             /\ anchor \subseteq {e.left, e.right}
  <2>1. e \in E
    BY <1>3
  <2>2. /\ e.both = Cardinality(Tagged(W, e.left) \cap Tagged(W, e.right))
        /\ EdgeType(e)
    <3> HIDE DEF W
    <3> QED BY <1>2, <2>1, EdgesTyped
  <2>3. anchor = {} \/ anchor \cap {e.left, e.right} # {}
    BY DEF Anchored, NoAnchor
  <2>4. anchor \subseteq {e.left, e.right}
    BY <2>3 DEF NoAnchor
  <2> QED BY <2>2, <2>4 DEF EdgeType
<1> HIDE DEF W, E, A, p, N, r, graphs, keys
<1>9. /\ r[1] \in Nat /\ Len(graphs[1].edges) = r[1]
      /\ c0 = Least(CandidateLimit, r[1]) /\ c0 \in Nat
      /\ c0 = Least(CandidateLimit, N) /\ c0 <= r[1] /\ c0 <= N /\ c0 <= MaxEdgeLimit
  <2>1. r[1] \in Nat /\ Len(graphs[1].edges) = r[1] /\ r[1] = Least(MaxEdgeLimit, N)
    BY <1>1, <1>6
  <2>2. c0 = Least(CandidateLimit, r[1])
    BY <1>1, <2>1, LeastIsMin
  <2> HIDE DEF c0
  <2> QED BY <1>1, <1>3, <2>1, <2>2 DEF Least
<1> HIDE DEF c0
\* What is returned.
<1>10. ASSUME NEW i \in D
       PROVE  /\ keys[i] = {EdgeKey(p[k]) : k \in 1 .. r[i]}
              /\ IsFiniteSet(keys[i]) /\ Cardinality(keys[i]) = r[i]
              /\ \A n \in 1 .. N : EdgeKey(p[n]) \in keys[i] <=> n <= r[i]
  <2>1. keys[i] = {EdgeKey(p[k]) : k \in 1 .. r[i]}
    BY <1>6 DEF keys
  <2>2. r[i] \in Nat /\ r[i] <= N
    BY <1>6
  <2>3. A \subseteq EdgesOf(W)
    BY <1>3 DEF E
  <2> DEFINE K == keys[i]  m == r[i]
  <2>4. K = {EdgeKey(SortedEdges(A)[k]) : k \in 1 .. m} /\ m \in Nat /\ m <= Cardinality(A)
    BY <2>1, <2>2 DEF p, N
  <2> HIDE DEF K, m
  <2>5. /\ IsFiniteSet(K) /\ Cardinality(K) = m
        /\ \A n \in 1 .. Cardinality(A) : EdgeKey(SortedEdges(A)[n]) \in K <=> n <= m
    BY <1>2, <2>3, <2>4, KeysCounted
  <2> QED BY <2>1, <2>5 DEF K, m, p, N
<1>11. ASSUME NEW i \in D
       PROVE  Retention(keys[1], keys[i]) = Retention(1 .. r[1], 1 .. r[i])
  <2>1. r[1] \in Nat /\ r[i] \in Nat /\ r[i] <= r[1]
    <3>1. 1 <= i
      BY <1>1
    <3> QED BY <1>1, <1>6, <3>1
  <2>2. keys[i] \subseteq keys[1]
    <3>1. 1 .. r[i] \subseteq 1 .. r[1]
      BY <2>1
    <3> QED BY <1>1, <1>10, <3>1
  <2>3. IsFiniteSet(keys[1]) /\ Cardinality(keys[1]) = r[1]
    BY <1>1, <1>10
  <2>4. IsFiniteSet(keys[i]) /\ Cardinality(keys[i]) = r[i]
    BY <1>10
  <2> QED BY <2>1, <2>2, <2>3, <2>4, SharesRetained
<1>12. ASSUME NEW i \in DOMAIN report.points
       PROVE  /\ i > 1 => report.points[i].retention <= report.points[i - 1].retention
              /\ report.points[i].retention =
                     Retention(1 .. report.points[1].returned,
                               1 .. report.points[i].returned)
  <2>1. i \in D
    BY <1>4
  <2>2. ASSUME NEW j \in D
        PROVE  /\ report.points[j].retention = Retention(1 .. r[1], 1 .. r[j])
               /\ report.points[j].returned = r[j]
    <3>1. /\ report.points[j].retention = Retention(keys[1], keys[j])
          /\ report.points[j].returned = Len(graphs[j].edges)
      BY <1>4
    <3>2. Len(graphs[j].edges) = r[j]
      BY <1>6
    <3>3. Retention(keys[1], keys[j]) = Retention(1 .. r[1], 1 .. r[j])
      BY <1>11
    <3> QED BY <3>1, <3>2, <3>3
  <2>3. ASSUME i > 1
        PROVE  Retention(1 .. r[1], 1 .. r[i]) <= Retention(1 .. r[1], 1 .. r[i - 1])
               /\ i - 1 \in D
    <3>1. i - 1 \in D /\ i - 1 <= i /\ 1 <= i - 1
      BY <1>1, <2>1, <2>3
    <3>2. /\ r[1] \in Nat /\ r[i] \in Nat /\ r[i - 1] \in Nat
          /\ r[i] <= r[i - 1] /\ r[i - 1] <= r[1]
      BY <1>1, <1>6, <2>1, <3>1
    <3> QED BY <3>1, <3>2, SharesRetained
  <2> QED BY <1>1, <2>1, <2>2, <2>3
\* The candidates.
<1>13. /\ DOMAIN report.candidates = 1 .. c0
       /\ \A n \in 1 .. c0 :
             /\ report.candidates[n].edge = p[n]
             /\ report.candidates[n].survives =
                    {Thresholds[i] : i \in {j \in D : EdgeKey(p[n]) \in keys[j]}}
  <2>1. ASSUME NEW n \in 1 .. c0 PROVE graphs[1].edges[n] = p[n]
    <3> DEFINE s == graphs[1].edges
    <3>1. s = [k \in 1 .. r[1] |-> p[k]]
      BY <1>1, <1>6
    <3>2. n \in 1 .. r[1]
      BY <1>9
    <3> HIDE DEF s
    <3>3. s[n] = p[n]
      BY <3>1, <3>2
    <3> QED BY <3>3 DEF s
  <2> QED BY <1>5, <2>1
<1>14. graph.edges = [n \in DOMAIN report.candidates |-> report.candidates[n].edge]
  BY <1>7, <1>9, <1>13
<1>15. ASSUME NEW c \in Range(report.candidates)
       PROVE  /\ c.survives = {h \in Range(Thresholds) : h <= c.edge.both}
              /\ c.edge.both <= TagDetail(c.edge.left)
              /\ c.edge.both <= TagDetail(c.edge.right)
              /\ anchor \subseteq {c.edge.left, c.edge.right}
  <2>1. PICK n \in 1 .. c0 : c = report.candidates[n]
    BY <1>13 DEF Range
  <2>2. n \in 1 .. N /\ n <= MaxEdgeLimit
    BY <1>1, <1>3, <1>9
  <2> DEFINE e == p[n]
  <2>3. e \in A
    BY <1>3, <2>2 DEF ListsOnce, N
  <2>4. c.edge = e /\ c.survives = {Thresholds[i] : i \in {j \in D : EdgeKey(e) \in keys[j]}}
    BY <1>13, <2>1
  <2>5. \A j \in D : EdgeKey(e) \in keys[j] <=> Thresholds[j] <= e.both
    BY <1>1, <1>6, <1>8, <1>10, <2>2, <2>3
  <2>6. /\ e.both = Cardinality(Tagged(W, e.left) \cap Tagged(W, e.right))
        /\ anchor \subseteq {e.left, e.right}
    BY <1>8, <2>3
  <2> HIDE DEF e
  <2>7. c.survives = {h \in Range(Thresholds) : h <= c.edge.both}
    BY <2>4, <2>5 DEF Range
  <2>8. ASSUME NEW t, Tagged(W, e.left) \cap Tagged(W, e.right) \subseteq Tagged(W, t)
        PROVE  e.both <= TagDetail(t)
    <3>1. Tagged(W, e.left) \cap Tagged(W, e.right) \in SUBSET Tagged(DOMAIN works, t)
      BY <1>2, <2>8 DEF Tagged
    <3>2. IsFiniteSet(Tagged(DOMAIN works, t))
      BY FS_Subset DEF Tagged
    <3> QED BY <2>6, <3>1, <3>2, FS_Subset DEF TagDetail
  <2>9. e.both <= TagDetail(e.left) /\ e.both <= TagDetail(e.right)
    BY <2>8
  <2> QED BY <2>4, <2>6, <2>7, <2>9
<1> QED BY <1>12, <1>14, <1>15

\* THEOREM (tag_sensitivity.py:88): in every catalog the ingest can build, a higher
\* threshold only takes edges away, and a candidate survives exactly the thresholds
\* up to its number of works.
THEOREM SensitivityOrdered == CatalogSpec => []SensitivityIsNested
<1>1. IdsInv => SensitivityIsNested
  <2> SUFFICES ASSUME IdsInv, Answerable,
                      NEW anchor \in {NoAnchor} \cup {{t} : t \in Range(tags)}
               PROVE  LET report == TagAssociationSensitivity(anchor)
                          points == report.points
                          candidates == report.candidates
                          graph == TagCooccurrence(anchor, 1, CandidateLimit)
                      IN
                      /\ \A i \in DOMAIN points :
                             /\ i > 1 => points[i].retention <= points[i - 1].retention
                             /\ points[i].retention = Retention(1 .. points[1].returned,
                                                                1 .. points[i].returned)
                      /\ graph.edges = [n \in DOMAIN candidates |-> candidates[n].edge]
                      /\ \A c \in Range(candidates) :
                             /\ c.survives = {h \in Range(Thresholds) : h <= c.edge.both}
                             /\ c.edge.both <= TagDetail(c.edge.left)
                             /\ c.edge.both <= TagDetail(c.edge.right)
                             /\ anchor \subseteq {c.edge.left, c.edge.right}
    BY DEF SensitivityIsNested
  <2>1. IsFiniteSet(DOMAIN works)
    BY DEF IdsInv, Numbered
  <2>2. anchor = NoAnchor \/ \E t : anchor = {t}
    OBVIOUS
  <2> QED BY <2>1, <2>2, ReportIsNested
<1> QED BY <1>1, CatalogInvariants, PTL
=============================================================================
