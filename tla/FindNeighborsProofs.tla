------------------------ MODULE FindNeighborsProofs ------------------------
(***************************************************************************)
(* Proofs about find_neighbors for every routing table the invariant of    *)
(* RoutingTableProofs allows, every target and every distance function.    *)
(* The walk over the buckets is a total order on the places of the table,  *)
(* and what is taken from it are the first places that count: the argument *)
(* is about the first k elements of a finite total order.                  *)
(***************************************************************************)
EXTENDS RoutingTableProofs, FindNeighbors, FiniteSetTheorems

-----------------------------------------------------------------------------
(* The first elements of a finite set in a total order *)

Earlier(R, S, x) == {y \in S : <<y, x>> \in R}

FirstOf(R, S, k) == {x \in S : Cardinality(Earlier(R, S, x)) < k}

TotalOrder(R, S) ==
    /\ \A x \in S : <<x, x>> \notin R
    /\ \A x, y, z \in S : <<x, y>> \in R /\ <<y, z>> \in R => <<x, z>> \in R
    /\ \A x, y \in S : x = y \/ <<x, y>> \in R \/ <<y, x>> \in R

\* Who comes earlier has fewer before it.
LEMMA EarlierShrinks ==
    ASSUME NEW R, NEW S, TotalOrder(R, S), NEW x \in S, NEW y \in S, <<y, x>> \in R
    PROVE  Earlier(R, S, y) \subseteq Earlier(R, S, x) /\ Earlier(R, S, y) # Earlier(R, S, x)
  <1>1. ASSUME NEW z \in Earlier(R, S, y) PROVE z \in Earlier(R, S, x)
    BY Zenon DEF Earlier, TotalOrder
  <1>2. y \in Earlier(R, S, x) /\ y \notin Earlier(R, S, y)
    BY Zenon DEF Earlier, TotalOrder
  <1> QED BY <1>1, <1>2, Zenon

\* A nonempty part of the set has a least element.
LEMMA LeastOf ==
    ASSUME NEW R, NEW S, IsFiniteSet(S), TotalOrder(R, S), NEW T \in SUBSET S, T # {}
    PROVE  \E x \in T : \A y \in T : <<y, x>> \notin R
  <1> DEFINE F == {Earlier(R, S, x) : x \in T}
             O == StrictSubsetOrdering(S)
  <1>1. IsWellFoundedOn(O, SUBSET S)
    BY FS_StrictSubsetOrderingWellFounded, FS_FiniteSubsetsOfFinite, Zenon
  <1>2. F \subseteq SUBSET S /\ F # {}
    BY Zenon DEF Earlier
  <1> HIDE DEF O
  <1>3. PICK e \in F : \A d \in F : <<d, e>> \notin O
    BY <1>1, <1>2, WFMin, Zenon
  <1>4. PICK x \in T : e = Earlier(R, S, x)
    BY <1>3, Zenon
  <1>5. ASSUME NEW y \in T, <<y, x>> \in R PROVE FALSE
    <2>0. Earlier(R, S, y) \in F
      OBVIOUS
    <2>1. Earlier(R, S, y) \in F /\ Earlier(R, S, y) \in SUBSET S /\ e \in SUBSET S
      BY <1>2, <1>3, <2>0, Zenon
    <2>2. Earlier(R, S, y) \subseteq e /\ Earlier(R, S, y) # e
      BY <1>4, <1>5, EarlierShrinks, Zenon
    <2>3. <<Earlier(R, S, y), e>> \in O
      BY <2>1, <2>2 DEF O, StrictSubsetOrdering
    <2> QED BY <1>3, <2>1, <2>3, Zenon
  <1> QED BY <1>5, Zenon

\* And a greatest one.
LEMMA GreatestOf ==
    ASSUME NEW R, NEW S, IsFiniteSet(S), TotalOrder(R, S), NEW T \in SUBSET S, T # {}
    PROVE  \E x \in T : \A y \in T : y = x \/ <<y, x>> \in R
  <1> DEFINE Q == {p \in S \X S : <<p[2], p[1]>> \in R}
  <1>1. \A x, y \in S : <<x, y>> \in Q <=> <<y, x>> \in R
    OBVIOUS
  <1> HIDE DEF Q
  <1>2. TotalOrder(Q, S)
    BY <1>1, Zenon DEF TotalOrder
  <1>3. PICK x \in T : \A y \in T : <<y, x>> \notin Q
    BY <1>2, LeastOf, Zenon
  <1>4. \A y \in T : y = x \/ <<y, x>> \in R
    BY <1>1, <1>3, Zenon DEF TotalOrder
  <1> QED BY <1>4, Zenon

\* The first k elements are k, or all there are, and nobody is skipped.
LEMMA FirstFacts ==
    ASSUME NEW R, NEW S, IsFiniteSet(S), TotalOrder(R, S), NEW k \in Nat
    PROVE  /\ \A x \in FirstOf(R, S, k), y \in S : <<y, x>> \in R => y \in FirstOf(R, S, k)
           /\ Cardinality(FirstOf(R, S, k)) = Lesser(Cardinality(S), k)
  <1> DEFINE F == FirstOf(R, S, k)
             e(x) == Earlier(R, S, x)
  <1>1. \A x \in S : e(x) \in SUBSET S
    BY DEF Earlier
  <1>2. \A x \in S : IsFiniteSet(e(x)) /\ Cardinality(e(x)) \in Nat
    BY <1>1, FS_Subset, FS_CardinalityType, Zenon
  <1>3. F \in SUBSET S /\ \A x \in S : x \in F <=> Cardinality(e(x)) < k
    BY DEF FirstOf
  <1> HIDE DEF F
  <1>4. /\ IsFiniteSet(F) /\ Cardinality(F) \in Nat /\ Cardinality(S) \in Nat
        /\ Cardinality(F) <= Cardinality(S)
    BY <1>3, FS_Subset, FS_CardinalityType, Zenon
  <1>5. ASSUME NEW x \in F, NEW y \in S, <<y, x>> \in R PROVE y \in F
    <2>1. x \in S /\ e(y) \in SUBSET e(x)
      BY <1>3, <1>5, EarlierShrinks, Zenon
    <2>2. Cardinality(e(y)) <= Cardinality(e(x))
      BY <1>2, <2>1, FS_Subset, Zenon
    <2>3. Cardinality(e(x)) < k /\ Cardinality(e(x)) \in Nat /\ Cardinality(e(y)) \in Nat
      BY <1>2, <1>3, <2>1, Zenon
    <2>4. Cardinality(e(y)) < k
      BY <2>2, <2>3
    <2> QED BY <1>3, <2>4, Zenon
  <1>6. Cardinality(F) <= k
    <2>1. CASE F = {}
      <3>1. Cardinality(F) = 0
        BY <2>1, FS_EmptySet, Zenon
      <3> QED BY <3>1
    <2>2. CASE F # {}
      <3>0. F \in SUBSET S
        BY <1>3, Zenon
      <3>1. PICK x \in F : \A y \in F : y = x \/ <<y, x>> \in R
        BY <2>2, <3>0, GreatestOf
      <3>2. x \in S /\ F \ {x} \in SUBSET e(x)
        BY <1>3, <3>1 DEF Earlier
      <3>3. Cardinality(F \ {x}) <= Cardinality(e(x))
        BY <1>2, <3>2, FS_Subset, Zenon
      <3>4. Cardinality(F \ {x}) = Cardinality(F) - 1
        BY <1>4, <3>1, FS_RemoveElement, Zenon
      <3>5. Cardinality(e(x)) \in Nat /\ Cardinality(e(x)) < k
        BY <1>2, <1>3, <3>1, <3>2, Zenon
      <3> QED BY <1>4, <3>3, <3>4, <3>5
    <2> QED BY <2>1, <2>2, Zenon
  <1>7. F = S \/ k <= Cardinality(F)
    <2>1. CASE S \ F # {}
      <3>1. PICK x \in S \ F : \A y \in S \ F : <<y, x>> \notin R
        BY <2>1, LeastOf, Zenon
      <3>2. x \in S /\ x \notin F /\ e(x) \in SUBSET F
        BY <3>1 DEF Earlier
      <3>3. Cardinality(e(x)) <= Cardinality(F)
        BY <1>4, <3>2, FS_Subset, Zenon
      <3>4. Cardinality(e(x)) \in Nat /\ ~(Cardinality(e(x)) < k)
        BY <1>2, <1>3, <3>2, Zenon
      <3> QED BY <1>4, <3>3, <3>4
    <2>2. CASE S \ F = {}
      BY <1>3, <2>2, Zenon
    <2> QED BY <2>1, <2>2, Zenon
  <1>8. Cardinality(F) = Lesser(Cardinality(S), k)
    <2>1. PICK m \in Nat, n \in Nat : m = Cardinality(F) /\ n = Cardinality(S)
      BY <1>4, Zenon
    <2>2. m <= k /\ m <= n /\ (m = n \/ k <= m)
      BY <1>4, <1>6, <1>7, <2>1, Zenon
    <2>3. m = Lesser(n, k)
      BY <2>2 DEF Lesser
    <2> QED BY <2>1, <2>3, Zenon
  <1> QED BY <1>5, <1>8, Zenon DEF F

-----------------------------------------------------------------------------
(* The walk of find_neighbors *)

\* Every bucket has a turn of its own, the target's the first.
LEMMA TurnFacts ==
    ASSUME NEW n \in Nat, NEW own \in 1..n
    PROVE  /\ \A i \in 1..n : TurnOf(n, own, i) \in Nat
           /\ \A i, j \in 1..n : TurnOf(n, own, i) = TurnOf(n, own, j) => i = j
           /\ TurnOf(n, own, own) = 0
           /\ \A i \in 1..n : i # own => TurnOf(n, own, i) > 0
  BY DEF TurnOf, Lesser

\* A place names a bucket and a position of its primary list.
LEMMA PlaceParts ==
    ASSUME TableOK(buckets)
    PROVE  /\ Len(buckets) \in Nat /\ DOMAIN buckets = 1..Len(buckets)
           /\ \A p \in Places : /\ p = <<p[1], p[2]>>
                                /\ p[1] \in 1..Len(buckets)
                                /\ p[2] \in 1..Len(buckets[p[1]].nodes)
                                /\ NodeAt(p) \in Range(buckets[p[1]].nodes)
           /\ \A i \in 1..Len(buckets) : \A j \in 1..Len(buckets[i].nodes) :
                <<i, j>> \in Places /\ NodeAt(<<i, j>>) = buckets[i].nodes[j]
  <1>1. buckets \in Seq(Bucket) /\ Len(buckets) \in Nat /\ DOMAIN buckets = 1..Len(buckets)
    BY DEF TableOK
  <1>2. ASSUME NEW p \in Places
        PROVE  /\ p = <<p[1], p[2]>>
               /\ p[1] \in 1..Len(buckets)
               /\ p[2] \in 1..Len(buckets[p[1]].nodes)
    BY <1>1 DEF Places
  <1>3. ASSUME NEW p \in Places PROVE NodeAt(p) \in Range(buckets[p[1]].nodes)
    <2>1. buckets[p[1]] \in Bucket
      BY <1>1, <1>2, ElementOfSeq
    <2>2. buckets[p[1]].nodes \in Seq(Ids)
      BY <2>1, BucketParts
    <2>3. p[2] \in DOMAIN buckets[p[1]].nodes
      BY <1>2, <2>2
    <2> QED BY <2>3, Zenon DEF NodeAt, Range
  <1>4. ASSUME NEW i \in 1..Len(buckets), NEW j \in 1..Len(buckets[i].nodes)
        PROVE  <<i, j>> \in Places /\ NodeAt(<<i, j>>) = buckets[i].nodes[j]
    BY <1>1 DEF Places, NodeAt
  <1> QED BY <1>1, <1>2, <1>3, <1>4, Zenon

\* Positions in well-formed buckets are few.
LEMMA PlacesFinite ==
    ASSUME TableOK(buckets)
    PROVE  IsFiniteSet(Places)
  <1> DEFINE grid == (1..Len(buckets)) \X (1..KSize)
  <1>1. Len(buckets) \in Nat /\ KSize \in Nat
    BY PlaceParts, CapFacts
  <1>2. IsFiniteSet(1..Len(buckets)) /\ IsFiniteSet(1..KSize)
    BY <1>1, FS_Interval
  <1>3. IsFiniteSet(grid)
    BY <1>2, FS_Product, Zenon
  <1>4. ASSUME NEW p \in Places PROVE p \in grid
    <2>1. /\ p = <<p[1], p[2]>> /\ p[1] \in 1..Len(buckets)
          /\ p[2] \in 1..Len(buckets[p[1]].nodes)
      BY PlaceParts, Zenon
    <2>2. buckets[p[1]] \in Bucket /\ WellFormed(buckets[p[1]])
      BY <2>1, PlaceParts, ElementOfSeq DEF TableOK
    <2>3. Len(buckets[p[1]].nodes) \in Nat /\ Len(buckets[p[1]].nodes) <= KSize
      BY <2>2, SizeFacts DEF WellFormed
    <2>4. p[2] \in 1..KSize
      BY <1>1, <2>1, <2>3
    <2> QED BY <2>1, <2>4
  <1>5. Places \in SUBSET grid
    BY <1>4, Zenon
  <1> QED BY <1>3, <1>5, FS_Subset, Zenon

\* A contact is found at one place only.
LEMMA OnePlaceEach ==
    ASSUME TableOK(buckets), NEW p \in Places, NEW q \in Places, NodeAt(p) = NodeAt(q)
    PROVE  p = q
  <1>1. /\ p = <<p[1], p[2]>> /\ q = <<q[1], q[2]>>
        /\ p[1] \in 1..Len(buckets) /\ q[1] \in 1..Len(buckets)
        /\ p[2] \in 1..Len(buckets[p[1]].nodes) /\ q[2] \in 1..Len(buckets[q[1]].nodes)
        /\ NodeAt(p) \in Range(buckets[p[1]].nodes) /\ NodeAt(p) \in Range(buckets[q[1]].nodes)
        /\ DOMAIN buckets = 1..Len(buckets)
    BY PlaceParts, Zenon
  <1>2. /\ buckets \in Seq(Bucket) /\ Partition(buckets)
        /\ buckets[p[1]] \in Bucket /\ WellFormed(buckets[p[1]]) /\ WellFormed(buckets[q[1]])
    BY <1>1, ElementOfSeq DEF TableOK
  <1>3. NodeAt(p) \in Ids /\ LongId[NodeAt(p)] \in 0..MaxLong
    <2>1. buckets[p[1]].nodes \in Seq(Ids)
      BY <1>2, BucketParts, Zenon
    <2>2. NodeAt(p) \in Ids
      BY <1>1, <2>1 DEF Range
    <2> QED BY <2>2, RoutingConstants DEF RoutingConstants
  <1>4. Covers(buckets[p[1]], LongId[NodeAt(p)]) /\ Covers(buckets[q[1]], LongId[NodeAt(p)])
    <2>1. NodeAt(p) \in Members(buckets[p[1]]) /\ NodeAt(p) \in Members(buckets[q[1]])
      BY <1>1, Zenon DEF Members
    <2>2. /\ \A n \in Members(buckets[p[1]]) : Covers(buckets[p[1]], LongId[n])
          /\ \A n \in Members(buckets[q[1]]) : Covers(buckets[q[1]], LongId[n])
      BY <1>2, Zenon DEF WellFormed
    <2> QED BY <2>1, <2>2, Zenon
  <1>5. p[1] = q[1]
    <2>1. PICK l \in 0..MaxLong : l = LongId[NodeAt(p)]
      BY <1>3, Zenon
    <2>2. \A i \in DOMAIN buckets : Covers(buckets[i], l) => i = IndexIn(buckets, l)
      BY <1>2, IndexFacts, Zenon
    <2>3. p[1] \in DOMAIN buckets /\ q[1] \in DOMAIN buckets
      BY <1>1
    <2> QED BY <1>4, <2>1, <2>2, <2>3, Zenon
  <1>6. p[2] = q[2]
    <2>1. buckets[p[1]].nodes \in Seq(Ids) /\ IsInjective(buckets[p[1]].nodes)
      BY <1>2, BucketParts, Zenon DEF WellFormed
    <2>2. p[2] \in DOMAIN buckets[p[1]].nodes /\ q[2] \in DOMAIN buckets[p[1]].nodes
      BY <1>1, <1>5, <2>1
    <2>3. buckets[p[1]].nodes[p[2]] = buckets[p[1]].nodes[q[2]]
      BY <1>5, Zenon DEF NodeAt
    <2> QED BY <2>1, <2>2, <2>3, Zenon DEF IsInjective
  <1> QED BY <1>1, <1>5, <1>6, Zenon

\* As many contacts as places.
LEMMA ContactsCounted ==
    ASSUME TableOK(buckets), NEW A \in SUBSET Places
    PROVE  Cardinality({NodeAt(p) : p \in A}) = Cardinality(A)
  <1> DEFINE T == {NodeAt(p) : p \in A}
             f == [p \in A |-> NodeAt(p)]
  <1>1. IsFiniteSet(A)
    BY PlacesFinite, FS_Subset, Zenon
  <1>2. f \in Surjection(A, T)
    BY DEF Surjection
  <1>3. f \in Injection(A, T)
    <2>1. f \in [A -> T]
      OBVIOUS
    <2>2. \A p, q \in A : f[p] = f[q] => p = q
      BY OnePlaceEach
    <2>3. DOMAIN f = A
      OBVIOUS
    <2> QED BY <2>1, <2>2, <2>3, Zenon DEF Injection, IsInjective
  <1> HIDE DEF f, T
  <1>4. Cardinality(T) = Cardinality(A)
    BY <1>1, <1>2, <1>3, FS_Surjection, Zenon
  <1> QED BY <1>4 DEF T

\* The order of the walk, as a relation between places.
WalkOrder(own) == {r \in Places \X Places : Before(own, r[1], r[2])}

\* The walk comes to one place after the other.
LEMMA WalkFacts ==
    ASSUME TableOK(buckets), NEW own \in 1..Len(buckets), NEW A \in SUBSET Places
    PROVE  /\ \A p, q \in Places : <<p, q>> \in WalkOrder(own) <=> Before(own, p, q)
           /\ TotalOrder(WalkOrder(own), A)
  <1> DEFINE turn(i) == TurnOf(Len(buckets), own, i)
  <1>1. \A p, q \in Places : <<p, q>> \in WalkOrder(own) <=> Before(own, p, q)
    BY DEF WalkOrder
  <1>2. Len(buckets) \in Nat
    BY PlaceParts, Zenon
  <1>3. /\ \A i \in 1..Len(buckets) : turn(i) \in Nat
        /\ \A i, j \in 1..Len(buckets) : turn(i) = turn(j) => i = j
    BY <1>2, TurnFacts, Zenon
  <1> HIDE DEF turn
  <1>4. \A p, q \in Places :
          Before(own, p, q) <=> turn(p[1]) < turn(q[1]) \/ (p[1] = q[1] /\ p[2] > q[2])
    BY DEF Before, turn
  <1>5. ASSUME NEW p \in Places
        PROVE  p = <<p[1], p[2]>> /\ p[1] \in 1..Len(buckets) /\ p[2] \in Nat /\ turn(p[1]) \in Nat
    <2>1. /\ p = <<p[1], p[2]>> /\ p[1] \in 1..Len(buckets)
          /\ p[2] \in 1..Len(buckets[p[1]].nodes)
      BY PlaceParts, Zenon
    <2> QED BY <1>3, <2>1
  <1>6. ASSUME NEW p \in Places PROVE ~Before(own, p, p)
    BY <1>4, <1>5
  <1>7. ASSUME NEW p \in Places, NEW q \in Places, NEW r \in Places,
               Before(own, p, q), Before(own, q, r)
        PROVE  Before(own, p, r)
    BY <1>4, <1>5, <1>7
  <1>8. ASSUME NEW p \in Places, NEW q \in Places
        PROVE  p = q \/ Before(own, p, q) \/ Before(own, q, p)
    BY <1>3, <1>4, <1>5
  <1>9. TotalOrder(WalkOrder(own), A)
    <2>1. \A p \in A : p \in Places
      OBVIOUS
    <2>2. \A p \in A : <<p, p>> \notin WalkOrder(own)
      BY <1>1, <1>6, <2>1, Zenon
    <2>3. \A p, q, r \in A : <<p, q>> \in WalkOrder(own) /\ <<q, r>> \in WalkOrder(own)
                              => <<p, r>> \in WalkOrder(own)
      BY <1>1, <1>7, <2>1, Zenon
    <2>4. \A p, q \in A : p = q \/ <<p, q>> \in WalkOrder(own) \/ <<q, p>> \in WalkOrder(own)
      BY <1>1, <1>8, <2>1, Zenon
    <2> QED BY <2>2, <2>3, <2>4, Zenon DEF TotalOrder
  <1> QED BY <1>1, <1>9, Zenon

\* The places of the contacts find_neighbors may return.
Open(t, exclude) == {p \in Places : NodeAt(p) \notin {t, exclude}}

\* They hold the eligible contacts.
LEMMA OpenFacts ==
    ASSUME TableOK(buckets), NEW t, NEW ex
    PROVE  Open(t, ex) \in SUBSET Places /\ Eligible(t, ex) = {NodeAt(p) : p \in Open(t, ex)}
  <1>1. Open(t, ex) \in SUBSET Places
    BY DEF Open
  <1>2. ASSUME NEW n \in Eligible(t, ex) PROVE \E p \in Open(t, ex) : n = NodeAt(p)
    <2>1. n \notin {t, ex} /\ \E i \in DOMAIN buckets : n \in Range(buckets[i].nodes)
      BY DEF Eligible, Primaries
    <2>2. PICK i \in DOMAIN buckets : n \in Range(buckets[i].nodes)
      BY <2>1, Zenon
    <2>3. i \in 1..Len(buckets) /\ buckets[i] \in Bucket
      BY PlaceParts, ElementOfSeq DEF TableOK
    <2>4. buckets[i].nodes \in Seq(Ids)
      BY <2>3, BucketParts, Zenon
    <2>5. PICK j \in 1..Len(buckets[i].nodes) : n = buckets[i].nodes[j]
      BY <2>2, <2>4 DEF Range
    <2>6. <<i, j>> \in Places /\ NodeAt(<<i, j>>) = n
      BY <2>3, <2>5, PlaceParts, Zenon
    <2>7. <<i, j>> \in Open(t, ex)
      BY <2>1, <2>6, Zenon DEF Open
    <2> QED BY <2>6, <2>7, Zenon
  <1>3. ASSUME NEW p \in Open(t, ex) PROVE NodeAt(p) \in Eligible(t, ex)
    <2>1. p \in Places /\ NodeAt(p) \notin {t, ex}
      BY DEF Open
    <2>2. p[1] \in DOMAIN buckets /\ NodeAt(p) \in Range(buckets[p[1]].nodes)
      BY <2>1, PlaceParts, Zenon
    <2> QED BY <2>1, <2>2 DEF Eligible, Primaries
  <1> QED BY <1>1, <1>2, <1>3

\* The candidates are the first of them in the order of the walk.
LEMMA CandidatesFirst ==
    ASSUME TableOK(buckets), NEW t \in Ids, NEW ex, NEW own, own = BucketIndexFor(LongId[t])
    PROVE  /\ own \in 1..Len(buckets)
           /\ Candidates(t, ex) = FirstOf(WalkOrder(own), Open(t, ex), KSize)
  <1>1. own \in 1..Len(buckets)
    <2>1. LongId[t] \in 0..MaxLong
      BY RoutingConstants DEF RoutingConstants
    <2>2. own \in DOMAIN buckets
      BY <2>1, IndexFacts, Zenon DEF TableOK, BucketIndexFor
    <2> QED BY <2>2, PlaceParts, Zenon
  <1>2. Open(t, ex) \subseteq Places
    BY DEF Open
  <1>3. \A p \in Open(t, ex) : {q \in Open(t, ex) : Before(own, q, p)} = Earlier(WalkOrder(own), Open(t, ex), p)
    <2>1. \A p, q \in Open(t, ex) : <<q, p>> \in WalkOrder(own) <=> Before(own, q, p)
      BY <1>1, <1>2, WalkFacts, Zenon
    <2> QED BY <2>1, Zenon DEF Earlier
  <1>4. Candidates(t, ex) = {p \in Open(t, ex) : Cardinality({q \in Open(t, ex) : Before(own, q, p)}) < KSize}
    BY Zenon DEF Candidates, Open
  <1> QED BY <1>1, <1>3, <1>4, Zenon DEF FirstOf

\* What find_neighbors returns, for a table in order.
LEMMA NeighborsFacts ==
    ASSUME TableOK(buckets), NEW t \in Ids, NEW ex
    PROVE  /\ Neighbors(t, ex) \subseteq Eligible(t, ex)
           /\ Cardinality(Neighbors(t, ex)) = Lesser(Cardinality(Eligible(t, ex)), KSize)
           /\ LET own == Range(buckets[BucketIndexFor(LongId[t])].nodes) \ {t, ex}
              IN  Neighbors(t, ex) \subseteq own \/ own \subseteq Neighbors(t, ex)
  <1> DEFINE own == BucketIndexFor(LongId[t])
             R == WalkOrder(own)
             A == Open(t, ex)
             C == Candidates(t, ex)
             O == Range(buckets[own].nodes) \ {t, ex}
  <1>1. own \in 1..Len(buckets) /\ C = FirstOf(R, A, KSize)
    BY CandidatesFirst, Zenon
  <1>2. A \in SUBSET Places /\ Eligible(t, ex) = {NodeAt(p) : p \in A}
    BY OpenFacts, Zenon
  <1>3. IsFiniteSet(A) /\ TotalOrder(R, A) /\ KSize \in Nat
    <2>1. IsFiniteSet(A)
      BY <1>2, PlacesFinite, FS_Subset, Zenon
    <2>2. TotalOrder(R, A)
      BY <1>1, <1>2, WalkFacts, Zenon
    <2> QED BY <2>1, <2>2, CapFacts, Zenon
  <1>4. C \in SUBSET A
    BY <1>1 DEF FirstOf
  <1>n. Neighbors(t, ex) = {NodeAt(p) : p \in C}
    BY Zenon DEF Neighbors
  <1> HIDE DEF own, R, A, C
  <1>5. /\ \A p \in C, q \in A : <<q, p>> \in R => q \in C
        /\ Cardinality(C) = Lesser(Cardinality(A), KSize)
    <2>1. /\ \A p \in FirstOf(R, A, KSize), q \in A : <<q, p>> \in R => q \in FirstOf(R, A, KSize)
          /\ Cardinality(FirstOf(R, A, KSize)) = Lesser(Cardinality(A), KSize)
      BY <1>3, FirstFacts, Zenon
    <2> QED BY <1>1, <2>1, Zenon
  <1>6. Neighbors(t, ex) \subseteq Eligible(t, ex)
    BY <1>2, <1>4, <1>n
  <1>7. Cardinality(Neighbors(t, ex)) = Lesser(Cardinality(Eligible(t, ex)), KSize)
    <2>1. C \in SUBSET Places
      BY <1>2, <1>4, Zenon
    <2>2. Cardinality(Neighbors(t, ex)) = Cardinality(C) /\ Cardinality(Eligible(t, ex)) = Cardinality(A)
      BY <1>2, <1>n, <2>1, ContactsCounted, Zenon
    <2> QED BY <1>5, <2>2, Zenon
  <1>8. Neighbors(t, ex) \subseteq O \/ O \subseteq Neighbors(t, ex)
    <2>1. ASSUME NEW p \in C, NodeAt(p) \notin O, NEW n \in O PROVE n \in Neighbors(t, ex)
      <3>1. p \in A /\ p \in Places /\ NodeAt(p) \notin {t, ex}
        BY <1>2, <1>4, Zenon DEF A, Open
      <3>2. p[1] \in 1..Len(buckets) /\ NodeAt(p) \in Range(buckets[p[1]].nodes)
        BY <3>1, PlaceParts, Zenon
      <3>3. p[1] # own
        BY <2>1, <3>1, <3>2
      <3>4. buckets[own].nodes \in Seq(Ids)
        BY <1>1, PlaceParts, ElementOfSeq, BucketParts DEF TableOK
      <3>5. PICK j \in 1..Len(buckets[own].nodes) : n = buckets[own].nodes[j]
        BY <3>4 DEF Range
      <3>6. PICK q : q = <<own, j>>
        BY Zenon
      <3>7. q \in Places /\ NodeAt(q) = n /\ q[1] = own
        <4>1. <<own, j>> \in Places /\ NodeAt(<<own, j>>) = n
          BY <1>1, <3>5, PlaceParts, Zenon
        <4> QED BY <3>6, <4>1
      <3>8. q \in A
        BY <3>7, Zenon DEF A, Open
      <3>9. Before(own, q, p)
        <4>1. Len(buckets) \in Nat
          BY PlaceParts, Zenon
        <4>2. TurnOf(Len(buckets), own, own) = 0 /\ TurnOf(Len(buckets), own, p[1]) > 0
          BY <1>1, <3>2, <3>3, <4>1, TurnFacts, Zenon
        <4> QED BY <3>7, <4>2 DEF Before
      <3>10. <<q, p>> \in R
        BY <1>1, <1>2, <3>1, <3>7, <3>9, WalkFacts, Zenon DEF R
      <3>11. q \in C
        BY <1>5, <3>8, <3>10, Zenon
      <3> QED BY <1>n, <3>7, <3>11, Zenon
    <2> QED BY <1>n, <2>1
  <1> QED BY <1>6, <1>7, <1>8, Zenon DEF own

-----------------------------------------------------------------------------
(* The properties *)

\* find_neighbors returns as many of the eligible primary contacts as there
\* are, up to ksize, in every reachable table.
THEOREM NeighborsAreComplete ==
    ASSUME DistinctLongIds
    PROVE  Safety => []NeighborsComplete
  <1>1. ASSUME IInv PROVE NeighborsComplete
    <2>1. TableOK(buckets)
      BY <1>1 DEF IInv, TypeOK, TableOK, Partitioned, WellFormedBuckets
    <2> QED BY <2>1, NeighborsFacts, Zenon DEF NeighborsComplete
  <1> QED BY <1>1, Invariance, PTL

\* A contact from another bucket is returned only if the target's whole bucket
\* is: TableTraverser::new starts there.
THEOREM OwnBucketComesFirst ==
    ASSUME DistinctLongIds
    PROVE  Safety => []OwnBucketFirst
  <1>1. ASSUME IInv PROVE OwnBucketFirst
    <2>1. TableOK(buckets)
      BY <1>1 DEF IInv, TypeOK, TableOK, Partitioned, WellFormedBuckets
    <2> QED BY <2>1, NeighborsFacts, Zenon DEF OwnBucketFirst
  <1> QED BY <1>1, Invariance, PTL
=============================================================================
