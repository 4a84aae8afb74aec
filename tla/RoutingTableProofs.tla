------------------------- MODULE RoutingTableProofs -------------------------
(***************************************************************************)
(* Proofs about RoutingTable, for every set of ids, every bucket capacity  *)
(* and every width of the id space.  They need one thing of the fold from  *)
(* raw ids to long ids: no two ids in use have the same long id.  Without  *)
(* it a bucket of width 0 can overflow and is split into an empty range.   *)
(***************************************************************************)
EXTENDS RoutingTableLemmas

DistinctLongIds == \A m, n \in Ids : LongId[m] = LongId[n] => m = n

\* The inductive invariant.  WellFormedBuckets is not inductive alone: what a
\* split installs was put together over many steps, which SplitInv follows.
IInv ==
    /\ TypeOK
    /\ node # Local
    /\ Partitioned
    /\ WellFormedBuckets
    /\ SplitInv

\* What an insertion under way may rely on: its bucket, and that the contact
\* belongs there.
LEMMA TargetBucket ==
    ASSUME IInv, phase # "idle", NEW k, k = BucketIndexFor(LongId[node])
    PROVE  /\ node \in Ids /\ node # Local /\ node # NoNode
           /\ LongId[node] \in 0..MaxLong
           /\ TableOK(buckets)
           /\ k \in DOMAIN buckets
           /\ buckets[k] \in Bucket
           /\ WellFormed(buckets[k])
           /\ Covers(buckets[k], LongId[node])
  <1>1. node \in Ids /\ node # Local /\ node # NoNode /\ buckets \in Seq(Bucket)
    BY RoutingConstants DEF IInv, TypeOK, RoutingConstants
  <1>2. LongId[node] \in 0..MaxLong
    BY <1>1, RoutingConstants DEF RoutingConstants
  <1>3. TableOK(buckets)
    BY DEF IInv, TypeOK, TableOK, Partitioned, WellFormedBuckets
  <1>4. k \in DOMAIN buckets /\ Covers(buckets[k], LongId[node])
    BY <1>1, <1>2, IndexFacts DEF IInv, Partitioned, BucketIndexFor
  <1>5. buckets[k] \in Bucket
    BY <1>1, <1>4, ElementOfSeq
  <1>6. WellFormed(buckets[k])
    BY <1>4 DEF IInv, WellFormedBuckets
  <1> QED BY <1>1, <1>2, <1>3, <1>4, <1>5, <1>6

\* The invariant of a state outside a split, from its parts.
LEMMA OutsideSplit ==
    ASSUME TableOK(buckets)', (phase # "split")', (phase \in {"idle", "insert"})',
           (node \in Ids \cup {NoNode})', ((phase = "idle") <=> (node = NoNode))',
           (node # Local)', (rest \in Seq(Ids))', (low \in Bucket)', (high \in Bucket)',
           (lru \in Ids \cup {NoNode})'
    PROVE  IInv'
  BY Zenon DEF IInv, TypeOK, TableOK, Partitioned, WellFormedBuckets, SplitInv

\* RoutingTable::new establishes the invariant.
LEMMA InitIInv == Init => IInv
  <1> SUFFICES ASSUME Init PROVE IInv
    OBVIOUS
  <1> DEFINE b == NewBucket(0, MaxLong)
  <1>1. MaxLong \in Nat /\ NoNode \notin Ids /\ Local \in Ids
    BY RoutingConstants DEF RoutingConstants
  <1>2. /\ b \in Bucket /\ WellFormed(b) /\ b.lo = 0 /\ b.hi = MaxLong
    <2>1. 0 \in 0..MaxLong /\ MaxLong \in 0..MaxLong /\ 0 <= MaxLong
      BY <1>1
    <2> QED BY <2>1, NewBucketFacts, Zenon DEF EmptyBucket
  <1> HIDE DEF b
  <1>3. /\ buckets = <<b>> /\ phase = "idle" /\ node = NoNode /\ rest = <<>>
        /\ low = b /\ high = b /\ lru = NoNode
    BY DEF Init, b
  <1>4. buckets \in Seq(Bucket) /\ buckets # <<>> /\ DOMAIN buckets = {1} /\ buckets[1] = b
    BY <1>2, <1>3
  <1>5. TypeOK
    BY <1>1, <1>2, <1>3, <1>4 DEF TypeOK
  <1>6. Partitioned
    <2>1. \A l \in 0..MaxLong : Covers(b, l)
      BY <1>1, <1>2 DEF Covers
    <2> QED BY <1>4, <2>1 DEF Partitioned, Partition
  <1>7. WellFormedBuckets
    BY <1>2, <1>4 DEF WellFormedBuckets
  <1>8. SplitInv /\ node # Local
    BY <1>1, <1>3 DEF SplitInv
  <1> QED BY <1>5, <1>6, <1>7, <1>8 DEF IInv

\* add_contact takes the lock.
LEMMA AddContactStep ==
    ASSUME IInv, NEW n \in Ids, AddContact(n)
    PROVE  IInv'
  <1>1. /\ n # Local /\ phase' = "insert" /\ node' = n /\ lru' = NoNode
        /\ buckets' = buckets /\ rest' = rest /\ low' = low /\ high' = high
    BY DEF AddContact, NotSplitting
  <1>2. n # NoNode
    BY RoutingConstants DEF RoutingConstants
  <1> QED BY <1>1, <1>2
          DEF IInv, TypeOK, Partitioned, WellFormedBuckets, SplitInv

\* The bucket has room: add_node keeps the table in order.
LEMMA InsertAcceptedStep ==
    ASSUME IInv, InsertAccepted
    PROVE  IInv'
  <1> DEFINE k == BucketIndexFor(LongId[node])
             c == AddNode(buckets[k], node)
  <1>1. /\ phase # "idle" /\ buckets' = [buckets EXCEPT ![k] = c] /\ phase' = "idle"
        /\ node' = NoNode /\ lru' = lru /\ rest' = rest /\ low' = low /\ high' = high
    BY DEF InsertAccepted, NotSplitting
  <1>2. /\ node \in Ids /\ node # Local /\ TableOK(buckets)
        /\ k \in DOMAIN buckets /\ buckets[k] \in Bucket
        /\ WellFormed(buckets[k]) /\ Covers(buckets[k], LongId[node])
    BY <1>1, TargetBucket, Zenon
  <1> HIDE DEF k
  <1>3. c \in Bucket /\ WellFormed(c) /\ c.lo = buckets[k].lo /\ c.hi = buckets[k].hi
    <2>1. Added(buckets[k], node, c)
      BY <1>2, AddNodeFacts, Zenon
    <2> QED BY <2>1, Zenon DEF Added
  <1> HIDE DEF c
  <1>4. TableOK(buckets')
    <2>1. Updated(buckets, k, c, buckets')
      BY <1>1, <1>2, <1>3, UpdateBucket, Zenon
    <2> QED BY <2>1, Zenon DEF Updated
  <1>5. NoNode # Local
    BY RoutingConstants DEF RoutingConstants
  <1>6. rest \in Seq(Ids) /\ low \in Bucket /\ high \in Bucket /\ lru \in Ids \cup {NoNode}
    BY DEF IInv, TypeOK
  <1> QED BY <1>1, <1>4, <1>5, <1>6, OutsideSplit, SMTT(20)

\* The bucket is full and stays: the contact waits, the head is returned.
LEMMA InsertRejectedStep ==
    ASSUME IInv, InsertRejected
    PROVE  IInv'
  <1> DEFINE k == BucketIndexFor(LongId[node])
             c == AddNode(buckets[k], node)
  <1>1. /\ phase # "idle" /\ buckets' = [buckets EXCEPT ![k] = c] /\ phase' = "idle"
        /\ node' = NoNode /\ lru' = Head(c.nodes)
        /\ rest' = rest /\ low' = low /\ high' = high
        /\ ~Accepts(buckets[k], node)
    BY DEF InsertRejected, NotSplitting
  <1>2. /\ node \in Ids /\ node # Local /\ TableOK(buckets)
        /\ k \in DOMAIN buckets /\ buckets[k] \in Bucket
        /\ WellFormed(buckets[k]) /\ Covers(buckets[k], LongId[node])
    BY <1>1, TargetBucket, Zenon
  <1> HIDE DEF k
  <1>3. Added(buckets[k], node, c)
    BY <1>2, AddNodeFacts, Zenon
  <1> HIDE DEF c
  <1>4. /\ c \in Bucket /\ WellFormed(c) /\ c.lo = buckets[k].lo /\ c.hi = buckets[k].hi
        /\ Len(c.nodes) = KSize
    BY <1>1, <1>3, Zenon DEF Added
  <1>5. TableOK(buckets')
    <2>1. Updated(buckets, k, c, buckets')
      BY <1>1, <1>2, <1>4, UpdateBucket, Zenon
    <2> QED BY <2>1, Zenon DEF Updated
  <1>6. Head(c.nodes) \in Ids
    <2>1. c.nodes \in Seq(Ids) /\ c.nodes # <<>>
      BY <1>4, BucketParts, CapFacts
    <2> QED BY <2>1
  <1>7. NoNode # Local
    BY RoutingConstants DEF RoutingConstants
  <1>8. rest \in Seq(Ids) /\ low \in Bucket /\ high \in Bucket
    BY DEF IInv, TypeOK
  <1> QED BY <1>1, <1>5, <1>6, <1>7, <1>8, OutsideSplit, SMTT(20)

\* The table is idle: what its operations other than add_contact may rely on.
LEMMA IdleTable ==
    ASSUME IInv, NEW n \in Ids, NEW k, k = BucketIndexFor(LongId[n])
    PROVE  TableOK(buckets) /\ k \in DOMAIN buckets /\ buckets[k] \in Bucket /\ WellFormed(buckets[k])
  <1>1. LongId[n] \in 0..MaxLong
    BY RoutingConstants DEF RoutingConstants
  <1>2. TableOK(buckets)
    BY DEF IInv, TypeOK, TableOK, Partitioned, WellFormedBuckets
  <1>3. k \in DOMAIN buckets
    BY <1>1, <1>2, IndexFacts DEF TableOK, BucketIndexFor
  <1>4. buckets[k] \in Bucket
    BY <1>2, <1>3, ElementOfSeq DEF TableOK
  <1> QED BY <1>2, <1>3, <1>4 DEF TableOK

\* An operation on an idle table that changes nothing but buckets.
LEMMA IdleStep ==
    ASSUME IInv, phase = "idle", TableOK(buckets'),
           UNCHANGED <<phase, node, rest, low, high, lru>>
    PROVE  IInv'
  <1>1. /\ phase' = "idle" /\ node' = node /\ rest' = rest /\ low' = low /\ high' = high
        /\ lru' = lru
    OBVIOUS
  <1>2. /\ node \in Ids \cup {NoNode} /\ node = NoNode /\ node # Local
        /\ rest \in Seq(Ids) /\ low \in Bucket /\ high \in Bucket
        /\ lru \in Ids \cup {NoNode}
    BY DEF IInv, TypeOK
  <1> QED BY <1>1, <1>2, OutsideSplit

\* remove_contact keeps the table in order.
LEMMA RemoveContactStep ==
    ASSUME IInv, NEW n \in Ids, RemoveContact(n)
    PROVE  IInv'
  <1> DEFINE k == BucketIndexFor(LongId[n])
             c == RemoveNode(buckets[k], n)
  <1>1. /\ phase = "idle" /\ buckets' = [buckets EXCEPT ![k] = c]
        /\ UNCHANGED <<phase, node, rest, low, high, lru>>
    BY DEF RemoveContact, NotSplitting
  <1>2. /\ TableOK(buckets) /\ k \in DOMAIN buckets /\ buckets[k] \in Bucket
        /\ WellFormed(buckets[k])
    BY IdleTable, Zenon
  <1> HIDE DEF k
  <1>3. c \in Bucket /\ WellFormed(c) /\ c.lo = buckets[k].lo /\ c.hi = buckets[k].hi
    BY <1>2, RemoveNodeFacts, Zenon
  <1> HIDE DEF c
  <1>4. TableOK(buckets')
    <2>1. Updated(buckets, k, c, buckets')
      BY <1>1, <1>2, <1>3, UpdateBucket, Zenon
    <2> QED BY <2>1, Zenon DEF Updated
  <1> QED BY <1>1, <1>4, IdleStep

\* The time stamp of a bucket has no part in its being well formed.
LEMMA TouchFacts ==
    ASSUME NEW b \in Bucket, WellFormed(b), NEW v \in BOOLEAN
    PROVE  LET c == [b EXCEPT !.lonely = v]
           IN  c \in Bucket /\ WellFormed(c) /\ c.lo = b.lo /\ c.hi = b.hi
  <1> DEFINE c == [b EXCEPT !.lonely = v]
  <1>1. /\ c \in Bucket /\ c.lo = b.lo /\ c.hi = b.hi
        /\ c.nodes = b.nodes /\ c.replacement = b.replacement
    BY DEF Bucket
  <1> HIDE DEF c
  <1>2. Members(c) = Members(b) /\ \A l : Covers(c, l) <=> Covers(b, l)
    BY <1>1 DEF Members, Covers
  <1>3. WellFormed(c)
    BY <1>1, <1>2 DEF WellFormed
  <1> QED BY <1>1, <1>3 DEF c

\* find_neighbors touches the bucket of its target.
LEMMA LookupStep ==
    ASSUME IInv, NEW n \in Ids, Lookup(n)
    PROVE  IInv'
  <1> DEFINE k == BucketIndexFor(LongId[n])
             c == [buckets[k] EXCEPT !.lonely = FALSE]
  <1>1. /\ phase = "idle" /\ buckets' = [buckets EXCEPT ![k].lonely = FALSE]
        /\ UNCHANGED <<phase, node, rest, low, high, lru>>
    BY DEF Lookup, NotSplitting
  <1>2. /\ TableOK(buckets) /\ k \in DOMAIN buckets /\ buckets[k] \in Bucket
        /\ WellFormed(buckets[k])
    BY IdleTable, Zenon
  <1> HIDE DEF k
  <1>3. c \in Bucket /\ WellFormed(c) /\ c.lo = buckets[k].lo /\ c.hi = buckets[k].hi
    BY <1>2, TouchFacts, Zenon
  <1>4. buckets' = [buckets EXCEPT ![k] = c]
    BY <1>1
  <1> HIDE DEF c
  <1>5. TableOK(buckets')
    <2>1. Updated(buckets, k, c, buckets')
      BY <1>2, <1>3, <1>4, UpdateBucket, Zenon
    <2> QED BY <2>1, Zenon DEF Updated
  <1> QED BY <1>1, <1>5, IdleStep

\* Time passes for every bucket.
LEMMA HourPassesStep ==
    ASSUME IInv, HourPasses
    PROVE  IInv'
  <1>1. /\ phase = "idle"
        /\ buckets' = [i \in DOMAIN buckets |-> [buckets[i] EXCEPT !.lonely = TRUE]]
        /\ UNCHANGED <<phase, node, rest, low, high, lru>>
    BY DEF HourPasses, NotSplitting
  <1>2. /\ buckets \in Seq(Bucket) /\ buckets # <<>> /\ Partition(buckets)
        /\ \A i \in DOMAIN buckets : WellFormed(buckets[i])
    BY DEF IInv, TypeOK, Partitioned, WellFormedBuckets
  <1>3. ASSUME NEW i \in DOMAIN buckets
        PROVE  /\ buckets'[i] \in Bucket /\ WellFormed(buckets'[i])
               /\ buckets'[i].lo = buckets[i].lo /\ buckets'[i].hi = buckets[i].hi
    <2>1. buckets[i] \in Bucket /\ buckets'[i] = [buckets[i] EXCEPT !.lonely = TRUE]
      BY <1>1, <1>2, ElementOfSeq
    <2> QED BY <1>2, <2>1, TouchFacts, Zenon
  <1>4. buckets' \in Seq(Bucket) /\ DOMAIN buckets' = DOMAIN buckets /\ buckets' # <<>>
    <2>1. DOMAIN buckets' = 1..Len(buckets) /\ Len(buckets) \in Nat /\ Len(buckets) # 0
      BY <1>1, <1>2, EmptySeq
    <2>2. buckets' \in [1..Len(buckets) -> Bucket]
      BY <1>1, <1>3, <2>1
    <2>3. buckets' \in Seq(Bucket)
      BY <2>1, <2>2
    <2> QED BY <1>1, <1>2, <2>1, <2>3
  <1>5. Partition(buckets')
    BY <1>2, <1>3, <1>4, SameIndex
  <1>6. TableOK(buckets')
    BY <1>3, <1>4, <1>5 DEF TableOK
  <1> QED BY <1>1, <1>6, IdleStep

\* The bucket is full and is split.  It covers two ids at least: that of the
\* contact and that of any contact it already holds.
LEMMA BeginSplitStep ==
    ASSUME DistinctLongIds, IInv, BeginSplit
    PROVE  IInv'
  <1> DEFINE k == BucketIndexFor(LongId[node])
             b == buckets[k]
             c == AddNode(b, node)
  <1>1. /\ phase # "idle" /\ ~Accepts(b, node)
        /\ buckets' = [buckets EXCEPT ![k] = c] /\ phase' = "split"
        /\ rest' = SplitOrder(c)
        /\ low' = NewBucket(c.lo, Mid(c)) /\ high' = NewBucket(HighStart(c), c.hi)
        /\ node' = node /\ lru' = lru
    BY DEF BeginSplit
  <1>2. /\ node \in Ids /\ node # Local /\ node # NoNode /\ LongId[node] \in 0..MaxLong
        /\ TableOK(buckets) /\ k \in DOMAIN buckets /\ b \in Bucket
        /\ WellFormed(b) /\ Covers(b, LongId[node])
    BY <1>1, TargetBucket, Zenon
  <1>k. k = IndexIn(buckets, LongId[node])
    BY DEF BucketIndexFor
  <1> HIDE DEF k, b
  <1>3. Added(b, node, c)
    BY <1>2, AddNodeFacts, Zenon
  <1> HIDE DEF c
  <1>4. /\ c \in Bucket /\ WellFormed(c) /\ c.lo = b.lo /\ c.hi = b.hi
        /\ Len(c.nodes) = KSize /\ c.nodes = b.nodes
        /\ node \notin Range(b.nodes) /\ node \in Range(c.replacement)
    BY <1>1, <1>3, Zenon DEF Added
  <1>5. c.lo < c.hi
    <2>1. c.nodes \in Seq(Ids) /\ c.nodes # <<>> /\ c.lo \in 0..MaxLong /\ c.hi \in 0..MaxLong
      BY <1>4, BucketParts, CapFacts
    <2>2. c.nodes[1] \in Range(c.nodes) /\ c.nodes[1] \in Ids
      BY <2>1, EmptySeq DEF Range
    <2>3. PICK x \in Ids : x \in Range(c.nodes)
      BY <2>2
    <2>4. x # node /\ LongId[x] # LongId[node]
      BY <1>2, <1>4, <2>3 DEF DistinctLongIds
    <2>5. Covers(c, LongId[x])
      BY <1>4, <2>3 DEF WellFormed, Members
    <2>6. LongId[x] \in 0..MaxLong /\ MaxLong \in Nat
      BY RoutingConstants DEF RoutingConstants
    <2>7. c.lo <= LongId[node] /\ LongId[node] <= c.hi /\ c.lo <= LongId[x] /\ LongId[x] <= c.hi
      BY <1>2, <1>4, <2>5 DEF Covers
    <2> QED BY <1>2, <2>1, <2>4, <2>6, <2>7, SMTT(20)
  <1>6. low' \in Bucket /\ high' \in Bucket /\ rest' \in Seq(Ids) /\ Divided(c, low', high', rest')
    <2>1. SplitUp(c, low', high', rest')
      BY <1>1, <1>4, <1>5, DividedAtFirst, Zenon
    <2> QED BY <2>1, Zenon DEF SplitUp
  <1>7. /\ TableOK(buckets')
        /\ \A l \in 0..MaxLong : IndexIn(buckets', l) = IndexIn(buckets, l)
        /\ buckets'[k] = c
    <2>1. Updated(buckets, k, c, buckets')
      BY <1>1, <1>2, <1>4, UpdateBucket, Zenon DEF b
    <2> QED BY <2>1, Zenon DEF Updated
  <1>8. buckets'[IndexIn(buckets', LongId[node])] = c
    BY <1>2, <1>7, <1>k, Zenon
  <1>9. lru \in Ids \cup {NoNode}
    BY DEF IInv, TypeOK
  <1>10. TypeOK' /\ (node # Local)'
    BY <1>1, <1>2, <1>6, <1>7, <1>9, SMTT(20) DEF TypeOK, TableOK
  <1>11. Partitioned' /\ WellFormedBuckets'
    BY <1>7 DEF TableOK, Partitioned, WellFormedBuckets
  <1>12. SplitInv'
    BY <1>1, <1>4, <1>6, <1>8, SMTT(20) DEF SplitInv, BucketIndexFor
  <1> QED BY <1>10, <1>11, <1>12 DEF IInv

\* What holds while a bucket is being split.
LEMMA DuringSplit ==
    ASSUME IInv, phase = "split", NEW b, b = buckets[BucketIndexFor(LongId[node])]
    PROVE  /\ b \in Bucket /\ WellFormed(b) /\ low \in Bucket /\ high \in Bucket
           /\ rest \in Seq(Ids) /\ lru \in Ids \cup {NoNode}
           /\ node \in Range(b.replacement)
           /\ WellFormed(low) /\ WellFormed(high) /\ Shared(b, low, high, rest)
           /\ low.lo = b.lo /\ low.hi = Mid(b) /\ high.lo = Mid(b) + 1 /\ high.hi = b.hi
  <1>1. b \in Bucket /\ WellFormed(b)
    BY TargetBucket, Zenon
  <1>2. low \in Bucket /\ high \in Bucket /\ rest \in Seq(Ids) /\ lru \in Ids \cup {NoNode}
    BY DEF IInv, TypeOK
  <1>3. node \in Range(b.replacement) /\ Divided(b, low, high, rest)
    BY Zenon DEF IInv, SplitInv
  <1> QED BY <1>1, <1>2, <1>3, Zenon DEF Divided

\* One contact of the bucket being split goes to the half of its range.
LEMMA MoveContactStep ==
    ASSUME IInv, MoveContact
    PROVE  IInv'
  <1> DEFINE b == buckets[BucketIndexFor(LongId[node])]
             e == Head(rest)
  <1>1. /\ phase = "split" /\ rest # <<>> /\ rest' = Tail(rest)
        /\ buckets' = buckets /\ phase' = phase /\ node' = node /\ lru' = lru
        /\ \/ LongId[e] <= low.hi /\ low' = AddNode(low, e) /\ high' = high
           \/ ~(LongId[e] <= low.hi) /\ high' = AddNode(high, e) /\ low' = low
    BY DEF MoveContact
  <1>2. /\ b \in Bucket /\ WellFormed(b) /\ low \in Bucket /\ high \in Bucket
        /\ rest \in Seq(Ids) /\ lru \in Ids \cup {NoNode}
        /\ node \in Range(b.replacement)
        /\ WellFormed(low) /\ WellFormed(high) /\ Shared(b, low, high, rest)
        /\ low.lo = b.lo /\ low.hi = Mid(b) /\ high.lo = Mid(b) + 1 /\ high.hi = b.hi
    BY <1>1, DuringSplit, Zenon
  <1>b. b' = b
    BY <1>1 DEF BucketIndexFor
  <1> HIDE DEF b
  <1>3. e # Local /\ e \in Ids /\ b.lo <= LongId[e] /\ LongId[e] <= b.hi
    <2>1. e \in Range(rest) /\ e \in Ids
      BY <1>1, <1>2, HeadTailFacts DEF Shared
    <2>2. e \in Members(b)
      BY <1>2, <2>1 DEF Shared
    <2> QED BY <1>2, <2>1, <2>2 DEF WellFormed, Covers
  <1>4. /\ LongId[e] <= low.hi => Covers(low, LongId[e])
        /\ ~(LongId[e] <= low.hi) => Covers(high, LongId[e])
    <2>1. LongId[e] \in Nat /\ low.hi \in Nat
      BY <1>2, <1>3, BucketParts, RoutingConstants, SMTT(20) DEF RoutingConstants
    <2>2. high.lo = low.hi + 1
      BY <1>2
    <2>3. \A x, y \in Nat : ~(x <= y) => y + 1 <= x
      OBVIOUS
    <2> QED BY <1>2, <1>3, <2>1, <2>2, <2>3, Zenon DEF Covers
  <1> HIDE DEF e
  <1>5. /\ low' \in Bucket /\ high' \in Bucket /\ rest' \in Seq(Ids)
        /\ Divided(b, low', high', rest')
    <2>1. CASE LongId[e] <= low.hi /\ low' = AddNode(low, e) /\ high' = high
      <3>1. /\ low' \in Bucket /\ WellFormed(low') /\ low'.lo = low.lo /\ low'.hi = low.hi
            /\ rest' \in Seq(Ids) /\ Shared(b, low', high, rest')
        <4>1. HandedOut(b, low, high, AddNode(low, e), Tail(rest))
          BY <1>1, <1>2, <1>3, <1>4, <2>1, HandOut, Zenon DEF e
        <4> QED BY <1>1, <2>1, <4>1, Zenon DEF HandedOut
      <3> QED BY <1>2, <2>1, <3>1, Zenon DEF Divided
    <2>2. CASE ~(LongId[e] <= low.hi) /\ high' = AddNode(high, e) /\ low' = low
      <3>1. Shared(b, high, low, rest)
        BY <1>2, SharedSymmetric, Zenon
      <3>2. /\ high' \in Bucket /\ WellFormed(high') /\ high'.lo = high.lo /\ high'.hi = high.hi
            /\ rest' \in Seq(Ids) /\ Shared(b, high', low, rest')
        <4>1. HandedOut(b, high, low, AddNode(high, e), Tail(rest))
          BY <1>1, <1>2, <1>3, <1>4, <2>2, <3>1, HandOut, Zenon DEF e
        <4> QED BY <1>1, <2>2, <4>1, Zenon DEF HandedOut
      <3>3. Shared(b, low, high', rest')
        BY <1>2, <3>2, SharedSymmetric, Zenon
      <3> QED BY <1>2, <2>2, <3>2, <3>3, Zenon DEF Divided
    <2> QED BY <1>1, <2>1, <2>2, Zenon
  <1>6. TypeOK' /\ (node # Local)'
    BY <1>1, <1>5 DEF IInv, TypeOK
  <1>7. Partitioned' /\ WellFormedBuckets'
    BY <1>1 DEF IInv, Partitioned, WellFormedBuckets
  <1>8. SplitInv'
    BY <1>1, <1>2, <1>5, <1>b, Zenon DEF SplitInv, b, BucketIndexFor
  <1> QED BY <1>6, <1>7, <1>8 DEF IInv

\* The halves take the place of the bucket.
LEMMA FinishSplitStep ==
    ASSUME IInv, FinishSplit
    PROVE  IInv'
  <1> DEFINE k == BucketIndexFor(LongId[node])
             e == NewBucket(0, MaxLong)
  <1>1. /\ phase = "split" /\ phase # "idle"
        /\ buckets' = ReplaceByHalves(buckets, k, low, high)
        /\ phase' = "insert" /\ low' = e /\ high' = e
        /\ node' = node /\ rest' = rest /\ lru' = lru
    BY DEF FinishSplit
  <1>2. /\ node \in Ids /\ node # Local /\ node # NoNode
        /\ TableOK(buckets) /\ k \in DOMAIN buckets
    BY <1>1, TargetBucket, Zenon
  <1>3. /\ low \in Bucket /\ high \in Bucket /\ rest \in Seq(Ids) /\ lru \in Ids \cup {NoNode}
        /\ WellFormed(low) /\ WellFormed(high)
        /\ low.lo = buckets[k].lo /\ low.hi = Mid(buckets[k])
        /\ high.lo = Mid(buckets[k]) + 1 /\ high.hi = buckets[k].hi
    BY <1>1, DuringSplit, Zenon
  <1> HIDE DEF k
  <1>4. high.lo = low.hi + 1
    BY <1>3
  <1>5. TableOK(buckets')
    BY <1>1, <1>2, <1>3, <1>4, HalvesTable, Zenon
  <1>6. e \in Bucket
    <2>1. 0 \in 0..MaxLong /\ MaxLong \in 0..MaxLong /\ 0 <= MaxLong
      BY RoutingConstants DEF RoutingConstants
    <2> QED BY <2>1, NewBucketFacts, Zenon DEF EmptyBucket
  <1> HIDE DEF e
  <1> QED BY <1>1, <1>2, <1>3, <1>5, <1>6, OutsideSplit, SMTT(20)

\* Every step keeps the invariant.
LEMMA NextIInv ==
    ASSUME DistinctLongIds, IInv, [Next]_vars
    PROVE  IInv'
  <1>1. CASE UNCHANGED vars
    <2>1. /\ buckets' = buckets /\ phase' = phase /\ node' = node /\ rest' = rest
          /\ low' = low /\ high' = high /\ lru' = lru
      BY <1>1 DEF vars
    <2> QED BY <2>1, Zenon
            DEF IInv, TypeOK, Partitioned, WellFormedBuckets, SplitInv, BucketIndexFor
  <1>2. ASSUME NEW n \in Ids, AddContact(n) PROVE IInv'
    BY <1>2, AddContactStep
  <1>3. ASSUME NEW n \in Ids, RemoveContact(n) PROVE IInv'
    BY <1>3, RemoveContactStep, SMTT(20)
  <1>4. ASSUME NEW n \in Ids, Lookup(n) PROVE IInv'
    BY <1>4, LookupStep
  <1>5. CASE HourPasses
    BY <1>5, HourPassesStep
  <1>6. CASE InsertAccepted
    BY <1>6, InsertAcceptedStep, SMTT(20)
  <1>7. CASE InsertRejected
    BY <1>7, InsertRejectedStep
  <1>8. CASE BeginSplit
    BY <1>8, BeginSplitStep, SMTT(20)
  <1>9. CASE MoveContact
    BY <1>9, MoveContactStep
  <1>10. CASE FinishSplit
    BY <1>10, FinishSplitStep
  <1> QED BY <1>1, <1>2, <1>3, <1>4, <1>5, <1>6, <1>7, <1>8, <1>9, <1>10, Zenon
          DEF Next, InsertStep

\* The invariant holds in every reachable state of the routing table.
THEOREM Invariance ==
    ASSUME DistinctLongIds
    PROVE  Safety => []IInv
  <1>1. IInv /\ [Next]_vars => IInv'
    BY NextIInv
  <1> QED BY <1>1, InitIInv, PTL DEF Safety

\* Every variable of the routing table keeps its type, and add_contact's
\* working state is in use only while it runs.
THEOREM TypeCorrect ==
    ASSUME DistinctLongIds
    PROVE  Safety => []TypeOK
  <1>1. IInv => TypeOK
    BY DEF IInv
  <1> QED BY <1>1, Invariance, PTL

\* However buckets are split, they divide the space of long ids between
\* them, so that bucket_index_for finds exactly one bucket for every id.
THEOREM BucketsPartition ==
    ASSUME DistinctLongIds
    PROVE  Safety => []Partitioned
  <1>1. IInv => Partitioned
    BY DEF IInv
  <1> QED BY <1>1, Invariance, PTL

\* Every bucket respects its caps, holds each contact once and in the right
\* range, and lets nobody wait behind a free place.
THEOREM BucketsWellFormed ==
    ASSUME DistinctLongIds
    PROVE  Safety => []WellFormedBuckets
  <1>1. IInv => WellFormedBuckets
    BY DEF IInv
  <1> QED BY <1>1, Invariance, PTL

\* At every point of a split the halves and the contacts still to be handed
\* out hold the bucket's contacts, each once, and the primary ones that wait
\* come first (KBucket::split).
THEOREM SplitsShareContacts ==
    ASSUME DistinctLongIds
    PROVE  Safety => []SplitInv
  <1>1. IInv => SplitInv
    BY DEF IInv
  <1> QED BY <1>1, Invariance, PTL

-----------------------------------------------------------------------------
(* What a step of an insertion may never do *)

\* No primary contact of bs is missing among those of cs, and no contact
\* but those of `gone'.
Kept(bs, cs, gone) ==
    /\ Contacts(bs) \ Contacts(cs) \subseteq gone
    /\ Primaries(bs) \subseteq Primaries(cs)

\* Being a contact, and a primary one, bucket by bucket.
LEMMA InSomeBucket ==
    ASSUME NEW bs
    PROVE  /\ \A x : x \in Contacts(bs) <=> \E i \in DOMAIN bs : x \in Members(bs[i])
           /\ \A x : x \in Primaries(bs) <=> \E i \in DOMAIN bs : x \in Range(bs[i].nodes)
  BY DEF Contacts, Primaries

\* A bucket changes into one that has lost at most `gone'.
LEMMA UpdateKeeps ==
    ASSUME NEW bs, NEW k \in DOMAIN bs, NEW c, NEW cs, Updated(bs, k, c, cs), NEW gone,
           Members(bs[k]) \ Members(c) \subseteq gone, Range(bs[k].nodes) \subseteq Range(c.nodes)
    PROVE  Kept(bs, cs, gone)
  <1>1. DOMAIN cs = DOMAIN bs /\ cs[k] = c /\ \A i \in DOMAIN bs : i # k => cs[i] = bs[i]
    BY Zenon DEF Updated
  <1>2. ASSUME NEW x, x \in Contacts(bs), x \notin gone PROVE x \in Contacts(cs)
    <2>1. PICK i \in DOMAIN bs : x \in Members(bs[i])
      BY <1>2, InSomeBucket, Zenon
    <2>2. x \in Members(cs[i])
      BY <1>1, <1>2, <2>1
    <2> QED BY <1>1, <2>2, InSomeBucket, Zenon
  <1>3. ASSUME NEW x, x \in Primaries(bs) PROVE x \in Primaries(cs)
    <2>1. PICK i \in DOMAIN bs : x \in Range(bs[i].nodes)
      BY <1>3, InSomeBucket, Zenon
    <2>2. x \in Range(cs[i].nodes)
      BY <1>1, <2>1
    <2> QED BY <1>1, <2>2, InSomeBucket, Zenon
  <1> QED BY <1>2, <1>3 DEF Kept

\* Two halves that hold the contacts of a bucket take its place.
LEMMA HalvesKeep ==
    ASSUME NEW bs \in Seq(Bucket), NEW k \in DOMAIN bs, NEW l, NEW h, NEW cs,
           HalvesAt(cs, bs, k, l, h),
           Members(bs[k]) \subseteq Members(l) \cup Members(h),
           Range(bs[k].nodes) \subseteq Range(l.nodes) \cup Range(h.nodes)
    PROVE  Kept(bs, cs, {})
  <1>1. /\ cs \in Seq(Bucket) /\ Len(cs) = Len(bs) + 1
        /\ \A j \in 1..(k - 1) : cs[j] = bs[j]
        /\ cs[k] = l /\ cs[k + 1] = h
        /\ \A j \in (k + 2)..(Len(bs) + 1) : cs[j] = bs[j - 1]
    BY Zenon DEF HalvesAt
  <1>2. /\ Len(bs) \in Nat /\ k \in 1..Len(bs) /\ DOMAIN bs = 1..Len(bs)
        /\ DOMAIN cs = 1..(Len(bs) + 1) /\ k \in DOMAIN cs /\ k + 1 \in DOMAIN cs
    BY <1>1
  <1>3. ASSUME NEW i \in DOMAIN bs, i # k
        PROVE  \E j \in DOMAIN cs : cs[j] = bs[i]
    <2>1. CASE i < k
      <3>1. i \in 1..(k - 1) /\ i \in DOMAIN cs
        BY <1>2, <2>1
      <3> QED BY <1>1, <3>1, Zenon
    <2>2. CASE i > k
      <3>1. i + 1 \in (k + 2)..(Len(bs) + 1) /\ i + 1 \in DOMAIN cs /\ (i + 1) - 1 = i
        BY <1>2, <2>2
      <3>2. cs[i + 1] = bs[(i + 1) - 1]
        BY <1>1, <3>1, Zenon
      <3> QED BY <3>1, <3>2, Zenon
    <2> QED BY <1>2, <1>3, <2>1, <2>2
  <1>4. ASSUME NEW x, x \in Contacts(bs) PROVE x \in Contacts(cs)
    <2>1. PICK i \in DOMAIN bs : x \in Members(bs[i])
      BY <1>4, InSomeBucket, Zenon
    <2>2. \E j \in DOMAIN cs : x \in Members(cs[j])
      <3>1. CASE i = k
        BY <1>1, <1>2, <2>1, <3>1, SMTT(20)
      <3>2. CASE i # k
        BY <1>3, <2>1, <3>2
      <3> QED BY <3>1, <3>2
    <2> QED BY <2>2, InSomeBucket, Zenon
  <1>5. ASSUME NEW x, x \in Primaries(bs) PROVE x \in Primaries(cs)
    <2>1. PICK i \in DOMAIN bs : x \in Range(bs[i].nodes)
      BY <1>5, InSomeBucket, Zenon
    <2>2. \E j \in DOMAIN cs : x \in Range(cs[j].nodes)
      <3>1. CASE i = k
        BY <1>1, <1>2, <2>1, <3>1, SMTT(20)
      <3>2. CASE i # k
        BY <1>3, <2>1, <3>2
      <3> QED BY <3>1, <3>2
    <2> QED BY <2>2, InSomeBucket, Zenon
  <1> QED BY <1>4, <1>5 DEF Kept

\* Who add_node may drop: the oldest replacement, when the list is at its cap.
Droppable(b) == IF Len(b.replacement) = MaxReplacement THEN {Head(b.replacement)} ELSE {}

\* A step that hands the contact to add_node.
LEMMA AddStepKeeps ==
    ASSUME IInv, phase = "insert", NEW k, k = BucketIndexFor(LongId[node]),
           buckets' = [buckets EXCEPT ![k] = AddNode(buckets[k], node)]
    PROVE  Kept(buckets, buckets', Droppable(buckets[k]))
  <1> DEFINE c == AddNode(buckets[k], node)
  <1>1. /\ node \in Ids /\ node # Local /\ TableOK(buckets)
        /\ k \in DOMAIN buckets /\ buckets[k] \in Bucket
        /\ WellFormed(buckets[k]) /\ Covers(buckets[k], LongId[node])
    <2>1. phase # "idle"
      OBVIOUS
    <2> QED BY <2>1, TargetBucket, Zenon
  <1>2. Added(buckets[k], node, c)
    BY <1>1, AddNodeFacts, Zenon
  <1>3. buckets' = [buckets EXCEPT ![k] = c]
    OBVIOUS
  <1> HIDE DEF c
  <1>4. c \in Bucket /\ WellFormed(c) /\ c.lo = buckets[k].lo /\ c.hi = buckets[k].hi
    BY <1>2, Zenon DEF Added
  <1>5. Updated(buckets, k, c, buckets')
    BY <1>1, <1>3, <1>4, UpdateBucket, Zenon
  <1>6. Members(buckets[k]) \ Members(c) \subseteq Droppable(buckets[k])
    BY <1>2, Zenon DEF Added, Droppable
  <1>7. Range(buckets[k].nodes) \subseteq Range(c.nodes)
    BY <1>2 DEF Added
  <1> QED BY <1>1, <1>5, <1>6, <1>7, UpdateKeeps, Zenon

\* The step that installs the halves.
LEMMA FinishSplitKeeps ==
    ASSUME IInv, FinishSplit
    PROVE  Kept(buckets, buckets', {})
  <1> DEFINE k == BucketIndexFor(LongId[node])
  <1>1. /\ phase = "split" /\ phase # "idle" /\ rest = <<>>
        /\ buckets' = ReplaceByHalves(buckets, k, low, high)
    BY DEF FinishSplit
  <1>2. TableOK(buckets) /\ k \in DOMAIN buckets
    BY <1>1, TargetBucket, Zenon
  <1>3. /\ buckets[k] \in Bucket /\ low \in Bucket /\ high \in Bucket
        /\ Shared(buckets[k], low, high, rest)
    BY <1>1, DuringSplit, Zenon
  <1> HIDE DEF k
  <1>4. buckets \in Seq(Bucket) /\ k \in 1..Len(buckets)
    BY <1>2 DEF TableOK
  <1>5. HalvesAt(buckets', buckets, k, low, high)
    BY <1>1, <1>3, <1>4, HalvesFacts, Zenon
  <1>6. Range(rest) = {} /\ Len(rest) = 0
    BY <1>1 DEF Range
  <1>7. Members(buckets[k]) \subseteq Members(low) \cup Members(high)
    BY <1>3, <1>6 DEF Shared
  <1>8. Range(buckets[k].nodes) \subseteq Range(low.nodes) \cup Range(high.nodes)
    <2>1. \A m \in Nat : 1..(0 - m) = {}
      OBVIOUS
    <2>2. Len(buckets[k].replacement) \in Nat
      BY <1>3, SizeFacts
    <2>3. 1..(Len(rest) - Len(buckets[k].replacement)) = {}
      BY <1>6, <2>1, <2>2
    <2>4. \A n \in Range(buckets[k].nodes) : n \in Range(low.nodes) \cup Range(high.nodes)
      BY <1>3, <2>3, Zenon DEF Shared
    <2> QED BY <2>4, Zenon
  <1> QED BY <1>2, <1>4, <1>5, <1>7, <1>8, HalvesKeep, Zenon

\* Which steps an insertion under way can take.
LEMMA InsertionSteps ==
    ASSUME [Next]_vars, phase # "idle"
    PROVE  \/ InsertAccepted \/ InsertRejected \/ BeginSplit \/ MoveContact \/ FinishSplit
           \/ UNCHANGED buckets /\ UNCHANGED phase
  BY Zenon DEF Next, InsertStep, AddContact, RemoveContact, Lookup, HourPasses, vars

\* What a step of an insertion keeps, whichever step it is.
LEMMA StepKeeps ==
    ASSUME IInv, [Next]_vars, phase # "idle"
    PROVE  Kept(buckets, buckets',
                IF phase = "insert" THEN Droppable(buckets[BucketIndexFor(LongId[node])]) ELSE {})
  <1> DEFINE k == BucketIndexFor(LongId[node])
             gone == IF phase = "insert" THEN Droppable(buckets[k]) ELSE {}
  <1>1. CASE UNCHANGED buckets
    BY <1>1 DEF Kept
  <1>2. CASE phase = "insert" /\ buckets' = [buckets EXCEPT ![k] = AddNode(buckets[k], node)]
    <2>1. Kept(buckets, buckets', Droppable(buckets[k]))
      BY <1>2, AddStepKeeps, Zenon
    <2> QED BY <1>2, <2>1
  <1>3. CASE FinishSplit
    <2>1. Kept(buckets, buckets', {})
      BY <1>3, FinishSplitKeeps
    <2>2. phase # "insert"
      BY <1>3, SMTT(20) DEF FinishSplit
    <2> QED BY <2>1, <2>2
  <1>4. InsertAccepted \/ InsertRejected \/ BeginSplit =>
           phase = "insert" /\ buckets' = [buckets EXCEPT ![k] = AddNode(buckets[k], node)]
    BY DEF InsertAccepted, InsertRejected, BeginSplit
  <1>5. MoveContact => UNCHANGED buckets
    BY DEF MoveContact
  <1> QED BY <1>1, <1>2, <1>3, <1>4, <1>5, InsertionSteps, Zenon

\* An insertion drops nobody but the oldest replacement of a bucket whose
\* replacement list is at its cap: add_node's pop_front is the only place
\* where a contact is lost, and no half of a split ever reaches its cap.
THEOREM InsertionKeepsContacts ==
    ASSUME DistinctLongIds
    PROVE  Safety => InsertKeepsContacts
  <1>1. IInv /\ [Next]_vars =>
          [phase # "idle" =>
            LET b == buckets[BucketIndexFor(LongId[node])]
            IN  Contacts(buckets) \ Contacts(buckets') \subseteq
                  (IF phase = "insert" /\ Len(b.replacement) = MaxReplacement
                   THEN {Head(b.replacement)}
                   ELSE {})]_vars
    BY StepKeeps, Zenon DEF Kept, Droppable
  <1> QED BY <1>1, Invariance, PTL DEF Safety, InsertKeepsContacts

\* An insertion never moves a primary contact out of the primary lists, in
\* whatever way it splits the buckets (KBucket::split hands out the primary
\* list before the replacements).
THEOREM InsertionKeepsPrimaries ==
    ASSUME DistinctLongIds
    PROVE  Safety => InsertKeepsPrimaries
  <1>1. IInv /\ [Next]_vars =>
          [phase # "idle" => Primaries(buckets) \subseteq Primaries(buckets')]_vars
    BY StepKeeps, Zenon DEF Kept
  <1> QED BY <1>1, Invariance, PTL DEF Safety, InsertKeepsPrimaries

\* After a split the contact falls into one of the halves, which are narrower.
LEMMA FinishSplitNarrows ==
    ASSUME DistinctLongIds, IInv, FinishSplit
    PROVE  Width(buckets', node) < Width(buckets, node)
  <1> DEFINE l == LongId[node]
             k == BucketIndexFor(l)
             j == IndexIn(buckets', l)
  <1>1. /\ phase = "split" /\ phase # "idle"
        /\ buckets' = ReplaceByHalves(buckets, k, low, high)
    BY DEF FinishSplit
  <1>2. l \in 0..MaxLong /\ TableOK(buckets) /\ k \in DOMAIN buckets /\ Covers(buckets[k], l)
    BY <1>1, TargetBucket, Zenon
  <1>3. /\ buckets[k] \in Bucket /\ low \in Bucket /\ high \in Bucket
        /\ WellFormed(low) /\ WellFormed(high)
        /\ low.lo = buckets[k].lo /\ low.hi = Mid(buckets[k])
        /\ high.lo = Mid(buckets[k]) + 1 /\ high.hi = buckets[k].hi
    BY <1>1, DuringSplit, Zenon
  <1>4. Width(buckets, node) = buckets[k].hi - buckets[k].lo
    BY Zenon DEF Width, BucketIndexFor
  <1>5. Width(buckets', node) = buckets'[j].hi - buckets'[j].lo
    BY Zenon DEF Width
  <1>6. IInv'
    BY FinishSplitStep
  <1>7. buckets' \in Seq(Bucket) /\ Partition(buckets')
    BY <1>6 DEF IInv, TypeOK, Partitioned
  <1> HIDE DEF l, k
  <1>8. buckets \in Seq(Bucket) /\ k \in 1..Len(buckets)
    BY <1>2 DEF TableOK
  <1>9. HalvesAt(buckets', buckets, k, low, high)
    BY <1>1, <1>3, <1>8, HalvesFacts, Zenon
  <1>10. /\ buckets'[k] = low /\ buckets'[k + 1] = high /\ Len(buckets') = Len(buckets) + 1
    BY <1>9, Zenon DEF HalvesAt
  <1>11. k \in DOMAIN buckets' /\ k + 1 \in DOMAIN buckets'
    BY <1>7, <1>8, <1>10
  <1>12. buckets'[j] = low \/ buckets'[j] = high
    <2>1. \A i \in DOMAIN buckets' : Covers(buckets'[i], l) => i = j
      BY <1>2, <1>7, IndexFacts
    <2>2. Covers(low, l) \/ Covers(high, l)
      <3>1. /\ l \in Nat /\ buckets[k].lo <= l /\ l <= buckets[k].hi
            /\ low.hi \in Nat /\ high.lo = low.hi + 1
        BY <1>2, <1>3, BucketParts, RoutingConstants, SMTT(20) DEF Covers, RoutingConstants
      <3>2. \A x, y \in Nat : x <= y \/ y + 1 <= x
        OBVIOUS
      <3> QED BY <1>3, <3>1, <3>2, Zenon DEF Covers
    <2> QED BY <1>10, <1>11, <2>1, <2>2, Zenon
  <1> HIDE DEF j
  <1>13. low.hi - low.lo < buckets[k].hi - buckets[k].lo
         /\ high.hi - high.lo < buckets[k].hi - buckets[k].lo
    <2>1. /\ low.lo \in Nat /\ low.hi \in Nat /\ high.lo \in Nat /\ high.hi \in Nat
          /\ low.lo <= low.hi /\ high.lo <= high.hi /\ high.lo = low.hi + 1
      <3>1. low.lo \in 0..MaxLong /\ low.hi \in 0..MaxLong /\ high.lo \in 0..MaxLong /\ high.hi \in 0..MaxLong
        BY <1>3, BucketParts, Zenon
      <3>2. low.lo <= low.hi /\ high.lo <= high.hi
        BY <1>3, Zenon DEF WellFormed
      <3> QED BY <1>3, <3>1, <3>2, RoutingConstants, SMTT(20) DEF RoutingConstants
    <2>2. \A a, b, c, d \in Nat : a <= b /\ c <= d /\ c = b + 1 => b - a < d - a /\ d - c < d - a
      OBVIOUS
    <2>3. low.hi - low.lo < high.hi - low.lo /\ high.hi - high.lo < high.hi - low.lo
      BY <2>1, <2>2, Zenon
    <2> QED BY <1>3, <2>3, SMTT(20)
  <1> QED BY <1>4, <1>5, <1>12, <1>13, Zenon

\* Every split leaves the contact under insertion with a narrower bucket:
\* insert calls itself at most MaxLong times (insert, KBucket::split).
THEOREM SplitsNarrow ==
    ASSUME DistinctLongIds
    PROVE  Safety => SplitNarrows
  <1>1. IInv /\ [Next]_vars =>
          [phase = "split" /\ phase' # "split" => Width(buckets', node) < Width(buckets, node)]_vars
    <2> SUFFICES ASSUME IInv, [Next]_vars, phase = "split", phase' # "split"
                 PROVE  Width(buckets', node) < Width(buckets, node)
      OBVIOUS
    <2>1. FinishSplit
      <3>1. phase # "idle" /\ phase # "insert" /\ ~(UNCHANGED phase)
        OBVIOUS
      <3> QED BY <3>1, InsertionSteps DEF InsertAccepted, InsertRejected, BeginSplit, MoveContact
    <2> QED BY <2>1, FinishSplitNarrows
  <1> QED BY <1>1, Invariance, PTL DEF Safety, SplitNarrows
\* A step that hands the contact to add_node: its bucket afterwards.
LEMMA AddedBucket ==
    ASSUME IInv, phase = "insert", NEW k, k = BucketIndexFor(LongId[node]),
           buckets' = [buckets EXCEPT ![k] = AddNode(buckets[k], node)]
    PROVE  /\ Added(buckets[k], node, AddNode(buckets[k], node))
           /\ buckets'[IndexIn(buckets', LongId[node])] = AddNode(buckets[k], node)
  <1> DEFINE c == AddNode(buckets[k], node)
  <1>1. /\ node \in Ids /\ node # Local /\ LongId[node] \in 0..MaxLong /\ TableOK(buckets)
        /\ k \in DOMAIN buckets /\ buckets[k] \in Bucket
        /\ WellFormed(buckets[k]) /\ Covers(buckets[k], LongId[node])
    <2>1. phase # "idle"
      OBVIOUS
    <2> QED BY <2>1, TargetBucket, Zenon
  <1>2. Added(buckets[k], node, c)
    BY <1>1, AddNodeFacts, Zenon
  <1>3. buckets' = [buckets EXCEPT ![k] = c]
    OBVIOUS
  <1> HIDE DEF c
  <1>4. c \in Bucket /\ WellFormed(c) /\ c.lo = buckets[k].lo /\ c.hi = buckets[k].hi
    BY <1>2, Zenon DEF Added
  <1>5. Updated(buckets, k, c, buckets')
    BY <1>1, <1>3, <1>4, UpdateBucket, Zenon
  <1>6. IndexIn(buckets', LongId[node]) = k /\ buckets'[k] = c
    BY <1>1, <1>5, Zenon DEF Updated, BucketIndexFor
  <1> QED BY <1>2, <1>6 DEF c

\* add_contact has no contact to return before it ends.
NothingReturned == phase # "idle" => lru = NoNode

\* The step property of ReturnedLruIsRival.
LruStep ==
    phase = "insert" /\ phase' = "idle" =>
        LET b == buckets'[IndexIn(buckets', LongId[node])]
        IN  IF lru' = NoNode
            THEN node \in Range(b.nodes)
            ELSE /\ lru' = Head(b.nodes)
                 /\ Len(b.nodes) = KSize
                 /\ Last(b.replacement) = node

\* A contact the bucket took is a primary one, and nothing is returned.
LEMMA AcceptedReturnsNothing ==
    ASSUME IInv, NothingReturned, InsertAccepted
    PROVE  LruStep
  <1> DEFINE k == BucketIndexFor(LongId[node])
             c == AddNode(buckets[k], node)
  <1>1. /\ phase = "insert" /\ Accepts(buckets[k], node)
        /\ buckets' = [buckets EXCEPT ![k] = c] /\ lru' = NoNode
    BY DEF InsertAccepted, NothingReturned
  <1>2. Added(buckets[k], node, c) /\ buckets'[IndexIn(buckets', LongId[node])] = c
    BY <1>1, AddedBucket, Zenon
  <1> HIDE DEF k, c
  <1>3. node \in Range(c.nodes)
    BY <1>1, <1>2 DEF Added
  <1> QED BY <1>1, <1>2, <1>3 DEF LruStep

\* A contact the bucket rejected waits as the newest replacement behind the
\* full primary list whose head is returned.
LEMMA RejectedReturnsHead ==
    ASSUME IInv, InsertRejected
    PROVE  LruStep
  <1> DEFINE k == BucketIndexFor(LongId[node])
             c == AddNode(buckets[k], node)
  <1>1. /\ phase = "insert" /\ ~Accepts(buckets[k], node)
        /\ buckets' = [buckets EXCEPT ![k] = c] /\ lru' = Head(c.nodes)
    BY DEF InsertRejected
  <1>2. Added(buckets[k], node, c) /\ buckets'[IndexIn(buckets', LongId[node])] = c
    BY <1>1, AddedBucket, Zenon
  <1> HIDE DEF k, c
  <1>3. c \in Bucket /\ Len(c.nodes) = KSize /\ Last(c.replacement) = node
    BY <1>1, <1>2, Zenon DEF Added
  <1>4. c.nodes \in Seq(Ids) /\ c.nodes # <<>>
    BY <1>3, BucketParts, CapFacts
  <1>5. Head(c.nodes) \in Ids /\ Head(c.nodes) # NoNode
    BY <1>4, RoutingConstants DEF RoutingConstants
  <1> QED BY <1>1, <1>2, <1>3, <1>5 DEF LruStep

\* Every step keeps NothingReturned and has the property.
LEMMA NextLru ==
    ASSUME IInv, NothingReturned, [Next]_vars
    PROVE  NothingReturned' /\ [LruStep]_vars
  <1>1. CASE UNCHANGED vars
    BY <1>1 DEF vars, NothingReturned
  <1>2. ASSUME NEW n \in Ids, AddContact(n) PROVE NothingReturned' /\ LruStep
    BY <1>2 DEF AddContact, NothingReturned, LruStep
  <1>3. ASSUME phase = "idle", phase' = phase PROVE NothingReturned' /\ LruStep
    BY <1>3 DEF NothingReturned, LruStep
  <1>4. ASSUME NEW n \in Ids, RemoveContact(n) \/ Lookup(n) PROVE NothingReturned' /\ LruStep
    BY <1>3, <1>4 DEF RemoveContact, Lookup
  <1>5. CASE HourPasses
    BY <1>3, <1>5 DEF HourPasses
  <1>6. CASE InsertAccepted
    BY <1>6, AcceptedReturnsNothing DEF InsertAccepted, NothingReturned
  <1>7. CASE InsertRejected
    BY <1>7, RejectedReturnsHead DEF InsertRejected, NothingReturned
  <1>8. ASSUME phase # "idle", phase' # "idle", lru' = lru PROVE NothingReturned' /\ LruStep
    BY <1>8 DEF NothingReturned, LruStep
  <1>9. CASE BeginSplit
    BY <1>8, <1>9 DEF BeginSplit
  <1>10. CASE MoveContact
    BY <1>8, <1>10 DEF MoveContact
  <1>11. CASE FinishSplit
    BY <1>8, <1>11 DEF FinishSplit
  <1> QED BY <1>1, <1>2, <1>4, <1>5, <1>6, <1>7, <1>9, <1>10, <1>11, Zenon
          DEF Next, InsertStep

\* What add_contact returns is the head of the full bucket behind which the
\* new contact waits as the newest replacement; it returns nothing only when
\* the contact has become a primary one, however many splits that took.
THEOREM TheHeadIsTheRival ==
    ASSUME DistinctLongIds
    PROVE  Safety => ReturnedLruIsRival
  <1>1. Init => NothingReturned
    BY DEF Init, NothingReturned
  <1>2. IInv /\ NothingReturned /\ [Next]_vars => NothingReturned' /\ [LruStep]_vars
    BY NextLru
  <1> QED BY <1>1, <1>2, Invariance, PTL DEF Safety, ReturnedLruIsRival, LruStep
=============================================================================
