---------------------------- MODULE FindNeighbors ----------------------------
(***************************************************************************)
(* RoutingTable::find_neighbors and the TableTraverser it walks the        *)
(* buckets with, over the tables that RoutingTable reaches.  Both read the *)
(* table under the read lock; the one thing they change, the timer of the  *)
(* target's bucket, is RoutingTable's Lookup action.                       *)
(***************************************************************************)
EXTENDS RoutingTable

CONSTANT
    Apart   \* Apart[m][n]: the XOR of the long ids of m and n

ASSUME ApartType == Apart \in [Ids -> [Ids -> Nat]]

\* Node::distance_to.
Distance(m, n) == Apart[m][n]

Lesser(i, j) == IF i < j THEN i ELSE j

\* How many buckets TableTraverser::next takes until it comes to bucket i, in a
\* table of len buckets when `own' is the target's: the left side first, then
\* the two in turn, then what is left of the longer one.  Both sides were
\* reversed by new and are popped from their ends, so that each is visited in
\* the order of the table.
TurnOf(len, own, i) ==
    CASE i = own -> 0
      [] i < own -> i + Lesser(i - 1, len - own)
      [] i > own -> (i - own) + Lesser(i - own, own - 1)

\* The places of the primary lists: [bucket, position].
Places == UNION {{i} \X (1..Len(buckets[i].nodes)) : i \in DOMAIN buckets}

NodeAt(p) == buckets[p[1]].nodes[p[2]]

\* Wrong variant: the walk starts at the first bucket of the table.
BeforeInTableOrder(own, p, q) == p[1] < q[1] \/ (p[1] = q[1] /\ p[2] > q[2])

\* TableTraverser yields the contact at p before the one at q; a bucket is
\* drained from its tail.
Before(own, p, q) ==
    \/ TurnOf(Len(buckets), own, p[1]) < TurnOf(Len(buckets), own, q[1])
    \/ p[1] = q[1] /\ p[2] > q[2]

\* Wrong variant: the target is counted and dropped only at the end.
CandidatesCountingTarget(t, exclude) ==
    LET own == BucketIndexFor(LongId[t])
        open == {p \in Places : NodeAt(p) # exclude}
    IN  {p \in open : NodeAt(p) # t /\ Cardinality({q \in open : Before(own, q, p)}) < KSize}

\* The candidates find_neighbors collects before it stops at ksize: who comes
\* up when fewer are collected.
Candidates(t, exclude) ==
    LET own == BucketIndexFor(LongId[t])
        open == {p \in Places : NodeAt(p) \notin {t, exclude}}
    IN  {p \in open : Cardinality({q \in open : Before(own, q, p)}) < KSize}

\* find_neighbors; exclude may be NoNode.  The order of the result is that of
\* the distances to t, with which its readers compare.
Neighbors(t, exclude) == {NodeAt(p) : p \in Candidates(t, exclude)}

-----------------------------------------------------------------------------
(* Properties *)

Eligible(t, exclude) == Primaries(buckets) \ {t, exclude}

\* Whatever the shape of the table, find_neighbors returns as many primary
\* contacts as there are, up to ksize: the traversal reaches every bucket
\* once, on the left and on the right of the target's, and neither the target
\* nor the excluded node takes the place of another.
NeighborsComplete ==
    phase = "idle" =>
      \A t \in Ids, ex \in Ids \cup {NoNode} :
        LET found == Neighbors(t, ex)
            all == Eligible(t, ex)
        IN  found \subseteq all /\ Cardinality(found) = Lesser(Cardinality(all), KSize)

\* The contacts of the target's own bucket come before those of any other: a
\* neighbour from outside the bucket is returned only if the whole bucket is.
OwnBucketFirst ==
    phase = "idle" =>
      \A t \in Ids, ex \in Ids \cup {NoNode} :
        LET own == Range(buckets[BucketIndexFor(LongId[t])].nodes) \ {t, ex}
            found == Neighbors(t, ex)
        IN  found \subseteq own \/ own \subseteq found

\* routing.rs:325 says find_neighbors returns "the `k` nodes closest to
\* `target`": no primary contact left out is closer than one returned.
NeighborsAreClosest ==
    phase = "idle" =>
      \A t \in Ids :
        LET found == Neighbors(t, NoNode)
        IN  \A m \in Eligible(t, NoNode) \ found, n \in found : Distance(n, t) < Distance(m, t)
=============================================================================
