---------------------------- MODULE RoutingTable ----------------------------
(***************************************************************************)
(* The Kademlia routing table of src/src/routing.rs: a list of k-buckets   *)
(* that split the space of long ids 0..MaxLong between them.               *)
(*                                                                         *)
(* A table is used behind one RwLock.  add_contact runs to its end under   *)
(* the write lock, but its loop (add to a bucket, split it, try again) is  *)
(* as long as the data makes it, so it is modelled step by step: `phase'   *)
(* says where the insertion of `node' stands, and every other operation    *)
(* waits until it is "idle" again, as it would for the lock.  While a      *)
(* bucket is being split the old one stays in `buckets'; `low' and `high'  *)
(* are its two halves and `rest' the contacts still to be handed out.      *)
(***************************************************************************)
EXTENDS Integers, SequencesExt

CONSTANTS
    Ids,                \* raw node ids
    NoNode,             \* Option::None for a node
    Local,              \* the id of the node that owns the table
    IdBits,             \* width of a raw id (160 in the code)
    IdBit,              \* IdBit[id][p]: bit p of a raw id, 1 the most significant
    LongId,             \* LongId[id]: the folded id, Node::long_id
    MaxLong,            \* the largest long id (u128::MAX in the code)
    KSize,              \* ksize, capacity of a bucket's primary list
    ReplacementFactor   \* max_replacement_nodes / ksize (5 in the code)

ASSUME RoutingConstants ==
    /\ NoNode \notin Ids
    /\ Local \in Ids
    /\ IdBits \in Nat
    /\ IdBit \in [Ids -> [1..IdBits -> 0..1]]
    /\ MaxLong \in Nat
    /\ LongId \in [Ids -> 0..MaxLong]
    /\ KSize \in Nat \ {0}
    /\ ReplacementFactor \in Nat \ {0}

VARIABLES
    buckets,    \* RoutingTable::buckets
    phase,      \* "idle", or where add_contact stands: "insert", "split"
    node,       \* the contact being inserted
    rest,       \* contacts of the bucket being split, still to be handed out
    low,        \* lower half of the bucket being split
    high,       \* upper half
    lru         \* what the last add_contact returned

vars == <<buckets, phase, node, rest, low, high, lru>>

-----------------------------------------------------------------------------
(* KBucket *)

\* `lonely' stands for last_updated: TRUE when it is more than an hour old.
Bucket ==
    [lo : 0..MaxLong, hi : 0..MaxLong,
     nodes : Seq(Ids), replacement : Seq(Ids), lonely : BOOLEAN]

MaxReplacement == ReplacementFactor * KSize

\* KBucket::new; last_updated starts at the present time.
NewBucket(lo, hi) ==
    [lo |-> lo, hi |-> hi, nodes |-> <<>>, replacement |-> <<>>, lonely |-> FALSE]

Covers(b, l) == b.lo <= l /\ l <= b.hi

\* The newest entries of s, when the oldest are popped until m are left.
KeepNewest(s, m) == IF Len(s) > m THEN SubSeq(s, Len(s) - m + 1, Len(s)) ELSE s

\* KBucket::add_node returns true: the contact is in the primary list.
Accepts(b, n) == n \in Range(b.nodes) \/ Len(b.nodes) < KSize

\* KBucket::add_node, the bucket it leaves.
AddNode(b, n) ==
    IF Accepts(b, n)
    THEN [b EXCEPT !.nodes = Append(RemoveFirst(@, n), n)]
    ELSE [b EXCEPT !.replacement =
             KeepNewest(Append(RemoveFirst(@, n), n), MaxReplacement)]

\* Wrong variant: nobody is promoted to the freed place.
RemoveWithoutPromotion(b, n) ==
    [b EXCEPT !.nodes = RemoveFirst(@, n), !.replacement = RemoveFirst(@, n)]

\* KBucket::remove_node.  A list holds an id at most once, so retain(!= n)
\* drops at most one entry.  The newest replacement takes the place of n.
RemoveNode(b, n) ==
    LET repl == RemoveFirst(b.replacement, n)
    IN  IF n \notin Range(b.nodes)
        THEN [b EXCEPT !.replacement = repl]
        ELSE IF repl = <<>>
        THEN [b EXCEPT !.nodes = RemoveFirst(@, n), !.replacement = repl]
        ELSE [b EXCEPT !.nodes = Append(RemoveFirst(@, n), Last(repl)),
                       !.replacement = Front(repl)]

\* KBucket::depth: the number of leading bits all primary ids agree on.
Depth(b) ==
    CASE Len(b.nodes) = 0 -> 0
      [] Len(b.nodes) = 1 -> IdBits
      [] OTHER -> Cardinality({p \in 1..IdBits :
                     \A q \in 1..p : \A i \in 1..Len(b.nodes) :
                        IdBit[b.nodes[i]][q] = IdBit[b.nodes[1]][q]})

\* Wrong variant: the upper bound is taken for the midpoint.
MidAtEnd(b) == b.hi

\* The midpoint at which KBucket::split divides the range.
Mid(b) == b.lo + (b.hi - b.lo) \div 2

\* Wrong variants: the halves share the midpoint, or the upper half begins
\* where the bucket ends.
HighStartAtMid(b) == Mid(b)

HighStartPastEnd(b) == b.hi + 1

\* Where the upper half begins; mid + 1 wraps at u128::MAX.
HighStart(b) == (Mid(b) + 1) % (MaxLong + 1)

\* Wrong variants: the replacements are forgotten, or handed out first.
SplitPrimariesOnly(b) == b.nodes

SplitReplacementsFirst(b) == b.replacement \o b.nodes

\* The order in which KBucket::split hands out the contacts.
SplitOrder(b) == b.nodes \o b.replacement

-----------------------------------------------------------------------------
(* RoutingTable *)

\* bucket_index_for: the first bucket that covers l, or the last bucket.
IndexIn(bs, l) ==
    LET i == SelectInSeq(bs, LAMBDA b : Covers(b, l))
    IN  IF i # 0 THEN i ELSE Len(bs)

BucketIndexFor(l) == IndexIn(buckets, l)

\* is_new_node: the contact is not in the primary list of its bucket.
IsNewNode(n) == n \notin Range(buckets[BucketIndexFor(LongId[n])].nodes)

\* The split condition of insert, on a bucket that rejected a contact.
MustSplit(b) == Covers(b, LongId[Local]) \/ Depth(b) % 5 # 0

\* split_bucket: the two halves take the place of bucket i.
ReplaceByHalves(bs, i, l, h) == SubSeq(bs, 1, i - 1) \o <<l, h>> \o SubSeq(bs, i + 1, Len(bs))

NotSplitting == UNCHANGED <<rest, low, high>>

\* RoutingTable::new.  Outside a split, low and high hold a placeholder.
Init ==
    /\ buckets = <<NewBucket(0, MaxLong)>>
    /\ phase = "idle"
    /\ node = NoNode
    /\ rest = <<>>
    /\ low = NewBucket(0, MaxLong)
    /\ high = NewBucket(0, MaxLong)
    /\ lru = NoNode

\* add_contact takes the write lock; for the table's own id it returns at
\* once and changes nothing.
AddContact(n) ==
    /\ phase = "idle"
    /\ n # Local
    /\ phase' = "insert"
    /\ node' = n
    /\ lru' = NoNode
    /\ UNCHANGED buckets
    /\ NotSplitting

\* insert: add_node took the contact into the primary list.
InsertAccepted ==
    LET idx == BucketIndexFor(LongId[node])
    IN  /\ phase = "insert"
        /\ Accepts(buckets[idx], node)
        /\ buckets' = [buckets EXCEPT ![idx] = AddNode(@, node)]
        /\ phase' = "idle"
        /\ node' = NoNode
        /\ UNCHANGED lru
        /\ NotSplitting

\* Wrong variant: the newest contact is returned instead of the oldest.
RejectedReturnsNewest ==
    LET idx == BucketIndexFor(LongId[node])
        b == AddNode(buckets[idx], node)
    IN  /\ phase = "insert"
        /\ ~Accepts(buckets[idx], node)
        /\ ~MustSplit(b)
        /\ buckets' = [buckets EXCEPT ![idx] = b]
        /\ phase' = "idle"
        /\ node' = NoNode
        /\ lru' = Last(b.nodes)
        /\ NotSplitting

\* insert: the bucket is full and may not be split; the contact waits in the
\* replacement list and the head of the primary list is returned.
InsertRejected ==
    LET idx == BucketIndexFor(LongId[node])
        b == AddNode(buckets[idx], node)
    IN  /\ phase = "insert"
        /\ ~Accepts(buckets[idx], node)
        /\ ~MustSplit(b)
        /\ buckets' = [buckets EXCEPT ![idx] = b]
        /\ phase' = "idle"
        /\ node' = NoNode
        /\ lru' = Head(b.nodes)
        /\ NotSplitting

\* insert: the bucket is full and is split.
BeginSplit ==
    LET idx == BucketIndexFor(LongId[node])
        b == AddNode(buckets[idx], node)
    IN  /\ phase = "insert"
        /\ ~Accepts(buckets[idx], node)
        /\ MustSplit(b)
        /\ buckets' = [buckets EXCEPT ![idx] = b]
        /\ phase' = "split"
        /\ rest' = SplitOrder(b)
        /\ low' = NewBucket(b.lo, Mid(b))
        /\ high' = NewBucket(HighStart(b), b.hi)
        /\ UNCHANGED <<node, lru>>

\* KBucket::split, one contact of the loop.
MoveContact ==
    /\ phase = "split"
    /\ rest # <<>>
    /\ rest' = Tail(rest)
    /\ IF LongId[Head(rest)] <= low.hi
       THEN low' = AddNode(low, Head(rest)) /\ UNCHANGED high
       ELSE high' = AddNode(high, Head(rest)) /\ UNCHANGED low
    /\ UNCHANGED <<buckets, phase, node, lru>>

\* split_bucket is done; insert calls itself again for the same contact.
FinishSplit ==
    /\ phase = "split"
    /\ rest = <<>>
    /\ buckets' = ReplaceByHalves(buckets, BucketIndexFor(LongId[node]), low, high)
    /\ phase' = "insert"
    /\ low' = NewBucket(0, MaxLong)
    /\ high' = NewBucket(0, MaxLong)
    /\ UNCHANGED <<node, rest, lru>>

\* remove_contact.
RemoveContact(n) ==
    /\ phase = "idle"
    /\ buckets' = [buckets EXCEPT ![BucketIndexFor(LongId[n])] = RemoveNode(@, n)]
    /\ UNCHANGED <<phase, node, lru>>
    /\ NotSplitting

\* TableTraverser::new, the state change of find_neighbors: the bucket of
\* the target is touched.
Lookup(t) ==
    /\ phase = "idle"
    /\ buckets' = [buckets EXCEPT ![BucketIndexFor(LongId[t])].lonely = FALSE]
    /\ UNCHANGED <<phase, node, lru>>
    /\ NotSplitting

\* More than an hour goes by: is_lonely holds for every bucket.
HourPasses ==
    /\ phase = "idle"
    /\ buckets' = [i \in DOMAIN buckets |-> [buckets[i] EXCEPT !.lonely = TRUE]]
    /\ UNCHANGED <<phase, node, lru>>
    /\ NotSplitting

InsertStep ==
    InsertAccepted \/ InsertRejected \/ BeginSplit \/ MoveContact \/ FinishSplit

Next ==
    \/ \E n \in Ids : AddContact(n) \/ RemoveContact(n) \/ Lookup(n)
    \/ HourPasses
    \/ InsertStep

Safety == Init /\ [][Next]_vars

-----------------------------------------------------------------------------
(* Properties *)

\* Every variable has its type, and add_contact's working state is in use
\* only while it runs (KBucket and RoutingTable of routing.rs).
TypeOK ==
    /\ buckets \in Seq(Bucket)
    /\ buckets # <<>>
    /\ phase \in {"idle", "insert", "split"}
    /\ node \in Ids \cup {NoNode}
    /\ (phase = "idle") <=> (node = NoNode)
    /\ rest \in Seq(Ids)
    /\ low \in Bucket
    /\ high \in Bucket
    /\ lru \in Ids \cup {NoNode}

Primaries(bs) == UNION {Range(bs[i].nodes) : i \in DOMAIN bs}

Members(b) == Range(b.nodes) \cup Range(b.replacement)

Contacts(bs) == UNION {Members(bs[i]) : i \in DOMAIN bs}

Partition(bs) ==
    /\ \A i, j \in DOMAIN bs : i < j => bs[i].hi < bs[j].lo
    /\ \A l \in 0..MaxLong : \E i \in DOMAIN bs : Covers(bs[i], l)

\* After any sequence of splits the buckets are in ascending order, do not
\* overlap and leave no long id uncovered, so that bucket_index_for never
\* falls back to the last bucket ("together partition the entire ... keyspace").
Partitioned == Partition(buckets)

\* A bucket never exceeds its two capacities, holds each contact once over
\* both lists and only contacts of its own range, and keeps replacements
\* only behind a full primary list: what add_node, remove_node and split
\* must preserve together, or a contact is queried twice, is looked for in
\* the wrong bucket, or waits behind a free slot forever.
WellFormed(b) ==
    /\ b.lo <= b.hi
    /\ Len(b.nodes) <= KSize
    /\ Len(b.replacement) <= MaxReplacement
    /\ b.replacement # <<>> => Len(b.nodes) = KSize
    /\ IsInjective(b.nodes)
    /\ IsInjective(b.replacement)
    /\ Range(b.nodes) \cap Range(b.replacement) = {}
    /\ \A n \in Members(b) : n # Local /\ Covers(b, LongId[n])

\* Every bucket of the table is well formed in every state, the states in
\* the middle of an insertion included (KBucket, routing.rs).
WellFormedBuckets == \A i \in DOMAIN buckets : WellFormed(buckets[i])

Size(b) == Len(b.nodes) + Len(b.replacement)

\* p, q and r hold the contacts of b, each once; who of its primary list is
\* not yet in the primary list of p or q comes first in r.
Shared(b, p, q, r) ==
    /\ IsInjective(r)
    /\ Members(p) \cap Range(r) = {}
    /\ Members(q) \cap Range(r) = {}
    /\ Members(p) \cup Members(q) \cup Range(r) = Members(b)
    /\ Size(p) + Size(q) + Len(r) = Size(b)
    /\ \A n \in Range(b.nodes) :
          \/ n \in Range(p.nodes) \cup Range(q.nodes)
          \/ \E i \in 1..(Len(r) - Len(b.replacement)) : n = r[i]

\* b divided into l, h and the contacts r that are still to be handed out.
Divided(b, l, h, r) ==
    /\ WellFormed(l) /\ WellFormed(h)
    /\ l.lo = b.lo /\ l.hi = Mid(b) /\ h.lo = Mid(b) + 1 /\ h.hi = b.hi
    /\ Shared(b, l, h, r)

\* While a bucket is being split its halves and the contacts still to be
\* handed out hold, each once, exactly its contacts: none has been dropped by
\* a half's cap, and those of its primary list that wait come first, so that
\* each finds a free place.  The halves divide its range (KBucket::split).
SplitInv ==
    LET b == buckets[BucketIndexFor(LongId[node])]
    IN  phase = "split" => node \in Range(b.replacement) /\ Divided(b, low, high, rest)

\* An insertion loses no contact, in whatever way it splits buckets: the
\* only one it may drop is the oldest replacement of a bucket whose
\* replacement list is at its cap (add_node's pop_front, split).
InsertKeepsContacts ==
    [][phase # "idle" =>
        LET b == buckets[BucketIndexFor(LongId[node])]
        IN  Contacts(buckets) \ Contacts(buckets') \subseteq
              (IF phase = "insert" /\ Len(b.replacement) = MaxReplacement
               THEN {Head(b.replacement)}
               ELSE {})]_vars

\* Inserting a newcomer never costs an established contact its place: who is
\* in a primary list stays in one, through every split (insert, split).
InsertKeepsPrimaries ==
    [][phase # "idle" => Primaries(buckets) \subseteq Primaries(buckets')]_vars

Width(bs, n) == LET b == bs[IndexIn(bs, LongId[n])] IN b.hi - b.lo

\* Every split narrows the bucket the new contact falls into: the variant
\* that makes insert's recursion end, provided long ids are distinct.
SplitNarrows ==
    [][phase = "split" /\ phase' # "split" => Width(buckets', node) < Width(buckets, node)]_vars

\* What add_contact promises on return: without an lru the contact is a
\* primary one; with an lru the contact waits in the replacement list of the
\* same full bucket that lru heads, so that evicting lru makes room for it.
ReturnedLruIsRival ==
    [][phase = "insert" /\ phase' = "idle" =>
        LET b == buckets'[IndexIn(buckets', LongId[node])]
        IN  IF lru' = NoNode
            THEN node \in Range(b.nodes)
            ELSE /\ lru' = Head(b.nodes)
                 /\ Len(b.nodes) = KSize
                 /\ Last(b.replacement) = node]_vars
=============================================================================
