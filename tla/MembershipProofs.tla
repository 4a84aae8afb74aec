-------------------------- MODULE MembershipProofs --------------------------
(***************************************************************************)
(* Proofs about Membership for every number of welcome tasks and every set *)
(* of nodes and keys: tasks exclude each other from the insertion of a     *)
(* contact, and the table keeps its invariants between their steps.        *)
(***************************************************************************)
EXTENDS RoutingTableProofs, Membership, FiniteSetTheorems

-----------------------------------------------------------------------------
(* Where the contacts of the table come from *)

\* A bucket changes into one with no contacts but its own and those of X.
LEMMA UpdateAdds ==
    ASSUME NEW bs, NEW k \in DOMAIN bs, NEW c, NEW cs, DOMAIN cs = DOMAIN bs, cs[k] = c,
           \A i \in DOMAIN bs : i # k => cs[i] = bs[i],
           NEW X, Members(c) \subseteq Members(bs[k]) \cup X
    PROVE  Contacts(cs) \subseteq Contacts(bs) \cup X
  <1>1. ASSUME NEW x, x \in Contacts(cs) PROVE x \in Contacts(bs) \cup X
    <2>1. PICK i \in DOMAIN cs : x \in Members(cs[i])
      BY <1>1, InSomeBucket, Zenon
    <2>2. x \in Members(bs[i]) \/ x \in X
      BY <2>1
    <2> QED BY <2>1, <2>2, InSomeBucket, Zenon
  <1> QED BY <1>1

\* Two halves with no contacts but a bucket's take its place.
LEMMA HalvesAdd ==
    ASSUME NEW bs \in Seq(Bucket), NEW k \in DOMAIN bs, NEW l, NEW h, NEW cs,
           HalvesAt(cs, bs, k, l, h), Members(l) \cup Members(h) \subseteq Members(bs[k])
    PROVE  Contacts(cs) \subseteq Contacts(bs)
  <1>1. /\ cs \in Seq(Bucket) /\ Len(cs) = Len(bs) + 1
        /\ \A j \in 1..(k - 1) : cs[j] = bs[j]
        /\ cs[k] = l /\ cs[k + 1] = h
        /\ \A j \in (k + 2)..(Len(bs) + 1) : cs[j] = bs[j - 1]
    BY Zenon DEF HalvesAt
  <1>2. /\ Len(bs) \in Nat /\ k \in 1..Len(bs) /\ DOMAIN bs = 1..Len(bs)
        /\ DOMAIN cs = 1..(Len(bs) + 1)
    BY <1>1
  <1>3. ASSUME NEW j \in DOMAIN cs PROVE \E i \in DOMAIN bs : Members(cs[j]) \subseteq Members(bs[i])
    <2>1. CASE j < k
      <3>1. j \in 1..(k - 1) /\ j \in DOMAIN bs
        BY <1>2, <2>1
      <3>2. cs[j] = bs[j]
        BY <1>1, <3>1, Zenon
      <3> QED BY <3>1, <3>2
    <2>2. CASE j = k \/ j = k + 1
      <3>1. Members(cs[j]) \subseteq Members(bs[k])
        BY <1>1, <2>2
      <3> QED BY <3>1, Zenon
    <2>3. CASE j > k + 1
      <3>1. j \in (k + 2)..(Len(bs) + 1) /\ j - 1 \in DOMAIN bs
        BY <1>2, <2>3
      <3>2. cs[j] = bs[j - 1]
        BY <1>1, <3>1, Zenon
      <3> QED BY <3>1, <3>2
    <2>4. j < k \/ j = k \/ j = k + 1 \/ j > k + 1
      BY <1>2
    <2> QED BY <2>1, <2>2, <2>3, <2>4, Zenon
  <1>4. ASSUME NEW x, x \in Contacts(cs) PROVE x \in Contacts(bs)
    <2>1. PICK j \in DOMAIN cs : x \in Members(cs[j])
      BY <1>4, InSomeBucket, Zenon
    <2>2. PICK i \in DOMAIN bs : Members(cs[j]) \subseteq Members(bs[i])
      BY <1>3, Zenon
    <2>3. x \in Members(bs[i])
      BY <2>1, <2>2
    <2> QED BY <2>3, InSomeBucket, Zenon
  <1> QED BY <1>4

\* No step of an insertion brings a contact into the table but the one that
\* is being inserted.
LEMMA InsertAdds ==
    ASSUME IInv, InsertStep
    PROVE  Contacts(buckets') \subseteq Contacts(buckets) \cup {node}
  <1> DEFINE k == BucketIndexFor(LongId[node])
  <1>1. CASE InsertAccepted \/ InsertRejected \/ BeginSplit
    <2>1. phase = "insert" /\ buckets' = [buckets EXCEPT ![k] = AddNode(buckets[k], node)]
      BY <1>1 DEF InsertAccepted, InsertRejected, BeginSplit
    <2>2. k \in DOMAIN buckets
      <3>1. phase # "idle"
        BY <2>1
      <3> QED BY <3>1, TargetBucket, Zenon
    <2>3. Added(buckets[k], node, AddNode(buckets[k], node))
      BY <2>1, AddedBucket, Zenon
    <2>4. PICK c : c = AddNode(buckets[k], node)
      OBVIOUS
    <2>5. Members(c) \subseteq Members(buckets[k]) \cup {node}
      BY <2>3, <2>4, Zenon DEF Added
    <2> HIDE DEF k
    <2>6. /\ DOMAIN buckets' = DOMAIN buckets /\ buckets'[k] = c
          /\ \A i \in DOMAIN buckets : i # k => buckets'[i] = buckets[i]
      BY <2>1, <2>2, <2>4
    <2> QED BY <2>2, <2>5, <2>6, UpdateAdds, Zenon
  <1>2. CASE MoveContact
    BY <1>2 DEF MoveContact
  <1>3. CASE FinishSplit
    <2>1. /\ phase = "split" /\ phase # "idle"
          /\ buckets' = ReplaceByHalves(buckets, k, low, high)
      BY <1>3 DEF FinishSplit
    <2>2. TableOK(buckets) /\ k \in DOMAIN buckets
      BY <2>1, TargetBucket, Zenon
    <2>3. low \in Bucket /\ high \in Bucket /\ Shared(buckets[k], low, high, rest)
      BY <2>1, DuringSplit, Zenon
    <2> HIDE DEF k
    <2>4. buckets \in Seq(Bucket) /\ k \in 1..Len(buckets)
      BY <2>2 DEF TableOK
    <2>5. HalvesAt(buckets', buckets, k, low, high)
      BY <2>1, <2>3, <2>4, HalvesFacts, Zenon
    <2>6. Members(low) \cup Members(high) \subseteq Members(buckets[k])
      BY <2>3 DEF Shared
    <2>7. Contacts(buckets') \subseteq Contacts(buckets)
      BY <2>2, <2>4, <2>5, <2>6, HalvesAdd, Zenon
    <2> QED BY <2>7
  <1> QED BY <1>1, <1>2, <1>3, Zenon DEF InsertStep

\* Nor does a removal, which may promote a replacement.
LEMMA RemovalAdds ==
    ASSUME IInv, NEW n \in Ids, RemoveContact(n)
    PROVE  Contacts(buckets') \subseteq Contacts(buckets)
  <1> DEFINE k == BucketIndexFor(LongId[n])
  <1>1. buckets' = [buckets EXCEPT ![k] = RemoveNode(buckets[k], n)]
    BY DEF RemoveContact
  <1>2. k \in DOMAIN buckets /\ buckets[k] \in Bucket /\ WellFormed(buckets[k])
    BY IdleTable, Zenon
  <1> HIDE DEF k
  <1>3. PICK c : c = RemoveNode(buckets[k], n)
    OBVIOUS
  <1>4. Members(c) \subseteq Members(buckets[k]) \cup {}
    BY <1>2, <1>3, RemoveNodeFacts
  <1>5. /\ DOMAIN buckets' = DOMAIN buckets /\ buckets'[k] = c
        /\ \A i \in DOMAIN buckets : i # k => buckets'[i] = buckets[i]
    BY <1>1, <1>2, <1>3
  <1>6. Contacts(buckets') \subseteq Contacts(buckets) \cup {}
    BY <1>2, <1>4, <1>5, UpdateAdds, Zenon
  <1> QED BY <1>6

\* What add_contact returns is a contact of the table.
LEMMA ReturnedIsContact ==
    ASSUME DistinctLongIds, IInv, NothingReturned, InsertStep, phase' = "idle", lru' # NoNode
    PROVE  lru' \in Contacts(buckets')
  <1>1. CASE InsertAccepted
    BY <1>1 DEF InsertAccepted, NothingReturned
  <1>2. CASE InsertRejected
    <2> DEFINE k == BucketIndexFor(LongId[node])
    <2>1. /\ phase = "insert" /\ buckets' = [buckets EXCEPT ![k] = AddNode(buckets[k], node)]
          /\ ~Accepts(buckets[k], node) /\ lru' = Head(AddNode(buckets[k], node).nodes)
      BY <1>2 DEF InsertRejected
    <2>2. k \in DOMAIN buckets
      <3>1. phase # "idle"
        BY <2>1
      <3> QED BY <3>1, TargetBucket, Zenon
    <2>3. Added(buckets[k], node, AddNode(buckets[k], node))
      BY <2>1, AddedBucket, Zenon
    <2>4. PICK c : c = AddNode(buckets[k], node)
      OBVIOUS
    <2>5. c \in Bucket /\ Len(c.nodes) = KSize
      BY <2>1, <2>3, <2>4, Zenon DEF Added
    <2> HIDE DEF k
    <2>6. c.nodes \in Seq(Ids) /\ c.nodes # <<>>
      BY <2>5, BucketParts, CapFacts
    <2>7. Head(c.nodes) \in Members(c)
      BY <2>6 DEF Members, Range
    <2>8. k \in DOMAIN buckets' /\ buckets'[k] = c /\ lru' = Head(c.nodes)
      BY <2>1, <2>2, <2>4
    <2> QED BY <2>7, <2>8, InSomeBucket, Zenon
  <1>3. CASE BeginSplit \/ MoveContact \/ FinishSplit
    BY <1>3 DEF BeginSplit, MoveContact, FinishSplit
  <1> QED BY <1>1, <1>2, <1>3, Zenon DEF InsertStep

\* A step of the routing table keeps its invariant.
LEMMA TableStep ==
    ASSUME DistinctLongIds, IInv, NothingReturned, [Next]_vars
    PROVE  IInv' /\ NothingReturned'
  BY NextIInv, NextLru, Zenon

\* The searches of a welcome task touch the buckets of its keys and change
\* no contact.
LEMMA SampleKeeps ==
    ASSUME IInv, NothingReturned, NEW t, NEW keys, SampleAs(t, keys)
    PROVE  IInv' /\ NothingReturned' /\ Contacts(buckets') \subseteq Contacts(buckets)
  <1> DEFINE touched(i) == \E key \in Held : BucketIndexFor(LongId[key]) = i
  <1>1. /\ phase = "idle" /\ UNCHANGED <<phase, node, rest, low, high, lru>>
        /\ buckets' = [i \in DOMAIN buckets |->
              IF touched(i) THEN [buckets[i] EXCEPT !.lonely = FALSE] ELSE buckets[i]]
    BY DEF SampleAs
  <1>2. /\ buckets \in Seq(Bucket) /\ buckets # <<>> /\ Partition(buckets)
        /\ \A i \in DOMAIN buckets : WellFormed(buckets[i])
    BY DEF IInv, TypeOK, Partitioned, WellFormedBuckets
  <1> HIDE DEF touched
  <1>3. ASSUME NEW i \in DOMAIN buckets
        PROVE  /\ buckets'[i] \in Bucket /\ WellFormed(buckets'[i])
               /\ buckets'[i].lo = buckets[i].lo /\ buckets'[i].hi = buckets[i].hi
               /\ Members(buckets'[i]) = Members(buckets[i])
    <2>1. buckets[i] \in Bucket /\ WellFormed(buckets[i])
      BY <1>2, ElementOfSeq
    <2>2. CASE ~touched(i)
      <3>1. buckets'[i] = buckets[i]
        BY <1>1, <2>2
      <3> QED BY <2>1, <3>1
    <2>3. CASE touched(i)
      <3>1. buckets'[i] = [buckets[i] EXCEPT !.lonely = FALSE]
        BY <1>1, <2>3
      <3>2. buckets'[i].nodes = buckets[i].nodes /\ buckets'[i].replacement = buckets[i].replacement
        BY <2>1, <3>1 DEF Bucket
      <3>3. Members(buckets'[i]) = Members(buckets[i])
        BY <3>2, Zenon DEF Members
      <3>4. PICK c : c = [buckets[i] EXCEPT !.lonely = FALSE]
        BY Zenon
      <3>5. c \in Bucket /\ WellFormed(c) /\ c.lo = buckets[i].lo /\ c.hi = buckets[i].hi
        BY <2>1, <3>4, TouchFacts, Zenon
      <3> QED BY <3>1, <3>3, <3>4, <3>5
    <2> QED BY <2>2, <2>3, Zenon
  <1>4. buckets' \in Seq(Bucket) /\ DOMAIN buckets' = DOMAIN buckets /\ buckets' # <<>>
    <2>1. DOMAIN buckets' = 1..Len(buckets) /\ Len(buckets) \in Nat /\ Len(buckets) # 0
      BY <1>1, <1>2, EmptySeq
    <2>2. buckets' \in [1..Len(buckets) -> Bucket]
      BY <1>1, <1>3, <2>1
    <2>3. buckets' \in Seq(Bucket)
      BY <2>1, <2>2
    <2> QED BY <1>1, <1>2, <2>1, <2>3
  <1>5. Partition(buckets')
    BY <1>2, <1>3, <1>4, SameIndex
  <1>6. TableOK(buckets')
    BY <1>3, <1>4, <1>5 DEF TableOK
  <1>7. IInv'
    BY <1>1, <1>6, IdleStep
  <1>8. NothingReturned'
    BY <1>1 DEF NothingReturned
  <1>9. Contacts(buckets') \subseteq Contacts(buckets)
    <2> SUFFICES ASSUME NEW x, x \in Contacts(buckets') PROVE x \in Contacts(buckets)
      OBVIOUS
    <2>1. PICK i \in DOMAIN buckets' : x \in Members(buckets'[i])
      BY InSomeBucket, Zenon
    <2>2. i \in DOMAIN buckets /\ x \in Members(buckets[i])
      BY <1>3, <1>4, <2>1
    <2> QED BY <2>2, InSomeBucket, Zenon
  <1> QED BY <1>7, <1>8, <1>9

-----------------------------------------------------------------------------
(* The tasks *)

TaskStates ==
    [pc : {"none", "check", "sample", "add", "adding"}, node : Heard \cup {NoNode}, keys : SUBSET Held]

\* A task that runs is about a node that was heard from.
TasksTyped ==
    /\ tasks \in [Tasks -> TaskStates]
    /\ \A t \in Tasks : tasks[t].pc # "none" => tasks[t].node \in Heard

\* Task t and no other inserts, and what it inserts is its node.
Inserts(t) == tasks[t].node = node /\ \A u \in Tasks : tasks[u].pc = "adding" <=> u = t

\* An insertion belongs to one task.
OneInserts ==
    /\ phase = "idle" => \A t \in Tasks : tasks[t].pc # "adding"
    /\ phase # "idle" => \E t \in Tasks : Inserts(t)

\* The table, and so what add_contact returns, has only nodes that were heard from.
HeardOnly == Contacts(buckets) \subseteq Heard /\ pings \subseteq Heard

\* The inductive invariant: a second insertion cannot begin while one runs,
\* and a contact that is pinged was in the table when add_contact returned it.
MIInv == IInv /\ NothingReturned /\ TasksTyped /\ OneInserts /\ HeardOnly

-----------------------------------------------------------------------------
\* Initially no task runs, nothing is inserted and the table is empty.
LEMMA MInitHolds == MInit => MIInv
  <1> SUFFICES ASSUME MInit PROVE MIInv
    OBVIOUS
  <1>1. IInv /\ phase = "idle" /\ pings = {} /\ tasks = [t \in Tasks |-> NoTask]
    BY InitIInv DEF MInit, Init
  <1>2. NoTask \in TaskStates /\ NoTask.pc = "none"
    BY DEF NoTask, TaskStates
  <1>3. TasksTyped /\ \A t \in Tasks : tasks[t].pc # "adding"
    BY <1>1, <1>2 DEF TasksTyped
  <1>4. Contacts(buckets) = {}
    <2>1. ASSUME NEW x, x \in Contacts(buckets) PROVE FALSE
      <3>1. PICK i \in DOMAIN buckets : x \in Members(buckets[i])
        BY <2>1, InSomeBucket, Zenon
      <3>2. buckets = <<NewBucket(0, MaxLong)>>
        BY DEF MInit, Init
      <3>3. buckets[i].nodes = <<>> /\ buckets[i].replacement = <<>>
        BY <3>2 DEF NewBucket
      <3> QED BY <3>1, <3>3 DEF Members, Range
    <2> QED BY <2>1
  <1> QED BY <1>1, <1>3, <1>4 DEF MIInv, NothingReturned, OneInserts, HeardOnly

\* A task enters a new state and the others keep theirs.
LEMMA TaskChanges ==
    ASSUME TasksTyped, NEW t \in Tasks, NEW r \in TaskStates, r.pc # "none" => r.node \in Heard,
           tasks' = [tasks EXCEPT ![t] = r]
    PROVE  TasksTyped' /\ tasks'[t] = r /\ \A u \in Tasks : u # t => tasks'[u] = tasks[u]
  BY DEF TasksTyped

\* Between insertions a task enters a state in which it does not insert.
LEMMA IdleTask ==
    ASSUME TasksTyped, OneInserts, phase = "idle", phase' = phase, NEW t \in Tasks,
           NEW r \in TaskStates, r.pc # "adding", r.pc # "none" => r.node \in Heard,
           tasks' = [tasks EXCEPT ![t] = r]
    PROVE  TasksTyped' /\ OneInserts'
  <1>1. TasksTyped' /\ tasks'[t] = r /\ \A u \in Tasks : u # t => tasks'[u] = tasks[u]
    BY TaskChanges, Zenon
  <1> QED BY <1>1 DEF OneInserts

\* During an insertion a task that does not insert enters such a state.
LEMMA OtherTask ==
    ASSUME TasksTyped, OneInserts, phase' = phase, node' = node, NEW t \in Tasks,
           tasks[t].pc # "adding", NEW r \in TaskStates, r.pc # "adding",
           r.pc # "none" => r.node \in Heard, tasks' = [tasks EXCEPT ![t] = r]
    PROVE  TasksTyped' /\ OneInserts'
  <1>1. TasksTyped' /\ tasks'[t] = r /\ \A u \in Tasks : u # t => tasks'[u] = tasks[u]
    BY TaskChanges, Zenon
  <1>2. \A u \in Tasks : tasks'[u].pc = "adding" <=> tasks[u].pc = "adding"
    BY <1>1
  <1>3. CASE phase = "idle"
    BY <1>1, <1>2, <1>3 DEF OneInserts
  <1>4. CASE phase # "idle"
    <2>1. PICK u \in Tasks : Inserts(u)
      BY <1>4 DEF OneInserts
    <2>2. tasks[u].pc = "adding" /\ u # t
      BY <2>1 DEF Inserts
    <2>3. tasks'[u].node = node'
      BY <1>1, <2>1, <2>2 DEF Inserts
    <2>4. \A v \in Tasks : tasks'[v].pc = "adding" <=> v = u
      BY <1>2, <2>1 DEF Inserts
    <2>5. Inserts(u)'
      BY <2>3, <2>4 DEF Inserts
    <2> QED BY <1>1, <1>4, <2>5 DEF OneInserts
  <1> QED BY <1>3, <1>4

\* The states a task goes through.
LEMMA TaskStateFacts ==
    /\ NoTask \in TaskStates /\ NoTask.pc = "none"
    /\ \A n \in Heard : LET r == [pc |-> "check", node |-> n, keys |-> {}]
                        IN  r \in TaskStates /\ r.pc = "check" /\ r.node = n
    /\ \A r \in TaskStates : \A p \in {"sample", "add", "adding"} :
          LET q == [r EXCEPT !.pc = p]
          IN  q \in TaskStates /\ q.pc = p /\ q.node = r.node
  <1>1. NoTask \in TaskStates /\ NoTask.pc = "none"
    BY DEF NoTask, TaskStates
  <1>2. ASSUME NEW n \in Heard
        PROVE  LET r == [pc |-> "check", node |-> n, keys |-> {}]
               IN  r \in TaskStates /\ r.pc = "check" /\ r.node = n
    BY DEF TaskStates
  <1>3. ASSUME NEW r \in TaskStates, NEW p \in {"sample", "add", "adding"}
        PROVE  LET q == [r EXCEPT !.pc = p]
               IN  q \in TaskStates /\ q.pc = p /\ q.node = r.node
    BY DEF TaskStates
  <1> QED BY <1>1, <1>2, <1>3

\* A welcome task starts, whatever the others do.
LEMMA SpawnStep ==
    ASSUME MIInv, NEW t \in Tasks, NEW n \in Heard, Spawn(t, n), UNCHANGED vars, pings' \subseteq pings
    PROVE  MIInv'
  <1>1. /\ IInv /\ NothingReturned /\ TasksTyped /\ OneInserts /\ HeardOnly
        /\ phase' = phase /\ node' = node /\ buckets' = buckets /\ lru' = lru
    BY DEF MIInv, vars
  <1>2. PICK r \in TaskStates : /\ r.pc = "check" /\ r.node = n
                                /\ tasks' = [tasks EXCEPT ![t] = r]
    BY TaskStateFacts, Zenon DEF Spawn
  <1>3. tasks[t].pc # "adding"
    BY TaskStateFacts DEF Spawn
  <1>4. r.pc # "adding" /\ (r.pc # "none" => r.node \in Heard)
    BY <1>2
  <1>5. TasksTyped' /\ OneInserts'
    BY <1>1, <1>2, <1>3, <1>4, OtherTask, Zenon
  <1>6. IInv'
    BY <1>1 DEF IInv, TypeOK, Partitioned, WellFormedBuckets, SplitInv, BucketIndexFor, vars
  <1>7. NothingReturned' /\ HeardOnly'
    BY <1>1 DEF NothingReturned, HeardOnly
  <1> QED BY <1>5, <1>6, <1>7 DEF MIInv

\* A task asks whether its node is new, or ends.
LEMMA CheckStep ==
    ASSUME DistinctLongIds, MIInv, NEW t \in Tasks, Check(t)
    PROVE  MIInv'
  <1>u. UNCHANGED vars /\ pings' = pings /\ phase = "idle"
    BY Zenon DEF Check
  <1>1. /\ IInv /\ NothingReturned /\ TasksTyped /\ OneInserts /\ HeardOnly
        /\ phase = "idle" /\ phase' = phase /\ buckets' = buckets /\ pings' = pings
    BY <1>u DEF MIInv, vars
  <1>2. tasks[t] \in TaskStates /\ tasks[t].pc = "check" /\ tasks[t].node \in Heard
    BY <1>1 DEF TasksTyped, Check
  <1>3. PICK r \in TaskStates : /\ r.pc # "adding" /\ (r.pc # "none" => r.node \in Heard)
                                /\ tasks' = [tasks EXCEPT ![t] = r]
    <2>1. CASE IsNewNode(tasks[t].node)
      <3>1. tasks' = [tasks EXCEPT ![t] = [tasks[t] EXCEPT !.pc = "sample"]]
        BY <2>1 DEF Check
      <3>2. PICK r : r = [tasks[t] EXCEPT !.pc = "sample"]
        BY Zenon
      <3>3. r \in TaskStates /\ r.pc = "sample" /\ r.node = tasks[t].node
        BY <1>2, <3>2, TaskStateFacts, Zenon
      <3> QED BY <1>2, <3>1, <3>2, <3>3, Zenon
    <2>2. CASE ~IsNewNode(tasks[t].node)
      <3>1. tasks' = [tasks EXCEPT ![t] = NoTask]
        BY <2>2 DEF Check
      <3> QED BY <3>1, TaskStateFacts, Zenon
    <2> QED BY <2>1, <2>2, Zenon
  <1>4. TasksTyped' /\ OneInserts'
    BY <1>1, <1>3, IdleTask, Zenon
  <1>5. IInv' /\ NothingReturned'
    BY <1>u, <1>1, TableStep, Zenon
  <1>6. HeardOnly'
    BY <1>1 DEF HeardOnly
  <1> QED BY <1>4, <1>5, <1>6 DEF MIInv

\* It searches the neighbours of the keys.
LEMMA SampleStep ==
    ASSUME MIInv, NEW t \in Tasks, Sample(t)
    PROVE  MIInv'
  <1>1. PICK ks \in SUBSET Held : SampleAs(t, ks)
    BY DEF Sample
  <1>2. /\ IInv /\ NothingReturned /\ TasksTyped /\ OneInserts /\ HeardOnly
        /\ phase = "idle" /\ phase' = phase /\ pings' = pings
    BY <1>1 DEF MIInv, SampleAs
  <1>3. tasks[t] \in TaskStates /\ tasks[t].node \in Heard
    BY <1>1, <1>2 DEF TasksTyped, SampleAs
  <1>4. PICK r : r = [[tasks[t] EXCEPT !.pc = "add"] EXCEPT !.keys = ks]
    OBVIOUS
  <1>5. r \in TaskStates /\ r.pc = "add" /\ r.node = tasks[t].node
    BY <1>3, <1>4, Zenon DEF TaskStates
  <1>6. tasks' = [tasks EXCEPT ![t] = r]
    <2>1. tasks' = [tasks EXCEPT ![t].pc = "add", ![t].keys = ks]
      BY <1>1 DEF SampleAs
    <2> QED BY <1>2, <1>4, <2>1, Zenon DEF TasksTyped
  <1>7. r.pc # "adding" /\ (r.pc # "none" => r.node \in Heard)
    BY <1>3, <1>5
  <1>8. TasksTyped' /\ OneInserts'
    BY <1>2, <1>5, <1>6, <1>7, IdleTask, Zenon
  <1>9. IInv' /\ NothingReturned' /\ Contacts(buckets') \subseteq Contacts(buckets)
    BY <1>1, <1>2, SampleKeeps, Zenon
  <1>10. HeardOnly'
    BY <1>2, <1>9 DEF HeardOnly
  <1> QED BY <1>8, <1>9, <1>10 DEF MIInv

\* It takes the write lock and begins to insert, or ends if its node is this one.
LEMMA AddStep ==
    ASSUME DistinctLongIds, MIInv, NEW t \in Tasks, Add(t)
    PROVE  MIInv'
  <1>1. /\ IInv /\ NothingReturned /\ TasksTyped /\ OneInserts /\ HeardOnly
        /\ phase = "idle" /\ tasks[t].pc = "add"
    BY DEF MIInv, Add
  <1>2. /\ tasks[t] \in TaskStates /\ tasks[t].node \in Heard /\ tasks[t].node \in Ids
        /\ \A u \in Tasks : tasks[u].pc # "adding"
    BY <1>1, MembershipConstants DEF TasksTyped, OneInserts, MembershipConstants
  <1>3. CASE AddContact(tasks[t].node) /\ tasks' = [tasks EXCEPT ![t].pc = "adding"] /\ UNCHANGED pings
    <2>1. /\ phase' = "insert" /\ phase' # "idle" /\ node' = tasks[t].node /\ buckets' = buckets
      BY <1>3 DEF AddContact
    <2>2. PICK r : r = [tasks[t] EXCEPT !.pc = "adding"]
      BY Zenon
    <2>3. r \in TaskStates /\ r.pc = "adding" /\ r.node = tasks[t].node
      BY <1>2, <2>2, TaskStateFacts, Zenon
    <2>4. tasks' = [tasks EXCEPT ![t] = r]
      BY <1>3, <2>2
    <2>5. r.pc # "none" => r.node \in Heard
      BY <1>2, <2>3
    <2>6. TasksTyped' /\ tasks'[t] = r /\ \A u \in Tasks : u # t => tasks'[u] = tasks[u]
      BY <1>1, <2>3, <2>4, <2>5, TaskChanges, Zenon
    <2>7. \A u \in Tasks : tasks'[u].pc = "adding" <=> u = t
      BY <1>2, <2>3, <2>6
    <2>8. Inserts(t)'
      BY <2>1, <2>3, <2>6, <2>7 DEF Inserts
    <2>9. OneInserts'
      BY <2>1, <2>8, Zenon DEF OneInserts
    <2>10. Next
      BY <1>2, <1>3, Zenon DEF Next
    <2>11. IInv' /\ NothingReturned'
      BY <1>1, <2>10, TableStep, Zenon
    <2>12. HeardOnly'
      BY <1>1, <1>3, <2>1 DEF HeardOnly
    <2> QED BY <2>6, <2>9, <2>11, <2>12 DEF MIInv
  <1>4. CASE Ends(t, NoNode) /\ UNCHANGED vars
    <2>1. /\ tasks' = [tasks EXCEPT ![t] = NoTask] /\ pings' = pings
          /\ phase' = phase /\ buckets' = buckets
      BY <1>4 DEF Ends, vars
    <2>2. NoTask \in TaskStates /\ NoTask.pc # "adding" /\ (NoTask.pc # "none" => NoTask.node \in Heard)
      BY TaskStateFacts
    <2>3. TasksTyped' /\ OneInserts'
      BY <1>1, <2>1, <2>2, IdleTask, Zenon
    <2>4. IInv' /\ NothingReturned'
      BY <1>1, <1>4, TableStep, Zenon
    <2>5. HeardOnly'
      BY <1>1, <2>1 DEF HeardOnly
    <2> QED BY <2>3, <2>4, <2>5 DEF MIInv
  <1> QED BY <1>3, <1>4 DEF Add

\* It inserts, and when that is done pings the contact add_contact returned.
LEMMA AddingStep ==
    ASSUME DistinctLongIds, MIInv, NEW t \in Tasks, Adding(t)
    PROVE  MIInv'
  <1>1. /\ IInv /\ NothingReturned /\ TasksTyped /\ OneInserts /\ HeardOnly
        /\ InsertStep /\ tasks[t].pc = "adding"
    BY DEF MIInv, Adding
  <1>2. phase # "idle"
    BY <1>1 DEF OneInserts
  <1>3. Inserts(t)
    <2>1. PICK u \in Tasks : Inserts(u)
      BY <1>1, <1>2, Zenon DEF OneInserts
    <2>2. u = t
      BY <1>1, <2>1 DEF Inserts
    <2> QED BY <2>1, <2>2
  <1>4. node \in Heard
    BY <1>1, <1>3 DEF TasksTyped, Inserts
  <1>5. IInv' /\ NothingReturned'
    <2>1. Next
      BY <1>1, Zenon DEF Next
    <2> QED BY <1>1, <2>1, TableStep, Zenon
  <1>6. Contacts(buckets') \subseteq Heard
    <2>1. Contacts(buckets') \subseteq Contacts(buckets) \cup {node}
      BY <1>1, InsertAdds, Zenon
    <2> QED BY <1>1, <1>4, <2>1 DEF HeardOnly
  <1>7. CASE phase' = "idle"
    <2>1. /\ tasks' = [tasks EXCEPT ![t] = NoTask]
          /\ pings' = pings \cup ({lru'} \ {NoNode})
      BY <1>7, Zenon DEF Adding, Ends
    <2>2. NoTask \in TaskStates /\ NoTask.pc # "adding" /\ (NoTask.pc # "none" => NoTask.node \in Heard)
      BY TaskStateFacts
    <2>3. TasksTyped' /\ tasks'[t] = NoTask /\ \A u \in Tasks : u # t => tasks'[u] = tasks[u]
      BY <1>1, <2>1, <2>2, TaskChanges, Zenon
    <2>4. \A u \in Tasks : tasks'[u].pc # "adding"
      BY <1>3, <2>2, <2>3 DEF Inserts
    <2>5. OneInserts'
      BY <1>7, <2>4 DEF OneInserts
    <2>6. lru' # NoNode => lru' \in Heard
      <3>1. lru' # NoNode => lru' \in Contacts(buckets')
        BY <1>1, <1>7, ReturnedIsContact, Zenon
      <3> QED BY <1>6, <3>1
    <2>7. pings' \subseteq Heard
      BY <1>1, <2>1, <2>6 DEF HeardOnly
    <2> QED BY <1>5, <1>6, <2>3, <2>5, <2>7 DEF MIInv, HeardOnly
  <1>8. CASE phase' # "idle"
    <2>1. tasks' = tasks /\ pings' = pings
      BY <1>8 DEF Adding
    <2>2. node' = node
      BY <1>1, <1>8, Zenon DEF InsertStep, InsertAccepted, InsertRejected, BeginSplit, MoveContact, FinishSplit
    <2>3. Inserts(t)'
      BY <1>3, <2>1, <2>2 DEF Inserts
    <2>4. OneInserts'
      BY <1>8, <2>3, Zenon DEF OneInserts
    <2>5. TasksTyped'
      BY <1>1, <2>1 DEF TasksTyped
    <2>6. HeardOnly'
      BY <1>1, <1>6, <2>1 DEF HeardOnly
    <2> QED BY <1>5, <2>4, <2>5, <2>6 DEF MIInv
  <1> QED BY <1>7, <1>8

\* A contact is removed: it did not answer, left, or sent too many invalid records.
LEMMA RemovalStep ==
    ASSUME DistinctLongIds, MIInv, NEW n \in Heard, RemoveContact(n), tasks' = tasks, pings' \subseteq pings
    PROVE  MIInv'
  <1>1. /\ IInv /\ NothingReturned /\ TasksTyped /\ OneInserts /\ HeardOnly
        /\ phase = "idle" /\ phase' = phase /\ n \in Ids
    BY MembershipConstants DEF MIInv, RemoveContact, MembershipConstants
  <1>2. Next
    BY <1>1, Zenon DEF Next
  <1>3. IInv' /\ NothingReturned'
    BY <1>1, <1>2, TableStep, Zenon
  <1>4. Contacts(buckets') \subseteq Contacts(buckets)
    BY <1>1, RemovalAdds, Zenon
  <1>5. TasksTyped' /\ OneInserts' /\ HeardOnly'
    BY <1>1, <1>4 DEF TasksTyped, OneInserts, HeardOnly
  <1> QED BY <1>3, <1>5 DEF MIInv

\* Nothing changes.
LEMMA StutterStep ==
    ASSUME DistinctLongIds, MIInv, UNCHANGED allVars
    PROVE  MIInv'
  <1>1. UNCHANGED vars /\ tasks' = tasks /\ pings' = pings
    BY Zenon DEF allVars
  <1>2. /\ IInv /\ NothingReturned /\ TasksTyped /\ OneInserts /\ HeardOnly
        /\ phase' = phase /\ node' = node /\ buckets' = buckets
    BY <1>1 DEF MIInv, vars
  <1>3. IInv' /\ NothingReturned'
    BY <1>1, <1>2, TableStep, Zenon
  <1>4. TasksTyped' /\ OneInserts' /\ HeardOnly'
    BY <1>1, <1>2 DEF TasksTyped, OneInserts, HeardOnly, Inserts
  <1> QED BY <1>3, <1>4 DEF MIInv

\* Every step of the tasks and of the removals keeps the invariant.
LEMMA MNextKeeps ==
    ASSUME DistinctLongIds, MIInv, [MNext]_allVars
    PROVE  MIInv'
  <1>1. ASSUME NEW t \in Tasks, WelcomeStep(t) PROVE MIInv'
    BY <1>1, CheckStep, SampleStep, AddStep, AddingStep, Zenon DEF WelcomeStep
  <1>2. ASSUME NEW t \in Tasks, NEW n \in Heard, Hear(t, n) PROVE MIInv'
    <2>1. Spawn(t, n) /\ UNCHANGED vars /\ pings' \subseteq pings
      BY <1>2 DEF Hear
    <2> QED BY <2>1, SpawnStep, Zenon
  <1>3. ASSUME NEW t \in Tasks, NEW n \in Heard, PingAnswered(t, n) PROVE MIInv'
    <2>1. Spawn(t, n) /\ UNCHANGED vars /\ pings' \subseteq pings
      BY <1>3 DEF PingAnswered
    <2> QED BY <2>1, SpawnStep, Zenon
  <1>4. ASSUME NEW n \in Heard, PingFails(n) PROVE MIInv'
    <2>1. RemoveContact(n) /\ tasks' = tasks /\ pings' \subseteq pings
      BY <1>4 DEF PingFails
    <2> QED BY <2>1, RemovalStep, Zenon
  <1>5. ASSUME NEW n \in Heard, Forget(n) PROVE MIInv'
    <2>1. RemoveContact(n) /\ tasks' = tasks /\ pings' \subseteq pings
      BY <1>5 DEF Forget
    <2> QED BY <2>1, RemovalStep, Zenon
  <1>6. CASE UNCHANGED allVars
    BY <1>6, StutterStep
  <1> QED BY <1>1, <1>2, <1>3, <1>4, <1>5, <1>6, Zenon DEF MNext

\* The invariant holds in every reachable state of the welcome tasks.
THEOREM MembershipInvariance ==
    ASSUME DistinctLongIds
    PROVE  MSafety => []MIInv
  <1>1. MIInv /\ [MNext]_allVars => MIInv'
    BY MNextKeeps
  <1> QED BY <1>1, MInitHolds, PTL DEF MSafety

\* However many welcome tasks and removals run at once, one task at a time is
\* inside an insertion, the insertion is of its own node, and only nodes that
\* were heard from are pinged.
THEOREM InsertionsExclude ==
    ASSUME DistinctLongIds
    PROVE  MSafety => []TasksWellFormed
  <1>1. ASSUME MIInv PROVE TasksWellFormed
    <2> DEFINE adding == {t \in Tasks : tasks[t].pc = "adding"}
    <2>1. OneInserts /\ pings \subseteq Heard
      BY <1>1 DEF MIInv, HeardOnly
    <2>2. CASE phase = "idle"
      <3>1. adding = {}
        BY <2>1, <2>2 DEF OneInserts
      <3> QED BY <2>1, <2>2, <3>1, FS_EmptySet DEF TasksWellFormed
    <2>3. CASE phase # "idle"
      <3>1. PICK t \in Tasks : Inserts(t)
        BY <2>1, <2>3 DEF OneInserts
      <3>2. adding = {t}
        BY <3>1 DEF Inserts
      <3>3. Cardinality(adding) = 1
        BY <3>2, FS_Singleton, Zenon
      <3>4. \A u \in Tasks : tasks[u].pc = "adding" => tasks[u].node = node
        BY <3>1 DEF Inserts
      <3> QED BY <2>1, <2>3, <3>3, <3>4 DEF TasksWellFormed
    <2> QED BY <2>2, <2>3
  <1> QED BY <1>1, MembershipInvariance, PTL

\* The routing table keeps its invariants under the concurrent tasks: between
\* any two of their steps the buckets partition the long ids, each is well
\* formed, and a split in progress has lost no contact.
THEOREM TableSafeUnderTasks ==
    ASSUME DistinctLongIds
    PROVE  MSafety => [](Partitioned /\ WellFormedBuckets /\ SplitInv)
  <1>1. MIInv => Partitioned /\ WellFormedBuckets /\ SplitInv
    BY DEF MIInv, IInv
  <1> QED BY <1>1, MembershipInvariance, PTL
=============================================================================
