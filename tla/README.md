# auth_kademlia in TLA+

TLA+ specifications of the authenticated Kademlia DHT in `src/`, the TLC models
that check them on small instances, and TLAPS proofs of the properties that
matter most for every instance. `PROJECT.json` lists the components, the runs
with their properties, the mutants that show each property can fail, the source
lines every definition models, the findings, the hazards and the theorems.

## The system and its parts

A node is one process around a UDP socket. It consists of:

| Part | Source | State it keeps | Module |
|---|---|---|---|
| Receive loop, worker pool | `network.rs` `listen` | worker queues, round-robin index | `WorkerPool` |
| Fragmentation, reassembly | `fragmentation.rs`, `protocol.rs` `send_frame`, `handle_datagram` | `next_frag_id`, reassembly buffers | `Reassembly` |
| RPC calls | `protocol.rs` `call` and the `call_*` wrappers | `next_msg_id`, `pending` | `RpcCalls` |
| Request handlers | `protocol.rs` `rpc_*` | strikes per sender | `RecordStore`, `Membership` |
| Record store | `storage.rs` | value and insertion time per key | `RecordStore` |
| Verification rules, signature cache | `auth_handler.rs`, `signature_cache.rs`, `protocol.rs` `verify_for_key` | cached results | `RecordStore` |
| get, set, update, delete | `network.rs` | none of its own | `RecordStore`, `Replication` |
| Routing table | `routing.rs`, `node.rs` | buckets | `RoutingTable`, `NodeId` |
| Neighbour search | `routing.rs` `find_neighbors`, `TableTraverser` | none | `FindNeighbors` |
| Joining and leaving the table | `protocol.rs` `welcome_if_new`, `call_ping_node`, `rpc_leave` | pending tasks | `Membership` |
| Iterative lookup | `crawling.rs`, `node.rs` `NodeHeap` | heap, contacted nodes | `Lookup` |
| Refresh, republish | `network.rs` `schedule_refresh`, `protocol.rs` `get_refresh_ids` | timers of the buckets, ages of the records | `Refresh`, `Replication` |
| Listening, bootstrap, saving, shutdown | `network.rs` `listen`, `bootstrap`, `save_state`, `stop` | `protocol`, task handles | `Server` |
| Python server object | `py_bindings.rs` `PyServer` | a lock around the server | `Server` |
| Node program | `scripts/dht_node.rs` | attempts left | `DhtNode` |
| The copies of a record on several nodes | `network.rs`, `protocol.rs`, `crawling.rs` | a record per node, calls in flight | `Replication` |
| Cryptography, key files, key managers in Python | `crypto/`, `py_bindings.rs` | files | not modelled |

A datagram passes the receive loop, is put together by the reassembly buffers,
and is then a request or a response. A response completes a waiting call. A
request goes to a handler, which reads or changes the record store and spawns a
welcome task for its sender. A welcome task changes the routing table and may
ping a contact or replicate records. Local operations read the store, run a
lookup (calls to many peers, starting from the neighbours in the routing table)
and store or change the record on the nodes found.

Everything runs on tokio: a task is interrupted only at an `await`. This is the
grain of the actions: an action is the code between two awaits, or between
taking a lock and releasing it. The exception is `add_contact`, whose loop is
modelled in steps (below).

## Modules

### RoutingTable, NodeId

`buckets` is `RoutingTable::buckets`: each bucket has its range, `nodes` (oldest
first), `replacement` and `lonely`, which abstracts `last_updated` to whether an
hour has passed. `add_contact` is the action `AddContact` followed by
`InsertAccepted`, or `InsertRejected`, or a split (`BeginSplit`, one
`MoveContact` for each contact of the bucket, `FinishSplit`) and another try;
the other operations wait for `phase = "idle"`, as they would wait for the write
lock. `RemoveContact`, `Lookup` (the timer of the target's bucket) and
`HourPasses` are the rest. A contact is its raw id; addresses are left out.
`NodeId` defines the fold of a raw id to a long id and the XOR distance. The
module takes `LongId` and the bits of ids as constants so that the proofs hold
for any fold.

### FindNeighbors

`TableTraverser` and `find_neighbors` as operators over `buckets`. `TurnOf` says after
how many others the traversal comes to a bucket, `Before` in which order it yields
the contacts, `Candidates` which of them are collected until there are `ksize`, and
`Neighbors` is the set of these. The final sort is by distance, so that the first
and the last of the result are its closest and its farthest (`ReplicationDue` of
`Membership`). `TurnOf` is a closed form, for the proofs; `MCFindNeighbors` has the
traversal as the code runs it (`Taken`), and the assumption `TakenInTurn` compares the
two for all tables of up to six buckets. The operators are evaluated for every
target and excluded node in every table `RoutingTable` reaches.

### Membership

`EXTENDS FindNeighbors`. Each task of `tasks` is a `welcome_if_new`, which takes
the lock three times: `Check` (is the node new), `Sample` (which keys to
replicate), `Add` and `Adding` (`add_contact`). `pings` are the pings of least
recently seen contacts; each fails (`PingFails`) or is answered
(`PingAnswered`, which starts a welcome task). `Forget` is every other removal.
The composition shares the variables of `RoutingTable`: the steps of an
insertion are those of that module.

### Reassembly

`wire` is the set of datagrams in flight, which may be lost, repeated and
reordered. `SendFrame` splits a message into fragments as `encode_fragments`
does. The receiver's actions are the branches of `handle_datagram`: a datagram
that is not a fragment, one that is refused, one that leaves its message
incomplete, one that completes it. The garbage collection takes the lock a
second time and is a step of its own (`GcReassembly`). A chunk is a pair of its
message and index; sizes are counted in bytes, as the limits depend on them.

### RpcCalls

A call goes through registration in `pending`, sending, and waiting on its
channel, which ends in a response, a timeout or a closed channel. The wrappers
that differ only in the request have one operation: `"store"` for the four
writes, `"find"` for the two lookups. What a wrapper asks of the routing table
is the call's verdict. `Cancel` is the abort of a task by `stop` in the middle of
its call, whose entry stays in `pending`. `wire` is the set of all messages sent:
each may arrive at any time, again and again, or never. Peers are external.

### RecordStore

Each task is a request handler or a local operation, cut at its awaits: `Begin`
reads, `VerifyOk` and `VerifyFails` are the end of a blocking verification,
`Commit` writes. A record is a value; constants say which signatures on it
verify and whose public key it contains. `Tick` ages records, `Evict` drops a
cache entry. The outcome of a lookup (`CrawlHits`, `CrawlMisses`) and the
acknowledgements of peers are external. `history` and `verified`, which records for
which key this node has verified which bytes, exist only for the properties.

### KeyRegister

The abstract specification that `RecordStore` implements: one register per key,
and for each open request the one step in which it may take effect. A peer's
store fills an empty register; a peer's update or deletion is signed by the owner
of a document held here at some time (not necessarily the current one: the code
verifies before it writes); the node's own set and update overwrite freely. The
mapping (`Register` in `RecordStore`) reads an expired record as none and a
task as an open request from its first await to its end.

### Replication, DhtNode

`Replication` has one key and several nodes, numbered by their distance to it.
`held` is the record in each node's storage, `ops` the operation of each client,
`net` the requests in flight. `Begin` is the look at the node's own storage;
`Ask`, `CrawlHits` and `CrawlMisses` are the value lookup, including the copy it
leaves on the nearest peer without the value; `SetDigest`, `UpdateDigest`,
`DeleteHere` and `DeleteThere` write and call the peers; `Return` is the end of
`join_all`, with any part of the answers heard in time. `HandleStore`,
`CheckRequest` and `CommitRequest` are the handlers, the last two the halves of a
handler around its verification; `base` is the record it was verified against. `Republish` is what a round of the refresh loop,
or a welcome task, sends to one node. `Exit` ends a process, and with it the
records in its memory, its client's operation and the verifications in progress.

`DhtNode` EXTENDS it with `script`, the program each node runs: start, bootstrap
with retries, role, publishing or retrieving with retries, serving. A cast
chooses who takes part. A restarted node keeps its distance to the key although
the program draws a new id: the order of the nodes is one of the possible ones.

### Refresh

Time in ticks, `Hour` of them between two rounds. Buckets keep their range and
the age of their timer, records their age. A round wakes, draws an id for each
lonely bucket (`Wake`, with the code's placement of the random number in the
id), looks each up (`SearchFor`), then republishes the records at least an hour
old. Lookups of other parts of the node, splits, stores and deletions happen at
any time. `searched` follows one arbitrary region of the id space. The fold of an
id is the constant `LongId`, of which `RefreshConstants` says one thing: an id whose
tail is zero, as `get_refresh_ids` draws it, is folded to its first bits. `MCRefresh`
takes the fold from `NodeId`.

### Server

`queue` and `calls` are the lock of `PyServer` and the coroutines at it; each call
is cut at its awaits and may be cancelled there (`Cancel`). `protocol` is the
number of the listen that made the present protocol; `loops` are the running
background tasks and `handles` the two the server can abort. `polls` are the saving
tasks past their last await: an abort takes effect at the next one, and `stop` does
not wait for it, so such a task still writes the file. A second listen on
the same port fails, because the receive loop keeps the socket even after a stop;
on another port it succeeds and replaces the protocol and the refresh handle.

### Lookup

A node is represented by its distance to the target, so a `NodeHeap` is a set of
numbers. A round asks `Alpha` nodes, or all when the last round learned nothing;
its answers are complete before any is applied (`join_all`) and are applied in
any order, since the code iterates over a `HashMap`. Peers are external.

### WorkerPool

`loop` is the receive loop at its `recv_from`, in its `try_send` attempts or
waiting in `send`; `channels` are the workers' queues, and `Take` and `Finish` are
a worker.

## Runs

Each run is `tlc -config <cfg> <module>`.

| Run | Checks | Shows |
|---|---|---|
| `routing_table` | `TypeOK`, `Partitioned`, `WellFormedBuckets`, `SplitInv`, `InsertKeepsContacts`, `InsertKeepsPrimaries`, `SplitNarrows`, `ReturnedLruIsRival`, `NeighborsComplete`, `OwnBucketFirst` | splits keep a partition and lose no contact; the neighbour search returns as many contacts as it should, on every reachable table |
| `membership` | `TasksWellFormed`, `EveryWelcomeEnds` | two welcome tasks, pings and removals on one table; no task starves and every insertion ends |
| `reassembly` | `TypeOK`, `DeliveredIntact`, `BuffersWait`, `FragmentsFit`, `NothingDroppedEarly` | different messages of two peers under equal fragment ids, repeats, reordering, ageing, a restart |
| `reassembly_live` | `SentIsDelivered` | up to three fragments in any order: a message that got out whole, and fits the receiver's limit in whole chunks, arrives unless a datagram is lost |
| `rpc_calls` | `AnswersMatch`, `PendingExact`, `EveryCallReturns` | three calls that share two ids, messages that are late, repeated or never arrive, a restart, an abort |
| `record_store` | `OnlyVerifiedRecords`, `StoresExclusive`, `UpdateByAnOwner`, `ImplementsRegister` | three concurrent tasks, remote and local, on a document and the status list, with expiry; together they implement `KeyRegister` |
| `lookup` | `ResultComplete`, `HitIsReturned`, `Terminates` | lookups of nodes and values among six nodes |
| `worker_pool` | `NoneLost`, `EachHandled` | full queues lose nothing |
| `refresh` | `RegionsLookedUp`, `EntriesOffered` | no region and no record is passed over for long, at the boundaries of exactly an hour as well |
| `replication` | `AckedMeansStored`, `RollsBackOnlyOvertaken`, `GoneForGood`, `ProgramsSettle` | three nodes with publisher, retriever and other clients, lost and late calls, a process that ends: what an acknowledgement means, what takes a copy back to an older rotation, when a deletion is final, that programs come to rest |
| `server` | `OneProtocolPerCall`, `LoopsAccounted`, `QuietAfterStop`, `EveryCallReturns` | three coroutines start, stop, save and use one server and are cancelled at any await |

`DeliveredIntact` and `AnswersMatch` are conditional on ids being unique among the
messages sent: counters wrap and start at 0 after a restart, and the code has
nothing else to tell messages apart by. `PendingExact` needs no such condition.

`OnlyVerifiedRecords` says on which verification a record rests: one under the rule of
its own key (self-signed, or signed by the issuer for the status list), or, with a
cache, one of the same bytes under any key, or an update authorised against the
record it found.

`RollsBackOnlyOvertaken` names every way in which a copy goes back to an older
rotation, and all of them occur in the run: a set or update of the node's own client
writes without looking again; an update with a key that the newer record still
carries passes its check; an update that was checked in time is written after a
newer one (`protocol.rs:521`, `protocol.rs:547`). What remains is that no store does it,
nor an update that comes after its key was rotated away.

`GoneForGood` says what a deletion needs to be final: no copy is left, no store and no
verified update is in flight, and no operation under way has heard of the record.
Nothing makes that come about: a node that missed a deletion keeps its copy and
republishes it, and a store only needs an empty place. Nor do the copies become
equal, or reach every node: a node that knows no neighbours for the key skips it
(`network.rs:713-720`), a failed call removes the contact, and a bootstrap that has
failed is not tried again (`dht_node.rs:326-329`).

`AckedMeansStored` has a consequence for retries: a set whose calls were all
refused or lost returns false although its own node may hold the record by then,
and the next attempt meets that copy and returns `None`; `ProgramsSettle` shows
that the programs get past this.

### Disagreements between the code and its documentation

The run `find_neighbors_closest` checks `NeighborsAreClosest`, what the comment at
`routing.rs:325` says, and TLC finds a counterexample in what the code does: the
search stops at `ksize` candidates before it sorts, so a closer contact is left
out.

Others were met while modelling and are not kept as runs:

* `protocol.rs:934-935`: the Pong of a pinged contact refreshes the routing table;
  its welcome task returns at once for a known node (`protocol.rs:876`), so the
  contact is not moved in its bucket.
* `protocol.rs:291-292`: fragments of a message over the size limit are refused;
  the receiver counts a partial last fragment as a whole one (`protocol.rs:293`), so
  it also refuses messages within the limit which `send_frame` lets pass.
* `network.rs:314-315`: an update changes an existing record, signed with the key of
  the current document; the record may be changed or deleted between the check
  and the write (`protocol.rs:521`, `protocol.rs:547`). `KeyRegister` states what
  holds instead.
* `network.rs:147`: `stop` cancels the background tasks; those that receive and log
  have no handle and go on, and so does a refresh or save task whose handle a
  second start has overwritten (`network.rs:733`, `network.rs:636`). A save under way
  when it is aborted still writes its file, after `stop` has returned.
* `protocol.rs:837`: a value is verified for its key; the cache is keyed by the bytes
  alone (`protocol.rs:841-848`, and `network.rs:537-544` for local operations), so a
  result found under the rule of one key stands for the same bytes under another.
  With it `dht_node.rs:130`, that without an issuer key verification for the status
  list fails, holds only for bytes not cached under another key.
* `network.rs:39`: without a storage the default TTL store is used; it is one
  without expiry (`network.rs:49`).
* `routing.rs:9`: only lookups touch `last_updated`; `split` gives its halves a
  fresh one (`routing.rs:55`).
* `node.rs:21-22`, `node.rs:54`: the fold of ids loses no information; it maps 160
  bits to 128.
* `routing.rs:198-203`: left buckets come closest first; the vector is reversed
  and popped from its end, which yields the farthest first.
* `protocol.rs:873-874`: neighbours are sampled without the new node; two welcome
  tasks of one node can run at once, and the second may sample after the first
  has added it.
* `README.md:113`: only nodes closer to a key than the new node replicate it; the
  code compares itself with its own nearest neighbour of the key, never with the
  new node (`protocol.rs:902`), and without neighbours it always replicates.
* `fragmentation.rs:18-19`: `frag_id` is unique per message and sender; it starts at
  0 in every process (`protocol.rs:177`).
* `protocol.rs:240`: a call waits for the matching response; responses match by
  `msg_id` alone (`protocol.rs:361`), which starts at 0 in every process.
* `network.rs:298`: `set` returns `None` if the key exists; a record stored during
  the lookup is replaced (`network.rs:403`).
* `network.rs:289-290`: the nodes of the lookup are targets after an invalid
  record; a lookup that finds a value returns no nodes (`crawling.rs:236`).
* `crawling.rs:258`: the k closest nodes found are returned; nodes trimmed from
  the heap do not come back when others fail, so there can be fewer than k.
* `crawling.rs:168-169`: the nearest node without the value is used for caching; a
  peer trimmed from the heap before its answer is applied is not considered.

## Bounds, and why they are enough

* Routing table: ids of 5 bits (4 base, 1 tail), the code's 128 + 32 scaled with
  the width still a multiple of 5, on which the split rule `depth % 5` depends.
  Buckets of two and six contacts near and far give splits to the full depth,
  buckets that may not split, replacements and promotions.
* Membership: two contacts for a bucket of one, the node's own id, and two tasks,
  which is what a check-then-act race needs; the node holds one key close to it.
* Reassembly: chunks of two bytes and two workers. `reassembly` has two messages of
  two fragments each, one with a partial last one, so that their chunks would fit
  into one buffer; at most two timeouts and one restart (`MaxTimeouts`,
  `MaxRestarts`); and `FragSpace` 2, so that ids wrap. A loss adds nothing there,
  as a datagram need not be received. `reassembly_live` has messages of one, three
  and four fragments and at most one loss (`MaxLosses`). Its limit of 7 bytes is no
  multiple of the chunk size: the longest message, of 7 bytes, gets out, and the
  receiver counts it as 8 and refuses it.
* RPC: three calls and ids that wrap at 2, so that two calls in progress share an id
  and one pushes the other out of the map, also without a restart; one restart
  (`MaxRestarts`), after which ids begin at 0 again. `Ops` gives each call the kinds of
  request it may make, together all of them.
* Record store: three tasks, the one observed and two that change the record
  around it, with task symmetry; a document key and the status list key; `TTL = 0`
  puts the expiry boundary one tick away.
* Lookup: six nodes and a heap of four, so that the heap is trimmed and refilled;
  `Alpha` 3 is smaller, so that a round leaves nodes of the heap unasked, and enough
  for one value to outnumber another.
* Worker pool: two workers with queues of one, and five datagrams: the loop meets
  both queues full.

* Refresh: ids of 3 bits, an `Hour` of 2 ticks and rounds of at most 1, and one
  record; buckets split down to single ids. Ages stop counting at the first value
  past every comparison. The bound of `RegionsLookedUp` grows with the splits,
  each of which restarts a timer.
* Replication: three nodes, the publisher's, the retriever's and the seed; at most
  one store of the refresh loops in flight to a running node (`MaxStray`), as each
  takes effect on one node only and repeats at any time; two attempts of each
  loop, enough for a failed one and a last one. Casts (`MCCasts`) combine
  what interacts: both programs with a rival record, publishing during an update,
  retrieving during a deletion, two rotations that follow each other, with the same
  key and with a new one, and an update and each program with an exit of any process.
* Server: three coroutines, two ports, two listens and two saving tasks at a time, so
  that each handle is overwritten. The coroutines divide the calls among them
  (`MCMakes`), so that calls of different kinds meet.

The runs of `RoutingTable`, `FindNeighbors` and `Server` check deadlock. In the others
a node whose requests are all answered, or whose bounds are used up, may stop.

## Fairness

* `Membership`: strong fairness of each welcome task; tokio schedules every task,
  and its `RwLock` is fair, so a task that asks for the lock gets it although
  others take it in between. `add_contact` itself never awaits. The fairness is
  stated with `Turn`, which leaves the choice of keys open; within `MNext` it is
  the task's own step.
* `Reassembly`: weak fairness of receiving and of garbage collection: workers take
  what has arrived and finish what they began.
* `RpcCalls`: weak fairness of each call's own steps; its timer fires. Peers and
  network owe nothing.
* `Lookup`: weak fairness of the next step; every call of a round returns, by
  `EveryCallReturns` of `RpcCalls`.
* `DhtNode`: weak fairness of the clients and programs, since every call of an
  operation has a timeout. Network, handlers and refresh loops owe nothing.
* `Server`: weak fairness of entering the lock and of each caller inside; tokio's
  lock is fair, and what a call awaits has a timeout.
* `WorkerPool`: weak fairness of the loop and of each worker. Handlers await
  locks and verifications but never a later datagram; the calls they cause run
  in tasks of their own.

## Proofs

TLAPS checks eight modules. Every safety invariant and action property that a passing
run checks is proved for all values of the constants; liveness is not (see the end of
this section). Components whose proofs are short share a module: `OutgoingProofs` is
about what a node asks of others, `ServerProofs` about the server and the datagrams it
receives.

**Routing table** (`RoutingTableLemmas`, `RoutingTableProofs`). For all ids,
capacities and widths that satisfy `RoutingConstants`, and under `DistinctLongIds`
(different ids have different long ids; the fold alone does not guarantee it, but
ids are SHA-1 digests or random, so that a collision is unlikely):
`TypeCorrect`, `BucketsPartition`, `BucketsWellFormed`, `SplitsShareContacts`,
and the step properties `InsertionKeepsContacts`, `InsertionKeepsPrimaries`,
`SplitsNarrow` and `TheHeadIsTheRival`. The inductive invariant `IInv` joins `TypeOK`,
`Partitioned`, `WellFormedBuckets` and `SplitInv`. Well-formed buckets alone are not
inductive: when a split ends, its halves become buckets, so it must be known
throughout the split that the halves and the contacts still to be handed out make up
the old bucket, each contact once, that a half has room for what it will be given,
and that primaries come before replacements. `SplitInv` says this. `SplitsNarrow`
is the variant that bounds the recursion of `insert`: every split makes the range
around the new contact smaller. `TheHeadIsTheRival` also needs that nothing is
returned before the insertion ends (`NothingReturned`), and that changing what a
bucket holds does not change which ids belong to it. `RoutingTableLemmas` has the
facts on lists without repetitions, on buckets and on the list of buckets.

**Neighbour search** (`FindNeighborsProofs`). For all tables of the invariant above,
all targets, excluded nodes and distances: `NeighborsAreComplete` and
`OwnBucketComesFirst`. The traversal is a total order on the places of the table
(`WalkFacts`): every bucket has a turn of its own (`TurnFacts`), and no contact has two
places, because buckets are well formed and their ranges do not overlap
(`OnePlaceEach`). What is collected are the first `ksize` of the places that count. The
core is a lemma on finite total orders (`FirstFacts`): those with fewer than k before
them are k, or all there are, and nobody before one of them is missing.

**Membership** (`MembershipProofs`). For any number of welcome tasks and all sets of
nodes and keys that satisfy `MembershipConstants`: `InsertionsExclude`, that is
`TasksWellFormed`, and `TableSafeUnderTasks`, that the buckets are partitioned and well
formed and a split has lost nobody between any two steps of concurrent tasks, pings
and removals. `MIInv` joins the table's `IInv` with the tasks: an insertion belongs to
exactly one task and is of its node (`OneInserts`), and the table contains only nodes
that were heard from (`HeardOnly`). The last is needed for the pings: what is pinged is
what `add_contact` returned, the head of a bucket, so it must be known that insertion,
split, removal and promotion bring nobody else into the table (`InsertAdds`,
`RemovalAdds`). Both modules assume `DistinctLongIds` as above.

**Reassembly** (`ServerProofs`). For all peers, messages, lengths and
bounds that satisfy `FragConstants`: `TypeCorrect`; `AssembledIntact`, that
what is assembled is a message its peer sent as long as fragment ids are unique
in what was sent; `BuffersStillWait`, `NoBufferDroppedEarly` and
`FragmentsAlwaysFit`. `FragIInv` adds that every datagram on the wire is a fragment of a
message sent (`WireSound`), and that a buffer holds, in their places, chunks of
one message of its peer sent under its fragment id, and of no other
(`BuffersFed`): what a complete buffer yields is then that message.
`BuffersStillWait` counts the chunks of a buffer with the cardinality theorems (a
chunk that fills a gap adds one, a repeated one adds none); `NoBufferDroppedEarly`
rests on it, because a buffer the receiver has removed is the one it has just
completed. `FragmentsAlwaysFit` is arithmetic of the rounded-up division.

**Server** (`ServerProofs`). For all coroutines, calls, ports and bounds that
satisfy `ServerConstants`: `OperationsKeepTheirProtocol`, `NoTaskIsLost` and
`StopSilencesSaving`. `IInv` adds to the type of the state that the lock excludes
(a caller with an exclusive call is alone inside), that an operation inside holds
the present protocol, and that after a stop only tasks without a handle are left,
besides those past their last await, which end with what they write.
The first two are needed for each other: the protocol changes only under the
exclusive lock, when nobody else is inside.

The same module proves `DatagramsAreKept` of `WorkerPool`, for all numbers of workers,
queue depths and sets of datagrams that satisfy `PoolConstants`. `PoolIInv` says
without counting that a datagram is at the socket, with the loop, at one place of
one queue, with one worker, or handled, and that it is nowhere else (`Placed`);
taking the head of a queue moves the places of all others in it up by one.

**Records** (`RecordStoreProofs`). For all keys, records, requests, tasks and times to
live that satisfy `RecordStoreConstants`: `RecordsAreVerified`, `OneStoreWins`,
`OwnersUpdate`, and `NodeIsARegister`, that the node implements `KeyRegister`. None of
these is inductive, since a task reads, awaits and then writes. `RecordsAreVerified` has
an invariant of its own (`VInv`): every cached record and every task past its
verification is backed by a pair in `verified`, which only grows. `IInv` therefore says of
every task what it has established and cannot lose to the steps of others (`Sound`): a
peer's change was checked against a record this node remembers as held, a local
one against a signed record, whoever is about to write is authorised, and a store
that was answered with success left a record that is live or has lapsed since. The
history only grows (`Grows`), which is why a task overtaken by others stays sound.
Each action is shown to keep `IInv` and to be a step of the register or a stutter:
`CommitStore` is a store or a refusal, `CommitLocal` without a local copy a refusal,
`Tick` a lapse of the records that expire, and the steps between awaits stutter.

**RPC calls** (`OutgoingProofs`). For all calls, peers, sizes of the id space and
bounds that satisfy `RpcConstants`: `CallsGetTheirOwnAnswers` and `PendingMapIsExact`. `IInv`
adds that a message in flight, or in a channel, was sent for a call registered under
its id (`WireSound`, `ChannelsSound`), and that an entry of the map belongs to a call
which has not returned and whose channel is empty (`EntriesWait`). A call that is
pushed out of the map has its channel closed in the same step, so it is no longer
one that waits with an empty channel; this is why the map is exact although ids may
repeat.

**Lookups** (`OutgoingProofs`). For every finite set of nodes, every heap size and every
`Alpha` that satisfy `LookupConstants`: `LookupsAreComplete` and `HitsAreReturned`. `LookupIInv`
says that the heap holds every one of the K closest nodes learned that has not
failed (`HeapComplete`): a trim drops only nodes with K closer ones in the heap, and
whoever is among the K closest of all nodes learned was so when fewer were known. `WithoutSound` says that the
first node to answer without the value is still in the heap when its answer is
applied. Nodes must be finite for a nearest one to exist in the set cut off.

**Refresh** (`OutgoingProofs`). For every hour, length of a round, width of ids, set of
entries and pattern of splits, lookups and writes that satisfies `RefreshConstants`:
`RegionsAreLookedUp` and `EntriesAreOffered`. An entry must be shown to be offered in
time whatever the loop is doing (`OfferedInTime`): while the loop sleeps, the age of the
entry at the next look is known, and one too young then is at least an hour old a
round later. For a region the same is said of the bucket that covers it (`Timely`): the
time the region has waited, less one longest silence for every split, is bounded by
the age of that bucket's timer and, with what is left of the sleep or of the round, by
the bucket's schedule; if not, an id of the bucket is still to be looked up in this
round (`Awaited`). This is where the placement of the random
number matters: the id drawn for a bucket must be folded into the bucket.

**Copies of a record** (`DhtNodeProofs`). For all nodes, clients, records, orders of
rotation and casts that satisfy `ReplicationConstants` and `DhtNodeConstants`:
`TrueMeansStored`, `OnlyOvertakenRollsBack` and `GoneUntilSet`, without further hypotheses:
any number of rotations may follow each other, with or without a new key. `IInv` says that a request whose
sender still listens belongs to the sender's present operation, and that a yes among
an operation's answers stands for a node that took its record (`Backed`): the record
of an operation does not change while its calls are out, so an answer that comes
late counts for the operation that asked or for none. It also says that a checked
request was signed by the owner of its `base`, and that a store is never one: the
rollbacks follow. `GoneUntilSet` takes every action in a state where the record is
gone (`Extinct`) and shows that there is nothing it could write.

Only model-checked, and why:

* All liveness: the prover does not handle fairness or `ENABLED`. These are
  `EveryWelcomeEnds`, `SentIsDelivered`, `Terminates`, `EachHandled`,
  `ProgramsSettle` and the `EveryCallReturns` of `RpcCalls` and of `Server`.
* That `TurnOf` is the order in which the traversal takes the buckets: `Taken` is a
  recursive operator, so `TakenInTurn` is evaluated for tables of up to six buckets.
* That the fold and the distance of `NodeId` have the properties the constants
  `LongId` and `Apart` are assumed to have: they are bitwise operations. TLC evaluates
  the assumptions on the instances of the runs.

## Not modelled

* Cryptography, parsing of DID documents and key files: a record verifies or not.
  The key managers and their Python classes are sequential file I/O.
* Addresses: a node is its id. Encoding with bincode: a message is a value.
* What `save_state` writes beyond which table it was taken from, and the log lines
  of the statistics.
* The clock of the buckets' timers is the wall clock (`routing.rs:55`), which may be
  set back and so put off a refresh; `Refresh` counts time that only advances, as
  the storage's clock does.
* Building, signing and printing of records in the node program, and its reading
  of the environment. The examples and measurement scripts add no state.
* Expiry in `Replication` (the default storage has none), and several keys: keys do
  not interact except through the routing table.

## Plan

A composition of `Refresh` with `RoutingTable` would tie the splits to the contacts that
cause them, and with it the bound of `RegionsLookedUp` to the depth of the table.
