----------------------------- MODULE RecordStore -----------------------------
(***************************************************************************)
(* The records one node holds and the tasks that read and change them:     *)
(* ForgetfulStorage (src/src/storage.rs), the signature cache              *)
(* (src/src/signature_cache.rs), the request handlers of                   *)
(* src/src/protocol.rs and the local operations of Server                  *)
(* (src/src/network.rs).                                                   *)
(*                                                                         *)
(* Every handler verifies on a blocking thread and awaits it, so that      *)
(* other tasks run between what it reads and what it writes: a task is a   *)
(* sequence of steps, cut at its awaits.  A record is a value whose        *)
(* signatures either verify or do not; cryptography and the network        *)
(* (what a lookup finds, which peers acknowledge) are external.            *)
(***************************************************************************)
EXTENDS Integers, FiniteSets

CONSTANTS
    Keys, StatusKey,   \* digests; StatusKey is that of the status list
    Records, NoRecord, \* record values; the absence of one
    SelfSigned,        \* records whose own signature verifies
    IssuerSigned,      \* records the issuer's signature verifies
    Owner,             \* the public key in a record's DID document
    Requests,          \* the requests that occur
    Senders, BanThreshold,
    Tasks,             \* each handles one request
    TTL,               \* -1 disables expiry
    HasCache           \* whether the signature cache is configured

RemoteOps == {"store", "update", "status", "delete", "find"}
LocalOps  == {"get", "set", "put", "remove"}

\* A task that has not begun.
Idle == [pc |-> "idle"]

ASSUME RecordStoreConstants ==
    /\ NoRecord \notin Records /\ SelfSigned \subseteq Records /\ IssuerSigned \subseteq Records
    /\ TTL \in Nat \cup {-1} /\ HasCache \in BOOLEAN /\ BanThreshold \in Nat
    /\ Idle \notin Requests
    /\ \A q \in Requests : q.op \in RemoteOps \cup LocalOps /\ q.key \in Keys /\ q.value \in Records

VARIABLES
    store,    \* ForgetfulStorage.data: for each key Vacant or [value, age]
    cache,    \* records with a cached positive verification
    tasks,    \* the state of every task
    strikes,  \* invalid_sig_strikes
    history,  \* for the properties: [past, lapsed], see Track
    verified  \* for the properties: <<k, v>> if v was verified for k, see Proven

vars == <<store, cache, tasks, strikes, history, verified>>

-----------------------------------------------------------------------------
(* ForgetfulStorage *)

Vacant == [value |-> NoRecord, age |-> 0]

\* Ages are counted up to the first at which a record has expired.
MaxAge == IF TTL = -1 THEN 0 ELSE TTL + 1

IsExpired(e) == TTL # -1 /\ e.age > TTL

Live(k) == store[k] # Vacant /\ ~IsExpired(store[k])

\* get_default with no default.
Get(k) == IF Live(k) THEN store[k].value ELSE NoRecord

Set(k, v) == [store EXCEPT ![k] = [value |-> v, age |-> 0]]

Delete(k) == [store EXCEPT ![k] = Vacant]

\* A wrong insertion, which does not look at what it replaces.
InsertAlways(k, v) == [inserted |-> TRUE, store |-> Set(k, v)]

\* insert_if_absent: an expired record counts as absent.
InsertIfAbsent(k, v) ==
    IF Live(k) THEN [inserted |-> FALSE, store |-> store]
               ELSE [inserted |-> TRUE, store |-> Set(k, v)]

-----------------------------------------------------------------------------
(* Verification *)

\* verify_for_key and verify_value when the cache does not know the record: the
\* status list is the issuer's, any other record carries its own key.
Verifies(k, v) == IF k = StatusKey THEN v \in IssuerSigned ELSE v \in SelfSigned

\* A wrong rotation check, which takes the key from the new document.
RotationByNewKey(q, old) == q.auth = Owner[q.value] /\ q.value \in SelfSigned

\* handle_update_verification.
KeyRotation(q, old) == q.auth = Owner[old] /\ q.value \in SelfSigned

\* What a task must establish before it may change the store.
Authorised(q, old) ==
    CASE q.op \in {"store", "set"}     -> Verifies(q.key, q.value)
      [] q.op = "status"               -> q.value \in IssuerSigned
      [] q.op = "update"               -> KeyRotation(q, old)
      [] q.op = "put"                  -> IF q.key = StatusKey /\ q.auth = "none"
                                          THEN q.value \in IssuerSigned ELSE KeyRotation(q, old)
      [] q.op \in {"delete", "remove"} -> q.auth = Owner[old]

\* A wrong use of the cache, which remembers every outcome as a success.
RememberAll(v, ok) == cache' = IF HasCache THEN cache \cup {v} ELSE cache

\* insert_by_key, after a successful verification only.  The entry is the digest
\* of the record's bytes: it does not say for which key they were verified.
Remember(v, ok) == cache' = IF HasCache /\ ok THEN cache \cup {v} ELSE cache

\* Bookkeeping for the properties: the verifications that succeeded.
Proven(k, v, ok) == verified' = IF ok THEN verified \cup {<<k, v>>} ELSE verified

-----------------------------------------------------------------------------
(* Tasks *)

Init ==
    /\ store = [k \in Keys |-> Vacant] /\ cache = {}
    /\ tasks = [t \in Tasks |-> Idle]
    /\ strikes = [s \in Senders |-> 0]
    /\ history = [past |-> [k \in Keys |-> {}], lapsed |-> {}] /\ verified = {}

\* Bookkeeping for the properties: the records a key has held here, and the
\* keys that have lost a record to deletion or expiry.
Track ==
    history' =
      [past   |-> [k \in Keys |-> history.past[k] \cup ({store'[k].value} \ {NoRecord})],
       lapsed |-> history.lapsed \cup {k \in Keys : Live(k) /\ ~Live(k)'}]

Answer(ok) == IF ok THEN "yes" ELSE "no"

Goto(t, pc) == tasks' = [tasks EXCEPT ![t].pc = pc]

\* The task ends; "router" is what it asks of the routing table.
Finish(t, result, router) ==
    tasks' = [tasks EXCEPT ![t].pc = "done", ![t].result = result, ![t].router = router]

At(t, pc, ops) == tasks[t].pc = pc /\ tasks[t].req.op \in ops

\* The next step of a task once the verification of value v is due.
IfCached(v, known, unknown) == IF v \in cache THEN known ELSE unknown

\* "targets" is FALSE when the lookup of a set returned no nodes to store on.
Task(q, pc, old, result) ==
    [req |-> q, pc |-> pc, old |-> old, result |-> result, router |-> "none", targets |-> TRUE]

\* Where a local operation goes once the present record is found valid.
AfterValid(op) == IF op \in {"put", "remove"} THEN "verify" ELSE "done"

Unchanged == UNCHANGED <<store, cache, strikes, history, verified>>

\* rpc_store up to the await of verify_for_key.
BeginStore(t, q) ==
    /\ q.op = "store"
    /\ tasks' = [tasks EXCEPT ![t] = Task(q, IfCached(q.value, "commit", "verify"), NoRecord, NoRecord)]

\* rpc_update, rpc_update_status_list, rpc_delete up to their await.
BeginChange(t, q) ==
    /\ q.op \in {"update", "status", "delete"}
    /\ tasks' = [tasks EXCEPT ![t] =
          Task(q, IF Get(q.key) = NoRecord THEN "done" ELSE "verify", Get(q.key), Answer(FALSE))]

\* rpc_find_value.
BeginFind(t, q) ==
    /\ q.op = "find"
    /\ tasks' = [tasks EXCEPT ![t] = [Task(q, "done", NoRecord, Get(q.key)) EXCEPT !.router = "welcome"]]

\* get, set, update and delete of Server, up to their first await.
BeginLocal(t, q) ==
    LET present == Get(q.key) IN
    /\ q.op \in LocalOps
    /\ tasks' = [tasks EXCEPT ![t] =
          IF present = NoRecord THEN Task(q, "crawl", NoRecord, NoRecord)
          ELSE IF q.op = "set" THEN Task(q, "done", present, NoRecord)
          ELSE Task(q, IfCached(present, AfterValid(q.op), "check"), present, present)]

Begin(t, q) ==
    /\ tasks[t].pc = "idle"
    /\ BeginStore(t, q) \/ BeginChange(t, q) \/ BeginFind(t, q) \/ BeginLocal(t, q)
    /\ Unchanged

\* A set that found no valid record goes on to verify its own value.
VerifyOwn(t, nodes) ==
    tasks' = [tasks EXCEPT ![t].pc = IfCached(tasks[t].req.value, "commit", "verify"),
                           ![t].targets = nodes]

\* A lookup ends without a value; with no neighbours to start from, or none
\* that answers, it returns no nodes either.
CrawlMisses(t) ==
    /\ At(t, "crawl", LocalOps)
    /\ IF tasks[t].req.op = "set" THEN \E nodes \in BOOLEAN : VerifyOwn(t, nodes) ELSE Finish(t, NoRecord, "none")
    /\ Unchanged

\* A lookup ends with a value (external).
CrawlHits(t, v) ==
    /\ At(t, "crawl", LocalOps)
    /\ tasks' = [tasks EXCEPT ![t].old = v, ![t].result = IF tasks[t].req.op = "set" THEN NoRecord ELSE v,
          ![t].pc = IfCached(v, AfterValid(tasks[t].req.op), "check")]
    /\ Unchanged

\* verify_value of the present record returns.  A lookup that hit returns no
\* nodes, so that a set beyond an invalid record has none to store on.
Check(t) ==
    LET q == tasks[t].req  ok == Verifies(q.key, tasks[t].old) IN
    /\ At(t, "check", LocalOps)
    /\ Remember(tasks[t].old, ok) /\ Proven(q.key, tasks[t].old, ok)
    /\ IF ok THEN Goto(t, AfterValid(q.op))
       ELSE IF q.op = "set" THEN VerifyOwn(t, FALSE)
       ELSE Finish(t, NoRecord, "none")
    /\ UNCHANGED <<store, strikes, history>>

\* The verification a task awaits succeeds.
VerifyOk(t) ==
    LET q == tasks[t].req IN
    /\ tasks[t].pc = "verify" /\ Authorised(q, tasks[t].old)
    /\ IF q.op \in {"store", "set"} THEN Remember(q.value, TRUE) /\ Proven(q.key, q.value, TRUE)
                                    ELSE UNCHANGED <<cache, verified>>
    /\ Goto(t, "commit")
    /\ UNCHANGED <<store, strikes, history>>

Strike(s) == [strikes EXCEPT ![s] = @ + 1]

\* It fails; a sender of invalid records collects strikes.
VerifyFails(t) ==
    LET q == tasks[t].req IN
    /\ tasks[t].pc = "verify" /\ ~Authorised(q, tasks[t].old)
    /\ IF q.op \in {"store", "set"} THEN Remember(q.value, FALSE) ELSE UNCHANGED cache
    /\ strikes' = IF q.op = "store" THEN Strike(q.sender) ELSE strikes
    /\ Finish(t, IF q.op \in LocalOps THEN NoRecord ELSE Answer(FALSE),
              CASE q.op # "store"                       -> "none"
                [] strikes'[q.sender] >= BanThreshold   -> "remove"
                [] OTHER                                -> "welcome")
    /\ UNCHANGED <<store, history, verified>>

CommitStore(t) ==
    LET q == tasks[t].req  r == InsertIfAbsent(q.key, q.value) IN
    /\ At(t, "commit", {"store"})
    /\ store' = r.store
    /\ Finish(t, Answer(r.inserted), IF r.inserted THEN "welcome" ELSE "none")
    /\ Track /\ UNCHANGED <<cache, strikes, verified>>

CommitChange(t) ==
    LET q == tasks[t].req IN
    /\ At(t, "commit", {"update", "status", "delete"})
    /\ store' = IF q.op = "delete" THEN Delete(q.key) ELSE Set(q.key, q.value)
    /\ Finish(t, Answer(TRUE), "welcome")
    /\ Track /\ UNCHANGED <<cache, strikes, verified>>

\* set_digest and update_digest: with nodes to store on, this node keeps a copy
\* when it is closer than the farthest of them; they may or may not
\* acknowledge (external).
CommitLocal(t, near, acked) ==
    LET q == tasks[t].req IN
    /\ At(t, "commit", {"set", "put"})
    /\ near \/ acked => tasks[t].targets
    /\ store' = IF near THEN Set(q.key, q.value) ELSE store
    /\ Finish(t, Answer(acked), "none")
    /\ Track /\ UNCHANGED <<cache, strikes, verified>>

\* delete_digest.
CommitRemove(t) ==
    /\ At(t, "commit", {"remove"})
    /\ store' = Delete(tasks[t].req.key)
    /\ Finish(t, Answer(TRUE), "none")
    /\ Track /\ UNCHANGED <<cache, strikes, verified>>

Commit(t) ==
    CommitStore(t) \/ CommitChange(t) \/ CommitRemove(t)
        \/ \E near, acked \in BOOLEAN : CommitLocal(t, near, acked)

-----------------------------------------------------------------------------
(* Time *)

Tick ==
    /\ store' = [k \in Keys |-> IF store[k] = Vacant \/ store[k].age = MaxAge
                                THEN store[k] ELSE [store[k] EXCEPT !.age = @ + 1]]
    /\ store' # store
    /\ Track /\ UNCHANGED <<cache, tasks, strikes, verified>>

\* The cache forgets an entry: its hour is over, or it is full.
Evict(v) ==
    /\ v \in cache /\ cache' = cache \ {v}
    /\ UNCHANGED <<store, tasks, strikes, history, verified>>

Step(t) ==
    \/ CrawlMisses(t) \/ (\E v \in Records : CrawlHits(t, v))
    \/ Check(t) \/ VerifyOk(t) \/ VerifyFails(t) \/ Commit(t)

Next ==
    \/ \E t \in Tasks : (\E q \in Requests : Begin(t, q)) \/ Step(t)
    \/ Tick \/ (\E v \in Records : Evict(v))

Safety == Init /\ [][Next]_vars

-----------------------------------------------------------------------------
(* Properties *)

Signed == SelfSigned \cup IssuerSigned

\* This node has verified v for k or, with a cache, the same bytes for some key.
Accepted(k, v) == \E j \in Keys : <<j, v>> \in verified /\ (HasCache \/ j = k)

\* v was accepted for k, or an update that was authorised against the record it
\* found has put it there.
Vouched(k, v) ==
    \/ Accepted(k, v)
    \/ \E t \in Tasks :
          /\ At(t, "done", {"update", "status", "put"}) /\ tasks[t].old # NoRecord
          /\ tasks[t].req.key = k /\ tasks[t].req.value = v
          /\ Authorised(tasks[t].req, tasks[t].old)

\* No interleaving of handlers, local operations and cache lets a record through
\* that this node has not verified.  The cache holds what was verified under the
\* rule of some key.  A record stored, set, returned by get or changed by the
\* node itself was verified under the rule of its own key, or, with a cache,
\* under that of the key it was first met with.  A record held or answered to
\* find_value was so, or came with an authorised update (verify_for_key,
\* verify_value, SignatureCache).
OnlyVerifiedRecords ==
    /\ \A p \in verified : Verifies(p[1], p[2])
    /\ \A v \in cache : HasCache /\ \E j \in Keys : <<j, v>> \in verified
    /\ \A k \in Keys : store[k].value # NoRecord => Vouched(k, store[k].value)
    /\ \A t \in Tasks :
          /\ At(t, "commit", {"store", "set"}) => Accepted(tasks[t].req.key, tasks[t].req.value)
          /\ At(t, "commit", {"put", "remove"}) => Accepted(tasks[t].req.key, tasks[t].old)
          /\ At(t, "done", {"get"}) /\ tasks[t].result # NoRecord =>
                Accepted(tasks[t].req.key, tasks[t].result)
          /\ At(t, "done", {"find"}) /\ tasks[t].result # NoRecord =>
                Vouched(tasks[t].req.key, tasks[t].result)

\* Of all the stores of a key, in whatever order their verifications end, at
\* most one is answered with success unless the record was deleted or expired
\* in between (the atomic insert of rpc_store).
StoresExclusive ==
    \A t, u \in Tasks :
        /\ At(t, "done", {"store"}) /\ At(u, "done", {"store"}) /\ t # u
        /\ tasks[t].req.key = tasks[u].req.key /\ tasks[t].result = "yes" /\ tasks[u].result = "yes"
        => tasks[t].req.key \in history.lapsed

\* An update that reaches the store is signed with the key of a document that
\* this node has held under the same key, and no other way: even if
\* the record it was checked against is no longer the current one.
UpdateByAnOwner ==
    \A t \in Tasks : At(t, "commit", {"update"}) =>
        \E r \in history.past[tasks[t].req.key] : tasks[t].req.auth = Owner[r]

\* The node seen through KeyRegister: an expired record is no record, and a task
\* has its request open between its first await and its end.
Register == INSTANCE KeyRegister WITH
    NoRequest <- Idle,
    held <- [k \in Keys |-> Get(k)],
    past <- history.past,
    open <- [t \in Tasks |-> IF tasks[t].pc \in {"idle", "done"} THEN Idle ELSE tasks[t].req]

\* However the tasks of handlers and local operations interleave, each takes
\* effect in a single step, and only the step its request allows: a store
\* fills an empty key, an update or deletion by a peer is signed by the owner
\* of a document held here, and only the node's own set overwrites freely.
ImplementsRegister == Register!Spec
=============================================================================
