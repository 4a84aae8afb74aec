----------------------------- MODULE Replication -----------------------------
(***************************************************************************)
(* The copies of one key's record on several nodes, and the operations     *)
(* that create, spread, change and remove them: set, update, delete and    *)
(* get of Server and the republishing of its refresh loop                  *)
(* (src/src/network.rs), the value lookup (src/src/crawling.rs) and the    *)
(* handlers at the receiving end (src/src/protocol.rs).                    *)
(*                                                                         *)
(* An operation is cut at its awaits, and so are the handlers that await   *)
(* a verification between reading and writing.  A request may be lost or   *)
(* delivered at any later time; a call ends with or without the answer, so *)
(* a timeout may beat it.  Every record here has valid signatures; what    *)
(* RecordStore says of one node's invalid ones is not repeated.            *)
(***************************************************************************)
EXTENDS Integers, FiniteSets, FiniteSetsExt

CONSTANTS
    Nodes,           \* numbers: the order of the nodes' distances to the key
    Versions, None,  \* the key's records; the absence of one
    Newer(_, _),     \* whether the first record is a later rotation of the second
    Owner,           \* the public key in a record's DID document
    Clients, Home,   \* tasks that call Server, and the node each runs on
    Nobody,          \* the sender of the stores of refresh loops
    Gone,            \* the sender of a client's requests whose answer no longer matters
    MaxStray         \* bound: stores of refresh loops in flight to running nodes

Unasked == "unasked"

ASSUME ReplicationConstants ==
    /\ Nodes \subseteq Nat /\ None \notin Versions /\ Unasked \notin Versions /\ Home \in [Clients -> Nodes]
    /\ Nobody \notin Clients /\ Gone \notin Clients \cup {Nobody} /\ MaxStray \in Nat
    /\ \A v \in Versions : ~Newer(v, v) /\ ~Newer(None, v)

VARIABLES
    held,    \* the record in each node's storage
    up,      \* the nodes whose process runs
    net,     \* requests sent, and those a handler is verifying
    ops,     \* the operation of each client
    exits    \* how often a process may still end

rvars == <<held, up, net, ops, exits>>

Others(n) == Nodes \ {n}

NoCalls == [n \in Nodes |-> "none"]

Idle ==
    [pc |-> "idle", op |-> "none", ver |-> None, auth |-> "none",
     answers |-> [n \in Nodes |-> Unasked], calls |-> NoCalls, took |-> {},
     result |-> "none"]

\* A client whose result has been dealt with.
Ended == [Idle EXCEPT !.pc = "done"]

-----------------------------------------------------------------------------
(* Operations *)

\* "base" is the record that the handler of a request has verified it against.
Request(op, to, ver, auth, by) ==
    [op |-> op, to |-> to, ver |-> ver, auth |-> auth, by |-> by, phase |-> "sent", base |-> None]

Store(n, v, by) == Request("store", n, v, "none", by)

At(c, pc) == ops[c].pc = pc /\ Home[c] \in up

Done(c, result) == ops' = [ops EXCEPT ![c] = [Ended EXCEPT !.op = ops[c].op, !.ver = ops[c].ver,
                                                           !.took = ops[c].took, !.result = result]]

\* The requests in flight once none of these clients waits for them.
Orphan(clients) == {IF m.by \in clients THEN [m EXCEPT !.by = Gone] ELSE m : m \in net}

\* What an operation does with the record it finds: get returns it, set gives
\* up, update and delete check that they are signed with its owner's key.
Finds(c, q, v) ==
    [q EXCEPT !.pc = IF q.op \in {"update", "delete"} /\ q.auth = Owner[v] THEN q.op ELSE "done",
              !.result = IF q.op = "get" THEN v ELSE "none"]

\* The first step of get, set, update and delete: the node's own storage.
Begin(c, op, ver, auth) ==
    LET q == [Idle EXCEPT !.op = op, !.ver = ver, !.auth = auth]
        here == held[Home[c]] IN
    /\ Home[c] \in up /\ ops[c].pc \in {"idle", "done"}
    /\ ops' = [ops EXCEPT ![c] = IF here = None THEN [q EXCEPT !.pc = "crawl"] ELSE Finds(c, q, here)]
    /\ UNCHANGED <<held, up, net, exits>>

\* One peer of the value lookup answers; one that does not is never asked.
Ask(c, n) ==
    /\ At(c, "crawl") /\ n \in up \cap Others(Home[c]) /\ ops[c].answers[n] = Unasked
    /\ ops' = [ops EXCEPT ![c].answers[n] = held[n]]
    /\ UNCHANGED <<held, up, net, exits>>

AnsweredWith(c, v) == {n \in Nodes : ops[c].answers[n] = v}

\* The lookup hits: the record most peers returned, which is also stored on the
\* nearest peer that did not have it.
CrawlHits(c, v) ==
    LET without == AnsweredWith(c, None) IN
    /\ At(c, "crawl") /\ AnsweredWith(c, v) # {}
    /\ \A w \in Versions : Cardinality(AnsweredWith(c, w)) <= Cardinality(AnsweredWith(c, v))
    /\ ops' = [ops EXCEPT ![c] = [Finds(c, ops[c], v) EXCEPT !.answers = Idle.answers]]
    /\ net' = net \cup (IF without = {} THEN {} ELSE {Store(Min(without), v, Gone)})
    /\ UNCHANGED <<held, up, exits>>

\* The lookup misses: a set goes on to the peers that answered.
CrawlMisses(c) ==
    /\ At(c, "crawl") /\ \A v \in Versions : AnsweredWith(c, v) = {}
    /\ IF ops[c].op = "set" THEN ops' = [ops EXCEPT ![c].pc = "set"] ELSE Done(c, "none")
    /\ UNCHANGED <<held, up, net, exits>>

\* The requests go out to the nodes of a lookup, and the client waits.
Call(c, op, targets) ==
    /\ net' = net \cup {Request(op, n, ops[c].ver, ops[c].auth, c) : n \in targets}
    /\ ops' = [ops EXCEPT ![c].pc = "calls", ![c].answers = Idle.answers,
                          ![c].calls = [n \in Nodes |-> IF n \in targets THEN "out" ELSE "none"]]

\* set_digest and update_digest: without nodes nothing happens; otherwise this
\* node keeps a copy if it is closer than the farthest of them.
Write(c, op, targets) ==
    IF targets = {} THEN Done(c, "false") /\ UNCHANGED <<held, net>>
    ELSE /\ held' = IF Home[c] < Max(targets) THEN [held EXCEPT ![Home[c]] = ops[c].ver] ELSE held
         /\ Call(c, op, targets)

SetDigest(c) ==
    /\ At(c, "set") /\ Write(c, "store", AnsweredWith(c, None))
    /\ UNCHANGED <<up, exits>>

\* The nodes a lookup may return to client c: those that answer it.
Lookups(c) == SUBSET (up \cap Others(Home[c]))

UpdateDigest(c) ==
    /\ At(c, "update") /\ \E targets \in Lookups(c) : Write(c, "update", targets)
    /\ UNCHANGED <<up, exits>>

\* delete_digest removes the node's own copy before it looks for the others.
DeleteHere(c) ==
    /\ At(c, "delete")
    /\ held' = [held EXCEPT ![Home[c]] = None]
    /\ ops' = [ops EXCEPT ![c].pc = "spread"]
    /\ UNCHANGED <<up, net, exits>>

DeleteThere(c) ==
    /\ At(c, "spread")
    /\ \E targets \in Lookups(c) :
          IF targets = {} THEN Done(c, "true") /\ UNCHANGED net ELSE Call(c, "delete", targets)
    /\ UNCHANGED <<held, up, exits>>

\* join_all of the calls: of the peers that agreed some are heard in time.  A
\* delete succeeds whatever they say.
Return(c) ==
    /\ At(c, "calls")
    /\ \E heard \in SUBSET {n \in Nodes : ops[c].calls[n] = "yes"} :
          Done(c, IF heard # {} \/ ops[c].op = "delete" THEN "true" ELSE "false")
    /\ net' = Orphan({c})
    /\ UNCHANGED <<held, up, exits>>

-----------------------------------------------------------------------------
(* Handlers *)

\* The handler answers; nobody listens once the call has ended.  "took" records
\* for the properties that the node now holds the record, and that it did not
\* before unless an update wrote it again.
Reply(m, answer) ==
    LET put == held'[m.to] = m.ver /\ (held[m.to] # m.ver \/ m.phase = "checked") IN
    ops' = IF m.by \notin Clients THEN ops
           ELSE [ops EXCEPT ![m.by].calls[m.to] = answer,
                            ![m.by].took = IF put THEN @ \cup {m.to} ELSE @]

\* Wrong outcomes: an occupied node agrees, or takes the newcomer.
StoreAcksOccupied(n, v) == [held |-> IF held[n] = None THEN v ELSE held[n], answer |-> "yes"]
StoreOverwrites(n, v) == [held |-> v, answer |-> "yes"]

\* The outcome of a store on node n: the record held after it, and the answer.
StoreOutcome(n, v) ==
    IF held[n] = None THEN [held |-> v, answer |-> "yes"] ELSE [held |-> held[n], answer |-> "no"]

HandleStore(m) ==
    LET r == StoreOutcome(m.to, m.ver) IN
    /\ m \in net /\ m.op = "store" /\ m.to \in up
    /\ net' = net \ {m}
    /\ held' = [held EXCEPT ![m.to] = r.held]
    /\ Reply(m, r.answer)
    /\ UNCHANGED <<up, exits>>

\* A wrong check, which lets a request pass where there is no record.
CheckWithoutRecord(m) ==
    /\ UNCHANGED held
    /\ m \in net /\ m.op \in {"update", "delete"} /\ m.phase = "sent" /\ m.to \in up
    /\ IF held[m.to] = None \/ m.auth = Owner[held[m.to]]
       THEN net' = (net \ {m}) \cup {[m EXCEPT !.phase = "checked", !.base = held[m.to]]} /\ UNCHANGED ops
       ELSE net' = net \ {m} /\ Reply(m, "no")
    /\ UNCHANGED <<up, exits>>

\* rpc_update and rpc_delete read the record and verify the request against it.
CheckRequest(m) ==
    /\ UNCHANGED held
    /\ m \in net /\ m.op \in {"update", "delete"} /\ m.phase = "sent" /\ m.to \in up
    /\ IF held[m.to] # None /\ m.auth = Owner[held[m.to]]
       THEN net' = (net \ {m}) \cup {[m EXCEPT !.phase = "checked", !.base = held[m.to]]} /\ UNCHANGED ops
       ELSE net' = net \ {m} /\ Reply(m, "no")
    /\ UNCHANGED <<up, exits>>

\* The verification has succeeded; the record may have changed meanwhile.
CommitRequest(m) ==
    /\ m \in net /\ m.phase = "checked"
    /\ net' = net \ {m}
    /\ held' = [held EXCEPT ![m.to] = IF m.op = "delete" THEN None ELSE m.ver]
    /\ Reply(m, "yes")
    /\ UNCHANGED <<up, exits>>

Lose(m) ==
    /\ m \in net /\ m.phase = "sent"
    /\ net' = net \ {m}
    /\ UNCHANGED <<held, up, ops, exits>>

-----------------------------------------------------------------------------
(* The refresh loop and the processes *)

\* The part of a round that concerns the key: the record read at its start goes
\* to every node n2 found, in a call of its own.  (The replication of
\* welcome_if_new is, for the copies, a Republish to one node.)
Republish(n, n2) ==
    /\ n \in up /\ held[n] # None /\ n2 \in Others(n)
    /\ Cardinality({m \in net : m.by = Nobody /\ m.to \in up}) < MaxStray
    /\ net' = net \cup {Store(n2, held[n], Nobody)}
    /\ UNCHANGED <<held, up, ops, exits>>

Start(n) ==
    /\ n \notin up /\ up' = up \cup {n}
    /\ UNCHANGED <<held, net, ops, exits>>

\* The process ends, by a crash or after stop: storage is in memory.
Exit(n) ==
    /\ n \in up /\ exits > 0
    /\ up' = up \ {n} /\ exits' = exits - 1
    /\ held' = [held EXCEPT ![n] = None]
    /\ net' = {m \in Orphan({c \in Clients : Home[c] = n}) : ~(m.to = n /\ m.phase = "checked")}
    /\ ops' = [c \in Clients |-> IF Home[c] = n THEN Ended ELSE ops[c]]

Operate(c) ==
    \/ (\E n \in Nodes : Ask(c, n)) \/ (\E v \in Versions : CrawlHits(c, v)) \/ CrawlMisses(c)
    \/ SetDigest(c) \/ UpdateDigest(c) \/ DeleteHere(c) \/ DeleteThere(c) \/ Return(c)

Handle(m) == HandleStore(m) \/ CheckRequest(m) \/ CommitRequest(m)

Transport == \E m \in net : Handle(m) \/ Lose(m)

RefreshLoops == \E n, n2 \in Nodes : Republish(n, n2)
=============================================================================
