---------------------------- MODULE DhtNodeProofs ----------------------------
(***************************************************************************)
(* Proofs about DhtNode and the copies of Replication, for any nodes,      *)
(* records, clients and casts: what the result of a set or update says,    *)
(* who may put an older record back, and that a record that is gone stays  *)
(* gone.                                                                   *)
(***************************************************************************)
EXTENDS DhtNode, WellFoundedInduction, TLAPS

Records == Versions \cup {None}

\* What the clients without a program may ask for, and the keys that sign their
\* requests.
Changes == UNION {c.changes : c \in Casts}

Auths == {"none"} \cup {q.auth : q \in Changes}

OpStates ==
    [pc : {"idle", "crawl", "set", "update", "delete", "spread", "calls", "done"},
     op : {"none", "get", "set", "update", "delete"}, ver : Records, auth : Auths,
     answers : [Nodes -> Records \cup {Unasked}], calls : [Nodes -> {"none", "out", "yes", "no"}],
     took : SUBSET Nodes, result : Versions \cup {"none", "true", "false"}]

\* A yes among its calls, and a true as its result, stand for a node that took
\* the record of a set or an update.
Backed(q) ==
    q.op \in {"set", "update"} /\ (q.result = "true" \/ \E n \in Nodes : q.calls[n] = "yes") => q.took # {}

\* An operation is at a point of its own kind, with a record of its own kind.
InOrder(q) ==
    /\ q.pc = "set" => q.op = "set"
    /\ q.pc = "update" => q.op = "update"
    /\ q.pc \in {"delete", "spread"} => q.op = "delete"
    /\ q.pc = "calls" => q.op \in {"set", "update", "delete"}
    /\ q.op \in {"set", "update"} => q.ver \in Versions

SoundOps == {q \in OpStates : Backed(q) /\ InOrder(q)}

Requests ==
    [op : {"store", "update", "delete"}, to : Nodes, ver : Records, auth : Auths,
     by : Clients \cup {Nobody, Gone}, phase : {"sent", "checked"}, base : Records]

\* A store is never checked; what is, was signed by the owner of the record it
\* was checked against.
SoundRequests ==
    {m \in Requests : /\ m.op \in {"store", "update"} => m.ver \in Versions
                      /\ m.op = "store" => m.phase = "sent"
                      /\ m.phase = "checked" => m.auth = Owner[m.base]}

\* The request that an operation sends.
Wire(op) == IF op = "set" THEN "store" ELSE op

\* A request whose sender still listens is one of the sender's current operation.
Current(m, q) == q.pc = "calls" /\ m.op = Wire(q.op) /\ m.ver = q.ver

IInv ==
    /\ cast \in Casts
    /\ held \in [Nodes -> Records]
    /\ ops \in [Clients -> SoundOps]
    /\ net \subseteq SoundRequests
    /\ \A m \in net : m.by \in Clients => Current(m, ops[m.by])

-----------------------------------------------------------------------------
(* The constants *)

\* Min of a set of nodes is one of them.
LEMMA MinIsIn ==
    ASSUME NEW S \in SUBSET Nodes, S # {}
    PROVE  Min(S) \in S
<1>1. S \subseteq Nat
    BY ReplicationConstants
<1>2. PICK x \in S : \A y \in S : ~(<<y, x>> \in OpToRel(<, Nat))
    BY <1>1, WFMin, NatLessThanWellFounded, Zenon
<1>3. \A y \in S : ~(y < x)
    BY <1>1, <1>2, Zenon DEF OpToRel
<1>4. \A y \in S : x <= y
    BY <1>1, <1>3
<1> QED
    BY <1>4 DEF Min

-----------------------------------------------------------------------------
(* Steps *)

\* The operation of one client changes; requests that others wait for stay what
\* they are, and those of the client are of its operation.
LEMMA OperationStep ==
    ASSUME IInv, cast' = cast, held' \in [Nodes -> Records],
           NEW c \in Clients, NEW y \in SoundOps, ops' = [ops EXCEPT ![c] = y],
           net' \subseteq SoundRequests,
           \A m \in net' : /\ m.by \in Clients \ {c} => m \in net
                           /\ m.by = c => Current(m, y)
    PROVE  IInv'
<1>1. /\ ops' \in [Clients -> SoundOps] /\ ops'[c] = y
      /\ \A d \in Clients \ {c} : ops'[d] = ops[d]
    BY DEF IInv
<1>2. ASSUME NEW m \in net', m.by \in Clients PROVE Current(m, ops'[m.by])
  <2>1. CASE m.by = c
      BY <1>1, <2>1
  <2>2. CASE m.by # c
      BY <1>1, <1>2, <2>2 DEF IInv
  <2> QED
      BY <2>1, <2>2
<1> QED
    BY <1>1, <1>2 DEF IInv

\* The operations stay, and every request whose sender listens was there before,
\* in this or the other phase.
LEMMA NetworkStep ==
    ASSUME IInv, cast' = cast, held' \in [Nodes -> Records], ops' = ops,
           net' \subseteq SoundRequests,
           \A m \in net' : m.by \in Clients =>
               \E m0 \in net : m0.by = m.by /\ m0.op = m.op /\ m0.ver = m.ver
    PROVE  IInv'
    BY DEF IInv, Current

\* Nothing is in flight for an operation that waits for no calls.
LEMMA NotWaiting ==
    ASSUME IInv, NEW c \in Clients, ops[c].pc # "calls", NEW m \in net
    PROVE  m.by # c
    BY DEF IInv, Current

\* The fields of an operation's state.
LEMMA OpFields ==
    ASSUME NEW q \in SoundOps
    PROVE  /\ q \in OpStates /\ Backed(q) /\ InOrder(q)
           /\ q.op \in {"none", "get", "set", "update", "delete"} /\ q.ver \in Records
           /\ q.auth \in Auths /\ q.took \in SUBSET Nodes
           /\ q.answers \in [Nodes -> Records \cup {Unasked}]
           /\ q.calls \in [Nodes -> {"none", "out", "yes", "no"}]
    BY DEF SoundOps, OpStates

\* An operation that has not begun, or has ended, is sound.
LEMMA IdleSound == Idle \in SoundOps /\ Ended \in SoundOps
<1>1. Idle \in OpStates
    BY DEF Idle, OpStates, NoCalls, Records, Auths, Unasked
<1>2. Backed(Idle) /\ InOrder(Idle)
    BY DEF Idle, Backed, InOrder
<1>3. Ended \in OpStates /\ Ended.op = "none" /\ Ended.pc = "done"
    BY <1>1 DEF Ended, OpStates, Idle
<1>4. Backed(Ended) /\ InOrder(Ended)
    BY <1>3 DEF Backed, InOrder
<1> QED
    BY <1>1, <1>2, <1>3, <1>4 DEF SoundOps

\* An operation whose crawl finds a version stays sound.
LEMMA FindsSound ==
    ASSUME NEW c, NEW q \in SoundOps, NEW v \in Versions
    PROVE  /\ Finds(c, q, v) \in SoundOps
           /\ Finds(c, q, v).pc # "calls"
<1> DEFINE p == IF q.op \in {"update", "delete"} /\ q.auth = Owner[v] THEN q.op ELSE "done"
           r == IF q.op = "get" THEN v ELSE "none"
           y == [q EXCEPT !.pc = p, !.result = r]
<1>1. p \in {"update", "delete", "done"} /\ (p # "done" => p = q.op)
    OBVIOUS
<1>2. r \in Versions \cup {"none"} /\ (q.op # "get" => r = "none")
    OBVIOUS
<1>3. Finds(c, q, v) = y
    BY DEF Finds
<1> HIDE DEF p, r
<1>4. /\ y \in OpStates /\ y.pc = p /\ y.result = r /\ y.op = q.op /\ y.ver = q.ver
      /\ y.calls = q.calls /\ y.took = q.took
    BY <1>1, <1>2, OpFields, Zenon DEF OpStates
<1> HIDE DEF y
<1>5. Backed(y)
    BY <1>2, <1>4, OpFields DEF Backed
<1>6. InOrder(y)
    BY <1>1, <1>4, OpFields DEF InOrder
<1> QED
    BY <1>1, <1>3, <1>4, <1>5, <1>6 DEF SoundOps

\* An operation begins.
LEMMA BeginSound ==
    ASSUME IInv, cast' = cast, NEW c \in Clients,
           NEW op \in {"get", "set", "update", "delete"}, NEW ver \in Records, NEW auth \in Auths,
           op \in {"set", "update"} => ver \in Versions,
           Begin(c, op, ver, auth)
    PROVE  IInv'
<1> DEFINE q == [Idle EXCEPT !.op = op, !.ver = ver, !.auth = auth]
           here == held[Home[c]]
           y == IF here = None THEN [q EXCEPT !.pc = "crawl"] ELSE Finds(c, q, here)
<1>1. /\ ops' = [ops EXCEPT ![c] = y] /\ ops[c].pc \in {"idle", "done"}
      /\ UNCHANGED <<held, net>>
    BY DEF Begin
<1>2. here \in Records
    BY ReplicationConstants, Zenon DEF IInv
<1>3. /\ q \in OpStates /\ q.op = op /\ q.ver = ver /\ q.result = "none" /\ q.calls = NoCalls
      /\ q.pc = "idle"
    BY Zenon DEF Idle, OpStates, NoCalls, Records, Unasked
<1>4. \A n \in Nodes : NoCalls[n] = "none"
    BY DEF NoCalls
<1> HIDE DEF q, here
<1>5. q \in SoundOps
    BY <1>3, <1>4 DEF SoundOps, Backed, InOrder
<1>6. [q EXCEPT !.pc = "crawl"] \in SoundOps
  <2> DEFINE z == [q EXCEPT !.pc = "crawl"]
  <2>1. z \in OpStates /\ z.pc = "crawl" /\ z.op = op /\ z.ver = ver /\ z.result = "none" /\ z.calls = NoCalls
      BY <1>3 DEF OpStates
  <2> HIDE DEF z
  <2>2. z \in SoundOps
      BY <1>4, <2>1 DEF SoundOps, Backed, InOrder
  <2> QED
      BY <2>2 DEF z
<1>7. y \in SoundOps
    BY <1>2, <1>5, <1>6, FindsSound DEF Records
<1> HIDE DEF y
<1>8. \A m \in net' : m.by # c /\ m \in net
    BY <1>1, NotWaiting
<1> QED
    BY <1>1, <1>7, <1>8, OperationStep DEF IInv

\* A client's result is dropped.
LEMMA ForgetSound ==
    ASSUME IInv, cast' = cast, NEW c \in Clients, ops[c].pc = "done", Forget(c)
    PROVE  IInv'
<1>1. ops' = [ops EXCEPT ![c] = Ended] /\ UNCHANGED <<held, net>>
    BY DEF Forget
<1>2. \A m \in net' : m.by # c /\ m \in net
    BY <1>1, NotWaiting
<1> QED
    BY <1>1, <1>2, IdleSound, OperationStep DEF IInv

\* Done: the state in which an operation returns.
LEMMA DoneSound ==
    ASSUME NEW q \in SoundOps, NEW r \in {"none", "true", "false"},
           q.op \in {"set", "update"} /\ r = "true" => q.took # {}
    PROVE  [Ended EXCEPT !.op = q.op, !.ver = q.ver, !.took = q.took, !.result = r] \in SoundOps
<1> DEFINE y == [Ended EXCEPT !.op = q.op, !.ver = q.ver, !.took = q.took, !.result = r]
<1>1. Ended \in OpStates /\ Ended.calls = NoCalls /\ Ended.pc = "done"
    BY IdleSound DEF SoundOps, Ended, Idle
<1>2. /\ y \in OpStates /\ y.op = q.op /\ y.ver = q.ver /\ y.took = q.took /\ y.result = r
      /\ y.calls = NoCalls /\ y.pc = "done"
    BY <1>1, OpFields, Zenon DEF OpStates
<1>3. \A n \in Nodes : NoCalls[n] = "none"
    BY DEF NoCalls
<1> HIDE DEF y
<1>4. Backed(y) /\ InOrder(y)
    BY <1>2, <1>3, OpFields DEF Backed, InOrder
<1>5. y \in SoundOps
    BY <1>2, <1>4 DEF SoundOps
<1> QED
    BY <1>5 DEF y

\* A crawl asks the replicas.
LEMMA AskSound ==
    ASSUME IInv, cast' = cast, NEW c \in Clients, NEW n \in Nodes, Ask(c, n)
    PROVE  IInv'
<1>1. PICK q \in SoundOps : q = ops[c]
    BY DEF IInv
<1> DEFINE y == [q EXCEPT !.answers[n] = held[n]]
<1>2. ops[c].pc = "crawl" /\ ops' = [ops EXCEPT ![c] = y] /\ UNCHANGED <<held, net>>
    BY <1>1 DEF Ask, At
<1>3. held[n] \in Records
    BY DEF IInv
<1>4. /\ y \in OpStates /\ y.pc = q.pc /\ y.op = q.op /\ y.ver = q.ver /\ y.took = q.took
      /\ y.result = q.result /\ y.calls = q.calls
    BY <1>3, OpFields DEF OpStates
<1> HIDE DEF y
<1>5. y \in SoundOps
    BY <1>4, OpFields DEF SoundOps, Backed, InOrder
<1>6. \A m \in net' : m.by # c /\ m \in net
    BY <1>2, NotWaiting
<1> QED
    BY <1>2, <1>5, <1>6, OperationStep DEF IInv

\* A crawl finds the record.
LEMMA CrawlHitsSound ==
    ASSUME IInv, cast' = cast, NEW c \in Clients, NEW v \in Versions, CrawlHits(c, v)
    PROVE  IInv'
<1>1. PICK q \in SoundOps : q = ops[c]
    BY DEF IInv
<1> DEFINE f == Finds(c, q, v)
           y == [f EXCEPT !.answers = Idle.answers]
           without == AnsweredWith(c, None)
           cached == IF without = {} THEN {} ELSE {Store(Min(without), v, Gone)}
<1>2. /\ ops[c].pc = "crawl" /\ ops' = [ops EXCEPT ![c] = y] /\ UNCHANGED held
      /\ net' = net \cup cached
    BY <1>1 DEF CrawlHits, At
<1>3. f \in SoundOps
    BY FindsSound
<1>4. Idle.answers \in [Nodes -> Records \cup {Unasked}]
    BY DEF Idle
<1> HIDE DEF f
<1>5. /\ y \in OpStates /\ y.pc = f.pc /\ y.op = f.op /\ y.ver = f.ver /\ y.took = f.took
      /\ y.result = f.result /\ y.calls = f.calls
    BY <1>3, <1>4, OpFields DEF OpStates
<1> HIDE DEF y
<1>6. y \in SoundOps
    BY <1>3, <1>5, OpFields DEF SoundOps, Backed, InOrder
<1>7. \A m \in cached : m \in SoundRequests /\ m.by = Gone
  <2>1. without \in SUBSET Nodes
      BY DEF AnsweredWith
  <2> HIDE DEF without
  <2>2. without # {} => Min(without) \in Nodes
      BY <2>1, MinIsIn
  <2> QED
      BY <2>2 DEF Store, Request, SoundRequests, Requests, Records, Auths
<1> HIDE DEF cached
<1>8. \A m \in net' : m.by \in Clients => m.by # c /\ m \in net
    BY <1>2, <1>7, NotWaiting, ReplicationConstants
<1>9. net' \subseteq SoundRequests
    BY <1>2, <1>7 DEF IInv
<1> QED
    BY <1>2, <1>6, <1>8, <1>9, OperationStep DEF IInv

\* A crawl finds nothing.
LEMMA CrawlMissesSound ==
    ASSUME IInv, cast' = cast, NEW c \in Clients, CrawlMisses(c)
    PROVE  IInv'
<1>1. PICK q \in SoundOps : q = ops[c]
    BY DEF IInv
<1>2. ops[c].pc = "crawl" /\ UNCHANGED <<held, net>>
    BY DEF CrawlMisses, At
<1>3. \A m \in net' : m.by # c /\ m \in net
    BY <1>2, NotWaiting
<1>4. \E y \in SoundOps : ops' = [ops EXCEPT ![c] = y]
  <2>1. CASE q.op = "set"
    <3> DEFINE y == [q EXCEPT !.pc = "set"]
    <3>1. /\ y \in OpStates /\ y.pc = "set" /\ y.op = q.op /\ y.ver = q.ver /\ y.took = q.took
          /\ y.result = q.result /\ y.calls = q.calls
        BY OpFields DEF OpStates
    <3>2. ops' = [ops EXCEPT ![c] = y]
        BY <1>1, <2>1 DEF CrawlMisses
    <3> HIDE DEF y
    <3>3. y \in SoundOps
        BY <2>1, <3>1, OpFields DEF SoundOps, Backed, InOrder
    <3> QED
        BY <3>2, <3>3, Zenon
  <2>2. CASE q.op # "set"
      BY <1>1, <2>2, DoneSound, Zenon DEF CrawlMisses, Done
  <2> QED
      BY <2>1, <2>2
<1> QED
    BY <1>2, <1>3, <1>4, OperationStep DEF IInv

\* The requests of an operation go out.
LEMMA CallSound ==
    ASSUME IInv, cast' = cast, held' \in [Nodes -> Records], NEW c \in Clients,
           ops[c].pc \in {"set", "update", "spread"}, NEW targets \in SUBSET Nodes,
           Call(c, Wire(ops[c].op), targets)
    PROVE  IInv'
<1>1. PICK q \in SoundOps : q = ops[c]
    BY DEF IInv
<1> DEFINE out == [n \in Nodes |-> IF n \in targets THEN "out" ELSE "none"]
           y == [q EXCEPT !.pc = "calls", !.answers = Idle.answers, !.calls = out]
           sent == {Request(Wire(q.op), n, q.ver, q.auth, c) : n \in targets}
<1>2. ops' = [ops EXCEPT ![c] = y] /\ net' = net \cup sent
    BY <1>1, Zenon DEF Call
<1>3. Idle.answers \in [Nodes -> Records \cup {Unasked}]
    BY DEF Idle
<1>4. out \in [Nodes -> {"none", "out", "yes", "no"}] /\ \A n \in Nodes : out[n] # "yes"
    OBVIOUS
<1> HIDE DEF out
<1>5. /\ y \in OpStates /\ y.pc = "calls" /\ y.op = q.op /\ y.ver = q.ver /\ y.took = q.took
      /\ y.result = q.result /\ y.calls = out
  <2>1. q \in OpStates
      BY OpFields, Zenon
  <2>2. y \in OpStates
      BY <1>3, <1>4, <2>1, Zenon DEF OpStates
  <2>3. y.pc = "calls" /\ y.op = q.op /\ y.ver = q.ver
      BY <2>1, Zenon DEF OpStates
  <2>4. y.took = q.took /\ y.result = q.result /\ y.calls = out
      BY <2>1, Zenon DEF OpStates
  <2> QED
      BY <2>2, <2>3, <2>4, Zenon
<1> HIDE DEF y
<1>6. q.op \in {"set", "update", "delete"}
    BY <1>1, OpFields DEF InOrder
<1>7. y \in SoundOps
    BY <1>4, <1>5, <1>6, OpFields DEF SoundOps, Backed, InOrder
<1>8. ASSUME NEW m \in sent PROVE m \in SoundRequests /\ m.by = c /\ Current(m, y)
  <2>1. PICK n \in targets : m = Request(Wire(q.op), n, q.ver, q.auth, c)
      BY <1>8
  <2>2. Wire(q.op) \in {"store", "update", "delete"}
        /\ (Wire(q.op) = "store" <=> q.op = "set") /\ (Wire(q.op) = "update" <=> q.op = "update")
      BY <1>6 DEF Wire
  <2>3. /\ m.op = Wire(q.op) /\ m.to = n /\ m.ver = q.ver /\ m.auth = q.auth /\ m.by = c /\ m.phase = "sent"
        /\ m \in Requests
      BY <2>1, <2>2, OpFields DEF Request, Requests, Records
  <2>4. m \in SoundRequests
      BY <2>2, <2>3, OpFields DEF SoundRequests, InOrder
  <2> QED
      BY <1>5, <2>3, <2>4 DEF Current
<1> HIDE DEF sent
<1>9. net' \subseteq SoundRequests
    BY <1>2, <1>8 DEF IInv
<1>10. \A m \in net' : /\ m.by \in Clients \ {c} => m \in net
                       /\ m.by = c => Current(m, y)
    BY <1>2, <1>8, NotWaiting
<1> QED
    BY <1>2, <1>7, <1>9, <1>10, OperationStep, Zenon

\* set_digest and update_digest.
LEMMA WriteSound ==
    ASSUME IInv, cast' = cast, NEW c \in Clients,
           ops[c].pc \in {"set", "update"}, NEW targets \in SUBSET Nodes,
           Write(c, Wire(ops[c].op), targets)
    PROVE  IInv'
<1>1. PICK q \in SoundOps : q = ops[c]
    BY DEF IInv
<1>2. CASE targets = {}
  <2>1. ops' = [ops EXCEPT ![c] = [Ended EXCEPT !.op = q.op, !.ver = q.ver, !.took = q.took, !.result = "false"]]
        /\ UNCHANGED <<held, net>>
      BY <1>1, <1>2 DEF Write, Done
  <2>2. \A m \in net' : m.by # c /\ m \in net
      BY <2>1, NotWaiting
  <2> QED
      BY <2>1, <2>2, DoneSound, OperationStep, ZenonT(40) DEF IInv
<1>3. CASE targets # {}
  <2>1. held' \in [Nodes -> Records] /\ Call(c, Wire(ops[c].op), targets)
      BY <1>1, <1>3, OpFields, ReplicationConstants, Zenon DEF Write, IInv
  <2> QED
      BY <2>1, CallSound
<1> QED
    BY <1>2, <1>3

\* set_digest sends its store requests.
LEMMA SetDigestSound ==
    ASSUME IInv, cast' = cast, NEW c \in Clients, SetDigest(c)
    PROVE  IInv'
<1>1. ops[c].pc = "set" /\ Write(c, "store", AnsweredWith(c, None))
    BY DEF SetDigest, At
<1>2. ops[c].op = "set"
    BY <1>1, OpFields DEF IInv, InOrder
<1>3. AnsweredWith(c, None) \in SUBSET Nodes
    BY DEF AnsweredWith
<1> QED
    BY <1>1, <1>2, <1>3, WriteSound, Zenon DEF Wire

\* update_digest sends its update requests.
LEMMA UpdateDigestSound ==
    ASSUME IInv, cast' = cast, NEW c \in Clients, UpdateDigest(c)
    PROVE  IInv'
<1>1. PICK targets \in Lookups(c) : ops[c].pc = "update" /\ Write(c, "update", targets)
    BY DEF UpdateDigest, At
<1>2. ops[c].op = "update"
    BY <1>1, OpFields DEF IInv, InOrder
<1>3. targets \in SUBSET Nodes
    BY DEF Lookups, Others
<1> QED
    BY <1>1, <1>2, <1>3, WriteSound DEF Wire

\* delete_digest deletes the record of this node.
LEMMA DeleteHereSound ==
    ASSUME IInv, cast' = cast, NEW c \in Clients, DeleteHere(c)
    PROVE  IInv'
<1>1. PICK q \in SoundOps : q = ops[c]
    BY DEF IInv
<1> DEFINE y == [q EXCEPT !.pc = "spread"]
<1>2. /\ ops[c].pc = "delete" /\ ops' = [ops EXCEPT ![c] = y] /\ net' = net
      /\ held' = [held EXCEPT ![Home[c]] = None]
    BY <1>1 DEF DeleteHere, At
<1>3. held' \in [Nodes -> Records]
    BY <1>2, Zenon DEF IInv, Records
<1>4. /\ y \in OpStates /\ y.pc = "spread" /\ y.op = q.op /\ y.ver = q.ver /\ y.took = q.took
      /\ y.result = q.result /\ y.calls = q.calls
    BY OpFields DEF OpStates
<1> HIDE DEF y
<1>5. y \in SoundOps
    BY <1>1, <1>2, <1>4, OpFields DEF SoundOps, Backed, InOrder
<1>6. \A m \in net' : m.by # c /\ m \in net
    BY <1>2, NotWaiting
<1> QED
    BY <1>2, <1>3, <1>5, <1>6, OperationStep DEF IInv

\* And asks the replicas to delete theirs.
LEMMA DeleteThereSound ==
    ASSUME IInv, cast' = cast, NEW c \in Clients, DeleteThere(c)
    PROVE  IInv'
<1>1. PICK q \in SoundOps : q = ops[c]
    BY DEF IInv
<1>2. PICK targets \in Lookups(c) :
          IF targets = {} THEN Done(c, "true") /\ UNCHANGED net ELSE Call(c, "delete", targets)
    BY DEF DeleteThere
<1>3. ops[c].pc = "spread" /\ held' = held
    BY DEF DeleteThere, At
<1>4. ops[c].op = "delete"
    BY <1>1, <1>3, OpFields DEF InOrder
<1>5. CASE targets = {}
  <2>1. ops' = [ops EXCEPT ![c] = [Ended EXCEPT !.op = q.op, !.ver = q.ver, !.took = q.took, !.result = "true"]]
        /\ net' = net
      BY <1>1, <1>2, <1>5 DEF Done
  <2>2. \A m \in net' : m.by # c /\ m \in net
      BY <1>3, <2>1, NotWaiting
  <2> QED
      BY <1>1, <1>3, <1>4, <2>1, <2>2, DoneSound, OperationStep, ZenonT(40) DEF IInv
<1>6. CASE targets # {}
  <2>1. targets \in SUBSET Nodes /\ Call(c, Wire(ops[c].op), targets)
      BY <1>2, <1>4, <1>6 DEF Lookups, Others, Wire
  <2> QED
      BY <1>3, <2>1, CallSound, Zenon DEF IInv
<1> QED
    BY <1>5, <1>6

\* A request that nobody waits for any more is a sound request all the same.
LEMMA OrphanSound ==
    ASSUME IInv, NEW clients \in SUBSET Clients, NEW m \in Orphan(clients)
    PROVE  m \in SoundRequests /\ (m.by \in Clients => m.by \notin clients /\ m \in net)
<1>1. PICK m0 \in net : m = IF m0.by \in clients THEN [m0 EXCEPT !.by = Gone] ELSE m0
    BY DEF Orphan
<1>2. m0 \in SoundRequests
    BY DEF IInv
<1>3. CASE m0.by \in clients
  <2>1. /\ m \in Requests /\ m.by = Gone /\ m.op = m0.op /\ m.ver = m0.ver /\ m.phase = m0.phase
        /\ m.auth = m0.auth /\ m.base = m0.base
      BY <1>1, <1>2, <1>3 DEF SoundRequests, Requests
  <2> QED
      BY <1>2, <2>1, ReplicationConstants DEF SoundRequests
<1> QED
    BY <1>1, <1>2, <1>3

\* An operation returns.
LEMMA ReturnSound ==
    ASSUME IInv, cast' = cast, NEW c \in Clients, Return(c)
    PROVE  IInv'
<1>1. PICK q \in SoundOps : q = ops[c]
    BY DEF IInv
<1>2. PICK heard \in SUBSET {n \in Nodes : q.calls[n] = "yes"} :
          Done(c, IF heard # {} \/ q.op = "delete" THEN "true" ELSE "false")
    BY <1>1 DEF Return
<1>3. PICK r \in {"none", "true", "false"} : r = IF heard # {} \/ q.op = "delete" THEN "true" ELSE "false"
    OBVIOUS
<1>4. q.op \in {"set", "update"} /\ r = "true" => q.took # {}
    BY <1>2, <1>3, OpFields DEF Backed
<1>5. ops' = [ops EXCEPT ![c] = [Ended EXCEPT !.op = q.op, !.ver = q.ver, !.took = q.took, !.result = r]]
    BY <1>1, <1>2, <1>3 DEF Done
<1>6. held' = held /\ net' = Orphan({c})
    BY DEF Return
<1>7. net' \subseteq SoundRequests /\ \A m \in net' : m.by \in Clients => m.by # c /\ m \in net
    BY <1>6, OrphanSound
<1> QED
    BY <1>4, <1>5, <1>6, <1>7, DoneSound, OperationStep, ZenonT(40) DEF IInv

-----------------------------------------------------------------------------
(* Handlers *)

\* A handler of m answers; if it says yes to a store or an update, the node has
\* the record of it and did not have it before, or wrote it again.
LEMMA ReplySound ==
    ASSUME IInv, cast' = cast, NEW m \in net, NEW answer \in {"yes", "no"},
           held' \in [Nodes -> Records], net' \subseteq net \ {m}, Reply(m, answer),
           answer = "yes" /\ m.op # "delete" =>
               held'[m.to] = m.ver /\ (held[m.to] # m.ver \/ m.phase = "checked")
    PROVE  IInv'
<1>1. m \in SoundRequests /\ m.to \in Nodes /\ net' \subseteq SoundRequests
    BY DEF IInv, SoundRequests, Requests
<1>2. CASE m.by \notin Clients
  <2>1. ops' = ops
      BY <1>2 DEF Reply
  <2> QED
      BY <1>1, <2>1, NetworkStep
<1>3. CASE m.by \in Clients
  <2>1. PICK c \in Clients : c = m.by
      BY <1>3
  <2>2. PICK q \in SoundOps : q = ops[c]
      BY DEF IInv
  <2>3. q.pc = "calls" /\ m.op = Wire(q.op) /\ m.ver = q.ver
      BY <2>1, <2>2 DEF IInv, Current
  <2> DEFINE put == held'[m.to] = m.ver /\ (held[m.to] # m.ver \/ m.phase = "checked")
             t == IF put THEN q.took \cup {m.to} ELSE q.took
             y == [q EXCEPT !.calls[m.to] = answer, !.took = t]
  <2>4. ops' = [ops EXCEPT ![c] = y]
      BY <1>3, <2>1, <2>2, Zenon DEF Reply
  <2>5. t \in SUBSET Nodes /\ q.took \subseteq t /\ (put => t # {})
    <3>1. q.took \in SUBSET Nodes /\ m.to \in Nodes
        BY <1>1, OpFields, Zenon
    <3> QED
        BY <3>1, Zenon
  <2>6. answer = "yes" /\ m.op # "delete" => put
      OBVIOUS
  <2> HIDE DEF put, t
  <2>7. /\ y \in OpStates /\ y.pc = q.pc /\ y.op = q.op /\ y.ver = q.ver /\ y.took = t
        /\ y.result = q.result /\ y.calls = [q.calls EXCEPT ![m.to] = answer]
    <3>1. q \in OpStates /\ q.calls \in [Nodes -> {"none", "out", "yes", "no"}]
        BY <1>1, OpFields, Zenon
    <3>2. y.pc = q.pc /\ y.op = q.op /\ y.ver = q.ver
        BY <3>1, Zenon DEF OpStates
    <3>3. y.took = t /\ y.result = q.result
        BY <3>1, Zenon DEF OpStates
    <3>4. y.calls = [q.calls EXCEPT ![m.to] = answer]
        BY <3>1, Zenon DEF OpStates
    <3>5. y \in OpStates
        BY <1>1, <2>5, <3>1, Zenon DEF OpStates
    <3> QED
        BY <3>2, <3>3, <3>4, <3>5, Zenon
  <2> HIDE DEF y
  <2>8. Backed(y)
    <3> SUFFICES ASSUME q.op \in {"set", "update"}, q.result = "true" \/ \E n \in Nodes : y.calls[n] = "yes"
                 PROVE  t # {}
        BY <2>7 DEF Backed
    <3>1. CASE answer = "yes"
        BY <2>3, <2>5, <2>6, <3>1 DEF Wire
    <3>2. CASE answer # "yes"
      <4>1. q.result = "true" \/ \E n \in Nodes : q.calls[n] = "yes"
          BY <1>1, <2>7, <3>2, OpFields
      <4> QED
          BY <2>5, <4>1, OpFields DEF Backed
    <3> QED
        BY <3>1, <3>2
  <2>9. InOrder(y)
      BY <2>7, OpFields DEF InOrder
  <2>10. y \in SoundOps
      BY <2>7, <2>8, <2>9 DEF SoundOps
  <2>11. \A mm \in net' : /\ mm.by \in Clients \ {c} => mm \in net
                          /\ mm.by = c => Current(mm, y)
      BY <2>2, <2>7 DEF IInv, Current
  <2> QED
      BY <1>1, <2>4, <2>10, <2>11, OperationStep, Zenon
<1> QED
    BY <1>2, <1>3

\* A replica handles a store request.
LEMMA HandleStoreSound ==
    ASSUME IInv, cast' = cast, NEW m \in net, HandleStore(m)
    PROVE  IInv'
<1>1. PICK r : r = StoreOutcome(m.to, m.ver)
    OBVIOUS
<1>2. /\ m.op = "store" /\ net' = net \ {m} /\ held' = [held EXCEPT ![m.to] = r.held] /\ Reply(m, r.answer)
    BY <1>1 DEF HandleStore
<1>3. m.ver \in Versions /\ m.to \in Nodes
    BY <1>2 DEF IInv, SoundRequests, Requests
<1>4. held[m.to] \in Records
    BY <1>3 DEF IInv
<1>5. /\ r.held \in Records /\ r.answer \in {"yes", "no"}
      /\ r.answer = "yes" => r.held = m.ver /\ held[m.to] = None
    BY <1>1, <1>3, <1>4 DEF StoreOutcome, Records
<1>6. held' \in [Nodes -> Records] /\ held'[m.to] = r.held
    BY <1>2, <1>3, <1>5 DEF IInv
<1>7. net' \subseteq net \ {m}
    BY <1>2
<1>8. r.answer = "yes" => held'[m.to] = m.ver /\ held[m.to] # m.ver
    BY <1>3, <1>5, <1>6, ReplicationConstants
<1> QED
    BY <1>2, <1>5, <1>6, <1>7, <1>8, ReplySound

\* A replica checks an update or a deletion.
LEMMA CheckRequestSound ==
    ASSUME IInv, cast' = cast, NEW m \in net, CheckRequest(m)
    PROVE  IInv'
<1>1. m \in SoundRequests /\ m.op \in {"update", "delete"} /\ held' = held
    BY DEF CheckRequest, IInv
<1>2. CASE held[m.to] # None /\ m.auth = Owner[held[m.to]]
  <2> DEFINE k == [m EXCEPT !.phase = "checked", !.base = held[m.to]]
  <2>1. /\ k \in Requests /\ k.by = m.by /\ k.op = m.op /\ k.ver = m.ver
        /\ k.auth = m.auth /\ k.base = held[m.to]
      BY <1>1 DEF SoundRequests, Requests, IInv
  <2>2. net' = (net \ {m}) \cup {k} /\ ops' = ops
      BY <1>2 DEF CheckRequest
  <2> HIDE DEF k
  <2>3. k \in SoundRequests
      BY <1>1, <1>2, <2>1 DEF SoundRequests
  <2>4. net' \subseteq SoundRequests
      BY <2>2, <2>3 DEF IInv
  <2>5. \A mm \in net' : mm.by \in Clients => \E m0 \in net : m0.by = mm.by /\ m0.op = mm.op /\ m0.ver = mm.ver
      BY <2>1, <2>2
  <2> QED
      BY <1>1, <2>2, <2>4, <2>5, NetworkStep DEF IInv
<1>3. CASE ~(held[m.to] # None /\ m.auth = Owner[held[m.to]])
  <2>1. net' \subseteq net \ {m} /\ Reply(m, "no")
      BY <1>3 DEF CheckRequest
  <2> QED
      BY <1>1, <2>1, ReplySound DEF IInv
<1> QED
    BY <1>2, <1>3

\* And applies it, or not.
LEMMA CommitRequestSound ==
    ASSUME IInv, cast' = cast, NEW m \in net, CommitRequest(m)
    PROVE  IInv'
<1>1. /\ m.phase = "checked" /\ net' \subseteq net \ {m} /\ Reply(m, "yes")
      /\ held' = [held EXCEPT ![m.to] = IF m.op = "delete" THEN None ELSE m.ver]
    BY DEF CommitRequest
<1>2. m.ver \in Records /\ m.to \in Nodes
    BY DEF IInv, SoundRequests, Requests
<1>3. held' \in [Nodes -> Records] /\ (m.op # "delete" => held'[m.to] = m.ver)
    BY <1>1, <1>2 DEF IInv, Records
<1> QED
    BY <1>1, <1>3, ReplySound

\* A request is lost.
LEMMA LoseSound ==
    ASSUME IInv, cast' = cast, NEW m \in net, Lose(m)
    PROVE  IInv'
<1>1. net' \subseteq net /\ held' = held /\ ops' = ops
    BY DEF Lose
<1> QED
    BY <1>1, NetworkStep DEF IInv

\* A replica republishes what it holds.
LEMMA RepublishSound ==
    ASSUME IInv, cast' = cast, NEW n \in Nodes, NEW n2 \in Nodes, Republish(n, n2)
    PROVE  IInv'
<1> DEFINE m == Store(n2, held[n], Nobody)
<1>1. held' = held /\ ops' = ops /\ net' = net \cup {m} /\ held[n] \in Versions
    BY DEF Republish, IInv, Records
<1>2. m \in SoundRequests /\ m.by = Nobody
    BY <1>1 DEF Store, Request, SoundRequests, Requests, Records, Auths
<1> HIDE DEF m
<1>3. net' \subseteq SoundRequests /\ \A mm \in net' : mm.by \in Clients => mm \in net
    BY <1>1, <1>2, ReplicationConstants DEF IInv
<1> QED
    BY <1>1, <1>3, NetworkStep DEF IInv

\* A node exits, and its clients with it.
LEMMA ExitSound ==
    ASSUME IInv, cast' = cast, NEW n \in Nodes, Exit(n)
    PROVE  IInv'
<1> DEFINE gone == {c \in Clients : Home[c] = n}
<1>1. /\ held' = [held EXCEPT ![n] = None] /\ net' \subseteq Orphan(gone)
      /\ ops' = [c \in Clients |-> IF Home[c] = n THEN Ended ELSE ops[c]]
    BY DEF Exit
<1>2. held' \in [Nodes -> Records] /\ ops' \in [Clients -> SoundOps]
    BY <1>1, IdleSound DEF IInv, Records
<1>3. gone \in SUBSET Clients /\ \A c \in Clients : c \notin gone => ops'[c] = ops[c]
    BY <1>1
<1> HIDE DEF gone
<1>4. \A m \in net' : m \in SoundRequests /\ (m.by \in Clients => m.by \notin gone /\ m \in net)
    BY <1>1, <1>3, OrphanSound
<1>5. \A m \in net' : m.by \in Clients => Current(m, ops'[m.by])
    BY <1>3, <1>4 DEF IInv
<1> QED
    BY <1>2, <1>4, <1>5 DEF IInv

\* Initially nothing is published.
LEMMA InitSound == Init => IInv
<1> SUFFICES ASSUME Init PROVE IInv
    OBVIOUS
<1>1. cast \in Casts /\ cast.earlier \in Records /\ net = {}
    BY DhtNodeConstants DEF Init, Records
<1>2. held \in [Nodes -> Records]
    BY <1>1 DEF Init, Records
<1>3. ops \in [Clients -> SoundOps]
    BY IdleSound DEF Init
<1> QED
    BY <1>1, <1>2, <1>3 DEF IInv

-----------------------------------------------------------------------------
(* The programs and the theorems *)

\* The programs on a node begin an operation.
LEMMA ProgramSound ==
    ASSUME IInv, cast' = cast, NEW n \in Nodes, RunProgram(n)
    PROVE  IInv'
<1>1. Publisher \in Clients /\ Retriever \in Clients /\ First \in Versions
    BY DhtNodeConstants
<1>2. ASSUME NEW c \in {Publisher, Retriever}, Attempt(c) PROVE IInv'
  <2>1. Begin(c, "set", First, "none") \/ Begin(c, "get", None, "none")
      BY <1>2 DEF Attempt
  <2> QED
      BY <1>1, <1>2, <2>1, BeginSound DEF Records, Auths
<1>3. CASE SetEnds
  <2>1. ops[Publisher].pc = "done" /\ (Begin(Publisher, "get", None, "none") \/ Forget(Publisher))
      BY <1>3 DEF SetEnds
  <2> QED
      BY <1>1, <2>1, BeginSound, ForgetSound DEF Records, Auths
<1>4. CASE ConfirmEnds
    BY <1>1, <1>4, ForgetSound DEF ConfirmEnds
<1>5. CASE GetEnds
    BY <1>1, <1>5, ForgetSound DEF GetEnds
<1>6. CASE Boot(n) \/ Bootstrap(n) \/ ChooseRole(n)
  <2>1. UNCHANGED <<held, net, ops>>
      BY <1>6 DEF Boot, Start, Bootstrap, ChooseRole, rvars
  <2> QED
      BY <2>1, NetworkStep DEF IInv
<1> QED
    BY <1>2, <1>3, <1>4, <1>5, <1>6 DEF RunProgram, Programs

\* A client begins a change of the record.
LEMMA ChangeSound ==
    ASSUME IInv, cast' = cast, NEW c \in Clients, Change(c)
    PROVE  IInv'
<1>1. PICK q \in cast.changes : Begin(c, q.op, q.ver, q.auth)
    BY DEF Change
<1>2. q \in Changes /\ q.op \in {"get", "set", "update", "delete"} /\ q.ver \in Records
      /\ (q.op \in {"set", "update"} => q.ver # None)
    BY DhtNodeConstants DEF IInv, Changes, Records
<1>3. q.auth \in Auths /\ (q.op \in {"set", "update"} => q.ver \in Versions)
    BY <1>2 DEF Auths, Records
<1> QED
    BY <1>1, <1>2, <1>3, BeginSound

\* The invariant holds in every reachable state.
LEMMA Invariance == Spec => []IInv
<1>1. ASSUME IInv, [Next]_vars PROVE IInv'
  <2>1. CASE UNCHANGED vars
    <3>1. UNCHANGED <<held, net, ops, cast>>
        BY <2>1 DEF vars, rvars
    <3> QED
        BY <1>1, <3>1, NetworkStep DEF IInv
  <2>2. CASE Next
    <3>1. cast' = cast
        BY <2>2 DEF Next
    <3>2. ASSUME NEW n \in Nodes, RunProgram(n) \/ Shutdown(n) PROVE IInv'
        BY <1>1, <3>1, <3>2, ProgramSound, ExitSound DEF Shutdown
    <3>3. ASSUME NEW c \in Clients, Change(c) PROVE IInv'
        BY <1>1, <3>1, <3>3, ChangeSound
    <3>4. ASSUME NEW c \in Clients, Operate(c) PROVE IInv'
        BY <1>1, <3>1, <3>4, AskSound, CrawlHitsSound, CrawlMissesSound, SetDigestSound,
           UpdateDigestSound, DeleteHereSound, DeleteThereSound, ReturnSound DEF Operate
    <3>5. CASE Transport
        BY <1>1, <3>1, <3>5, HandleStoreSound, CheckRequestSound, CommitRequestSound, LoseSound
           DEF Transport, Handle
    <3>6. CASE RefreshLoops
        BY <1>1, <3>1, <3>6, RepublishSound DEF RefreshLoops
    <3> QED
        BY <2>2, <3>2, <3>3, <3>4, <3>5, <3>6 DEF Next
  <2> QED
      BY <1>1, <2>1, <2>2
<1> QED
    BY <1>1, InitSound, PTL DEF Spec

\* A set or update that returns true has put its record into another node's
\* storage: for any nodes and clients, whatever is lost, late, refused or
\* restarted in between.
THEOREM TrueMeansStored == Spec => []AckedMeansStored
<1>1. IInv => AckedMeansStored
    BY OpFields DEF IInv, AckedMeansStored, Backed
<1> QED
    BY <1>1, Invariance, PTL

\* A copy is replaced by an older one.
RolledBack(n) == held'[n] # None /\ Newer(held[n], held'[n])

\* What a step that takes a copy back has replaced.
LEMMA RollbackMeans ==
    ASSUME IInv, IInv', NEW n \in Nodes, RolledBack(n)
    PROVE  held[n] \in Versions /\ held'[n] \in Versions /\ held'[n] # held[n]
<1>1. held[n] \in Records /\ held'[n] \in Versions
    BY DEF IInv, RolledBack, Records
<1> QED
    BY <1>1, ReplicationConstants DEF RolledBack, Records

\* An update that replaces the record n holds by another one.
OwnedOrOvertaken(m, n) ==
    /\ m.to = n /\ m.op = "update" /\ m.phase = "checked" /\ m.ver = held'[n]
    /\ m.auth = Owner[held[n]] \/ m.base # held[n]

\* Of the requests in flight, whoever sent them, only a checked update takes a
\* copy back: a store finds the place taken.
LEMMA RequestsRollBack ==
    ASSUME IInv, IInv', NEW n \in Nodes, RolledBack(n), NEW m \in net, Handle(m) \/ Lose(m)
    PROVE  OwnedOrOvertaken(m, n)
<1>1. m \in SoundRequests /\ m.to \in Nodes
    BY DEF IInv, SoundRequests, Requests
<1>2. held[n] \in Versions /\ held'[n] \in Versions /\ held'[n] # held[n] /\ held'[n] # None
    BY RollbackMeans DEF RolledBack
<1>3. CASE HandleStore(m)
  <2>1. held' = [held EXCEPT ![m.to] = StoreOutcome(m.to, m.ver).held]
      BY <1>3 DEF HandleStore
  <2>2. CASE held[m.to] = None
      BY <1>1, <1>2, <2>1, <2>2, ReplicationConstants DEF IInv
  <2>3. CASE held[m.to] # None
      BY <1>1, <1>2, <2>1, <2>3 DEF StoreOutcome, IInv
  <2> QED
      BY <2>2, <2>3
<1>4. CASE CommitRequest(m)
  <2>1. held' = [held EXCEPT ![m.to] = IF m.op = "delete" THEN None ELSE m.ver] /\ m.phase = "checked"
      BY <1>4 DEF CommitRequest
  <2>2. m.to = n /\ m.op # "delete" /\ m.ver = held'[n]
      BY <1>1, <1>2, <2>1 DEF IInv
  <2>3. m.op = "update" /\ m.auth = Owner[m.base]
      BY <1>1, <2>1, <2>2 DEF SoundRequests, Requests
  <2> QED
      BY <2>1, <2>2, <2>3 DEF OwnedOrOvertaken
<1>5. CASE CheckRequest(m) \/ Lose(m)
    BY <1>2, <1>5 DEF CheckRequest, Lose
<1> QED
    BY <1>3, <1>4, <1>5 DEF Handle

\* Of the operations only the write of a set or an update does, on its own node.
LEMMA OperationsRollBack ==
    ASSUME IInv, IInv', NEW n \in Nodes, RolledBack(n), NEW c \in Clients, Operate(c)
    PROVE  Home[c] = n /\ ops[c].pc \in {"set", "update"} /\ ops[c].ver = held'[n]
<1>1. PICK q \in SoundOps : q = ops[c]
    BY DEF IInv
<1>2. held' # held /\ held'[n] # held[n] /\ held'[n] # None
    BY RollbackMeans DEF RolledBack
<1>3. CASE DeleteHere(c)
    BY <1>2, <1>3 DEF DeleteHere, IInv
<1>4. CASE UpdateDigest(c) \/ SetDigest(c)
  <2>1. q.pc \in {"set", "update"}
      BY <1>1, <1>4 DEF UpdateDigest, SetDigest, At
  <2>2. held' = held \/ held' = [held EXCEPT ![Home[c]] = q.ver]
      BY <1>1, <1>4, Zenon DEF UpdateDigest, SetDigest, Write
  <2>3. Home[c] = n /\ held'[n] = q.ver
      BY <1>2, <2>2 DEF IInv
  <2> QED
      BY <1>1, <2>1, <2>3
<1>5. CASE (\E k \in Nodes : Ask(c, k)) \/ (\E v \in Versions : CrawlHits(c, v)) \/ CrawlMisses(c)
           \/ DeleteThere(c) \/ Return(c)
    BY <1>2, <1>5 DEF Ask, CrawlHits, CrawlMisses, DeleteThere, Return
<1> QED
    BY <1>3, <1>4, <1>5, Zenon DEF Operate

\* A copy goes back to an older rotation only by a client of the node itself, or
\* by an update that the owner of the newer one has signed or that was overtaken
\* between its check and its write: never by a late, cached or republished store,
\* nor by a late update with a key that has been rotated away.  This holds for
\* any number of rotations and clients.
THEOREM OnlyOvertakenRollsBack == Spec => RollsBackOnlyOvertaken
<1>1. ASSUME IInv, IInv', [Next]_vars, NEW n \in Nodes, RolledBack(n)
      PROVE  \/ \E c \in Clients : Home[c] = n /\ ops[c].pc \in {"set", "update"} /\ ops[c].ver = held'[n]
             \/ \E m \in net : OwnedOrOvertaken(m, n)
  <2>1. held' # held /\ held'[n] # held[n] /\ held'[n] # None
      BY <1>1, RollbackMeans DEF RolledBack
  <2>2. Next
      BY <1>1, <2>1 DEF vars, rvars
  <2>3. ASSUME NEW k \in Nodes, RunProgram(k) \/ Shutdown(k) PROVE FALSE
    <3>1. CASE Shutdown(k)
        BY <1>1, <2>1, <3>1 DEF Shutdown, Exit, IInv
    <3>2. CASE RunProgram(k)
      <4>1. held' = held
          BY <3>2 DEF RunProgram, Boot, Start, Bootstrap, ChooseRole, rvars, Attempt, SetEnds,
             ConfirmEnds, GetEnds, Begin, Forget
      <4> QED
          BY <2>1, <4>1
    <3> QED
        BY <2>3, <3>1, <3>2
  <2>4. ASSUME NEW c \in Clients, Change(c) PROVE FALSE
      BY <2>1, <2>4 DEF Change, Begin
  <2>5. ASSUME NEW c \in Clients, Operate(c)
        PROVE  Home[c] = n /\ ops[c].pc \in {"set", "update"} /\ ops[c].ver = held'[n]
      BY <1>1, <2>5, OperationsRollBack
  <2>6. Transport => \E m \in net : OwnedOrOvertaken(m, n)
      BY <1>1, RequestsRollBack, Zenon DEF Transport
  <2>7. ~RefreshLoops
      BY <2>1, Zenon DEF RefreshLoops, Republish
  <2> QED
      BY <2>2, <2>3, <2>4, <2>5, <2>6, <2>7, Zenon DEF Next
<1>2. IInv /\ IInv' /\ [Next]_vars =>
          [\A n \in Nodes : held'[n] # None /\ Newer(held[n], held'[n]) =>
              \/ \E c \in Clients : Home[c] = n /\ ops[c].pc \in {"set", "update"} /\ ops[c].ver = held'[n]
              \/ \E m \in net : /\ m.to = n /\ m.op = "update" /\ m.phase = "checked" /\ m.ver = held'[n]
                                /\ m.auth = Owner[held[n]] \/ m.base # held[n]]_vars
    BY <1>1, Zenon DEF RolledBack, OwnedOrOvertaken
<1> QED
    BY <1>2, Invariance, PTL DEF Spec, RollsBackOnlyOvertaken
-----------------------------------------------------------------------------
(* A record that is gone *)

\* Somebody begins to set the record.
SetBegins == \E c \in Clients : ops[c].pc # "crawl" /\ ops'[c].pc = "crawl" /\ ops'[c].op = "set"

\* Nothing is held, and what is new in flight or in an operation brings nothing.
LEMMA StaysGone ==
    ASSUME \A n \in Nodes : held'[n] = None,
           \A m \in net' : ~Brings(m),
           \A c \in Clients : ~Carries(ops'[c])
    PROVE  Extinct'
    BY DEF Extinct

\* One operation changes, and the requests do not.
LEMMA OperationGone ==
    ASSUME IInv, Extinct, UNCHANGED <<held, net>>, NEW c \in Clients, NEW y,
           ops' = [ops EXCEPT ![c] = y], ~Carries(y)
    PROVE  Extinct'
<1>1. \A d \in Clients : ops'[d] = y \/ ops'[d] = ops[d]
    BY DEF IInv
<1>2. \A d \in Clients : ~Carries(ops'[d])
    BY <1>1, Zenon DEF Extinct
<1> QED
    BY <1>2, StaysGone DEF Extinct

\* An operation begins: only a set carries a record.
LEMMA BeginGone ==
    ASSUME IInv, Extinct, NEW c \in Clients, NEW op, NEW ver, NEW auth, Begin(c, op, ver, auth)
    PROVE  Extinct' \/ SetBegins
<1> DEFINE q == [Idle EXCEPT !.op = op, !.ver = ver, !.auth = auth]
           y == [q EXCEPT !.pc = "crawl"]
<1>1. held[Home[c]] = None
    BY ReplicationConstants, Zenon DEF Extinct
<1>2. ops' = [ops EXCEPT ![c] = y] /\ UNCHANGED <<held, net>> /\ ops[c].pc \in {"idle", "done"}
    BY <1>1, Zenon DEF Begin
<1>3. y.pc = "crawl" /\ y.op = op /\ y.answers = [n \in Nodes |-> Unasked]
    BY DEF Idle
<1> HIDE DEF y
<1>4. CASE op = "set"
    BY <1>2, <1>3, <1>4 DEF SetBegins, IInv
<1>5. CASE op # "set"
  <2>1. ~Carries(y)
      BY <1>3, <1>5, ReplicationConstants DEF Carries
  <2> QED
      BY <1>2, <2>1, OperationGone, Zenon
<1> QED
    BY <1>4, <1>5

\* An operation that has returned carries nothing.
LEMMA EndedGone ==
    ASSUME NEW c \in Clients, NEW q, NEW r
    PROVE  /\ ~Carries(Ended)
           /\ ~Carries([Ended EXCEPT !.op = q.op, !.ver = q.ver, !.took = q.took, !.result = r])
<1>1. Ended.pc = "done"
    BY DEF Ended, Idle
<1>2. [Ended EXCEPT !.op = q.op, !.ver = q.ver, !.took = q.took, !.result = r].pc = "done"
    BY DEF Ended, Idle
<1> QED
    BY <1>1, <1>2 DEF Carries

\* A request that nobody waits for any more brings what it brought before.
LEMMA OrphanGone ==
    ASSUME IInv, Extinct, NEW clients, NEW m \in Orphan(clients)
    PROVE  ~Brings(m)
<1>1. PICK m0 \in net : m = IF m0.by \in clients THEN [m0 EXCEPT !.by = Gone] ELSE m0
    BY DEF Orphan
<1>2. m.op = m0.op /\ m.phase = m0.phase
    BY <1>1 DEF IInv, SoundRequests, Requests
<1> QED
    BY <1>2 DEF Extinct, Brings

\* Lookups find nothing, and deletes send nothing that is stored.
LEMMA OperateGone ==
    ASSUME IInv, Extinct, NEW c \in Clients, Operate(c)
    PROVE  Extinct'
<1>1. PICK q \in SoundOps : q = ops[c]
    BY DEF IInv
<1>2. ~Carries(q) /\ \A n \in Nodes : held[n] = None
    BY <1>1 DEF Extinct
<1>3. ASSUME NEW n \in Nodes, Ask(c, n) PROVE Extinct'
  <2> DEFINE y == [q EXCEPT !.answers[n] = None]
  <2>1. ops' = [ops EXCEPT ![c] = y] /\ UNCHANGED <<held, net>>
      BY <1>1, <1>2, <1>3, Zenon DEF Ask
  <2>2. y.pc = q.pc /\ y.op = q.op /\ y.answers = [q.answers EXCEPT ![n] = None]
        /\ q.answers \in [Nodes -> Records \cup {Unasked}]
      BY OpFields DEF OpStates
  <2> HIDE DEF y
  <2>3. \A k \in Nodes : y.answers[k] \in Versions => q.answers[k] \in Versions
      BY <2>2, ReplicationConstants
  <2>4. ~Carries(y)
      BY <1>2, <2>2, <2>3 DEF Carries
  <2> QED
      BY <2>1, <2>4, OperationGone, Zenon
<1>4. ASSUME NEW v \in Versions, CrawlHits(c, v) PROVE FALSE
  <2>1. q.pc = "crawl" /\ \E n \in Nodes : q.answers[n] = v
      BY <1>1, <1>4 DEF CrawlHits, At, AnsweredWith
  <2> QED
      BY <1>2, <2>1 DEF Carries
<1>5. CASE CrawlMisses(c)
  <2>1. q.op # "set"
      BY <1>1, <1>2, <1>5 DEF CrawlMisses, At, Carries
  <2>2. /\ ops' = [ops EXCEPT ![c] = [Ended EXCEPT !.op = q.op, !.ver = q.ver, !.took = q.took, !.result = "none"]]
        /\ UNCHANGED <<held, net>>
      BY <1>1, <1>5, <2>1 DEF CrawlMisses, Done
  <2> QED
      BY <2>2, EndedGone, OperationGone, Zenon
<1>6. ~SetDigest(c) /\ ~UpdateDigest(c)
    BY <1>1, <1>2 DEF SetDigest, UpdateDigest, At, Carries
<1>7. CASE DeleteHere(c)
  <2> DEFINE y == [q EXCEPT !.pc = "spread"]
  <2>1. ops' = [ops EXCEPT ![c] = y] /\ net' = net /\ held' = [held EXCEPT ![Home[c]] = None]
      BY <1>1, <1>7 DEF DeleteHere
  <2>2. held' = held
      BY <1>2, <2>1 DEF IInv
  <2>3. y.pc = "spread"
      BY OpFields DEF OpStates
  <2> HIDE DEF y
  <2>4. ~Carries(y)
      BY <2>3 DEF Carries
  <2> QED
      BY <2>1, <2>2, <2>4, OperationGone, Zenon
<1>8. CASE DeleteThere(c)
  <2>1. PICK targets \in Lookups(c) :
            IF targets = {} THEN Done(c, "true") /\ UNCHANGED net ELSE Call(c, "delete", targets)
      BY <1>8 DEF DeleteThere
  <2>2. held' = held
      BY <1>8 DEF DeleteThere
  <2>3. CASE targets = {}
    <3>1. ops' = [ops EXCEPT ![c] = [Ended EXCEPT !.op = q.op, !.ver = q.ver, !.took = q.took, !.result = "true"]]
          /\ net' = net
        BY <1>1, <2>1, <2>3 DEF Done
    <3> QED
        BY <2>2, <3>1, EndedGone, OperationGone, Zenon
  <2>4. CASE targets # {}
    <3>1. Call(c, "delete", targets)
        BY <2>1, <2>4
    <3>2. \A m \in net' : m \in net \/ m.op = "delete"
        BY <3>1 DEF Call, Request
    <3>3. \A m \in net' : ~Brings(m)
        BY <3>2 DEF Extinct, Brings
    <3>4. \A d \in Clients : ops'[d].pc = "calls" \/ ops'[d] = ops[d]
      <4> DEFINE out == [n \in Nodes |-> IF n \in targets THEN "out" ELSE "none"]
                 y == [q EXCEPT !.pc = "calls", !.answers = Idle.answers, !.calls = out]
      <4>1. ops' = [ops EXCEPT ![c] = y]
          BY <1>1, <3>1, Zenon DEF Call
      <4>2. y.pc = "calls"
          BY OpFields, Zenon DEF OpStates
      <4> HIDE DEF y
      <4> QED
          BY <4>1, <4>2 DEF IInv
    <3>5. \A d \in Clients : ~Carries(ops'[d])
        BY <3>4 DEF Extinct, Carries
    <3> QED
        BY <1>2, <2>2, <3>3, <3>5, StaysGone
  <2> QED
      BY <2>3, <2>4
<1>9. CASE Return(c)
  <2>1. PICK r : ops' = [ops EXCEPT ![c] = [Ended EXCEPT !.op = q.op, !.ver = q.ver, !.took = q.took, !.result = r]]
      BY <1>1, <1>9, Zenon DEF Return, Done
  <2>2. held' = held /\ net' = Orphan({c})
      BY <1>9 DEF Return
  <2>3. \A m \in net' : ~Brings(m)
      BY <2>2, OrphanGone
  <2> DEFINE y == [Ended EXCEPT !.op = q.op, !.ver = q.ver, !.took = q.took, !.result = r]
  <2>4. ~Carries(y) /\ ops' = [ops EXCEPT ![c] = y]
      BY <2>1, EndedGone, Zenon
  <2> HIDE DEF y
  <2>5. \A d \in Clients : ops'[d] = y \/ ops'[d] = ops[d]
      BY <2>4 DEF IInv
  <2>6. \A d \in Clients : ~Carries(ops'[d])
      BY <2>4, <2>5, Zenon DEF Extinct
  <2> QED
      BY <1>2, <2>2, <2>3, <2>6, StaysGone
<1> QED
    BY <1>3, <1>4, <1>5, <1>6, <1>7, <1>8, <1>9, Zenon DEF Operate

\* No handler has anything to store, and no update finds a record to replace.
LEMMA HandleGone ==
    ASSUME IInv, Extinct, NEW m \in net, Handle(m) \/ Lose(m)
    PROVE  Extinct'
<1>1. /\ m.op \in {"store", "update", "delete"} /\ m.to \in Nodes /\ m.phase \in {"sent", "checked"}
      /\ m.op # "store" /\ (m.op = "update" => m.phase = "sent")
    BY DEF IInv, SoundRequests, Requests, Extinct, Brings
<1>2. \A n \in Nodes : held[n] = None
    BY DEF Extinct
<1>3. ASSUME NEW answer, Reply(m, answer) PROVE \A d \in Clients : ~Carries(ops'[d])
  <2>1. CASE m.by \notin Clients
      BY <1>3, <2>1 DEF Reply, Extinct
  <2>2. CASE m.by \in Clients
    <3>1. PICK c \in Clients : c = m.by
        BY <2>2
    <3>2. PICK q \in SoundOps : q = ops[c]
        BY DEF IInv
    <3>3. PICK t : t = IF held'[m.to] = m.ver /\ (held[m.to] # m.ver \/ m.phase = "checked")
                       THEN q.took \cup {m.to} ELSE q.took
        BY Zenon
    <3> DEFINE y == [q EXCEPT !.calls[m.to] = answer, !.took = t]
    <3>4. ops' = [ops EXCEPT ![c] = y]
        BY <1>3, <2>2, <3>1, <3>2, <3>3, Zenon DEF Reply
    <3>5. y.pc = q.pc /\ y.op = q.op /\ y.answers = q.answers
        BY OpFields, Zenon DEF OpStates
    <3> HIDE DEF y
    <3>6. ~Carries(y)
        BY <3>2, <3>5 DEF Extinct, Carries
    <3>7. \A d \in Clients : ops'[d] = y \/ ops'[d] = ops[d]
        BY <3>4 DEF IInv
    <3> QED
        BY <3>6, <3>7, Zenon DEF Extinct
  <2> QED
      BY <2>1, <2>2
<1>4. ~HandleStore(m)
    BY <1>1 DEF HandleStore
<1>5. CASE CheckRequest(m)
  <2>1. held' = held /\ net' = net \ {m} /\ Reply(m, "no")
      BY <1>1, <1>2, <1>5, Zenon DEF CheckRequest
  <2> QED
      BY <1>2, <1>3, <2>1, StaysGone DEF Extinct
<1>6. CASE CommitRequest(m)
  <2>1. m.op = "delete"
      BY <1>1, <1>6 DEF CommitRequest
  <2>2. held' = [held EXCEPT ![m.to] = None] /\ net' = net \ {m} /\ Reply(m, "yes")
      BY <1>6, <2>1 DEF CommitRequest
  <2>3. \A n \in Nodes : held'[n] = None
      BY <1>2, <2>2 DEF IInv
  <2> QED
      BY <1>3, <2>2, <2>3, StaysGone DEF Extinct
<1>7. CASE Lose(m)
    BY <1>7, StaysGone DEF Lose, Extinct
<1> QED
    BY <1>4, <1>5, <1>6, <1>7 DEF Handle

\* A process that ends takes records away and brings none.
LEMMA ExitGone ==
    ASSUME IInv, Extinct, NEW n \in Nodes, Exit(n)
    PROVE  Extinct'
<1>1. /\ held' = [held EXCEPT ![n] = None] /\ net' \subseteq Orphan({c \in Clients : Home[c] = n})
      /\ ops' = [c \in Clients |-> IF Home[c] = n THEN Ended ELSE ops[c]]
    BY DEF Exit
<1>2. \A k \in Nodes : held'[k] = None
    BY <1>1 DEF IInv, Extinct
<1>3. \A m \in net' : ~Brings(m)
    BY <1>1, OrphanGone, Zenon
<1>4. \A c \in Clients : ~Carries(ops'[c])
  <2> TAKE c \in Clients
  <2>1. ops'[c] = Ended \/ ops'[c] = ops[c]
      BY <1>1
  <2>2. ~Carries(Ended)
      BY EndedGone, Zenon
  <2> QED
      BY <2>1, <2>2, Zenon DEF Extinct
<1> QED
    BY <1>2, <1>3, <1>4, StaysGone

\* The programs begin operations or drop their results.
LEMMA ProgramGone ==
    ASSUME IInv, Extinct, NEW n \in Nodes, RunProgram(n)
    PROVE  Extinct' \/ SetBegins
<1>1. Publisher \in Clients /\ Retriever \in Clients
    BY DhtNodeConstants
<1>2. ASSUME NEW c \in Clients, Forget(c) PROVE Extinct'
  <2>1. ops' = [ops EXCEPT ![c] = Ended] /\ UNCHANGED <<held, net>>
      BY <1>2 DEF Forget
  <2>2. ~Carries(Ended)
      BY EndedGone, Zenon
  <2> QED
      BY <2>1, <2>2, OperationGone, Zenon
<1>3. ASSUME NEW c \in {Publisher, Retriever}, Attempt(c) PROVE Extinct' \/ SetBegins
  <2>1. Begin(c, "set", First, "none") \/ Begin(c, "get", None, "none")
      BY <1>3 DEF Attempt
  <2> QED
      BY <1>1, <1>3, <2>1, BeginGone, Zenon
<1>4. CASE SetEnds
  <2>1. Begin(Publisher, "get", None, "none") \/ Forget(Publisher)
      BY <1>4 DEF SetEnds
  <2> QED
      BY <1>1, <1>2, <2>1, BeginGone, Zenon
<1>5. CASE ConfirmEnds \/ GetEnds
    BY <1>1, <1>2, <1>5 DEF ConfirmEnds, GetEnds
<1>6. CASE Boot(n) \/ Bootstrap(n) \/ ChooseRole(n)
  <2>1. UNCHANGED <<held, net, ops>>
      BY <1>6 DEF Boot, Start, Bootstrap, ChooseRole, rvars
  <2> QED
      BY <2>1, StaysGone DEF Extinct
<1> QED
    BY <1>3, <1>4, <1>5, <1>6 DEF RunProgram, Programs

\* For any nodes, clients and casts: a record of which no copy is held, sent,
\* verified or seen by an operation under way stays gone until somebody sets it.
THEOREM GoneUntilSet == Spec => GoneForGood
<1>1. ASSUME IInv, Extinct, [Next]_vars PROVE Extinct' \/ SetBegins
  <2>1. CASE UNCHANGED vars
    <3>1. UNCHANGED <<held, net, ops>>
        BY <2>1 DEF vars, rvars
    <3> QED
        BY <1>1, <3>1, StaysGone DEF Extinct
  <2>2. CASE Next
    <3>1. ASSUME NEW n \in Nodes, RunProgram(n) \/ Shutdown(n) PROVE Extinct' \/ SetBegins
        BY <1>1, <3>1, ProgramGone, ExitGone DEF Shutdown
    <3>2. ASSUME NEW c \in Clients, Change(c) PROVE Extinct' \/ SetBegins
      <4>1. PICK q \in cast.changes : Begin(c, q.op, q.ver, q.auth)
          BY <3>2 DEF Change
      <4> QED
          BY <1>1, <4>1, BeginGone, Zenon
    <3>3. ASSUME NEW c \in Clients, Operate(c) PROVE Extinct'
        BY <1>1, <3>3, OperateGone
    <3>4. Transport => Extinct'
        BY <1>1, HandleGone, Zenon DEF Transport
    <3>5. ~RefreshLoops
        BY <1>1, Zenon DEF RefreshLoops, Republish, Extinct
    <3> QED
        BY <2>2, <3>1, <3>2, <3>3, <3>4, <3>5, Zenon DEF Next
  <2> QED
      BY <1>1, <2>1, <2>2
<1>2. IInv /\ [Next]_vars =>
          [Extinct => \/ Extinct'
                      \/ \E c \in Clients : ops[c].pc # "crawl" /\ ops'[c].pc = "crawl" /\ ops'[c].op = "set"]_vars
    BY <1>1, Zenon DEF SetBegins
<1> QED
    BY <1>2, Invariance, PTL DEF Spec, GoneForGood
=============================================================================
