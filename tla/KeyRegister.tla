----------------------------- MODULE KeyRegister -----------------------------
(***************************************************************************)
(* What a node promises about the records it holds, whatever its tasks do  *)
(* between their awaits: one register per key, and for every request that  *)
(* is open the changes it may make to its key, each in a single step.      *)
(* RecordStore implements it (src/src/protocol.rs, src/src/storage.rs and  *)
(* src/src/network.rs); the verification in steps, the signature cache,    *)
(* the ages of records and the strikes of senders are hidden.              *)
(***************************************************************************)
CONSTANTS
    Keys, StatusKey, Records, NoRecord, SelfSigned, IssuerSigned, Owner, Requests, Tasks,
    NoRequest   \* a task without an open request

VARIABLES
    held,   \* the record a reader finds under each key, or NoRecord
    past,   \* the records each key has held
    open    \* the request each task is working on

vars == <<held, past, open>>

Init ==
    /\ held = [k \in Keys |-> NoRecord]
    /\ past = [k \in Keys |-> {}]
    /\ open = [t \in Tasks |-> NoRequest]

Open(t) ==
    /\ open[t] = NoRequest
    /\ UNCHANGED <<held, past>>
    /\ \E q \in Requests : open' = [open EXCEPT ![t] = q]

Close(t) == open' = [open EXCEPT ![t] = NoRequest]

\* A request ends without an effect: refused, or a mere lookup.
Refuse(t) == open[t] # NoRequest /\ Close(t) /\ UNCHANGED <<held, past>>

Write(k, v) ==
    /\ held' = [held EXCEPT ![k] = v]
    /\ past' = [past EXCEPT ![k] = @ \cup {v}]

Erase(k) == held' = [held EXCEPT ![k] = NoRecord] /\ UNCHANGED past

\* A record a peer may store or this node publish under some key.
Signed == SelfSigned \cup IssuerSigned

\* Of the documents in S, one carries the key the request is signed with.
SignedByOwner(q, S) == \E r \in S : q.auth = Owner[r]

\* A peer's store fills an empty register only.
Store(t, q) == q.op = "store" /\ held[q.key] = NoRecord /\ q.value \in Signed /\ Write(q.key, q.value)

\* A peer's update is signed by the owner of a document held here before.
Update(t, q) ==
    /\ q.op = "update" /\ q.value \in SelfSigned /\ SignedByOwner(q, past[q.key])
    /\ Write(q.key, q.value)

\* The status list changes when the issuer signed the new one.
UpdateStatusList(t, q) ==
    /\ q.op = "status" /\ q.value \in IssuerSigned /\ past[q.key] # {}
    /\ Write(q.key, q.value)

Delete(t, q) == q.op = "delete" /\ SignedByOwner(q, past[q.key]) /\ Erase(q.key)

\* The node's own set and update write over whatever is there; an update
\* may rest on a document found elsewhere.
Publish(t, q) ==
    /\ \/ q.op = "set" /\ q.value \in Signed
       \/ q.op = "put" /\ q.value \in SelfSigned /\ SignedByOwner(q, Signed)
       \/ q.op = "put" /\ q.key = StatusKey /\ q.value \in IssuerSigned
    /\ Write(q.key, q.value)

Withdraw(t, q) == q.op = "remove" /\ SignedByOwner(q, Signed) /\ Erase(q.key)

\* A request takes effect, and that ends it.
Effect(t) ==
    /\ open[t] # NoRequest
    /\ LET q == open[t] IN
          \/ Store(t, q) \/ Update(t, q) \/ UpdateStatusList(t, q) \/ Delete(t, q)
          \/ Publish(t, q) \/ Withdraw(t, q)
    /\ Close(t)

\* Time passes and some records expire.
Lapse ==
    /\ UNCHANGED <<past, open>>
    /\ \E K \in SUBSET Keys : held' = [k \in Keys |-> IF k \in K THEN NoRecord ELSE held[k]]

Next == Lapse \/ \E t \in Tasks : Open(t) \/ Refuse(t) \/ Effect(t)

Spec == Init /\ [][Next]_vars
=============================================================================
