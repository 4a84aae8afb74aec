---------------------------- MODULE MCRecordStore ----------------------------
(* RecordStore for TLC.  Documents a and b belong to different owners, x has *)
(* no valid signature, and l is a status list.                               *)
EXTENDS RecordStore, TLC

MCOwner == [r \in Records |-> CASE r = "a" -> "alice" [] r = "b" -> "bob" [] r = "x" -> "alice"
                                [] OTHER -> "nobody"]

Request(op, k, v, auth) ==
    [op |-> op, key |-> k, value |-> v, auth |-> auth, sender |-> "peer"]

\* One document, stored, updated and deleted by peers.
DocumentRequests ==
    {Request("store", "doc", v, "none") : v \in {"a", "x"}}
        \cup {Request("update", "doc", "b", o) : o \in {"alice", "bob"}}
        \cup {Request("delete", "doc", "a", "alice")}

\* The same document, read and changed by the node itself.
LocalRequests == {Request(op, "doc", "b", "alice") : op \in {"get", "set", "put", "remove"}}

\* The status list, which the issuer signs, and a document that was given the
\* same key.
StatusRequests ==
    {Request("store", "list", v, "none") : v \in {"a", "l"}}
        \cup {Request("status", "list", v, "none") : v \in {"l", "x"}}
        \cup {Request("put", "list", "l", "none"), Request("find", "list", "l", "none")}

AllRequests == DocumentRequests \cup LocalRequests \cup StatusRequests
TaskSymmetry == Permutations(Tasks)
=============================================================================
