------------------------------ MODULE MCDhtNode ------------------------------
(***************************************************************************)
(* Three nodes: a publisher, closest to the key, a retriever and the seed. *)
(* Two clients of the seed and one of the publisher's node hold the key of *)
(* the first record.  The second and the third version keep that key, the  *)
(* rekeyed one has a new one.                                              *)
(***************************************************************************)
EXTENDS DhtNode

MCNewer(v, w) ==
    <<v, w>> \in {<<"second", "first">>, <<"third", "first">>, <<"third", "second">>,
                 <<"rekeyed", "first">>, <<"rekeyed", "second">>}

MCOwner ==
    [v \in Versions |-> CASE v = "rekeyed" -> "b" [] v = "rival" -> "c" [] OTHER -> "a"]

MCHome == [c \in Clients |-> CASE c \in {"publisher", "heir"} -> 1 [] c = "retriever" -> 2 [] OTHER -> 3]

Cast(clients, changes, attempts, ends, earlier) ==
    [clients |-> clients, changes |-> changes, attempts |-> attempts, exits |-> ends, earlier |-> earlier]

Update(c, v) == [by |-> c, op |-> "update", ver |-> v, auth |-> "a"]
Delete(c) == [by |-> c, op |-> "delete", ver |-> None, auth |-> "a"]

\* Both programs while the seed holds another record; the publisher again while
\* its record of an earlier run is updated; a delete; two rotations that follow
\* each other, with the same key and with a new one; an update, and each program
\* with a second attempt, with a process that ends.
MCCasts ==
    {Cast({"publisher", "retriever"}, {}, 1, 0, "rival"),
     Cast({"publisher", "holder"}, {Update("holder", "second")}, 1, 0, "first"),
     Cast({"retriever", "holder"}, {Delete("holder")}, 1, 0, "first"),
     Cast({"holder", "deputy"}, {Update("deputy", "second"), Update("holder", "third")}, 1, 0, "first"),
     Cast({"holder", "heir"}, {Update("heir", "second"), Update("holder", "rekeyed")}, 1, 0, "first"),
     Cast({"holder"}, {Update("holder", "second")}, 1, 1, "first"),
     Cast({"publisher"}, {}, 2, 1, None),
     Cast({"retriever"}, {}, 2, 1, "first")}
=============================================================================
