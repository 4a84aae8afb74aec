--------------------------- MODULE MCFindNeighbors ---------------------------
(* The instances of MCRoutingTable, with the traversal. *)
EXTENDS FindNeighbors, MCRoutingTable

MCApart == [m \in Ids |-> [n \in Ids |-> NI!DistanceTo(LongId[m], LongId[n])]]

\* TableTraverser::next as it runs: the buckets it takes from the two sides.
RECURSIVE Taken(_, _, _)
Taken(left, right, takeLeft) ==
    IF takeLeft /\ left # <<>>
    THEN <<Head(left)>> \o Taken(Tail(left), right, FALSE)
    ELSE IF right # <<>>
    THEN <<Head(right)>> \o Taken(left, Tail(right), TRUE)
    ELSE left

\* TurnOf says when each bucket is taken.
ASSUME TakenInTurn ==
    \A len \in 1..6 : \A own \in 1..len :
      LET side(m, n) == [i \in 1..(n - m + 1) |-> m + i - 1]
          order == <<own>> \o Taken(side(1, own - 1), side(own + 1, len), TRUE)
      IN  \A i \in 1..len : order[TurnOf(len, own, i) + 1] = i
=============================================================================
