--------------------------- MODULE MCRoutingTable ---------------------------
(* Instances of RoutingTable for TLC.  Raw ids are 5-bit numbers, 4 base bits *)
(* and 1 tail bit: the code's 128 + 32 scaled so that the width of an id is   *)
(* a multiple of 5, as 160 is, on which the split condition depends.          *)
EXTENDS RoutingTable

NI == INSTANCE NodeId

BaseBits == 4
TailBits == 1

MCIdBits == BaseBits + TailBits
MCMaxLong == 2^BaseBits - 1
MCIdBit == [id \in Ids |-> [p \in 1..MCIdBits |-> NI!Bit(id, p, MCIdBits)]]
MCLongId == [id \in Ids |-> NI!IdToLong(id, BaseBits, TailBits)]

\* Contacts close to the table's own id 0 and far from it.  3 folds to the long
\* id 9: it shares a bucket with 16 and 20 but no leading bit, so that the
\* bucket may fill up without being split.
SpreadIds == {0, 2, 3, 4, 16, 20, 26}

\* The same with fewer contacts.
FewIds == {0, 2, 3, 16, 20}
=============================================================================
