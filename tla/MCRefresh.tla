------------------------------ MODULE MCRefresh ------------------------------
(* Refresh for TLC: four long ids of two bits, ids of one bit more, one record. *)
EXTENDS Refresh

NI == INSTANCE NodeId

BaseBits == 2

MCMaxLong == 2^BaseBits - 1
MCLongId == [id \in 0..(2^(BaseBits + TailBits) - 1) |-> NI!IdToLong(id, BaseBits, TailBits)]
MCKeyOf == [e \in Entries |-> 6]
=============================================================================
