------------------------------- MODULE NodeId -------------------------------
(***************************************************************************)
(* Node identifiers (src/src/node.rs).  The code's raw id has 160 bits and *)
(* is folded into a 128-bit long_id by XOR-ing its last 32 bits into the   *)
(* top 32 bits of the first 128.  Here the two widths are parameters of    *)
(* the operators: an id is a number of base + tail bits, most significant  *)
(* bit first, with tail <= base.                                           *)
(***************************************************************************)
EXTENDS Integers, Bitwise

\* The bit of id at position p, counted from 1 at the most significant end.
Bit(id, p, width) == (id \div 2^(width - p)) % 2

\* Node::id_to_u128: base ^ (tail << (baseBits - tailBits)).
IdToLong(id, baseBits, tailBits) ==
    (id \div 2^tailBits) ^^ ((id % 2^tailBits) * 2^(baseBits - tailBits))

\* Node::distance_to, on the folded ids.
DistanceTo(a, b) == a ^^ b
=============================================================================
