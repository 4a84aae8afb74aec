------------------------------ MODULE MCLookup ------------------------------
(* Lookup for TLC: a small network, started from any one node. *)
EXTENDS Lookup

OneSeed == {{x} : x \in Nodes}
BothModes == {"node", "value"}
=============================================================================
