---------------------------- MODULE MCMembership ----------------------------
(* Instances of Membership on the tables of MCRoutingTable. *)
EXTENDS Membership, MCFindNeighbors

\* Two contacts for a bucket of one, the node itself, whose id others return
\* in their answers so that a lookup asks it, and a key near the node.
TightIds == {0, 2, 16, 18, 20}
TrioHeard == {0, 16, 18}
NearKey == {2}
=============================================================================
