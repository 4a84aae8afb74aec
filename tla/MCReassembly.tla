---------------------------- MODULE MCReassembly ----------------------------
(* Instances of Reassembly for TLC: chunks of two bytes, and messages named   *)
(* after the number of their fragments.  The last fragment of `two' is full,  *)
(* the others' are not.  `two' and `pair' have equally many fragments, so     *)
(* that their chunks would fit into one buffer.  `four' is seven bytes long:  *)
(* with a limit of seven, which is no whole number of chunks, a sender lets   *)
(* it out and the receiver discards it.                                       *)
EXTENDS Reassembly

CONSTANTS p1, p2, one, two, pair, three, four

MCLength == [m \in Messages |-> CASE m = one -> 1 [] m = two -> 4 [] m = pair -> 3 [] m = three -> 5 [] OTHER -> 7]

BothChoices == {FALSE, TRUE}
NoRepeats == {FALSE}
=============================================================================
