---------------------------- MODULE MCParseUtils ----------------------------
(***************************************************************************)
(* The integer types with a bit for a byte: the longest have 5 bits where  *)
(* the code's have 64, the others 2 and 3.                                 *)
(***************************************************************************)
EXTENDS ParseUtils

CONSTANT LongBits

MCLongMin  == -(2 ^ (LongBits - 1))
MCLongMax  == 2 ^ (LongBits - 1) - 1
MCULongMax == 2 ^ LongBits - 1

Widths == {2, 3, LongBits}

MCType ==
  {[signed |-> TRUE, min |-> -(2 ^ (b - 1)), max |-> 2 ^ (b - 1) - 1] : b \in Widths}
    \cup {[signed |-> FALSE, min |-> 0, max |-> 2 ^ b - 1] : b \in Widths}

\* Past the second time that an unsigned number wraps.
MCMagnitude == 0..2 * 2 ^ LongBits + 1
=============================================================================
