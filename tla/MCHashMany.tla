------------------------------ MODULE MCHashMany -------------------------------
EXTENDS HashMany

(* Every remainder of 16, 8, 4 and 2 lanes, after no, one and two groups. *)
MCCounts == 0 .. 19 \union {31, 33, 34}
=============================================================================
