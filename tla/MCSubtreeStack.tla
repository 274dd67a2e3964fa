---------------------------- MODULE MCSubtreeStack ----------------------------
(* Instance of SubtreeStack for TLC. *)
EXTENDS SubtreeStack

MCPow == [i \in 0 .. MAX_LEVEL |-> 2^i]
=============================================================================
