---------------------------- MODULE MCCommPHasher ----------------------------
(* Instances of CommPHasher for TLC. *)
EXTENDS CommPHasher

MCPow == [i \in 0 .. MAX_LEVEL |-> 2^i]

(* A quad is 3 bytes, a batch 12, the largest payload 96: nothing, a part  *)
(* of a quad, a batch, one group of batches for the workers and a byte,    *)
(* more than a group; of two large writes one is refused.                  *)
MCWriteSizes == {0, 2, 12, 37, 49}
=============================================================================
