----------------------------- MODULE MCWasmHasher -----------------------------
(* Instances of WasmHasher for TLC. *)
EXTENDS WasmHasher, TLC

CONSTANTS w1, w2

MCPow == [i \in 0 .. MAX_LEVEL |-> 2^i]

MCTwo == {w1, w2}

(* A chunk is 3 bytes, the largest payload 6: no chunk, a short one, two,  *)
(* and two writes of which the second is refused.                          *)
MCWriteSizes == {0, 1, 5}

MCTwoPointers == {1, 2}

(* The two wrappers play the same part. *)
MCSymmetry == Permutations(Wrappers)
=============================================================================
