------------------------------ MODULE MCJsHasher ------------------------------
(* Instances of JsHasher for TLC. *)
EXTENDS JsHasher, TLC

CONSTANTS h1, h2

MCPow == [i \in 0 .. MAX_LEVEL |-> 2^i]

(* The hashers differ in name only. *)
MCHashers == {h1, h2}
MCSymmetry == Permutations(MCHashers)
=============================================================================
