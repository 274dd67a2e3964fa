------------------------------ MODULE MerkleTree ------------------------------
(***************************************************************************)
(* rs/commp/src/tree.rs: the nodes of the reference Merkle tree, the       *)
(* zero commitments, the reduction of one level, and the binary counter of *)
(* pending subtrees.                                                       *)
(*                                                                         *)
(* A 32-byte node is named by the payload beneath it: node                 *)
(* [level, lo, hi] is the node at tree level `level` whose leaves hold the *)
(* payload nibbles lo .. hi-1 followed by zeros.  Hashing is injective on  *)
(* these names; a hash that is no node of a reference tree is Junk, and    *)
(* whatever is built from Junk is Junk.  Positions are nibbles because a   *)
(* quad's two leaves meet in the middle of a byte.                         *)
(***************************************************************************)
EXTENDS Integers

CONSTANTS
    LeafSpan,   \* payload nibbles under one leaf (127 in the code)
    MAX_LEVEL,  \* length of the node and zero-commitment tables (64)
    Pow         \* Pow[i] is 2^i, as far as the tables reach

ASSUME TreeAssumption ==
    /\ LeafSpan \in Nat \ {0}
    /\ MAX_LEVEL \in Nat \ {0}
    /\ Pow \in [0 .. MAX_LEVEL -> Nat \ {0}]
    /\ Pow[0] = 1
    /\ \A i \in 0 .. MAX_LEVEL - 1 : Pow[i + 1] = 2 * Pow[i]
    /\ \A i, j \in 0 .. MAX_LEVEL :
          i + j <= MAX_LEVEL => Pow[i + j] = Pow[i] * Pow[j]

Slots == 0 .. MAX_LEVEL - 1
Node == [level : Int, lo : Int, hi : Int]

Extent(level, lo, hi) == [level |-> level, lo |-> lo, hi |-> hi]
Junk == Extent(0, 1, 0)

(* get_zero_comm(level): the node over an all-zero subtree. *)
Zero(level) == Extent(level, 0, 0)

(* Payload nibbles under a full subtree of 2^k leaves. *)
Span(k) == LeafSpan * Pow[k]

Complete(n) == n.level - 1 \in 0 .. MAX_LEVEL /\ n.hi - n.lo = Span(n.level - 1)

(***************************************************************************)
(* compute_node_into: the parent of two nodes.  It is a reference node     *)
(* when the right child is zero padding, or continues a complete left one. *)
(***************************************************************************)
HashPair(left, right) ==
    IF left.lo <= left.hi /\ right = Zero(left.level)
    THEN Extent(left.level + 1, left.lo, left.hi)
    ELSE IF left.level = right.level /\ Complete(left)
            /\ right.lo = left.hi /\ right.lo < right.hi
         THEN Extent(left.level + 1, left.lo, right.hi)
         ELSE Junk

-----------------------------------------------------------------------------
(* One iteration of reduce(): an odd trailing node is paired with the zero  *)
(* commitment of its height.  job = [nodes, len, height].                   *)

(* Mutant: an odd trailing node is paired with whatever lies beyond it. *)
PaddedNodesStale(job) == job.nodes

PaddedNodes(job) ==
    IF job.len % 2 = 1
    THEN [job.nodes EXCEPT ![job.len] = Zero(job.height)]
    ELSE job.nodes

ReduceLevel(job) ==
    LET nodes == PaddedNodes(job)
        len   == (job.len + 1) \div 2
    IN  [nodes  |-> [i \in DOMAIN nodes |->
                       IF i < len THEN HashPair(nodes[2 * i], nodes[2 * i + 1])
                                  ELSE nodes[i]],
         len    |-> len,
         height |-> job.height + 1]

-----------------------------------------------------------------------------
(* struct Stack: nodes[k] is a pending node at tree level k + 1 when bit k *)
(* of count is set.                                                        *)

Bit(n, k) == (n \div Pow[k]) % 2

StackNodes == [Slots -> Node]
NewStack == [nodes |-> [k \in Slots |-> Zero(0)], count |-> 0]

(* The intrinsics fold() uses on a non-zero count. *)
IsTop(n, k) == Pow[k] <= n /\ n < Pow[k + 1]
IsLowest(n, k) == n % Pow[k] = 0 /\ Bit(n, k) = 1

(* Mutant: the zero commitment of the level below. *)
FoldLevelLowZero(stack, level, acc) ==
    IF Bit(stack.count, level) = 1
    THEN HashPair(stack.nodes[level], acc)
    ELSE HashPair(acc, Zero(level))

(* One iteration of fold(): acc carries the partial subtree on the right. *)
FoldLevel(stack, level, acc) ==
    IF Bit(stack.count, level) = 1
    THEN HashPair(stack.nodes[level], acc)
    ELSE HashPair(acc, Zero(level + 1))
=============================================================================
