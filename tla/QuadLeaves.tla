------------------------------ MODULE QuadLeaves ------------------------------
(***************************************************************************)
(* Payload bytes, quads and the leaves they hash to, and the commitment a  *)
(* payload has by definition.                                              *)
(*                                                                         *)
(* A byte is named by its position in everything ever written; a byte the  *)
(* code fills with zeros is NoByte.  A quad is Q bytes.  FR32 padding      *)
(* spreads its 2Q nibbles over two 64-byte halves, Q nibbles each, which   *)
(* hash to two leaves (the middle byte is split when Q is odd, as 127 is). *)
(***************************************************************************)
EXTENDS MerkleTree, Sequences

Q == LeafSpan          \* IN_BYTES_PER_QUAD, and nibbles per leaf

NoByte == -1
Quads == [0 .. Q - 1 -> Int]

(* The half of the quad is the n payload nibbles from lo, then zeros. *)
HoldsRun(quad, half, lo, n) ==
    \A i \in 0 .. Q - 1 :
        LET byte == quad[(half * Q + i) \div 2]
        IN  IF i < n THEN byte # NoByte /\ 2 * byte + ((half * Q + i) % 2) = lo + i
                     ELSE byte = NoByte

FirstNibble(quad, half) == 2 * quad[(half * Q) \div 2] + ((half * Q) % 2)

(* fr32_pad and the hash of one 64-byte half: a leaf of the reference tree *)
(* exactly when the half holds consecutive payload, zero padded.           *)
Leaf(quad, half) ==
    LET first == FirstNibble(quad, half)
    IN  IF HoldsRun(quad, half, 0, 0) THEN Zero(1)
        ELSE IF \E n \in 1 .. Q : HoldsRun(quad, half, first, n)
             THEN Extent(1, first,
                         first + CHOOSE n \in 1 .. Q : HoldsRun(quad, half, first, n))
             ELSE Junk

-----------------------------------------------------------------------------
(* Number of quads that hold n bytes. *)
QuadsFor(n) == (n + Q - 1) \div Q

(* 2^k is the next power of two from n. *)
IsCeilLog(n, k) == n <= Pow[k] /\ (k > 0 => Pow[k - 1] < n)

(* zero_padding: what rounds a payload up to a power-of-two number of quads. *)
ZeroPadding(n) ==
    LET quads == IF n = 0 THEN 1 ELSE QuadsFor(n)
        k     == CHOOSE i \in 0 .. MAX_LEVEL : IsCeilLog(quads, i)
    IN  Pow[k] * Q - n

(* What a digest of `size` bytes from byte `first` must say: the height of *)
(* the least tree of whole quads that holds them (a quad is two leaves, at *)
(* level 1), the padding that fills it, and its root.                      *)
IsCommitment(c, first, size) ==
    /\ c.height >= 2 /\ c.height - 2 \in 0 .. MAX_LEVEL
    /\ size <= Q * Pow[c.height - 2]
    /\ c.height > 2 => Q * Pow[c.height - 3] < size
    /\ c.padding + size = Q * Pow[c.height - 2]
    /\ c.root = IF size = 0 THEN Zero(c.height)
                ELSE Extent(c.height, 2 * first, 2 * (first + size))
=============================================================================
