---------------------------- MODULE JsHasherProofs ----------------------------
(***************************************************************************)
(* The JavaScript hashers, for every leaf and payload size: though they    *)
(* share their scratch arrays and zero commitments, each answers with the  *)
(* commitment of its own payload.                                          *)
(***************************************************************************)
EXTENDS JsHasher, TreeLemmas, WellFoundedInduction

(* Where the subtree of 2^k leaves begins that ends a run of c leaves from *)
(* nibble a, once the leaves below bit k are left out.                     *)
Place(c, k, a) == a + Q * (c - (c % Pow[k]))

(* Slot k is that of bit k in a count of c leaves from nibble a, of a      *)
(* payload that ends at nibble e.                                          *)
SlotHolds(s, k, c, a, e) ==
    /\ s.filled[k] <=> Bit(c, k) = 1
    /\ s.filled[k] => s.nodes[k] = RunNode(k + 1, Place(c, k + 1, a), e)

StackHolds(s, c, a, e) == \A k \in Slots : SlotHolds(s, k, c, a, e)

(* Leaf d is being pushed and its carry has come to level l: the slots     *)
(* below are merged into it, the others are still those of d leaves.       *)
CarryHolds(s, d, l, a, e) ==
    /\ l \in Slots
    /\ (d + 1) % Pow[l] = 0
    /\ \A k \in Slots : IF k < l THEN ~ s.filled[k] ELSE SlotHolds(s, k, d, a, e)
    /\ s.carry = RunNode(l + 1, a + Q * (d + 1 - Pow[l]), e)

-----------------------------------------------------------------------------
PushPhase == pc \in {"push", "carry"} \/ (pc = "hash" /\ leaf < 2)
FoldPhase == pc = "fold" \/ (pc = "hash" /\ leaf = 2)

(* What the locals of a call mean, and when. *)
Control ==
    /\ (pc = "idle") <=> (self = NoHasher)
    /\ pc = "idle" => method = "" /\ copy = NoStack
    /\ pc # "idle" => self \in Hashers /\ method \in {"write", "digest"}
    /\ method # "write" => input.len = 0
    /\ pc = "carry" => leaf < 2
    /\ FoldPhase => method = "digest" /\ leaf = 2
    /\ method = "write" =>
          /\ copy = NoStack
          /\ input.first = base[self] + bytesWritten[self]
          /\ input.len \in WriteSizes /\ readOffset \in 1 .. input.len
          /\ bytesWritten[self] + input.len <= MAX_PAYLOAD_SIZE
    /\ (PushPhase /\ method = "digest") => copy # NoStack /\ NeedsTail(self)

(* The bytes not yet on the stack are in the buffer. *)
Buffered ==
    \A h \in Hashers :
        /\ offset[h] <= bytesWritten[h]
        /\ \A i \in 0 .. Q - 1 : i < offset[h] =>
              buffer[h][i] = base[h] + (bytesWritten[h] - offset[h]) + i

(* The stack holds the whole quads of the payload. *)
Stacked(h) ==
    \E w \in 0 .. Pow[PAYLOAD_LEVEL] :
        /\ Q * w = bytesWritten[h] - offset[h]
        /\ StackHolds(stacks[h], 2 * w, 2 * base[h], 2 * (base[h] + bytesWritten[h]))

Resting == \A h \in Hashers : (h = self /\ method = "write") \/ Stacked(h)

ZerosRight == Len(zeros) >= 1 /\ \A k \in 1 .. Len(zeros) : zeros[k] = Zero(k - 1)

(* The payload of the call: its first nibble, its end when the call has    *)
(* returned, and the byte of the payload where the current quad begins.    *)
Begin == 2 * base[self]
End == 2 * (base[self] + bytesWritten[self] + input.len)
QuadAt == IF method = "write" THEN bytesWritten[self] + readOffset - Q
                              ELSE bytesWritten[self] - offset[self]

(* The two nodes that hashing at this level makes one of. *)
PairAt(l, at) == <<RunNode(l + 1, at, End), RunNode(l + 1, at + Span(l), End)>>

Pushing ==
    \E w \in 0 .. Pow[PAYLOAD_LEVEL] - 1 :
        /\ Q * w = QuadAt
        /\ LEAVES = PairAt(0, Begin + Q * (2 * w))
        /\ pc = "push" => StackHolds(Stack, 2 * w + leaf, Begin, End)
        /\ pc # "push" => CarryHolds(Stack, 2 * w + leaf, level, Begin, End)
        /\ pc = "hash" => /\ Stack.filled[level]
                          /\ CONCAT_BUFFER = PairAt(level, Place(2 * w + leaf, level + 1, Begin))

(* w quads are the least number that holds the payload. *)
Holds(w, size) == size <= Q * w /\ (w > 1 => Q * (w - 1) < size)

Folding ==
    \E w \in 1 .. Pow[PAYLOAD_LEVEL] :
        /\ Holds(w, bytesWritten[self])
        /\ StackHolds(Stack, 2 * w, Begin, End)
        /\ IsLowestFilled(Stack, lowest) /\ IsTopFilled(Stack, top)
        /\ level \in lowest .. top
        /\ level # lowest => acc = RunNode(level + 1, Place(2 * w, level, Begin), End)
        /\ pc = "hash" => /\ lowest < top
                          /\ CONCAT_BUFFER = PairAt(level, Place(2 * w, level + 1, Begin))

Phases == (PushPhase => Pushing) /\ (FoldPhase => Folding)

Inv == TypeOK /\ Control /\ Buffered /\ Resting /\ ZerosRight /\ Phases


-----------------------------------------------------------------------------
(* Counting leaves. *)

LEMMA LeastOne ==
    ASSUME NEW T, T \subseteq Nat, T # {}
    PROVE  \E x \in T : \A y \in T : x <= y
PROOF
<1> DEFINE R == {ss \in Nat \X Nat : ss[1] < ss[2]}
<1>1. IsWellFoundedOn(R, Nat)
  BY NatLessThanWellFounded DEF OpToRel
<1>2. \A x, y \in Nat : y < x => <<y, x>> \in R
  OBVIOUS
<1> HIDE DEF R
<1>3. PICK x \in T : \A y \in T : ~ (<<y, x>> \in R)
  BY <1>1, WFMin
<1>4. ASSUME NEW y \in T PROVE x <= y
  <2>1. x \in Nat /\ y \in Nat
    OBVIOUS
  <2>2. ~ (y < x)
    BY <1>2, <1>3, <2>1
  <2> QED BY <2>1, <2>2
<1> QED
  BY <1>4

(* Bits that are not set do not count. *)
LEMMA BitsClear ==
    ASSUME NEW c \in Nat, NEW m \in 0 .. MAX_LEVEL, NEW j \in m .. MAX_LEVEL,
           \A k \in m .. j - 1 : Bit(c, k) = 0
    PROVE  c % Pow[j] = c % Pow[m]
PROOF
<1> DEFINE T == {i \in m .. j : c % Pow[i] # c % Pow[m]}
<1>0. MAX_LEVEL \in Nat
  BY TreeAssumption
<1>1. SUFFICES ASSUME c % Pow[j] # c % Pow[m] PROVE FALSE
  OBVIOUS
<1>2. T \subseteq Nat /\ j \in T
  BY <1>0, <1>1
<1>3. PICK i \in T : \A y \in T : i <= y
  <2> HIDE DEF T
  <2> QED BY <1>2, LeastOne
<1>4. i \in m .. j /\ c % Pow[i] # c % Pow[m] /\ i # m
  BY <1>3
<1>5. i - 1 \in m .. j /\ i - 1 \in m .. j - 1 /\ ~ (i <= i - 1) /\ i - 1 \in Slots /\ i - 1 + 1 = i
  BY <1>0, <1>4 DEF Slots
<1>6. c % Pow[i - 1] = c % Pow[m]
  BY <1>3, <1>5
<1>7. Bit(c, i - 1) = 0
  BY <1>5
<1>8. c % Pow[i] = (c % Pow[i - 1]) + 0 /\ c % Pow[i - 1] \in Nat
  BY <1>5, <1>7, BitSplit
<1> QED
  BY <1>4, <1>6, <1>8

LEMMA ModOfMultiple ==
    ASSUME NEW d \in Nat \ {0}, NEW q \in Nat
    PROVE  (d * q) % d = 0 /\ (d * q) \div d = q /\ d * q \in Nat
PROOF
<1>1. PICK r \in Nat : r = 0
  OBVIOUS
<1>2. r < d
  BY <1>1
<1>3. (d * q + r) \div d = q /\ (d * q + r) % d = r
  BY <1>2, DivModUnique
<1>4. d * q \in Nat
  OBVIOUS
<1>5. d * q + r = d * q
  BY <1>1, <1>4
<1> QED
  BY <1>1, <1>3, <1>4, <1>5

(* What adding one leaf does to the bits, where the carry has come to l. *)
LEMMA CarryCount ==
    ASSUME NEW d \in Nat, NEW l \in Slots, (d + 1) % Pow[l] = 0
    PROVE  /\ Pow[l] <= d + 1 /\ d % Pow[l] = Pow[l] - 1
           /\ Bit(d, l) = 1 =>
                 /\ Pow[l + 1] <= d + 1 /\ (d + 1) % Pow[l + 1] = 0
                 /\ d % Pow[l + 1] = Pow[l + 1] - 1
           /\ Bit(d, l) = 0 =>
                 /\ Bit(d + 1, l) = 1 /\ (d + 1) % Pow[l + 1] = Pow[l]
                 /\ \A k \in Slots :
                       /\ k < l => Bit(d + 1, k) = 0
                       /\ l < k => /\ Bit(d + 1, k) = Bit(d, k)
                                   /\ (d + 1) - ((d + 1) % Pow[k + 1]) = d - (d % Pow[k + 1])
PROOF
<1> DEFINE P == Pow[l]
           D == Pow[l + 1]
           q == (d + 1) \div P
           z == d \div D
           x == D * z
<1>0. P \in Nat \ {0} /\ D \in Nat \ {0} /\ D = 2 * P /\ d + 1 \in Nat
      /\ l \in 0 .. MAX_LEVEL /\ l + 1 \in 0 .. MAX_LEVEL
  BY PowDouble
<1>1. q \in Nat /\ d + 1 = P * q
  <2> HIDE DEF P
  <2>1. (d + 1) % P = 0
    BY DEF P
  <2> QED BY <1>0, <2>1, DivMod
<1>2. z \in Nat /\ d % D \in Nat /\ d = x + (d % D) /\ x \in Nat
  <2>1. z \in Nat /\ d % D \in Nat /\ d = D * z + (d % D)
    <3> HIDE DEF D
    <3> QED BY <1>0, DivMod
  <2> HIDE DEF D, z
  <2>2. D * z \in Nat
    BY <1>0, <2>1
  <2> QED BY <2>1, <2>2
<1>3. x % D = 0
  <2> HIDE DEF D, z
  <2> QED BY <1>0, <1>2, ModOfMultiple
<1> HIDE DEF P, D, q, z, x
<1>4. q # 0 /\ P <= d + 1 /\ d = P * (q - 1) + (P - 1) /\ q - 1 \in Nat /\ P - 1 \in Nat /\ P - 1 < P
  <2>1. q # 0
    BY <1>0, <1>1
  <2>2. P * q = P * (q - 1) + P
    BY <1>0, <1>1
  <2>3. P * (q - 1) \in Nat
    BY <1>0, <1>1, <2>1
  <2> QED BY <1>0, <1>1, <2>1, <2>2, <2>3
<1>5. d % P = P - 1
  BY <1>0, <1>4, DivModUnique
<1>6. d % D = (d % P) + (IF Bit(d, l) = 1 THEN P ELSE 0)
  BY BitSplit DEF D, P
<1>7. ASSUME Bit(d, l) = 1
      PROVE  D <= d + 1 /\ (d + 1) % D = 0 /\ d % D = D - 1
  <2>1. d % D = D - 1
    BY <1>0, <1>5, <1>6, <1>7
  <2>2. d + 1 = x + D
    BY <1>0, <1>2, <2>1
  <2>3. (x + D) % D = 0
    BY <1>0, <1>2, <1>3, MultipleNext
  <2> QED BY <1>0, <1>2, <2>1, <2>2, <2>3
<1>8. ASSUME Bit(d, l) = 0
      PROVE  /\ Bit(d + 1, l) = 1 /\ (d + 1) % D = P
             /\ \A k \in Slots :
                   /\ k < l => Bit(d + 1, k) = 0
                   /\ l < k => /\ Bit(d + 1, k) = Bit(d, k)
                               /\ (d + 1) - ((d + 1) % Pow[k + 1]) = d - (d % Pow[k + 1])
  <2>1. d % D = P - 1 /\ d = x + (P - 1) /\ d + 1 = x + P /\ P < D /\ P - 1 < D /\ P \in Nat /\ P - 1 \in Nat
    BY <1>0, <1>2, <1>5, <1>6, <1>8
  <2>2. \A k \in l + 1 .. MAX_LEVEL :
           /\ (x + P) % Pow[k] = (x % Pow[k]) + P /\ (x + P) \div Pow[k] = x \div Pow[k]
           /\ (x + (P - 1)) % Pow[k] = (x % Pow[k]) + (P - 1)
           /\ (x + (P - 1)) \div Pow[k] = x \div Pow[k]
    <3> SUFFICES ASSUME NEW k \in l + 1 .. MAX_LEVEL
                 PROVE  /\ (x + P) % Pow[k] = (x % Pow[k]) + P
                        /\ (x + P) \div Pow[k] = x \div Pow[k]
                        /\ (x + (P - 1)) % Pow[k] = (x % Pow[k]) + (P - 1)
                        /\ (x + (P - 1)) \div Pow[k] = x \div Pow[k]
      OBVIOUS
    <3>1. x % Pow[l + 1] = 0 /\ P < Pow[l + 1] /\ P - 1 < Pow[l + 1]
      BY <1>3, <2>1 DEF D
    <3>2. (x + P) % Pow[k] = (x % Pow[k]) + P /\ (x + P) \div Pow[k] = x \div Pow[k]
      BY <1>0, <1>2, <2>1, <3>1, ModShift
    <3>3. /\ (x + (P - 1)) % Pow[k] = (x % Pow[k]) + (P - 1)
          /\ (x + (P - 1)) \div Pow[k] = x \div Pow[k]
      BY <1>0, <1>2, <2>1, <3>1, ModShift
    <3> QED BY <3>2, <3>3
  <2>3. (d + 1) % D = P
    <3>1. l + 1 \in l + 1 .. MAX_LEVEL
      BY <1>0
    <3>2. (x + P) % D = (x % D) + P
      BY <2>2, <3>1 DEF D
    <3> QED BY <1>0, <1>3, <2>1, <3>2
  <2>4. Bit(d + 1, l) = 1
    <3>1. (d + 1) % D = ((d + 1) % P) + (IF Bit(d + 1, l) = 1 THEN P ELSE 0)
      BY <1>0, BitSplit DEF D, P
    <3>2. (d + 1) % P = 0
      BY DEF P
    <3> QED BY <1>0, <2>3, <3>1, <3>2
  <2>5. ASSUME NEW k \in Slots, k < l PROVE Bit(d + 1, k) = 0
    BY <1>0, <2>5, BitsBelow
  <2>6. ASSUME NEW k \in Slots, l < k
        PROVE  /\ Bit(d + 1, k) = Bit(d, k)
               /\ (d + 1) - ((d + 1) % Pow[k + 1]) = d - (d % Pow[k + 1])
    <3>1. k \in l + 1 .. MAX_LEVEL /\ k + 1 \in l + 1 .. MAX_LEVEL /\ Pow[k + 1] \in Nat \ {0}
      BY <1>0, <2>6, PowDouble DEF Slots
    <3>2. (d + 1) \div Pow[k] = d \div Pow[k]
      BY <2>1, <2>2, <3>1
    <3>3. (d + 1) % Pow[k + 1] = (x % Pow[k + 1]) + P /\ d % Pow[k + 1] = (x % Pow[k + 1]) + (P - 1)
      BY <2>1, <2>2, <3>1
    <3>4. x % Pow[k + 1] \in Nat
      BY <1>2, <3>1, DivMod
    <3>5. (d + 1) - ((d + 1) % Pow[k + 1]) = d - (d % Pow[k + 1])
      BY <1>0, <3>3, <3>4
    <3> QED BY <3>2, <3>5 DEF Bit
  <2> QED BY <2>3, <2>4, <2>5, <2>6
<1> QED
  BY <1>4, <1>5, <1>7, <1>8 DEF P, D


LEMMA PlaceFacts ==
    ASSUME NEW c \in Nat, NEW k \in 0 .. MAX_LEVEL, NEW a \in Nat
    PROVE  /\ Place(c, k, a) \in Nat
           /\ Place(c, k, a) <= a + Q * c
           /\ a + Q * c < Place(c, k, a) + Span(k)
PROOF
<1> DEFINE r == c % Pow[k]
<1>0. Q \in Nat \ {0} /\ Pow[k] \in Nat \ {0}
  BY SpanFacts, TreeAssumption
<1>1. r \in Nat /\ r <= c /\ r < Pow[k]
  <2> DEFINE q == c \div Pow[k]
  <2>1. r \in Nat /\ r < Pow[k] /\ q \in Nat /\ c = Pow[k] * q + r
    BY <1>0, DivMod
  <2>2. Pow[k] * q \in Nat
    <3> HIDE DEF q
    <3> QED BY <1>0, <2>1
  <2> HIDE DEF q, r
  <2> QED BY <2>1, <2>2
<1> HIDE DEF r
<1>2. PICK x \in Nat : c = r + x
  <2>1. c - r \in Nat /\ c = r + (c - r)
    BY <1>1
  <2> QED BY <2>1
<1>3. Q * c = Q * r + Q * x /\ Q * r \in Nat /\ Q * x \in Nat /\ c - r = x
  BY <1>0, <1>1, <1>2
<1>4. Place(c, k, a) = a + Q * x
  BY <1>3 DEF Place, r
<1>5. Q * r < Q * Pow[k] /\ Span(k) = Q * Pow[k]
  <2>1. PICK y \in Nat : Pow[k] = r + 1 + y
    <3>1. Pow[k] - r - 1 \in Nat /\ Pow[k] = r + 1 + (Pow[k] - r - 1)
      BY <1>0, <1>1
    <3> QED BY <3>1
  <2>2. Q * Pow[k] = Q * r + Q + Q * y /\ Q * y \in Nat
    BY <1>0, <1>1, <2>1
  <2> QED BY <1>0, <1>3, <2>2 DEF Span, Q
<1>6. Q * Pow[k] \in Nat
  BY <1>0
<1> QED
  BY <1>3, <1>4, <1>5, <1>6

(* Where the subtree of a bit begins, and where it ends. *)
LEMMA PlaceOfBit ==
    ASSUME NEW c \in Nat, NEW k \in Slots, NEW a \in Nat
    PROVE  Place(c, k, a) = Place(c, k + 1, a) + (IF Bit(c, k) = 1 THEN Span(k) ELSE 0)
PROOF
<1> DEFINE r == c % Pow[k]
           t == c % Pow[k + 1]
<1>0. Q \in Nat \ {0} /\ Pow[k] \in Nat \ {0} /\ Span(k) = Q * Pow[k] /\ Q * Pow[k] \in Nat
  BY SpanFacts, PowDouble DEF Span, Q
<1>1. r \in Nat /\ t = r + (IF Bit(c, k) = 1 THEN Pow[k] ELSE 0) /\ t <= c
  BY BitSplit
<1>2. Place(c, k, a) = a + Q * (c - r) /\ Place(c, k + 1, a) = a + Q * (c - t)
  BY DEF Place
<1> HIDE DEF r, t
<1>3. CASE Bit(c, k) = 1
  <2>1. c - r = (c - t) + Pow[k] /\ c - t \in Nat
    BY <1>0, <1>1, <1>3
  <2>2. Q * (c - r) = Q * (c - t) + Q * Pow[k] /\ Q * (c - t) \in Nat
    <3> DEFINE y == c - t
    <3> HIDE DEF y
    <3>1. y \in Nat /\ c - r = y + Pow[k]
      BY <2>1 DEF y
    <3>2. Q * (y + Pow[k]) = Q * y + Q * Pow[k] /\ Q * y \in Nat
      BY <1>0, <3>1
    <3> QED BY <3>1, <3>2 DEF y
  <2> QED BY <1>0, <1>2, <1>3, <2>2
<1>4. CASE Bit(c, k) # 1
  <2>1. t = r
    BY <1>1, <1>4
  <2>2. a + Q * (c - r) = a + Q * (c - r) + 0
    <3>1. c - r \in Nat
      BY <1>1, <2>1
    <3>2. Q * (c - r) \in Nat
      <4> DEFINE y == c - r
      <4> HIDE DEF y
      <4>1. y \in Nat
        BY <3>1 DEF y
      <4>2. Q * y \in Nat
        BY <1>0, <4>1
      <4> QED BY <4>2 DEF y
    <3> QED BY <3>2
  <2> QED BY <1>2, <1>4, <2>1, <2>2
<1> QED
  BY <1>3, <1>4

(* A node whose leaves are all there does not change with what follows. *)
LEMMA WholeRun ==
    ASSUME NEW k \in Slots, NEW lo \in Nat, NEW e \in Nat, lo + Span(k) <= e
    PROVE  RunNode(k + 1, lo, e) = Extent(k + 1, lo, lo + Span(k))
PROOF
<1>0. k \in 0 .. MAX_LEVEL /\ MAX_LEVEL \in Nat
  BY PowDouble, TreeAssumption
<1>1. Span(k) \in Nat \ {0} /\ k + 1 - 1 = k
  BY <1>0, SpanFacts
<1>2. (IF e < lo + Span(k) THEN e ELSE lo + Span(k)) = lo + Span(k)
  BY <1>1
<1>3. lo < e
  BY <1>1
<1> QED
  <2>1. RunNode(k + 1, lo, e) = Extent(k + 1, lo, IF e < lo + Span(k + 1 - 1) THEN e
                                                 ELSE lo + Span(k + 1 - 1))
    BY <1>0, <1>3 DEF RunNode
  <2>2. Span(k + 1 - 1) = Span(k)
    BY <1>1
  <2> QED BY <1>2, <2>1, <2>2

LEMMA MoreBytes ==
    ASSUME NEW s, NEW c \in Nat, NEW a \in Nat, NEW e \in Nat, NEW f \in Nat,
           StackHolds(s, c, a, e), a + Q * c <= e, a + Q * c <= f
    PROVE  StackHolds(s, c, a, f)
PROOF
<1> SUFFICES ASSUME NEW k \in Slots PROVE SlotHolds(s, k, c, a, f)
  BY DEF StackHolds
<1>1. SlotHolds(s, k, c, a, e)
  BY DEF StackHolds
<1>2. ASSUME s.filled[k] PROVE s.nodes[k] = RunNode(k + 1, Place(c, k + 1, a), f)
  <2> DEFINE lo == Place(c, k + 1, a)
             hi == lo + Span(k)
  <2>1. s.nodes[k] = RunNode(k + 1, lo, e) /\ Bit(c, k) = 1
    BY <1>1, <1>2 DEF SlotHolds
  <2>2. k \in 0 .. MAX_LEVEL /\ k + 1 \in 0 .. MAX_LEVEL /\ Span(k) \in Nat /\ Q * c \in Nat
    BY PowDouble, SpanFacts
  <2>3. Place(c, k, a) = hi
    BY <2>1, PlaceOfBit
  <2>4. lo \in Nat /\ Place(c, k, a) <= a + Q * c
    BY <2>2, PlaceFacts
  <2> HIDE DEF lo
  <2>5. lo + Span(k) <= e /\ lo + Span(k) <= f
    BY <2>2, <2>3, <2>4
  <2>6. RunNode(k + 1, lo, e) = RunNode(k + 1, lo, f)
    BY <2>4, <2>5, WholeRun
  <2> QED BY <2>1, <2>6 DEF lo
<1> QED
  BY <1>1, <1>2 DEF SlotHolds

-----------------------------------------------------------------------------
(* Stack.push(), one leaf. *)

LEMMA CarryBegins ==
    ASSUME NEW s, NEW d \in Nat, NEW a \in Nat, NEW e \in Nat, StackHolds(s, d, a, e),
           s.carry = RunNode(1, a + Q * d, e)
    PROVE  CarryHolds(s, d, 0, a, e)
PROOF
<1>1. 0 \in Slots /\ Pow[0] = 1 /\ (d + 1) % 1 = 0 /\ d + 1 - 1 = d
  BY TreeAssumption DEF Slots
<1>2. \A k \in Slots : ~ (k < 0)
  BY DEF Slots
<1> QED
  BY <1>1, <1>2 DEF CarryHolds, StackHolds

LEMMA CarryPlace ==
    ASSUME NEW d \in Nat, NEW l \in Slots, NEW a \in Nat,
           (d + 1) % Pow[l] = 0, Bit(d, l) = 1
    PROVE  /\ Place(d, l + 1, a) = a + Q * (d + 1 - Pow[l + 1])
           /\ Place(d, l + 1, a) + Span(l) = a + Q * (d + 1 - Pow[l])
PROOF
<1>1. d % Pow[l + 1] = Pow[l + 1] - 1 /\ d % Pow[l] = Pow[l] - 1
  BY CarryCount
<1>2. Pow[l + 1] \in Nat \ {0} /\ Pow[l] \in Nat \ {0}
  BY PowDouble
<1>3. d - (Pow[l + 1] - 1) = d + 1 - Pow[l + 1] /\ d - (Pow[l] - 1) = d + 1 - Pow[l]
  BY <1>2
<1>4. Place(d, l + 1, a) = a + Q * (d + 1 - Pow[l + 1]) /\ Place(d, l, a) = a + Q * (d + 1 - Pow[l])
  BY <1>1, <1>3 DEF Place
<1>5. Place(d, l, a) = Place(d, l + 1, a) + Span(l)
  BY PlaceOfBit
<1> QED
  BY <1>4, <1>5

LEMMA CarryAt ==
    ASSUME NEW s, NEW d \in Nat, NEW l \in Slots, NEW a \in Nat, NEW e \in Nat,
           CarryHolds(s, d, l, a, e)
    PROVE  /\ (d + 1) % Pow[l] = 0
           /\ SlotHolds(s, l, d, a, e)
           /\ s.carry = RunNode(l + 1, a + Q * (d + 1 - Pow[l]), e)
PROOF
<1>1. ~ (l < l)
  BY DEF Slots
<1> QED
  BY <1>1 DEF CarryHolds

(* The slot at the carry's level holds the node to its left. *)
LEMMA CarryPair ==
    ASSUME NEW s, NEW d \in Nat, NEW l \in Slots, NEW a \in Nat, NEW e \in Nat,
           CarryHolds(s, d, l, a, e), s.filled[l]
    PROVE  /\ s.nodes[l] = RunNode(l + 1, Place(d, l + 1, a), e)
           /\ s.carry = RunNode(l + 1, Place(d, l + 1, a) + Span(l), e)
           /\ Pow[l + 1] <= d + 1
PROOF
<1>1. (d + 1) % Pow[l] = 0 /\ SlotHolds(s, l, d, a, e)
  BY CarryAt
<1>2. s.carry = RunNode(l + 1, a + Q * (d + 1 - Pow[l]), e)
  BY CarryAt
<1>3. Bit(d, l) = 1 /\ s.nodes[l] = RunNode(l + 1, Place(d, l + 1, a), e)
  BY <1>1 DEF SlotHolds
<1>4. Place(d, l + 1, a) + Span(l) = a + Q * (d + 1 - Pow[l])
  BY <1>1, <1>3, CarryPlace
<1>5. Pow[l + 1] <= d + 1
  BY <1>1, <1>3, CarryCount
<1> QED
  BY <1>2, <1>3, <1>4, <1>5

LEMMA CarryJoins ==
    ASSUME NEW s, NEW d \in Nat, NEW l \in Slots, NEW a \in Nat, NEW e \in Nat,
           CarryHolds(s, d, l, a, e), s.filled[l]
    PROVE  /\ HashPair(s.nodes[l], s.carry) = RunNode(l + 2, a + Q * (d + 1 - Pow[l + 1]), e)
           /\ (d + 1) % Pow[l + 1] = 0
PROOF
<1> DEFINE lo == Place(d, l + 1, a)
<1>1. (d + 1) % Pow[l] = 0 /\ SlotHolds(s, l, d, a, e)
  BY CarryAt
<1>2. Bit(d, l) = 1
  BY <1>1 DEF SlotHolds
<1>3. lo = a + Q * (d + 1 - Pow[l + 1]) /\ (d + 1) % Pow[l + 1] = 0
  BY <1>1, <1>2, CarryPlace, CarryCount
<1>4. s.nodes[l] = RunNode(l + 1, lo, e) /\ s.carry = RunNode(l + 1, lo + Span(l), e)
  BY CarryPair
<1>5. lo \in Nat
  BY PowDouble, PlaceFacts
<1> HIDE DEF lo
<1>6. HashPair(s.nodes[l], s.carry) = RunNode(l + 2, lo, e)
  BY <1>4, <1>5, JoinRuns
<1> QED
  BY <1>3, <1>6

LEMMA CarryMerges ==
    ASSUME NEW s \in StackType, NEW d \in Nat, NEW l \in Slots, NEW a \in Nat, NEW e \in Nat,
           CarryHolds(s, d, l, a, e), s.filled[l], l + 1 \in Slots,
           NEW t, t.carry = HashPair(s.nodes[l], s.carry), t.nodes = s.nodes,
           \A k \in Slots : t.filled[k] <=> (k # l /\ s.filled[k])
    PROVE  CarryHolds(t, d, l + 1, a, e)
PROOF
<1>1. l \in Slots /\ l \in Int
  BY DEF CarryHolds, Slots
<1>2. t.carry = RunNode(l + 1 + 1, a + Q * (d + 1 - Pow[l + 1]), e) /\ (d + 1) % Pow[l + 1] = 0
  <2>1. HashPair(s.nodes[l], s.carry) = RunNode(l + 2, a + Q * (d + 1 - Pow[l + 1]), e)
    BY CarryJoins
  <2>2. (d + 1) % Pow[l + 1] = 0
    BY CarryJoins
  <2>3. l + 1 + 1 = l + 2
    BY <1>1
  <2> QED BY <2>1, <2>2, <2>3
<1>3. ASSUME NEW k \in Slots
      PROVE  IF k < l + 1 THEN ~ t.filled[k] ELSE SlotHolds(t, k, d, a, e)
  <2>1. IF k < l THEN ~ s.filled[k] ELSE SlotHolds(s, k, d, a, e)
    BY DEF CarryHolds
  <2>2. s.filled \in [Slots -> BOOLEAN]
    BY DEF StackType
  <2>3. t.filled[k] <=> (k # l /\ s.filled[k])
    OBVIOUS
  <2>4. CASE k = l
    <3>1. k < l + 1
      BY <1>1, <2>4
    <3> QED BY <2>3, <2>4, <3>1
  <2>5. CASE k # l
    <3>1. (k < l + 1) <=> (k < l)
      BY <1>1, <2>5 DEF Slots
    <3>2. t.filled[k] <=> s.filled[k]
      BY <2>3, <2>5
    <3> QED BY <2>1, <3>1, <3>2 DEF SlotHolds
  <2> QED BY <2>4, <2>5
<1> QED
  BY <1>2, <1>3 DEF CarryHolds

LEMMA CarryStored ==
    ASSUME NEW s \in StackType, NEW d \in Nat, NEW l \in Slots, NEW a \in Nat, NEW e \in Nat,
           CarryHolds(s, d, l, a, e), ~ s.filled[l],
           NEW t, t.nodes = [s.nodes EXCEPT ![l] = s.carry],
           t.filled = [s.filled EXCEPT ![l] = TRUE]
    PROVE  StackHolds(t, d + 1, a, e)
PROOF
<1>1. l \in Slots /\ (d + 1) % Pow[l] = 0 /\ s.carry = RunNode(l + 1, a + Q * (d + 1 - Pow[l]), e)
  BY DEF CarryHolds
<1>2. SlotHolds(s, l, d, a, e)
  <2>1. ~ (l < l)
    BY <1>1 DEF Slots
  <2> QED BY <1>1, <2>1 DEF CarryHolds
<1>3. Bit(d, l) = 0
  BY <1>1, <1>2, BitSplit DEF SlotHolds
<1>4. /\ Bit(d + 1, l) = 1 /\ (d + 1) % Pow[l + 1] = Pow[l]
      /\ \A k \in Slots :
            /\ k < l => Bit(d + 1, k) = 0
            /\ l < k => /\ Bit(d + 1, k) = Bit(d, k)
                        /\ (d + 1) - ((d + 1) % Pow[k + 1]) = d - (d % Pow[k + 1])
  BY <1>1, <1>3, CarryCount
<1> SUFFICES ASSUME NEW k \in Slots PROVE SlotHolds(t, k, d + 1, a, e)
  BY DEF StackHolds
<1>5. s.filled \in [Slots -> BOOLEAN] /\ s.nodes \in [Slots -> Node]
  BY DEF StackType, StackNodes
<1>6. /\ t.filled[k] = IF k = l THEN TRUE ELSE s.filled[k]
      /\ t.nodes[k] = IF k = l THEN s.carry ELSE s.nodes[k]
  BY <1>5
<1>7. CASE k = l
  <2>1. Place(d + 1, l + 1, a) = a + Q * (d + 1 - Pow[l])
    <3>1. (d + 1) % Pow[l + 1] = Pow[l]
      BY <1>4
    <3> DEFINE x == (d + 1) % Pow[l + 1]
    <3>2. Place(d + 1, l + 1, a) = a + Q * ((d + 1) - x)
      BY DEF Place
    <3>3. x = Pow[l] /\ Pow[l] \in Nat /\ l \in Int
      BY <1>1, <3>1, PowDouble DEF Slots
    <3> HIDE DEF x
    <3> QED BY <3>2, <3>3
  <2> QED BY <1>1, <1>4, <1>6, <1>7, <2>1 DEF SlotHolds
<1>8. CASE k < l
  <2>1. ~ s.filled[k] /\ k # l
    BY <1>1, <1>8 DEF CarryHolds, Slots
  <2>2. Bit(d + 1, k) # 1
    BY <1>4, <1>8
  <2> QED BY <1>6, <2>1, <2>2 DEF SlotHolds
<1>9. CASE l < k
  <2>1. SlotHolds(s, k, d, a, e) /\ k # l
    <3>1. ~ (k < l) /\ k # l
      BY <1>1, <1>9 DEF Slots
    <3> QED BY <3>1 DEF CarryHolds
  <2>2. Bit(d + 1, k) = Bit(d, k) /\ Place(d + 1, k + 1, a) = Place(d, k + 1, a)
    BY <1>4, <1>9 DEF Place
  <2> QED BY <1>6, <2>1, <2>2 DEF SlotHolds
<1>10. k = l \/ k < l \/ l < k
  BY <1>1 DEF Slots
<1> QED
  BY <1>7, <1>8, <1>9, <1>10


-----------------------------------------------------------------------------
(* Stack.fold(). *)

LEMMA TopCount ==
    ASSUME NEW s, NEW c \in Nat, NEW a, NEW e, StackHolds(s, c, a, e), c < Pow[MAX_LEVEL],
           NEW t \in Slots, IsTopFilled(s, t)
    PROVE  /\ Bit(c, t) = 1
           /\ Pow[t] <= c /\ c < Pow[t + 1]
           /\ c % Pow[t + 1] = c
PROOF
<1>0. /\ MAX_LEVEL \in Nat /\ MAX_LEVEL \in 0 .. MAX_LEVEL /\ t + 1 \in 0 .. MAX_LEVEL
      /\ MAX_LEVEL \in t + 1 .. MAX_LEVEL /\ t \in 0 .. MAX_LEVEL
      /\ Pow[MAX_LEVEL] \in Nat \ {0} /\ Pow[t + 1] \in Nat \ {0} /\ Pow[t] \in Nat \ {0}
  BY TreeAssumption, PowDouble DEF Slots
<1>1. \A k \in t + 1 .. MAX_LEVEL - 1 : Bit(c, k) = 0
  <2> SUFFICES ASSUME NEW k \in t + 1 .. MAX_LEVEL - 1 PROVE Bit(c, k) = 0
    OBVIOUS
  <2>1. k \in Slots
    BY <1>0 DEF Slots
  <2>2. ~ s.filled[k]
    BY DEF IsTopFilled
  <2>3. Bit(c, k) # 1
    BY <2>1, <2>2 DEF StackHolds, SlotHolds
  <2> QED BY <2>1, <2>3, BitSplit
<1>2. c % Pow[MAX_LEVEL] = c
  <2> DEFINE D == Pow[MAX_LEVEL]
             q == c \div D
             r == c % D
  <2>1. D \in Nat \ {0} /\ c < D
    BY <1>0
  <2> HIDE DEF D
  <2>2. q \in Nat /\ r \in Nat /\ c = D * q + r
    BY <2>1, DivMod
  <2> HIDE DEF q, r
  <2>3. q = 0
    BY <2>1, <2>2
  <2>4. c = r
    BY <2>1, <2>2, <2>3
  <2> QED BY <2>4 DEF r, D
<1>3. c % Pow[t + 1] = c
  BY <1>0, <1>1, <1>2, BitsClear
<1>4. c < Pow[t + 1]
  <2> DEFINE D == Pow[t + 1]
  <2>1. D \in Nat \ {0} /\ c % D = c
    BY <1>0, <1>3
  <2> HIDE DEF D
  <2>2. c < D
    BY <2>1, DivMod
  <2> QED BY <2>2 DEF D
<1>5. Bit(c, t) = 1
  BY DEF IsTopFilled, StackHolds, SlotHolds
<1>6. c % Pow[t + 1] = (c % Pow[t]) + Pow[t] /\ c % Pow[t] \in Nat
  BY <1>5, BitSplit
<1> QED
  BY <1>0, <1>3, <1>4, <1>5, <1>6

LEMMA LowestCount ==
    ASSUME NEW s, NEW c \in Nat, NEW a, NEW e, StackHolds(s, c, a, e),
           NEW t \in Slots, IsLowestFilled(s, t)
    PROVE  Bit(c, t) = 1 /\ c % Pow[t] = 0
PROOF
<1>0. /\ MAX_LEVEL \in Nat /\ 0 \in 0 .. MAX_LEVEL /\ t \in 0 .. MAX_LEVEL /\ Pow[0] = 1
  BY TreeAssumption, PowDouble
<1>1. \A k \in 0 .. t - 1 : Bit(c, k) = 0
  <2> SUFFICES ASSUME NEW k \in 0 .. t - 1 PROVE Bit(c, k) = 0
    OBVIOUS
  <2>1. k \in Slots
    BY <1>0 DEF Slots
  <2>2. ~ s.filled[k]
    BY DEF IsLowestFilled
  <2>3. Bit(c, k) # 1
    BY <2>1, <2>2 DEF StackHolds, SlotHolds
  <2> QED BY <2>1, <2>3, BitSplit
<1>2. c % Pow[t] = c % Pow[0]
  BY <1>0, <1>1, BitsClear
<1>3. c % 1 = 0
  OBVIOUS
<1>4. Bit(c, t) = 1
  BY DEF IsLowestFilled, StackHolds, SlotHolds
<1> QED
  BY <1>0, <1>2, <1>3, <1>4

(* A node past the end of the payload is a zero commitment. *)
LEMMA RunPastEnd ==
    ASSUME NEW h, NEW lo \in Nat, NEW e \in Nat, e <= lo
    PROVE  RunNode(h, lo, e) = Zero(h)
PROOF
<1>1. ~ (lo < e)
  OBVIOUS
<1> QED
  BY <1>1 DEF RunNode

(* What fold() hashes at the lowest slot, at a filled one and at an empty one. *)
LEMMA PlaceWhole ==
    ASSUME NEW c \in Nat, NEW a \in Nat, NEW l \in Slots, c % Pow[l] = 0
    PROVE  Place(c, l, a) = a + Q * c
PROOF
<1>1. Place(c, l, a) = a + Q * (c - 0)
  BY DEF Place
<1>2. Q \in Nat /\ c - 0 = c
  BY SpanFacts
<1> QED
  BY <1>1, <1>2

LEMMA FoldFirst ==
    ASSUME NEW s, NEW c \in Nat, NEW a \in Nat, NEW e \in Nat, StackHolds(s, c, a, e),
           NEW l \in Slots, s.filled[l], e <= Place(c, l, a)
    PROVE  /\ s.nodes[l] = RunNode(l + 1, Place(c, l + 1, a), e)
           /\ Zero(l + 1) = RunNode(l + 1, Place(c, l + 1, a) + Span(l), e)
PROOF
<1>1. s.nodes[l] = RunNode(l + 1, Place(c, l + 1, a), e) /\ Bit(c, l) = 1
  BY DEF StackHolds, SlotHolds
<1>2. Place(c, l + 1, a) + Span(l) = Place(c, l, a)
  BY <1>1, PlaceOfBit
<1>3. Place(c, l, a) \in Nat
  BY PowDouble, PlaceFacts
<1>4. RunNode(l + 1, Place(c, l, a), e) = Zero(l + 1)
  BY <1>3, RunPastEnd
<1> QED
  BY <1>1, <1>2, <1>4

LEMMA FoldFilled ==
    ASSUME NEW s, NEW c \in Nat, NEW a \in Nat, NEW e \in Nat, StackHolds(s, c, a, e),
           NEW l \in Slots, s.filled[l]
    PROVE  /\ s.nodes[l] = RunNode(l + 1, Place(c, l + 1, a), e)
           /\ RunNode(l + 1, Place(c, l, a), e)
                 = RunNode(l + 1, Place(c, l + 1, a) + Span(l), e)
PROOF
<1>1. s.nodes[l] = RunNode(l + 1, Place(c, l + 1, a), e) /\ Bit(c, l) = 1
  BY DEF StackHolds, SlotHolds
<1>2. Place(c, l + 1, a) + Span(l) = Place(c, l, a)
  BY <1>1, PlaceOfBit
<1> QED
  BY <1>1, <1>2

LEMMA FoldEmpty ==
    ASSUME NEW s, NEW c \in Nat, NEW a \in Nat, NEW e \in Nat, StackHolds(s, c, a, e),
           e <= a + Q * c, NEW l \in Slots, ~ s.filled[l]
    PROVE  /\ RunNode(l + 1, Place(c, l, a), e) = RunNode(l + 1, Place(c, l + 1, a), e)
           /\ Zero(l + 1) = RunNode(l + 1, Place(c, l + 1, a) + Span(l), e)
PROOF
<1>0. l \in 0 .. MAX_LEVEL /\ l + 1 \in 0 .. MAX_LEVEL /\ Q * c \in Nat /\ Span(l) \in Nat
  BY PowDouble, SpanFacts
<1>1. Bit(c, l) # 1
  BY DEF StackHolds, SlotHolds
<1>2. Place(c, l + 1, a) \in Nat /\ Place(c, l, a) \in Nat /\ a + Q * c < Place(c, l, a) + Span(l)
  BY <1>0, PlaceFacts
<1>3. Place(c, l, a) = Place(c, l + 1, a)
  <2> DEFINE x == Place(c, l + 1, a)
  <2>1. Place(c, l, a) = x + 0 /\ x \in Nat
    BY <1>1, <1>2, PlaceOfBit
  <2> HIDE DEF x
  <2>2. x + 0 = x
    BY <2>1
  <2> QED BY <2>1, <2>2 DEF x
<1>4. e <= Place(c, l + 1, a) + Span(l) /\ Place(c, l + 1, a) + Span(l) \in Nat
  BY <1>0, <1>2, <1>3
<1>5. RunNode(l + 1, Place(c, l + 1, a) + Span(l), e) = Zero(l + 1)
  BY <1>4, RunPastEnd
<1> QED
  BY <1>3, <1>5


-----------------------------------------------------------------------------
(* Types, and how many leaves a stack may hold. *)

LEMMA NodeTypes ==
    /\ \A k \in Int : Zero(k) \in Node
    /\ \A k, lo, hi \in Int : Extent(k, lo, hi) \in Node
    /\ Junk \in Node
    /\ \A x, y \in Node : HashPair(x, y) \in Node
PROOF
<1>1. \A k, lo, hi \in Int : Extent(k, lo, hi) \in Node
  BY DEF Extent, Node
<1>2. \A k \in Int : Zero(k) \in Node
  BY <1>1 DEF Zero
<1>3. Junk \in Node
  BY <1>1 DEF Junk
<1>4. ASSUME NEW x \in Node, NEW y \in Node PROVE HashPair(x, y) \in Node
  <2>1. x.level + 1 \in Int /\ x.lo \in Int /\ x.hi \in Int /\ y.hi \in Int
    BY DEF Node
  <2>2. Extent(x.level + 1, x.lo, x.hi) \in Node /\ Extent(x.level + 1, x.lo, y.hi) \in Node
    BY <1>1, <2>1
  <2> QED BY <1>3, <2>2 DEF HashPair
<1> QED
  BY <1>1, <1>2, <1>3, <1>4

LEMMA RunTypes ==
    ASSUME NEW l \in 0 .. MAX_LEVEL, NEW lo \in Nat, NEW e \in Nat
    PROVE  RunNode(l + 1, lo, e) \in Node
PROOF
<1>0. l + 1 \in Int /\ l + 1 - 1 = l /\ Span(l) \in Nat
  <2>1. MAX_LEVEL \in Nat
    BY TreeAssumption
  <2> QED BY <2>1, SpanFacts
<1>1. lo + Span(l + 1 - 1) \in Int
  BY <1>0
<1>2. CASE lo < e /\ e < lo + Span(l + 1 - 1)
  <2>1. RunNode(l + 1, lo, e) = Extent(l + 1, lo, e)
    BY <1>0, <1>2 DEF RunNode
  <2> QED BY <1>0, <2>1, NodeTypes
<1>3. CASE lo < e /\ ~ (e < lo + Span(l + 1 - 1))
  <2>1. RunNode(l + 1, lo, e) = Extent(l + 1, lo, lo + Span(l + 1 - 1))
    BY <1>0, <1>3 DEF RunNode
  <2> QED BY <1>0, <1>1, <2>1, NodeTypes
<1>4. CASE ~ (lo < e)
  <2>1. RunNode(l + 1, lo, e) = Zero(l + 1)
    BY <1>0, <1>4 DEF RunNode
  <2> QED BY <1>0, <2>1, NodeTypes
<1> QED
  BY <1>2, <1>3, <1>4

LEMMA StackNotNone ==
    ASSUME NEW s \in StackType
    PROVE  s # NoStack
PROOF
<1>1. "carry" \in DOMAIN s
  BY DEF StackType
<1>2. SUFFICES ASSUME s = NoStack PROVE FALSE
  OBVIOUS
<1>3. DOMAIN NoStack = 1 .. Len(NoStack) /\ Len(NoStack) = 0
  BY DEF NoStack
<1>4. DOMAIN NoStack = {}
  BY <1>3
<1> QED
  BY <1>1, <1>2, <1>4

(* The payload's leaves leave two levels of the tables free. *)
LEMMA Room ==
    /\ PAYLOAD_LEVEL \in 0 .. MAX_LEVEL /\ Pow[PAYLOAD_LEVEL] \in Nat \ {0}
    /\ MAX_PAYLOAD_SIZE = Q * Pow[PAYLOAD_LEVEL] /\ MAX_PAYLOAD_SIZE \in Nat
    /\ \A c \in Nat : c <= 2 * Pow[PAYLOAD_LEVEL] =>
          /\ c < Pow[MAX_LEVEL]
          /\ \A l \in Slots : /\ Pow[l + 1] <= c => l <= PAYLOAD_LEVEL
                              /\ Pow[l] < c => l <= PAYLOAD_LEVEL
PROOF
<1>0. /\ PAYLOAD_LEVEL \in Nat /\ PAYLOAD_LEVEL + 2 <= MAX_LEVEL /\ MAX_LEVEL \in Nat
      /\ PAYLOAD_LEVEL \in 0 .. MAX_LEVEL /\ PAYLOAD_LEVEL \in Slots
      /\ PAYLOAD_LEVEL + 1 \in 0 .. MAX_LEVEL /\ PAYLOAD_LEVEL + 1 \in Slots
      /\ PAYLOAD_LEVEL + 1 + 1 \in 0 .. MAX_LEVEL
      /\ MAX_LEVEL \in PAYLOAD_LEVEL + 1 + 1 .. MAX_LEVEL
  BY JsAssumption, TreeAssumption DEF Slots
<1>1. /\ Pow[PAYLOAD_LEVEL] \in Nat \ {0} /\ Pow[PAYLOAD_LEVEL + 1] = 2 * Pow[PAYLOAD_LEVEL]
      /\ Pow[PAYLOAD_LEVEL + 1 + 1] = 2 * Pow[PAYLOAD_LEVEL + 1]
      /\ Pow[PAYLOAD_LEVEL + 1] \in Nat \ {0}
  BY <1>0, PowDouble
<1>2. Pow[PAYLOAD_LEVEL + 1 + 1] <= Pow[MAX_LEVEL] /\ Pow[MAX_LEVEL] \in Nat
  BY <1>0, PowFacts
<1>3. Q \in Nat /\ Q * Pow[PAYLOAD_LEVEL] \in Nat
  BY <1>1, SpanFacts
<1>4. ASSUME NEW c \in Nat, c <= 2 * Pow[PAYLOAD_LEVEL], NEW l \in Slots, ~ (l <= PAYLOAD_LEVEL)
      PROVE  ~ (Pow[l + 1] <= c) /\ ~ (Pow[l] < c)
  <2>1. l \in PAYLOAD_LEVEL + 1 .. MAX_LEVEL /\ l \in 0 .. MAX_LEVEL
    BY <1>0, <1>4 DEF Slots
  <2>2. Pow[PAYLOAD_LEVEL + 1] <= Pow[l]
    BY <1>0, <2>1, PowFacts
  <2>3. Pow[l + 1] = 2 * Pow[l] /\ Pow[l] \in Nat \ {0}
    BY PowDouble
  <2> QED BY <1>1, <1>4, <2>2, <2>3
<1>5. \A c \in Nat : c <= 2 * Pow[PAYLOAD_LEVEL] => c < Pow[MAX_LEVEL]
  BY <1>1, <1>2
<1> QED
  BY <1>0, <1>1, <1>3, <1>4, <1>5 DEF MAX_PAYLOAD_SIZE


-----------------------------------------------------------------------------
(* Preservation: what the steps of a phase share. *)

LEMMA PushingNext ==
    ASSUME NEW w \in 0 .. Pow[PAYLOAD_LEVEL] - 1, Q * w = QuadAt',
           NEW b, b = Begin', NEW e, e = End',
           LEAVES' = <<RunNode(1, b + Q * (2 * w), e), RunNode(1, b + Q * (2 * w) + Span(0), e)>>,
           pc' = "push" => StackHolds(Stack', 2 * w + leaf', b, e),
           pc' # "push" => CarryHolds(Stack', 2 * w + leaf', level', b, e),
           pc' = "hash" =>
              /\ Stack'.filled[level']
              /\ CONCAT_BUFFER' =
                    <<RunNode(level' + 1, Place(2 * w + leaf', level' + 1, b), e),
                      RunNode(level' + 1, Place(2 * w + leaf', level' + 1, b) + Span(level'), e)>>
    PROVE  Pushing'
PROOF
  BY DEF Pushing, PairAt

LEMMA FoldingNext ==
    ASSUME NEW w \in 1 .. Pow[PAYLOAD_LEVEL], Holds(w, bytesWritten'[self']),
           NEW b, b = Begin', NEW e, e = End',
           StackHolds(Stack', 2 * w, b, e),
           IsLowestFilled(Stack', lowest'), IsTopFilled(Stack', top'),
           level' \in lowest' .. top',
           level' # lowest' => acc' = RunNode(level' + 1, Place(2 * w, level', b), e),
           pc' = "hash" =>
              /\ lowest' < top'
              /\ CONCAT_BUFFER' =
                    <<RunNode(level' + 1, Place(2 * w, level' + 1, b), e),
                      RunNode(level' + 1, Place(2 * w, level' + 1, b) + Span(level'), e)>>
    PROVE  Folding'
PROOF
  BY DEF Folding, PairAt


LEMMA CallFrame ==
    ASSUME UNCHANGED <<offset, bytesWritten, base, self, method, input, readOffset>>
    PROVE  Begin' = Begin /\ End' = End /\ QuadAt' = QuadAt
PROOF
  BY DEF Begin, End, QuadAt

LEMMA BufferedFrame ==
    ASSUME Buffered, UNCHANGED <<buffer, offset, bytesWritten, base>>
    PROVE  Buffered'
PROOF
  BY DEF Buffered

LEMMA StackedFrame ==
    ASSUME NEW h, Stacked(h), stacks'[h] = stacks[h], offset'[h] = offset[h],
           bytesWritten'[h] = bytesWritten[h], base'[h] = base[h]
    PROVE  Stacked(h)'
PROOF
  BY DEF Stacked

LEMMA Typed ==
    ASSUME Inv
    PROVE  /\ LEAVES \in Node \X Node /\ CONCAT_BUFFER \in Node \X Node
           /\ leaf \in 0 .. 2 /\ level \in Slots /\ lowest \in Slots /\ top \in Slots
           /\ acc \in Node /\ zeros \in Seq(Node) /\ level \in Nat /\ 0 \in Slots
           /\ input \in [first : Nat, len : Nat] /\ readOffset \in Nat
           /\ base \in [Hashers -> Nat] /\ bytesWritten \in [Hashers -> 0 .. MAX_PAYLOAD_SIZE]
           /\ offset \in [Hashers -> 0 .. Q - 1]
PROOF
<1>1. level \in Slots
  BY Zenon DEF Inv, TypeOK
<1>2. level \in Nat /\ 0 \in Slots
  BY <1>1, TreeAssumption DEF Slots
<1> QED
  BY <1>1, <1>2, Zenon DEF Inv, TypeOK

LEMMA SpanOfPayload ==
    ASSUME Inv, self \in Hashers
    PROVE  Begin \in Nat /\ End \in Nat /\ Begin <= End
PROOF
<1>1. base[self] \in Nat /\ bytesWritten[self] \in Nat /\ input.len \in Nat
  <2>1. bytesWritten[self] \in 0 .. MAX_PAYLOAD_SIZE /\ MAX_PAYLOAD_SIZE \in Nat
    BY Typed, Room
  <2> QED BY <2>1, Typed
<1> QED
  BY <1>1 DEF Begin, End

LEMMA StackTyped ==
    ASSUME Inv, pc # "idle"
    PROVE  Stack \in StackType /\ self \in Hashers
PROOF
<1>1. self \in Hashers /\ stacks \in [Hashers -> StackType] /\ copy \in StackType \cup {NoStack}
  BY DEF Inv, TypeOK, Control
<1> QED
  BY <1>1 DEF Stack

LEMMA SetStackFacts ==
    ASSUME Inv, PushPhase, NEW s \in StackType, SetStack(s), self' = self
    PROVE  /\ Stack' = s
           /\ copy' \in StackType \cup {NoStack} /\ (copy' = NoStack <=> copy = NoStack)
           /\ stacks' \in [Hashers -> StackType]
           /\ \A h \in Hashers : ~ (h = self /\ method = "write") => stacks'[h] = stacks[h]
PROOF
<1>1. /\ self \in Hashers /\ stacks \in [Hashers -> StackType] /\ copy \in StackType \cup {NoStack}
      /\ method = "write" => copy = NoStack
      /\ method \in {"write", "digest"} /\ (method = "digest" => copy # NoStack)
  BY DEF Inv, TypeOK, Control, PushPhase
<1>2. CASE copy = NoStack
  <2>1. stacks' = [stacks EXCEPT ![self] = s] /\ copy' = copy
    BY <1>2 DEF SetStack
  <2> QED BY <1>1, <1>2, <2>1 DEF Stack
<1>3. CASE copy # NoStack
  <2>1. copy' = s /\ stacks' = stacks
    BY <1>3 DEF SetStack
  <2>2. s # NoStack
    BY StackNotNone
  <2> QED BY <1>1, <1>3, <2>1, <2>2 DEF Stack
<1> QED
  BY <1>2, <1>3

LEMMA PushStays ==
    ASSUME Inv, PushPhase,
           UNCHANGED <<buffer, offset, bytesWritten, caller, LEAVES, zeros, self, method,
                       input, readOffset, lowest, top, acc>>,
           copy' \in StackType \cup {NoStack}, copy' = NoStack <=> copy = NoStack,
           stacks' \in [Hashers -> StackType],
           \A h \in Hashers : ~ (h = self /\ method = "write") => stacks'[h] = stacks[h],
           pc' \in {"push", "carry", "hash"}, leaf' \in 0 .. 2, pc' # "push" => leaf' < 2,
           level' \in Slots, CONCAT_BUFFER' \in Node \X Node,
           Pushing'
    PROVE  Inv'
PROOF
<1>1. TypeOK'
  BY DEF Inv, TypeOK, caller
<1>2. pc # "idle" /\ self \in Hashers /\ PushPhase' /\ ~ FoldPhase'
  <2>1. pc # "idle" /\ self \in Hashers
    BY Zenon DEF Inv, Control, PushPhase
  <2>2. pc' # "push" => ~ (leaf' = 2)
    BY Typed
  <2> QED BY <2>1, <2>2 DEF PushPhase, FoldPhase
<1>3. Control'
  <2>1. /\ base' = base /\ bytesWritten' = bytesWritten /\ offset' = offset /\ self' = self
        /\ method' = method /\ input' = input /\ readOffset' = readOffset
    BY DEF caller
  <2>2. (pc' = "idle") <=> (self' = NoHasher)
    BY <1>2, <2>1, JsAssumption
  <2>3. NeedsTail(self)' <=> NeedsTail(self)
    BY <2>1 DEF NeedsTail
  <2>4. Control
    BY DEF Inv
  <2> QED BY <1>2, <2>1, <2>2, <2>3, <2>4 DEF Control
<1>4. Buffered'
  BY BufferedFrame DEF Inv, caller
<1>5. Resting'
  <2> SUFFICES ASSUME NEW h \in Hashers, ~ (h = self' /\ method' = "write")
               PROVE  Stacked(h)'
    BY DEF Resting
  <2>1. Stacked(h) /\ stacks'[h] = stacks[h]
    BY DEF Inv, Resting
  <2> QED BY <2>1, StackedFrame DEF caller
<1>6. ZerosRight'
  BY DEF Inv, ZerosRight
<1> QED
  BY <1>1, <1>2, <1>3, <1>4, <1>5, <1>6 DEF Inv, Phases

-----------------------------------------------------------------------------
(* push(), one step a lemma. *)

LEMMA PushLeafInv ==
    ASSUME Inv, PushLeaf
    PROVE  Inv'
PROOF
<1> DEFINE s == [Stack EXCEPT !.carry = LEAVES[leaf + 1]]
<1>0. pc = "push" /\ leaf \in 0 .. 1 /\ PushPhase /\ pc # "idle"
  <2>1. pc = "push" /\ leaf < 2
    BY DEF PushLeaf
  <2>2. leaf \in 0 .. 1
    BY <2>1, Typed
  <2> QED BY <2>1, <2>2 DEF PushPhase
<1>1. Stack \in StackType /\ self \in Hashers
  BY <1>0, StackTyped
<1>2. LEAVES \in Node \X Node /\ LEAVES[leaf + 1] \in Node
  BY <1>0, Typed
<1>3. s \in StackType /\ s.nodes = Stack.nodes /\ s.filled = Stack.filled /\ s.carry = LEAVES[leaf + 1]
  BY <1>1, <1>2 DEF StackType
<1> HIDE DEF s
<1>4. SetStack(s) /\ pc' = "carry" /\ level' = 0 /\ leaf' = leaf
      /\ UNCHANGED <<buffer, offset, bytesWritten, caller, LEAVES, CONCAT_BUFFER, zeros,
                     self, method, input, readOffset, lowest, top, acc>>
  BY DEF PushLeaf, s
<1>5. /\ Stack' = s
      /\ copy' \in StackType \cup {NoStack} /\ (copy' = NoStack <=> copy = NoStack)
      /\ stacks' \in [Hashers -> StackType]
      /\ \A h \in Hashers : ~ (h = self /\ method = "write") => stacks'[h] = stacks[h]
  BY <1>0, <1>3, <1>4, SetStackFacts
<1>6. Pushing'
  <2>1. Pushing
    BY <1>0 DEF Inv, Phases
  <2>2. PICK w \in 0 .. Pow[PAYLOAD_LEVEL] - 1 :
           /\ Q * w = QuadAt
           /\ LEAVES = PairAt(0, Begin + Q * (2 * w))
           /\ StackHolds(Stack, 2 * w + leaf, Begin, End)
    BY <1>0, <2>1 DEF Pushing
  <2>3. Begin' = Begin /\ End' = End /\ QuadAt' = QuadAt
    BY <1>4, CallFrame DEF caller
  <2>4. Begin \in Nat /\ End \in Nat /\ w \in Nat /\ 2 * w + leaf \in Nat
    <3>1. Pow[PAYLOAD_LEVEL] \in Nat
      BY Room
    <3> QED BY <1>0, <1>1, <3>1, SpanOfPayload
  <2>5. CarryHolds(s, 2 * w + leaf, 0, Begin, End)
    <3>1. StackHolds(s, 2 * w + leaf, Begin, End)
      BY <1>3, <2>2 DEF StackHolds, SlotHolds
    <3>2. s.carry = RunNode(1, Begin + Q * (2 * w + leaf), End)
      <4>1. CASE leaf = 0
        BY <1>3, <2>2, <2>4, <4>1 DEF PairAt
      <4>2. CASE leaf = 1
        <5>1. s.carry = RunNode(0 + 1, Begin + Q * (2 * w) + Span(0), End)
          BY <1>3, <2>2, <4>2 DEF PairAt
        <5>2. Begin + Q * (2 * w) + Span(0) = Begin + Q * (2 * w + leaf) /\ 0 + 1 = 1
          <6>1. Span(0) = Q /\ Q \in Nat
            BY SpanFacts
          <6> QED BY <2>4, <4>2, <6>1
        <5> QED BY <5>1, <5>2
      <4> QED BY <1>0, <4>1, <4>2
    <3> QED BY <2>4, <3>1, <3>2, CarryBegins
  <2>6. LEAVES' = <<RunNode(1, Begin + Q * (2 * w), End), RunNode(1, Begin + Q * (2 * w) + Span(0), End)>>
    BY <1>4, <2>2 DEF PairAt
  <2> QED
    BY <1>4, <1>5, <2>2, <2>3, <2>5, <2>6, PushingNext
<1>7. CONCAT_BUFFER' \in Node \X Node /\ level' \in Slots /\ leaf' \in 0 .. 2 /\ leaf' < 2
  <2>1. leaf' = leaf /\ level' = 0 /\ CONCAT_BUFFER' = CONCAT_BUFFER
    BY <1>4
  <2> QED BY <1>0, <2>1, Typed
<1> QED
  BY <1>0, <1>4, <1>5, <1>6, <1>7, PushStays


(* The leaf under way, and how far its carry can come. *)
LEMMA Carrying ==
    ASSUME Inv, pc = "carry" \/ (pc = "hash" /\ leaf < 2)
    PROVE  \E w \in 0 .. Pow[PAYLOAD_LEVEL] - 1 :
              /\ Q * w = QuadAt
              /\ LEAVES = PairAt(0, Begin + Q * (2 * w))
              /\ 2 * w + leaf \in Nat /\ 2 * w + leaf + 1 <= 2 * Pow[PAYLOAD_LEVEL]
              /\ level \in Slots
              /\ CarryHolds(Stack, 2 * w + leaf, level, Begin, End)
              /\ Stack.filled[level] => level + 1 \in Slots /\ level + 2 <= MAX_LEVEL
              /\ pc = "hash" => /\ Stack.filled[level]
                                /\ CONCAT_BUFFER = PairAt(level, Place(2 * w + leaf, level + 1, Begin))
PROOF
<1>0. pc # "push" /\ PushPhase
  BY DEF PushPhase
<1>1. leaf \in 0 .. 1
  <2>1. leaf \in 0 .. 2
    BY Typed
  <2>2. pc = "carry" => leaf < 2
    BY Zenon DEF Inv, Control
  <2>3. leaf < 2
    BY <2>2
  <2> QED BY <2>1, <2>3
<1>2. Pushing
  BY <1>0 DEF Inv, Phases
<1>3. PICK w \in 0 .. Pow[PAYLOAD_LEVEL] - 1 :
         /\ Q * w = QuadAt
         /\ LEAVES = PairAt(0, Begin + Q * (2 * w))
         /\ CarryHolds(Stack, 2 * w + leaf, level, Begin, End)
         /\ pc = "hash" => /\ Stack.filled[level]
                           /\ CONCAT_BUFFER = PairAt(level, Place(2 * w + leaf, level + 1, Begin))
  BY <1>0, <1>2 DEF Pushing
<1>4. 2 * w + leaf \in Nat /\ 2 * w + leaf + 1 <= 2 * Pow[PAYLOAD_LEVEL]
      /\ 2 * w + leaf + 1 \in Nat
  <2>1. Pow[PAYLOAD_LEVEL] \in Nat
    BY Room
  <2> QED BY <1>1, <2>1
<1>5. level \in Slots
  BY <1>3 DEF CarryHolds
<1>6. ASSUME Stack.filled[level] PROVE level + 1 \in Slots /\ level + 2 <= MAX_LEVEL
  <2>1. Begin \in Nat /\ End \in Nat
    <3>1. self \in Hashers
      BY <1>0, StackTyped DEF PushPhase
    <3> QED BY <3>1, SpanOfPayload
  <2>2. Pow[level + 1] <= 2 * w + leaf + 1
    BY <1>3, <1>4, <1>5, <1>6, <2>1, CarryPair
  <2>3. level <= PAYLOAD_LEVEL
    BY <1>4, <1>5, <2>2, Room
  <2>4. PAYLOAD_LEVEL + 2 <= MAX_LEVEL /\ PAYLOAD_LEVEL \in Nat /\ MAX_LEVEL \in Nat
    BY JsAssumption, TreeAssumption
  <2> QED BY <1>5, <2>3, <2>4 DEF Slots
<1> QED
  BY <1>3, <1>4, <1>5, <1>6

LEMMA CarryLoadInv ==
    ASSUME Inv, CarryLoad
    PROVE  Inv'
PROOF
<1>0. pc = "carry" /\ PushPhase /\ pc # "idle" /\ Stack.filled[level]
  BY DEF CarryLoad, PushPhase
<1>1. Stack \in StackType /\ self \in Hashers
  BY <1>0, StackTyped
<1>2. CONCAT_BUFFER' = <<Stack.nodes[level], Stack.carry>> /\ pc' = "hash"
      /\ UNCHANGED <<hasher, caller, LEAVES, zeros, self, method, input, readOffset,
                     copy, leaf, level, lowest, top, acc>>
  BY DEF CarryLoad
<1>3. PICK w \in 0 .. Pow[PAYLOAD_LEVEL] - 1 :
         /\ Q * w = QuadAt
         /\ LEAVES = PairAt(0, Begin + Q * (2 * w))
         /\ 2 * w + leaf \in Nat /\ level \in Slots
         /\ CarryHolds(Stack, 2 * w + leaf, level, Begin, End)
  BY <1>0, Carrying
<1>4. Begin' = Begin /\ End' = End /\ QuadAt' = QuadAt /\ Stack' = Stack
  BY <1>2, CallFrame DEF hasher, caller, Stack
<1>5. Begin \in Nat /\ End \in Nat
  BY <1>1, SpanOfPayload
<1>6. CONCAT_BUFFER' = <<RunNode(level + 1, Place(2 * w + leaf, level + 1, Begin), End),
                         RunNode(level + 1, Place(2 * w + leaf, level + 1, Begin) + Span(level), End)>>
  BY <1>0, <1>2, <1>3, <1>5, CarryPair
<1>7. LEAVES' = <<RunNode(1, Begin + Q * (2 * w), End), RunNode(1, Begin + Q * (2 * w) + Span(0), End)>>
  BY <1>2, <1>3 DEF PairAt
<1>8. Pushing'
  BY <1>0, <1>2, <1>3, <1>4, <1>6, <1>7, PushingNext
<1>9. CONCAT_BUFFER' \in Node \X Node
  BY <1>1, <1>2, <1>3 DEF StackType, StackNodes
<1>10. leaf' \in 0 .. 2 /\ leaf' < 2 /\ level' \in Slots
  <2>1. leaf < 2
    BY <1>0, Zenon DEF Inv, Control
  <2>2. leaf' = leaf /\ level' = level
    BY <1>2
  <2> QED BY <2>1, <2>2, Typed
<1>11. /\ copy' \in StackType \cup {NoStack} /\ (copy' = NoStack <=> copy = NoStack)
       /\ stacks' \in [Hashers -> StackType]
       /\ \A h \in Hashers : ~ (h = self /\ method = "write") => stacks'[h] = stacks[h]
  BY <1>2 DEF Inv, TypeOK, hasher
<1> QED
  BY <1>0, <1>2, <1>8, <1>9, <1>10, <1>11, PushStays DEF hasher

LEMMA CarryHashInv ==
    ASSUME Inv, CarryHash
    PROVE  Inv'
PROOF
<1> DEFINE s == [Stack EXCEPT !.carry = HashPair(CONCAT_BUFFER[1], CONCAT_BUFFER[2]),
                              !.filled[level] = FALSE]
<1>0. pc = "hash" /\ leaf < 2 /\ PushPhase /\ pc # "idle"
  BY DEF CarryHash, PushPhase
<1>1. Stack \in StackType /\ self \in Hashers
  BY <1>0, StackTyped
<1>2. PICK w \in 0 .. Pow[PAYLOAD_LEVEL] - 1 :
         /\ Q * w = QuadAt
         /\ LEAVES = PairAt(0, Begin + Q * (2 * w))
         /\ 2 * w + leaf \in Nat /\ level \in Slots
         /\ CarryHolds(Stack, 2 * w + leaf, level, Begin, End)
         /\ Stack.filled[level] /\ level + 1 \in Slots
         /\ CONCAT_BUFFER = PairAt(level, Place(2 * w + leaf, level + 1, Begin))
  BY <1>0, Carrying
<1>3. Begin \in Nat /\ End \in Nat
  BY <1>1, SpanOfPayload
<1>4. CONCAT_BUFFER[1] = Stack.nodes[level] /\ CONCAT_BUFFER[2] = Stack.carry
  <2>1. /\ Stack.nodes[level] = RunNode(level + 1, Place(2 * w + leaf, level + 1, Begin), End)
        /\ Stack.carry = RunNode(level + 1, Place(2 * w + leaf, level + 1, Begin) + Span(level), End)
    BY <1>2, <1>3, CarryPair
  <2> QED BY <1>2, <2>1 DEF PairAt
<1>5. /\ Stack.nodes \in [Slots -> Node] /\ Stack.filled \in [Slots -> BOOLEAN] /\ Stack.carry \in Node
      /\ HashPair(Stack.nodes[level], Stack.carry) \in Node
  BY <1>1, <1>2, NodeTypes DEF StackType, StackNodes
<1>6. /\ s.carry = HashPair(Stack.nodes[level], Stack.carry) /\ s.nodes = Stack.nodes
      /\ s.filled = [Stack.filled EXCEPT ![level] = FALSE]
      /\ s \in StackType
  <2> DEFINE x == HashPair(CONCAT_BUFFER[1], CONCAT_BUFFER[2])
  <2>1. x = HashPair(Stack.nodes[level], Stack.carry) /\ x \in Node
    BY <1>4, <1>5
  <2>2. s = [[Stack EXCEPT !.carry = x] EXCEPT !.filled = [Stack.filled EXCEPT ![level] = FALSE]]
    BY <1>1 DEF StackType
  <2> HIDE DEF x
  <2>3. [Stack.filled EXCEPT ![level] = FALSE] \in [Slots -> BOOLEAN]
    BY <1>5
  <2> HIDE DEF s
  <2> QED BY <1>1, <1>5, <2>1, <2>2, <2>3 DEF StackType, StackNodes
<1>7. \A k \in Slots : s.filled[k] <=> (k # level /\ Stack.filled[k])
  BY <1>2, <1>5, <1>6
<1> HIDE DEF s
<1>8. SetStack(s) /\ level' = level + 1 /\ pc' = "carry" /\ leaf' = leaf
      /\ UNCHANGED <<buffer, offset, bytesWritten, caller, LEAVES, CONCAT_BUFFER, zeros,
                     self, method, input, readOffset, lowest, top, acc>>
  BY DEF CarryHash, s
<1>9. /\ Stack' = s
      /\ copy' \in StackType \cup {NoStack} /\ (copy' = NoStack <=> copy = NoStack)
      /\ stacks' \in [Hashers -> StackType]
      /\ \A h \in Hashers : ~ (h = self /\ method = "write") => stacks'[h] = stacks[h]
  BY <1>0, <1>6, <1>8, SetStackFacts
<1>10. CarryHolds(s, 2 * w + leaf, level + 1, Begin, End)
  <2>1. s.carry = HashPair(Stack.nodes[level], Stack.carry) /\ s.nodes = Stack.nodes
    BY <1>6
  <2> QED BY <1>1, <1>2, <1>3, <1>7, <2>1, CarryMerges
<1>11. Begin' = Begin /\ End' = End /\ QuadAt' = QuadAt
  BY <1>8, CallFrame DEF caller
<1>12. LEAVES' = <<RunNode(1, Begin + Q * (2 * w), End), RunNode(1, Begin + Q * (2 * w) + Span(0), End)>>
  BY <1>2, <1>8 DEF PairAt
<1>13. Pushing'
  BY <1>2, <1>8, <1>9, <1>10, <1>11, <1>12, PushingNext
<1>14. CONCAT_BUFFER' \in Node \X Node /\ leaf' \in 0 .. 2 /\ leaf' < 2 /\ level' \in Slots
  <2>1. leaf' = leaf /\ level' = level + 1 /\ CONCAT_BUFFER' = CONCAT_BUFFER
    BY <1>8
  <2> QED BY <1>0, <1>2, <2>1, Typed
<1> QED
  BY <1>0, <1>8, <1>9, <1>13, <1>14, PushStays

LEMMA CarryStoreInv ==
    ASSUME Inv, CarryStore
    PROVE  Inv'
PROOF
<1> DEFINE s == [Stack EXCEPT !.nodes[level] = Stack.carry, !.filled[level] = TRUE]
<1>0. pc = "carry" /\ ~ Stack.filled[level] /\ PushPhase /\ pc # "idle"
  BY DEF CarryStore, PushPhase
<1>1. Stack \in StackType /\ self \in Hashers
  BY <1>0, StackTyped
<1>2. PICK w \in 0 .. Pow[PAYLOAD_LEVEL] - 1 :
         /\ Q * w = QuadAt
         /\ LEAVES = PairAt(0, Begin + Q * (2 * w))
         /\ 2 * w + leaf \in Nat /\ level \in Slots
         /\ CarryHolds(Stack, 2 * w + leaf, level, Begin, End)
  BY <1>0, Carrying
<1>3. Begin \in Nat /\ End \in Nat
  BY <1>1, SpanOfPayload
<1>4. /\ Stack.nodes \in [Slots -> Node] /\ Stack.filled \in [Slots -> BOOLEAN] /\ Stack.carry \in Node
  BY <1>1 DEF StackType, StackNodes
<1>5. /\ s.nodes = [Stack.nodes EXCEPT ![level] = Stack.carry]
      /\ s.filled = [Stack.filled EXCEPT ![level] = TRUE]
      /\ s \in StackType
  <2>1. s = [[Stack EXCEPT !.nodes = [Stack.nodes EXCEPT ![level] = Stack.carry]]
                    EXCEPT !.filled = [Stack.filled EXCEPT ![level] = TRUE]]
    BY <1>1 DEF StackType
  <2>2. /\ [Stack.nodes EXCEPT ![level] = Stack.carry] \in [Slots -> Node]
        /\ [Stack.filled EXCEPT ![level] = TRUE] \in [Slots -> BOOLEAN]
    BY <1>4
  <2> HIDE DEF s
  <2> QED BY <1>1, <1>4, <2>1, <2>2 DEF StackType, StackNodes
<1> HIDE DEF s
<1>6. SetStack(s) /\ leaf' = leaf + 1 /\ level' = 0 /\ pc' = "push"
      /\ UNCHANGED <<buffer, offset, bytesWritten, caller, LEAVES, CONCAT_BUFFER, zeros,
                     self, method, input, readOffset, lowest, top, acc>>
  BY DEF CarryStore, s
<1>7. /\ Stack' = s
      /\ copy' \in StackType \cup {NoStack} /\ (copy' = NoStack <=> copy = NoStack)
      /\ stacks' \in [Hashers -> StackType]
      /\ \A h \in Hashers : ~ (h = self /\ method = "write") => stacks'[h] = stacks[h]
  BY <1>0, <1>5, <1>6, SetStackFacts
<1>8. StackHolds(s, 2 * w + leaf + 1, Begin, End)
  BY <1>0, <1>1, <1>2, <1>3, <1>5, CarryStored
<1>9. 2 * w + leaf + 1 = 2 * w + leaf'
  BY <1>2, <1>6, Typed
<1>10. Begin' = Begin /\ End' = End /\ QuadAt' = QuadAt
  BY <1>6, CallFrame DEF caller
<1>11. LEAVES' = <<RunNode(1, Begin + Q * (2 * w), End), RunNode(1, Begin + Q * (2 * w) + Span(0), End)>>
  BY <1>2, <1>6 DEF PairAt
<1>12. Pushing'
  BY <1>2, <1>6, <1>7, <1>8, <1>9, <1>10, <1>11, PushingNext
<1>13. CONCAT_BUFFER' \in Node \X Node /\ leaf' \in 0 .. 2 /\ level' \in Slots
  <2>1. leaf' = leaf + 1 /\ level' = 0 /\ CONCAT_BUFFER' = CONCAT_BUFFER
    BY <1>6
  <2>2. leaf < 2
    BY <1>0, Zenon DEF Inv, Control
  <2> QED BY <2>1, <2>2, Typed
<1> QED
  BY <1>0, <1>6, <1>7, <1>12, <1>13, PushStays


-----------------------------------------------------------------------------
(* fold(), one step a lemma. *)

(* The only filled slot is the top one, or the leaves go beyond it. *)
LEMMA TopAndLowest ==
    ASSUME NEW c \in Nat, NEW low \in Slots, NEW high \in low .. MAX_LEVEL - 1,
           Bit(c, low) = 1, c % Pow[low] = 0, Bit(c, high) = 1, c % Pow[high + 1] = c
    PROVE  /\ low = high => c = Pow[high]
           /\ low < high => Pow[high] < c
PROOF
<1>0. /\ high \in Slots /\ high \in 0 .. MAX_LEVEL /\ low \in 0 .. MAX_LEVEL
      /\ Pow[high] \in Nat \ {0}
  <2>1. high \in Slots /\ MAX_LEVEL \in Nat
    BY TreeAssumption DEF Slots
  <2> QED BY <2>1, PowDouble
<1>1. c = (c % Pow[high]) + Pow[high] /\ c % Pow[high] \in Nat
  BY <1>0, BitSplit
<1>2. low = high => c = Pow[high]
  BY <1>0, <1>1
<1>3. ASSUME low < high, c % Pow[high] = 0 PROVE FALSE
  <2>1. Bit(c, low) = 0
    BY <1>0, <1>3, BitsBelow
  <2> QED BY <2>1
<1> QED
  BY <1>0, <1>1, <1>2, <1>3

LEMMA FoldingNow ==
    ASSUME Inv, FoldPhase
    PROVE  /\ self \in Hashers /\ method = "digest" /\ leaf = 2
           /\ Begin = 2 * base[self] /\ End = 2 * (base[self] + bytesWritten[self])
           /\ base[self] \in Nat /\ bytesWritten[self] \in Nat
           /\ level \in Slots /\ lowest \in Slots /\ top \in Slots
           /\ \E w \in 1 .. Pow[PAYLOAD_LEVEL] :
                 /\ Holds(w, bytesWritten[self])
                 /\ 2 * w \in Nat /\ End <= Begin + Q * (2 * w)
                 /\ StackHolds(Stack, 2 * w, Begin, End)
                 /\ IsLowestFilled(Stack, lowest) /\ IsTopFilled(Stack, top)
                 /\ level \in lowest .. top
                 /\ Bit(2 * w, lowest) = 1 /\ (2 * w) % Pow[lowest] = 0
                 /\ Pow[top] <= 2 * w /\ 2 * w < Pow[top + 1] /\ (2 * w) % Pow[top + 1] = 2 * w
                 /\ lowest = top => 2 * w = Pow[top]
                 /\ lowest < top => Pow[top] < 2 * w /\ top <= PAYLOAD_LEVEL
                 /\ level # lowest => acc = RunNode(level + 1, Place(2 * w, level, Begin), End)
                 /\ pc = "hash" => /\ lowest < top
                                   /\ CONCAT_BUFFER = PairAt(level, Place(2 * w, level + 1, Begin))
PROOF
<1>1. self \in Hashers /\ method = "digest" /\ leaf = 2 /\ input.len = 0
  <2>1. pc # "idle"
    BY DEF FoldPhase
  <2> QED BY <2>1, Zenon DEF Inv, Control
<1>2. base[self] \in Nat /\ bytesWritten[self] \in Nat
  <2>1. bytesWritten[self] \in 0 .. MAX_PAYLOAD_SIZE /\ MAX_PAYLOAD_SIZE \in Nat
    BY <1>1, Typed, Room
  <2> QED BY <1>1, <2>1, Typed
<1>3. Begin = 2 * base[self] /\ End = 2 * (base[self] + bytesWritten[self])
  BY <1>1, <1>2 DEF Begin, End
<1>4. lowest \in Slots /\ top \in Slots
  BY Typed
<1>5. PICK w \in 1 .. Pow[PAYLOAD_LEVEL] :
         /\ Holds(w, bytesWritten[self])
         /\ StackHolds(Stack, 2 * w, Begin, End)
         /\ IsLowestFilled(Stack, lowest) /\ IsTopFilled(Stack, top)
         /\ level \in lowest .. top
         /\ level # lowest => acc = RunNode(level + 1, Place(2 * w, level, Begin), End)
         /\ pc = "hash" => /\ lowest < top
                           /\ CONCAT_BUFFER = PairAt(level, Place(2 * w, level + 1, Begin))
  <2>1. Folding
    BY DEF Inv, Phases
  <2> QED BY <2>1 DEF Folding
<1>6. w \in Nat /\ 2 * w \in Nat /\ 2 * w <= 2 * Pow[PAYLOAD_LEVEL]
  <2>1. Pow[PAYLOAD_LEVEL] \in Nat
    BY Room
  <2> QED BY <2>1
<1>7. level \in Slots
  <2>1. MAX_LEVEL \in Nat
    BY TreeAssumption
  <2> QED BY <1>4, <1>5, <2>1 DEF Slots
<1>8. End <= Begin + Q * (2 * w)
  <2>1. bytesWritten[self] <= Q * w
    BY <1>5 DEF Holds
  <2>2. Q \in Nat /\ Q * w \in Nat /\ Q * (2 * w) = 2 * (Q * w)
    <3>1. Q \in Nat
      BY SpanFacts
    <3> QED BY <1>6, <3>1
  <2> QED BY <1>2, <1>3, <2>1, <2>2
<1>9. 2 * w < Pow[MAX_LEVEL]
  BY <1>6, Room
<1>10. Bit(2 * w, top) = 1 /\ Pow[top] <= 2 * w /\ 2 * w < Pow[top + 1] /\ (2 * w) % Pow[top + 1] = 2 * w
  BY <1>4, <1>5, <1>6, <1>9, TopCount
<1>11. Bit(2 * w, lowest) = 1 /\ (2 * w) % Pow[lowest] = 0
  BY <1>4, <1>5, <1>6, LowestCount
<1>12. (lowest = top => 2 * w = Pow[top]) /\ (lowest < top => Pow[top] < 2 * w)
  <2>1. top \in lowest .. MAX_LEVEL - 1
    <3>1. MAX_LEVEL \in Nat
      BY TreeAssumption
    <3> QED BY <1>4, <1>5, <3>1 DEF Slots
  <2> QED BY <1>4, <1>6, <1>10, <1>11, <2>1, TopAndLowest
<1>13. lowest < top => top <= PAYLOAD_LEVEL
  BY <1>4, <1>6, <1>12, Room
<1> QED
  BY <1>1, <1>2, <1>3, <1>4, <1>5, <1>6, <1>7, <1>8, <1>10, <1>11, <1>12, <1>13

LEMMA FoldStays ==
    ASSUME Inv, FoldPhase,
           UNCHANGED <<hasher, caller, LEAVES, self, method, input, readOffset, copy, leaf,
                       lowest, top>>,
           pc' \in {"fold", "hash"}, level' \in Slots, acc' \in Node,
           CONCAT_BUFFER' \in Node \X Node, zeros' \in Seq(Node), ZerosRight', Folding'
    PROVE  Inv'
PROOF
<1>1. TypeOK'
  BY DEF Inv, TypeOK, hasher, caller
<1>2. pc # "idle" /\ self \in Hashers /\ method = "digest" /\ leaf = 2 /\ leaf' = 2
  BY FoldingNow DEF FoldPhase
<1>3. ~ PushPhase'
  <2>1. ~ (leaf' < 2)
    BY <1>2
  <2> QED BY <2>1 DEF PushPhase
<1>4. Control'
  <2>1. self' = self /\ method' = method /\ input' = input
    OBVIOUS
  <2>2. (pc' = "idle") <=> (self' = NoHasher)
    BY <1>2, <2>1, JsAssumption
  <2>3. method # "write" => input.len = 0
    BY Zenon DEF Inv, Control
  <2> QED BY <1>2, <1>3, <2>1, <2>2, <2>3 DEF Control
<1>5. Buffered'
  BY BufferedFrame DEF Inv, hasher, caller
<1>6. Resting'
  <2> SUFFICES ASSUME NEW h \in Hashers PROVE Stacked(h)'
    BY DEF Resting
  <2>1. Stacked(h)
    BY <1>2 DEF Inv, Resting
  <2> QED BY <2>1, StackedFrame DEF hasher, caller
<1> QED
  BY <1>1, <1>3, <1>4, <1>5, <1>6 DEF Inv, Phases

LEMMA ZeroFillInv ==
    ASSUME Inv, ZeroFill
    PROVE  Inv'
PROOF
<1> DEFINE n == Len(zeros)
           z == HashPair(zeros[n], zeros[n])
<1>0. pc = "fold" /\ FoldPhase /\ UNCHANGED <<hasher, caller, LEAVES, call>>
      /\ CONCAT_BUFFER' = <<zeros[n], zeros[n]>>
      /\ zeros' = Append(zeros, HashPair(CONCAT_BUFFER'[1], CONCAT_BUFFER'[2]))
  BY DEF ZeroFill, FoldPhase
<1>1. zeros \in Seq(Node) /\ n >= 1 /\ n \in Nat /\ n \in 1 .. n /\ \A k \in 1 .. n : zeros[k] = Zero(k - 1)
  BY Typed DEF Inv, ZerosRight
<1>2. zeros[n] = Zero(n - 1) /\ zeros[n] \in Node
  BY <1>1
<1>3. z = Zero(n) /\ Zero(n) \in Node
  <2>1. HashPair(Extent(n - 1, 0, 0), Zero(n - 1)) = Extent(n - 1 + 1, 0, 0)
    BY <1>1, JoinZero
  <2>2. n - 1 + 1 = n
    BY <1>1
  <2> QED BY <1>1, <1>2, <2>1, <2>2, NodeTypes DEF Zero
<1> HIDE DEF z
<1>4. zeros' = Append(zeros, z)
  BY <1>0 DEF z
<1> HIDE DEF n
<1>5. zeros' \in Seq(Node) /\ ZerosRight'
  <2>1. zeros' \in Seq(Node) /\ Len(zeros') = n + 1
    BY <1>1, <1>3, <1>4 DEF n
  <2>2. \A k \in 1 .. n + 1 : zeros'[k] = Zero(k - 1)
    <3> SUFFICES ASSUME NEW k \in 1 .. n + 1 PROVE zeros'[k] = Zero(k - 1)
      OBVIOUS
    <3>1. CASE k = n + 1
      <4>1. zeros'[k] = z
        BY <1>1, <1>4, <3>1 DEF n
      <4>2. k - 1 = n
        BY <1>1, <3>1
      <4> QED BY <1>3, <4>1, <4>2
    <3>2. CASE k # n + 1
      <4>1. k \in 1 .. n /\ zeros'[k] = zeros[k]
        BY <1>1, <1>4, <3>2 DEF n
      <4> QED BY <1>1, <4>1
    <3> QED BY <3>1, <3>2
  <2> QED BY <1>1, <2>1, <2>2 DEF ZerosRight
<1>6. Folding'
  <2>1. Folding
    BY <1>0 DEF Inv, Phases
  <2>2. PICK w \in 1 .. Pow[PAYLOAD_LEVEL] :
         /\ Holds(w, bytesWritten[self])
         /\ StackHolds(Stack, 2 * w, Begin, End)
         /\ IsLowestFilled(Stack, lowest) /\ IsTopFilled(Stack, top)
         /\ level \in lowest .. top
         /\ level # lowest => acc = RunNode(level + 1, Place(2 * w, level, Begin), End)
    BY <2>1 DEF Folding
  <2>3. Begin' = Begin /\ End' = End /\ Stack' = Stack
    BY <1>0, CallFrame DEF hasher, caller, call, Stack
  <2> QED BY <1>0, <2>2, <2>3, FoldingNext DEF hasher, caller, call
<1>7. CONCAT_BUFFER' \in Node \X Node
  BY <1>0, <1>2
<1>8. level' \in Slots /\ acc' \in Node /\ pc' = "fold"
  BY <1>0, Typed DEF call
<1> QED
  BY <1>0, <1>5, <1>6, <1>7, <1>8, FoldStays DEF call

LEMMA FoldLoadInv ==
    ASSUME Inv, FoldLoad
    PROVE  Inv'
PROOF
<1>0. pc = "fold" /\ pc # "idle" /\ FoldPhase /\ lowest < top /\ ~ ZeroMissing
      /\ CONCAT_BUFFER' = FoldPair /\ pc' = "hash"
      /\ UNCHANGED <<hasher, caller, LEAVES, zeros, self, method, input, readOffset,
                     copy, leaf, level, lowest, top, acc>>
  BY DEF FoldLoad, FoldPhase
<1>1. Stack \in StackType /\ self \in Hashers
  BY <1>0, StackTyped
<1>2. level \in Slots /\ lowest \in Slots /\ top \in Slots
  BY <1>0, FoldingNow
<1>3. PICK w \in 1 .. Pow[PAYLOAD_LEVEL] :
         /\ Holds(w, bytesWritten[self])
         /\ 2 * w \in Nat /\ End <= Begin + Q * (2 * w)
         /\ StackHolds(Stack, 2 * w, Begin, End)
         /\ IsLowestFilled(Stack, lowest) /\ IsTopFilled(Stack, top)
         /\ level \in lowest .. top
         /\ Bit(2 * w, lowest) = 1 /\ (2 * w) % Pow[lowest] = 0
         /\ level # lowest => acc = RunNode(level + 1, Place(2 * w, level, Begin), End)
  BY <1>0, FoldingNow
<1>4. Begin \in Nat /\ End \in Nat
  BY <1>1, SpanOfPayload
<1>5. Begin' = Begin /\ End' = End /\ Stack' = Stack
  BY <1>0, CallFrame DEF hasher, caller, Stack
<1>6. NeedsZero => ZeroAt(level + 1) = Zero(level + 1)
  <2> SUFFICES ASSUME NeedsZero PROVE ZeroAt(level + 1) = Zero(level + 1)
    OBVIOUS
  <2>1. ~ (Len(zeros) < level + 2) /\ zeros \in Seq(Node) /\ level \in Nat
    BY <1>0, Typed DEF ZeroMissing
  <2> DEFINE k == level + 1 + 1
  <2>2. level + 1 < Len(zeros) /\ k \in 1 .. Len(zeros) /\ k - 1 = level + 1
    BY <2>1
  <2> HIDE DEF k
  <2>3. zeros[k] = Zero(k - 1)
    BY <2>2 DEF Inv, ZerosRight
  <2>4. zeros[k] = Zero(level + 1)
    BY <2>2, <2>3
  <2> QED BY <2>2, <2>4 DEF ZeroAt, k
<1>7. CONCAT_BUFFER' = <<RunNode(level + 1, Place(2 * w, level + 1, Begin), End),
                         RunNode(level + 1, Place(2 * w, level + 1, Begin) + Span(level), End)>>
  <2>1. CASE level = lowest
    <3>1. CONCAT_BUFFER' = <<Stack.nodes[level], Zero(level + 1)>>
      BY <1>0, <1>6, <2>1 DEF FoldPair, NeedsZero
    <3>2. Bit(2 * w, level) = 1 /\ (2 * w) % Pow[level] = 0
      BY <1>3, <2>1
    <3>3. /\ Stack.nodes[level] = RunNode(level + 1, Place(2 * w, level + 1, Begin), End)
          /\ Zero(level + 1) = RunNode(level + 1, Place(2 * w, level + 1, Begin) + Span(level), End)
      <4> DEFINE c == 2 * w
      <4>1. /\ c \in Nat /\ End <= Begin + Q * c /\ StackHolds(Stack, c, Begin, End)
            /\ c % Pow[level] = 0
        BY <1>3, <3>2
      <4>3. c \in Nat /\ StackHolds(Stack, c, Begin, End) /\ Stack.filled[level]
        BY <1>3, <2>1 DEF IsLowestFilled
      <4> HIDE DEF c
      <4>2. /\ Stack.nodes[level] = RunNode(level + 1, Place(c, level + 1, Begin), End)
            /\ Zero(level + 1) = RunNode(level + 1, Place(c, level + 1, Begin) + Span(level), End)
        <5>1. Place(c, level, Begin) = Begin + Q * c
          BY <1>2, <1>4, <4>1, PlaceWhole
        <5>2. End <= Place(c, level, Begin)
          BY <4>1, <5>1
        <5> QED BY <1>2, <1>4, <4>3, <5>2, FoldFirst
      <4> QED BY <4>2 DEF c
    <3> QED BY <3>1, <3>3
  <2>2. CASE level # lowest /\ Stack.filled[level]
    <3>1. CONCAT_BUFFER' = <<Stack.nodes[level], acc>>
      BY <1>0, <2>2 DEF FoldPair
    <3>2. /\ Stack.nodes[level] = RunNode(level + 1, Place(2 * w, level + 1, Begin), End)
          /\ RunNode(level + 1, Place(2 * w, level, Begin), End)
                = RunNode(level + 1, Place(2 * w, level + 1, Begin) + Span(level), End)
      <4> DEFINE c == 2 * w
      <4>1. c \in Nat /\ StackHolds(Stack, c, Begin, End) /\ Stack.filled[level]
        BY <1>3, <2>2
      <4> HIDE DEF c
      <4>2. /\ Stack.nodes[level] = RunNode(level + 1, Place(c, level + 1, Begin), End)
            /\ RunNode(level + 1, Place(c, level, Begin), End)
                  = RunNode(level + 1, Place(c, level + 1, Begin) + Span(level), End)
        BY <1>2, <1>4, <4>1, FoldFilled
      <4> QED BY <4>2 DEF c
    <3>3. acc = RunNode(level + 1, Place(2 * w, level, Begin), End)
      BY <1>3, <2>2
    <3> QED BY <3>1, <3>2, <3>3
  <2>3. CASE level # lowest /\ ~ Stack.filled[level]
    <3>1. CONCAT_BUFFER' = <<acc, Zero(level + 1)>>
      BY <1>0, <1>6, <2>3 DEF FoldPair, NeedsZero
    <3>2. /\ RunNode(level + 1, Place(2 * w, level, Begin), End)
                = RunNode(level + 1, Place(2 * w, level + 1, Begin), End)
          /\ Zero(level + 1) = RunNode(level + 1, Place(2 * w, level + 1, Begin) + Span(level), End)
      BY <1>2, <1>3, <1>4, <2>3, FoldEmpty
    <3>3. acc = RunNode(level + 1, Place(2 * w, level, Begin), End)
      BY <1>3, <2>3
    <3> QED BY <3>1, <3>2, <3>3
  <2> QED BY <2>1, <2>2, <2>3
<1>8. CONCAT_BUFFER' \in Node \X Node
  <2> DEFINE lo == Place(2 * w, level + 1, Begin)
  <2>1. lo \in Nat /\ Span(level) \in Nat /\ level \in 0 .. MAX_LEVEL
    BY <1>2, <1>3, <1>4, PowDouble, SpanFacts, PlaceFacts
  <2> HIDE DEF lo
  <2>2. lo + Span(level) \in Nat
    BY <2>1
  <2>3. RunNode(level + 1, lo, End) \in Node /\ RunNode(level + 1, lo + Span(level), End) \in Node
    BY <1>4, <2>1, <2>2, RunTypes
  <2> QED BY <1>7, <2>3 DEF lo
<1>9. Folding'
  BY <1>0, <1>3, <1>5, <1>7, FoldingNext DEF hasher
<1>10. level' \in Slots /\ acc' \in Node /\ zeros' \in Seq(Node) /\ ZerosRight'
  <2>1. ZerosRight'
    BY <1>0 DEF Inv, ZerosRight
  <2> QED BY <1>0, <2>1, Typed
<1> QED
  BY <1>0, <1>8, <1>9, <1>10, FoldStays

LEMMA FoldHashInv ==
    ASSUME Inv, FoldHash
    PROVE  Inv'
PROOF
<1>0. pc = "hash" /\ leaf = 2 /\ FoldPhase /\ level < top
      /\ acc' = HashPair(CONCAT_BUFFER[1], CONCAT_BUFFER[2]) /\ level' = level + 1 /\ pc' = "fold"
      /\ UNCHANGED <<hasher, caller, LEAVES, CONCAT_BUFFER, zeros, self, method, input,
                     readOffset, copy, leaf, lowest, top>>
  BY DEF FoldHash, FoldPhase
<1>1. self \in Hashers /\ level \in Slots /\ lowest \in Slots /\ top \in Slots
  BY <1>0, FoldingNow
<1>2. PICK w \in 1 .. Pow[PAYLOAD_LEVEL] :
         /\ Holds(w, bytesWritten[self])
         /\ 2 * w \in Nat
         /\ StackHolds(Stack, 2 * w, Begin, End)
         /\ IsLowestFilled(Stack, lowest) /\ IsTopFilled(Stack, top)
         /\ level \in lowest .. top
         /\ CONCAT_BUFFER = PairAt(level, Place(2 * w, level + 1, Begin))
  BY <1>0, FoldingNow
<1>3. Begin \in Nat /\ End \in Nat
  BY <1>1, SpanOfPayload
<1>4. Begin' = Begin /\ End' = End /\ Stack' = Stack
  BY <1>0, CallFrame DEF hasher, caller, Stack
<1>5. acc' = RunNode(level' + 1, Place(2 * w, level', Begin), End)
  <2> DEFINE lo == Place(2 * w, level + 1, Begin)
  <2>1. lo \in Nat
    BY <1>1, <1>2, <1>3, PowDouble, PlaceFacts
  <2>2. CONCAT_BUFFER = <<RunNode(level + 1, lo, End), RunNode(level + 1, lo + Span(level), End)>>
    BY <1>2 DEF PairAt
  <2> HIDE DEF lo
  <2>3. HashPair(RunNode(level + 1, lo, End), RunNode(level + 1, lo + Span(level), End))
           = RunNode(level + 2, lo, End)
    BY <1>1, <1>3, <2>1, JoinRuns
  <2>4. level' + 1 = level + 2
    BY <1>0, <1>1 DEF Slots
  <2>5. acc' = RunNode(level' + 1, lo, End)
    BY <1>0, <2>2, <2>3, <2>4
  <2> QED BY <1>0, <2>5 DEF lo
<1>6. level' \in lowest' .. top'
  BY <1>0, <1>1, <1>2 DEF Slots
<1>7. Folding'
  BY <1>0, <1>2, <1>4, <1>5, <1>6, FoldingNext DEF hasher
<1>8. acc' \in Node /\ CONCAT_BUFFER' \in Node \X Node
  <2>1. CONCAT_BUFFER[1] \in Node /\ CONCAT_BUFFER[2] \in Node
    BY Typed
  <2> QED BY <1>0, <2>1, NodeTypes, Typed
<1>9. level' \in Slots /\ zeros' \in Seq(Node) /\ ZerosRight'
  <2>1. ZerosRight'
    BY <1>0 DEF Inv, ZerosRight
  <2>2. level + 1 \in Slots
    <3>1. level \in 0 .. MAX_LEVEL - 1 /\ top \in 0 .. MAX_LEVEL - 1 /\ level < top /\ MAX_LEVEL \in Nat
      BY <1>0, <1>1, TreeAssumption DEF Slots
    <3> QED BY <3>1 DEF Slots
  <2> QED BY <1>0, <2>1, <2>2, Typed
<1> QED
  BY <1>0, <1>7, <1>8, <1>9, FoldStays


-----------------------------------------------------------------------------
(* Steps between calls, and steps that begin or end one. *)

LEMMA HasherTyped ==
    ASSUME Inv, NEW h \in Hashers
    PROVE  /\ base[h] \in Nat /\ bytesWritten[h] \in Nat /\ offset[h] \in Nat
           /\ bytesWritten[h] <= MAX_PAYLOAD_SIZE
           /\ offset[h] < Q /\ offset[h] <= bytesWritten[h]
           /\ bytesWritten[h] - offset[h] \in Nat
           /\ stacks[h] \in StackType /\ buffer[h] \in Quads
PROOF
<1>1. bytesWritten[h] \in 0 .. MAX_PAYLOAD_SIZE /\ MAX_PAYLOAD_SIZE \in Nat
      /\ offset[h] \in 0 .. Q - 1 /\ Q \in Nat \ {0} /\ base[h] \in Nat
  BY Typed, Room, SpanFacts
<1>2. stacks[h] \in StackType /\ buffer[h] \in Quads
  BY DEF Inv, TypeOK
<1>3. offset[h] <= bytesWritten[h]
  BY DEF Inv, Buffered
<1> QED
  BY <1>1, <1>2, <1>3

LEMMA QuadRoom ==
    ASSUME NEW w \in Nat, NEW p \in Nat
    PROVE  /\ Q * w \in Nat /\ Q * (w + 1) = Q * w + Q /\ Q * (2 * w) = 2 * (Q * w)
           /\ Q * w < Q * p => w + 1 <= p
           /\ Q * w <= Q * p => w <= p
PROOF
<1>1. Q \in Nat \ {0} /\ Q * p \in Nat
  BY SpanFacts
<1>2. Q * w \in Nat /\ Q * (w + 1) = Q * w + Q /\ Q * (2 * w) = 2 * (Q * w)
  BY <1>1
<1>3. ASSUME p < w PROVE Q * p < Q * w
  <2>1. PICK x \in Nat : w = p + 1 + x
    <3>1. w - p - 1 \in Nat /\ w = p + 1 + (w - p - 1)
      BY <1>3
    <3> QED BY <3>1
  <2>2. Q * w = Q * p + Q + Q * x /\ Q * x \in Nat
    BY <1>1, <2>1
  <2> QED BY <1>1, <2>2
<1>4. p = w => Q * w = Q * p
  OBVIOUS
<1> QED
  BY <1>1, <1>2, <1>3, <1>4

(* The stack at rest, as part of a payload that goes on to nibble e. *)
LEMMA AtRest ==
    ASSUME Inv, NEW h \in Hashers, pc = "idle" \/ method = "digest",
           NEW e \in Nat, 2 * (base[h] + bytesWritten[h]) <= e
    PROVE  \E w \in 0 .. Pow[PAYLOAD_LEVEL] :
              /\ w \in Nat /\ Q * w = bytesWritten[h] - offset[h]
              /\ StackHolds(stacks[h], 2 * w, 2 * base[h], e)
PROOF
<1>1. Stacked(h)
  <2>1. method # "write"
    BY Zenon DEF Inv, Control
  <2> QED BY <2>1 DEF Inv, Resting
<1>2. PICK w \in 0 .. Pow[PAYLOAD_LEVEL] :
         /\ Q * w = bytesWritten[h] - offset[h]
         /\ StackHolds(stacks[h], 2 * w, 2 * base[h], 2 * (base[h] + bytesWritten[h]))
  BY <1>1 DEF Stacked
<1>3. w \in Nat /\ 2 * w \in Nat
  BY Room
<1>4. /\ 2 * base[h] \in Nat /\ 2 * (base[h] + bytesWritten[h]) \in Nat
      /\ 2 * base[h] + Q * (2 * w) <= 2 * (base[h] + bytesWritten[h])
      /\ 2 * base[h] + Q * (2 * w) <= e
  <2>1. Q * (2 * w) = 2 * (Q * w)
    BY <1>3, QuadRoom
  <2> QED BY <1>2, <2>1, HasherTyped
<1>5. StackHolds(stacks[h], 2 * w, 2 * base[h], e)
  BY <1>2, <1>3, <1>4, MoreBytes
<1> QED
  BY <1>2, <1>3, <1>5

LEMMA IdleStays ==
    ASSUME pc' = "idle", self' = NoHasher, method' = "", copy' = NoStack,
           input'.len = 0, TypeOK', Buffered', \A h \in Hashers : Stacked(h)', ZerosRight'
    PROVE  Inv'
PROOF
<1>1. Control' /\ Resting'
  BY DEF Control, Resting, FoldPhase, PushPhase
<1>2. Phases'
  BY DEF Phases, FoldPhase, PushPhase
<1> QED
  BY <1>1, <1>2 DEF Inv

LEMMA IdleNow ==
    ASSUME Inv, pc = "idle"
    PROVE  /\ self = NoHasher /\ method = "" /\ copy = NoStack /\ input.len = 0
           /\ \A h \in Hashers : Stacked(h)
PROOF
<1>1. self = NoHasher /\ method = "" /\ copy = NoStack /\ input.len = 0
  BY Zenon DEF Inv, Control
<1>2. method # "write"
  BY <1>1
<1> QED
  BY <1>1, <1>2 DEF Inv, Resting

LEMMA WriteOutcomeInv ==
    ASSUME Inv, NEW h \in Hashers, NEW len \in WriteSizes,
           WriteRefused(h, len) \/ WriteNothing(h, len)
    PROVE  Inv'
PROOF
<1>1. /\ pc = "idle" /\ outcome' \in [Hashers -> {"ok", "RangeError"}]
      /\ UNCHANGED <<hasher, base, result, LEAVES, CONCAT_BUFFER, zeros, call>>
  <2>1. outcome \in [Hashers -> {"ok", "RangeError"}]
    BY DEF Inv, TypeOK
  <2> QED BY <2>1 DEF WriteRefused, WriteNothing
<1>2. TypeOK'
  BY <1>1 DEF Inv, TypeOK, hasher, call
<1>3. Buffered'
  BY <1>1, BufferedFrame DEF Inv, hasher
<1>4. ASSUME NEW g \in Hashers PROVE Stacked(g)'
  BY <1>1, IdleNow, StackedFrame DEF hasher
<1>5. ZerosRight'
  BY <1>1 DEF Inv, ZerosRight
<1> QED
  BY <1>1, <1>2, <1>3, <1>4, <1>5, IdleNow, IdleStays DEF call

LEMMA WriteFastInv ==
    ASSUME Inv, NEW h \in Hashers, NEW len \in WriteSizes, WriteFast(h, len)
    PROVE  Inv'
PROOF
<1> DEFINE filled == [i \in 0 .. Q - 1 |->
                        IF offset[h] <= i /\ i < offset[h] + len
                        THEN base[h] + bytesWritten[h] + (i - offset[h]) ELSE buffer[h][i]]
<1>0. /\ pc = "idle" /\ bytesWritten[h] + len <= MAX_PAYLOAD_SIZE /\ 0 < len /\ offset[h] + len < Q
      /\ buffer' = [buffer EXCEPT ![h] = filled]
      /\ offset' = [offset EXCEPT ![h] = offset[h] + len]
      /\ bytesWritten' = [bytesWritten EXCEPT ![h] = bytesWritten[h] + len]
      /\ outcome' = [outcome EXCEPT ![h] = "ok"]
      /\ result' = [result EXCEPT ![h] = NoResult]
      /\ UNCHANGED <<stacks, base, LEAVES, CONCAT_BUFFER, zeros, call>>
  BY Zenon DEF WriteFast, Accepted
<1>1. len \in Nat /\ Q \in Nat /\ MAX_PAYLOAD_SIZE \in Nat
  BY JsAssumption, SpanFacts, Room
<1>2. filled \in Quads
  <2> SUFFICES ASSUME NEW i \in 0 .. Q - 1
               PROVE  (IF offset[h] <= i /\ i < offset[h] + len
                       THEN base[h] + bytesWritten[h] + (i - offset[h]) ELSE buffer[h][i]) \in Int
    BY DEF Quads
  <2>1. buffer[h][i] \in Int
    BY HasherTyped DEF Quads
  <2>2. base[h] + bytesWritten[h] + (i - offset[h]) \in Int
    BY <1>1, HasherTyped
  <2> QED BY <2>1, <2>2
<1> HIDE DEF filled
<1>3. /\ buffer \in [Hashers -> Quads] /\ offset \in [Hashers -> 0 .. Q - 1]
      /\ bytesWritten \in [Hashers -> 0 .. MAX_PAYLOAD_SIZE]
      /\ outcome \in [Hashers -> {"ok", "RangeError"}]
      /\ result \in [Hashers -> [padding : Nat, height : Nat, root : Node]]
  BY DEF Inv, TypeOK
<1>4. offset[h] + len \in 0 .. Q - 1 /\ bytesWritten[h] + len \in 0 .. MAX_PAYLOAD_SIZE
  BY <1>0, <1>1, HasherTyped
<1>5. /\ buffer' \in [Hashers -> Quads] /\ offset' \in [Hashers -> 0 .. Q - 1]
      /\ bytesWritten' \in [Hashers -> 0 .. MAX_PAYLOAD_SIZE]
      /\ outcome' \in [Hashers -> {"ok", "RangeError"}]
  BY <1>0, <1>2, <1>3, <1>4
<1>6. result' \in [Hashers -> [padding : Nat, height : Nat, root : Node]]
  <2>1. NoResult \in [padding : Nat, height : Nat, root : Node]
    BY NodeTypes DEF NoResult
  <2> QED BY <1>0, <1>3, <2>1
<1>7. TypeOK'
  BY <1>0, <1>5, <1>6 DEF Inv, TypeOK, call
<1>8. ASSUME NEW g \in Hashers, g # h
      PROVE  /\ stacks'[g] = stacks[g] /\ offset'[g] = offset[g] /\ buffer'[g] = buffer[g]
             /\ bytesWritten'[g] = bytesWritten[g] /\ base'[g] = base[g]
  BY <1>0, <1>3, <1>8
<1>9. /\ offset'[h] = offset[h] + len /\ bytesWritten'[h] = bytesWritten[h] + len
      /\ base'[h] = base[h] /\ stacks'[h] = stacks[h]
      /\ (bytesWritten[h] + len) - (offset[h] + len) = bytesWritten[h] - offset[h]
      /\ offset[h] + len <= bytesWritten[h] + len
      /\ buffer'[h] = filled
  BY <1>0, <1>1, <1>3, HasherTyped
<1>10. Buffered'
  <2> SUFFICES ASSUME NEW g \in Hashers
               PROVE  /\ offset'[g] <= bytesWritten'[g]
                      /\ \A i \in 0 .. Q - 1 : i < offset'[g] =>
                            buffer'[g][i] = base'[g] + (bytesWritten'[g] - offset'[g]) + i
    BY DEF Buffered
  <2>1. CASE g # h
    BY <1>8, <2>1 DEF Inv, Buffered
  <2>2. CASE g = h
    <3>1. ASSUME NEW i \in 0 .. Q - 1, i < offset[h] + len
          PROVE  filled[i] = base[h] + (bytesWritten[h] - offset[h]) + i
      <4>1. CASE offset[h] <= i
        <5>1. filled[i] = base[h] + bytesWritten[h] + (i - offset[h])
          BY <3>1, <4>1 DEF filled
        <5> QED BY <1>1, <5>1, HasherTyped
      <4>2. CASE ~ (offset[h] <= i)
        <5>1. filled[i] = buffer[h][i]
          BY <4>2 DEF filled
        <5>2. i < offset[h]
          BY <1>1, <4>2, HasherTyped
        <5>3. buffer[h][i] = base[h] + (bytesWritten[h] - offset[h]) + i
          BY <5>2 DEF Inv, Buffered
        <5> QED BY <5>1, <5>3
      <4> QED BY <4>1, <4>2
    <3> QED BY <1>9, <2>2, <3>1
  <2> QED BY <2>1, <2>2
<1>11. ASSUME NEW g \in Hashers PROVE Stacked(g)'
  <2>1. CASE g # h
    BY <1>0, <1>8, <2>1, IdleNow, StackedFrame
  <2>2. CASE g = h
    <3> DEFINE e == 2 * (base[h] + (bytesWritten[h] + len))
    <3>1. e \in Nat /\ 2 * (base[h] + bytesWritten[h]) <= e
      BY <1>1, HasherTyped
    <3>2. e = 2 * (base'[h] + bytesWritten'[h])
      BY <1>9
    <3> HIDE DEF e
    <3>3. PICK w \in 0 .. Pow[PAYLOAD_LEVEL] :
             Q * w = bytesWritten[h] - offset[h] /\ StackHolds(stacks[h], 2 * w, 2 * base[h], e)
      BY <1>0, <3>1, AtRest
    <3>4. Q * w = bytesWritten'[h] - offset'[h]
      BY <1>9, <3>3
    <3>5. StackHolds(stacks'[h], 2 * w, 2 * base'[h], 2 * (base'[h] + bytesWritten'[h]))
      BY <1>9, <3>2, <3>3
    <3> QED BY <2>2, <3>4, <3>5 DEF Stacked
  <2> QED BY <2>1, <2>2
<1>12. ZerosRight'
  BY <1>0 DEF Inv, ZerosRight
<1> QED
  BY <1>0, <1>7, <1>10, <1>11, <1>12, IdleNow, IdleStays DEF call


LEMMA QuadRead ==
    ASSUME NEW quad \in Quads, NEW first \in Nat, NEW last \in Nat,
           \A i \in 0 .. Q - 1 : quad[i] = IF first + i < last THEN first + i ELSE NoByte,
           ReadQuad(quad),
           NEW b \in Nat, NEW w \in Nat, 2 * first = b + Q * (2 * w), NEW e, e = 2 * last
    PROVE  /\ LEAVES' = <<RunNode(1, b + Q * (2 * w), e), RunNode(1, b + Q * (2 * w) + Span(0), e)>>
           /\ LEAVES' \in Node \X Node
           /\ leaf' = 0 /\ pc' = "push"
PROOF
<1>1. LEAVES' = <<Leaf(quad, 0), Leaf(quad, 1)>> /\ leaf' = 0 /\ pc' = "push"
  BY DEF ReadQuad
<1>2. Leaf(quad, 0) = RunNode(1, 2 * first + 0 * Q, 2 * last)
  BY LeafRun
<1>3. Leaf(quad, 1) = RunNode(1, 2 * first + 1 * Q, 2 * last)
  BY LeafRun
<1>4. Q \in Nat /\ Span(0) = Q /\ 2 * first + 0 * Q = 2 * first /\ 2 * first + 1 * Q = 2 * first + Span(0)
      /\ e \in Nat /\ 2 * first \in Nat /\ 2 * first + Span(0) \in Nat /\ 0 \in 0 .. MAX_LEVEL
      /\ 0 + 1 = 1
  <2>1. Q \in Nat /\ Span(0) = Q /\ MAX_LEVEL \in Nat
    BY SpanFacts, TreeAssumption
  <2> QED BY <2>1
<1>5. Leaf(quad, 0) = RunNode(1, 2 * first, e) /\ Leaf(quad, 1) = RunNode(1, 2 * first + Span(0), e)
  BY <1>2, <1>3, <1>4
<1>6. RunNode(0 + 1, 2 * first, e) \in Node /\ RunNode(0 + 1, 2 * first + Span(0), e) \in Node
  BY <1>4, RunTypes
<1>7. LEAVES' \in Node \X Node
  BY <1>1, <1>4, <1>5, <1>6
<1> QED
  BY <1>1, <1>5, <1>7

LEMMA WriteBulkInv ==
    ASSUME Inv, NEW h \in Hashers, NEW len \in WriteSizes, WriteBulk(h, len)
    PROVE  Inv'
PROOF
<1> DEFINE quad == [i \in 0 .. Q - 1 |->
                      IF offset[h] <= i THEN base[h] + bytesWritten[h] + (i - offset[h])
                                        ELSE buffer[h][i]]
           first == base[h] + (bytesWritten[h] - offset[h])
           last == base[h] + bytesWritten[h] + len
<1>0. /\ pc = "idle" /\ bytesWritten[h] + len <= MAX_PAYLOAD_SIZE /\ 0 < len /\ offset[h] + len >= Q
      /\ buffer' = [buffer EXCEPT ![h] = quad]
      /\ ReadQuad(buffer'[h])
      /\ self' = h /\ method' = "write"
      /\ input' = [first |-> base[h] + bytesWritten[h], len |-> len]
      /\ readOffset' = Q - offset[h]
      /\ UNCHANGED <<offset, bytesWritten, stacks, caller, CONCAT_BUFFER, zeros,
                     copy, level, lowest, top, acc>>
  BY Zenon DEF WriteBulk, Fill
<1>1. len \in Nat /\ Q \in Nat \ {0} /\ MAX_PAYLOAD_SIZE \in Nat
  BY JsAssumption, SpanFacts, Room
<1>2. first \in Nat /\ last \in Nat /\ \A i \in 0 .. Q - 1 : first + i < last
  <2>1. /\ base[h] \in Nat /\ bytesWritten[h] \in Nat /\ offset[h] \in Nat
        /\ bytesWritten[h] - offset[h] \in Nat /\ offset[h] + len >= Q
    BY <1>0, HasherTyped
  <2> QED BY <1>1, <2>1
<1>3. quad \in Quads /\ \A i \in 0 .. Q - 1 : quad[i] = first + i
  <2> SUFFICES ASSUME NEW i \in 0 .. Q - 1
               PROVE  /\ (IF offset[h] <= i THEN base[h] + bytesWritten[h] + (i - offset[h])
                                          ELSE buffer[h][i]) \in Int
                      /\ (IF offset[h] <= i THEN base[h] + bytesWritten[h] + (i - offset[h])
                                          ELSE buffer[h][i]) = first + i
    BY DEF Quads
  <2>1. CASE offset[h] <= i
    <3>1. base[h] + bytesWritten[h] + (i - offset[h]) = first + i /\ first + i \in Int
      BY <1>1, HasherTyped
    <3> QED BY <2>1, <3>1
  <2>2. CASE ~ (offset[h] <= i)
    <3>1. i < offset[h]
      BY <1>1, <2>2, HasherTyped
    <3>2. buffer[h][i] = base[h] + (bytesWritten[h] - offset[h]) + i
      BY <3>1 DEF Inv, Buffered
    <3>3. first + i \in Int
      BY <1>1, <1>2
    <3> QED BY <2>2, <3>2, <3>3
  <2> QED BY <2>1, <2>2
<1>4. buffer' \in [Hashers -> Quads] /\ buffer'[h] = quad
      /\ \A g \in Hashers : g # h => buffer'[g] = buffer[g]
  <2>1. buffer \in [Hashers -> Quads]
    BY DEF Inv, TypeOK
  <2> QED BY <1>0, <1>3, <2>1
<1> HIDE DEF quad
<1>5. PICK w \in 0 .. Pow[PAYLOAD_LEVEL] :
         /\ w \in Nat /\ Q * w = bytesWritten[h] - offset[h]
         /\ StackHolds(stacks[h], 2 * w, 2 * base[h], 2 * last)
  <2>1. 2 * last \in Nat /\ 2 * (base[h] + bytesWritten[h]) <= 2 * last
    BY <1>1, <1>2, HasherTyped
  <2> QED BY <1>0, <2>1, AtRest
<1>6. w \in 0 .. Pow[PAYLOAD_LEVEL] - 1
  <2>1. Pow[PAYLOAD_LEVEL] \in Nat /\ MAX_PAYLOAD_SIZE = Q * Pow[PAYLOAD_LEVEL]
    BY Room
  <2>2. Q * w < Q * Pow[PAYLOAD_LEVEL]
    BY <1>0, <1>1, <1>5, <2>1, HasherTyped
  <2>3. w + 1 <= Pow[PAYLOAD_LEVEL]
    BY <1>5, <2>1, <2>2, QuadRoom
  <2> QED BY <1>5, <2>1, <2>3
<1>7. /\ Begin' = 2 * base[h] /\ End' = 2 * last /\ QuadAt' = Q * w
      /\ Stack' = stacks[h]
  <2>1. base' = base /\ bytesWritten' = bytesWritten /\ stacks' = stacks
    BY <1>0 DEF caller
  <2>2. copy' = NoStack
    BY <1>0, IdleNow
  <2>3. QuadAt' = bytesWritten[h] + (Q - offset[h]) - Q
    BY <1>0, <2>1 DEF QuadAt
  <2>4. bytesWritten[h] + (Q - offset[h]) - Q = bytesWritten[h] - offset[h]
    BY <1>1, HasherTyped
  <2>5. input'.len = len
    BY <1>0
  <2> QED BY <1>0, <1>5, <2>1, <2>2, <2>3, <2>4, <2>5 DEF Begin, End, Stack
<1>8. 2 * first = 2 * base[h] + Q * (2 * w) /\ 2 * base[h] \in Nat
  <2>1. Q * (2 * w) = 2 * (Q * w)
    BY <1>5, QuadRoom
  <2> QED BY <1>5, <2>1, HasherTyped
<1>9. /\ LEAVES' = <<RunNode(1, 2 * base[h] + Q * (2 * w), 2 * last),
                     RunNode(1, 2 * base[h] + Q * (2 * w) + Span(0), 2 * last)>>
      /\ LEAVES' \in Node \X Node /\ leaf' = 0 /\ pc' = "push"
  <2>1. \A i \in 0 .. Q - 1 : quad[i] = IF first + i < last THEN first + i ELSE NoByte
    BY <1>2, <1>3
  <2>2. ReadQuad(quad)
    BY <1>0, <1>4
  <2> HIDE DEF first, last
  <2> QED BY <1>2, <1>3, <1>5, <1>8, <2>1, <2>2, QuadRead
<1>10. Pushing'
  <2> HIDE DEF last
  <2>1. StackHolds(Stack', 2 * w + leaf', 2 * base[h], 2 * last)
    <3>1. 2 * w + leaf' = 2 * w
      BY <1>5, <1>9
    <3> QED BY <1>5, <1>7, <3>1
  <2> QED BY <1>6, <1>7, <1>9, <2>1, PushingNext
<1>11. TypeOK'
  <2>1. input' \in [first : Nat, len : Nat] /\ readOffset' \in Nat
    BY <1>0, <1>1, HasherTyped
  <2>2. leaf' \in 0 .. 2
    BY <1>9
  <2> QED BY <1>0, <1>4, <1>9, <2>1, <2>2 DEF Inv, TypeOK, caller
<1>12. Control'
  <2>1. readOffset' \in 1 .. input'.len /\ input'.len = len /\ input'.first = base[h] + bytesWritten[h]
    BY <1>0, <1>1, HasherTyped
  <2>2. copy' = NoStack /\ self' # NoHasher
    BY <1>0, IdleNow, JsAssumption
  <2>3. base' = base /\ bytesWritten' = bytesWritten
    BY <1>0 DEF caller
  <2>4. ~ FoldPhase'
    BY <1>9 DEF FoldPhase
  <2>5. bytesWritten'[self'] + input'.len <= MAX_PAYLOAD_SIZE
    BY <1>0, <2>1, <2>3
  <2>6. input'.first = base'[self'] + bytesWritten'[self']
    BY <1>0, <2>1, <2>3
  <2> QED BY <1>0, <1>9, <2>1, <2>2, <2>4, <2>5, <2>6 DEF Control
<1>13. Buffered'
  <2> SUFFICES ASSUME NEW g \in Hashers
               PROVE  /\ offset'[g] <= bytesWritten'[g]
                      /\ \A i \in 0 .. Q - 1 : i < offset'[g] =>
                            buffer'[g][i] = base'[g] + (bytesWritten'[g] - offset'[g]) + i
    BY DEF Buffered
  <2>1. base' = base /\ bytesWritten' = bytesWritten /\ offset' = offset
    BY <1>0 DEF caller
  <2>2. CASE g # h
    BY <1>4, <2>1, <2>2 DEF Inv, Buffered
  <2>3. CASE g = h
    BY <1>3, <1>4, <2>1, <2>3, HasherTyped
  <2> QED BY <2>2, <2>3
<1>14. Resting'
  <2> SUFFICES ASSUME NEW g \in Hashers, g # h PROVE Stacked(g)'
    BY <1>0 DEF Resting
  <2> QED BY <1>0, IdleNow, StackedFrame DEF caller
<1>15. ZerosRight' /\ PushPhase' /\ ~ FoldPhase'
  BY <1>0, <1>9 DEF Inv, ZerosRight, PushPhase, FoldPhase
<1> QED
  BY <1>10, <1>11, <1>12, <1>13, <1>14, <1>15 DEF Inv, Phases

(* The quad just pushed, in a write. *)
LEMMA Written ==
    ASSUME Inv, pc = "push", leaf = 2, method = "write"
    PROVE  /\ self \in Hashers /\ copy = NoStack
           /\ input.first = base[self] + bytesWritten[self]
           /\ input.len \in WriteSizes /\ input.len \in Nat /\ readOffset \in 1 .. input.len
           /\ bytesWritten[self] + input.len <= MAX_PAYLOAD_SIZE
           /\ Begin \in Nat /\ End \in Nat
           /\ \E w \in 0 .. Pow[PAYLOAD_LEVEL] - 1 :
                 /\ w \in Nat /\ w + 1 \in Nat
                 /\ Q * (w + 1) = bytesWritten[self] + readOffset
                 /\ StackHolds(stacks[self], 2 * (w + 1), Begin, End)
PROOF
<1>1. /\ self \in Hashers /\ copy = NoStack
      /\ input.first = base[self] + bytesWritten[self]
      /\ input.len \in WriteSizes /\ readOffset \in 1 .. input.len
      /\ bytesWritten[self] + input.len <= MAX_PAYLOAD_SIZE
  BY Zenon DEF Inv, Control
<1>2. input.len \in Nat
  BY Typed
<1>3. Begin \in Nat /\ End \in Nat
  BY <1>1, SpanOfPayload
<1>4. Pushing
  BY DEF Inv, Phases, PushPhase
<1>5. PICK w \in 0 .. Pow[PAYLOAD_LEVEL] - 1 :
         Q * w = QuadAt /\ StackHolds(Stack, 2 * w + leaf, Begin, End)
  BY <1>4 DEF Pushing
<1>6. w \in Nat /\ w + 1 \in Nat /\ 2 * w + leaf = 2 * (w + 1)
  <2>1. Pow[PAYLOAD_LEVEL] \in Nat
    BY Room
  <2> QED BY <2>1
<1>7. Q * (w + 1) = bytesWritten[self] + readOffset
  <2>1. QuadAt = bytesWritten[self] + readOffset - Q
    BY DEF QuadAt
  <2>2. Q * (w + 1) = Q * w + Q /\ Q \in Nat
    BY <1>6, QuadRoom, SpanFacts
  <2> QED BY <1>1, <1>2, <1>5, <2>1, <2>2, HasherTyped
<1>8. Stack = stacks[self]
  BY <1>1 DEF Stack
<1> QED
  BY <1>1, <1>2, <1>3, <1>5, <1>6, <1>7, <1>8


LEMMA WriteQuadInv ==
    ASSUME Inv, WriteQuad
    PROVE  Inv'
PROOF
<1> DEFINE quad == [i \in 0 .. Q - 1 |-> input.first + readOffset + i]
           first == input.first + readOffset
           last == input.first + input.len
<1>0. /\ pc = "push" /\ leaf = 2 /\ method = "write" /\ PushPhase
      /\ readOffset + Q <= input.len
      /\ ReadQuad(quad) /\ readOffset' = readOffset + Q
      /\ UNCHANGED <<hasher, caller, CONCAT_BUFFER, zeros, self, method, input, copy,
                     level, lowest, top, acc>>
  BY DEF WriteQuad, PushPhase
<1>1. /\ self \in Hashers /\ copy = NoStack
      /\ input.first = base[self] + bytesWritten[self]
      /\ input.len \in WriteSizes /\ input.len \in Nat /\ readOffset \in 1 .. input.len
      /\ bytesWritten[self] + input.len <= MAX_PAYLOAD_SIZE
      /\ Begin \in Nat /\ End \in Nat
  BY <1>0, Written
<1>2. PICK w \in 0 .. Pow[PAYLOAD_LEVEL] - 1 :
         /\ w \in Nat /\ w + 1 \in Nat
         /\ Q * (w + 1) = bytesWritten[self] + readOffset
         /\ StackHolds(stacks[self], 2 * (w + 1), Begin, End)
  BY <1>0, Written
<1>3. /\ Q \in Nat \ {0} /\ MAX_PAYLOAD_SIZE \in Nat
      /\ MAX_PAYLOAD_SIZE = Q * Pow[PAYLOAD_LEVEL] /\ Pow[PAYLOAD_LEVEL] \in Nat
      /\ base[self] \in Nat /\ bytesWritten[self] \in Nat
  BY <1>1, SpanFacts, Room, HasherTyped
<1>4. w + 1 \in 0 .. Pow[PAYLOAD_LEVEL] - 1
  <2>1. Q * (w + 1) < Q * Pow[PAYLOAD_LEVEL]
    <3> DEFINE size == Q * (w + 1)
               room == Q * Pow[PAYLOAD_LEVEL]
               bytes == bytesWritten[self]
               len == input.len
    <3>1. /\ size = bytes + readOffset /\ readOffset + Q <= len /\ bytes + len <= room
          /\ bytes \in Nat /\ len \in Nat /\ readOffset \in Nat /\ Q \in Nat \ {0}
          /\ room \in Nat
      BY <1>0, <1>1, <1>2, <1>3
    <3> HIDE DEF size, room, bytes, len
    <3>2. size < room
      BY <3>1
    <3> QED BY <3>2 DEF size, room
  <2>2. w + 1 + 1 <= Pow[PAYLOAD_LEVEL]
    BY <1>2, <1>3, <2>1, QuadRoom
  <2> QED BY <1>2, <1>3, <2>2
<1>5. first \in Nat /\ last \in Nat /\ \A i \in 0 .. Q - 1 : first + i < last
  <2>1. /\ input.first \in Nat /\ input.len \in Nat /\ readOffset \in Nat
        /\ readOffset + Q <= input.len /\ Q \in Nat
    BY <1>0, <1>1, <1>3
  <2> QED BY <2>1
<1>6. quad \in Quads /\ \A i \in 0 .. Q - 1 : quad[i] = first + i
  BY <1>5 DEF Quads
<1> HIDE DEF quad
<1>7. Begin = 2 * base[self] /\ End = 2 * last /\ 2 * first = Begin + Q * (2 * (w + 1))
  <2>1. Q * (2 * (w + 1)) = 2 * (Q * (w + 1))
    BY <1>2, QuadRoom
  <2> QED BY <1>1, <1>2, <1>3, <2>1 DEF Begin, End
<1>8. /\ LEAVES' = <<RunNode(1, Begin + Q * (2 * (w + 1)), End),
                     RunNode(1, Begin + Q * (2 * (w + 1)) + Span(0), End)>>
      /\ LEAVES' \in Node \X Node /\ leaf' = 0 /\ pc' = "push"
  <2>1. \A i \in 0 .. Q - 1 : quad[i] = IF first + i < last THEN first + i ELSE NoByte
    BY <1>5, <1>6
  <2> DEFINE v == w + 1
             b == Begin
             e == End
  <2>2. /\ v \in Nat /\ first \in Nat /\ last \in Nat /\ b \in Nat /\ quad \in Quads
        /\ ReadQuad(quad) /\ 2 * first = b + Q * (2 * v) /\ e = 2 * last
    BY <1>0, <1>1, <1>2, <1>5, <1>6, <1>7
  <2> HIDE DEF first, last, v, b, e
  <2>3. /\ LEAVES' = <<RunNode(1, b + Q * (2 * v), e), RunNode(1, b + Q * (2 * v) + Span(0), e)>>
        /\ LEAVES' \in Node \X Node /\ leaf' = 0 /\ pc' = "push"
    BY <2>1, <2>2, QuadRead
  <2> QED BY <2>3 DEF v, b, e
<1>9. Begin' = Begin /\ End' = End /\ Stack' = stacks[self] /\ QuadAt' = Q * (w + 1)
  <2>1. /\ base' = base /\ bytesWritten' = bytesWritten /\ input' = input /\ self' = self
        /\ copy' = NoStack /\ stacks' = stacks /\ method' = "write" /\ readOffset' = readOffset + Q
    BY <1>0, <1>1 DEF caller, hasher
  <2>2. bytesWritten[self] + (readOffset + Q) - Q = bytesWritten[self] + readOffset
    BY <1>1, <1>3
  <2> QED BY <1>2, <2>1, <2>2 DEF Begin, End, Stack, QuadAt
<1>10. Pushing'
  <2>1. StackHolds(Stack', 2 * (w + 1) + leaf', Begin, End)
    <3>1. 2 * (w + 1) + leaf' = 2 * (w + 1)
      BY <1>2, <1>8
    <3> QED BY <1>2, <1>9, <3>1
  <2> DEFINE v == w + 1
  <2>2. /\ v \in 0 .. Pow[PAYLOAD_LEVEL] - 1 /\ QuadAt' = Q * v
        /\ LEAVES' = <<RunNode(1, Begin + Q * (2 * v), End),
                       RunNode(1, Begin + Q * (2 * v) + Span(0), End)>>
        /\ StackHolds(Stack', 2 * v + leaf', Begin, End)
    BY <1>4, <1>8, <1>9, <2>1
  <2> HIDE DEF v
  <2> QED BY <1>8, <1>9, <2>2, PushingNext
<1>11. TypeOK'
  <2>1. readOffset' \in Nat
    BY <1>0, <1>1, <1>3
  <2>2. leaf' \in 0 .. 2
    BY <1>8
  <2> QED BY <1>0, <1>8, <2>1, <2>2 DEF Inv, TypeOK, caller, hasher
<1>12. Control'
  <2>1. /\ self' = self /\ self # NoHasher /\ method' = "write" /\ copy' = NoStack /\ input' = input
        /\ base' = base /\ bytesWritten' = bytesWritten
    BY <1>0, <1>1, JsAssumption DEF caller, hasher
  <2>2. readOffset' \in 1 .. input.len
    BY <1>0, <1>1, <1>3
  <2>3. ~ FoldPhase'
    BY <1>8 DEF FoldPhase
  <2> QED BY <1>1, <1>8, <2>1, <2>2, <2>3 DEF Control
<1>13. Buffered'
  BY <1>0, BufferedFrame DEF Inv, hasher, caller
<1>14. Resting'
  <2> SUFFICES ASSUME NEW g \in Hashers, ~ (g = self' /\ method' = "write") PROVE Stacked(g)'
    BY DEF Resting
  <2>1. Stacked(g)
    BY <1>0 DEF Inv, Resting
  <2> QED BY <1>0, <2>1, StackedFrame DEF caller, hasher
<1>15. ZerosRight' /\ PushPhase' /\ ~ FoldPhase'
  BY <1>0, <1>8 DEF Inv, ZerosRight, PushPhase, FoldPhase
<1> QED
  BY <1>10, <1>11, <1>12, <1>13, <1>14, <1>15 DEF Inv, Phases

LEMMA WriteTailInv ==
    ASSUME Inv, WriteTail
    PROVE  Inv'
PROOF
<1> DEFINE rest == input.len - readOffset
           quad == [i \in 0 .. Q - 1 |-> IF i < rest THEN input.first + readOffset + i
                                                     ELSE buffer[self][i]]
<1>0. /\ pc = "push" /\ leaf = 2 /\ method = "write"
      /\ readOffset + Q > input.len
      /\ buffer' = [buffer EXCEPT ![self] = quad]
      /\ offset' = [offset EXCEPT ![self] = rest]
      /\ bytesWritten' = [bytesWritten EXCEPT ![self] = bytesWritten[self] + input.len]
      /\ outcome' = [outcome EXCEPT ![self] = "ok"]
      /\ result' = [result EXCEPT ![self] = NoResult]
      /\ EndCall
      /\ UNCHANGED <<stacks, base, LEAVES, CONCAT_BUFFER, zeros>>
  BY Zenon DEF WriteTail, Accepted
<1>1. /\ self \in Hashers /\ copy = NoStack
      /\ input.first = base[self] + bytesWritten[self]
      /\ input.len \in Nat /\ readOffset \in 1 .. input.len
      /\ bytesWritten[self] + input.len <= MAX_PAYLOAD_SIZE
      /\ Begin \in Nat /\ End \in Nat
  BY <1>0, Written
<1>2. PICK w \in 0 .. Pow[PAYLOAD_LEVEL] - 1 :
         /\ w \in Nat /\ w + 1 \in Nat
         /\ Q * (w + 1) = bytesWritten[self] + readOffset
         /\ StackHolds(stacks[self], 2 * (w + 1), Begin, End)
  BY <1>0, Written
<1>3. /\ Q \in Nat \ {0} /\ MAX_PAYLOAD_SIZE \in Nat
      /\ Pow[PAYLOAD_LEVEL] \in Nat
      /\ base[self] \in Nat /\ bytesWritten[self] \in Nat
  BY <1>1, SpanFacts, Room, HasherTyped
<1>4. rest \in 0 .. Q - 1 /\ bytesWritten[self] + input.len \in 0 .. MAX_PAYLOAD_SIZE
      /\ rest <= bytesWritten[self] + input.len
      /\ (bytesWritten[self] + input.len) - rest = bytesWritten[self] + readOffset
  BY <1>0, <1>1, <1>3
<1>5. quad \in Quads
  <2> SUFFICES ASSUME NEW i \in 0 .. Q - 1
               PROVE  (IF i < rest THEN input.first + readOffset + i ELSE buffer[self][i]) \in Int
    BY DEF Quads
  <2>1. buffer[self][i] \in Int
    BY <1>1, HasherTyped DEF Quads
  <2>2. input.first + readOffset + i \in Int
    BY <1>1, <1>3
  <2> QED BY <2>1, <2>2
<1>6. \A i \in 0 .. Q - 1 : i < rest => quad[i] = base[self] + (bytesWritten[self] + readOffset) + i
  <2> SUFFICES ASSUME NEW i \in 0 .. Q - 1, i < rest
               PROVE  quad[i] = base[self] + (bytesWritten[self] + readOffset) + i
    OBVIOUS
  <2>1. quad[i] = input.first + readOffset + i
    OBVIOUS
  <2>2. input.first + readOffset + i = base[self] + (bytesWritten[self] + readOffset) + i
    BY <1>1, <1>3
  <2> QED BY <2>1, <2>2
<1> HIDE DEF quad, rest
<1>7. /\ buffer \in [Hashers -> Quads] /\ offset \in [Hashers -> 0 .. Q - 1]
      /\ bytesWritten \in [Hashers -> 0 .. MAX_PAYLOAD_SIZE]
      /\ outcome \in [Hashers -> {"ok", "RangeError"}]
      /\ result \in [Hashers -> [padding : Nat, height : Nat, root : Node]]
  BY DEF Inv, TypeOK
<1>8. /\ buffer' \in [Hashers -> Quads] /\ offset' \in [Hashers -> 0 .. Q - 1]
      /\ bytesWritten' \in [Hashers -> 0 .. MAX_PAYLOAD_SIZE]
      /\ outcome' \in [Hashers -> {"ok", "RangeError"}]
  BY <1>0, <1>4, <1>5, <1>7
<1>9. result' \in [Hashers -> [padding : Nat, height : Nat, root : Node]]
  <2>1. NoResult \in [padding : Nat, height : Nat, root : Node]
    BY NodeTypes DEF NoResult
  <2> QED BY <1>0, <1>7, <2>1
<1>10. /\ pc' = "idle" /\ self' = NoHasher /\ method' = "" /\ copy' = NoStack
       /\ input' = [first |-> 0, len |-> 0] /\ readOffset' = 0
       /\ leaf' = 0 /\ level' = 0 /\ lowest' = 0 /\ top' = 0 /\ acc' = Junk
  BY <1>0 DEF EndCall
<1>11. TypeOK'
  <2>1. 0 \in Slots /\ 0 \in Nat /\ 0 \in 0 .. 2 /\ Junk \in Node
    BY NodeTypes, TreeAssumption DEF Slots
  <2>2. [first |-> 0, len |-> 0] \in [first : Nat, len : Nat]
    OBVIOUS
  <2> QED BY <1>0, <1>8, <1>9, <1>10, <2>1, <2>2 DEF Inv, TypeOK
<1>12. ASSUME NEW g \in Hashers, g # self
       PROVE  /\ stacks'[g] = stacks[g] /\ offset'[g] = offset[g] /\ buffer'[g] = buffer[g]
              /\ bytesWritten'[g] = bytesWritten[g] /\ base'[g] = base[g]
  BY <1>0, <1>7, <1>12
<1>13. /\ offset'[self] = rest /\ bytesWritten'[self] = bytesWritten[self] + input.len
       /\ base'[self] = base[self] /\ stacks'[self] = stacks[self]
       /\ buffer'[self] = quad
  BY <1>0, <1>1, <1>7
<1>14. Buffered'
  <2> SUFFICES ASSUME NEW g \in Hashers
               PROVE  /\ offset'[g] <= bytesWritten'[g]
                      /\ \A i \in 0 .. Q - 1 : i < offset'[g] =>
                            buffer'[g][i] = base'[g] + (bytesWritten'[g] - offset'[g]) + i
    BY DEF Buffered
  <2>1. CASE g # self
    BY <1>12, <2>1 DEF Inv, Buffered
  <2>2. CASE g = self
    BY <1>4, <1>6, <1>13, <2>2
  <2> QED BY <2>1, <2>2
<1>15. ASSUME NEW g \in Hashers PROVE Stacked(g)'
  <2>1. CASE g # self
    <3>1. Stacked(g)
      BY <2>1 DEF Inv, Resting
    <3> QED BY <1>12, <2>1, <3>1, StackedFrame
  <2>2. CASE g = self
    <3> DEFINE v == w + 1
    <3>1. v \in 0 .. Pow[PAYLOAD_LEVEL] /\ Q * v = bytesWritten'[self] - offset'[self]
      BY <1>2, <1>3, <1>4, <1>13
    <3>2. Begin = 2 * base'[self] /\ End = 2 * (base'[self] + bytesWritten'[self])
      BY <1>1, <1>3, <1>13 DEF Begin, End
    <3>3. StackHolds(stacks'[self], 2 * v, 2 * base'[self], 2 * (base'[self] + bytesWritten'[self]))
      BY <1>2, <1>13, <3>2
    <3> HIDE DEF v
    <3> QED BY <2>2, <3>1, <3>3 DEF Stacked
  <2> QED BY <2>1, <2>2
<1>16. ZerosRight'
  BY <1>0 DEF Inv, ZerosRight
<1> QED
  BY <1>10, <1>11, <1>14, <1>15, <1>16, IdleStays


LEMMA DigestTailInv ==
    ASSUME Inv, NEW h \in Hashers, DigestTail(h)
    PROVE  Inv'
PROOF
<1> DEFINE quad == TailQuad(h)
           first == base[h] + (bytesWritten[h] - offset[h])
           last == base[h] + bytesWritten[h]
           s == [stacks[h] EXCEPT !.carry = Zero(0)]
<1>0. /\ pc = "idle" /\ NeedsTail(h) /\ copy' = s
      /\ ReadQuad(quad) /\ self' = h /\ method' = "digest"
      /\ UNCHANGED <<hasher, caller, CONCAT_BUFFER, zeros, input, readOffset,
                     level, lowest, top, acc>>
  BY DEF DigestTail
<1>1. /\ Q \in Nat \ {0} /\ MAX_PAYLOAD_SIZE = Q * Pow[PAYLOAD_LEVEL] /\ Pow[PAYLOAD_LEVEL] \in Nat \ {0}
      /\ MAX_PAYLOAD_SIZE \in Nat
  BY SpanFacts, Room
<1>2. first \in Nat /\ last \in Nat /\ \A i \in 0 .. Q - 1 : first + i < last <=> i < offset[h]
  <2>1. /\ base[h] \in Nat /\ bytesWritten[h] \in Nat /\ offset[h] \in Nat
        /\ bytesWritten[h] - offset[h] \in Nat
    BY HasherTyped
  <2> QED BY <1>1, <2>1
<1>3. quad \in Quads /\ \A i \in 0 .. Q - 1 : quad[i] = IF first + i < last THEN first + i ELSE NoByte
  <2> SUFFICES ASSUME NEW i \in 0 .. Q - 1
               PROVE  /\ (IF i < offset[h] THEN buffer[h][i] ELSE NoByte) \in Int
                      /\ (IF i < offset[h] THEN buffer[h][i] ELSE NoByte)
                            = IF first + i < last THEN first + i ELSE NoByte
    BY DEF Quads, TailQuad
  <2>1. i < offset[h] => buffer[h][i] = first + i
    BY DEF Inv, Buffered
  <2>2. first + i \in Int /\ NoByte \in Int
    BY <1>1, <1>2 DEF NoByte
  <2> QED BY <1>2, <2>1, <2>2
<1> HIDE DEF quad
<1>4. s \in StackType /\ s # NoStack /\ s.filled = stacks[h].filled /\ s.nodes = stacks[h].nodes
  <2>1. stacks[h] \in StackType /\ Zero(0) \in Node
    BY HasherTyped, NodeTypes
  <2>2. s \in StackType /\ s.filled = stacks[h].filled /\ s.nodes = stacks[h].nodes
    BY <2>1 DEF StackType
  <2> HIDE DEF s
  <2> QED BY <2>2, StackNotNone
<1> HIDE DEF s
<1>5. PICK w \in 0 .. Pow[PAYLOAD_LEVEL] :
         /\ w \in Nat /\ Q * w = bytesWritten[h] - offset[h]
         /\ StackHolds(stacks[h], 2 * w, 2 * base[h], 2 * last)
  <2>1. 2 * last \in Nat /\ 2 * (base[h] + bytesWritten[h]) <= 2 * last
    BY <1>2, HasherTyped
  <2> QED BY <1>0, <2>1, AtRest
<1>6. w \in 0 .. Pow[PAYLOAD_LEVEL] - 1
  <2> DEFINE size == Q * w
             room == Q * Pow[PAYLOAD_LEVEL]
             bytes == bytesWritten[h]
  <2>1. /\ size = bytes - offset[h] /\ bytes <= room /\ bytes \in Nat /\ offset[h] \in Nat
        /\ offset[h] <= bytes
    BY <1>1, <1>5, HasherTyped
  <2>2. offset[h] > 0 \/ bytes = 0
    BY <1>0 DEF NeedsTail
  <2>3. room \in Nat \ {0}
    BY <1>1
  <2> HIDE DEF size, room, bytes
  <2>4. size < room
    BY <2>1, <2>2, <2>3
  <2>5. Q * w < Q * Pow[PAYLOAD_LEVEL]
    BY <2>4 DEF size, room
  <2>6. w + 1 <= Pow[PAYLOAD_LEVEL]
    BY <1>1, <1>5, <2>5, QuadRoom
  <2> QED BY <1>1, <1>5, <2>6
<1>7. /\ base' = base /\ bytesWritten' = bytesWritten /\ offset' = offset /\ stacks' = stacks
      /\ buffer' = buffer /\ input' = input /\ input.len = 0 /\ copy' = s /\ self' = h
  BY <1>0, IdleNow DEF caller, hasher
<1>8. Begin' = 2 * base[h] /\ End' = 2 * last /\ QuadAt' = Q * w /\ Stack' = s
  <2>1. base[h] + bytesWritten[h] + 0 = last
    BY HasherTyped
  <2> QED BY <1>0, <1>4, <1>5, <1>7, <2>1 DEF Begin, End, Stack, QuadAt
<1>9. 2 * first = 2 * base[h] + Q * (2 * w) /\ 2 * base[h] \in Nat
  <2>1. Q * (2 * w) = 2 * (Q * w)
    BY <1>5, QuadRoom
  <2> QED BY <1>5, <2>1, HasherTyped
<1>10. /\ LEAVES' = <<RunNode(1, 2 * base[h] + Q * (2 * w), 2 * last),
                      RunNode(1, 2 * base[h] + Q * (2 * w) + Span(0), 2 * last)>>
       /\ LEAVES' \in Node \X Node /\ leaf' = 0 /\ pc' = "push"
  <2>1. ReadQuad(quad)
    BY <1>0
  <2> HIDE DEF first, last
  <2> QED BY <1>2, <1>3, <1>5, <1>9, <2>1, QuadRead
<1>11. Pushing'
  <2> HIDE DEF last
  <2>1. StackHolds(Stack', 2 * w + leaf', 2 * base[h], 2 * last)
    <3>1. 2 * w + leaf' = 2 * w
      BY <1>5, <1>10
    <3>2. StackHolds(s, 2 * w, 2 * base[h], 2 * last)
      BY <1>4, <1>5 DEF StackHolds, SlotHolds
    <3> QED BY <1>8, <3>1, <3>2
  <2> QED BY <1>6, <1>8, <1>10, <2>1, PushingNext
<1>12. TypeOK'
  <2>1. leaf' \in 0 .. 2
    BY <1>10
  <2> QED BY <1>0, <1>4, <1>10, <2>1 DEF Inv, TypeOK, caller, hasher
<1>13. Control'
  <2>1. self' # NoHasher /\ copy' # NoStack /\ method' = "digest" /\ self' \in Hashers
    BY <1>0, <1>4, JsAssumption
  <2>2. NeedsTail(self)'
    BY <1>0, <1>7 DEF NeedsTail
  <2>3. ~ FoldPhase'
    BY <1>10 DEF FoldPhase
  <2> QED BY <1>7, <1>10, <2>1, <2>2, <2>3 DEF Control
<1>14. Buffered'
  BY <1>7, BufferedFrame DEF Inv
<1>15. Resting'
  <2> SUFFICES ASSUME NEW g \in Hashers PROVE Stacked(g)'
    BY DEF Resting
  <2> QED BY <1>0, <1>7, IdleNow, StackedFrame
<1>16. ZerosRight' /\ PushPhase' /\ ~ FoldPhase'
  BY <1>0, <1>10 DEF Inv, ZerosRight, PushPhase, FoldPhase
<1> QED
  BY <1>11, <1>12, <1>13, <1>14, <1>15, <1>16 DEF Inv, Phases

(* A fold of the stack of w quads begins. *)
LEMMA FoldBegins ==
    ASSUME NEW s, StartFold(s), Stack' = s,
           NEW w \in 1 .. Pow[PAYLOAD_LEVEL], Holds(w, bytesWritten'[self']),
           StackHolds(s, 2 * w, Begin', End')
    PROVE  /\ Folding' /\ pc' = "fold"
           /\ level' \in Slots /\ lowest' \in Slots /\ top' \in Slots
PROOF
<1>1. PICK low \in Slots, high \in Slots :
         /\ IsLowestFilled(s, low) /\ IsTopFilled(s, high)
         /\ lowest' = low /\ top' = high /\ level' = low
         /\ pc' = "fold"
  BY DEF StartFold
<1>2. low \in low .. high
  <2>1. low \in Nat /\ high \in Nat
    BY DEF Slots
  <2>2. ~ (high < low)
    <3>1. SUFFICES ASSUME high < low PROVE FALSE
      OBVIOUS
    <3>2. high \in 0 .. low - 1
      BY <2>1, <3>1
    <3> QED BY <1>1, <3>2 DEF IsLowestFilled, IsTopFilled
  <2> QED BY <2>1, <2>2
<1>3. Folding'
  BY <1>1, <1>2, FoldingNext
<1> QED
  BY <1>1, <1>3 DEF Slots

LEMMA DigestWholeInv ==
    ASSUME Inv, NEW h \in Hashers, DigestWhole(h)
    PROVE  Inv'
PROOF
<1> DEFINE s == stacks[h]
           e == 2 * (base[h] + bytesWritten[h])
<1>0. /\ pc = "idle" /\ ~ NeedsTail(h) /\ StartFold(s)
      /\ self' = h /\ method' = "digest" /\ leaf' = 2
      /\ UNCHANGED <<hasher, caller, LEAVES, CONCAT_BUFFER, zeros, input, readOffset, copy, acc>>
  BY DEF DigestWhole
<1>1. /\ base' = base /\ bytesWritten' = bytesWritten /\ offset' = offset /\ stacks' = stacks
      /\ buffer' = buffer /\ input' = input /\ input.len = 0 /\ copy' = NoStack
  BY <1>0, IdleNow DEF caller, hasher
<1>2. offset[h] = 0 /\ bytesWritten[h] \in Nat \ {0}
  BY <1>0, HasherTyped DEF NeedsTail
<1>3. PICK w \in 0 .. Pow[PAYLOAD_LEVEL] :
         /\ w \in Nat /\ Q * w = bytesWritten[h] - offset[h]
         /\ StackHolds(s, 2 * w, 2 * base[h], e)
  <2>1. e \in Nat /\ 2 * (base[h] + bytesWritten[h]) <= e
    BY HasherTyped
  <2> QED BY <1>0, <2>1, AtRest
<1>4. Q \in Nat \ {0} /\ Pow[PAYLOAD_LEVEL] \in Nat
  BY SpanFacts, Room
<1>5. Q * w = bytesWritten[h]
  BY <1>2, <1>3
<1>6. w \in 1 .. Pow[PAYLOAD_LEVEL] /\ Holds(w, bytesWritten[h])
  <2>1. w # 0
    <3>1. Q * 0 = 0
      BY <1>4
    <3> QED BY <1>2, <1>5, <3>1
  <2>2. PICK v \in Nat : w = v + 1
    <3>1. w - 1 \in Nat /\ w = (w - 1) + 1
      BY <1>3, <2>1
    <3> QED BY <3>1
  <2>3. Q * w = Q * v + Q /\ Q * v \in Nat /\ w - 1 = v
    BY <1>4, <2>2, QuadRoom
  <2>4. Q * (w - 1) < bytesWritten[h]
    BY <1>4, <1>5, <2>3
  <2>5. w \in 1 .. Pow[PAYLOAD_LEVEL]
    BY <1>3, <1>4, <2>1
  <2> QED BY <1>2, <1>5, <2>4, <2>5 DEF Holds
<1>7. Begin' = 2 * base[h] /\ End' = e /\ Stack' = s
  <2>1. base[h] + bytesWritten[h] + 0 = base[h] + bytesWritten[h]
    BY HasherTyped
  <2> QED BY <1>0, <1>1, <2>1 DEF Begin, End, Stack
<1> HIDE DEF s, e
<1>8. /\ Folding' /\ pc' = "fold"
      /\ level' \in Slots /\ lowest' \in Slots /\ top' \in Slots
  <2>1. Holds(w, bytesWritten'[self'])
    BY <1>0, <1>1, <1>6
  <2>2. StackHolds(s, 2 * w, Begin', End')
    BY <1>3, <1>7
  <2> QED BY <1>0, <1>6, <1>7, <2>1, <2>2, FoldBegins
<1>9. TypeOK'
  <2>1. leaf' \in 0 .. 2
    BY <1>0
  <2> QED BY <1>0, <1>8, <2>1 DEF Inv, TypeOK, caller, hasher
<1>10. ~ PushPhase' /\ ZerosRight'
  <2>1. ~ (leaf' < 2) /\ pc' = "fold"
    BY <1>0, <1>8
  <2> QED BY <1>0, <2>1 DEF Inv, ZerosRight, PushPhase
<1>11. Control'
  <2>1. self' # NoHasher /\ method' = "digest" /\ self' \in Hashers /\ leaf' = 2
    BY <1>0, JsAssumption
  <2> QED BY <1>1, <1>8, <1>10, <2>1 DEF Control
<1>12. Buffered'
  BY <1>1, BufferedFrame DEF Inv
<1>13. Resting'
  <2> SUFFICES ASSUME NEW g \in Hashers PROVE Stacked(g)'
    BY DEF Resting
  <2> QED BY <1>0, <1>1, IdleNow, StackedFrame
<1> QED
  BY <1>8, <1>9, <1>10, <1>11, <1>12, <1>13 DEF Inv, Phases

LEMMA TailPushedInv ==
    ASSUME Inv, TailPushed
    PROVE  Inv'
PROOF
<1>0. /\ pc = "push" /\ leaf = 2 /\ method = "digest" /\ PushPhase
      /\ StartFold(copy)
      /\ UNCHANGED <<hasher, caller, LEAVES, CONCAT_BUFFER, zeros, self, method, input,
                     readOffset, copy, leaf, acc>>
  BY DEF TailPushed, PushPhase
<1>1. self \in Hashers /\ copy # NoStack /\ NeedsTail(self) /\ input.len = 0
  <2>1. method # "write" /\ pc # "idle"
    BY <1>0
  <2> QED BY <1>0, <2>1, Zenon DEF Inv, Control
<1>2. Pushing
  BY <1>0 DEF Inv, Phases
<1>3. PICK v \in 0 .. Pow[PAYLOAD_LEVEL] - 1 :
         Q * v = QuadAt /\ StackHolds(Stack, 2 * v + leaf, Begin, End)
  BY <1>0, <1>2 DEF Pushing
<1> DEFINE w == v + 1
<1>4. v \in Nat /\ w \in 1 .. Pow[PAYLOAD_LEVEL] /\ w - 1 = v /\ 2 * v + leaf = 2 * w /\ (w > 1 => v > 0)
  <2>1. Pow[PAYLOAD_LEVEL] \in Nat
    BY Room
  <2> QED BY <1>0, <2>1
<1>5. Holds(w, bytesWritten[self])
  <2> DEFINE size == Q * v
             bytes == bytesWritten[self]
  <2>1. size = bytes - offset[self] /\ size \in Nat /\ Q * w = size + Q /\ Q \in Nat \ {0}
    BY <1>0, <1>3, <1>4, QuadRoom, SpanFacts DEF QuadAt
  <2>2. bytes \in Nat /\ offset[self] \in Nat /\ offset[self] < Q /\ offset[self] <= bytes
        /\ (offset[self] > 0 \/ bytes = 0)
    BY <1>1, HasherTyped DEF NeedsTail
  <2>3. v > 0 => size > 0
    <3>1. SUFFICES ASSUME v > 0 PROVE size > 0
      OBVIOUS
    <3>2. PICK x \in Nat : v = x + 1
      <4>1. v - 1 \in Nat /\ v = (v - 1) + 1
        BY <1>4, <3>1
      <4> QED BY <4>1
    <3>3. size = Q * x + Q /\ Q * x \in Nat
      BY <3>2, QuadRoom
    <3> QED BY <2>1, <3>3
  <2> HIDE DEF size, bytes
  <2>4. bytes <= size + Q /\ (v > 0 => size < bytes)
    BY <2>1, <2>2, <2>3
  <2>5. bytesWritten[self] <= Q * w /\ (w > 1 => Q * (w - 1) < bytesWritten[self])
    BY <1>4, <2>1, <2>4 DEF size, bytes
  <2> QED BY <2>5 DEF Holds
<1>6. StackHolds(copy, 2 * w, Begin, End)
  BY <1>1, <1>3, <1>4 DEF Stack
<1> HIDE DEF w
<1>7. /\ base' = base /\ bytesWritten' = bytesWritten /\ offset' = offset /\ stacks' = stacks
      /\ buffer' = buffer /\ input' = input /\ copy' = copy /\ self' = self /\ leaf' = leaf
      /\ method' = "digest"
  BY <1>0 DEF caller, hasher
<1>8. Begin' = Begin /\ End' = End /\ Stack' = copy
  BY <1>1, <1>7 DEF Begin, End, Stack
<1>9. /\ Folding' /\ pc' = "fold"
      /\ level' \in Slots /\ lowest' \in Slots /\ top' \in Slots
  <2>1. Holds(w, bytesWritten'[self'])
    BY <1>5, <1>7
  <2>2. StackHolds(copy, 2 * w, Begin', End')
    BY <1>6, <1>8
  <2> QED BY <1>0, <1>4, <1>8, <2>1, <2>2, FoldBegins
<1>10. TypeOK'
  BY <1>0, <1>9 DEF Inv, TypeOK, caller, hasher
<1>11. ~ PushPhase' /\ ZerosRight'
  <2>1. ~ (leaf' < 2) /\ pc' = "fold"
    BY <1>0, <1>7, <1>9
  <2> QED BY <1>0, <2>1 DEF Inv, ZerosRight, PushPhase
<1>12. Control'
  <2>1. self' # NoHasher
    BY <1>1, <1>7, JsAssumption
  <2> QED BY <1>0, <1>1, <1>7, <1>9, <1>11, <2>1 DEF Control
<1>13. Buffered'
  BY <1>7, BufferedFrame DEF Inv
<1>14. Resting'
  <2> SUFFICES ASSUME NEW g \in Hashers PROVE Stacked(g)'
    BY DEF Resting
  <2>1. Stacked(g)
    BY <1>0 DEF Inv, Resting
  <2> QED BY <1>7, <2>1, StackedFrame
<1> QED
  BY <1>9, <1>10, <1>11, <1>12, <1>13, <1>14 DEF Inv, Phases


-----------------------------------------------------------------------------
(* The answer. *)

LEMMA ToPaddingFills ==
    ASSUME NEW size \in Nat, NEW k \in 0 .. MAX_LEVEL,
           size <= Q * Pow[k], k > 0 => Q * Pow[k - 1] < size
    PROVE  ToPadding(size) = ZeroPadding(size)
PROOF
<1> DEFINE Fits(i) == /\ size <= Pow[i] * Q
                      /\ \A j \in 0 .. i - 1 : Pow[j] * Q < size
<1>0. MAX_LEVEL \in Nat /\ Q \in Nat \ {0} /\ \A j \in 0 .. MAX_LEVEL : Pow[j] \in Nat /\ Pow[j] * Q = Q * Pow[j]
  <2>1. MAX_LEVEL \in Nat /\ Q \in Nat \ {0} /\ \A j \in 0 .. MAX_LEVEL : Pow[j] \in Nat
    BY TreeAssumption, SpanFacts
  <2> QED BY <2>1
<1>1. Fits(k)
  <2> SUFFICES ASSUME NEW j \in 0 .. k - 1 PROVE Pow[j] * Q < size
    BY <1>0
  <2>1. k > 0 /\ k - 1 \in 0 .. MAX_LEVEL /\ k - 1 \in j .. MAX_LEVEL /\ j \in 0 .. MAX_LEVEL
    BY <1>0
  <2> DEFINE p == k - 1
  <2>2. /\ p \in 0 .. MAX_LEVEL /\ p \in j .. MAX_LEVEL /\ Q * Pow[p] < size
    BY <2>1
  <2> HIDE DEF p
  <2>3. Pow[j] <= Pow[p] /\ Pow[p] \in Nat /\ Pow[j] \in Nat
    BY <1>0, <2>1, <2>2, PowFacts
  <2>4. Q * Pow[j] <= Q * Pow[p]
    <3>1. PICK x \in Nat : Pow[p] = Pow[j] + x
      <4>1. Pow[p] - Pow[j] \in Nat /\ Pow[p] = Pow[j] + (Pow[p] - Pow[j])
        BY <2>3
      <4> QED BY <4>1
    <3>2. Q * Pow[p] = Q * Pow[j] + Q * x /\ Q * x \in Nat /\ Q * Pow[j] \in Nat
      BY <1>0, <2>3, <3>1
    <3> QED BY <3>2
  <2>5. Pow[j] * Q = Q * Pow[j] /\ Q * Pow[j] \in Nat /\ Q * Pow[p] \in Nat
    BY <1>0, <2>1, <2>3
  <2> QED BY <2>2, <2>4, <2>5
<1>2. ASSUME NEW i \in 0 .. MAX_LEVEL, Fits(i) PROVE i = k
  <2>1. ~ (i < k)
    <3>1. SUFFICES ASSUME i < k PROVE FALSE
      OBVIOUS
    <3>2. i \in 0 .. k - 1
      BY <3>1
    <3>3. Pow[i] * Q < size /\ size <= Pow[i] * Q /\ Pow[i] * Q \in Nat
      BY <1>0, <1>1, <1>2, <3>2
    <3> QED BY <3>3
  <2>2. ~ (k < i)
    <3>1. SUFFICES ASSUME k < i PROVE FALSE
      OBVIOUS
    <3>2. k \in 0 .. i - 1
      BY <3>1
    <3>3. Pow[k] * Q < size /\ size <= Pow[k] * Q /\ Pow[k] * Q \in Nat
      BY <1>0, <1>1, <1>2, <3>2
    <3> QED BY <3>3
  <2> QED BY <2>1, <2>2
<1>3. (CHOOSE i \in 0 .. MAX_LEVEL : Fits(i)) = k
  BY <1>1, <1>2
<1>4. ToPadding(size) = Pow[CHOOSE i \in 0 .. MAX_LEVEL : Fits(i)] * Q - size
  BY DEF ToPadding
<1>5. ToPadding(size) = Q * Pow[k] - size
  BY <1>0, <1>3, <1>4
<1>6. ZeroPadding(size) = Q * Pow[k] - size
  BY PaddingFills
<1> QED
  BY <1>5, <1>6

(* The height of the tree fits the payload: the least power of two that    *)
(* holds w quads is the least that holds its bytes.                        *)
LEMMA HeldBy ==
    ASSUME NEW size \in Nat, NEW w \in Nat \ {0}, Holds(w, size), NEW k \in 0 .. MAX_LEVEL,
           w <= Pow[k], k > 0 => Pow[k - 1] < w
    PROVE  size <= Q * Pow[k] /\ (k > 0 => Q * Pow[k - 1] < size)
PROOF
<1>0. MAX_LEVEL \in Nat /\ Q \in Nat \ {0} /\ \A j \in 0 .. MAX_LEVEL : Pow[j] \in Nat \ {0}
  BY TreeAssumption, SpanFacts
<1>1. ASSUME NEW x \in Nat, NEW y \in Nat, x <= y PROVE Q * x <= Q * y
  <2>1. PICK z \in Nat : y = x + z
    <3>1. y - x \in Nat /\ y = x + (y - x)
      BY <1>1
    <3> QED BY <3>1
  <2>2. Q * y = Q * x + Q * z /\ Q * z \in Nat /\ Q * x \in Nat
    BY <1>0, <2>1
  <2> QED BY <2>2
<1>2. size <= Q * w /\ Q * w \in Nat /\ (w > 1 => Q * (w - 1) < size)
  BY <1>0 DEF Holds
<1>3. size <= Q * Pow[k]
  <2> DEFINE p == Pow[k]
             x == Q * p
             y == Q * w
  <2>1. y <= x /\ x \in Nat /\ y \in Nat /\ size <= y
    <3>1. p \in Nat /\ w <= p
      BY <1>0
    <3>2. Q * w <= Q * p
      BY <1>1, <3>1
    <3>3. x \in Nat
      BY <1>0, <3>1
    <3> QED BY <1>2, <3>2, <3>3
  <2> HIDE DEF x, y
  <2>2. size <= x
    BY <2>1
  <2> QED BY <2>2 DEF x
<1>4. ASSUME k > 0 PROVE Q * Pow[k - 1] < size
  <2> DEFINE p == Pow[k - 1]
             u == w - 1
             x == Q * p
             y == Q * u
  <2>1. p \in Nat \ {0} /\ p < w
    <3>1. k - 1 \in 0 .. MAX_LEVEL
      BY <1>0, <1>4
    <3> QED BY <1>0, <1>4, <3>1
  <2> HIDE DEF p
  <2>2. u \in Nat /\ p <= u /\ w > 1
    BY <2>1
  <2>3. y < size
    BY <1>2, <2>2
  <2> HIDE DEF u
  <2>4. x <= y /\ x \in Nat /\ y \in Nat
    BY <1>0, <1>1, <2>1, <2>2
  <2> HIDE DEF x, y
  <2>5. x < size
    BY <2>3, <2>4
  <2> QED BY <2>5 DEF x, p
<1> QED
  BY <1>3, <1>4

(* What a digest answers. *)
Answered ==
    \E k \in 0 .. MAX_LEVEL - 1 :
        LET size == bytesWritten[self]
            root == RunNode(k + 2, 2 * base[self], 2 * (base[self] + size))
        IN  /\ size <= Q * Pow[k] /\ (k > 0 => Q * Pow[k - 1] < size)
            /\ result' = [result EXCEPT ![self] =
                            [padding |-> ZeroPadding(size), height |-> k + 2, root |-> root]]

LEMMA ReturnAnswers ==
    ASSUME Inv, FoldPhase, NEW k \in 0 .. MAX_LEVEL - 1, NEW root,
           root = RunNode(k + 2, 2 * base[self], 2 * (base[self] + bytesWritten[self])),
           NEW w \in Nat \ {0}, Holds(w, bytesWritten[self]),
           w <= Pow[k], k > 0 => Pow[k - 1] < w,
           Return(k + 2, root)
    PROVE  Answered
PROOF
<1> DEFINE size == bytesWritten[self]
<1>1. self \in Hashers /\ size \in Nat
  BY FoldingNow
<1>2. MAX_LEVEL \in Nat /\ k \in 0 .. MAX_LEVEL
  BY TreeAssumption
<1>3. result' = [result EXCEPT ![self] = [padding |-> ToPadding(size), height |-> k + 2, root |-> root]]
  BY DEF Return
<1> HIDE DEF size
<1>4. Holds(w, size)
  BY DEF size
<1>5. size <= Q * Pow[k] /\ (k > 0 => Q * Pow[k - 1] < size)
  BY <1>1, <1>2, <1>4, HeldBy
<1>6. ToPadding(size) = ZeroPadding(size)
  BY <1>1, <1>2, <1>5, ToPaddingFills
<1> QED
  BY <1>3, <1>5, <1>6 DEF Answered, size


(* The whole run begins where the payload does. *)
LEMMA PlaceOfAll ==
    ASSUME NEW c \in Nat, NEW k \in 0 .. MAX_LEVEL, NEW a \in Nat, c % Pow[k] = c
    PROVE  Place(c, k, a) = a
PROOF
<1>1. Place(c, k, a) = a + Q * (c - c)
  BY DEF Place
<1>2. c - c = 0 /\ Q \in Nat
  BY SpanFacts
<1>3. Place(c, k, a) = a + Q * 0
  BY <1>1, <1>2
<1> QED
  BY <1>2, <1>3

LEMMA FoldWholeAnswers ==
    ASSUME Inv, FoldWhole
    PROVE  Answered
PROOF
<1>0. pc = "fold" /\ FoldPhase /\ lowest = top /\ Return(top + 1, Stack.nodes[top])
  BY DEF FoldWhole, FoldPhase
<1>1. /\ self \in Hashers /\ top \in Slots
      /\ Begin = 2 * base[self] /\ End = 2 * (base[self] + bytesWritten[self])
  BY <1>0, FoldingNow
<1>2. PICK w \in 1 .. Pow[PAYLOAD_LEVEL] :
         /\ Holds(w, bytesWritten[self]) /\ 2 * w \in Nat
         /\ StackHolds(Stack, 2 * w, Begin, End)
         /\ IsTopFilled(Stack, top)
         /\ (2 * w) % Pow[top + 1] = 2 * w
         /\ 2 * w = Pow[top]
  BY <1>0, FoldingNow
<1>3. Begin \in Nat /\ End \in Nat
  BY <1>1, SpanOfPayload
<1>4. w \in Nat \ {0}
  <2>1. Pow[PAYLOAD_LEVEL] \in Nat
    BY Room
  <2> QED BY <2>1
<1>5. MAX_LEVEL \in Nat /\ top \in Nat /\ top + 1 \in 0 .. MAX_LEVEL /\ Pow[0] = 1
  BY <1>1, PowDouble, TreeAssumption DEF Slots
<1>6. top # 0
  BY <1>2, <1>4, <1>5
<1>7. PICK k \in 0 .. MAX_LEVEL - 1 : top = k + 1 /\ k \in Slots
  <2>1. top - 1 \in 0 .. MAX_LEVEL - 1 /\ top = (top - 1) + 1 /\ top - 1 \in Slots
    BY <1>5, <1>6 DEF Slots
  <2> QED BY <2>1
<1>8. w = Pow[k] /\ (k > 0 => Pow[k - 1] < w)
  <2>1. Pow[top] = 2 * Pow[k] /\ Pow[k] \in Nat \ {0}
    BY <1>7, PowDouble
  <2>2. w = Pow[k]
    BY <1>2, <1>4, <2>1
  <2>3. ASSUME k > 0 PROVE Pow[k - 1] < w
    <3> DEFINE j == k - 1
    <3>1. j \in Slots /\ k = j + 1
      BY <1>5, <1>7, <2>3 DEF Slots
    <3> HIDE DEF j
    <3>2. Pow[k] = 2 * Pow[j] /\ Pow[j] \in Nat \ {0}
      BY <3>1, PowDouble
    <3>3. Pow[j] < w
      BY <2>2, <3>2
    <3> QED BY <3>3 DEF j
  <2> QED BY <2>2, <2>3
<1>9. Stack.nodes[top] = RunNode(k + 2, 2 * base[self], 2 * (base[self] + bytesWritten[self]))
  <2> DEFINE c == 2 * w
  <2>1. c \in Nat /\ c % Pow[top + 1] = c /\ StackHolds(Stack, c, Begin, End) /\ Stack.filled[top]
    BY <1>2 DEF IsTopFilled
  <2> HIDE DEF c
  <2>2. Place(c, top + 1, Begin) = Begin
    BY <1>3, <1>5, <2>1, PlaceOfAll
  <2>3. Stack.nodes[top] = RunNode(top + 1, Place(c, top + 1, Begin), End)
    BY <1>1, <2>1 DEF StackHolds, SlotHolds
  <2>4. top + 1 = k + 2
    BY <1>7
  <2> QED BY <1>1, <2>2, <2>3, <2>4
<1>10. Return(k + 2, Stack.nodes[top])
  <2>1. top + 1 = k + 2
    BY <1>7
  <2> QED BY <1>0, <2>1
<1>11. w <= Pow[k]
  BY <1>4, <1>8
<1> QED
  BY <1>0, <1>2, <1>4, <1>8, <1>9, <1>10, <1>11, ReturnAnswers

LEMMA EndFoldAnswers ==
    ASSUME Inv, EndFold
    PROVE  Answered
PROOF
<1> DEFINE root == HashPair(CONCAT_BUFFER[1], CONCAT_BUFFER[2])
<1>0. pc = "hash" /\ leaf = 2 /\ FoldPhase /\ level = top /\ Return(top + 2, root)
  BY DEF EndFold, FoldPhase
<1>1. /\ self \in Hashers /\ top \in Slots
      /\ Begin = 2 * base[self] /\ End = 2 * (base[self] + bytesWritten[self])
  BY <1>0, FoldingNow
<1>2. PICK w \in 1 .. Pow[PAYLOAD_LEVEL] :
         /\ Holds(w, bytesWritten[self]) /\ 2 * w \in Nat
         /\ 2 * w < Pow[top + 1] /\ (2 * w) % Pow[top + 1] = 2 * w
         /\ Pow[top] < 2 * w
         /\ CONCAT_BUFFER = PairAt(level, Place(2 * w, level + 1, Begin))
  BY <1>0, FoldingNow
<1>3. Begin \in Nat /\ End \in Nat
  BY <1>1, SpanOfPayload
<1>4. w \in Nat \ {0}
  <2>1. Pow[PAYLOAD_LEVEL] \in Nat
    BY Room
  <2> QED BY <2>1
<1>5. MAX_LEVEL \in Nat /\ top \in Nat /\ top + 1 \in 0 .. MAX_LEVEL /\ top \in 0 .. MAX_LEVEL - 1
  BY <1>1, PowDouble, TreeAssumption DEF Slots
<1>6. w <= Pow[top] /\ (top > 0 => Pow[top - 1] < w)
  <2>1. Pow[top + 1] = 2 * Pow[top] /\ Pow[top] \in Nat \ {0}
    BY <1>1, PowDouble
  <2>2. w <= Pow[top]
    BY <1>2, <1>4, <2>1
  <2>3. ASSUME top > 0 PROVE Pow[top - 1] < w
    <3> DEFINE j == top - 1
    <3>1. j \in Slots /\ top = j + 1
      BY <1>1, <1>5, <2>3 DEF Slots
    <3> HIDE DEF j
    <3>2. Pow[top] = 2 * Pow[j] /\ Pow[j] \in Nat \ {0}
      BY <3>1, PowDouble
    <3>3. Pow[j] < w
      BY <1>2, <1>4, <3>2
    <3> QED BY <3>3 DEF j
  <2> QED BY <2>2, <2>3
<1>7. root = RunNode(top + 2, 2 * base[self], 2 * (base[self] + bytesWritten[self]))
  <2> DEFINE c == 2 * w
  <2>1. c \in Nat /\ c % Pow[top + 1] = c
    BY <1>2
  <2>2. CONCAT_BUFFER = PairAt(top, Place(c, top + 1, Begin))
    BY <1>0, <1>2
  <2> HIDE DEF c
  <2>3. Place(c, top + 1, Begin) = Begin
    BY <1>3, <1>5, <2>1, PlaceOfAll
  <2>4. CONCAT_BUFFER = <<RunNode(top + 1, Begin, End), RunNode(top + 1, Begin + Span(top), End)>>
    BY <2>2, <2>3 DEF PairAt
  <2>5. HashPair(RunNode(top + 1, Begin, End), RunNode(top + 1, Begin + Span(top), End))
           = RunNode(top + 2, Begin, End)
    BY <1>1, <1>3, JoinRuns
  <2>6. root = RunNode(top + 2, Begin, End)
    BY <2>4, <2>5
  <2> HIDE DEF root
  <2> QED BY <1>1, <2>6
<1> HIDE DEF root
<1> QED
  BY <1>0, <1>2, <1>4, <1>5, <1>6, <1>7, ReturnAnswers

LEMMA ReturnInv ==
    ASSUME Inv, FoldWhole \/ EndFold
    PROVE  Inv'
PROOF
<1>0. /\ FoldPhase /\ Answered /\ EndCall
      /\ UNCHANGED <<hasher, base, outcome, LEAVES, CONCAT_BUFFER, zeros>>
  BY FoldWholeAnswers, EndFoldAnswers DEF FoldWhole, EndFold, FoldPhase, Return
<1>1. self \in Hashers /\ method = "digest" /\ base[self] \in Nat /\ bytesWritten[self] \in Nat
  BY <1>0, FoldingNow
<1>2. result' \in [Hashers -> [padding : Nat, height : Nat, root : Node]]
  <2>1. PICK k \in 0 .. MAX_LEVEL - 1 :
           /\ bytesWritten[self] <= Q * Pow[k] /\ (k > 0 => Q * Pow[k - 1] < bytesWritten[self])
           /\ result' = [result EXCEPT ![self] =
                  [padding |-> ZeroPadding(bytesWritten[self]), height |-> k + 2,
                   root |-> RunNode(k + 2, 2 * base[self], 2 * (base[self] + bytesWritten[self]))]]
    BY <1>0 DEF Answered
  <2>2. k \in 0 .. MAX_LEVEL /\ k + 1 \in 0 .. MAX_LEVEL /\ k + 2 \in Nat /\ (k + 1) + 1 = k + 2
    BY TreeAssumption
  <2>3. ZeroPadding(bytesWritten[self]) \in Nat
    <3>1. ZeroPadding(bytesWritten[self]) = Q * Pow[k] - bytesWritten[self]
      BY <1>1, <2>1, <2>2, PaddingFills
    <3> DEFINE x == Q * Pow[k]
    <3>2. x \in Nat /\ bytesWritten[self] <= x /\ ZeroPadding(bytesWritten[self]) = x - bytesWritten[self]
      <4>1. Pow[k] \in Nat /\ Q \in Nat
        BY <2>2, TreeAssumption, SpanFacts
      <4> QED BY <2>1, <3>1, <4>1
    <3> HIDE DEF x
    <3> QED BY <1>1, <3>2
  <2>4. RunNode(k + 2, 2 * base[self], 2 * (base[self] + bytesWritten[self])) \in Node
    <3>1. 2 * base[self] \in Nat /\ 2 * (base[self] + bytesWritten[self]) \in Nat
      BY <1>1
    <3>2. RunNode((k + 1) + 1, 2 * base[self], 2 * (base[self] + bytesWritten[self])) \in Node
      BY <2>2, <3>1, RunTypes
    <3> QED BY <2>2, <3>2
  <2>5. result \in [Hashers -> [padding : Nat, height : Nat, root : Node]]
    BY DEF Inv, TypeOK
  <2> QED BY <2>1, <2>2, <2>3, <2>4, <2>5
<1>3. /\ pc' = "idle" /\ self' = NoHasher /\ method' = "" /\ copy' = NoStack
      /\ input' = [first |-> 0, len |-> 0] /\ readOffset' = 0
      /\ leaf' = 0 /\ level' = 0 /\ lowest' = 0 /\ top' = 0 /\ acc' = Junk
  BY <1>0 DEF EndCall
<1>4. TypeOK'
  <2>1. 0 \in Slots /\ 0 \in Nat /\ 0 \in 0 .. 2 /\ Junk \in Node
    BY NodeTypes, TreeAssumption DEF Slots
  <2>2. [first |-> 0, len |-> 0] \in [first : Nat, len : Nat]
    OBVIOUS
  <2> QED BY <1>0, <1>2, <1>3, <2>1, <2>2 DEF Inv, TypeOK, hasher
<1>5. Buffered' /\ ZerosRight'
  BY <1>0, BufferedFrame DEF Inv, ZerosRight, hasher
<1>6. ASSUME NEW g \in Hashers PROVE Stacked(g)'
  <2>1. Stacked(g)
    <3>1. method # "write"
      BY <1>1
    <3> QED BY <3>1 DEF Inv, Resting
  <2> QED BY <1>0, <2>1, StackedFrame DEF hasher
<1> QED
  BY <1>3, <1>4, <1>5, <1>6, IdleStays


-----------------------------------------------------------------------------
(* A stack with no filled slot, and the invariant of the specification. *)

LEMMA EmptyHolds ==
    ASSUME NEW s, \A k \in Slots : ~ s.filled[k], NEW a, NEW e
    PROVE  StackHolds(s, 2 * 0, a, e)
PROOF
<1>1. ASSUME NEW k \in Slots PROVE Bit(0, k) # 1
  <2>1. Pow[k] \in Nat \ {0} /\ k \in 0 .. MAX_LEVEL
    BY PowDouble
  <2>2. Bit(0, k) = 0
    <3>1. 0 % Pow[k] = 0 /\ 0 \div Pow[k] = 0
      <4>1. Pow[k] * 0 = 0
        BY <2>1
      <4> QED BY <2>1, <4>1, ModOfMultiple
    <3>2. 0 % 2 = 0
      OBVIOUS
    <3> QED BY <3>1, <3>2 DEF Bit
  <2> QED BY <2>2
<1>2. 2 * 0 = 0
  OBVIOUS
<1> QED
  BY <1>1, <1>2 DEF StackHolds, SlotHolds

LEMMA ResetInv ==
    ASSUME Inv, NEW h \in Hashers, Reset(h)
    PROVE  Inv'
PROOF
<1>0. /\ pc = "idle"
      /\ offset' = [offset EXCEPT ![h] = 0]
      /\ bytesWritten' = [bytesWritten EXCEPT ![h] = 0]
      /\ stacks' = [stacks EXCEPT ![h].filled = [k \in Slots |-> FALSE]]
      /\ base' = [base EXCEPT ![h] = base[h] + bytesWritten[h]]
      /\ outcome' = [outcome EXCEPT ![h] = "ok"]
      /\ result' = [result EXCEPT ![h] = NoResult]
      /\ UNCHANGED <<buffer, LEAVES, CONCAT_BUFFER, zeros, call>>
  BY Zenon DEF Reset
<1>1. /\ offset \in [Hashers -> 0 .. Q - 1] /\ bytesWritten \in [Hashers -> 0 .. MAX_PAYLOAD_SIZE]
      /\ base \in [Hashers -> Nat] /\ stacks \in [Hashers -> StackType]
      /\ outcome \in [Hashers -> {"ok", "RangeError"}]
      /\ result \in [Hashers -> [padding : Nat, height : Nat, root : Node]]
  BY DEF Inv, TypeOK
<1>2. 0 \in 0 .. Q - 1 /\ 0 \in 0 .. MAX_PAYLOAD_SIZE /\ base[h] + bytesWritten[h] \in Nat
  <2>1. Q \in Nat \ {0} /\ MAX_PAYLOAD_SIZE \in Nat
    BY SpanFacts, Room
  <2> QED BY <2>1, HasherTyped
<1>3. /\ offset' \in [Hashers -> 0 .. Q - 1] /\ bytesWritten' \in [Hashers -> 0 .. MAX_PAYLOAD_SIZE]
      /\ base' \in [Hashers -> Nat] /\ outcome' \in [Hashers -> {"ok", "RangeError"}]
  BY <1>0, <1>1, <1>2
<1>4. result' \in [Hashers -> [padding : Nat, height : Nat, root : Node]]
  <2>1. NoResult \in [padding : Nat, height : Nat, root : Node]
    BY NodeTypes DEF NoResult
  <2> QED BY <1>0, <1>1, <2>1
<1>5. stacks' \in [Hashers -> StackType] /\ \A k \in Slots : ~ stacks'[h].filled[k]
  <2> DEFINE s == [stacks[h] EXCEPT !.filled = [k \in Slots |-> FALSE]]
  <2>1. stacks' = [stacks EXCEPT ![h] = s]
    BY <1>0, <1>1
  <2>2. s \in StackType /\ \A k \in Slots : ~ s.filled[k]
    BY <1>1 DEF StackType
  <2> HIDE DEF s
  <2>3. stacks' \in [Hashers -> StackType] /\ stacks'[h] = s
    BY <1>1, <2>1, <2>2
  <2> QED BY <2>2, <2>3
<1>6. TypeOK'
  BY <1>0, <1>3, <1>4, <1>5 DEF Inv, TypeOK, call
<1>7. ASSUME NEW g \in Hashers, g # h
      PROVE  /\ stacks'[g] = stacks[g] /\ offset'[g] = offset[g]
             /\ bytesWritten'[g] = bytesWritten[g] /\ base'[g] = base[g]
  BY <1>0, <1>1, <1>7
<1>8. offset'[h] = 0 /\ bytesWritten'[h] = 0
  BY <1>0, <1>1
<1>9. Buffered'
  <2> SUFFICES ASSUME NEW g \in Hashers
               PROVE  /\ offset'[g] <= bytesWritten'[g]
                      /\ \A i \in 0 .. Q - 1 : i < offset'[g] =>
                            buffer'[g][i] = base'[g] + (bytesWritten'[g] - offset'[g]) + i
    BY DEF Buffered
  <2>1. CASE g # h
    BY <1>0, <1>7, <2>1 DEF Inv, Buffered
  <2>2. CASE g = h
    BY <1>8, <2>2
  <2> QED BY <2>1, <2>2
<1>10. ASSUME NEW g \in Hashers PROVE Stacked(g)'
  <2>1. CASE g # h
    BY <1>0, <1>7, <2>1, IdleNow, StackedFrame
  <2>2. CASE g = h
    <3>1. 0 \in 0 .. Pow[PAYLOAD_LEVEL] /\ Q * 0 = bytesWritten'[h] - offset'[h]
      <4>1. Pow[PAYLOAD_LEVEL] \in Nat /\ Q \in Nat
        BY Room, SpanFacts
      <4> QED BY <1>8, <4>1
    <3>2. StackHolds(stacks'[h], 2 * 0, 2 * base'[h], 2 * (base'[h] + bytesWritten'[h]))
      BY <1>5, EmptyHolds
    <3> QED BY <2>2, <3>1, <3>2 DEF Stacked
  <2> QED BY <2>1, <2>2
<1>11. ZerosRight'
  BY <1>0 DEF Inv, ZerosRight
<1> QED
  BY <1>0, <1>6, <1>9, <1>10, <1>11, IdleNow, IdleStays DEF call

LEMMA InitInv == Init => Inv
PROOF
<1> SUFFICES ASSUME Init PROVE Inv
  OBVIOUS
<1>0. /\ Q \in Nat \ {0} /\ MAX_PAYLOAD_SIZE \in Nat /\ MAX_LEVEL \in Nat \ {0}
      /\ Pow[PAYLOAD_LEVEL] \in Nat
  BY SpanFacts, Room, TreeAssumption
<1>1. EmptyStack \in StackType /\ \A k \in Slots : ~ EmptyStack.filled[k]
  BY NodeTypes DEF EmptyStack, StackType, StackNodes
<1>2. /\ pc = "idle" /\ self = NoHasher /\ method = "" /\ copy = NoStack
      /\ input = [first |-> 0, len |-> 0] /\ readOffset = 0
      /\ leaf = 0 /\ level = 0 /\ lowest = 0 /\ top = 0 /\ acc = Junk
      /\ zeros = <<Zero(0)>>
      /\ LEAVES = <<Zero(0), Zero(0)>> /\ CONCAT_BUFFER = <<Zero(0), Zero(0)>>
      /\ offset = [h \in Hashers |-> 0] /\ bytesWritten = [h \in Hashers |-> 0]
      /\ base = [h \in Hashers |-> 0] /\ outcome = [h \in Hashers |-> "ok"]
  BY Zenon DEF Init
<1>3. TypeOK
  <2>1. buffer \in [Hashers -> Quads]
    <3>1. [i \in 0 .. Q - 1 |-> NoByte] \in Quads
      BY DEF Quads, NoByte
    <3> QED BY <3>1 DEF Init
  <2>2. /\ offset \in [Hashers -> 0 .. Q - 1] /\ bytesWritten \in [Hashers -> 0 .. MAX_PAYLOAD_SIZE]
        /\ base \in [Hashers -> Nat] /\ outcome \in [Hashers -> {"ok", "RangeError"}]
    <3>1. 0 \in 0 .. Q - 1 /\ 0 \in 0 .. MAX_PAYLOAD_SIZE /\ 0 \in Nat
      BY <1>0
    <3> QED BY <1>2, <3>1
  <2>3. stacks \in [Hashers -> StackType]
    BY <1>1 DEF Init
  <2>4. result \in [Hashers -> [padding : Nat, height : Nat, root : Node]]
    <3>1. NoResult \in [padding : Nat, height : Nat, root : Node]
      BY NodeTypes DEF NoResult
    <3> QED BY <3>1 DEF Init
  <2>5. LEAVES \in Node \X Node /\ CONCAT_BUFFER \in Node \X Node /\ zeros \in Seq(Node)
    <3>1. Zero(0) \in Node
      BY NodeTypes
    <3>2. <<Zero(0), Zero(0)>> \in Node \X Node /\ <<Zero(0)>> \in Seq(Node)
      BY <3>1
    <3> QED BY <1>2, <3>2
  <2>6. /\ input \in [first : Nat, len : Nat] /\ 0 \in Slots /\ 0 \in 0 .. 2 /\ acc \in Node
    <3>1. 0 \in Slots
      BY <1>0 DEF Slots
    <3>2. [first |-> 0, len |-> 0] \in [first : Nat, len : Nat]
      OBVIOUS
    <3>3. acc \in Node
      BY <1>2, NodeTypes
    <3>4. input \in [first : Nat, len : Nat]
      BY <1>2, <3>2
    <3> QED BY <3>1, <3>3, <3>4
  <2> QED BY <1>2, <2>1, <2>2, <2>3, <2>4, <2>5, <2>6 DEF TypeOK
<1>4. Buffered
  <2>1. \A h \in Hashers : offset[h] = 0 /\ bytesWritten[h] = 0
    BY <1>2
  <2>2. \A i \in 0 .. Q - 1 : ~ (i < 0)
    BY <1>0
  <2> QED BY <2>1, <2>2 DEF Buffered
<1>5. ASSUME NEW h \in Hashers PROVE Stacked(h)
  <2>1. stacks[h] = EmptyStack /\ offset[h] = 0 /\ bytesWritten[h] = 0
    BY DEF Init
  <2>2. StackHolds(stacks[h], 2 * 0, 2 * base[h], 2 * (base[h] + bytesWritten[h]))
    BY <1>1, <2>1, EmptyHolds
  <2>3. 0 \in 0 .. Pow[PAYLOAD_LEVEL] /\ Q * 0 = bytesWritten[h] - offset[h]
    BY <1>0, <2>1
  <2> QED BY <2>2, <2>3 DEF Stacked
<1>6. ZerosRight
  <2> DEFINE z == Zero(0)
  <2>2. zeros = <<z>>
    BY Zenon, <1>2
  <2> HIDE DEF z
  <2>3. Len(zeros) = 1 /\ zeros[1] = z
    BY <2>2
  <2>4. 1 - 1 = 0
    OBVIOUS
  <2>1. Len(zeros) = 1 /\ zeros[1] = Zero(1 - 1)
    BY <2>3, <2>4 DEF z
  <2> QED BY <2>1 DEF ZerosRight
<1>7. Control /\ Resting /\ Phases
  BY <1>2, <1>5 DEF Control, Resting, Phases, PushPhase, FoldPhase
<1> QED
  BY <1>3, <1>4, <1>6, <1>7 DEF Inv

LEMMA StutterInv ==
    ASSUME Inv, UNCHANGED vars
    PROVE  Inv'
PROOF
<1>1. /\ UNCHANGED <<buffer, offset, bytesWritten, stacks, base, outcome, result, LEAVES,
                     CONCAT_BUFFER, zeros, pc, self, method, input, readOffset, copy, leaf,
                     level, lowest, top, acc>>
  BY DEF vars, hasher, caller, call
<1>2. TypeOK' /\ Control' /\ Buffered' /\ ZerosRight'
  <2>1. TypeOK'
    BY <1>1 DEF Inv, TypeOK
  <2>2. Control'
    BY <1>1 DEF Inv, Control, PushPhase, FoldPhase, NeedsTail
  <2>3. Buffered' /\ ZerosRight'
    BY <1>1 DEF Inv, Buffered, ZerosRight
  <2> QED BY <2>1, <2>2, <2>3
<1>3. Resting'
  BY <1>1 DEF Inv, Resting, Stacked
<1>4. Begin' = Begin /\ End' = End /\ QuadAt' = QuadAt /\ Stack' = Stack
      /\ (PushPhase' <=> PushPhase) /\ (FoldPhase' <=> FoldPhase)
  BY <1>1 DEF Begin, End, QuadAt, Stack, PushPhase, FoldPhase
<1>5. Pushing => Pushing'
  BY <1>1, <1>4 DEF Pushing, PairAt
<1>6. Folding => Folding'
  BY <1>1, <1>4 DEF Folding, PairAt
<1> QED
  BY <1>2, <1>3, <1>4, <1>5, <1>6 DEF Inv, Phases

LEMMA JsStep == Inv /\ [Next]_vars => Inv'
PROOF
<1> SUFFICES ASSUME Inv, [Next]_vars PROVE Inv'
  OBVIOUS
<1>1. ASSUME NEW h \in Hashers, NEW len \in WriteSizes,
             WriteRefused(h, len) \/ WriteNothing(h, len) \/ WriteFast(h, len) \/ WriteBulk(h, len)
      PROVE  Inv'
  BY <1>1, WriteOutcomeInv, WriteFastInv, WriteBulkInv
<1>2. ASSUME NEW h \in Hashers, DigestTail(h) \/ DigestWhole(h) \/ Reset(h) PROVE Inv'
  BY <1>2, DigestTailInv, DigestWholeInv, ResetInv
<1>3. ASSUME CallStep PROVE Inv'
  BY <1>3, WriteQuadInv, WriteTailInv, PushLeafInv, CarryLoadInv, CarryHashInv, CarryStoreInv,
     TailPushedInv, ReturnInv, ZeroFillInv, FoldLoadInv, FoldHashInv DEF CallStep
<1>4. CASE UNCHANGED vars
  BY <1>4, StutterInv
<1> QED
  BY <1>1, <1>2, <1>3, <1>4 DEF Next

(* In every reachable state the slots of each stack are those of the bits  *)
(* of a number of leaves, and the shared scratch arrays hold what the call *)
(* in progress put there (tree.js 75-124).                                 *)
THEOREM JsInductive == Spec => []Inv
PROOF
<1> QED
  BY InitInv, JsStep, PTL DEF Spec


-----------------------------------------------------------------------------
(* The theorems. *)

(* Every state has the types TypeOK gives: no push or fold leaves the      *)
(* slots of the stack, whatever the payload (tree.js 17-45, 75-124).       *)
THEOREM JsTypeOK == Spec => []TypeOK
PROOF
<1>1. Inv => TypeOK
  BY DEF Inv
<1> QED
  BY <1>1, JsInductive, PTL

(* A filled slot is a complete subtree of the payload. *)
LEMMA SlotExtent ==
    ASSUME NEW s, NEW c \in Nat, NEW a \in Nat, NEW e \in Nat, StackHolds(s, c, a, e),
           a + Q * c <= e, NEW k \in Slots, s.filled[k]
    PROVE  /\ s.nodes[k].level = k + 1 /\ Complete(s.nodes[k])
           /\ s.nodes[k].lo = Place(c, k + 1, a) /\ s.nodes[k].hi = Place(c, k, a)
PROOF
<1> DEFINE lo == Place(c, k + 1, a)
           hi == Place(c, k, a)
<1>1. s.nodes[k] = RunNode(k + 1, lo, e) /\ Bit(c, k) = 1
  BY DEF StackHolds, SlotHolds
<1>2. /\ k \in 0 .. MAX_LEVEL /\ k + 1 \in 0 .. MAX_LEVEL /\ MAX_LEVEL \in Nat
      /\ Q * c \in Nat /\ Span(k) \in Nat \ {0}
  <2>1. k \in 0 .. MAX_LEVEL /\ k + 1 \in 0 .. MAX_LEVEL /\ MAX_LEVEL \in Nat
    BY PowDouble, TreeAssumption
  <2>2. Q \in Nat /\ Span(k) \in Nat \ {0}
    BY <2>1, SpanFacts
  <2> QED BY <2>1, <2>2
<1>3. hi = lo + Span(k)
  BY <1>1, PlaceOfBit
<1>4. lo \in Nat /\ hi <= a + Q * c /\ hi \in Nat
  BY <1>2, PlaceFacts
<1> HIDE DEF lo, hi
<1>5. lo + Span(k) <= e
  BY <1>2, <1>3, <1>4
<1>6. s.nodes[k] = Extent(k + 1, lo, hi)
  BY <1>1, <1>3, <1>4, <1>5, WholeRun
<1>7. k + 1 - 1 = k /\ hi - lo = Span(k)
  BY <1>2, <1>3, <1>4
<1> QED
  BY <1>2, <1>6, <1>7 DEF Extent, Complete, lo, hi

(* A stack is empty when it holds no leaves. *)
LEMMA SomeFilled ==
    ASSUME NEW s, NEW c \in Nat, NEW a, NEW e, StackHolds(s, c, a, e), c < Pow[MAX_LEVEL]
    PROVE  c > 0 <=> \E k \in Slots : s.filled[k]
PROOF
<1>0. MAX_LEVEL \in Nat /\ 0 \in 0 .. MAX_LEVEL /\ MAX_LEVEL \in 0 .. MAX_LEVEL /\ Pow[0] = 1
      /\ Pow[MAX_LEVEL] \in Nat \ {0}
  BY TreeAssumption
<1>1. ASSUME NEW k \in Slots, s.filled[k] PROVE c > 0
  <2>1. Bit(c, k) = 1
    BY <1>1 DEF StackHolds, SlotHolds
  <2>2. c % Pow[k + 1] = (c % Pow[k]) + Pow[k] /\ c % Pow[k] \in Nat /\ c % Pow[k + 1] <= c
        /\ Pow[k] \in Nat \ {0}
    BY <2>1, BitSplit, PowDouble
  <2> QED BY <2>2
<1>2. ASSUME \A k \in Slots : ~ s.filled[k] PROVE c = 0
  <2>1. \A k \in 0 .. MAX_LEVEL - 1 : Bit(c, k) = 0
    <3> SUFFICES ASSUME NEW k \in Slots PROVE Bit(c, k) = 0
      BY DEF Slots
    <3>1. Bit(c, k) # 1
      BY <1>2 DEF StackHolds, SlotHolds
    <3> QED BY <3>1, BitSplit
  <2>2. c % Pow[MAX_LEVEL] = c % Pow[0]
    BY <1>0, <2>1, BitsClear
  <2>3. c % 1 = 0
    OBVIOUS
  <2> DEFINE D == Pow[MAX_LEVEL]
             q == c \div D
             r == c % D
  <2>4. r = 0
    BY <1>0, <2>2, <2>3
  <2>5. D \in Nat \ {0} /\ c < D
    BY <1>0
  <2> HIDE DEF D
  <2>6. q \in Nat /\ r \in Nat /\ c = D * q + r
    BY <2>5, DivMod
  <2> HIDE DEF q, r
  <2>7. q = 0
    BY <2>4, <2>5, <2>6
  <2> QED BY <2>4, <2>5, <2>6, <2>7
<1> QED
  BY <1>1, <1>2

(* Two slots with no filled one between them are neighbours. *)
LEMMA SlotsAdjoin ==
    ASSUME NEW s, NEW c \in Nat, NEW a, NEW e, StackHolds(s, c, a, e),
           NEW k \in Slots, NEW j \in Slots, k < j,
           \A i \in Slots : k < i /\ i < j => ~ s.filled[i]
    PROVE  Place(c, k + 1, a) = Place(c, j, a)
PROOF
<1>0. MAX_LEVEL \in Nat
  BY TreeAssumption
<1>1. k + 1 \in 0 .. MAX_LEVEL /\ j \in k + 1 .. MAX_LEVEL
  BY <1>0 DEF Slots
<1>2. \A i \in k + 1 .. j - 1 : Bit(c, i) = 0
  <2> SUFFICES ASSUME NEW i \in k + 1 .. j - 1 PROVE Bit(c, i) = 0
    OBVIOUS
  <2>1. i \in Slots /\ k < i /\ i < j
    BY <1>0 DEF Slots
  <2>2. Bit(c, i) # 1
    BY <2>1 DEF StackHolds, SlotHolds
  <2> QED BY <2>1, <2>2, BitSplit
<1>3. c % Pow[j] = c % Pow[k + 1]
  BY <1>1, <1>2, BitsClear
<1> QED
  BY <1>3 DEF Place

(* Between calls the filled slots tile the stacked payload of each hasher  *)
(* (tree.js 35-40, 75-91).                                                 *)
THEOREM JsFilledTilePayload == Spec => []FilledTilePayload
PROOF
<1>1. ASSUME Inv, pc = "idle", NEW h \in Hashers
      PROVE  LET s == stacks[h]
                 above(k) == {j \in Slots : j > k /\ s.filled[j]}
                 below(k) == {j \in Slots : j < k /\ s.filled[j]}
             IN  /\ bytesWritten[h] - offset[h] > 0 <=> \E k \in Slots : s.filled[k]
                 /\ \A k \in Slots : s.filled[k] =>
                       /\ s.nodes[k].level = k + 1 /\ Complete(s.nodes[k])
                       /\ above(k) = {} => s.nodes[k].lo = 2 * base[h]
                       /\ \A j \in above(k) : above(k) \cap below(j) = {} =>
                             s.nodes[k].lo = s.nodes[j].hi
                       /\ below(k) = {} =>
                             s.nodes[k].hi = 2 * (base[h] + bytesWritten[h] - offset[h])
  <2> DEFINE s == stacks[h]
             a == 2 * base[h]
             e == 2 * (base[h] + bytesWritten[h])
             above(k) == {j \in Slots : j > k /\ s.filled[j]}
             below(k) == {j \in Slots : j < k /\ s.filled[j]}
  <2>1. a \in Nat /\ e \in Nat
    BY <1>1, HasherTyped
  <2>2. PICK w \in 0 .. Pow[PAYLOAD_LEVEL] :
           /\ w \in Nat /\ Q * w = bytesWritten[h] - offset[h]
           /\ StackHolds(s, 2 * w, a, e)
    <3>1. 2 * (base[h] + bytesWritten[h]) <= e
      BY <2>1
    <3> QED BY <1>1, <2>1, <3>1, AtRest
  <2> DEFINE c == 2 * w
             held == bytesWritten[h] - offset[h]
  <2>3. held \in Nat /\ a + Q * c = 2 * (base[h] + bytesWritten[h] - offset[h])
        /\ a + Q * c <= e /\ Q * w = held
    <3>1. Q * c = 2 * (Q * w)
      BY <2>2, QuadRoom
    <3> QED BY <1>1, <2>2, <3>1, HasherTyped
  <2>4. c \in Nat /\ c < Pow[MAX_LEVEL] /\ StackHolds(s, c, a, e) /\ (c > 0 <=> w > 0)
    <3>1. 2 * w <= 2 * Pow[PAYLOAD_LEVEL] /\ 2 * w \in Nat
      BY <2>2, Room
    <3>2. 2 * w < Pow[MAX_LEVEL]
      BY <3>1, Room
    <3> QED BY <2>2, <3>1, <3>2
  <2>5. held > 0 <=> w > 0
    <3>1. Q \in Nat \ {0} /\ Q * 0 = 0
      BY SpanFacts
    <3>2. ASSUME w > 0 PROVE held > 0
      <4>1. PICK v \in Nat : w = v + 1
        <5>1. w - 1 \in Nat /\ w = (w - 1) + 1
          BY <2>2, <3>2
        <5> QED BY <5>1
      <4>2. Q * w = Q * v + Q /\ Q * v \in Nat
        BY <4>1, QuadRoom
      <4> QED BY <2>3, <3>1, <4>2
    <3> QED BY <2>2, <2>3, <3>1, <3>2
  <2> HIDE DEF c, s, a, e, held
  <2>6. held > 0 <=> \E k \in Slots : s.filled[k]
    BY <2>4, <2>5, SomeFilled
  <2>7. ASSUME NEW k \in Slots, s.filled[k]
        PROVE  /\ s.nodes[k].level = k + 1 /\ Complete(s.nodes[k])
               /\ s.nodes[k].lo = Place(c, k + 1, a) /\ s.nodes[k].hi = Place(c, k, a)
    <3>1. c \in Nat /\ StackHolds(s, c, a, e) /\ a + Q * c <= e /\ s.filled[k]
      BY <2>3, <2>4, <2>7
    <3> QED BY <2>1, <3>1, SlotExtent
  <2>8. ASSUME NEW k \in Slots, s.filled[k]
        PROVE  /\ s.nodes[k].level = k + 1 /\ Complete(s.nodes[k])
               /\ above(k) = {} => s.nodes[k].lo = a
               /\ \A j \in above(k) : above(k) \cap below(j) = {} =>
                     s.nodes[k].lo = s.nodes[j].hi
               /\ below(k) = {} => s.nodes[k].hi = a + Q * c
    <3>1. /\ s.nodes[k].level = k + 1 /\ Complete(s.nodes[k])
          /\ s.nodes[k].lo = Place(c, k + 1, a) /\ s.nodes[k].hi = Place(c, k, a)
      BY <2>7, <2>8
    <3>2. ASSUME above(k) = {} PROVE s.nodes[k].lo = a
      <4>1. IsTopFilled(s, k)
        <5> SUFFICES ASSUME NEW j \in k + 1 .. MAX_LEVEL - 1, s.filled[j] PROVE FALSE
          BY <2>8 DEF IsTopFilled
        <5>1. MAX_LEVEL \in Nat
          BY TreeAssumption
        <5>2. j \in Slots /\ j > k
          BY <5>1 DEF Slots
        <5> QED BY <3>2, <5>2
      <4>2. c % Pow[k + 1] = c /\ k + 1 \in 0 .. MAX_LEVEL
        BY <2>4, <4>1, TopCount, PowDouble
      <4>3. Place(c, k + 1, a) = a
        BY <2>1, <2>4, <4>2, PlaceOfAll
      <4> QED BY <3>1, <4>3
    <3>3. ASSUME NEW j \in above(k), above(k) \cap below(j) = {}
          PROVE  s.nodes[k].lo = s.nodes[j].hi
      <4>1. j \in Slots /\ k < j /\ s.filled[j]
        BY DEF Slots
      <4>2. \A i \in Slots : k < i /\ i < j => ~ s.filled[i]
        <5> SUFFICES ASSUME NEW i \in Slots, k < i, i < j, s.filled[i] PROVE FALSE
          OBVIOUS
        <5>1. i > k
          BY DEF Slots
        <5>2. i \in above(k) /\ i \in below(j)
          BY <5>1
        <5> QED BY <3>3, <5>2
      <4>3. Place(c, k + 1, a) = Place(c, j, a)
        BY <2>4, <4>1, <4>2, SlotsAdjoin
      <4>4. s.nodes[j].hi = Place(c, j, a)
        BY <2>7, <4>1
      <4> QED BY <3>1, <4>3, <4>4
    <3>4. ASSUME below(k) = {} PROVE s.nodes[k].hi = a + Q * c
      <4>1. IsLowestFilled(s, k)
        <5> SUFFICES ASSUME NEW j \in 0 .. k - 1, s.filled[j] PROVE FALSE
          BY <2>8 DEF IsLowestFilled
        <5>1. MAX_LEVEL \in Nat
          BY TreeAssumption
        <5>2. j \in Slots /\ j < k
          BY <5>1 DEF Slots
        <5> QED BY <3>4, <5>2
      <4>2. c % Pow[k] = 0
        BY <2>4, <4>1, LowestCount
      <4>3. Place(c, k, a) = a + Q * c
        BY <2>1, <2>4, <4>2, PlaceWhole
      <4> QED BY <3>1, <4>3
    <3> QED BY <3>1, <3>2, <3>3, <3>4
  <2> QED BY <2>3, <2>6, <2>8 DEF s, a, held
<1>2. Inv => FilledTilePayload
  BY <1>1 DEF FilledTilePayload
<1> QED
  BY <1>2, JsInductive, PTL

(* digest() leaves the hasher as it was: the tail is pushed on a clone     *)
(* (index.js 175, tree.js 98).                                             *)
THEOREM JsDigestKeepsHasher == Spec => DigestKeepsHasher
PROOF
<1>1. ASSUME Inv, [Next]_vars, method = "digest" \/ method' = "digest"
      PROVE  UNCHANGED hasher
  <2>1. ASSUME NEW h \in Hashers, NEW len \in WriteSizes,
               \/ WriteRefused(h, len) \/ WriteNothing(h, len)
               \/ WriteFast(h, len) \/ WriteBulk(h, len)
        PROVE  UNCHANGED hasher
    <3>1. pc = "idle"
      BY <2>1 DEF WriteRefused, WriteNothing, WriteFast, WriteBulk
    <3>2. method = ""
      BY <1>1, <3>1, IdleNow
    <3>3. CASE WriteRefused(h, len) \/ WriteNothing(h, len)
      BY <3>3 DEF WriteRefused, WriteNothing
    <3>4. CASE WriteFast(h, len)
      BY <1>1, <3>2, <3>4 DEF WriteFast, call
    <3>5. CASE WriteBulk(h, len)
      BY <1>1, <3>2, <3>5 DEF WriteBulk
    <3> QED BY <2>1, <3>3, <3>4, <3>5
  <2>2. ASSUME NEW h \in Hashers, DigestTail(h) \/ DigestWhole(h) \/ Reset(h)
        PROVE  UNCHANGED hasher
    <3>1. CASE Reset(h)
      <4>1. pc = "idle" /\ method' = method
        BY <3>1 DEF Reset, call
      <4>2. method = ""
        BY <1>1, <4>1, IdleNow
      <4> QED BY <1>1, <4>1, <4>2
    <3>2. CASE DigestTail(h) \/ DigestWhole(h)
      BY <3>2 DEF DigestTail, DigestWhole
    <3> QED BY <2>2, <3>1, <3>2
  <2>3. CASE PushLeaf \/ CarryHash \/ CarryStore
    <3>1. PushPhase /\ pc # "idle" /\ method' = method
      BY <2>3 DEF PushLeaf, CarryHash, CarryStore, PushPhase
    <3>2. copy # NoStack
      <4>1. method = "digest"
        BY <1>1, <3>1
      <4> QED BY <1>1, <3>1, <4>1, Zenon DEF Inv, Control
    <3>3. UNCHANGED stacks
      BY <2>3, <3>2 DEF PushLeaf, CarryHash, CarryStore, SetStack
    <3> QED BY <2>3, <3>3 DEF PushLeaf, CarryHash, CarryStore, hasher
  <2>4. CASE WriteTail
    BY <1>1, <2>4 DEF WriteTail, EndCall
  <2>5. CASE \/ WriteQuad \/ CarryLoad \/ TailPushed \/ FoldWhole \/ ZeroFill
             \/ FoldLoad \/ FoldHash \/ EndFold
    BY <2>5 DEF WriteQuad, CarryLoad, TailPushed, FoldWhole, ZeroFill, FoldLoad, FoldHash,
                EndFold, Return
  <2>6. CASE UNCHANGED vars
    BY <2>6 DEF vars
  <2> QED BY <1>1, <2>1, <2>2, <2>3, <2>4, <2>5, <2>6 DEF Next, CallStep
<1> QED
  BY <1>1, JsInductive, PTL DEF Spec, DigestKeepsHasher


-----------------------------------------------------------------------------
(* Each hasher keeps the promise of PieceCommitment. *)

LEMMA PieceStutter ==
    ASSUME NEW h \in Hashers, base'[h] = base[h], bytesWritten'[h] = bytesWritten[h],
           outcome'[h] = outcome[h], result'[h] = result[h]
    PROVE  [Piece(h)!Next]_(Piece(h)!vars)
PROOF
  BY DEF Piece!vars

LEMMA PieceAccept ==
    ASSUME NEW h \in Hashers, NEW len \in WriteSizes, base'[h] = base[h],
           bytesWritten'[h] = bytesWritten[h] + len,
           bytesWritten[h] + len <= MAX_PAYLOAD_SIZE, outcome'[h] = "ok",
           result'[h] = IF len = 0 THEN result[h] ELSE NoResult
    PROVE  [Piece(h)!Next]_(Piece(h)!vars)
PROOF
<1>1. Piece(h)!Accept(len)
  BY DEF Piece!Accept, Piece!NoAnswer, NoResult, Piece!Junk, Junk, Piece!Extent, Extent
<1> QED
  BY <1>1 DEF Piece!Next

LEMMA PieceRefuse ==
    ASSUME NEW h \in Hashers, NEW len \in WriteSizes, base'[h] = base[h],
           bytesWritten'[h] = bytesWritten[h],
           bytesWritten[h] + len > MAX_PAYLOAD_SIZE, outcome'[h] = "RangeError",
           result'[h] = result[h]
    PROVE  [Piece(h)!Next]_(Piece(h)!vars)
PROOF
<1>1. Piece(h)!Refuse(len)
  BY DEF Piece!Refuse
<1> QED
  BY <1>1 DEF Piece!Next

LEMMA PieceRestart ==
    ASSUME NEW h \in Hashers, base[h] + bytesWritten[h] <= MaxBase,
           base'[h] = base[h] + bytesWritten[h], bytesWritten'[h] = 0,
           outcome'[h] = "ok", result'[h] = NoResult
    PROVE  [Piece(h)!Next]_(Piece(h)!vars)
PROOF
<1>1. Piece(h)!Restart
  BY DEF Piece!Restart, Piece!NoAnswer, NoResult, Piece!Junk, Junk, Piece!Extent, Extent
<1> QED
  BY <1>1 DEF Piece!Next

LEMMA PieceAnswer ==
    ASSUME NEW h \in Hashers, base[h] \in Nat, bytesWritten[h] \in Nat,
           NEW k \in 0 .. MAX_LEVEL - 1,
           bytesWritten[h] <= Q * Pow[k], k > 0 => Q * Pow[k - 1] < bytesWritten[h],
           base'[h] = base[h], bytesWritten'[h] = bytesWritten[h], outcome'[h] = outcome[h],
           result'[h] = [padding |-> ZeroPadding(bytesWritten[h]), height |-> k + 2,
                         root |-> RunNode(k + 2, 2 * base[h], 2 * (base[h] + bytesWritten[h]))]
    PROVE  [Piece(h)!Next]_(Piece(h)!vars)
PROOF
<1> DEFINE b == base[h]
           n == bytesWritten[h]
           root == RunNode(k + 2, 2 * b, 2 * (b + n))
           c == [padding |-> ZeroPadding(n), height |-> k + 2, root |-> root]
<1>1. b \in Nat /\ n \in Nat /\ n <= Q * Pow[k] /\ (k > 0 => Q * Pow[k - 1] < n)
      /\ result'[h] = c
  OBVIOUS
<1> HIDE DEF b, n
<1>2. IsCommitment(c, b, n)
  <2> HIDE DEF root
  <2>1. root = RunNode(k + 2, 2 * b, 2 * (b + n))
    BY DEF root
  <2> QED BY <1>1, <2>1, CommitmentOf
<1>3. k \in 0 .. MAX_LEVEL
  BY TreeAssumption
<1>4. ZeroPadding(n) = Q * Pow[k] - n
  BY <1>1, <1>3, PaddingFills
<1>5. root = IF n = 0 THEN Zero(k + 2) ELSE Extent(k + 2, 2 * b, 2 * (b + n))
  <2>1. c.root = root /\ c.height = k + 2
    OBVIOUS
  <2> HIDE DEF c
  <2> QED BY <1>2, <2>1 DEF IsCommitment
<1>6. c = [padding |-> Q * Pow[k] - n, height |-> k + 2,
           root |-> IF n = 0 THEN Zero(k + 2) ELSE Extent(k + 2, 2 * b, 2 * (b + n))]
  <2> HIDE DEF root
  <2> QED BY <1>4, <1>5
<1> HIDE DEF c
<1>7. Piece(h)!Q = Q /\ Piece(h)!Zero(k + 2) = Zero(k + 2)
      /\ (\A x, y, z : Piece(h)!Extent(x, y, z) = Extent(x, y, z))
      /\ (\A x, y, z : Piece(h)!IsCommitment(x, y, z) = IsCommitment(x, y, z))
  BY DEF Piece!Q, Q, Piece!Zero, Zero, Piece!Extent, Extent, Piece!IsCommitment, IsCommitment
<1>8. Piece(h)!Answer
  BY <1>1, <1>2, <1>3, <1>6, <1>7 DEF Piece!Answer, b, n
<1> QED
  BY <1>8 DEF Piece!Next

LEMMA PieceStep ==
    ASSUME Inv, [Next]_vars, NEW g \in Hashers
    PROVE  [Piece(g)!Next]_(Piece(g)!vars)
PROOF
<1>0. /\ bytesWritten \in [Hashers -> 0 .. MAX_PAYLOAD_SIZE] /\ base \in [Hashers -> Nat]
      /\ outcome \in [Hashers -> {"ok", "RangeError"}]
      /\ result \in [Hashers -> [padding : Nat, height : Nat, root : Node]]
  BY DEF Inv, TypeOK
<1>1. ASSUME NEW h \in Hashers, NEW len \in WriteSizes, WriteRefused(h, len)
      PROVE  [Piece(g)!Next]_(Piece(g)!vars)
  <2>1. /\ base' = base /\ bytesWritten' = bytesWritten /\ result' = result
        /\ outcome' = [outcome EXCEPT ![h] = "RangeError"]
        /\ bytesWritten[h] + len > MAX_PAYLOAD_SIZE
    BY <1>1 DEF WriteRefused, hasher
  <2>2. CASE g = h
    BY <1>0, <2>1, <2>2, PieceRefuse
  <2>3. CASE g # h
    BY <1>0, <2>1, <2>3, PieceStutter
  <2> QED BY <2>2, <2>3
<1>2. ASSUME NEW h \in Hashers, NEW len \in WriteSizes, WriteNothing(h, len)
      PROVE  [Piece(g)!Next]_(Piece(g)!vars)
  <2>1. /\ base' = base /\ bytesWritten' = bytesWritten /\ result' = result /\ len = 0
        /\ outcome' = [outcome EXCEPT ![h] = "ok"]
        /\ bytesWritten[h] + len <= MAX_PAYLOAD_SIZE
    BY <1>2 DEF WriteNothing, hasher
  <2>2. CASE g = h
    <3>1. outcome'[h] = "ok" /\ bytesWritten'[h] = bytesWritten[h] + len
      BY <1>0, <2>1, HasherTyped
    <3>2. result'[h] = IF len = 0 THEN result[h] ELSE NoResult
      BY <2>1
    <3> QED BY <2>1, <2>2, <3>1, <3>2, PieceAccept
  <2>3. CASE g # h
    BY <1>0, <2>1, <2>3, PieceStutter
  <2> QED BY <2>2, <2>3
<1>3. ASSUME NEW h \in Hashers, NEW len \in WriteSizes, len # 0,
             base' = base, bytesWritten[h] + len <= MAX_PAYLOAD_SIZE, Accepted(h, len)
      PROVE  [Piece(g)!Next]_(Piece(g)!vars)
  <2>1. /\ bytesWritten' = [bytesWritten EXCEPT ![h] = bytesWritten[h] + len]
        /\ outcome' = [outcome EXCEPT ![h] = "ok"]
        /\ result' = [result EXCEPT ![h] = NoResult]
    BY <1>3 DEF Accepted
  <2>2. CASE g = h
    <3>1. /\ bytesWritten'[h] = bytesWritten[h] + len /\ outcome'[h] = "ok"
          /\ result'[h] = IF len = 0 THEN result[h] ELSE NoResult
      BY <1>0, <1>3, <2>1
    <3> QED BY <1>3, <2>2, <3>1, PieceAccept
  <2>3. CASE g # h
    <3>1. bytesWritten'[g] = bytesWritten[g] /\ outcome'[g] = outcome[g] /\ result'[g] = result[g]
      BY <1>0, <2>1, <2>3
    <3> QED BY <1>3, <3>1, PieceStutter
  <2> QED BY <2>2, <2>3
<1>4. ASSUME NEW h \in Hashers, NEW len \in WriteSizes, WriteFast(h, len)
      PROVE  [Piece(g)!Next]_(Piece(g)!vars)
  <2>1. /\ base' = base /\ bytesWritten[h] + len <= MAX_PAYLOAD_SIZE /\ 0 < len
        /\ Accepted(h, len)
    BY <1>4 DEF WriteFast
  <2>2. len # 0
    BY <2>1
  <2> QED BY <1>3, <2>1, <2>2
<1>5. CASE WriteTail
  <2>1. pc = "push" /\ leaf = 2 /\ method = "write" /\ base' = base /\ Accepted(self, input.len)
    BY <1>5 DEF WriteTail
  <2>2. /\ self \in Hashers /\ input.len \in WriteSizes /\ input.len # 0
        /\ bytesWritten[self] + input.len <= MAX_PAYLOAD_SIZE
    <3>1. /\ self \in Hashers /\ input.len \in WriteSizes /\ readOffset \in 1 .. input.len
          /\ bytesWritten[self] + input.len <= MAX_PAYLOAD_SIZE
      BY <2>1, Written
    <3> QED BY <3>1
  <2> QED BY <1>3, <2>1, <2>2
<1>6. CASE FoldWhole \/ EndFold
  <2>1. Answered /\ FoldPhase /\ bytesWritten' = bytesWritten /\ base' = base /\ outcome' = outcome
    BY <1>6, FoldWholeAnswers, EndFoldAnswers DEF FoldWhole, EndFold, Return, hasher, FoldPhase
  <2>2. self \in Hashers /\ base[self] \in Nat /\ bytesWritten[self] \in Nat
    BY <2>1, FoldingNow
  <2>3. PICK k \in 0 .. MAX_LEVEL - 1 :
           /\ bytesWritten[self] <= Q * Pow[k] /\ (k > 0 => Q * Pow[k - 1] < bytesWritten[self])
           /\ result' = [result EXCEPT ![self] =
                  [padding |-> ZeroPadding(bytesWritten[self]), height |-> k + 2,
                   root |-> RunNode(k + 2, 2 * base[self], 2 * (base[self] + bytesWritten[self]))]]
    BY <2>1 DEF Answered
  <2>4. CASE g = self
    <3>1. result'[g] = [padding |-> ZeroPadding(bytesWritten[g]), height |-> k + 2,
                        root |-> RunNode(k + 2, 2 * base[g], 2 * (base[g] + bytesWritten[g]))]
      BY <1>0, <2>3, <2>4
    <3>2. /\ bytesWritten[g] <= Q * Pow[k] /\ (k > 0 => Q * Pow[k - 1] < bytesWritten[g])
          /\ base[g] \in Nat /\ bytesWritten[g] \in Nat
      BY <2>2, <2>3, <2>4
    <3>3. base'[g] = base[g] /\ bytesWritten'[g] = bytesWritten[g] /\ outcome'[g] = outcome[g]
      BY <2>1
    <3> QED BY <3>1, <3>2, <3>3, PieceAnswer
  <2>5. CASE g # self
    <3>1. result'[g] = result[g]
      BY <1>0, <2>3, <2>5
    <3> QED BY <2>1, <3>1, PieceStutter
  <2> QED BY <2>4, <2>5
<1>7. ASSUME NEW h \in Hashers, Reset(h) PROVE [Piece(g)!Next]_(Piece(g)!vars)
  <2>1. /\ bytesWritten' = [bytesWritten EXCEPT ![h] = 0]
        /\ base' = [base EXCEPT ![h] = base[h] + bytesWritten[h]]
        /\ outcome' = [outcome EXCEPT ![h] = "ok"]
        /\ result' = [result EXCEPT ![h] = NoResult]
        /\ base[h] + bytesWritten[h] <= MaxBase
    BY <1>7 DEF Reset
  <2>2. CASE g = h
    BY <1>0, <2>1, <2>2, PieceRestart
  <2>3. CASE g # h
    BY <1>0, <2>1, <2>3, PieceStutter
  <2> QED BY <2>2, <2>3
<1>8. CASE UNCHANGED <<base, bytesWritten, outcome, result>>
  BY <1>8, PieceStutter
<1>9. CASE UNCHANGED vars
  BY <1>8, <1>9 DEF vars, hasher, caller
<1>10. ASSUME NEW h \in Hashers, (\E len \in WriteSizes : WriteBulk(h, len)) \/ DigestTail(h) \/ DigestWhole(h)
       PROVE  [Piece(g)!Next]_(Piece(g)!vars)
  BY <1>8, <1>10 DEF WriteBulk, DigestTail, DigestWhole, hasher, caller
<1>11. CASE WriteQuad \/ PushLeaf \/ CarryLoad \/ CarryHash \/ CarryStore \/ TailPushed
            \/ ZeroFill \/ FoldLoad \/ FoldHash
  BY <1>8, <1>11 DEF WriteQuad, PushLeaf, CarryLoad, CarryHash, CarryStore, TailPushed,
                     ZeroFill, FoldLoad, FoldHash, hasher, caller
<1> QED
  BY <1>1, <1>2, <1>4, <1>5, <1>6, <1>7, <1>9, <1>10, <1>11 DEF Next, CallStep

(* Each hasher implements the promise of PieceCommitment, whatever the     *)
(* hashers share and however their calls alternate (index.js 129-233).     *)
THEOREM JsPieceSpec == Spec => PieceSpec
PROOF
<1>1. Init => \A h \in Hashers : Piece(h)!Init
  <2> SUFFICES ASSUME Init, NEW h \in Hashers PROVE Piece(h)!Init
    OBVIOUS
  <2>1. base[h] = 0 /\ bytesWritten[h] = 0 /\ outcome[h] = "ok" /\ result[h] = NoResult
    BY DEF Init
  <2> QED BY <2>1 DEF Piece!Init, Piece!NoAnswer, NoResult, Piece!Junk, Junk, Piece!Extent, Extent
<1>2. Inv /\ [Next]_vars => \A h \in Hashers : [Piece(h)!Next]_(Piece(h)!vars)
  BY PieceStep
<1> QED
  BY <1>1, <1>2, JsInductive, PTL DEF Spec, PieceSpec


-----------------------------------------------------------------------------
(* Every call returns. *)

(* StepsLeft of a call: its phase, the bytes it has not read, its leaf and *)
(* level, the top slot and how many zero commitments are known.            *)
Tally(phase, rest, lf, lv, high, n) ==
    LET folding == 2 * (high - lv) + 2 + MAX_LEVEL - n
        carrying == 2 * (MAX_LEVEL - lv) + (1 - lf) * PushSteps
        quads == rest * QuadSteps + 3 * MAX_LEVEL
    IN  CASE phase = "push" -> quads + (2 - lf) * PushSteps
          [] phase = "carry" -> quads + carrying + 1
          [] phase = "hash" /\ lf < 2 -> quads + carrying
          [] phase = "fold" -> folding + 1
          [] phase = "hash" /\ lf = 2 -> folding
          [] phase = "idle" -> 0

LEMMA TallyIs == StepsLeft = Tally(pc, input.len - readOffset, leaf, level, top, Len(zeros))
PROOF
  BY DEF StepsLeft, Tally

LEMMA TallyNext ==
    StepsLeft' = Tally(pc', input'.len - readOffset', leaf', level', top', Len(zeros'))
PROOF
  BY DEF StepsLeft, Tally

LEMMA Sizes ==
    /\ MAX_LEVEL \in Nat /\ MAX_LEVEL >= 2 /\ PushSteps \in Nat
    /\ QuadSteps \in Nat \ {0} /\ QuadSteps > 2 * PushSteps
    /\ \A rest \in Nat : rest * QuadSteps \in Nat
PROOF
<1>1. MAX_LEVEL \in Nat /\ MAX_LEVEL >= 2
  BY JsAssumption, TreeAssumption
<1>2. PushSteps \in Nat /\ QuadSteps \in Nat \ {0} /\ QuadSteps > 2 * PushSteps
  BY <1>1 DEF PushSteps, QuadSteps
<1> QED
  BY <1>1, <1>2

LEMMA TallyPush ==
    ASSUME NEW rest, NEW lf, NEW lv, NEW high, NEW n
    PROVE  /\ Tally("push", rest, lf, lv, high, n)
                 = rest * QuadSteps + 3 * MAX_LEVEL + (2 - lf) * PushSteps
           /\ Tally("carry", rest, lf, lv, high, n)
                 = rest * QuadSteps + 3 * MAX_LEVEL
                   + (2 * (MAX_LEVEL - lv) + (1 - lf) * PushSteps) + 1
           /\ lf < 2 => Tally("hash", rest, lf, lv, high, n)
                           = rest * QuadSteps + 3 * MAX_LEVEL
                             + (2 * (MAX_LEVEL - lv) + (1 - lf) * PushSteps)
PROOF
  BY DEF Tally

LEMMA TallyFold ==
    ASSUME NEW rest, NEW lv, NEW high, NEW n
    PROVE  /\ Tally("fold", rest, 2, lv, high, n) = 2 * (high - lv) + 2 + MAX_LEVEL - n + 1
           /\ Tally("hash", rest, 2, lv, high, n) = 2 * (high - lv) + 2 + MAX_LEVEL - n
PROOF
<1>1. ~ (2 < 2)
  OBVIOUS
<1> QED
  BY <1>1 DEF Tally

(* The steps of a push, one leaf at a time. *)
LEMMA PushTallies ==
    ASSUME NEW rest \in Nat, NEW lf \in 0 .. 1, NEW lv \in Slots, NEW high, NEW n
    PROVE  /\ Tally("carry", rest, lf, 0, high, n) \in 1 .. Tally("push", rest, lf, lv, high, n) - 1
           /\ Tally("hash", rest, lf, lv, high, n) \in 1 .. Tally("carry", rest, lf, lv, high, n) - 1
           /\ lv + 1 \in Slots =>
                 Tally("carry", rest, lf, lv + 1, high, n)
                    \in 1 .. Tally("hash", rest, lf, lv, high, n) - 1
           /\ Tally("push", rest, lf + 1, 0, high, n) \in 1 .. Tally("carry", rest, lf, lv, high, n) - 1
PROOF
<1> DEFINE B == rest * QuadSteps
           M == MAX_LEVEL
           P == PushSteps
<1>1. B \in Nat /\ M \in Nat /\ M >= 2 /\ P = 2 * M + 2 /\ P \in Nat
  BY Sizes DEF PushSteps
<1>2. lv \in Nat /\ lv < M /\ (lv + 1 \in Slots => lv + 1 < M)
  BY <1>1 DEF Slots
<1>3. /\ Tally("push", rest, lf, lv, high, n) = B + 3 * M + (2 - lf) * P
      /\ Tally("carry", rest, lf, lv, high, n) = B + 3 * M + (2 * (M - lv) + (1 - lf) * P) + 1
      /\ Tally("carry", rest, lf, 0, high, n) = B + 3 * M + (2 * (M - 0) + (1 - lf) * P) + 1
      /\ Tally("carry", rest, lf, lv + 1, high, n)
            = B + 3 * M + (2 * (M - (lv + 1)) + (1 - lf) * P) + 1
      /\ Tally("push", rest, lf + 1, 0, high, n) = B + 3 * M + (2 - (lf + 1)) * P
  BY TallyPush
<1>4. Tally("hash", rest, lf, lv, high, n) = B + 3 * M + (2 * (M - lv) + (1 - lf) * P)
  <2>1. lf < 2
    OBVIOUS
  <2> QED BY <2>1, TallyPush
<1> HIDE DEF B, M, P
<1>5. (1 - lf) * P = (IF lf = 0 THEN P ELSE 0) /\ (2 - lf) * P = (IF lf = 0 THEN 2 * P ELSE P)
      /\ (2 - (lf + 1)) * P = (IF lf = 0 THEN P ELSE 0)
  <2>1. CASE lf = 0
    BY <1>1, <2>1
  <2>2. CASE lf = 1
    BY <1>1, <2>2
  <2> QED BY <2>1, <2>2
<1> QED
  BY <1>1, <1>2, <1>3, <1>4, <1>5

(* The loop takes the next quad. *)
LEMMA QuadTallies ==
    ASSUME NEW rest \in Nat, rest - Q \in Nat, NEW lv, NEW high, NEW n
    PROVE  Tally("push", rest - Q, 0, lv, high, n) \in 1 .. Tally("push", rest, 2, lv, high, n) - 1
PROOF
<1> DEFINE a == (rest - Q) * QuadSteps
           b == rest * QuadSteps
           M == MAX_LEVEL
           P == PushSteps
<1>1. a \in Nat /\ b \in Nat /\ M \in Nat /\ M >= 2 /\ P \in Nat
  BY Sizes
<1>2. a + 2 * P < b
  <2>1. PICK x \in Nat : Q = x + 1
    <3>1. Q \in Nat \ {0}
      BY SpanFacts
    <3>2. Q - 1 \in Nat /\ Q = (Q - 1) + 1
      BY <3>1
    <3> QED BY <3>2
  <2>2. PICK y \in Nat : y = rest - Q
    OBVIOUS
  <2>3. rest = y + x + 1
    BY <2>1, <2>2
  <2> DEFINE S == QuadSteps
  <2>4. S \in Nat /\ S > 2 * P
    BY Sizes
  <2>5. a = y * S /\ b = (y + x + 1) * S
    BY <2>2, <2>3
  <2> HIDE DEF S, P, a, b
  <2>6. (y + x + 1) * S = y * S + x * S + S /\ y * S \in Nat /\ x * S \in Nat
    BY <2>1, <2>2, <2>4
  <2> QED BY <1>1, <2>4, <2>5, <2>6
<1>3. Tally("push", rest - Q, 0, lv, high, n) = a + 3 * M + (2 - 0) * P
      /\ Tally("push", rest, 2, lv, high, n) = b + 3 * M + (2 - 2) * P
  BY TallyPush
<1> HIDE DEF a, b, M, P
<1>4. (2 - 0) * P = 2 * P /\ (2 - 2) * P = 0
  BY <1>1
<1> QED
  BY <1>1, <1>2, <1>3, <1>4

(* The steps of a fold. *)
LEMMA FoldTallies ==
    ASSUME NEW rest, NEW high \in Nat, NEW lv \in 0 .. high, NEW n \in 1 .. MAX_LEVEL
    PROVE  /\ high + 2 <= MAX_LEVEL \/ lv = high =>
                 Tally("fold", 0, 2, lv, high, n) \in 1 .. Tally("push", 0, 2, 0, 0, n) - 1
           /\ n + 1 <= MAX_LEVEL =>
                 Tally("fold", rest, 2, lv, high, n + 1) \in 1 .. Tally("fold", rest, 2, lv, high, n) - 1
           /\ Tally("hash", rest, 2, lv, high, n) \in 1 .. Tally("fold", rest, 2, lv, high, n) - 1
           /\ lv < high =>
                 Tally("fold", rest, 2, lv + 1, high, n)
                    \in 1 .. Tally("hash", rest, 2, lv, high, n) - 1
PROOF
<1> DEFINE M == MAX_LEVEL
<1>1. M \in Nat /\ M >= 2 /\ n \in 1 .. M
  BY Sizes
<1>2. /\ Tally("fold", rest, 2, lv, high, n) = 2 * (high - lv) + 2 + M - n + 1
      /\ Tally("fold", 0, 2, lv, high, n) = 2 * (high - lv) + 2 + M - n + 1
      /\ Tally("fold", rest, 2, lv, high, n + 1) = 2 * (high - lv) + 2 + M - (n + 1) + 1
      /\ Tally("hash", rest, 2, lv, high, n) = 2 * (high - lv) + 2 + M - n
      /\ Tally("fold", rest, 2, lv + 1, high, n) = 2 * (high - (lv + 1)) + 2 + M - n + 1
  BY TallyFold
<1>3. Tally("push", 0, 2, 0, 0, n) = 3 * M
  <2>1. Tally("push", 0, 2, 0, 0, n) = 0 * QuadSteps + 3 * MAX_LEVEL + (2 - 2) * PushSteps
    BY TallyPush
  <2>2. 0 * QuadSteps = 0 /\ (2 - 2) * PushSteps = 0
    BY Sizes
  <2> QED BY <1>1, <2>1, <2>2
<1> HIDE DEF M
<1>4. high + 2 <= MAX_LEVEL <=> high + 2 <= M
  BY DEF M
<1>5. n + 1 <= MAX_LEVEL <=> n + 1 <= M
  BY DEF M
<1> QED
  BY <1>1, <1>2, <1>3, <1>4, <1>5


(* What StepsLeft needs beyond Inv. *)
Measured == (method # "write" => readOffset = 0) /\ Len(zeros) <= MAX_LEVEL

LEMMA MeasuredStep == Inv /\ Measured /\ [Next]_vars => Measured'
PROOF
<1> SUFFICES ASSUME Inv, Measured, [Next]_vars PROVE Measured'
  OBVIOUS
<1>1. CASE zeros' = zeros /\ method' = method /\ readOffset' = readOffset
  BY <1>1 DEF Measured
<1>2. CASE EndCall /\ zeros' = zeros
  BY <1>2 DEF Measured, EndCall
<1>3. ASSUME NEW h \in Hashers, NEW len \in WriteSizes,
             \/ WriteRefused(h, len) \/ WriteNothing(h, len)
             \/ WriteFast(h, len) \/ WriteBulk(h, len)
      PROVE  Measured'
  <2>1. CASE WriteBulk(h, len)
    BY <2>1 DEF WriteBulk, Measured
  <2>2. CASE ~ WriteBulk(h, len)
    BY <1>1, <1>3, <2>2 DEF WriteRefused, WriteNothing, WriteFast, call
  <2> QED BY <2>1, <2>2
<1>4. ASSUME NEW h \in Hashers, DigestTail(h) \/ DigestWhole(h) PROVE Measured'
  <2>1. pc = "idle" /\ zeros' = zeros /\ readOffset' = readOffset
    BY <1>4 DEF DigestTail, DigestWhole
  <2>2. method # "write"
    BY <2>1, IdleNow
  <2> QED BY <2>1, <2>2 DEF Measured
<1>5. ASSUME NEW h \in Hashers, Reset(h) PROVE Measured'
  BY <1>1, <1>5 DEF Reset, call
<1>6. CASE WriteQuad
  BY <1>6 DEF WriteQuad, Measured
<1>7. CASE WriteTail \/ FoldWhole \/ EndFold
  BY <1>2, <1>7 DEF WriteTail, FoldWhole, EndFold, Return
<1>8. CASE PushLeaf \/ CarryLoad \/ CarryHash \/ CarryStore \/ TailPushed \/ FoldLoad \/ FoldHash
  BY <1>1, <1>8 DEF PushLeaf, CarryLoad, CarryHash, CarryStore, TailPushed, FoldLoad, FoldHash
<1>9. CASE ZeroFill
  <2>1. FoldPhase /\ lowest < top /\ ZeroMissing /\ method' = method /\ readOffset' = readOffset
        /\ \E z : zeros' = Append(zeros, z)
    BY <1>9 DEF ZeroFill, FoldPhase, call
  <2>2. Len(zeros) < level + 2 /\ zeros \in Seq(Node)
    BY <2>1, Typed DEF ZeroMissing
  <2>3. level \in Slots /\ top \in Slots /\ level <= top /\ top <= PAYLOAD_LEVEL
    <3>1. level \in lowest .. top /\ top <= PAYLOAD_LEVEL /\ level \in Slots /\ top \in Slots
          /\ lowest \in Slots
      BY <2>1, FoldingNow
    <3> QED BY <3>1
  <2>4. Len(zeros) + 1 <= MAX_LEVEL
    <3>1. PAYLOAD_LEVEL \in Nat /\ PAYLOAD_LEVEL + 2 <= MAX_LEVEL /\ MAX_LEVEL \in Nat
      BY JsAssumption, TreeAssumption
    <3> QED BY <2>2, <2>3, <3>1 DEF Slots
  <2>5. Len(zeros') = Len(zeros) + 1
    <3>1. zeros' \in Seq(Node)
      BY JsStep DEF Inv, TypeOK
    <3> QED BY <2>1, <2>2, <3>1
  <2> QED BY <2>1, <2>4, <2>5 DEF Measured
<1>10. CASE UNCHANGED vars
  BY <1>1, <1>10 DEF vars, call
<1> QED
  BY <1>3, <1>4, <1>5, <1>6, <1>7, <1>8, <1>9, <1>10 DEF Next, CallStep

LEMMA JsMeasured == Spec => []Measured
PROOF
<1>1. Init => Measured
  <2> SUFFICES ASSUME Init PROVE Measured
    OBVIOUS
  <2>1. readOffset = 0
    BY DEF Init
  <2>2. zeros = <<Zero(0)>>
    BY Zenon DEF Init
  <2>3. Len(zeros) = 1
    BY <2>2
  <2>4. 1 <= MAX_LEVEL
    BY Sizes
  <2> QED BY <2>1, <2>3, <2>4 DEF Measured
<1> QED
  BY <1>1, MeasuredStep, JsInductive, PTL DEF Spec

(* The steps of a push, of a hasher's write or of a digest's tail. *)
LEMMA PushCounts ==
    ASSUME Inv, Inv', Measured, PushLeaf \/ CarryLoad \/ CarryHash \/ CarryStore
    PROVE  StepsLeft' \in 1 .. StepsLeft - 1
PROOF
<1> DEFINE rest == input.len - readOffset
<1>1. PushPhase /\ UNCHANGED <<input, readOffset, top, zeros, method>>
  BY DEF PushPhase, PushLeaf, CarryLoad, CarryHash, CarryStore
<1>2. rest \in Nat
  <2>1. CASE method = "write"
    <3>1. readOffset \in 1 .. input.len
      BY <2>1, Zenon DEF Inv, Control
    <3> QED BY <3>1, Typed
  <2>2. CASE method # "write"
    <3>1. readOffset = 0 /\ input.len = 0
      BY <2>2 DEF Inv, Control, Measured
    <3> QED BY <3>1
  <2> QED BY <2>1, <2>2
<1>3. pc # "push" => level \in Slots
  <2>1. Pushing
    BY <1>1 DEF Inv, Phases
  <2> QED BY <2>1 DEF Pushing, CarryHolds
<1>4. /\ StepsLeft = Tally(pc, rest, leaf, level, top, Len(zeros))
      /\ StepsLeft' = Tally(pc', rest, leaf', level', top, Len(zeros))
  BY <1>1, TallyIs, TallyNext
<1> HIDE DEF rest
<1>5. 0 \in Slots
  BY TreeAssumption DEF Slots
<1>6. CASE PushLeaf
  <2>1. pc = "push" /\ leaf \in 0 .. 1 /\ pc' = "carry" /\ level' = 0 /\ leaf' = leaf
    <3>1. pc = "push" /\ leaf < 2 /\ pc' = "carry" /\ level' = 0 /\ leaf' = leaf
      BY <1>6 DEF PushLeaf
    <3> QED BY <3>1, Typed
  <2>2. Tally("carry", rest, leaf, 0, top, Len(zeros)) \in 1 .. Tally("push", rest, leaf, level, top, Len(zeros)) - 1
    <3>1. Tally("push", rest, leaf, level, top, Len(zeros)) = Tally("push", rest, leaf, 0, top, Len(zeros))
      BY TallyPush
    <3>2. Tally("carry", rest, leaf, 0, top, Len(zeros)) \in 1 .. Tally("push", rest, leaf, 0, top, Len(zeros)) - 1
      BY <1>2, <1>5, <2>1, PushTallies
    <3> QED BY <3>1, <3>2
  <2> QED BY <1>4, <2>1, <2>2
<1>7. CASE CarryLoad
  <2>1. pc = "carry" /\ leaf \in 0 .. 1 /\ pc' = "hash" /\ level' = level /\ leaf' = leaf
    <3>1. pc = "carry" /\ pc' = "hash" /\ level' = level /\ leaf' = leaf
      BY <1>7 DEF CarryLoad
    <3>2. leaf < 2
      BY <3>1, Zenon DEF Inv, Control
    <3> QED BY <3>1, <3>2, Typed
  <2> QED BY <1>2, <1>3, <1>4, <2>1, PushTallies
<1>8. CASE CarryHash
  <2>1. pc = "hash" /\ leaf \in 0 .. 1 /\ pc' = "carry" /\ level' = level + 1 /\ leaf' = leaf
    <3>1. pc = "hash" /\ leaf < 2 /\ pc' = "carry" /\ level' = level + 1 /\ leaf' = leaf
      BY <1>8 DEF CarryHash
    <3> QED BY <3>1, Typed
  <2>2. level' \in Slots
    <3>1. Pushing'
      BY <2>1 DEF Inv, Phases, PushPhase
    <3> QED BY <2>1, <3>1 DEF Pushing, CarryHolds
  <2>3. level \in Slots /\ level + 1 \in Slots
    BY <1>3, <2>1, <2>2
  <2>4. Tally("carry", rest, leaf, level + 1, top, Len(zeros))
           \in 1 .. Tally("hash", rest, leaf, level, top, Len(zeros)) - 1
    BY <1>2, <2>1, <2>3, PushTallies
  <2> QED BY <1>4, <2>1, <2>4
<1>9. CASE CarryStore
  <2>1. pc = "carry" /\ leaf \in 0 .. 1 /\ pc' = "push" /\ level' = 0 /\ leaf' = leaf + 1
    <3>1. pc = "carry" /\ pc' = "push" /\ level' = 0 /\ leaf' = leaf + 1
      BY <1>9 DEF CarryStore
    <3>2. leaf < 2
      BY <3>1, Zenon DEF Inv, Control
    <3> QED BY <3>1, <3>2, Typed
  <2>2. Tally("push", rest, leaf + 1, 0, top, Len(zeros))
           \in 1 .. Tally("carry", rest, leaf, level, top, Len(zeros)) - 1
    BY <1>2, <1>3, <2>1, PushTallies
  <2> QED BY <1>4, <2>1, <2>2
<1> QED
  BY <1>6, <1>7, <1>8, <1>9

LEMMA QuadCounts ==
    ASSUME Inv, WriteQuad
    PROVE  StepsLeft' \in 1 .. StepsLeft - 1
PROOF
<1> DEFINE rest == input.len - readOffset
<1>1. /\ pc = "push" /\ leaf = 2 /\ method = "write" /\ pc' = "push" /\ leaf' = 0
      /\ readOffset + Q <= input.len /\ readOffset' = readOffset + Q
      /\ UNCHANGED <<input, level, top, zeros>>
  BY DEF WriteQuad, ReadQuad
<1>2. rest \in Nat /\ rest - Q \in Nat /\ input.len - (readOffset + Q) = rest - Q
  <2>1. input.len \in Nat /\ readOffset \in Nat /\ Q \in Nat
    BY Typed, SpanFacts
  <2> QED BY <1>1, <2>1
<1>3. /\ StepsLeft = Tally("push", rest, 2, level, top, Len(zeros))
      /\ StepsLeft' = Tally("push", rest - Q, 0, level, top, Len(zeros))
  BY <1>1, <1>2, TallyIs, TallyNext
<1> HIDE DEF rest
<1> QED
  BY <1>2, <1>3, QuadTallies

LEMMA FoldCounts ==
    ASSUME Inv, Inv', Measured, TailPushed \/ ZeroFill \/ FoldLoad \/ FoldHash
    PROVE  StepsLeft' \in 1 .. StepsLeft - 1
PROOF
<1>1. method = "digest" /\ leaf = 2 /\ leaf' = 2 /\ UNCHANGED <<input, readOffset>>
      /\ pc' \in {"fold", "hash"}
  <2>1. method = "digest" /\ leaf = 2
    <3>1. CASE TailPushed
      BY <3>1 DEF TailPushed
    <3>2. CASE ZeroFill \/ FoldLoad \/ FoldHash
      <4>1. FoldPhase
        BY <3>2 DEF ZeroFill, FoldLoad, FoldHash, FoldPhase
      <4> QED BY <4>1, FoldingNow
    <3> QED BY <3>1, <3>2
  <2>2. leaf' = leaf /\ UNCHANGED <<input, readOffset>>
    BY DEF TailPushed, ZeroFill, FoldLoad, FoldHash, call
  <2>3. pc' \in {"fold", "hash"}
    BY DEF TailPushed, ZeroFill, FoldLoad, FoldHash, call, StartFold
  <2> QED BY <2>1, <2>2, <2>3
<1>2. input.len = 0 /\ readOffset = 0 /\ input.len - readOffset = 0
  <2>1. method # "write"
    BY <1>1
  <2>2. input.len = 0 /\ readOffset = 0
    BY <2>1 DEF Inv, Control, Measured
  <2> QED BY <2>2
<1>3. /\ StepsLeft = Tally(pc, 0, 2, level, top, Len(zeros))
      /\ StepsLeft' = Tally(pc', 0, 2, level', top', Len(zeros'))
  BY <1>1, <1>2, TallyIs, TallyNext
<1>4. Len(zeros) \in 1 .. MAX_LEVEL
  <2>1. zeros \in Seq(Node) /\ Len(zeros) >= 1 /\ Len(zeros) <= MAX_LEVEL
    BY Typed DEF Inv, ZerosRight, Measured
  <2> QED BY <2>1, Sizes
<1>5. PAYLOAD_LEVEL \in Nat /\ PAYLOAD_LEVEL + 2 <= MAX_LEVEL /\ MAX_LEVEL \in Nat
  BY JsAssumption, TreeAssumption
<1>6. CASE TailPushed
  <2>1. pc = "push" /\ pc' = "fold" /\ zeros' = zeros
    BY <1>6 DEF TailPushed, StartFold
  <2>2. Folding' /\ lowest' \in Slots /\ top' \in Slots /\ Stack' = copy /\ copy' # NoStack
    <3>1. copy' = copy
      BY <1>6 DEF TailPushed
    <3>2. copy # NoStack
      BY <1>1, <2>1 DEF Inv, Control, PushPhase
    <3> QED BY <2>1, <3>1, <3>2 DEF Inv, Phases, FoldPhase, TypeOK, Stack
  <2>3. PICK w \in 1 .. Pow[PAYLOAD_LEVEL] :
           /\ StackHolds(copy, 2 * w, Begin', End')
           /\ IsLowestFilled(copy, lowest') /\ IsTopFilled(copy, top')
           /\ level' \in lowest' .. top'
    BY <2>2 DEF Folding
  <2>4. level' \in 0 .. top' /\ top' \in Nat
    BY <2>2, <2>3 DEF Slots
  <2>5. level' = lowest'
    BY <1>6 DEF TailPushed, StartFold
  <2>6. top' + 2 <= MAX_LEVEL \/ level' = top'
    <3> DEFINE c == 2 * w
               low == lowest'
               high == top'
    <3>1. c \in Nat /\ c <= 2 * Pow[PAYLOAD_LEVEL] /\ StackHolds(copy, c, Begin', End')
          /\ c < Pow[MAX_LEVEL]
      <4>1. 2 * w \in Nat /\ 2 * w <= 2 * Pow[PAYLOAD_LEVEL]
        <5>1. Pow[PAYLOAD_LEVEL] \in Nat
          BY Room
        <5> QED BY <5>1
      <4>2. 2 * w < Pow[MAX_LEVEL]
        BY <4>1, Room
      <4> QED BY <2>3, <4>1, <4>2
    <3>2. low \in Slots /\ high \in Slots /\ IsLowestFilled(copy, low) /\ IsTopFilled(copy, high)
          /\ high \in low .. MAX_LEVEL - 1
      BY <1>5, <2>2, <2>3 DEF Slots
    <3> HIDE DEF c, low, high
    <3>3. Bit(c, high) = 1 /\ c % Pow[high + 1] = c
      BY <3>1, <3>2, TopCount
    <3>4. Bit(c, low) = 1 /\ c % Pow[low] = 0
      BY <3>1, <3>2, LowestCount
    <3>5. low < high => Pow[high] < c
      BY <3>1, <3>2, <3>3, <3>4, TopAndLowest
    <3>6. low < high => high <= PAYLOAD_LEVEL
      BY <3>1, <3>2, <3>5, Room
    <3>7. high + 2 <= MAX_LEVEL \/ low = high
      BY <1>5, <3>2, <3>6 DEF Slots
    <3> QED BY <2>5, <3>7 DEF low, high
  <2>7. Tally("push", 0, 2, level, top, Len(zeros)) = Tally("push", 0, 2, 0, 0, Len(zeros))
    BY TallyPush
  <2>8. Tally("fold", 0, 2, level', top', Len(zeros)) \in 1 .. Tally("push", 0, 2, 0, 0, Len(zeros)) - 1
    BY <1>4, <2>4, <2>6, FoldTallies
  <2> QED BY <1>3, <2>1, <2>7, <2>8
<1>7. CASE ZeroFill \/ FoldLoad \/ FoldHash
  <2>1. FoldPhase /\ top' = top
    BY <1>7 DEF ZeroFill, FoldLoad, FoldHash, FoldPhase, call
  <2>2. top \in Nat /\ level \in 0 .. top
    <3>1. level \in lowest .. top /\ lowest \in Slots /\ top \in Slots
      BY <2>1, FoldingNow
    <3> QED BY <3>1 DEF Slots
  <2>3. CASE ZeroFill
    <3>1. pc = "fold" /\ pc' = "fold" /\ level' = level /\ \E z : zeros' = Append(zeros, z)
      BY <2>3 DEF ZeroFill, call
    <3>2. Len(zeros') = Len(zeros) + 1
      <4>1. zeros \in Seq(Node) /\ zeros' \in Seq(Node)
        BY DEF Inv, TypeOK
      <4> QED BY <3>1, <4>1
    <3>3. Len(zeros) + 1 <= MAX_LEVEL
      <4>1. Measured'
        BY <2>3, MeasuredStep DEF Next, CallStep
      <4> QED BY <3>2, <4>1 DEF Measured
    <3>4. Tally("fold", 0, 2, level, top, Len(zeros) + 1) \in 1 .. Tally("fold", 0, 2, level, top, Len(zeros)) - 1
      BY <1>4, <2>2, <3>3, FoldTallies
    <3> QED BY <1>3, <2>1, <3>1, <3>2, <3>4
  <2>4. CASE FoldLoad
    <3>1. pc = "fold" /\ pc' = "hash" /\ level' = level /\ zeros' = zeros
      BY <2>4 DEF FoldLoad
    <3>2. Tally("hash", 0, 2, level, top, Len(zeros)) \in 1 .. Tally("fold", 0, 2, level, top, Len(zeros)) - 1
      BY <1>4, <2>2, FoldTallies
    <3> QED BY <1>3, <2>1, <3>1, <3>2
  <2>5. CASE FoldHash
    <3>1. pc = "hash" /\ pc' = "fold" /\ level' = level + 1 /\ level < top /\ zeros' = zeros
      BY <2>5 DEF FoldHash
    <3>2. Tally("fold", 0, 2, level + 1, top, Len(zeros)) \in 1 .. Tally("hash", 0, 2, level, top, Len(zeros)) - 1
      BY <1>4, <2>2, <3>1, FoldTallies
    <3> QED BY <1>3, <2>1, <3>1, <3>2
  <2> QED BY <1>7, <2>3, <2>4, <2>5
<1> QED
  BY <1>6, <1>7

(* Every call returns, whatever the payload: each of its steps but the     *)
(* last leaves fewer to go (tree.js 79-91, 111-124, zero-comm.js 37-48).   *)
THEOREM JsCallsReturn == Spec => CallsReturn
PROOF
<1>1. ASSUME Inv, Inv', Measured, Next, pc # "idle"
      PROVE  pc' = "idle" \/ StepsLeft' \in 1 .. StepsLeft - 1
  <2>1. CallStep
    BY <1>1 DEF Next, WriteRefused, WriteNothing, WriteFast, WriteBulk, DigestTail, DigestWhole, Reset
  <2>2. CASE WriteTail \/ FoldWhole \/ EndFold
    BY <2>2 DEF WriteTail, FoldWhole, EndFold, Return, EndCall
  <2>3. CASE ~ (WriteTail \/ FoldWhole \/ EndFold)
    BY <1>1, <2>1, <2>3, PushCounts, QuadCounts, FoldCounts DEF CallStep
  <2> QED BY <2>2, <2>3
<1>2. Inv /\ Inv' /\ Measured /\ [Next]_vars =>
         [pc # "idle" => pc' = "idle" \/ StepsLeft' \in 1 .. StepsLeft - 1]_vars
  BY <1>1
<1> QED
  BY <1>2, JsInductive, JsMeasured, PTL DEF Spec, CallsReturn
=============================================================================
