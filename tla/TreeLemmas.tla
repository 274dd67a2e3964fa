------------------------------ MODULE TreeLemmas ------------------------------
(***************************************************************************)
(* Facts about the powers of two, the bits of a counter and the names of   *)
(* nodes, for every table size.  They are what the carry loop of push_at   *)
(* and the loop of fold rest on.                                           *)
(***************************************************************************)
EXTENDS QuadLeaves, TLAPS

(* Division with remainder. *)
LEMMA DivMod ==
    ASSUME NEW n \in Nat, NEW d \in Nat \ {0}
    PROVE  /\ n \div d \in Nat
           /\ n % d \in Nat /\ n % d < d
           /\ n = d * (n \div d) + (n % d)
PROOF
  OBVIOUS

(* Division with remainder is unique. *)
LEMMA DivModUnique ==
    ASSUME NEW d \in Nat \ {0}, NEW q \in Nat, NEW r \in Nat, r < d
    PROVE  /\ (d * q + r) \div d = q
           /\ (d * q + r) % d = r
PROOF
<1> DEFINE n == d * q + r
           p == n \div d
           s == n % d
<1>1. n \in Nat
  OBVIOUS
<1>2. p \in Nat /\ s \in Nat /\ s < d /\ n = d * p + s
  BY <1>1
<1>3. ~ (p < q)
  <2>1. SUFFICES ASSUME p < q PROVE FALSE
    OBVIOUS
  <2>2. PICK a \in Nat : q = p + 1 + a
    <3>1. q - p - 1 \in Nat /\ q = p + 1 + (q - p - 1)
      BY <1>2, <2>1
    <3> QED BY <3>1
  <2>3. d * q = d * p + d + d * a
    BY <1>2, <2>2
  <2>4. d * a \in Nat /\ d * p \in Nat /\ d * q \in Nat
    BY <1>2, <2>2
  <2>5. d * q + r = d * p + s
    BY <1>2
  <2> QED
    BY <2>3, <2>4, <2>5, <1>2
<1>4. ~ (q < p)
  <2>1. SUFFICES ASSUME q < p PROVE FALSE
    OBVIOUS
  <2>2. PICK a \in Nat : p = q + 1 + a
    <3>1. p - q - 1 \in Nat /\ p = q + 1 + (p - q - 1)
      BY <1>2, <2>1
    <3> QED BY <3>1
  <2>3. d * p = d * q + d + d * a
    BY <1>2, <2>2
  <2>4. d * a \in Nat /\ d * p \in Nat /\ d * q \in Nat
    BY <1>2, <2>2
  <2>5. d * q + r = d * p + s
    BY <1>2
  <2> QED
    BY <2>3, <2>4, <2>5, <1>2
<1>5. p = q
  BY <1>2, <1>3, <1>4
<1>6. s = r
  <2>1. d * q + r = d * q + s
    BY <1>2, <1>5
  <2>2. d * q \in Nat
    OBVIOUS
  <2> QED BY <2>1, <2>2, <1>2
<1> QED
  BY <1>5, <1>6

(* The next multiple of d, and the previous one. *)
LEMMA MultipleNext ==
    ASSUME NEW d \in Nat \ {0}, NEW x \in Nat, x % d = 0
    PROVE  /\ (x + d) % d = 0
           /\ d <= x => (x - d) % d = 0
PROOF
<1> DEFINE q == x \div d
<1>1. q \in Nat /\ x = d * q
  <2>1. q \in Nat /\ x = d * q + (x % d) /\ d * q \in Nat
    BY DivMod
  <2> QED BY <2>1
<1> HIDE DEF q
<1>2. (x + d) % d = 0
  <2>1. x + d = d * (q + 1) + 0 /\ q + 1 \in Nat
    BY <1>1
  <2>2. (d * (q + 1) + 0) % d = 0
    BY <2>1, DivModUnique
  <2> QED BY <2>1, <2>2
<1>3. ASSUME d <= x PROVE (x - d) % d = 0
  <2>1. q # 0
    <3>1. d * 0 = 0
      OBVIOUS
    <3> QED BY <1>1, <1>3, <3>1
  <2> DEFINE p == q - 1
  <2>2. p \in Nat /\ q = p + 1
    BY <1>1, <2>1
  <2> HIDE DEF p
  <2>3. x - d = d * p + 0
    <3>1. d * (p + 1) = d * p + d /\ d * p \in Nat
      BY <2>2
    <3> QED BY <1>1, <2>2, <3>1
  <2>4. (d * p + 0) % d = 0
    BY <2>2, DivModUnique
  <2> QED BY <2>3, <2>4
<1> QED
  BY <1>2, <1>3

(* The powers of two divide one another and grow. *)
LEMMA PowFacts ==
    ASSUME NEW i \in 0 .. MAX_LEVEL, NEW j \in i .. MAX_LEVEL
    PROVE  /\ Pow[i] \in Nat \ {0}
           /\ j - i \in 0 .. MAX_LEVEL
           /\ Pow[j] = Pow[i] * Pow[j - i]
           /\ Pow[i] <= Pow[j]
PROOF
<1>1. i \in 0 .. MAX_LEVEL /\ j \in 0 .. MAX_LEVEL /\ j - i \in 0 .. MAX_LEVEL
  BY TreeAssumption
<1>2. Pow[i] \in Nat \ {0} /\ Pow[j] \in Nat \ {0} /\ Pow[j - i] \in Nat \ {0}
  BY <1>1, TreeAssumption
<1>3. i + (j - i) = j
  BY <1>1
<1>4. Pow[j] = Pow[i] * Pow[j - i]
  BY <1>1, <1>3, TreeAssumption
<1>5. \A a, b \in Nat \ {0} : a <= a * b
  <2>1. SUFFICES ASSUME NEW a \in Nat \ {0}, NEW b \in Nat \ {0} PROVE a <= a * b
    OBVIOUS
  <2>2. PICK c \in Nat : b = c + 1
    <3>1. b - 1 \in Nat /\ b = (b - 1) + 1
      OBVIOUS
    <3> QED BY <3>1
  <2>3. a * b = a * c + a /\ a * c \in Nat
    BY <2>2
  <2> QED BY <2>3
<1> QED
  BY <1>1, <1>2, <1>4, <1>5

(* Doubling, with the range of the index. *)
LEMMA PowDouble ==
    ASSUME NEW i \in Slots
    PROVE  /\ i \in 0 .. MAX_LEVEL /\ i + 1 \in 0 .. MAX_LEVEL
           /\ Pow[i] \in Nat \ {0} /\ Pow[i + 1] \in Nat \ {0}
           /\ Pow[i + 1] = 2 * Pow[i]
PROOF
<1>1. i \in 0 .. MAX_LEVEL /\ i + 1 \in 0 .. MAX_LEVEL /\ i \in 0 .. MAX_LEVEL - 1
  BY TreeAssumption DEF Slots
<1> QED
  BY <1>1, TreeAssumption

(* Adding less than 2^m to a multiple of 2^m changes no bit from m up. *)
LEMMA ModShift ==
    ASSUME NEW m \in 0 .. MAX_LEVEL, NEW k \in m .. MAX_LEVEL,
           NEW x \in Nat, x % Pow[m] = 0,
           NEW a \in Nat, a < Pow[m]
    PROVE  /\ (x + a) % Pow[k] = (x % Pow[k]) + a
           /\ (x + a) \div Pow[k] = x \div Pow[k]
PROOF
<1> DEFINE D == Pow[m]
           E == Pow[k - m]
           y == x \div D
           q == y \div E
           r == y % E
<1>1. D \in Nat \ {0} /\ E \in Nat \ {0} /\ Pow[k] = D * E
  <2>1. k - m \in 0 .. MAX_LEVEL
    BY PowFacts
  <2> QED BY <2>1, PowFacts, TreeAssumption
<1> HIDE DEF D, E
<1>2. y \in Nat /\ x = D * y
  <2>1. x % D = 0
    BY DEF D
  <2>2. y \in Nat /\ x = D * y + (x % D)
    BY <1>1, DivMod
  <2>3. D * y \in Nat
    BY <1>1, <2>2
  <2> QED BY <2>1, <2>2, <2>3
<1>3. q \in Nat /\ r \in Nat /\ r < E /\ y = E * q + r
  BY <1>1, <1>2
<1> HIDE DEF y, q, r
<1>4. D * r \in Nat /\ D * r + a \in Nat /\ D * r + a < D * E /\ D * E \in Nat \ {0}
  <2>1. PICK c \in Nat : E = r + 1 + c
    <3>1. E - r - 1 \in Nat /\ E = r + 1 + (E - r - 1)
      BY <1>1, <1>3
    <3> QED BY <3>1
  <2>2. D * E = D * r + D + D * c
    BY <1>1, <1>3, <2>1
  <2>3. D * r \in Nat /\ D * c \in Nat
    BY <1>1, <1>3, <2>1
  <2>4. a < D
    BY DEF D
  <2> QED BY <1>1, <2>2, <2>3, <2>4
<1>5. x = (D * E) * q + D * r
  <2>1. x = D * (E * q + r)
    BY <1>2, <1>3
  <2>2. D * (E * q + r) = (D * E) * q + D * r
    BY <1>1, <1>3
  <2> QED BY <2>1, <2>2
<1> DEFINE P == D * E
           r0 == D * r
           r1 == D * r + a
<1>6. P \in Nat \ {0} /\ r0 \in Nat /\ r1 \in Nat /\ r0 < P /\ r1 < P /\ r1 = r0 + a
  BY <1>4
<1>7. x = P * q + r0 /\ x + a = P * q + r1
  <2>1. P * q \in Nat
    BY <1>3, <1>6
  <2> QED BY <1>5, <1>6, <2>1
<1> HIDE DEF P, r0, r1
<1>8. x \div P = q /\ x % P = r0 /\ (x + a) \div P = q /\ (x + a) % P = r1
  <2>1. (P * q + r0) \div P = q /\ (P * q + r0) % P = r0
    BY DivModUnique, <1>3, <1>6
  <2>2. (P * q + r1) \div P = q /\ (P * q + r1) % P = r1
    BY DivModUnique, <1>3, <1>6
  <2> QED BY <1>7, <2>1, <2>2
<1>9. Pow[k] = P
  BY <1>1 DEF P
<1> QED
  BY <1>6, <1>8, <1>9

(* One more bit of the counter. *)
LEMMA BitSplit ==
    ASSUME NEW k \in Slots, NEW n \in Nat
    PROVE  /\ Bit(n, k) \in {0, 1}
           /\ n % Pow[k] \in Nat /\ n % Pow[k] < Pow[k]
           /\ n % Pow[k + 1] = (n % Pow[k]) + (IF Bit(n, k) = 1 THEN Pow[k] ELSE 0)
           /\ n % Pow[k + 1] <= n
PROOF
<1> DEFINE P == Pow[k]
           y == n \div P
           r == n % P
           b == y % 2
           z == y \div 2
<1>1. P \in Nat \ {0} /\ Pow[k + 1] = 2 * P
  BY PowDouble
<1> HIDE DEF P
<1>2. y \in Nat /\ r \in Nat /\ r < P /\ n = P * y + r
  BY <1>1, DivMod
<1> HIDE DEF y, r
<1>3. z \in Nat /\ b \in {0, 1} /\ y = 2 * z + b
  BY <1>2
<1> HIDE DEF b, z
<1> DEFINE s == r + (IF b = 1 THEN P ELSE 0)
           PP == 2 * P
<1>4. s \in Nat /\ s < PP /\ PP \in Nat \ {0}
  BY <1>1, <1>2, <1>3
<1>5. n = PP * z + s
  <2>1. P * (2 * z + b) = (2 * P) * z + P * b
    BY <1>1, <1>3
  <2>2. P * b = IF b = 1 THEN P ELSE 0
    BY <1>1, <1>3
  <2>3. (2 * P) * z \in Nat
    BY <1>1, <1>3
  <2> QED BY <1>1, <1>2, <1>3, <2>1, <2>2, <2>3
<1> HIDE DEF s, PP
<1>6. n % PP = s
  BY DivModUnique, <1>3, <1>4, <1>5
<1>7. PP * z \in Nat
  BY <1>3, <1>4
<1>8. s <= n
  BY <1>4, <1>5, <1>7
<1>9. Bit(n, k) = b
  BY DEF Bit, b, y, P
<1> QED
  BY <1>1, <1>2, <1>3, <1>6, <1>8, <1>9 DEF s, PP, r, P

(* A multiple of 2^t has no bit below t. *)
LEMMA BitsBelow ==
    ASSUME NEW t \in 0 .. MAX_LEVEL, NEW x \in Nat, x % Pow[t] = 0,
           NEW k \in Slots, k < t
    PROVE  Bit(x, k) = 0 /\ x % Pow[k] = 0
PROOF
<1> DEFINE P == Pow[k]
           E == Pow[t - (k + 1)]
           D == Pow[t]
           y == x \div D
<1>1. P \in Nat \ {0} /\ Pow[k + 1] = 2 * P
  BY PowDouble
<1>2. E \in Nat \ {0} /\ D \in Nat \ {0} /\ D = Pow[k + 1] * E
  <2>1. k + 1 \in 0 .. MAX_LEVEL /\ t \in k + 1 .. MAX_LEVEL
    BY TreeAssumption DEF Slots
  <2>2. t - (k + 1) \in 0 .. MAX_LEVEL
    BY <2>1, PowFacts
  <2> QED BY <2>1, <2>2, PowFacts, TreeAssumption
<1> HIDE DEF P, E
<1>3. y \in Nat /\ x = D * y
  BY <1>2
<1> HIDE DEF D, y
<1> DEFINE w == E * y
           q == 2 * w
<1>4. w \in Nat /\ q \in Nat
  BY <1>2, <1>3
<1>5. x = P * q + 0
  <2>1. x = ((2 * P) * E) * y
    BY <1>1, <1>2, <1>3
  <2>2. ((2 * P) * E) * y = P * (2 * (E * y))
    BY <1>1, <1>2, <1>3
  <2> QED BY <1>1, <1>4, <2>1, <2>2
<1>6. q % 2 = 0
  BY <1>4
<1> HIDE DEF w, q
<1>7. x \div P = q /\ x % P = 0
  BY DivModUnique, <1>1, <1>4, <1>5
<1> QED
  BY <1>6, <1>7 DEF Bit, P

(* A multiple of 2^l that has not bit l, and is not 0, reaches 2^(l+1). *)
LEMMA CarryRoom ==
    ASSUME NEW l \in Slots, NEW x \in Nat, x % Pow[l] = 0,
           Pow[l] <= x, Bit(x, l) = 0
    PROVE  Pow[l + 1] <= x /\ x % Pow[l + 1] = 0
PROOF
<1>1. x % Pow[l + 1] = 0
  <2>1. x % Pow[l + 1] = (x % Pow[l]) + (IF Bit(x, l) = 1 THEN Pow[l] ELSE 0)
    BY BitSplit
  <2> QED BY <2>1
<1> DEFINE P == Pow[l + 1]
           y == x \div P
<1>2. P \in Nat \ {0} /\ 0 < x
  BY PowDouble
<1> HIDE DEF P
<1>3. y \in Nat /\ x = P * y
  BY <1>1, <1>2 DEF P
<1>4. y # 0
  <2>1. P * 0 = 0
    BY <1>2
  <2> QED BY <1>2, <1>3, <2>1
<1>5. PICK c \in Nat : y = c + 1
  <2>1. y - 1 \in Nat /\ y = (y - 1) + 1
    BY <1>3, <1>4
  <2> QED BY <2>1
<1>6. P * y = P * c + P /\ P * c \in Nat
  BY <1>2, <1>5
<1>7. P <= x
  BY <1>2, <1>3, <1>6
<1> QED
  BY <1>1, <1>7 DEF P

(* The highest bit of a counter. *)
LEMMA TopFacts ==
    ASSUME NEW t \in Slots, NEW n \in Nat, IsTop(n, t)
    PROVE  /\ Bit(n, t) = 1
           /\ n % Pow[t + 1] = n
           /\ n % Pow[t] = n - Pow[t]
PROOF
<1>1. Pow[t] \in Nat \ {0} /\ Pow[t + 1] = 2 * Pow[t]
  BY PowDouble
<1> DEFINE P == Pow[t]
           r == n - P
<1>2. r \in Nat /\ r < P /\ n = P * 1 + r /\ P \in Nat \ {0}
  BY <1>1 DEF IsTop
<1> HIDE DEF P, r
<1>3. n \div P = 1 /\ n % P = r
  BY DivModUnique, <1>2
<1>4. Bit(n, t) = 1
  BY <1>3 DEF Bit, P
<1>5. n % Pow[t + 1] = (n % Pow[t]) + Pow[t]
  BY BitSplit, <1>4
<1> QED
  BY <1>1, <1>3, <1>4, <1>5 DEF P, r

(* A complete left child and what follows it make their parent. *)
LEMMA JoinComplete ==
    ASSUME NEW l \in Slots, NEW a \in Nat, NEW e \in Int,
           a + Span(l) < e
    PROVE  HashPair(Extent(l + 1, a, a + Span(l)), Extent(l + 1, a + Span(l), e))
              = Extent(l + 2, a, e)
PROOF
<1>1. l \in 0 .. MAX_LEVEL /\ Pow[l] \in Nat \ {0} /\ LeafSpan \in Nat \ {0}
  BY PowDouble, TreeAssumption
<1>2. Span(l) \in Nat
  BY <1>1 DEF Span
<1>3. l + 1 - 1 = l /\ (l + 1) + 1 = l + 2
  BY <1>1
<1> QED
  BY <1>1, <1>2, <1>3 DEF HashPair, Extent, Zero, Complete

(* Zero padding on the right adds a level and no payload. *)
LEMMA JoinZero ==
    ASSUME NEW l \in Int, NEW a \in Int, NEW e \in Int, a <= e
    PROVE  HashPair(Extent(l, a, e), Zero(l)) = Extent(l + 1, a, e)
PROOF
  BY DEF HashPair, Extent, Zero

-----------------------------------------------------------------------------
(* Quads, leaves and the reduction of a level. *)

(* The node at height h over the payload nibbles from lo, which end at e: *)
(* what a job of the hasher must hold at each place.                      *)
RunNode(h, lo, e) ==
    IF lo < e
    THEN Extent(h, lo, IF e < lo + Span(h - 1) THEN e ELSE lo + Span(h - 1))
    ELSE Zero(h)

(* A span is a positive number of nibbles and doubles with the level. *)
LEMMA SpanFacts ==
    /\ Q \in Nat \ {0}
    /\ \A k \in 0 .. MAX_LEVEL : Span(k) \in Nat \ {0}
    /\ \A k \in Slots : Span(k + 1) = 2 * Span(k)
    /\ Span(0) = Q
PROOF
<1>1. LeafSpan \in Nat \ {0} /\ Pow[0] = 1
  BY TreeAssumption
<1>2. ASSUME NEW k \in 0 .. MAX_LEVEL PROVE Span(k) \in Nat \ {0}
  <2>1. Pow[k] \in Nat \ {0}
    BY TreeAssumption
  <2>2. \A a, b \in Nat \ {0} : a * b \in Nat \ {0}
    OBVIOUS
  <2> QED BY <1>1, <2>1, <2>2 DEF Span
<1>3. ASSUME NEW k \in Slots PROVE Span(k + 1) = 2 * Span(k)
  <2>1. Pow[k] \in Nat /\ Pow[k + 1] = 2 * Pow[k]
    BY PowDouble
  <2> QED BY <1>1, <2>1 DEF Span
<1> QED
  BY <1>1, <1>2, <1>3 DEF Span, Q

(* Two neighbours make the node over both. *)
LEMMA JoinRuns ==
    ASSUME NEW l \in Slots, NEW lo \in Nat, NEW e \in Nat
    PROVE  HashPair(RunNode(l + 1, lo, e), RunNode(l + 1, lo + Span(l), e))
              = RunNode(l + 2, lo, e)
PROOF
<1>1. l \in Nat /\ l + 1 - 1 = l /\ l + 2 - 1 = l + 1 /\ (l + 1) + 1 = l + 2
  BY DEF Slots
<1>2. Span(l) \in Nat \ {0} /\ Span(l + 1) = 2 * Span(l)
  BY SpanFacts, PowDouble
<1>3. CASE lo + Span(l) < e
  <2> DEFINE hi == IF e < lo + Span(l) + Span(l) THEN e ELSE lo + Span(l) + Span(l)
  <2>1. hi \in Int /\ lo + Span(l) < hi
    BY <1>2, <1>3
  <2>2. HashPair(Extent(l + 1, lo, lo + Span(l)), Extent(l + 1, lo + Span(l), hi))
           = Extent(l + 2, lo, hi)
    BY <2>1, JoinComplete
  <2>3. /\ RunNode(l + 1, lo, e) = Extent(l + 1, lo, lo + Span(l))
        /\ RunNode(l + 1, lo + Span(l), e) = Extent(l + 1, lo + Span(l), hi)
        /\ RunNode(l + 2, lo, e) = Extent(l + 2, lo, hi)
    BY <1>1, <1>2, <1>3 DEF RunNode
  <2> QED BY <2>2, <2>3
<1>4. CASE ~ (lo + Span(l) < e) /\ lo < e
  <2>1. /\ RunNode(l + 1, lo, e) = Extent(l + 1, lo, e)
        /\ RunNode(l + 1, lo + Span(l), e) = Zero(l + 1)
        /\ RunNode(l + 2, lo, e) = Extent(l + 2, lo, e)
    BY <1>1, <1>2, <1>4 DEF RunNode
  <2>2. HashPair(Extent(l + 1, lo, e), Zero(l + 1)) = Extent((l + 1) + 1, lo, e)
    BY <1>1, <1>4, JoinZero
  <2> QED BY <1>1, <2>1, <2>2
<1>5. CASE ~ (lo < e)
  <2>1. /\ RunNode(l + 1, lo, e) = Zero(l + 1)
        /\ RunNode(l + 1, lo + Span(l), e) = Zero(l + 1)
        /\ RunNode(l + 2, lo, e) = Zero(l + 2)
    BY <1>2, <1>5 DEF RunNode
  <2>2. HashPair(Extent(l + 1, 0, 0), Zero(l + 1)) = Extent((l + 1) + 1, 0, 0)
    BY <1>1, JoinZero
  <2> QED BY <1>1, <2>1, <2>2 DEF Zero
<1> QED
  BY <1>3, <1>4, <1>5

(* Bytes first .. last - 1 at the start of a quad, zeros after them: each   *)
(* half hashes to the leaf of its part of them.                            *)
LEMMA LeafRun ==
    ASSUME NEW first \in Nat, NEW last \in Nat, NEW quad \in Quads, NEW half \in {0, 1},
           \A i \in 0 .. Q - 1 : quad[i] = IF first + i < last THEN first + i ELSE NoByte
    PROVE  Leaf(quad, half) = RunNode(1, 2 * first + half * Q, 2 * last)
PROOF
<1> DEFINE lo == 2 * first + half * Q
           m == IF lo < 2 * last THEN (IF 2 * last < lo + Q THEN 2 * last - lo ELSE Q)
                                 ELSE 0
<1>1. Q \in Nat \ {0} /\ Span(0) = Q /\ 1 - 1 = 0
  BY SpanFacts
<1>2. half * Q \in Nat /\ half * Q <= Q /\ lo \in Nat /\ m \in 0 .. Q
  BY <1>1
<1>3. ASSUME NEW i \in 0 .. Q - 1
      PROVE  /\ i < m =>
                  /\ quad[(half * Q + i) \div 2] # NoByte
                  /\ 2 * quad[(half * Q + i) \div 2] + ((half * Q + i) % 2) = lo + i
             /\ ~ (i < m) => quad[(half * Q + i) \div 2] = NoByte
  <2> DEFINE x == half * Q + i
             d == x \div 2
             r == x % 2
  <2>1. x \in Nat /\ x < 2 * Q
    BY <1>1, <1>2
  <2>2. d \in 0 .. Q - 1 /\ r \in {0, 1} /\ x = 2 * d + r
    <3> HIDE DEF x
    <3>1. d \in Nat /\ r \in {0, 1} /\ x = 2 * d + r
      BY <2>1
    <3> QED BY <1>1, <2>1, <3>1
  <2>3. lo + i = 2 * first + x /\ 2 * first + x = 2 * (first + d) + r
    BY <1>2, <2>2
  <2> HIDE DEF d, r, x
  <2>4. quad[d] = IF first + d < last THEN first + d ELSE NoByte
    BY <2>2
  <2>5. (first + d < last) <=> i < m
    BY <1>1, <1>2, <2>2, <2>3
  <2> QED
    BY <2>2, <2>3, <2>4, <2>5 DEF NoByte, d, r, x
<1> HIDE DEF lo, m
<1>4. HoldsRun(quad, half, lo, m)
  BY <1>3 DEF HoldsRun
<1>5. ASSUME NEW n \in 0 .. Q, NEW b \in Int, HoldsRun(quad, half, b, n)
      PROVE  n = m
  <2>1. ~ (n < m)
    <3>1. SUFFICES ASSUME n < m PROVE FALSE
      OBVIOUS
    <3>2. n \in 0 .. Q - 1
      BY <1>1, <1>2, <3>1
    <3> QED BY <1>3, <1>5, <3>1, <3>2 DEF HoldsRun
  <2>2. ~ (m < n)
    <3>1. SUFFICES ASSUME m < n PROVE FALSE
      OBVIOUS
    <3>2. m \in 0 .. Q - 1 /\ ~ (m < m)
      BY <1>1, <1>2, <3>1
    <3> QED BY <1>3, <1>5, <3>1, <3>2 DEF HoldsRun
  <2> QED BY <1>2, <2>1, <2>2
<1>6. CASE m = 0
  <2>1. HoldsRun(quad, half, 0, 0)
    BY <1>3, <1>6 DEF HoldsRun
  <2>2. ~ (lo < 2 * last)
    BY <1>1, <1>2, <1>6 DEF m
  <2>3. RunNode(1, lo, 2 * last) = Zero(1)
    BY <2>2 DEF RunNode
  <2> QED BY <2>1, <2>3 DEF Leaf, lo
<1>7. CASE m # 0
  <2>1. ~ HoldsRun(quad, half, 0, 0)
    BY <1>1, <1>5, <1>7
  <2>2. FirstNibble(quad, half) = lo
    <3>1. 0 \in 0 .. Q - 1 /\ 0 < m /\ half * Q + 0 = half * Q /\ lo + 0 = lo
      BY <1>1, <1>2, <1>7
    <3> QED BY <1>3, <3>1 DEF FirstNibble
  <2>3. m \in 1 .. Q
    BY <1>2, <1>7
  <2>4. (CHOOSE n \in 1 .. Q : HoldsRun(quad, half, lo, n)) = m
    <3>1. \A n \in 1 .. Q : HoldsRun(quad, half, lo, n) => n = m
      <4>1. \A n \in 1 .. Q : n \in 0 .. Q
        BY <1>1
      <4>2. lo \in Int
        BY <1>2
      <4> QED BY <1>5, <4>1, <4>2
    <3> QED BY <1>4, <2>3, <3>1
  <2>5. Leaf(quad, half) = Extent(1, lo, lo + m)
    BY <1>4, <2>1, <2>2, <2>3, <2>4 DEF Leaf
  <2>6. RunNode(1, lo, 2 * last) = Extent(1, lo, lo + m)
    BY <1>1, <1>2, <1>7 DEF RunNode, m
  <2> QED BY <2>5, <2>6 DEF lo
<1> QED
  BY <1>6, <1>7


(* A job of reduce() over the payload nibbles f .. e - 1. *)
JobCovers(job, f, e) ==
    /\ job.height \in 1 .. MAX_LEVEL + 1
    /\ job.len \in Nat \ {0}
    /\ f <= e /\ e <= f + job.len * Span(job.height - 1)
    /\ \A i \in 0 .. job.len - 1 :
          job.nodes[i] = RunNode(job.height, f + i * Span(job.height - 1), e)

(* One level of reduce() covers what it covered, in half the nodes; the     *)
(* zero it appends to an odd level fits in the array.                      *)
LEMMA ReduceCovers ==
    ASSUME NEW M \in Nat, M % 2 = 0,
           NEW job \in [nodes : [0 .. M - 1 -> Node], len : Nat, height : Nat],
           job.len <= M, job.height \in 1 .. MAX_LEVEL,
           NEW f \in Nat, NEW e \in Nat, JobCovers(job, f, e)
    PROVE  /\ ReduceLevel(job) \in [nodes : [0 .. M - 1 -> Node], len : Nat, height : Nat]
           /\ ReduceLevel(job).height = job.height + 1
           /\ ReduceLevel(job).len = (job.len + 1) \div 2
           /\ ReduceLevel(job).len \in 1 .. M
           /\ JobCovers(ReduceLevel(job), f, e)
PROOF
<1> DEFINE h == job.height
           n == job.len
           half == (n + 1) \div 2
           l == h - 1
           S == Span(l)
           T == Span(h)
           nodes == PaddedNodes(job)
           pairs == [i \in 0 .. M - 1 |-> IF i < half THEN HashPair(nodes[2 * i], nodes[2 * i + 1])
                                                      ELSE nodes[i]]
<1>1. /\ n \in Nat \ {0} /\ n <= M /\ h \in 1 .. MAX_LEVEL /\ f <= e
      /\ e <= f + n * S
      /\ \A i \in 0 .. n - 1 : job.nodes[i] = RunNode(h, f + i * S, e)
  BY DEF JobCovers
<1>2. job.nodes \in [0 .. M - 1 -> Node]
  OBVIOUS
<1>3. nodes = IF n % 2 = 1 THEN [job.nodes EXCEPT ![n] = Zero(h)] ELSE job.nodes
  BY DEF PaddedNodes
<1>4. Zero(h) \in Node
  BY <1>1 DEF Node, Zero, Extent
<1>5. nodes \in [0 .. M - 1 -> Node]
  <2> HIDE DEF n, h, nodes
  <2> QED BY <1>2, <1>3, <1>4
<1>6. ReduceLevel(job) = [nodes |-> pairs, len |-> half, height |-> h + 1]
  <2>1. DOMAIN nodes = 0 .. M - 1
    <3> HIDE DEF nodes
    <3> QED BY <1>5
  <2> QED BY <2>1 DEF ReduceLevel
<1> HIDE DEF h, n, nodes
<1>7. l \in Slots /\ l + 1 = h /\ l + 2 = h + 1 /\ l \in 0 .. MAX_LEVEL
  BY <1>1, TreeAssumption DEF Slots
<1>8. S \in Nat \ {0} /\ T \in Nat \ {0} /\ T = 2 * S
  <2>1. h \in 0 .. MAX_LEVEL
    BY <1>1, TreeAssumption
  <2>2. Span(l) \in Nat \ {0} /\ Span(h) \in Nat \ {0} /\ Span(l + 1) = 2 * Span(l)
    BY <1>7, <2>1, SpanFacts
  <2> QED BY <1>7, <2>2
<1>9. /\ half \in Nat \ {0} /\ half <= M /\ 2 * half <= M
      /\ n % 2 = 0 => 2 * half = n
      /\ n % 2 = 1 => 2 * half = n + 1 /\ n < M
      /\ n % 2 \in {0, 1}
  BY <1>1
<1> HIDE DEF S, T, half, l
<1>10. ASSUME NEW i \in 0 .. 2 * half - 1
       PROVE  nodes[i] = RunNode(h, f + i * S, e)
  <2>1. CASE i < n
    <3>1. i \in 0 .. n - 1 /\ i # n /\ i \in 0 .. M - 1
      BY <1>1, <1>9, <2>1
    <3>2. nodes[i] = job.nodes[i]
      BY <1>2, <1>3, <3>1
    <3> QED BY <1>1, <3>1, <3>2
  <2>2. CASE ~ (i < n)
    <3>1. n % 2 = 1 /\ i = n /\ n < M /\ n \in 0 .. M - 1
      BY <1>1, <1>9, <2>2
    <3>2. nodes[i] = Zero(h)
      BY <1>2, <1>3, <3>1
    <3>3. ~ (f + i * S < e)
      <4>1. n * S \in Nat
        BY <1>1, <1>8
      <4> QED BY <1>1, <3>1, <4>1
    <3> QED BY <3>2, <3>3 DEF RunNode
  <2> QED BY <2>1, <2>2
<1>11. ASSUME NEW i \in 0 .. half - 1
       PROVE  /\ 2 * i \in 0 .. 2 * half - 1 /\ 2 * i + 1 \in 0 .. 2 * half - 1
              /\ 2 * i \in 0 .. M - 1 /\ 2 * i + 1 \in 0 .. M - 1 /\ i \in 0 .. M - 1
  BY <1>9
<1>12. ASSUME NEW i \in 0 .. half - 1
       PROVE  pairs[i] = RunNode(h + 1, f + i * T, e)
  <2>1. i \in Nat /\ i < half /\ i \in 0 .. M - 1
    BY <1>9, <1>11
  <2>2. i * T \in Nat /\ (2 * i) * S = i * T /\ (2 * i + 1) * S = i * T + S
    <3>1. i * (2 * S) \in Nat /\ (2 * i) * S = i * (2 * S) /\ (2 * i + 1) * S = i * (2 * S) + S
      BY <1>8, <2>1
    <3> QED BY <1>8, <3>1
  <2> DEFINE lo == f + i * T
  <2>3. lo \in Nat /\ f + (2 * i) * S = lo /\ f + (2 * i + 1) * S = lo + S
    BY <1>8, <2>2
  <2>4. nodes[2 * i] = RunNode(h, lo, e) /\ nodes[2 * i + 1] = RunNode(h, lo + S, e)
    BY <1>10, <1>11, <2>3
  <2> HIDE DEF lo
  <2>5. HashPair(RunNode(l + 1, lo, e), RunNode(l + 1, lo + Span(l), e)) = RunNode(l + 2, lo, e)
    BY <1>7, <2>3, JoinRuns
  <2>6. HashPair(RunNode(h, lo, e), RunNode(h, lo + S, e)) = RunNode(h + 1, lo, e)
    BY <1>7, <2>5 DEF S
  <2>7. pairs[i] = HashPair(nodes[2 * i], nodes[2 * i + 1])
    BY <2>1
  <2> QED
    BY <2>4, <2>6, <2>7 DEF lo
<1>13. pairs \in [0 .. M - 1 -> Node]
  <2>1. \A a, b \in Node : HashPair(a, b) \in Node
    BY DEF HashPair, Node, Extent, Junk
  <2>2. ASSUME NEW i \in 0 .. M - 1 PROVE pairs[i] \in Node
    <3>1. CASE i < half
      <4>1. 2 * i \in 0 .. M - 1 /\ 2 * i + 1 \in 0 .. M - 1
        BY <1>9, <3>1
      <4> QED BY <1>5, <2>1, <3>1, <4>1
    <3>2. CASE ~ (i < half)
      BY <1>5, <3>2
    <3> QED BY <3>1, <3>2
  <2> QED BY <2>2
<1>14. e <= f + half * T
  <2>1. half * (2 * S) = (2 * half) * S /\ n * S \in Nat /\ half * (2 * S) \in Nat
    BY <1>1, <1>8, <1>9
  <2>2. n * S <= (2 * half) * S
    <3>1. CASE 2 * half = n
      BY <3>1, <2>1
    <3>2. CASE 2 * half = n + 1
      <4>1. (n + 1) * S = n * S + S
        BY <1>1, <1>8
      <4> QED BY <1>8, <2>1, <3>2, <4>1
    <3> QED BY <1>9, <3>1, <3>2
  <2> QED BY <1>1, <1>8, <2>1, <2>2
<1>15. h + 1 \in 1 .. MAX_LEVEL + 1 /\ h + 1 - 1 = h /\ h + 1 \in Nat
  BY <1>1, TreeAssumption
<1> DEFINE up == [nodes |-> pairs, len |-> half, height |-> h + 1]
<1> HIDE DEF pairs
<1>16. up \in [nodes : [0 .. M - 1 -> Node], len : Nat, height : Nat]
  BY <1>9, <1>13, <1>15
<1>17. JobCovers(up, f, e)
  <2>0. up.height - 1 = h
    BY <1>1, TreeAssumption
  <2>1. up.nodes = pairs /\ up.len = half /\ up.height = h + 1
    OBVIOUS
  <2> HIDE DEF up
  <2>2. /\ up.height \in 1 .. MAX_LEVEL + 1 /\ up.len \in Nat \ {0}
        /\ up.height - 1 = h
    <3>1. half \in Nat \ {0}
      BY <1>9
    <3>2. up.len \in Nat \ {0}
      BY <2>1, <3>1, Zenon
    <3>3. up.height \in 1 .. MAX_LEVEL + 1
      BY <1>15, <2>1, Zenon
    <3>4. up.height - 1 = h
      BY <2>0
    <3> QED BY <3>2, <3>3, <3>4
  <2>3. e <= f + up.len * Span(up.height - 1)
    BY <1>14, <2>1, <2>2 DEF T
  <2>4. \A i \in 0 .. up.len - 1 :
           up.nodes[i] = RunNode(up.height, f + i * Span(up.height - 1), e)
    BY <1>12, <2>1, <2>2 DEF T
  <2> QED BY <1>1, <2>2, <2>3, <2>4 DEF JobCovers
<1>18. up.height = h + 1 /\ up.len = half /\ half \in 1 .. M
  BY <1>9
<1> QED
  BY <1>6, <1>16, <1>17, <1>18 DEF h, n, half

(* The one node left at the top covers everything. *)
LEMMA CoveredRoot ==
    ASSUME NEW job, NEW f \in Nat, NEW e \in Nat, JobCovers(job, f, e), job.len = 1
    PROVE  /\ job.nodes[0] = RunNode(job.height, f, e)
           /\ e <= f + Span(job.height - 1)
           /\ f < e => job.nodes[0] = Extent(job.height, f, e)
           /\ f = e => job.nodes[0] = Zero(job.height)
PROOF
<1> DEFINE S == Span(job.height - 1)
<1>1. S \in Nat
  <2>1. job.height \in 1 .. MAX_LEVEL + 1
    BY DEF JobCovers
  <2>2. MAX_LEVEL \in Nat
    BY TreeAssumption
  <2>3. job.height - 1 \in 0 .. MAX_LEVEL
    BY <2>1, <2>2
  <2> QED BY <2>3, SpanFacts
<1>2. 0 \in 0 .. job.len - 1 /\ f + 0 * S = f /\ 1 * S = S
  BY <1>1
<1>3. job.nodes[0] = RunNode(job.height, f, e) /\ e <= f + S
  BY <1>1, <1>2 DEF JobCovers
<1> HIDE DEF S
<1>4. f < e => RunNode(job.height, f, e) = Extent(job.height, f, e)
  BY <1>1, <1>3 DEF RunNode, S
<1>5. f = e => RunNode(job.height, f, e) = Zero(job.height)
  BY DEF RunNode
<1> QED
  BY <1>3, <1>4, <1>5 DEF S

-----------------------------------------------------------------------------
(* The least tree that holds a payload. *)

(* QuadsFor rounds up. *)
LEMMA QuadsForFacts ==
    ASSUME NEW n \in Nat, NEW p \in Nat
    PROVE  /\ QuadsFor(n) \in Nat
           /\ QuadsFor(n) <= p <=> n <= Q * p
           /\ n = 0 <=> QuadsFor(n) = 0
PROOF
<1> DEFINE q == (n + Q - 1) \div Q
           r == (n + Q - 1) % Q
<1>1. Q \in Nat \ {0}
  BY SpanFacts
<1>2. n + Q - 1 \in Nat
  BY <1>1
<1>3. q \in Nat /\ r \in Nat /\ r < Q /\ n + Q - 1 = Q * q + r
  BY <1>1, <1>2, DivMod
<1> HIDE DEF q, r
<1>4. Q * q \in Nat /\ Q * p \in Nat
  BY <1>1, <1>3
<1>5. q <= p => n <= Q * p
  <2>1. SUFFICES ASSUME q <= p PROVE n <= Q * p
    OBVIOUS
  <2>2. PICK c \in Nat : p = q + c
    <3>1. p - q \in Nat /\ p = q + (p - q)
      BY <1>3, <2>1
    <3> QED BY <3>1
  <2>3. Q * p = Q * q + Q * c /\ Q * c \in Nat
    BY <1>1, <1>3, <2>2
  <2> QED BY <1>1, <1>3, <1>4, <2>3
<1>6. p < q => Q * p < n
  <2>1. SUFFICES ASSUME p < q PROVE Q * p < n
    OBVIOUS
  <2>2. PICK c \in Nat : q = p + 1 + c
    <3>1. q - p - 1 \in Nat /\ q = p + 1 + (q - p - 1)
      BY <1>3, <2>1
    <3> QED BY <3>1
  <2>3. Q * q = Q * p + Q + Q * c /\ Q * c \in Nat
    BY <1>1, <1>3, <2>2
  <2> QED BY <1>1, <1>3, <1>4, <2>3
<1>7. n = 0 <=> q = 0
  <2>1. n = 0 => q = 0
    <3>1. SUFFICES ASSUME n = 0, q # 0 PROVE FALSE
      OBVIOUS
    <3>2. PICK c \in Nat : q = c + 1
      <4>1. q - 1 \in Nat /\ q = (q - 1) + 1
        BY <1>3, <3>1
      <4> QED BY <4>1
    <3>3. Q * q = Q * c + Q /\ Q * c \in Nat
      BY <1>1, <3>2
    <3> QED BY <1>1, <1>3, <3>1, <3>3
  <2>2. q = 0 => n = 0
    <3>1. Q * 0 = 0
      BY <1>1
    <3> QED BY <1>1, <1>3, <3>1
  <2> QED BY <2>1, <2>2
<1> QED
  BY <1>1, <1>3, <1>4, <1>5, <1>6, <1>7 DEF QuadsFor, q

(* There is one next power of two. *)
LEMMA CeilLogUnique ==
    ASSUME NEW n \in Nat, NEW i \in 0 .. MAX_LEVEL, NEW j \in 0 .. MAX_LEVEL,
           IsCeilLog(n, i), IsCeilLog(n, j)
    PROVE  i = j
PROOF
<1>1. ASSUME NEW a \in 0 .. MAX_LEVEL, NEW b \in 0 .. MAX_LEVEL,
             IsCeilLog(n, a), IsCeilLog(n, b), a < b
      PROVE  FALSE
  <2>1. b - 1 \in 0 .. MAX_LEVEL /\ b - 1 \in a .. MAX_LEVEL /\ b > 0
    BY <1>1, TreeAssumption
  <2>2. Pow[a] <= Pow[b - 1] /\ Pow[a] \in Nat /\ Pow[b - 1] \in Nat
    BY <2>1, PowFacts, TreeAssumption
  <2>3. n <= Pow[a] /\ Pow[b - 1] < n
    BY <1>1, <2>1 DEF IsCeilLog
  <2> QED BY <2>2, <2>3
<1>2. ~ (i < j) /\ ~ (j < i)
  BY <1>1
<1> QED
  BY <1>2, TreeAssumption

(* zero_padding fills the least tree that holds the payload. *)
LEMMA PaddingFills ==
    ASSUME NEW size \in Nat, NEW k \in 0 .. MAX_LEVEL,
           size <= Q * Pow[k], k > 0 => Q * Pow[k - 1] < size
    PROVE  ZeroPadding(size) = Q * Pow[k] - size
PROOF
<1> DEFINE quads == IF size = 0 THEN 1 ELSE QuadsFor(size)
<1>1. Q \in Nat \ {0} /\ Pow[k] \in Nat \ {0}
  BY SpanFacts, TreeAssumption
<1>2. quads \in Nat
  BY QuadsForFacts
<1>3. quads <= Pow[k]
  BY <1>1, QuadsForFacts
<1>4. k > 0 => Pow[k - 1] < quads
  <2>1. SUFFICES ASSUME k > 0 PROVE Pow[k - 1] < quads
    OBVIOUS
  <2>2. Pow[k - 1] \in Nat
    BY <2>1, TreeAssumption
  <2>3. Q * Pow[k - 1] < size /\ Q * Pow[k - 1] \in Nat
    BY <1>1, <2>1, <2>2
  <2>4. ~ (QuadsFor(size) <= Pow[k - 1]) /\ QuadsFor(size) \in Nat
    BY <2>2, <2>3, QuadsForFacts
  <2> QED BY <2>2, <2>3, <2>4
<1> HIDE DEF quads
<1>5. IsCeilLog(quads, k)
  BY <1>3, <1>4 DEF IsCeilLog
<1>6. (CHOOSE i \in 0 .. MAX_LEVEL : IsCeilLog(quads, i)) = k
  <2>1. \A i \in 0 .. MAX_LEVEL : IsCeilLog(quads, i) => i = k
    BY <1>2, <1>5, CeilLogUnique
  <2> QED BY <1>5, <2>1
<1>7. ZeroPadding(size) = Pow[CHOOSE i \in 0 .. MAX_LEVEL : IsCeilLog(quads, i)] * Q - size
  BY DEF ZeroPadding, quads
<1>8. Pow[k] * Q = Q * Pow[k]
  BY <1>1
<1> QED
  BY <1>6, <1>7, <1>8

(* What digest() encodes when it has the root of the least tree. *)
LEMMA CommitmentOf ==
    ASSUME NEW first \in Nat, NEW size \in Nat, NEW k \in 0 .. MAX_LEVEL - 1,
           size <= Q * Pow[k], k > 0 => Q * Pow[k - 1] < size,
           NEW root, root = RunNode(k + 2, 2 * first, 2 * (first + size))
    PROVE  IsCommitment([padding |-> ZeroPadding(size), height |-> k + 2, root |-> root],
                        first, size)
PROOF
<1>1. k \in 0 .. MAX_LEVEL /\ k \in Slots /\ k + 2 - 1 = k + 1 /\ k + 2 - 2 = k /\ k + 2 - 3 = k - 1
  BY TreeAssumption DEF Slots
<1>2. Q \in Nat \ {0} /\ Pow[k] \in Nat \ {0}
  BY <1>1, SpanFacts, TreeAssumption
<1>3. ZeroPadding(size) = Q * Pow[k] - size /\ Q * Pow[k] \in Nat
  BY <1>1, <1>2, PaddingFills
<1>4. Span(k + 1) = 2 * (Q * Pow[k])
  BY <1>1, SpanFacts DEF Span, Q
<1>5. root = IF size = 0 THEN Zero(k + 2)
             ELSE Extent(k + 2, 2 * first, 2 * (first + size))
  <2>1. 2 * (first + size) <= 2 * first + Span(k + 1) /\ Span(k + 1) \in Nat
    BY <1>3, <1>4
  <2>2. CASE size = 0
    BY <2>2 DEF RunNode
  <2>3. CASE size # 0
    <3>1. 2 * first < 2 * (first + size)
      BY <2>3
    <3> QED BY <1>1, <2>1, <2>3, <3>1 DEF RunNode
  <2> QED BY <2>2, <2>3
<1> QED
  BY <1>1, <1>3, <1>5 DEF IsCommitment
=============================================================================
