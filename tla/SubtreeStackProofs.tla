-------------------------- MODULE SubtreeStackProofs --------------------------
(***************************************************************************)
(* Proofs about SubtreeStack, for every leaf size, table length and bound: *)
(* the pending subtrees are the ones the bits of count say, and fold()     *)
(* returns the root of exactly what was pushed.  The inductive invariant   *)
(* adds to these two what push_at and fold hold in their locals.           *)
(***************************************************************************)
EXTENDS SubtreeStack, TreeLemmas

Inv == TypeOK /\ PendingSubtrees /\ FoldedRoot

(* Positions grow with the leaves. *)
LEMMA PosFacts ==
    ASSUME origin \in Nat, NEW x \in Nat, NEW a \in Nat
    PROVE  /\ Pos(x) \in Nat
           /\ LeafSpan * a \in Nat
           /\ Pos(x + a) = Pos(x) + LeafSpan * a
           /\ a > 0 => Pos(x) < Pos(x + a)
PROOF
<1>1. LeafSpan \in Nat \ {0}
  BY TreeAssumption
<1>2. LeafSpan * x \in Nat /\ LeafSpan * a \in Nat
  BY <1>1
<1>3. LeafSpan * (x + a) = LeafSpan * x + LeafSpan * a
  BY <1>1
<1>4. a > 0 => LeafSpan * a > 0
  <2>1. SUFFICES ASSUME a > 0 PROVE LeafSpan * a > 0
    OBVIOUS
  <2>2. LeafSpan * a = LeafSpan * (a - 1) + LeafSpan
    BY <1>1, <2>1
  <2>3. LeafSpan * (a - 1) \in Nat
    BY <1>1, <2>1
  <2> QED BY <1>1, <2>2, <2>3
<1> QED
  BY <1>2, <1>3, <1>4 DEF Pos

(* The subtree pending at level k ends where the lower bits begin. *)
LEMMA StartFacts ==
    ASSUME NEW k \in Slots, NEW c \in Nat
    PROVE  /\ Start(c, k) \in Nat
           /\ Bit(c, k) = 1 => /\ Start(c, k) + Pow[k] = c - (c % Pow[k])
                               /\ Start(c, k) + Pow[k] <= c
                               /\ Pow[k] <= c
           /\ Bit(c, k) = 0 => Start(c, k) = c - (c % Pow[k])
PROOF
<1>1. Pow[k] \in Nat \ {0}
  BY PowDouble
<1>2. /\ c % Pow[k] \in Nat
      /\ c % Pow[k + 1] = (c % Pow[k]) + (IF Bit(c, k) = 1 THEN Pow[k] ELSE 0)
      /\ c % Pow[k + 1] <= c
  BY BitSplit
<1> QED
  BY <1>1, <1>2 DEF Start

-----------------------------------------------------------------------------
(* The steps. *)

LEMMA InitInv ==
    ASSUME Init PROVE Inv
PROOF
<1> USE DEF Init
<1>1. \A k \in Slots : Bit(0, k) = 0
  <2>1. SUFFICES ASSUME NEW k \in Slots PROVE Bit(0, k) = 0
    OBVIOUS
  <2>2. Pow[k] \in Nat \ {0}
    BY PowDouble
  <2>3. Pow[k] * 0 + 0 = 0
    BY <2>2
  <2>4. 0 \div Pow[k] = 0
    BY <2>2, <2>3, DivModUnique
  <2> QED BY <2>4 DEF Bit
<1>2. stack = [nodes |-> [k \in Slots |-> Zero(0)], count |-> 0]
  BY DEF NewStack
<1>3. TypeOK
  BY <1>2, StackAssumption, TreeAssumption
     DEF TypeOK, StackNodes, Node, Zero, Extent, Junk, NoResult, Slots
<1>4. RestInv
  <2>1. Pos(0) = 0
    BY TreeAssumption DEF Pos
  <2> QED BY <1>1, <1>2, <2>1 DEF RestInv
<1> QED
  BY <1>3, <1>4 DEF Inv, PendingSubtrees, FoldedRoot

LEMMA BeginPushInv ==
    ASSUME Inv, NEW L \in Slots, NEW e \in Int, BeginPush(L, e)
    PROVE  Inv'
PROOF
<1> DEFINE c == stack.count
<1>1. /\ stack \in [nodes : StackNodes, count : 0 .. MaxLeaves]
      /\ origin \in Nat /\ end \in Nat /\ c \in Nat /\ pc = "idle"
      /\ top \in Slots
  BY StackAssumption DEF Inv, TypeOK, BeginPush
<1>2. Pow[L] \in Nat \ {0} /\ L \in 0 .. MAX_LEVEL
  BY PowDouble
<1>3. /\ stack' = [stack EXCEPT !.count = c + Pow[L]]
      /\ node' = Extent(L + 1, end, e) /\ level' = L /\ end' = e /\ pc' = "push"
      /\ top' = top /\ origin' = origin /\ result' = NoResult
      /\ end = Pos(c) /\ c % Pow[L] = 0 /\ c + Pow[L] <= MaxLeaves
      /\ end < e /\ e <= Pos(c + Pow[L])
  BY DEF BeginPush
<1>4. e \in Nat
  BY <1>1, <1>3
<1>5. stack'.count = c + Pow[L] /\ stack'.nodes = stack.nodes
      /\ stack' \in [nodes : StackNodes, count : 0 .. MaxLeaves]
  BY <1>1, <1>2, <1>3
<1>6. TypeOK'
  BY <1>1, <1>2, <1>3, <1>4, <1>5 DEF TypeOK, Node, Extent, NoResult, Junk
<1>7. \A k \in Slots : Bit(c, k) = 1 =>
         stack.nodes[k] = Extent(k + 1, Pos(Start(c, k)), Pos(Start(c, k) + Pow[k]))
  <2>1. SUFFICES ASSUME NEW k \in Slots, Bit(c, k) = 1
                 PROVE  stack.nodes[k] = Extent(k + 1, Pos(Start(c, k)),
                                                Pos(Start(c, k) + Pow[k]))
    OBVIOUS
  <2>2. stack.nodes[k] = PendingNode(c, k)
    BY <1>1, <2>1 DEF Inv, PendingSubtrees, RestInv
  <2>3. Start(c, k) \in Nat /\ Start(c, k) + Pow[k] <= c /\ Pow[k] \in Nat
    BY <1>1, <2>1, StartFacts, PowDouble
  <2> DEFINE s == Start(c, k) + Pow[k]
  <2>4. s \in Nat /\ c - s \in Nat /\ s + (c - s) = c
    BY <1>1, <2>3
  <2>5. Pos(s) \in Nat /\ Pos(s) <= Pos(c)
    <3>1. Pos(s + (c - s)) = Pos(s) + LeafSpan * (c - s) /\ LeafSpan * (c - s) \in Nat
          /\ Pos(s) \in Nat
      BY <1>1, <2>4, PosFacts
    <3> QED BY <2>4, <3>1
  <2> QED BY <1>1, <1>3, <2>2, <2>5 DEF PendingNode
<1>8. PushInv'
  <2>1. stack'.count - Pow[level'] = c /\ Pow[level'] <= stack'.count
    BY <1>1, <1>2, <1>3, <1>5
  <2>2. stack'.count % Pow[level'] = 0
    BY <1>1, <1>2, <1>3, <1>5, MultipleNext
  <2> QED
    BY <1>1, <1>2, <1>3, <1>5, <1>7, <2>1, <2>2 DEF PushInv, Pos, Start
<1> QED
  BY <1>3, <1>6, <1>8 DEF Inv, PendingSubtrees, FoldedRoot

LEMMA MergeInv ==
    ASSUME Inv, Merge
    PROVE  Inv'
PROOF
<1> DEFINE c == stack.count
           d == c - Pow[level]
           f == c - Pow[level + 1]
<1>1. /\ stack \in [nodes : StackNodes, count : 0 .. MaxLeaves]
      /\ origin \in Nat /\ end \in Nat /\ c \in Nat /\ pc = "push"
      /\ top \in Slots /\ c <= MaxLeaves /\ PushInv /\ level \in Slots
  BY StackAssumption DEF Inv, TypeOK, Merge, PendingSubtrees, PushInv
<1>2. /\ node' = HashPair(stack.nodes[level], node) /\ level' = level + 1
      /\ Bit(c, level) = 0
      /\ stack' = stack /\ pc' = pc /\ top' = top /\ origin' = origin /\ end' = end
      /\ result' = result
  BY DEF Merge
<1>3. /\ Pow[level] \in Nat \ {0} /\ Pow[level + 1] = 2 * Pow[level]
      /\ level \in 0 .. MAX_LEVEL /\ level + 1 \in 0 .. MAX_LEVEL
  BY <1>1, PowDouble
<1>4. Pow[level + 1] <= c /\ c % Pow[level + 1] = 0
  BY <1>1, <1>2, CarryRoom DEF PushInv
<1>5. level + 1 \in Slots
  <2>1. Pow[level + 1] < Pow[MAX_LEVEL]
    BY <1>1, <1>3, <1>4, StackAssumption, TreeAssumption
  <2> QED BY <1>3, <2>1, TreeAssumption DEF Slots
<1>6. d \in Nat /\ f \in Nat /\ d = f + Pow[level] /\ c = d + Pow[level]
      /\ c = f + Pow[level + 1]
  BY <1>1, <1>3, <1>4
<1>7. f % Pow[level + 1] = 0
  BY <1>1, <1>3, <1>4, MultipleNext
<1>8. \A k \in Slots : k >= level + 1 =>
         Bit(d, k) = Bit(f, k) /\ Start(d, k) = Start(f, k)
  <2>1. SUFFICES ASSUME NEW k \in Slots, k >= level + 1
                 PROVE  Bit(d, k) = Bit(f, k) /\ Start(d, k) = Start(f, k)
    OBVIOUS
  <2>2. k \in level + 1 .. MAX_LEVEL /\ k + 1 \in level + 1 .. MAX_LEVEL
    BY <1>3, <2>1, TreeAssumption DEF Slots
  <2>3. Pow[level] < Pow[level + 1]
    BY <1>3
  <2>4. d \div Pow[k] = f \div Pow[k] /\ d % Pow[k + 1] = (f % Pow[k + 1]) + Pow[level]
    BY <1>3, <1>6, <1>7, <2>2, <2>3, ModShift
  <2>5. f % Pow[k + 1] \in Nat
    BY <1>6, <2>1, PowDouble
  <2> QED BY <1>3, <1>6, <2>4, <2>5 DEF Bit, Start
<1>9. stack.nodes[level] = Extent(level + 1, Pos(f), Pos(d))
  <2>1. d % Pow[level + 1] = Pow[level] /\ Bit(d, level) = 1
    <3>1. /\ f % Pow[level] = 0
          /\ Bit(f, level) = 0
      <4>1. level < level + 1
        BY <1>3
      <4> QED BY <1>1, <1>3, <1>6, <1>7, <4>1, BitsBelow
    <3>2. d % Pow[level + 1] = (f % Pow[level + 1]) + Pow[level]
      <4>1. level + 1 \in level + 1 .. MAX_LEVEL /\ Pow[level] < Pow[level + 1]
        BY <1>3
      <4> HIDE DEF f
      <4>2. (f + Pow[level]) % Pow[level + 1] = (f % Pow[level + 1]) + Pow[level]
        BY <1>3, <1>6, <1>7, <4>1, ModShift
      <4> QED BY <1>6, <4>2
    <3>3. d % Pow[level] = 0
      BY <1>3, <1>6, <3>1, MultipleNext
    <3>4. d % Pow[level + 1] = (d % Pow[level])
             + (IF Bit(d, level) = 1 THEN Pow[level] ELSE 0)
      BY <1>1, <1>6, BitSplit
    <3> QED BY <1>3, <1>7, <3>2, <3>3, <3>4
  <2>2. Start(d, level) = f /\ Start(d, level) + Pow[level] = d
    BY <1>3, <1>6, <2>1 DEF Start
  <2>3. level >= level
    BY <1>3
  <2> QED BY <1>1, <2>1, <2>2, <2>3 DEF PushInv
<1>10. node' = Extent(level + 2, Pos(f), end)
  <2>1. node = Extent(level + 1, Pos(d), end) /\ Pos(d) < end
    BY <1>1 DEF PushInv
  <2>2. Pos(d) = Pos(f) + Span(level) /\ Pos(f) \in Nat /\ Pos(d) \in Nat
    BY <1>1, <1>3, <1>6, PosFacts DEF Span
  <2> QED BY <1>1, <1>2, <1>9, <2>1, <2>2, JoinComplete
<1>11. Pos(f) < end
  <2>1. Pos(f) < Pos(d) /\ Pos(f) \in Nat /\ Pos(d) \in Nat
    <3>1. Pos(f) < Pos(f + Pow[level]) /\ Pos(f) \in Nat /\ Pos(f + Pow[level]) \in Nat
      <4>1. Pow[level] \in Nat /\ Pow[level] > 0 /\ f + Pow[level] \in Nat
        BY <1>3, <1>6
      <4> HIDE DEF f
      <4> QED BY <1>1, <1>6, <4>1, PosFacts
    <3> QED BY <1>6, <3>1
  <2> QED BY <1>1, <2>1 DEF PushInv
<1>12. TypeOK'
  <2>1. Pos(f) \in Nat
    BY <1>1, <1>6, PosFacts
  <2>2. node' \in Node
    BY <1>1, <1>3, <1>10, <2>1 DEF Node, Extent
  <2> QED BY <1>1, <1>2, <1>3, <2>2 DEF TypeOK, Inv
<1>13. PushInv'
  <2>1. end <= Pos(c)
    BY <1>1 DEF PushInv
  <2>2. \A k \in Slots : k >= level + 1 /\ Bit(f, k) = 1 =>
           stack.nodes[k] = Extent(k + 1, Pos(Start(f, k)), Pos(Start(f, k) + Pow[k]))
    <3>1. SUFFICES ASSUME NEW k \in Slots, k >= level + 1, Bit(f, k) = 1
                   PROVE  stack.nodes[k] = Extent(k + 1, Pos(Start(f, k)),
                                                  Pos(Start(f, k) + Pow[k]))
      OBVIOUS
    <3>2. k >= level
      BY <1>3, <3>1 DEF Slots
    <3> QED BY <1>1, <1>8, <3>1, <3>2 DEF PushInv
  <2>3. level + 1 + 1 = level + 2
    BY <1>3
  <2> QED
    BY <1>1, <1>2, <1>4, <1>5, <1>10, <1>11, <2>1, <2>2, <2>3 DEF PushInv, Pos, Start
<1>14. FoldedRoot'
  BY <1>2 DEF Inv, FoldedRoot
<1> QED
  BY <1>1, <1>2, <1>12, <1>13, <1>14 DEF Inv, PendingSubtrees

LEMMA StoreInv ==
    ASSUME Inv, Store
    PROVE  Inv'
PROOF
<1> DEFINE c == stack.count
           d == c - Pow[level]
<1>1. /\ stack \in [nodes : StackNodes, count : 0 .. MaxLeaves]
      /\ origin \in Nat /\ end \in Nat /\ c \in Nat /\ pc = "push"
      /\ top \in Slots /\ PushInv /\ level \in Slots
      /\ node \in Node
  BY StackAssumption DEF Inv, TypeOK, Store, PendingSubtrees, PushInv
<1>2. /\ stack' = [stack EXCEPT !.nodes[level] = node] /\ Bit(c, level) = 1
      /\ pc' = "idle" /\ level' = 0 /\ node' = Junk
      /\ top' = top /\ origin' = origin /\ end' = end /\ result' = result
  BY DEF Store
<1>3. /\ Pow[level] \in Nat \ {0} /\ Pow[level + 1] = 2 * Pow[level]
      /\ level \in 0 .. MAX_LEVEL /\ level + 1 \in 0 .. MAX_LEVEL
  BY <1>1, PowDouble
<1>4. /\ stack'.count = c
      /\ stack'.nodes = [stack.nodes EXCEPT ![level] = node]
      /\ stack' \in [nodes : StackNodes, count : 0 .. MaxLeaves]
  BY <1>1, <1>2 DEF StackNodes
<1>5. TypeOK'
  BY <1>1, <1>2, <1>4 DEF TypeOK, Inv, Node, Junk, Extent
<1>6. /\ d \in Nat /\ c = d + Pow[level] /\ c % Pow[level] = 0
      /\ c % Pow[level + 1] = Pow[level]
      /\ d % Pow[level + 1] = 0
  <2>1. d \in Nat /\ c = d + Pow[level] /\ c % Pow[level] = 0
    BY <1>1, <1>3 DEF PushInv
  <2>2. c % Pow[level + 1] = Pow[level]
    <3>1. c % Pow[level + 1] = (c % Pow[level])
             + (IF Bit(c, level) = 1 THEN Pow[level] ELSE 0)
      BY <1>1, BitSplit
    <3> QED BY <1>2, <1>3, <2>1, <3>1
  <2>3. d % Pow[level + 1] = 0
    <3> DEFINE P == Pow[level + 1]
               q == c \div P
    <3>1. P \in Nat \ {0} /\ q \in Nat /\ c = P * q + Pow[level] /\ P * q \in Nat
      <4>1. P \in Nat \ {0}
        BY <1>3
      <4> HIDE DEF P
      <4>2. q \in Nat /\ c = P * q + (c % P) /\ P * q \in Nat
        BY <1>1, <4>1, DivMod
      <4>3. c % P = Pow[level]
        BY <2>2 DEF P
      <4> QED BY <4>1, <4>2, <4>3
    <3> HIDE DEF P, q
    <3>2. d = P * q + 0
      BY <2>1, <3>1, <1>3
    <3>3. (P * q + 0) % P = 0
      BY <3>1, DivModUnique
    <3> QED BY <3>2, <3>3 DEF P
  <2> QED BY <2>1, <2>2, <2>3
<1>7. ASSUME NEW k \in Slots, Bit(c, k) = 1
      PROVE  /\ Pos(c - Pow[k]) < end
             /\ stack'.nodes[k] = PendingNode(c, k)
  <2>1. k >= level
    <3>1. SUFFICES ASSUME k < level PROVE FALSE
      BY <1>3 DEF Slots
    <3>2. Bit(c, k) = 0
      BY <1>1, <1>3, <1>6, <3>1, BitsBelow
    <3> QED BY <1>7, <3>2
  <2>2. Pos(d) < end /\ end <= Pos(c) /\ Pos(d) \in Nat /\ Pos(c) \in Nat
    BY <1>1, <1>6, PosFacts DEF PushInv
  <2>3. CASE k = level
    <3>1. Start(c, k) = d /\ Start(c, k) + Pow[k] = c
      BY <1>6, <2>3, <1>3 DEF Start
    <3>2. node = Extent(level + 1, Pos(d), end)
      BY <1>1 DEF PushInv
    <3>3. stack'.nodes[k] = node
      BY <1>1, <1>4, <2>3 DEF StackNodes
    <3>4. PendingNode(c, k) = Extent(level + 1, Pos(d), end)
      BY <1>1, <2>2, <2>3, <3>1 DEF PendingNode
    <3> QED BY <2>2, <2>3, <3>2, <3>3, <3>4
  <2>4. CASE k > level
    <3>1. k \in level + 1 .. MAX_LEVEL /\ k + 1 \in level + 1 .. MAX_LEVEL
      BY <1>3, <2>4, TreeAssumption DEF Slots
    <3>2. Pow[level] < Pow[level + 1]
      BY <1>3
    <3>3. c \div Pow[k] = d \div Pow[k] /\ c % Pow[k + 1] = (d % Pow[k + 1]) + Pow[level]
      BY <1>3, <1>6, <3>1, <3>2, ModShift
    <3>4. d % Pow[k + 1] \in Nat
      BY <1>6, PowDouble
    <3>5. Bit(d, k) = 1 /\ Start(d, k) = Start(c, k)
      BY <1>1, <1>3, <1>6, <1>7, <3>3, <3>4 DEF Bit, Start
    <3>6. stack'.nodes[k] = stack.nodes[k]
      <4>1. k # level
        BY <1>3, <2>4
      <4> QED BY <1>1, <1>4, <4>1 DEF StackNodes
    <3>7. stack.nodes[k] = Extent(k + 1, Pos(Start(d, k)), Pos(Start(d, k) + Pow[k]))
      BY <1>1, <2>1, <3>5 DEF PushInv
    <3> DEFINE s == Start(d, k) + Pow[k]
    <3>8. s \in Nat /\ s <= d /\ Pow[k] \in Nat \ {0} /\ Pow[k] <= d
      BY <1>6, <3>5, StartFacts, PowDouble
    <3>9. Pos(s) < end
      <4>1. d - s \in Nat /\ s + (d - s) = d
        BY <1>6, <3>8
      <4>2. Pos(s + (d - s)) = Pos(s) + LeafSpan * (d - s) /\ LeafSpan * (d - s) \in Nat
            /\ Pos(s) \in Nat
        BY <1>1, <3>8, <4>1, PosFacts
      <4> QED BY <1>1, <2>2, <3>8, <4>1, <4>2
    <3>10. stack'.nodes[k] = PendingNode(c, k)
      <4>1. Pos(s) \in Nat
        BY <1>1, <3>8, PosFacts
      <4>2. s = Start(c, k) + Pow[k]
        BY <3>5
      <4> QED BY <1>1, <3>5, <3>6, <3>7, <3>9, <4>1, <4>2 DEF PendingNode
    <3>11. Pos(c - Pow[k]) < end
      <4> DEFINE x == c - Pow[k]
                 y == Pow[k] - Pow[level]
      <4>1. x \in Nat /\ y \in Nat /\ x + y = d
        <5>1. Pow[level] <= Pow[k]
          BY <1>3, <2>4, <3>1, PowFacts DEF Slots
        <5> QED BY <1>3, <1>6, <3>8, <5>1
      <4>2. Pos(x + y) = Pos(x) + LeafSpan * y /\ LeafSpan * y \in Nat /\ Pos(x) \in Nat
        BY <1>1, <4>1, PosFacts
      <4> QED BY <1>1, <2>2, <4>1, <4>2
    <3> QED BY <3>10, <3>11
  <2> QED BY <2>1, <2>3, <2>4, <1>3 DEF Slots
<1>8. RestInv'
  <2>1. end <= Pos(c) /\ c # 0
    BY <1>1, <1>3 DEF PushInv
  <2> QED
    BY <1>2, <1>4, <1>7, <2>1 DEF RestInv, Pos, PendingNode, Start
<1>9. FoldedRoot'
  BY <1>2, <1>4 DEF Inv, FoldedRoot
<1> QED
  BY <1>2, <1>5, <1>8, <1>9 DEF Inv, PendingSubtrees

(* At rest, a pending subtree with payload after it is complete. *)
LEMMA PendingComplete ==
    ASSUME TypeOK, RestInv, NEW k \in Slots, Bit(stack.count, k) = 1,
           Pos(stack.count - (stack.count % Pow[k])) < end
    PROVE  /\ Start(stack.count, k) \in Nat
           /\ Pos(Start(stack.count, k)) \in Nat
           /\ Pos(stack.count - (stack.count % Pow[k])) = Pos(Start(stack.count, k)) + Span(k)
           /\ stack.nodes[k] = Extent(k + 1, Pos(Start(stack.count, k)),
                                      Pos(Start(stack.count, k)) + Span(k))
           /\ Pos(Start(stack.count, k)) < end
PROOF
<1> DEFINE n == stack.count
           s == Start(n, k)
<1>1. n \in Nat /\ origin \in Nat /\ end \in Nat
  BY StackAssumption DEF TypeOK
<1>2. Pow[k] \in Nat \ {0}
  BY PowDouble
<1>3. s \in Nat /\ s + Pow[k] = n - (n % Pow[k])
  BY <1>1, StartFacts
<1>4. stack.nodes[k] = PendingNode(n, k)
  BY DEF RestInv
<1> HIDE DEF n
<1>5. /\ Pos(s) \in Nat /\ Pos(s + Pow[k]) = Pos(s) + Span(k)
      /\ Pos(s) < Pos(s + Pow[k]) /\ Pos(s + Pow[k]) \in Nat
  <2> HIDE DEF s
  <2>1. Pow[k] > 0 /\ Pow[k] \in Nat /\ s + Pow[k] \in Nat
    BY <1>2, <1>3
  <2> QED BY <1>1, <1>3, <2>1, PosFacts DEF Span
<1>6. Pos(s + Pow[k]) < end
  BY <1>3 DEF n
<1>7. stack.nodes[k] = Extent(k + 1, Pos(s), Pos(s) + Span(k))
  BY <1>1, <1>4, <1>5, <1>6 DEF PendingNode
<1> QED
  BY <1>1, <1>3, <1>5, <1>6, <1>7 DEF n

(* A count of one bit: the pending node is the root. *)
LEMMA FoldWholeRoot ==
    ASSUME TypeOK, RestInv, NEW t \in Slots, stack.count = Pow[t]
    PROVE  /\ IsTop(stack.count, t)
           /\ stack.nodes[t] = Extent(t + 1, origin, end)
PROOF
<1> DEFINE n == stack.count
<1>1. origin \in Nat /\ end \in Nat /\ n \in Nat /\ n = Pow[t]
  BY StackAssumption DEF TypeOK
<1>2. /\ Pow[t] \in Nat \ {0} /\ Pow[t + 1] = 2 * Pow[t]
      /\ t \in 0 .. MAX_LEVEL /\ t + 1 \in 0 .. MAX_LEVEL
  BY PowDouble
<1>3. IsTop(n, t)
  BY <1>1, <1>2 DEF IsTop
<1>4. Bit(n, t) = 1 /\ n % Pow[t + 1] = n
  BY <1>1, <1>3, TopFacts
<1>5. Start(n, t) = 0 /\ Start(n, t) + Pow[t] = n
  BY <1>1, <1>2, <1>4 DEF Start
<1>6. Pos(0) = origin
  BY <1>1, TreeAssumption DEF Pos
<1>7. stack.nodes[t] = PendingNode(n, t)
  BY <1>1, <1>4 DEF RestInv
<1>8. end <= Pos(n) /\ Pos(n) \in Nat
  BY <1>1, PosFacts DEF RestInv
<1> QED
  BY <1>1, <1>3, <1>5, <1>6, <1>7, <1>8 DEF PendingNode

LEMMA FoldWholeInv ==
    ASSUME Inv, NEW t \in Slots, FoldWhole(t)
    PROVE  Inv'
PROOF
<1> DEFINE n == stack.count
<1>1. /\ origin \in Nat /\ end \in Nat /\ n \in Nat /\ pc = "idle"
      /\ RestInv /\ TypeOK /\ n = Pow[t]
      /\ result' = [height |-> t + 1, root |-> stack.nodes[t]]
      /\ UNCHANGED <<stack, pc, level, node, top, origin, end>>
  BY StackAssumption DEF Inv, TypeOK, FoldWhole, PendingSubtrees
<1>2. /\ Pow[t] \in Nat \ {0} /\ Pow[t + 1] = 2 * Pow[t]
      /\ t \in 0 .. MAX_LEVEL /\ t + 1 \in 0 .. MAX_LEVEL
  BY PowDouble
<1>8. result' = [height |-> t + 1, root |-> Extent(t + 1, origin, end)]
  BY <1>1, FoldWholeRoot
<1>9. TypeOK'
  BY <1>1, <1>2, <1>8 DEF TypeOK, Node, Extent
<1>10. FoldedRoot'
  <2>1. t + 1 \in 1 .. MAX_LEVEL + 1 /\ (t + 1) - 1 = t
    BY <1>2, TreeAssumption
  <2>2. t + 1 > 1 => Pow[t + 1 - 2] < n
    <3>1. SUFFICES ASSUME t > 0 PROVE Pow[t + 1 - 2] < n
      BY <1>2
    <3>2. t - 1 \in Slots /\ t + 1 - 2 = t - 1 /\ (t - 1) + 1 = t
      BY <3>1, TreeAssumption DEF Slots
    <3> QED BY <1>1, <3>2, PowDouble
  <2> QED BY <1>1, <1>2, <1>8, <2>1, <2>2 DEF FoldedRoot
<1> QED
  BY <1>1, <1>9, <1>10 DEF Inv, PendingSubtrees, RestInv, Pos, PendingNode, Start

LEMMA BeginFoldInv ==
    ASSUME Inv, NEW t \in Slots, NEW low \in Slots, BeginFold(t, low)
    PROVE  Inv'
PROOF
<1> DEFINE n == stack.count
<1>1. /\ origin \in Nat /\ end \in Nat /\ n \in Nat /\ pc = "idle"
      /\ RestInv /\ TypeOK
      /\ IsTop(n, t) /\ n # Pow[t]
      /\ n % Pow[low] = 0 /\ Bit(n, low) = 1
      /\ top' = t /\ level' = low + 1 /\ pc' = "fold"
      /\ node' = HashPair(stack.nodes[low], Zero(low + 1))
      /\ UNCHANGED <<stack, result, origin, end>>
  BY StackAssumption DEF Inv, TypeOK, BeginFold, PendingSubtrees, IsLowest
<1>2. /\ Pow[low] \in Nat \ {0} /\ Pow[low + 1] = 2 * Pow[low]
      /\ low \in 0 .. MAX_LEVEL /\ low + 1 \in 0 .. MAX_LEVEL
      /\ t \in 0 .. MAX_LEVEL /\ t + 1 \in 0 .. MAX_LEVEL
      /\ Pow[t] \in Nat /\ Pow[t + 1] \in Nat
  BY PowDouble
<1>3. low < t
  <2>1. low # t
    <3>1. n % Pow[t] = n - Pow[t]
      BY <1>1, TopFacts
    <3> QED BY <1>1, <1>2, <3>1
  <2>2. ~ (t < low)
    <3>1. SUFFICES ASSUME t < low PROVE FALSE
      OBVIOUS
    <3>2. Pow[low] <= n
      BY <1>1, StartFacts
    <3>3. low \in t + 1 .. MAX_LEVEL
      BY <1>2, <3>1
    <3>4. Pow[t + 1] <= Pow[low]
      BY <1>2, <3>3, PowFacts
    <3> QED BY <1>1, <1>2, <3>2, <3>4 DEF IsTop
  <2> QED BY <1>2, <2>1, <2>2
<1>4. /\ n % Pow[low + 1] = Pow[low]
      /\ Start(n, low) = n - Pow[low] /\ Start(n, low) + Pow[low] = n
  <2>1. n % Pow[low + 1] = (n % Pow[low]) + (IF Bit(n, low) = 1 THEN Pow[low] ELSE 0)
    BY <1>1, BitSplit
  <2> QED BY <1>1, <1>2, <2>1 DEF Start
<1>5. /\ stack.nodes[low] = Extent(low + 1, Pos(n - Pow[low]), end)
      /\ Pos(n - Pow[low]) < end /\ Pos(n - Pow[low]) \in Nat
  <2>1. stack.nodes[low] = PendingNode(n, low) /\ Pos(n - Pow[low]) < end
    BY <1>1 DEF RestInv
  <2>2. end <= Pos(n) /\ Pos(n) \in Nat
    BY <1>1, PosFacts DEF RestInv
  <2>3. n - Pow[low] \in Nat
    BY <1>1, StartFacts, <1>4
  <2>4. Pos(n - Pow[low]) \in Nat
    BY <1>1, <2>3, PosFacts
  <2> QED BY <1>1, <1>4, <2>1, <2>2, <2>4 DEF PendingNode
<1>6. node' = Extent(low + 2, Pos(n - Pow[low]), end)
  <2>1. low + 1 \in Int /\ (low + 1) + 1 = low + 2
    BY <1>2
  <2> QED BY <1>1, <1>5, <2>1, JoinZero
<1>7. TypeOK'
  BY <1>1, <1>2, <1>5, <1>6 DEF TypeOK, Node, Extent
<1>8. FoldInv'
  <2>1. low + 1 \in 1 .. t /\ low + 1 + 1 = low + 2
    BY <1>2, <1>3
  <2> QED
    BY <1>1, <1>2, <1>4, <1>5, <1>6, <2>1 DEF FoldInv, Pos, IsTop
<1> QED
  BY <1>1, <1>7, <1>8 DEF Inv, PendingSubtrees, RestInv, FoldedRoot, Pos, PendingNode, Start

LEMMA FoldUpInv ==
    ASSUME Inv, FoldUp
    PROVE  Inv'
PROOF
<1> DEFINE n == stack.count
           m == n % Pow[level]
<1>1. /\ origin \in Nat /\ end \in Nat /\ n \in Nat /\ pc = "fold"
      /\ RestInv /\ TypeOK /\ FoldInv /\ top \in Slots /\ level < top
      /\ node' = FoldLevel(stack, level, node) /\ level' = level + 1
      /\ UNCHANGED <<stack, pc, top, result, origin, end>>
  BY StackAssumption DEF Inv, TypeOK, FoldUp, PendingSubtrees
<1>2. level \in Slots /\ level \in Nat /\ level + 1 \in 1 .. top
  <2>1. level \in 1 .. top /\ top \in 0 .. MAX_LEVEL - 1
    BY <1>1 DEF FoldInv, Slots
  <2> QED BY <1>1, <2>1, TreeAssumption DEF Slots
<1>3. Pow[level] \in Nat \ {0} /\ Pow[level + 1] \in Nat \ {0}
  BY <1>2, PowDouble
<1>4. /\ m \in Nat /\ m # 0
      /\ n % Pow[level + 1] = m + (IF Bit(n, level) = 1 THEN Pow[level] ELSE 0)
      /\ n % Pow[level + 1] <= n
      /\ Bit(n, level) \in {0, 1}
  BY <1>1, <1>2, BitSplit DEF FoldInv
<1>5. Pos(n - m) < end /\ node = Extent(level + 1, Pos(n - m), end)
  BY <1>1 DEF FoldInv
<1>6. /\ node' = Extent(level + 2, Pos(n - (n % Pow[level + 1])), end)
      /\ Pos(n - (n % Pow[level + 1])) < end
      /\ Pos(n - (n % Pow[level + 1])) \in Nat
      /\ n % Pow[level + 1] # 0
  <2>1. CASE Bit(n, level) = 1
    <3> DEFINE s == Start(n, level)
    <3>1. /\ Pos(s) \in Nat /\ Pos(n - m) = Pos(s) + Span(level) /\ Pos(s) < end
          /\ stack.nodes[level] = Extent(level + 1, Pos(s), Pos(s) + Span(level))
      BY <1>1, <1>2, <1>5, <2>1, PendingComplete
    <3>2. HashPair(stack.nodes[level], node) = Extent(level + 2, Pos(s), end)
      <4> HIDE DEF s, m
      <4> QED BY <1>1, <1>2, <1>5, <3>1, JoinComplete
    <3>3. s = n - (n % Pow[level + 1])
      BY DEF Start
    <3>4. n % Pow[level + 1] # 0
      BY <1>3, <1>4, <2>1
    <3> QED BY <1>1, <2>1, <3>1, <3>2, <3>3, <3>4 DEF FoldLevel
  <2>2. CASE Bit(n, level) = 0
    <3>1. n % Pow[level + 1] = m
      BY <1>4, <2>2
    <3>2. n - m \in Nat
      BY <1>1, <1>4, <3>1
    <3>3. Pos(n - m) \in Nat
      BY <1>1, <3>2, PosFacts
    <3>4. node' = HashPair(Extent(level + 1, Pos(n - m), end), Zero(level + 1))
      BY <1>1, <1>5, <2>2 DEF FoldLevel
    <3>5. node' = Extent(level + 2, Pos(n - m), end)
      <4>1. level + 1 \in Int /\ (level + 1) + 1 = level + 2
        BY <1>2
      <4> HIDE DEF m
      <4> QED BY <1>1, <1>5, <3>3, <3>4, <4>1, JoinZero
    <3> QED BY <1>4, <1>5, <3>1, <3>3, <3>5
  <2> QED BY <1>4, <2>1, <2>2
<1>7. TypeOK'
  BY <1>1, <1>2, <1>6 DEF TypeOK, Node, Extent
<1>8. FoldInv'
  <2>1. level + 1 + 1 = level + 2
    BY <1>2
  <2> QED BY <1>1, <1>2, <1>6, <2>1 DEF FoldInv, Pos, IsTop
<1> QED
  BY <1>1, <1>7, <1>8 DEF Inv, PendingSubtrees, RestInv, FoldedRoot, Pos, PendingNode, Start

(* The highest pending subtree and acc make the root, of the least height. *)
LEMMA EndFoldRoot ==
    ASSUME TypeOK, RestInv, FoldInv, level = top
    PROVE  /\ Pow[top] < stack.count /\ stack.count <= Pow[top + 1]
           /\ HashPair(stack.nodes[top], node) = Extent(top + 2, origin, end)
PROOF
<1> DEFINE n == stack.count
           m == n % Pow[level]
<1>1. /\ origin \in Nat /\ end \in Nat /\ n \in Nat /\ top \in Slots
      /\ IsTop(n, top)
  BY StackAssumption DEF TypeOK, FoldInv
<1>2. /\ level \in Slots /\ Pow[level] \in Nat \ {0} /\ Pow[level + 1] \in Nat \ {0}
      /\ level + 1 \in 0 .. MAX_LEVEL /\ level \in 0 .. MAX_LEVEL
  BY <1>1, PowDouble
<1>3. Bit(n, level) = 1 /\ n % Pow[level + 1] = n /\ m = n - Pow[level]
  BY <1>1, TopFacts
<1>4. Start(n, level) = 0 /\ Pos(0) = origin
  <2>1. LeafSpan * 0 = 0
    BY TreeAssumption
  <2> HIDE DEF n
  <2>2. Start(n, level) = 0
    BY <1>1, <1>3 DEF Start
  <2> QED BY <1>1, <2>1, <2>2 DEF Pos
<1>5. Pos(n - m) < end /\ node = Extent(level + 1, Pos(n - m), end) /\ m # 0
  BY DEF FoldInv
<1>6. /\ Pos(n - m) = origin + Span(level)
      /\ stack.nodes[level] = Extent(level + 1, origin, origin + Span(level))
  BY <1>1, <1>2, <1>3, <1>4, <1>5, PendingComplete
<1>7. HashPair(stack.nodes[top], node) = Extent(top + 2, origin, end)
  <2> HIDE DEF m
  <2> QED BY <1>1, <1>2, <1>5, <1>6, JoinComplete
<1>8. Pow[top] < n /\ n <= Pow[top + 1]
  BY <1>1, <1>2, <1>3, <1>5 DEF IsTop
<1> QED
  BY <1>7, <1>8

LEMMA EndFoldInv ==
    ASSUME Inv, EndFold
    PROVE  Inv'
PROOF
<1> DEFINE n == stack.count
<1>1. /\ origin \in Nat /\ end \in Nat /\ n \in Nat /\ pc = "fold"
      /\ RestInv /\ TypeOK /\ FoldInv /\ top \in Slots /\ level = top
      /\ result' = [height |-> top + 2, root |-> HashPair(stack.nodes[top], node)]
      /\ pc' = "idle" /\ level' = 0 /\ node' = Junk /\ top' = 0
      /\ UNCHANGED <<stack, origin, end>>
  BY StackAssumption DEF Inv, TypeOK, EndFold, PendingSubtrees
<1>2. /\ level \in Slots /\ level + 1 \in 0 .. MAX_LEVEL /\ level \in 0 .. MAX_LEVEL
  BY <1>1, PowDouble
<1>7. result' = [height |-> top + 2, root |-> Extent(top + 2, origin, end)]
  BY <1>1, EndFoldRoot
<1>8. TypeOK'
  <2>1. 0 \in Slots
    BY TreeAssumption DEF Slots
  <2> QED BY <1>1, <1>2, <1>7, <2>1 DEF TypeOK, Node, Extent, Junk
<1>9. FoldedRoot'
  <2>1. /\ top + 2 \in 1 .. MAX_LEVEL + 1 /\ (top + 2) - 1 = top + 1
        /\ (top + 2) - 2 = top
    BY <1>1, <1>2, TreeAssumption
  <2>2. Pow[top] < n /\ n <= Pow[top + 1]
    BY <1>1, EndFoldRoot
  <2> QED BY <1>1, <1>7, <2>1, <2>2 DEF FoldedRoot
<1> QED
  BY <1>1, <1>8, <1>9 DEF Inv, PendingSubtrees, RestInv, Pos, PendingNode, Start

LEMMA ResetInv ==
    ASSUME Inv, NEW skip \in Nat, Reset(skip)
    PROVE  Inv'
PROOF
<1>1. /\ stack \in [nodes : StackNodes, count : 0 .. MaxLeaves]
      /\ origin \in Nat /\ end \in Nat /\ pc = "idle" /\ TypeOK
      /\ stack' = [stack EXCEPT !.count = 0] /\ result' = NoResult
      /\ origin' = end + skip /\ end' = end + skip
      /\ UNCHANGED <<pc, level, node, top>>
  BY DEF Inv, TypeOK, Reset
<1>2. /\ stack'.count = 0
      /\ stack' \in [nodes : StackNodes, count : 0 .. MaxLeaves]
  BY <1>1, StackAssumption
<1>3. TypeOK'
  BY <1>1, <1>2 DEF TypeOK, NoResult, Node, Junk, Extent
<1>4. \A k \in Slots : Bit(0, k) = 0
  <2>1. SUFFICES ASSUME NEW k \in Slots PROVE Bit(0, k) = 0
    OBVIOUS
  <2>2. 0 \div Pow[k] = 0
    <3>1. Pow[k] \in Nat \ {0} /\ Pow[k] * 0 + 0 = 0
      BY PowDouble
    <3> QED BY <3>1, DivModUnique
  <2> QED BY <2>2 DEF Bit
<1>5. RestInv'
  <2>1. Pos(0)' = end'
    BY <1>1, TreeAssumption DEF Pos
  <2> QED BY <1>1, <1>2, <1>4, <2>1 DEF RestInv, Pos
<1> QED
  BY <1>1, <1>3, <1>5 DEF Inv, PendingSubtrees, FoldedRoot

LEMMA NextInv ==
    ASSUME Inv, [Next]_vars
    PROVE  Inv'
PROOF
<1>1. CASE UNCHANGED vars
  BY <1>1 DEF vars, Inv, TypeOK, PendingSubtrees, RestInv, PushInv, FoldInv,
             FoldedRoot, Pos, PendingNode, Start
<1>2. ASSUME NEW L \in Slots, NEW e \in end + 1 .. end + Span(L), BeginPush(L, e)
      PROVE  Inv'
  <2>1. e \in Int
    OBVIOUS
  <2> QED BY <1>2, <2>1, BeginPushInv
<1>3. ASSUME NEW t \in Slots, FoldWhole(t) PROVE Inv'
  BY <1>3, FoldWholeInv
<1>4. ASSUME NEW t \in Slots, NEW low \in Slots, BeginFold(t, low) PROVE Inv'
  BY <1>4, BeginFoldInv
<1>5. CASE PushStep
  BY <1>5, MergeInv, StoreInv DEF PushStep
<1>6. CASE FoldStep
  BY <1>6, FoldUpInv, EndFoldInv DEF FoldStep
<1>7. ASSUME NEW skip \in 0 .. MaxSkip, Reset(skip) PROVE Inv'
  <2>1. skip \in Nat
    BY StackAssumption
  <2> QED BY <1>7, <2>1, ResetInv
<1> QED
  BY <1>1, <1>2, <1>3, <1>4, <1>5, <1>6, <1>7 DEF Next

-----------------------------------------------------------------------------
(***************************************************************************)
(* The stack of tree.rs keeps its types, its pending subtrees and the      *)
(* root it folds to, whatever its sizes.                                   *)
(***************************************************************************)
THEOREM StackInductive == Spec => []Inv
PROOF
<1>1. Init => Inv
  BY InitInv
<1>2. Inv /\ [Next]_vars => Inv'
  BY NextInv
<1> QED
  BY <1>1, <1>2, PTL DEF Spec

(* Every state has the types TypeOK gives (tree.rs:84-90). *)
THEOREM StackTypeOK == Spec => []TypeOK
PROOF
<1>1. Inv => TypeOK
  BY DEF Inv
<1> QED
  BY <1>1, StackInductive, PTL

(* A set bit of count is a complete, in-order subtree (tree.rs:81-83). *)
THEOREM StackPending == Spec => []PendingSubtrees
PROOF
<1>1. Inv => PendingSubtrees
  BY DEF Inv
<1> QED
  BY <1>1, StackInductive, PTL

(* fold() returns the root over exactly the leaves pushed, at the least    *)
(* height that holds them (tree.rs:122-143).                               *)
THEOREM StackFoldedRoot == Spec => []FoldedRoot
PROOF
<1>1. Inv => FoldedRoot
  BY DEF Inv
<1> QED
  BY <1>1, StackInductive, PTL

(* push_at and fold index their tables in range (tree.rs:111, 132, 142). *)
THEOREM StackNoIndexPanic == Spec => []NoIndexPanic
PROOF
<1>1. Inv => NoIndexPanic
  <2>1. ASSUME Inv, pc = "push" PROVE level \in Slots
    BY <2>1 DEF Inv, PendingSubtrees, PushInv
  <2>2. ASSUME Inv, pc = "fold" PROVE level \in Slots
    <3>1. level \in 1 .. top /\ top \in Slots
      BY <2>2 DEF Inv, TypeOK, PendingSubtrees, FoldInv
    <3> QED BY <3>1, TreeAssumption DEF Slots
  <2> QED BY <2>1, <2>2 DEF NoIndexPanic
<1> QED
  BY <1>1, StackInductive, PTL

(* What a call of push_at or fold has left: a level of the table a step. *)
CallStepsLeft == MAX_LEVEL - level

(* A call under way takes a step that leaves it with fewer, until it is    *)
(* back: the carry loop and the fold loop cannot go on for ever            *)
(* (tree.rs:110, 134).                                                     *)
THEOREM StackCallsEnd ==
    Spec => [][pc # "idle" => /\ CallStepsLeft \in Nat \ {0}
                              /\ pc' = "idle" \/ (pc' = pc /\ CallStepsLeft' < CallStepsLeft)]_vars
PROOF
<1> DEFINE Lowers == pc # "idle" => /\ CallStepsLeft \in Nat \ {0}
                                    /\ pc' = "idle" \/ (pc' = pc /\ CallStepsLeft' < CallStepsLeft)
<1>1. Inv /\ NoIndexPanic /\ [Next]_vars => [Lowers]_vars
  <2> SUFFICES ASSUME Inv, NoIndexPanic, Next, pc # "idle"
               PROVE  /\ CallStepsLeft \in Nat \ {0}
                      /\ pc' = "idle" \/ (pc' = pc /\ CallStepsLeft' < CallStepsLeft)
    OBVIOUS
  <2>1. pc \in {"push", "fold"} /\ level \in Slots
    BY DEF Inv, TypeOK, NoIndexPanic
  <2>2. MAX_LEVEL \in Nat /\ level \in Nat /\ level < MAX_LEVEL
    BY <2>1, TreeAssumption DEF Slots
  <2>3. PushStep \/ FoldStep
    BY DEF Next, BeginPush, FoldWhole, BeginFold, Reset
  <2>4. pc' = "idle" \/ (pc' = pc /\ level' = level + 1)
    BY <2>3 DEF PushStep, FoldStep, Merge, Store, FoldUp, EndFold
  <2> QED BY <2>2, <2>4 DEF CallStepsLeft
<1> QED
  BY <1>1, StackInductive, StackNoIndexPanic, PTL DEF Spec
=============================================================================
