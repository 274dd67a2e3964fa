----------------------------- MODULE SubtreeStack -----------------------------
(***************************************************************************)
(* struct Stack of rs/commp/src/tree.rs on its own: push_at() and fold(),  *)
(* one loop iteration a step, used as their comments say it may be used.   *)
(* The leaves pushed since the last reset are the payload nibbles          *)
(* origin .. end-1; the last subtree may be padded with zeros, which is    *)
(* what the hasher's build() does on its copy before it folds.             *)
(***************************************************************************)
EXTENDS MerkleTree

CONSTANTS
    MaxLeaves,  \* most leaves one payload may reach
    MaxOrigin,  \* bound: a reset is explored while origin <= MaxOrigin
    MaxSkip     \* bound: payload not yet pushed that a reset drops

ASSUME StackAssumption ==
    /\ MaxLeaves \in Nat \ {0}
    /\ MaxLeaves < Pow[MAX_LEVEL]
    /\ MaxOrigin \in Nat /\ MaxSkip \in Nat

VARIABLES
    stack,   \* [nodes, count]
    pc,      \* "idle", "push" or "fold"; the locals below are cleared at "idle"
    level,   \* push_at: level of the node in hand; fold: level of acc
    node,    \* push_at: the node in hand; fold: acc
    top,     \* fold: the highest pending level
    result,  \* what the last fold() returned, [height, root]
    origin,  \* ghost: first nibble of this payload
    end      \* ghost: one past the last nibble pushed

vars == <<stack, pc, level, node, top, result, origin, end>>

NoResult == [height |-> 0, root |-> Junk]

Pos(leaf) == origin + LeafSpan * leaf

Init ==
    /\ stack = NewStack
    /\ pc = "idle"
    /\ level = 0 /\ node = Junk /\ top = 0
    /\ result = NoResult
    /\ origin = 0 /\ end = 0

(* Mutant: push_at counts twice the leaves of the subtree. *)
BeginPushDouble(L, e) ==
    /\ pc = "idle"
    /\ end = Pos(stack.count)
    /\ stack.count % Pow[L] = 0
    /\ stack.count + Pow[L] <= MaxLeaves
    /\ end < e /\ e <= Pos(stack.count + Pow[L])
    /\ stack' = [stack EXCEPT !.count = @ + Pow[L + 1]]
    /\ node' = Extent(L + 1, end, e)
    /\ level' = L
    /\ end' = e
    /\ pc' = "push"
    /\ result' = NoResult
    /\ UNCHANGED <<top, origin>>

(* The caller's side of push_at: `count` is a multiple of 2^L, everything  *)
(* before is complete, and the new subtree holds nibbles up to e.          *)
BeginPush(L, e) ==
    /\ pc = "idle"
    /\ end = Pos(stack.count)
    /\ stack.count % Pow[L] = 0
    /\ stack.count + Pow[L] <= MaxLeaves
    /\ end < e /\ e <= Pos(stack.count + Pow[L])
    /\ stack' = [stack EXCEPT !.count = @ + Pow[L]]
    /\ node' = Extent(L + 1, end, e)
    /\ level' = L
    /\ end' = e
    /\ pc' = "push"
    /\ result' = NoResult
    /\ UNCHANGED <<top, origin>>

(* Mutants of the carry loop: the children swapped, the bit not tested, no *)
(* advance.                                                                *)
MergeSwapped ==
    /\ pc = "push"
    /\ Bit(stack.count, level) = 0
    /\ node' = HashPair(node, stack.nodes[level])
    /\ level' = level + 1
    /\ UNCHANGED <<stack, pc, top, result, origin, end>>

MergeUntested ==
    /\ pc = "push"
    /\ node' = HashPair(stack.nodes[level], node)
    /\ level' = level + 1
    /\ UNCHANGED <<stack, pc, top, result, origin, end>>

MergeSameLevel ==
    /\ pc = "push"
    /\ Bit(stack.count, level) = 0
    /\ node' = HashPair(stack.nodes[level], node)
    /\ UNCHANGED <<stack, pc, level, top, result, origin, end>>

Merge ==
    /\ pc = "push"
    /\ Bit(stack.count, level) = 0
    /\ node' = HashPair(stack.nodes[level], node)
    /\ level' = level + 1
    /\ UNCHANGED <<stack, pc, top, result, origin, end>>

Store ==
    /\ pc = "push"
    /\ Bit(stack.count, level) = 1
    /\ stack' = [stack EXCEPT !.nodes[level] = node]
    /\ pc' = "idle"
    /\ level' = 0 /\ node' = Junk
    /\ UNCHANGED <<top, result, origin, end>>

(* fold() of a power of two: the pending node is the root. *)
FoldWhole(t) ==
    /\ pc = "idle"
    /\ stack.count = Pow[t]
    /\ result' = [height |-> t + 1, root |-> stack.nodes[t]]
    /\ UNCHANGED <<stack, pc, level, node, top, origin, end>>

BeginFold(t, low) ==
    /\ pc = "idle"
    /\ IsTop(stack.count, t) /\ stack.count # Pow[t]
    /\ IsLowest(stack.count, low)
    /\ top' = t
    /\ level' = low + 1
    /\ node' = HashPair(stack.nodes[low], Zero(low + 1))
    /\ pc' = "fold"
    /\ UNCHANGED <<stack, result, origin, end>>

FoldUp ==
    /\ pc = "fold" /\ level < top
    /\ node' = FoldLevel(stack, level, node)
    /\ level' = level + 1
    /\ UNCHANGED <<stack, pc, top, result, origin, end>>

EndFold ==
    /\ pc = "fold" /\ level = top
    /\ result' = [height |-> top + 2, root |-> HashPair(stack.nodes[top], node)]
    /\ pc' = "idle"
    /\ level' = 0 /\ node' = Junk /\ top' = 0
    /\ UNCHANGED <<stack, origin, end>>

(* CommPHasher::reset clears the count and leaves the nodes; the next      *)
(* payload starts after what the hasher had not pushed yet.                *)
Reset(skip) ==
    /\ pc = "idle"
    /\ origin <= MaxOrigin
    /\ stack' = [stack EXCEPT !.count = 0]
    /\ origin' = end + skip /\ end' = end + skip
    /\ result' = NoResult
    /\ UNCHANGED <<pc, level, node, top>>

PushStep == Merge \/ Store
FoldStep == FoldUp \/ EndFold

Next ==
    \/ \E L \in Slots : \E e \in end + 1 .. end + Span(L) : BeginPush(L, e)
    \/ \E t \in Slots : FoldWhole(t)
    \/ \E t, low \in Slots : BeginFold(t, low)
    \/ PushStep
    \/ FoldStep
    \/ \E skip \in 0 .. MaxSkip : Reset(skip)

(* push_at and fold are sequential code: once called they run to the end. *)
Fairness == WF_vars(PushStep) /\ WF_vars(FoldStep)

Spec == Init /\ [][Next]_vars /\ Fairness

-----------------------------------------------------------------------------
TypeOK ==
    /\ stack \in [nodes : StackNodes, count : 0 .. MaxLeaves]
    /\ pc \in {"idle", "push", "fold"}
    /\ level \in Nat /\ top \in Slots
    /\ node \in Node
    /\ result \in [height : Nat, root : Node]
    /\ origin \in Nat /\ end \in Nat

(***************************************************************************)
(* The node pending at level k of a counter at c: the subtree of 2^k       *)
(* leaves that ends where the lower bits of c begin, cut at `end`.         *)
(***************************************************************************)
Start(c, k) == c - (c % Pow[k + 1])

PendingNode(c, k) ==
    Extent(k + 1, Pos(Start(c, k)),
           IF end < Pos(Start(c, k) + Pow[k]) THEN end
                                              ELSE Pos(Start(c, k) + Pow[k]))

(* Between calls every set bit of count has its subtree, and only the last *)
(* one may be cut.                                                          *)
RestInv ==
    /\ end <= Pos(stack.count)
    /\ \A k \in Slots : Bit(stack.count, k) = 1 =>
          /\ Pos(stack.count - Pow[k]) < end
          /\ stack.nodes[k] = PendingNode(stack.count, k)
    /\ stack.count = 0 => end = origin

(* Inside push_at the node in hand covers everything since d, and the bits  *)
(* of d from `level` up have complete subtrees.                             *)
PushInv ==
    LET d == stack.count - Pow[level]
    IN  /\ level \in Slots
        /\ Pow[level] <= stack.count
        /\ stack.count % Pow[level] = 0
        /\ Pos(d) < end /\ end <= Pos(stack.count)
        /\ node = Extent(level + 1, Pos(d), end)
        /\ \A k \in Slots : k >= level /\ Bit(d, k) = 1 =>
              stack.nodes[k] = Extent(k + 1, Pos(Start(d, k)),
                                      Pos(Start(d, k) + Pow[k]))

(* Inside fold, acc covers what the bits below `level` hold. *)
FoldInv ==
    /\ IsTop(stack.count, top)
    /\ level \in 1 .. top
    /\ stack.count % Pow[level] # 0
    /\ Pos(stack.count - (stack.count % Pow[level])) < end
    /\ node = Extent(level + 1, Pos(stack.count - (stack.count % Pow[level])), end)

(***************************************************************************)
(* What a reader of the stack relies on (tree.rs:81-83): a set bit of      *)
(* count means a complete, in-order subtree, whatever pushes, merges and   *)
(* resets came before; during a call, the loop's own state says the rest.  *)
(***************************************************************************)
PendingSubtrees ==
    /\ pc # "push" => RestInv
    /\ pc = "push" => PushInv
    /\ pc = "fold" => FoldInv

(***************************************************************************)
(* fold() returns the root over exactly the leaves pushed since the last   *)
(* reset, at the least height that holds them (tree.rs:117-121).           *)
(***************************************************************************)
FoldedRoot ==
    result # NoResult =>
        /\ result.height \in 1 .. MAX_LEVEL + 1
        /\ stack.count <= Pow[result.height - 1]
        /\ result.height > 1 => Pow[result.height - 2] < stack.count
        /\ result.root = Extent(result.height, origin, end)

(* Every index push_at and fold use is inside its table of MAX_LEVEL        *)
(* entries (tree.rs:111, 132, 142): neither can panic.                     *)
NoIndexPanic ==
    /\ pc = "push" => level \in Slots
    /\ pc = "fold" => level \in Slots

(* The carry loop and the fold loop end (tree.rs:110, 134). *)
Returns == pc # "idle" ~> pc = "idle"
=============================================================================
