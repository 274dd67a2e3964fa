------------------------------- MODULE JsHasher -------------------------------
(***************************************************************************)
(* The pure JavaScript hasher of packages/commp-js/src: index.js, tree.js, *)
(* zero-comm.js.  Every hasher of the module shares the scratch arrays     *)
(* LEAVES and CONCAT_BUFFER and the zero commitments, which are computed   *)
(* on demand through CONCAT_BUFFER.  A call is synchronous: no other call  *)
(* runs before it returns.                                                 *)
(***************************************************************************)
EXTENDS QuadLeaves

CONSTANTS
    Hashers,        \* live Hasher objects
    NoHasher,       \* no call in progress
    PAYLOAD_LEVEL,  \* MAX_PAYLOAD_SIZE = Q * 2^PAYLOAD_LEVEL (47)
    WriteSizes,     \* bound: lengths a caller may write
    MaxBase         \* bound: resets are explored up to this position

ASSUME JsAssumption ==
    /\ NoHasher \notin Hashers
    /\ PAYLOAD_LEVEL \in Nat /\ PAYLOAD_LEVEL + 2 <= MAX_LEVEL
    /\ WriteSizes \subseteq Nat /\ MaxBase \in Nat

MAX_PAYLOAD_SIZE == Q * Pow[PAYLOAD_LEVEL]

VARIABLES
    (* class Hasher *)
    buffer, offset, bytesWritten,
    stacks,     \* class Stack of each hasher: [nodes, filled, carry]
    (* the callers' view *)
    base,       \* ghost: stream position of the payload's first byte
    outcome,    \* of the last write: "ok" or "RangeError"
    result,     \* the last digest, until the payload changes
    (* module state *)
    LEAVES, CONCAT_BUFFER,
    zeros,      \* ZERO_COMM: the zero nodes computed so far
    (* the call in progress, cleared when it returns *)
    pc,         \* "idle", "push", "carry", "fold" or "hash"
    self,       \* the hasher called
    method,     \* "write" or "digest"
    input, readOffset,
    copy,       \* digest's clone of the stack, or NoStack
    leaf,       \* pushQuad: leaves pushed
    level, lowest, top, acc

hasher == <<buffer, offset, bytesWritten, stacks>>
caller == <<base, outcome, result>>
call == <<pc, self, method, input, readOffset, copy, leaf, level, lowest, top, acc>>
vars == <<hasher, caller, LEAVES, CONCAT_BUFFER, zeros, call>>

NoResult == [padding |-> 0, height |-> 0, root |-> Junk]
EmptyStack == [nodes  |-> [k \in Slots |-> Zero(0)],
               filled |-> [k \in Slots |-> FALSE],
               carry  |-> Zero(0)]
NoStack == <<>>

Init ==
    /\ buffer = [h \in Hashers |-> [i \in 0 .. Q - 1 |-> NoByte]]
    /\ offset = [h \in Hashers |-> 0]
    /\ bytesWritten = [h \in Hashers |-> 0]
    /\ stacks = [h \in Hashers |-> EmptyStack]
    /\ base = [h \in Hashers |-> 0]
    /\ outcome = [h \in Hashers |-> "ok"]
    /\ result = [h \in Hashers |-> NoResult]
    /\ LEAVES = <<Zero(0), Zero(0)>> /\ CONCAT_BUFFER = <<Zero(0), Zero(0)>>
    /\ zeros = <<Zero(0)>>
    /\ pc = "idle" /\ self = NoHasher /\ method = "" /\ copy = NoStack
    /\ input = [first |-> 0, len |-> 0] /\ readOffset = 0
    /\ leaf = 0 /\ level = 0 /\ lowest = 0 /\ top = 0 /\ acc = Junk

-----------------------------------------------------------------------------
(* pushQuad up to its pushes: both leaves are read into LEAVES. *)
ReadQuad(quad) ==
    /\ LEAVES' = <<Leaf(quad, 0), Leaf(quad, 1)>>
    /\ leaf' = 0
    /\ pc' = "push"

Fill(h, from, byte) ==
    [buffer EXCEPT ![h] = [i \in 0 .. Q - 1 |->
        IF from <= i THEN byte + (i - from) ELSE @[i]]]

-----------------------------------------------------------------------------
(* write() *)

WriteRefused(h, len) ==
    /\ pc = "idle"
    /\ bytesWritten[h] + len > MAX_PAYLOAD_SIZE
    /\ outcome' = [outcome EXCEPT ![h] = "RangeError"]
    /\ UNCHANGED <<hasher, base, result, LEAVES, CONCAT_BUFFER, zeros, call>>

WriteNothing(h, len) ==
    /\ pc = "idle"
    /\ bytesWritten[h] + len <= MAX_PAYLOAD_SIZE
    /\ len = 0
    /\ outcome' = [outcome EXCEPT ![h] = "ok"]
    /\ UNCHANGED <<hasher, base, result, LEAVES, CONCAT_BUFFER, zeros, call>>

(* bytesWritten grows when write() returns, with the payload. *)
Accepted(h, len) ==
    /\ bytesWritten' = [bytesWritten EXCEPT ![h] = @ + len]
    /\ outcome' = [outcome EXCEPT ![h] = "ok"]
    /\ result' = [result EXCEPT ![h] = NoResult]

(* Mutant: a completed quad is left in the buffer. *)
WriteFastFull(h, len) ==
    /\ pc = "idle"
    /\ bytesWritten[h] + len <= MAX_PAYLOAD_SIZE
    /\ 0 < len /\ offset[h] + len <= Q
    /\ buffer' = [buffer EXCEPT ![h] = [i \in 0 .. Q - 1 |->
                    IF offset[h] <= i /\ i < offset[h] + len
                    THEN base[h] + bytesWritten[h] + (i - offset[h]) ELSE @[i]]]
    /\ offset' = [offset EXCEPT ![h] = @ + len]
    /\ Accepted(h, len)
    /\ UNCHANGED <<stacks, base, LEAVES, CONCAT_BUFFER, zeros, call>>

WriteFast(h, len) ==
    /\ pc = "idle"
    /\ bytesWritten[h] + len <= MAX_PAYLOAD_SIZE
    /\ 0 < len /\ offset[h] + len < Q
    /\ buffer' = [buffer EXCEPT ![h] = [i \in 0 .. Q - 1 |->
                    IF offset[h] <= i /\ i < offset[h] + len
                    THEN base[h] + bytesWritten[h] + (i - offset[h]) ELSE @[i]]]
    /\ offset' = [offset EXCEPT ![h] = @ + len]
    /\ Accepted(h, len)
    /\ UNCHANGED <<stacks, base, LEAVES, CONCAT_BUFFER, zeros, call>>

WriteBulk(h, len) ==
    /\ pc = "idle"
    /\ bytesWritten[h] + len <= MAX_PAYLOAD_SIZE
    /\ 0 < len /\ offset[h] + len >= Q
    /\ buffer' = Fill(h, offset[h], base[h] + bytesWritten[h])
    /\ ReadQuad(buffer'[h])
    /\ self' = h /\ method' = "write"
    /\ input' = [first |-> base[h] + bytesWritten[h], len |-> len]
    /\ readOffset' = Q - offset[h]
    /\ UNCHANGED <<offset, bytesWritten, stacks, caller, CONCAT_BUFFER, zeros,
                   copy, level, lowest, top, acc>>

EndCall ==
    /\ pc' = "idle" /\ self' = NoHasher /\ method' = "" /\ copy' = NoStack
    /\ input' = [first |-> 0, len |-> 0] /\ readOffset' = 0
    /\ leaf' = 0 /\ level' = 0 /\ lowest' = 0 /\ top' = 0 /\ acc' = Junk

(* The loop over full quads, once both leaves of the last one are pushed. *)
WriteQuad ==
    /\ pc = "push" /\ leaf = 2 /\ method = "write"
    /\ readOffset + Q <= input.len
    /\ ReadQuad([i \in 0 .. Q - 1 |-> input.first + readOffset + i])
    /\ readOffset' = readOffset + Q
    /\ UNCHANGED <<hasher, caller, CONCAT_BUFFER, zeros, self, method, input, copy,
                   level, lowest, top, acc>>

WriteTail ==
    /\ pc = "push" /\ leaf = 2 /\ method = "write"
    /\ readOffset + Q > input.len
    /\ LET remaining == input.len - readOffset
       IN  /\ buffer' = [buffer EXCEPT ![self] = [i \in 0 .. Q - 1 |->
                           IF i < remaining THEN input.first + readOffset + i ELSE @[i]]]
           /\ offset' = [offset EXCEPT ![self] = remaining]
    /\ Accepted(self, input.len)
    /\ EndCall
    /\ UNCHANGED <<stacks, base, LEAVES, CONCAT_BUFFER, zeros>>

-----------------------------------------------------------------------------
(* Stack.push(), on the hasher's stack or on digest's clone. *)

Stack == IF copy = NoStack THEN stacks[self] ELSE copy

SetStack(s) ==
    IF copy = NoStack THEN stacks' = [stacks EXCEPT ![self] = s] /\ UNCHANGED copy
                      ELSE copy' = s /\ UNCHANGED stacks

PushLeaf ==
    /\ pc = "push" /\ leaf < 2
    /\ SetStack([Stack EXCEPT !.carry = LEAVES[leaf + 1]])
    /\ level' = 0
    /\ pc' = "carry"
    /\ UNCHANGED <<buffer, offset, bytesWritten, caller, LEAVES, CONCAT_BUFFER, zeros,
                   self, method, input, readOffset, leaf, lowest, top, acc>>

CarryLoad ==
    /\ pc = "carry"
    /\ Stack.filled[level]
    /\ CONCAT_BUFFER' = <<Stack.nodes[level], Stack.carry>>
    /\ pc' = "hash"
    /\ UNCHANGED <<hasher, caller, LEAVES, zeros, self, method, input, readOffset,
                   copy, leaf, level, lowest, top, acc>>

(* Mutant: a merged slot stays filled. *)
CarryHashKeepsFilled ==
    /\ pc = "hash" /\ leaf < 2
    /\ SetStack([Stack EXCEPT !.carry = HashPair(CONCAT_BUFFER[1], CONCAT_BUFFER[2])])
    /\ level' = level + 1
    /\ pc' = "carry"
    /\ UNCHANGED <<buffer, offset, bytesWritten, caller, LEAVES, CONCAT_BUFFER, zeros,
                   self, method, input, readOffset, leaf, lowest, top, acc>>

CarryHash ==
    /\ pc = "hash" /\ leaf < 2
    /\ SetStack([Stack EXCEPT !.carry = HashPair(CONCAT_BUFFER[1], CONCAT_BUFFER[2]),
                              !.filled[level] = FALSE])
    /\ level' = level + 1
    /\ pc' = "carry"
    /\ UNCHANGED <<buffer, offset, bytesWritten, caller, LEAVES, CONCAT_BUFFER, zeros,
                   self, method, input, readOffset, leaf, lowest, top, acc>>

CarryStore ==
    /\ pc = "carry"
    /\ ~ Stack.filled[level]
    /\ SetStack([Stack EXCEPT !.nodes[level] = Stack.carry, !.filled[level] = TRUE])
    /\ leaf' = leaf + 1
    /\ level' = 0
    /\ pc' = "push"
    /\ UNCHANGED <<buffer, offset, bytesWritten, caller, LEAVES, CONCAT_BUFFER, zeros,
                   self, method, input, readOffset, lowest, top, acc>>

-----------------------------------------------------------------------------
(* digest(): the partial quad, or a zero quad, is pushed on a clone. *)

TailQuad(h) == [i \in 0 .. Q - 1 |-> IF i < offset[h] THEN buffer[h][i] ELSE NoByte]

NeedsTail(h) == offset[h] > 0 \/ bytesWritten[h] = 0

(* Mutant: the tail is pushed on the hasher's own stack. *)
DigestTailInPlace(h) ==
    /\ pc = "idle"
    /\ NeedsTail(h)
    /\ ReadQuad(TailQuad(h))
    /\ self' = h /\ method' = "digest"
    /\ UNCHANGED <<hasher, caller, CONCAT_BUFFER, zeros, input, readOffset, copy,
                   level, lowest, top, acc>>

DigestTail(h) ==
    /\ pc = "idle"
    /\ NeedsTail(h)
    /\ copy' = [stacks[h] EXCEPT !.carry = Zero(0)]
    /\ ReadQuad(TailQuad(h))
    /\ self' = h /\ method' = "digest"
    /\ UNCHANGED <<hasher, caller, CONCAT_BUFFER, zeros, input, readOffset,
                   level, lowest, top, acc>>

(* fold() finds the lowest and highest filled slots. *)
IsLowestFilled(s, k) == s.filled[k] /\ \A j \in 0 .. k - 1 : ~ s.filled[j]
IsTopFilled(s, k) == s.filled[k] /\ \A j \in k + 1 .. MAX_LEVEL - 1 : ~ s.filled[j]

StartFold(s) ==
    \E low, high \in Slots :
        /\ IsLowestFilled(s, low) /\ IsTopFilled(s, high)
        /\ lowest' = low /\ top' = high /\ level' = low
        /\ pc' = "fold"

DigestWhole(h) ==
    /\ pc = "idle"
    /\ ~ NeedsTail(h)
    /\ StartFold(stacks[h])
    /\ self' = h /\ method' = "digest" /\ leaf' = 2
    /\ UNCHANGED <<hasher, caller, LEAVES, CONCAT_BUFFER, zeros, input, readOffset,
                   copy, acc>>

TailPushed ==
    /\ pc = "push" /\ leaf = 2 /\ method = "digest"
    /\ StartFold(copy)
    /\ UNCHANGED <<hasher, caller, LEAVES, CONCAT_BUFFER, zeros, self, method, input,
                   readOffset, copy, leaf, acc>>

(* toPadding: quads doubles from 1 until it holds the payload. *)
ToPadding(size) ==
    LET k == CHOOSE i \in 0 .. MAX_LEVEL :
                /\ size <= Pow[i] * Q
                /\ \A j \in 0 .. i - 1 : Pow[j] * Q < size
    IN  Pow[k] * Q - size

Return(height, root) ==
    /\ result' = [result EXCEPT ![self] =
                    [padding |-> ToPadding(bytesWritten[self]),
                     height |-> height, root |-> root]]
    /\ EndCall
    /\ UNCHANGED <<hasher, base, outcome, LEAVES, CONCAT_BUFFER, zeros>>

FoldWhole ==
    /\ pc = "fold" /\ lowest = top
    /\ Return(top + 1, Stack.nodes[top])

(* The zero node fold pairs with at this level, if it needs one: the        *)
(* argument is evaluated, and ZERO_COMM filled up to it through             *)
(* CONCAT_BUFFER, before hashPairInto loads its own pair.                   *)
NeedsZero == level = lowest \/ ~ Stack.filled[level]

(* Mutant: off by one, a fill is skipped when one level is missing. *)
ZeroMissingLate == NeedsZero /\ Len(zeros) < level + 1

ZeroMissing == NeedsZero /\ Len(zeros) < level + 2

(* The bytes of ZERO_COMM not computed yet are zeros, a level-0 node. *)
ZeroAt(k) == IF k < Len(zeros) THEN zeros[k + 1] ELSE Zero(0)

ZeroFill ==
    /\ pc = "fold" /\ lowest < top
    /\ ZeroMissing
    /\ CONCAT_BUFFER' = <<zeros[Len(zeros)], zeros[Len(zeros)]>>
    /\ zeros' = Append(zeros, HashPair(CONCAT_BUFFER'[1], CONCAT_BUFFER'[2]))
    /\ UNCHANGED <<hasher, caller, LEAVES, call>>

FoldPair ==
    IF level = lowest THEN <<Stack.nodes[level], ZeroAt(level + 1)>>
    ELSE IF Stack.filled[level] THEN <<Stack.nodes[level], acc>>
    ELSE <<acc, ZeroAt(level + 1)>>

FoldLoad ==
    /\ pc = "fold" /\ lowest < top
    /\ ~ ZeroMissing
    /\ CONCAT_BUFFER' = FoldPair
    /\ pc' = "hash"
    /\ UNCHANGED <<hasher, caller, LEAVES, zeros, self, method, input, readOffset,
                   copy, leaf, level, lowest, top, acc>>

(* Mutant: the loop of fold does not advance. *)
FoldHashSameLevel ==
    /\ pc = "hash" /\ leaf = 2 /\ level < top
    /\ acc' = HashPair(CONCAT_BUFFER[1], CONCAT_BUFFER[2])
    /\ pc' = "fold"
    /\ UNCHANGED <<hasher, caller, LEAVES, CONCAT_BUFFER, zeros, self, method, input,
                   readOffset, copy, leaf, level, lowest, top>>

FoldHash ==
    /\ pc = "hash" /\ leaf = 2 /\ level < top
    /\ acc' = HashPair(CONCAT_BUFFER[1], CONCAT_BUFFER[2])
    /\ level' = level + 1
    /\ pc' = "fold"
    /\ UNCHANGED <<hasher, caller, LEAVES, CONCAT_BUFFER, zeros, self, method, input,
                   readOffset, copy, leaf, lowest, top>>

EndFold ==
    /\ pc = "hash" /\ leaf = 2 /\ level = top
    /\ Return(top + 2, HashPair(CONCAT_BUFFER[1], CONCAT_BUFFER[2]))

(* reset() and dispose(): buffer and nodes keep their stale bytes. *)
Reset(h) ==
    /\ pc = "idle"
    /\ base[h] + bytesWritten[h] <= MaxBase
    /\ offset' = [offset EXCEPT ![h] = 0]
    /\ bytesWritten' = [bytesWritten EXCEPT ![h] = 0]
    /\ stacks' = [stacks EXCEPT ![h].filled = [k \in Slots |-> FALSE]]
    /\ base' = [base EXCEPT ![h] = @ + bytesWritten[h]]
    /\ outcome' = [outcome EXCEPT ![h] = "ok"]
    /\ result' = [result EXCEPT ![h] = NoResult]
    /\ UNCHANGED <<buffer, LEAVES, CONCAT_BUFFER, zeros, call>>

-----------------------------------------------------------------------------
CallStep ==
    \/ WriteQuad \/ WriteTail
    \/ PushLeaf \/ CarryLoad \/ CarryHash \/ CarryStore
    \/ TailPushed \/ FoldWhole \/ ZeroFill \/ FoldLoad \/ FoldHash \/ EndFold

Next ==
    \/ \E h \in Hashers, len \in WriteSizes :
          WriteRefused(h, len) \/ WriteNothing(h, len)
          \/ WriteFast(h, len) \/ WriteBulk(h, len)
    \/ \E h \in Hashers : DigestTail(h) \/ DigestWhole(h) \/ Reset(h)
    \/ CallStep

Spec == Init /\ [][Next]_vars

-----------------------------------------------------------------------------
StackType == [nodes : StackNodes, filled : [Slots -> BOOLEAN], carry : Node]

TypeOK ==
    /\ buffer \in [Hashers -> Quads]
    /\ offset \in [Hashers -> 0 .. Q - 1]
    /\ bytesWritten \in [Hashers -> 0 .. MAX_PAYLOAD_SIZE]
    /\ stacks \in [Hashers -> StackType]
    /\ base \in [Hashers -> Nat]
    /\ outcome \in [Hashers -> {"ok", "RangeError"}]
    /\ result \in [Hashers -> [padding : Nat, height : Nat, root : Node]]
    /\ LEAVES \in Node \X Node /\ CONCAT_BUFFER \in Node \X Node
    /\ zeros \in Seq(Node)
    /\ pc \in {"idle", "push", "carry", "fold", "hash"}
    /\ self \in Hashers \cup {NoHasher} /\ method \in {"", "write", "digest"}
    /\ input \in [first : Nat, len : Nat] /\ readOffset \in Nat
    /\ copy \in StackType \cup {NoStack}
    /\ leaf \in 0 .. 2 /\ level \in Slots /\ lowest \in Slots /\ top \in Slots
    /\ acc \in Node

(***************************************************************************)
(* Between calls the filled slots tile the stacked payload of the hasher:  *)
(* from the highest slot down, each complete subtree begins where the one  *)
(* above ends, and together they end where the buffered bytes begin        *)
(* (tree.js 35-40, 75-91).                                                 *)
(***************************************************************************)
FilledTilePayload ==
    pc = "idle" =>
        \A h \in Hashers :
            LET s == stacks[h]
                above(k) == {j \in Slots : j > k /\ s.filled[j]}
                below(k) == {j \in Slots : j < k /\ s.filled[j]}
            IN  /\ bytesWritten[h] - offset[h] > 0 <=> \E k \in Slots : s.filled[k]
                /\ \A k \in Slots : s.filled[k] =>
                      /\ s.nodes[k].level = k + 1 /\ Complete(s.nodes[k])
                      /\ above(k) = {} => s.nodes[k].lo = 2 * base[h]
                      /\ \A j \in above(k) : above(k) \cap below(j) = {} =>
                            s.nodes[k].lo = s.nodes[j].hi
                      /\ below(k) = {} =>
                            s.nodes[k].hi = 2 * (base[h] + bytesWritten[h] - offset[h])

(* digest() leaves the hasher as it was (index.js 175, tree.js 98). *)
DigestKeepsHasher == [][method = "digest" \/ method' = "digest" => UNCHANGED hasher]_vars

(***************************************************************************)
(* Every call returns: a step of a call that is not its last leaves fewer  *)
(* to go.  push() carries through at most MAX_LEVEL slots for each of two  *)
(* leaves of a quad, fold() and the fills it asks for take at most three   *)
(* steps a level (tree.js 79-91, 111-124, zero-comm.js 37-48).             *)
(***************************************************************************)
PushSteps == 2 * MAX_LEVEL + 2
QuadSteps == 2 * PushSteps + 1

StepsLeft ==
    LET folding == 2 * (top - level) + 2 + MAX_LEVEL - Len(zeros)
        carrying == 2 * (MAX_LEVEL - level) + (1 - leaf) * PushSteps
        quads == (input.len - readOffset) * QuadSteps + 3 * MAX_LEVEL
    IN  CASE pc = "push" -> quads + (2 - leaf) * PushSteps
          [] pc = "carry" -> quads + carrying + 1
          [] pc = "hash" /\ leaf < 2 -> quads + carrying
          [] pc = "fold" -> folding + 1
          [] pc = "hash" /\ leaf = 2 -> folding
          [] pc = "idle" -> 0

CallsReturn ==
    [][pc # "idle" => pc' = "idle" \/ StepsLeft' \in 1 .. StepsLeft - 1]_vars

(***************************************************************************)
(* Each hasher keeps the promise of PieceCommitment, whatever the hashers  *)
(* share and however their calls alternate: a refused write changes        *)
(* nothing and each digest is the commitment of its own hasher's payload   *)
(* (index.js 129-233).                                                     *)
(***************************************************************************)
Piece(h) == INSTANCE PieceCommitment
               WITH MaxPayload <- MAX_PAYLOAD_SIZE, base <- base[h],
                    size <- bytesWritten[h], outcome <- outcome[h], answer <- result[h]

PieceSpec ==
    /\ \A h \in Hashers : Piece(h)!Init
    /\ [][\A h \in Hashers : [Piece(h)!Next]_(Piece(h)!vars)]_vars
=============================================================================
