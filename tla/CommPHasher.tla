------------------------------ MODULE CommPHasher ------------------------------
(***************************************************************************)
(* The streaming hasher of rs/commp/src/hasher.rs, native and wasm.  A     *)
(* call runs alone (&mut self), one loop iteration a step; only the        *)
(* batches of push_batches_parallel are reduced by rayon workers in any    *)
(* interleaving.                                                           *)
(***************************************************************************)
EXTENDS QuadLeaves

CONSTANTS
    BATCH_QUADS,           \* quads hashed together (128)
    BATCH_LEVEL,           \* log2 of the leaves of a batch (8)
    PAYLOAD_LEVEL,         \* MAX_PAYLOAD_SIZE = Q * 2^PAYLOAD_LEVEL (47)
    PARALLEL,              \* the `parallel` feature on a native target
    PARALLEL_MIN_BATCHES,  \* 4
    PARALLEL_GROUP,        \* 256
    WriteSizes,            \* bound: lengths a caller may write
    MaxBase                \* bound: resets are explored up to this position

ASSUME HasherAssumption ==
    /\ BATCH_LEVEL \in 1 .. MAX_LEVEL
    /\ 2 * BATCH_QUADS = Pow[BATCH_LEVEL]
    /\ BATCH_QUADS \in Nat \ {0}
    /\ PAYLOAD_LEVEL \in Nat
    /\ BATCH_LEVEL <= PAYLOAD_LEVEL + 1
    /\ PAYLOAD_LEVEL + 2 <= MAX_LEVEL
    /\ PARALLEL \in BOOLEAN
    /\ PARALLEL_MIN_BATCHES \in Nat \ {0}
    /\ PARALLEL_GROUP \in Nat \ {0}
    /\ WriteSizes \subseteq Nat
    /\ MaxBase \in Nat

BATCH_LEAVES == 2 * BATCH_QUADS
BATCH_BYTES == BATCH_QUADS * Q
MAX_PAYLOAD_SIZE == Q * Pow[PAYLOAD_LEVEL]

VARIABLES
    (* the struct *)
    buffer,         \* Q bytes; the first `offset` are a partial quad
    offset,
    bytes_written,
    batch,          \* FR32-padded quads waiting
    stack,
    (* the caller's view *)
    base,           \* ghost: stream position of the payload's first byte
    outcome,        \* of the last write: "ok" or "RangeError"
    result,         \* the last digest, until the payload changes
    (* the call in progress, cleared when it returns *)
    pc,       \* "idle", "write", "reduce", "push", "carry", "fold"
    caller,   \* what reduces and pushes: "flush", "group", "small" or "build"
    input,    \* [first, len]: the slice being written
    read_pos,
    jobs,     \* batch_root() calls: [nodes, len, height] each
    target,   \* height the jobs are reduced to
    next,     \* next root to push
    level, node, top,  \* locals of push_at and fold
    local     \* build()'s copy of the stack

self == <<buffer, offset, bytes_written, batch, stack>>
tree == <<level, node, top>>
vars == <<self, base, outcome, result, pc, caller, input, read_pos, jobs,
          target, next, tree, local>>

NoResult == [padding |-> 0, height |-> 0, root |-> Junk]
NoInput == [first |-> 0, len |-> 0]

Init ==
    /\ buffer = [i \in 0 .. Q - 1 |-> NoByte]
    /\ offset = 0 /\ bytes_written = 0 /\ batch = <<>> /\ stack = NewStack
    /\ base = 0 /\ outcome = "ok" /\ result = NoResult
    /\ pc = "idle" /\ caller = "" /\ input = NoInput /\ read_pos = 0
    /\ jobs = <<>> /\ target = 0 /\ next = 0
    /\ level = 0 /\ node = Junk /\ top = 0 /\ local = NewStack

-----------------------------------------------------------------------------
(* batch_root and build hash the halves of the quads, then reduce. *)
Job(quads) ==
    [nodes  |-> [i \in 0 .. BATCH_LEAVES - 1 |->
                    IF i < 2 * Len(quads) THEN Leaf(quads[i \div 2 + 1], i % 2)
                                          ELSE Zero(0)],
     len    |-> 2 * Len(quads),
     height |-> 1]

(* bytes[from .. from + Q] of the slice being written. *)
InputQuad(in, from) == [i \in 0 .. Q - 1 |-> in.first + from + i]

(* Mutant: the batch is flushed one quad late. *)
PushQuadLate(quad) ==
    /\ batch' = Append(batch, quad)
    /\ IF Len(batch) = BATCH_QUADS
       THEN /\ pc' = "reduce" /\ caller' = "flush"
            /\ jobs' = <<Job(batch')>> /\ target' = BATCH_LEVEL + 1 /\ next' = 1
       ELSE /\ pc' = "write"
            /\ UNCHANGED <<caller, jobs, target, next>>

(* push_quad: queue the quad; a full batch is hashed (flush_batch). *)
PushQuad(quad) ==
    /\ batch' = Append(batch, quad)
    /\ IF Len(batch) + 1 = BATCH_QUADS
       THEN /\ pc' = "reduce" /\ caller' = "flush"
            /\ jobs' = <<Job(batch')>> /\ target' = BATCH_LEVEL + 1 /\ next' = 1
       ELSE /\ pc' = "write"
            /\ UNCHANGED <<caller, jobs, target, next>>

-----------------------------------------------------------------------------
(* write(): refused and empty writes, then the two ways in. *)

(* Mutant: the bytes are counted before the limit is checked. *)
WriteRefusedCounts(len) ==
    /\ pc = "idle"
    /\ bytes_written + len > MAX_PAYLOAD_SIZE
    /\ outcome' = "RangeError"
    /\ bytes_written' = bytes_written + len
    /\ UNCHANGED <<buffer, offset, batch, stack, base, result, pc, caller, input,
                   read_pos, jobs, target, next, tree, local>>

WriteRefused(len) ==
    /\ pc = "idle"
    /\ bytes_written + len > MAX_PAYLOAD_SIZE
    /\ outcome' = "RangeError"
    /\ UNCHANGED <<self, base, result, pc, caller, input, read_pos, jobs,
                   target, next, tree, local>>

WriteAccepted(len) ==
    /\ pc = "idle"
    /\ bytes_written + len <= MAX_PAYLOAD_SIZE
    /\ outcome' = "ok"
    /\ bytes_written' = bytes_written + len
    /\ result' = IF len = 0 THEN result ELSE NoResult
    /\ UNCHANGED <<stack, base, tree, local>>

WriteNothing(len) ==
    /\ WriteAccepted(len)
    /\ len = 0
    /\ UNCHANGED <<buffer, offset, batch, pc, caller, input, read_pos, jobs,
                   target, next>>

(* Mutant: a completed quad is left in the buffer. *)
WriteFastFull(len) ==
    /\ WriteAccepted(len)
    /\ 0 < len /\ offset + len <= Q
    /\ buffer' = [i \in 0 .. Q - 1 |->
                    IF offset <= i /\ i < offset + len
                    THEN base + bytes_written + (i - offset) ELSE buffer[i]]
    /\ offset' = offset + len
    /\ UNCHANGED <<batch, pc, caller, input, read_pos, jobs, target, next>>

WriteFast(len) ==
    /\ WriteAccepted(len)
    /\ 0 < len /\ offset + len < Q
    /\ buffer' = [i \in 0 .. Q - 1 |->
                    IF offset <= i /\ i < offset + len
                    THEN base + bytes_written + (i - offset) ELSE buffer[i]]
    /\ offset' = offset + len
    /\ UNCHANGED <<batch, pc, caller, input, read_pos, jobs, target, next>>

(* Mutant: `offset = 0` is missing after the buffered quad is pushed. *)
WriteBulkKeepsOffset(len) ==
    /\ WriteAccepted(len)
    /\ 0 < len /\ offset + len >= Q
    /\ input' = [first |-> base + bytes_written, len |-> len]
    /\ UNCHANGED offset
    /\ IF offset > 0
       THEN /\ buffer' = [i \in 0 .. Q - 1 |->
                            IF i < offset THEN buffer[i]
                            ELSE base + bytes_written + (i - offset)]
            /\ read_pos' = Q - offset
            /\ PushQuad(buffer')
       ELSE /\ read_pos' = 0
            /\ pc' = "write"
            /\ UNCHANGED <<buffer, batch, caller, jobs, target, next>>

WriteBulk(len) ==
    /\ WriteAccepted(len)
    /\ 0 < len /\ offset + len >= Q
    /\ input' = [first |-> base + bytes_written, len |-> len]
    /\ offset' = 0
    /\ IF offset > 0
       THEN /\ buffer' = [i \in 0 .. Q - 1 |->
                            IF i < offset THEN buffer[i]
                            ELSE base + bytes_written + (i - offset)]
            /\ read_pos' = Q - offset
            /\ PushQuad(buffer')
       ELSE /\ read_pos' = 0
            /\ pc' = "write"
            /\ UNCHANGED <<buffer, batch, caller, jobs, target, next>>

(* The loop over full quads. *)
(* Mutant: the workers start over quads that wait in the batch. *)
UseWorkersAnytime ==
    PARALLEL /\ input.len - read_pos >= PARALLEL_MIN_BATCHES * BATCH_BYTES

UseWorkers == PARALLEL /\ batch = <<>>
              /\ input.len - read_pos >= PARALLEL_MIN_BATCHES * BATCH_BYTES

WriteQuad ==
    /\ pc = "write"
    /\ read_pos + Q <= input.len
    /\ ~ UseWorkers
    /\ PushQuad(InputQuad(input, read_pos))
    /\ read_pos' = read_pos + Q
    /\ UNCHANGED <<buffer, offset, bytes_written, stack, base, outcome, result,
                   input, tree, local>>

GroupSize ==
    LET full == (input.len - read_pos) \div BATCH_BYTES
    IN  IF full < PARALLEL_GROUP THEN full ELSE PARALLEL_GROUP

(* push_batches_parallel: the workers read disjoint chunks of the slice. *)
WriteGroup ==
    /\ pc = "write"
    /\ read_pos + Q <= input.len
    /\ UseWorkers
    /\ jobs' = [w \in 1 .. GroupSize |->
                  Job([q \in 1 .. BATCH_QUADS |->
                         InputQuad(input, read_pos + (w - 1) * BATCH_BYTES + (q - 1) * Q)])]
    /\ pc' = "reduce" /\ caller' = "group" /\ target' = BATCH_LEVEL + 1 /\ next' = 1
    /\ UNCHANGED <<self, base, outcome, result, input, read_pos, tree, local>>

(* The remaining bytes are buffered and write() returns. *)
WriteTail ==
    /\ pc = "write"
    /\ read_pos + Q > input.len
    /\ LET remaining == input.len - read_pos
       IN  /\ buffer' = [i \in 0 .. Q - 1 |->
                           IF i < remaining THEN input.first + read_pos + i ELSE buffer[i]]
           /\ offset' = IF remaining > 0 THEN remaining ELSE offset
    /\ pc' = "idle" /\ caller' = "" /\ input' = NoInput /\ read_pos' = 0
    /\ UNCHANGED <<bytes_written, batch, stack, base, outcome, result, jobs,
                   target, next, tree, local>>

-----------------------------------------------------------------------------
(* batch_root: any unfinished job takes its next level; the pushes start   *)
(* when all are done.                                                      *)
Reduce(w) ==
    /\ pc = "reduce"
    /\ jobs[w].height < target
    /\ jobs' = [jobs EXCEPT ![w] = ReduceLevel(@)]
    /\ UNCHANGED <<self, base, outcome, result, pc, caller, input, read_pos,
                   target, next, tree, local>>

Reduced ==
    /\ pc = "reduce" /\ caller # "small"
    /\ \A w \in 1 .. Len(jobs) : jobs[w].height = target
    /\ pc' = "push"
    /\ UNCHANGED <<self, base, outcome, result, caller, input, read_pos, jobs,
                   target, next, tree, local>>

(* push_at(root, BATCH_LEVEL): on self.stack, or on build's copy of it. *)
Target == IF caller = "build" THEN local ELSE stack

(* Mutant: build pushes its padded batch on the hasher's own stack. *)
SetTargetSelf(s) == stack' = s /\ UNCHANGED local

SetTarget(s) ==
    IF caller = "build" THEN local' = s /\ UNCHANGED stack
                        ELSE stack' = s /\ UNCHANGED local

Push ==
    /\ pc = "push" /\ next <= Len(jobs)
    /\ SetTarget([Target EXCEPT !.count = @ + Pow[BATCH_LEVEL]])
    /\ node' = jobs[next].nodes[0]
    /\ level' = BATCH_LEVEL
    /\ pc' = "carry"
    /\ UNCHANGED <<buffer, offset, bytes_written, batch, base, outcome, result,
                   caller, input, read_pos, jobs, target, next, top>>

(* Mutant: the carry loop does not advance. *)
MergeSameLevel ==
    /\ pc = "carry"
    /\ Bit(Target.count, level) = 0
    /\ node' = HashPair(Target.nodes[level], node)
    /\ UNCHANGED <<self, base, outcome, result, pc, caller, input, read_pos,
                   jobs, target, next, level, top, local>>

Merge ==
    /\ pc = "carry"
    /\ Bit(Target.count, level) = 0
    /\ node' = HashPair(Target.nodes[level], node)
    /\ level' = level + 1
    /\ UNCHANGED <<self, base, outcome, result, pc, caller, input, read_pos,
                   jobs, target, next, top, local>>

Store ==
    /\ pc = "carry"
    /\ Bit(Target.count, level) = 1
    /\ SetTarget([Target EXCEPT !.nodes[level] = node])
    /\ level' = 0 /\ node' = Junk
    /\ next' = next + 1
    /\ pc' = "push"
    /\ UNCHANGED <<buffer, offset, bytes_written, batch, base, outcome, result,
                   caller, input, read_pos, jobs, target, top>>

(* All roots are pushed: flush_batch clears the batch, the parallel call   *)
(* reports the bytes it took, build goes on to fold.                       *)
Pushed ==
    /\ pc = "push" /\ next > Len(jobs)
    /\ batch' = IF caller = "flush" THEN <<>> ELSE batch
    /\ read_pos' = IF caller = "group" THEN read_pos + Len(jobs) * BATCH_BYTES
                                       ELSE read_pos
    /\ pc' = IF caller = "build" THEN "fold" ELSE "write"
    /\ jobs' = <<>> /\ target' = 0 /\ next' = 0
    /\ UNCHANGED <<buffer, offset, bytes_written, stack, base, outcome, result,
                   caller, input, tree, local>>

-----------------------------------------------------------------------------
(* build(): on copies.  The partial batch and the zero-filled partial quad *)
(* (a zero quad for an empty payload) are hashed as one job.               *)

(* Mutant: the stale end of the buffer is hashed with the tail. *)
TailQuadStale == buffer

TailQuad == [i \in 0 .. Q - 1 |-> IF i < offset THEN buffer[i] ELSE NoByte]

BuildQuads ==
    IF offset > 0 \/ bytes_written = 0 THEN Append(batch, TailQuad) ELSE batch

BuildSmall(steps) ==
    /\ pc = "idle"
    /\ stack.count = 0
    /\ IsCeilLog(2 * Len(BuildQuads), steps)
    /\ jobs' = <<Job(BuildQuads)>>
    /\ target' = 1 + steps
    /\ pc' = "reduce" /\ caller' = "small"
    /\ UNCHANGED <<self, base, outcome, result, input, read_pos, next, tree, local>>

BuildPadded ==
    /\ pc = "idle"
    /\ stack.count # 0
    /\ local' = stack
    /\ IF BuildQuads # <<>>
       THEN /\ jobs' = <<Job(BuildQuads)>> /\ target' = 1 + BATCH_LEVEL /\ next' = 1
            /\ pc' = "reduce"
       ELSE /\ pc' = "fold"
            /\ UNCHANGED <<jobs, target, next>>
    /\ caller' = "build"
    /\ UNCHANGED <<self, base, outcome, result, input, read_pos, tree>>

(* digest(): encode what build returned, with the padding of the payload. *)
Return(height, root) ==
    /\ result' = [padding |-> ZeroPadding(bytes_written),
                  height |-> height, root |-> root]
    /\ pc' = "idle" /\ caller' = ""
    /\ jobs' = <<>> /\ target' = 0 /\ next' = 0
    /\ level' = 0 /\ node' = Junk /\ top' = 0 /\ local' = NewStack
    /\ UNCHANGED <<self, base, outcome, input, read_pos>>

ReturnSmall ==
    /\ pc = "reduce" /\ caller = "small"
    /\ jobs[1].height = target
    /\ Return(target, jobs[1].nodes[0])

(* fold() of the copy. *)
FoldWhole(t) ==
    /\ pc = "fold" /\ level = 0
    /\ local.count = Pow[t]
    /\ Return(t + 1, local.nodes[t])

BeginFold(t, low) ==
    /\ pc = "fold" /\ level = 0
    /\ IsTop(local.count, t) /\ local.count # Pow[t]
    /\ IsLowest(local.count, low)
    /\ top' = t
    /\ level' = low + 1
    /\ node' = HashPair(local.nodes[low], Zero(low + 1))
    /\ UNCHANGED <<self, base, outcome, result, pc, caller, input, read_pos,
                   jobs, target, next, local>>

FoldUp ==
    /\ pc = "fold" /\ 0 < level /\ level < top
    /\ node' = FoldLevel(local, level, node)
    /\ level' = level + 1
    /\ UNCHANGED <<self, base, outcome, result, pc, caller, input, read_pos,
                   jobs, target, next, top, local>>

EndFold ==
    /\ pc = "fold" /\ 0 < level /\ level = top
    /\ Return(top + 2, HashPair(local.nodes[top], node))

(* Mutant: reset forgets the leaf count. *)
ResetKeepsCount ==
    /\ pc = "idle"
    /\ base + bytes_written <= MaxBase
    /\ buffer' = [i \in 0 .. Q - 1 |-> NoByte]
    /\ offset' = 0 /\ bytes_written' = 0 /\ batch' = <<>>
    /\ base' = base + bytes_written
    /\ outcome' = "ok" /\ result' = NoResult
    /\ UNCHANGED <<stack, pc, caller, input, read_pos, jobs, target, next, tree, local>>

(* reset(): the nodes of the stack keep their stale values. *)
Reset ==
    /\ pc = "idle"
    /\ base + bytes_written <= MaxBase
    /\ buffer' = [i \in 0 .. Q - 1 |-> NoByte]
    /\ offset' = 0 /\ bytes_written' = 0 /\ batch' = <<>>
    /\ stack' = [stack EXCEPT !.count = 0]
    /\ base' = base + bytes_written
    /\ outcome' = "ok" /\ result' = NoResult
    /\ UNCHANGED <<pc, caller, input, read_pos, jobs, target, next, tree, local>>

-----------------------------------------------------------------------------
Write == \E len \in WriteSizes :
            \/ WriteRefused(len) \/ WriteNothing(len)
            \/ WriteFast(len) \/ WriteBulk(len)

(* The steps of a call already made. *)
CallStep ==
    \/ WriteQuad \/ WriteGroup \/ WriteTail
    \/ \E w \in 1 .. Len(jobs) : Reduce(w)
    \/ Reduced \/ Push \/ Merge \/ Store \/ Pushed
    \/ ReturnSmall
    \/ \E t \in Slots : FoldWhole(t)
    \/ \E t, low \in Slots : BeginFold(t, low)
    \/ FoldUp \/ EndFold

Next ==
    \/ Write
    \/ \E steps \in 0 .. BATCH_LEVEL : BuildSmall(steps)
    \/ BuildPadded
    \/ Reset
    \/ CallStep

(* Calls run to the end: the code is sequential, and rayon's workers are   *)
(* joined before for_each returns.                                         *)
Spec == Init /\ [][Next]_vars /\ WF_vars(CallStep)

-----------------------------------------------------------------------------
JobType == [nodes : [0 .. BATCH_LEAVES - 1 -> Node], len : Nat, height : Nat]

TypeOK ==
    /\ buffer \in Quads /\ offset \in 0 .. Q - 1
    /\ bytes_written \in 0 .. MAX_PAYLOAD_SIZE
    /\ batch \in Seq(Quads)
    /\ stack \in [nodes : StackNodes, count : Nat]
    /\ local \in [nodes : StackNodes, count : Nat]
    /\ base \in Nat
    /\ outcome \in {"ok", "RangeError"}
    /\ result \in [padding : Int, height : Nat, root : Node]
    /\ pc \in {"idle", "write", "reduce", "push", "carry", "fold"}
    /\ caller \in {"", "flush", "group", "small", "build"}
    /\ input \in [first : Nat, len : Nat] /\ read_pos \in Nat
    /\ jobs \in Seq(JobType) /\ target \in Nat /\ next \in Nat
    /\ level \in Nat /\ top \in Nat /\ node \in Node

(***************************************************************************)
(* Between calls every byte of the payload is in one place and in order:   *)
(* full batches under the stack, then the quads of the batch, then the     *)
(* buffer; nothing of an earlier payload is among them (write, hasher.rs   *)
(* 169-218, and reset, 296-302).                                           *)
(***************************************************************************)
Quad(first) == [i \in 0 .. Q - 1 |-> first + i]

PayloadPlaced ==
    pc = "idle" =>
        LET stacked == (stack.count \div 2) * Q
        IN  /\ stack.count % BATCH_LEAVES = 0
            /\ Len(batch) < BATCH_QUADS
            /\ bytes_written = stacked + Len(batch) * Q + offset
            /\ \A j \in 1 .. Len(batch) :
                  batch[j] = Quad(base + stacked + (j - 1) * Q)
            /\ \A i \in 0 .. offset - 1 :
                  buffer[i] = base + stacked + Len(batch) * Q + i

(***************************************************************************)
(* digest() is the commitment of the payload, however it was cut into      *)
(* writes, whichever way each quad was hashed and however the workers were *)
(* scheduled (hasher.rs:224-273).                                          *)
(***************************************************************************)
DigestIsCommitment ==
    result # NoResult => IsCommitment(result, base, bytes_written)

(***************************************************************************)
(* No index leaves its array and no debug_assert fails: the partial batch  *)
(* and the tail fit in one batch (hasher.rs:225-227), reduce has room for  *)
(* the zero it appends (tree.rs:60) and the stack stays inside MAX_LEVEL;  *)
(* push_at finds count a multiple of 2^level (tree.rs:107), a batch is     *)
(* full when it is flushed (hasher.rs:72) and the parallel path starts     *)
(* with an empty one (hasher.rs:146).                                      *)
(***************************************************************************)
AssertionsHold ==
    /\ \A w \in 1 .. Len(jobs) :
          /\ jobs[w].len <= BATCH_LEAVES
          /\ (jobs[w].height < target /\ jobs[w].len % 2 = 1) => jobs[w].len < BATCH_LEAVES
    /\ Len(jobs) <= PARALLEL_GROUP
    /\ pc \in {"carry", "fold"} => level \in Slots
    /\ (pc = "push" /\ next <= Len(jobs)) => Target.count % Pow[BATCH_LEVEL] = 0
    /\ (caller = "flush" /\ pc # "write") => Len(batch) = BATCH_QUADS
    /\ (caller = "group" /\ pc # "write") => batch = <<>>

(* Every call returns: the loops of write, reduce, push_at and fold end. *)
CallsReturn == pc # "idle" ~> pc = "idle"

(* The hasher keeps the promise of PieceCommitment. *)
Piece == INSTANCE PieceCommitment
            WITH MaxPayload <- MAX_PAYLOAD_SIZE, size <- bytes_written, answer <- result

PieceSpec == Piece!Spec

(***************************************************************************)
(* self.stack is used as SubtreeStack allows: only complete subtrees, in   *)
(* order, at a level its count is a multiple of.                           *)
(***************************************************************************)
LiveCarry == pc = "carry" /\ caller # "build"

Live == INSTANCE SubtreeStack
           WITH MaxLeaves <- 2 * Pow[PAYLOAD_LEVEL], MaxOrigin <- 2 * MaxBase,
                MaxSkip <- 2 * BATCH_BYTES,
                pc <- IF LiveCarry THEN "push" ELSE "idle",
                level <- IF LiveCarry THEN level ELSE 0,
                node <- IF LiveCarry THEN node ELSE Junk,
                top <- 0,
                result <- [height |-> 0, root |-> Junk],
                origin <- 2 * base,
                end <- 2 * base + LeafSpan * stack.count

StackUsedAsAllowed == Live!Init /\ [][Live!Next]_(Live!vars)
=============================================================================
