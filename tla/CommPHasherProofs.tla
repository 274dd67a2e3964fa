--------------------------- MODULE CommPHasherProofs ---------------------------
(***************************************************************************)
(* Proofs about CommPHasher, for every leaf size, batch size, payload      *)
(* limit, group of workers and set of write lengths: every byte is in its  *)
(* place, every digest is the commitment of the payload, no assertion of   *)
(* the code fails, each step is one PieceCommitment allows and, on the     *)
(* stack, one SubtreeStack allows, and the steps of a call are bounded.    *)
(*                                                                         *)
(* The invariant follows a byte from the caller's slice to the root: it    *)
(* says where the call in progress is, what its batches cover and that     *)
(* their reduction ends in one node, and it reuses the invariant of        *)
(* SubtreeStack twice, for self.stack while push_at works on it and for    *)
(* build's copy while build pushes on it and folds it.                     *)
(***************************************************************************)
EXTENDS CommPHasher, TreeLemmas, FiniteSetTheorems

(* Where the stack ends and the payload ends, in nibbles. *)
StackEnd == 2 * base + LeafSpan * stack.count
PayloadEnd == 2 * (base + bytes_written)

(* self.stack while push_at works on it, and build's copy of it.           *)
Own == INSTANCE SubtreeStackProofs
           WITH MaxLeaves <- 2 * Pow[PAYLOAD_LEVEL], MaxOrigin <- 2 * MaxBase,
                MaxSkip <- 2 * BATCH_BYTES,
                pc <- IF LiveCarry THEN "push" ELSE "idle",
                level <- IF LiveCarry THEN level ELSE 0,
                node <- IF LiveCarry THEN node ELSE Junk,
                top <- 0,
                result <- [height |-> 0, root |-> Junk],
                origin <- 2 * base,
                end <- 2 * base + LeafSpan * stack.count

(* build has pushed its padded batch on the copy, or had none to push. *)
Padded ==
    \/ pc = "carry"
    \/ pc = "push" /\ next = 2
    \/ pc = "fold" /\ BuildQuads # <<>>

Copy == INSTANCE SubtreeStackProofs
           WITH MaxLeaves <- 2 * Pow[PAYLOAD_LEVEL], MaxOrigin <- 2 * MaxBase,
                MaxSkip <- 2 * BATCH_BYTES,
                stack <- local,
                pc <- IF pc = "carry" THEN "push"
                      ELSE IF pc = "fold" /\ level > 0 THEN "fold" ELSE "idle",
                result <- [height |-> 0, root |-> Junk],
                origin <- 2 * base,
                end <- IF Padded THEN PayloadEnd ELSE StackEnd

(* Which call may be where, and the locals it has. *)
Control ==
    /\ caller = "" => pc \in {"idle", "write"}
    /\ caller \in {"flush", "group"} => pc \in {"write", "reduce", "push", "carry"}
    /\ caller = "small" => pc = "reduce"
    /\ caller = "build" => pc \in {"reduce", "push", "carry", "fold"}
    /\ pc \in {"idle", "write", "fold"} => jobs = <<>> /\ target = 0 /\ next = 0
    /\ pc \in {"reduce", "push", "carry"} /\ caller # "small" => next \in 1 .. Len(jobs) + 1
    /\ pc = "reduce" => next \in {0, 1}
    /\ pc = "carry" => next <= Len(jobs)
    /\ pc \notin {"carry", "fold"} => level = 0 /\ node = Junk
    /\ (pc # "fold" \/ level = 0) => top = 0
    /\ pc = "fold" /\ level = 0 => node = Junk

(* The bytes a caller may have between writes. *)
Stacked == (stack.count \div 2) * Q

BatchPlaced ==
    /\ Len(batch) < BATCH_QUADS
    /\ \A j \in 1 .. Len(batch) : batch[j] = Quad(base + Stacked + (j - 1) * Q)

BufferPlaced ==
    /\ bytes_written = Stacked + Len(batch) * Q + offset
    /\ \A i \in 0 .. offset - 1 : buffer[i] = base + Stacked + Len(batch) * Q + i

Writing == pc = "write" \/ caller \in {"flush", "group"}

(* First nibble of job w; roots already pushed are under the stack. *)
RootsDone == IF pc = "carry" THEN next ELSE next - 1
JobStart(w) == StackEnd + (w - 1 - RootsDone) * Span(BATCH_LEVEL)

Placed ==
    /\ stack.count % BATCH_LEAVES = 0
    /\ ~ Writing => BatchPlaced /\ BufferPlaced
    /\ Writing =>
         /\ offset = 0
         /\ input.first + input.len = base + bytes_written
         /\ read_pos <= input.len
    /\ pc = "write" =>
         /\ BatchPlaced
         /\ input.first + read_pos = base + Stacked + Len(batch) * Q
    /\ Writing /\ pc # "write" /\ caller = "flush" =>
         /\ Len(batch) = BATCH_QUADS /\ Len(jobs) = 1
         /\ 2 * (input.first + read_pos) = JobStart(2)
    /\ Writing /\ pc # "write" /\ caller = "group" =>
         /\ batch = <<>> /\ Len(jobs) \in 1 .. PARALLEL_GROUP
         /\ 2 * (input.first + read_pos) = JobStart(1)
         /\ read_pos + Len(jobs) * BATCH_BYTES <= input.len

(* What every job covers, and that its reduction ends in one node. *)
JobRange(job) ==
    /\ job.height \in 1 .. target
    /\ job.len \in 1 .. BATCH_LEAVES
    /\ job.len <= Pow[target - job.height]

Jobs ==
    /\ \A w \in 1 .. Len(jobs) : JobRange(jobs[w])
    /\ pc \in {"push", "carry"} => \A w \in 1 .. Len(jobs) : jobs[w].height = target
    /\ pc \in {"reduce", "push", "carry"} /\ caller # "small" => target = BATCH_LEVEL + 1
    /\ caller \in {"flush", "group"} /\ pc # "write" =>
         \A w \in 1 .. Len(jobs) : JobCovers(jobs[w], JobStart(w), JobStart(w + 1))
    /\ caller = "small" =>
         /\ Len(jobs) = 1 /\ stack.count = 0
         /\ target \in 1 .. BATCH_LEVEL + 1
         /\ IsCeilLog(2 * Len(BuildQuads), target - 1)
         /\ JobCovers(jobs[1], 2 * base, PayloadEnd)
    /\ caller = "build" /\ pc # "fold" =>
         /\ Len(jobs) = 1 /\ BuildQuads # <<>>
         /\ JobCovers(jobs[1], StackEnd, PayloadEnd)

CopyInv ==
    caller = "build" =>
        /\ Copy!Inv
        /\ stack.count # 0
        /\ local.count = stack.count + (IF Padded THEN Pow[BATCH_LEVEL] ELSE 0)

Inv ==
    /\ TypeOK /\ Control /\ Placed /\ Jobs
    /\ Own!Inv /\ CopyInv
    /\ DigestIsCommitment

-----------------------------------------------------------------------------
(* Constants. *)

LEMMA ConstFacts ==
    /\ Q \in Nat \ {0} /\ Q = LeafSpan
    /\ BATCH_QUADS \in Nat \ {0}
    /\ BATCH_LEVEL \in Slots /\ BATCH_LEVEL \in 0 .. MAX_LEVEL /\ BATCH_LEVEL >= 1
    /\ BATCH_LEVEL \in Nat
    /\ BATCH_LEAVES \in Nat \ {0} /\ BATCH_LEAVES % 2 = 0
    /\ BATCH_LEAVES = 2 * BATCH_QUADS /\ Pow[BATCH_LEVEL] = BATCH_LEAVES
    /\ BATCH_BYTES \in Nat \ {0} /\ BATCH_BYTES = BATCH_QUADS * Q
    /\ Span(BATCH_LEVEL) = 2 * BATCH_BYTES
    /\ Span(BATCH_LEVEL) = LeafSpan * Pow[BATCH_LEVEL]
    /\ PARALLEL_GROUP \in Nat \ {0}
PROOF
<1>1. Q \in Nat \ {0} /\ Q = LeafSpan
  BY SpanFacts DEF Q
<1>2. BATCH_QUADS \in Nat \ {0} /\ BATCH_LEVEL \in 1 .. MAX_LEVEL
      /\ PAYLOAD_LEVEL \in Nat /\ BATCH_LEVEL <= PAYLOAD_LEVEL + 1
      /\ PAYLOAD_LEVEL + 2 <= MAX_LEVEL /\ 2 * BATCH_QUADS = Pow[BATCH_LEVEL]
      /\ PARALLEL_GROUP \in Nat \ {0}
  BY HasherAssumption
<1>3. BATCH_LEVEL \in Slots /\ BATCH_LEVEL \in 0 .. MAX_LEVEL /\ BATCH_LEVEL >= 1
      /\ BATCH_LEVEL \in Nat
  BY <1>2, TreeAssumption DEF Slots
<1>4. BATCH_LEAVES = 2 * BATCH_QUADS /\ BATCH_LEAVES \in Nat \ {0} /\ BATCH_LEAVES % 2 = 0
  BY <1>2 DEF BATCH_LEAVES
<1>5. BATCH_BYTES = BATCH_QUADS * Q
  BY DEF BATCH_BYTES
<1>6. BATCH_QUADS * Q \in Nat \ {0}
  BY <1>1, <1>2
<1>7. LeafSpan * (2 * BATCH_QUADS) = 2 * (BATCH_QUADS * Q)
  BY <1>1, <1>2
<1> QED
  BY <1>1, <1>2, <1>3, <1>4, <1>5, <1>6, <1>7 DEF Span

LEMMA LimitFacts ==
    /\ PAYLOAD_LEVEL \in 0 .. MAX_LEVEL /\ PAYLOAD_LEVEL + 1 \in BATCH_LEVEL .. MAX_LEVEL
    /\ Pow[PAYLOAD_LEVEL] \in Nat \ {0}
    /\ 2 * Pow[PAYLOAD_LEVEL] = Pow[PAYLOAD_LEVEL + 1]
    /\ 2 * Pow[PAYLOAD_LEVEL] \in Nat \ {0}
    /\ 2 * Pow[PAYLOAD_LEVEL] < Pow[MAX_LEVEL]
    /\ MAX_PAYLOAD_SIZE \in Nat
    /\ 2 * MAX_PAYLOAD_SIZE = LeafSpan * (2 * Pow[PAYLOAD_LEVEL])
    /\ 2 * MaxBase \in Nat /\ 2 * BATCH_BYTES \in Nat
PROOF
<1>1. BATCH_LEVEL \in 1 .. MAX_LEVEL
      /\ PAYLOAD_LEVEL \in Nat /\ BATCH_LEVEL <= PAYLOAD_LEVEL + 1
      /\ PAYLOAD_LEVEL + 2 <= MAX_LEVEL /\ MaxBase \in Nat
  BY HasherAssumption
<1>2. /\ PAYLOAD_LEVEL \in Slots /\ PAYLOAD_LEVEL \in 0 .. MAX_LEVEL
      /\ PAYLOAD_LEVEL + 1 \in Slots
      /\ PAYLOAD_LEVEL + 1 \in BATCH_LEVEL .. MAX_LEVEL
      /\ PAYLOAD_LEVEL + 2 \in 0 .. MAX_LEVEL
      /\ MAX_LEVEL \in PAYLOAD_LEVEL + 2 .. MAX_LEVEL
  BY <1>1, TreeAssumption DEF Slots
<1>3. /\ Pow[PAYLOAD_LEVEL] \in Nat \ {0}
      /\ 2 * Pow[PAYLOAD_LEVEL] = Pow[PAYLOAD_LEVEL + 1]
  BY <1>2, PowDouble
<1>4. Pow[PAYLOAD_LEVEL + 2] = 2 * Pow[PAYLOAD_LEVEL + 1] /\ Pow[PAYLOAD_LEVEL + 2] \in Nat
  <2>1. (PAYLOAD_LEVEL + 1) + 1 = PAYLOAD_LEVEL + 2
    BY <1>1
  <2> QED BY <1>2, <2>1, PowDouble
<1>5. Pow[PAYLOAD_LEVEL + 2] <= Pow[MAX_LEVEL] /\ Pow[MAX_LEVEL] \in Nat
  <2>1. MAX_LEVEL \in 0 .. MAX_LEVEL
    BY TreeAssumption
  <2> QED BY <1>2, <2>1, PowFacts, TreeAssumption
<1>6. MAX_PAYLOAD_SIZE \in Nat /\ 2 * MAX_PAYLOAD_SIZE = LeafSpan * (2 * Pow[PAYLOAD_LEVEL])
  BY <1>3, ConstFacts DEF MAX_PAYLOAD_SIZE
<1> QED
  BY <1>1, <1>2, <1>3, <1>4, <1>5, <1>6, ConstFacts

(* Both stacks are used within the assumptions of SubtreeStack. *)
LEMMA StackInstance ==
    /\ 2 * Pow[PAYLOAD_LEVEL] \in Nat \ {0}
    /\ 2 * Pow[PAYLOAD_LEVEL] < Pow[MAX_LEVEL]
    /\ 2 * MaxBase \in Nat /\ 2 * BATCH_BYTES \in Nat
PROOF
  BY LimitFacts

(* Names of SubtreeStack's modules that mean the same here. *)
LEMMA SameNames ==
    /\ \A l, a, e : Own!Extent(l, a, e) = Extent(l, a, e)
                    /\ Copy!Extent(l, a, e) = Extent(l, a, e)
    /\ Own!Junk = Junk /\ Copy!Junk = Junk
    /\ \A n, k : Own!Bit(n, k) = Bit(n, k) /\ Copy!Bit(n, k) = Bit(n, k)
    /\ \A a, b : Own!HashPair(a, b) = HashPair(a, b) /\ Copy!HashPair(a, b) = HashPair(a, b)
    /\ \A l : Own!Zero(l) = Zero(l) /\ Copy!Zero(l) = Zero(l)
    /\ \A k : Own!Span(k) = Span(k) /\ Copy!Span(k) = Span(k)
    /\ Own!Slots = Slots /\ Copy!Slots = Slots
    /\ Own!Node = Node /\ Copy!Node = Node
    /\ Own!StackNodes = StackNodes /\ Copy!StackNodes = StackNodes
    /\ Own!NewStack = NewStack /\ Copy!NewStack = NewStack
PROOF
<1>1. /\ \A l, a, e : Own!Extent(l, a, e) = Extent(l, a, e)
                      /\ Copy!Extent(l, a, e) = Extent(l, a, e)
      /\ Own!Slots = Slots /\ Copy!Slots = Slots
      /\ Own!Node = Node /\ Copy!Node = Node
      /\ \A k : Own!Span(k) = Span(k) /\ Copy!Span(k) = Span(k)
  BY DEF Extent, Own!Extent, Copy!Extent, Slots, Own!Slots, Copy!Slots,
         Node, Own!Node, Copy!Node, Span, Own!Span, Copy!Span
<1>2. /\ Own!Junk = Junk /\ Copy!Junk = Junk
      /\ \A l : Own!Zero(l) = Zero(l) /\ Copy!Zero(l) = Zero(l)
      /\ Own!StackNodes = StackNodes /\ Copy!StackNodes = StackNodes
  BY <1>1 DEF Junk, Own!Junk, Copy!Junk, Zero, Own!Zero, Copy!Zero,
              StackNodes, Own!StackNodes, Copy!StackNodes
<1>3. \A n, k : Own!Bit(n, k) = Bit(n, k) /\ Copy!Bit(n, k) = Bit(n, k)
  BY DEF Bit, Own!Bit, Copy!Bit
<1>4. Own!NewStack = NewStack /\ Copy!NewStack = NewStack
  BY <1>1, <1>2 DEF NewStack, Own!NewStack, Copy!NewStack
<1>5. \A n : (Own!Complete(n) <=> Complete(n)) /\ (Copy!Complete(n) <=> Complete(n))
  BY <1>1 DEF Complete, Own!Complete, Copy!Complete
<1>6. \A a, b : Own!HashPair(a, b) = HashPair(a, b) /\ Copy!HashPair(a, b) = HashPair(a, b)
  BY <1>1, <1>2, <1>5 DEF HashPair, Own!HashPair, Copy!HashPair
<1> QED
  BY <1>1, <1>2, <1>3, <1>4, <1>6

(* Once the jobs are reduced, each root is the node over what it covers. *)
LEMMA ReducedRoot ==
    ASSUME Inv, pc \in {"push", "carry"}, NEW w \in 1 .. Len(jobs)
    PROVE  /\ jobs[w].len = 1 /\ jobs[w].height = BATCH_LEVEL + 1
           /\ jobs[w].nodes[0] \in Node
PROOF
<1>1. /\ JobRange(jobs[w]) /\ jobs[w].height = target /\ target = BATCH_LEVEL + 1
      /\ jobs \in Seq(JobType)
  BY DEF Inv, Jobs, Control, TypeOK
<1>2. Pow[target - jobs[w].height] = 1
  <2>1. target - jobs[w].height = 0
    BY <1>1, ConstFacts
  <2> QED BY <2>1, TreeAssumption
<1>3. jobs[w].len = 1
  BY <1>1, <1>2 DEF JobRange
<1>4. jobs[w] \in JobType
  BY <1>1
<1>5. 0 \in 0 .. BATCH_LEAVES - 1
  BY ConstFacts
<1> QED
  BY <1>1, <1>3, <1>4, <1>5 DEF JobType

(* The roots a write pushes are full batches that follow the stack. *)
LEMMA PushedRoot ==
    ASSUME Inv, pc = "push", next <= Len(jobs), caller \in {"flush", "group"}
    PROVE  /\ StackEnd \in Nat
           /\ jobs[next].nodes[0] = Extent(BATCH_LEVEL + 1, StackEnd,
                                           StackEnd + Span(BATCH_LEVEL))
           /\ stack.count + Pow[BATCH_LEVEL] <= 2 * Pow[PAYLOAD_LEVEL]
PROOF
<1> DEFINE S == Span(BATCH_LEVEL)
<1>1. /\ next \in 1 .. Len(jobs) /\ S \in Nat \ {0} /\ Len(jobs) \in Nat
      /\ base \in Nat /\ bytes_written \in 0 .. MAX_PAYLOAD_SIZE /\ read_pos \in Nat
      /\ input \in [first : Nat, len : Nat] /\ stack.count \in Nat
  <2>1. next \in 1 .. Len(jobs) /\ Len(jobs) \in Nat
    <3>1. jobs \in Seq(JobType) /\ next \in 1 .. Len(jobs) + 1
      BY DEF Inv, Control, TypeOK
    <3> QED BY <3>1
  <2>2. S \in Nat \ {0}
    BY ConstFacts
  <2> QED BY <2>1, <2>2 DEF Inv, TypeOK
<1>2. StackEnd \in Nat
  BY <1>1, ConstFacts DEF StackEnd
<1>3. JobStart(next) = StackEnd /\ JobStart(next + 1) = StackEnd + S
  <2>1. RootsDone = next - 1
    BY DEF RootsDone
  <2>2. next - 1 - (next - 1) = 0 /\ next + 1 - 1 - (next - 1) = 1
    BY <1>1
  <2>3. 0 * S = 0 /\ 1 * S = S
    BY <1>1
  <2> HIDE DEF S
  <2> QED BY <1>1, <1>2, <2>1, <2>2, <2>3 DEF JobStart, S
<1>4. JobCovers(jobs[next], StackEnd, StackEnd + S)
  BY <1>1, <1>3 DEF Inv, Jobs
<1>5. jobs[next].nodes[0] = Extent(BATCH_LEVEL + 1, StackEnd, StackEnd + S)
  <2>1. jobs[next].len = 1 /\ jobs[next].height = BATCH_LEVEL + 1
    BY <1>1, ReducedRoot
  <2>2. StackEnd + S \in Nat /\ StackEnd < StackEnd + S
    BY <1>1, <1>2
  <2> QED BY <1>2, <1>4, <2>1, <2>2, CoveredRoot
<1>6. StackEnd + S <= PayloadEnd
  <2>1. /\ input.first + input.len = base + bytes_written /\ read_pos <= input.len
        /\ caller = "flush" => Len(jobs) = 1 /\ 2 * (input.first + read_pos) = JobStart(2)
        /\ caller = "group" => /\ 2 * (input.first + read_pos) = JobStart(1)
                               /\ read_pos + Len(jobs) * BATCH_BYTES <= input.len
    BY DEF Inv, Placed, Writing
  <2>2. CASE caller = "flush"
    <3>0. Len(jobs) = 1 /\ next \in 1 .. Len(jobs)
      BY <1>1, <2>1, <2>2
    <3>1. next = 1 /\ next + 1 = 2
      BY <3>0
    <3>2. 2 * (input.first + read_pos) = StackEnd + S
      BY <1>3, <2>1, <2>2, <3>1
    <3> QED BY <1>1, <2>1, <3>2 DEF PayloadEnd
  <2>3. CASE caller = "group"
    <3> DEFINE n == Len(jobs)
               m == next - 1
               B == BATCH_BYTES
    <3>1. B \in Nat \ {0} /\ S = 2 * B /\ n \in Nat /\ m \in Nat /\ m + 1 <= n
      BY <1>1, ConstFacts
    <3>2. JobStart(1) = StackEnd - m * S
      <4>1. RootsDone = m /\ 1 - 1 - m = - m
        BY <1>1 DEF RootsDone
      <4>2. (- m) * S = - (m * S) /\ m * S \in Nat
        BY <3>1
      <4> HIDE DEF m, S
      <4> QED BY <1>2, <4>1, <4>2 DEF JobStart, S
    <3>3. (m + 1) * B <= n * B /\ (m + 1) * B = m * B + B /\ m * B \in Nat /\ n * B \in Nat
      <4> HIDE DEF n, m, B
      <4>1. PICK c \in Nat : n = m + 1 + c
        <5>1. n - m - 1 \in Nat /\ n = m + 1 + (n - m - 1)
          BY <3>1
        <5> QED BY <5>1
      <4>2. (m + 1 + c) * B = (m + 1) * B + c * B /\ c * B \in Nat
        BY <3>1, <4>1
      <4>3. (m + 1) * B = m * B + B /\ m * B \in Nat /\ n * B \in Nat
        BY <3>1
      <4>4. n * B = (m + 1) * B + c * B
        BY <4>1, <4>2
      <4> QED BY <3>1, <4>2, <4>3, <4>4
    <3>4. m * S = 2 * (m * B)
      <4> HIDE DEF m, B, S
      <4> QED BY <3>1
    <3>5. read_pos + n * B <= input.len /\ 2 * (input.first + read_pos) = StackEnd - m * S
      BY <2>1, <2>3, <3>2
    <3> HIDE DEF n, m, B, S
    <3> QED
      BY <1>1, <1>2, <2>1, <3>1, <3>3, <3>4, <3>5 DEF PayloadEnd
  <2> QED BY <2>2, <2>3
<1>7. stack.count + Pow[BATCH_LEVEL] <= 2 * Pow[PAYLOAD_LEVEL]
  <2> DEFINE c == stack.count + Pow[BATCH_LEVEL]
             M == 2 * Pow[PAYLOAD_LEVEL]
  <2>1. c \in Nat /\ M \in Nat /\ LeafSpan \in Nat \ {0}
    <3>1. Pow[BATCH_LEVEL] \in Nat
      BY ConstFacts
    <3>2. M \in Nat
      BY LimitFacts
    <3>3. c \in Nat
      BY <1>1, <3>1
    <3>4. LeafSpan \in Nat \ {0}
      BY TreeAssumption
    <3> HIDE DEF c, M
    <3> QED BY <3>2, <3>3, <3>4
  <2>2. StackEnd + S = 2 * base + LeafSpan * c
    <3>1. LeafSpan * c = LeafSpan * stack.count + LeafSpan * Pow[BATCH_LEVEL]
      BY <1>1, ConstFacts
    <3> QED BY <1>1, <3>1, ConstFacts DEF StackEnd
  <2>3. PayloadEnd <= 2 * base + LeafSpan * M
    BY <1>1, LimitFacts DEF PayloadEnd
  <2> HIDE DEF c, M
  <2>4. LeafSpan * c <= LeafSpan * M
    <3>1. LeafSpan * c \in Nat /\ LeafSpan * M \in Nat
      BY <2>1
    <3> HIDE DEF S
    <3> QED BY <1>1, <1>2, <1>6, <2>2, <2>3, <3>1 DEF PayloadEnd
  <2>5. c <= M
    <3>1. SUFFICES ASSUME M < c PROVE FALSE
      BY <2>1
    <3>2. PICK a \in Nat : c = M + 1 + a
      <4>1. c - M - 1 \in Nat /\ c = M + 1 + (c - M - 1)
        BY <2>1, <3>1
      <4> QED BY <4>1
    <3>3. LeafSpan * c = LeafSpan * M + LeafSpan + LeafSpan * a
          /\ LeafSpan * a \in Nat /\ LeafSpan * M \in Nat
      BY <2>1, <3>2
    <3> QED BY <2>1, <2>4, <3>3
  <2> QED BY <2>5 DEF c, M
<1> QED
  BY <1>2, <1>5, <1>7

-----------------------------------------------------------------------------
(* self.stack: every step is one of SubtreeStack or leaves it alone. *)

LEMMA OwnPush ==
    ASSUME Inv, Push, caller # "build"
    PROVE  Own!Next
PROOF
<1> DEFINE e == StackEnd + Span(BATCH_LEVEL)
<1>1. /\ pc = "push" /\ next <= Len(jobs)
      /\ stack' = [stack EXCEPT !.count = @ + Pow[BATCH_LEVEL]]
      /\ node' = jobs[next].nodes[0] /\ level' = BATCH_LEVEL /\ pc' = "carry"
      /\ caller' = caller /\ base' = base /\ caller \in {"flush", "group"}
      /\ stack \in [nodes : StackNodes, count : Nat] /\ base \in Nat
      /\ stack.count % BATCH_LEAVES = 0
  BY DEF Push, SetTarget, Target, Inv, Control, TypeOK, Placed
<1>2. /\ StackEnd \in Nat /\ node' = Extent(BATCH_LEVEL + 1, StackEnd, e)
      /\ stack.count + Pow[BATCH_LEVEL] <= 2 * Pow[PAYLOAD_LEVEL]
  BY <1>1, PushedRoot
<1>3. /\ Span(BATCH_LEVEL) \in Nat \ {0} /\ Pow[BATCH_LEVEL] \in Nat \ {0}
      /\ BATCH_LEVEL \in Slots /\ Pow[BATCH_LEVEL] = BATCH_LEAVES
      /\ Span(BATCH_LEVEL) = LeafSpan * Pow[BATCH_LEVEL]
      /\ LeafSpan \in Nat \ {0}
  BY ConstFacts, SpanFacts
<1>4. stack'.count = stack.count + Pow[BATCH_LEVEL]
  BY <1>1
<1>5. LeafSpan * (stack.count + Pow[BATCH_LEVEL])
         = LeafSpan * stack.count + Span(BATCH_LEVEL)
  BY <1>1, <1>3
<1>6. /\ Own!Pos(stack.count) = StackEnd
      /\ Own!Pos(stack.count + Pow[BATCH_LEVEL]) = e
  BY <1>1, <1>3, <1>5 DEF Own!Pos, StackEnd
<1>7. (2 * base + LeafSpan * stack.count)' = e
  BY <1>1, <1>3, <1>4, <1>5 DEF StackEnd
<1>8. LiveCarry' /\ ~ LiveCarry
  BY <1>1 DEF LiveCarry
<1>9. StackEnd < e
  BY <1>2, <1>3
<1>10. Own!BeginPush(BATCH_LEVEL, e)
  <2>1. node' = Own!Extent(BATCH_LEVEL + 1, StackEnd, e)
    BY <1>2, SameNames
  <2> HIDE DEF e
  <2>2. /\ 2 * base + LeafSpan * stack.count = StackEnd
        /\ (2 * base + LeafSpan * stack.count)' = e
    BY <1>7 DEF StackEnd
  <2>3. /\ (IF LiveCarry THEN "push" ELSE "idle") = "idle"
        /\ (IF LiveCarry THEN "push" ELSE "idle")' = "push"
        /\ (IF LiveCarry THEN node ELSE Junk)' = Own!Extent(BATCH_LEVEL + 1, StackEnd, e)
        /\ (IF LiveCarry THEN level ELSE 0)' = BATCH_LEVEL
    BY <1>1, <1>8, <2>1
  <2>4. stack.count % Pow[BATCH_LEVEL] = 0
    BY <1>1, <1>3
  <2>5. StackEnd < e /\ e <= Own!Pos(stack.count + Pow[BATCH_LEVEL])
        /\ StackEnd = Own!Pos(stack.count)
    BY <1>2, <1>3, <1>6, <1>9 DEF e
  <2>6. (2 * base)' = 2 * base
    BY <1>1
  <2> QED
    BY <1>1, <1>2, <2>2, <2>3, <2>4, <2>5, <2>6, SameNames DEF Own!BeginPush, Own!NoResult
<1>11. BATCH_LEVEL \in Own!Slots /\ e \in StackEnd + 1 .. StackEnd + Own!Span(BATCH_LEVEL)
  BY <1>2, <1>3, SameNames
<1> HIDE DEF e
<1> QED
  BY <1>10, <1>11 DEF Own!Next, StackEnd

LEMMA OwnCarry ==
    ASSUME Inv, Merge \/ Store, caller # "build"
    PROVE  Own!Next
PROOF
<1>1. LiveCarry /\ pc = "carry" /\ caller' = caller /\ base' = base
  BY DEF Merge, Store, LiveCarry
<1>2. CASE Merge
  <2>1. /\ pc' = "carry" /\ stack' = stack /\ level' = level + 1
        /\ Own!Bit(stack.count, level) = 0
        /\ node' = Own!HashPair(stack.nodes[level], node)
    BY <1>1, <1>2, SameNames DEF Merge, Target, LiveCarry, self
  <2> QED
    BY <1>1, <2>1 DEF Own!Merge, Own!PushStep, Own!Next, LiveCarry
<1>3. CASE Store
  <2>1. /\ pc' = "push" /\ stack' = [stack EXCEPT !.nodes[level] = node]
        /\ stack \in [nodes : StackNodes, count : Nat]
        /\ Own!Bit(stack.count, level) = 1
    BY <1>1, <1>3, SameNames DEF Store, Target, SetTarget, LiveCarry, Inv, TypeOK
  <2>2. stack'.count = stack.count
    BY <2>1
  <2> QED
    BY <1>1, <2>1, <2>2, SameNames DEF Own!Store, Own!PushStep, Own!Next, LiveCarry
<1> QED
  BY <1>2, <1>3

LEMMA OwnReset ==
    ASSUME Inv, Reset
    PROVE  Own!Next
PROOF
<1> DEFINE skip == 2 * (bytes_written - Stacked)
           S == Stacked
<1>1. /\ pc = "idle" /\ base + bytes_written <= MaxBase
      /\ stack' = [stack EXCEPT !.count = 0] /\ base' = base + bytes_written
      /\ pc' = pc /\ caller' = caller
      /\ stack \in [nodes : StackNodes, count : Nat] /\ base \in Nat
      /\ bytes_written \in 0 .. MAX_PAYLOAD_SIZE
      /\ batch \in Seq(Quads) /\ offset \in 0 .. Q - 1
      /\ stack.count % BATCH_LEAVES = 0 /\ BatchPlaced /\ BufferPlaced
  <2>1. ~ Writing
    BY DEF Reset, Writing, Inv, Control
  <2> QED BY <2>1 DEF Reset, Inv, TypeOK, Placed
<1>2. /\ MaxBase \in Nat /\ BATCH_BYTES \in Nat /\ BATCH_BYTES = BATCH_QUADS * Q
      /\ Q \in Nat \ {0} /\ LeafSpan = Q /\ BATCH_QUADS \in Nat \ {0}
      /\ MAX_PAYLOAD_SIZE \in Nat
  BY ConstFacts, LimitFacts, HasherAssumption
<1>3. S \in Nat /\ 2 * S = LeafSpan * stack.count
  <2> DEFINE c == stack.count
             m == c \div 2
  <2>1. c \in Nat
    BY <1>1
  <2>2. c % 2 = 0
    <3>1. 1 \in 0 .. MAX_LEVEL /\ BATCH_LEVEL \in 1 .. MAX_LEVEL
      BY ConstFacts, TreeAssumption
    <3>2. 0 \in Slots /\ 0 < BATCH_LEVEL
      BY ConstFacts, TreeAssumption DEF Slots
    <3>3. c % Pow[BATCH_LEVEL] = 0
      BY <1>1, ConstFacts
    <3>4. Bit(c, 0) = 0
      BY <2>1, <3>2, <3>3, BitsBelow, ConstFacts
    <3> HIDE DEF c
    <3>5. \A x \in Nat : x \div 1 = x
      OBVIOUS
    <3>6. Pow[0] = 1
      BY TreeAssumption
    <3> QED BY <2>1, <3>4, <3>5, <3>6 DEF Bit
  <2>3. m \in Nat /\ c = 2 * m
    BY <2>1, <2>2
  <2> HIDE DEF c, m
  <2>4. LeafSpan * (2 * m) = 2 * (m * Q) /\ m * Q \in Nat
    BY <1>2, <2>3
  <2> QED BY <2>3, <2>4 DEF Stacked, c, m
<1>4. bytes_written - S \in 0 .. BATCH_BYTES
  <2> DEFINE n == Len(batch)
  <2>1. n \in Nat /\ n + 1 <= BATCH_QUADS /\ bytes_written = S + n * Q + offset
    BY <1>1, <1>2 DEF BatchPlaced, BufferPlaced
  <2> HIDE DEF n, S
  <2>2. PICK a \in Nat : BATCH_QUADS = n + 1 + a
    <3>1. BATCH_QUADS - n - 1 \in Nat /\ BATCH_QUADS = n + 1 + (BATCH_QUADS - n - 1)
      BY <1>2, <2>1
    <3> QED BY <3>1
  <2>3. BATCH_BYTES = n * Q + Q + a * Q /\ n * Q \in Nat /\ a * Q \in Nat
    BY <1>2, <2>1, <2>2
  <2>4. BATCH_BYTES \in Nat /\ offset \in Nat /\ offset <= Q /\ S \in Nat
    BY <1>1, <1>2, <1>3
  <2> DEFINE x == n * Q
             y == a * Q
  <2>5. x \in Nat /\ y \in Nat /\ BATCH_BYTES = x + Q + y /\ bytes_written = S + x + offset
    BY <2>1, <2>3
  <2> HIDE DEF x, y
  <2> QED BY <1>2, <2>4, <2>5
<1>5. skip \in 0 .. 2 * BATCH_BYTES
  <2> HIDE DEF S
  <2>1. skip = 2 * (bytes_written - S)
    BY DEF S
  <2> HIDE DEF skip
  <2> QED BY <1>2, <1>4, <2>1
<1>6. 2 * base + LeafSpan * stack.count + skip = 2 * (base + bytes_written)
  <2> HIDE DEF S
  <2>1. skip = 2 * (bytes_written - S)
    BY DEF S
  <2> HIDE DEF skip
  <2> QED BY <1>1, <1>2, <1>3, <2>1
<1>7. (2 * base + LeafSpan * stack.count)' = 2 * (base + bytes_written)
  BY <1>1, <1>2
<1>8. 2 * base <= 2 * MaxBase
  BY <1>1, <1>2
<1>9. ~ LiveCarry /\ ~ LiveCarry'
  BY <1>1 DEF LiveCarry
<1>10. Own!Reset(skip)
  <2> HIDE DEF skip
  <2>1. /\ (IF LiveCarry THEN "push" ELSE "idle") = "idle"
        /\ (IF LiveCarry THEN "push" ELSE "idle")' = "idle"
        /\ (IF LiveCarry THEN node ELSE Junk)' = (IF LiveCarry THEN node ELSE Junk)
        /\ (IF LiveCarry THEN level ELSE 0)' = (IF LiveCarry THEN level ELSE 0)
    BY <1>9
  <2>2. /\ (2 * base)' = 2 * base + LeafSpan * stack.count + skip
        /\ (2 * base + LeafSpan * stack.count)' = 2 * base + LeafSpan * stack.count + skip
    BY <1>1, <1>6, <1>7
  <2> QED BY <1>1, <1>8, <2>1, <2>2, SameNames DEF Own!Reset, Own!NoResult
<1> HIDE DEF skip
<1> QED
  BY <1>5, <1>10 DEF Own!Next

(* The steps that do not touch self.stack. *)
LEMMA OwnStutter ==
    ASSUME stack' = stack, base' = base, ~ LiveCarry, ~ LiveCarry'
    PROVE  UNCHANGED Own!vars
PROOF
<1>1. /\ (IF LiveCarry THEN "push" ELSE "idle")' = (IF LiveCarry THEN "push" ELSE "idle")
      /\ (IF LiveCarry THEN node ELSE Junk)' = (IF LiveCarry THEN node ELSE Junk)
      /\ (IF LiveCarry THEN level ELSE 0)' = (IF LiveCarry THEN level ELSE 0)
      /\ (2 * base)' = 2 * base
      /\ (2 * base + LeafSpan * stack.count)' = 2 * base + LeafSpan * stack.count
  OBVIOUS
<1> QED
  BY <1>1 DEF Own!vars

(* What a write does, before any of its quads is pushed. *)
LEMMA WriteFrame ==
    ASSUME NEW len \in WriteSizes,
           WriteRefused(len) \/ WriteNothing(len) \/ WriteFast(len) \/ WriteBulk(len)
    PROVE  /\ pc = "idle" /\ pc' \in {"idle", "write", "reduce"}
           /\ UNCHANGED <<stack, base, level, node, top, local>>
PROOF
<1>1. CASE WriteRefused(len)
  BY <1>1 DEF WriteRefused, self, tree
<1>2. CASE WriteNothing(len)
  BY <1>2 DEF WriteNothing, WriteAccepted, tree
<1>3. CASE WriteFast(len)
  BY <1>3 DEF WriteFast, WriteAccepted, tree
<1>4. CASE WriteBulk(len)
  BY <1>4 DEF WriteBulk, WriteAccepted, tree, PushQuad
<1> QED
  BY <1>1, <1>2, <1>3, <1>4

(* One case per action: what has to be shown for Next is shown for each. *)
LEMMA OwnStep ==
    ASSUME Inv, [Next]_vars
    PROVE  [Own!Next]_(Own!vars)
PROOF
<1>0. Control
  BY DEF Inv
<1>1. CASE UNCHANGED vars
  <2>1. /\ stack' = stack /\ base' = base /\ pc' = pc /\ caller' = caller
        /\ node' = node /\ level' = level
    BY <1>1 DEF vars, self, tree
  <2>2. (LiveCarry)' = LiveCarry
    BY <2>1 DEF LiveCarry
  <2> QED BY <2>1, <2>2 DEF Own!vars
<1>2. ASSUME NEW len \in WriteSizes,
             WriteRefused(len) \/ WriteNothing(len) \/ WriteFast(len) \/ WriteBulk(len)
      PROVE  UNCHANGED Own!vars
  BY <1>2, WriteFrame, OwnStutter DEF LiveCarry
<1>3. ASSUME NEW steps \in 0 .. BATCH_LEVEL, BuildSmall(steps)
      PROVE  UNCHANGED Own!vars
  BY <1>3, OwnStutter DEF LiveCarry, BuildSmall, self
<1>4. CASE BuildPadded
  <2>1. pc = "idle" /\ pc' \in {"reduce", "fold"} /\ stack' = stack /\ base' = base
    BY <1>4 DEF BuildPadded, self
  <2> QED BY <2>1, OwnStutter DEF LiveCarry
<1>5. CASE Reset
  BY <1>5, OwnReset
<1>6. CASE WriteQuad
  <2>1. pc = "write" /\ pc' \in {"write", "reduce"} /\ stack' = stack /\ base' = base
    BY <1>6 DEF WriteQuad, PushQuad
  <2> QED BY <2>1, OwnStutter DEF LiveCarry
<1>7. CASE WriteGroup
  BY <1>7, OwnStutter DEF LiveCarry, WriteGroup, self
<1>8. CASE WriteTail
  BY <1>8, OwnStutter DEF LiveCarry, WriteTail
<1>9. ASSUME NEW w \in 1 .. Len(jobs), Reduce(w)
      PROVE  UNCHANGED Own!vars
  BY <1>9, OwnStutter DEF LiveCarry, Reduce, self
<1>10. CASE Reduced
  BY <1>10, OwnStutter DEF LiveCarry, Reduced, self
<1>11. CASE Push
  <2>1. CASE caller = "build"
    <3>1. stack' = stack /\ base' = base /\ caller' = "build"
      BY <1>11, <2>1 DEF Push, SetTarget, Target
    <3> QED BY <2>1, <3>1, OwnStutter DEF LiveCarry
  <2> QED BY <1>11, <2>1, OwnPush
<1>12. CASE Merge \/ Store
  <2>1. CASE caller = "build"
    <3>1. stack' = stack /\ base' = base /\ caller' = "build"
      BY <1>12, <2>1 DEF Merge, Store, SetTarget, Target, self
    <3> QED BY <2>1, <3>1, OwnStutter DEF LiveCarry
  <2> QED BY <1>12, <2>1, OwnCarry
<1>13. CASE Pushed
  <2>1. pc = "push" /\ pc' \in {"fold", "write"} /\ stack' = stack /\ base' = base
    BY <1>13 DEF Pushed
  <2> QED BY <2>1, OwnStutter DEF LiveCarry
<1>14. CASE ReturnSmall
  BY <1>14, OwnStutter DEF LiveCarry, ReturnSmall, Return, self
<1>15. ASSUME NEW t \in Slots, FoldWhole(t)
       PROVE  UNCHANGED Own!vars
  BY <1>15, OwnStutter DEF LiveCarry, FoldWhole, Return, self
<1>16. ASSUME NEW t \in Slots, NEW low \in Slots, BeginFold(t, low)
       PROVE  UNCHANGED Own!vars
  BY <1>16, OwnStutter DEF LiveCarry, BeginFold, self
<1>17. CASE FoldUp
  BY <1>17, OwnStutter DEF LiveCarry, FoldUp, self
<1>18. CASE EndFold
  BY <1>18, OwnStutter DEF LiveCarry, EndFold, Return, self
<1> HIDE DEF LiveCarry
<1> QED
  BY <1>1, <1>2, <1>3, <1>4, <1>5, <1>6, <1>7, <1>8, <1>9, <1>10, <1>11, <1>12,
     <1>13, <1>14, <1>15, <1>16, <1>17, <1>18 DEF Next, Write, CallStep

LEMMA OwnInvStep ==
    ASSUME Inv, [Next]_vars
    PROVE  Own!Inv'
PROOF
<1>1. Own!Inv
  BY DEF Inv
<1>2. [Own!Next]_(Own!vars)
  BY OwnStep
<1> QED
  BY <1>1, <1>2, Own!NextInv, TreeAssumption, StackInstance

-----------------------------------------------------------------------------
(* Where a call is, and its locals. *)

(* A queued quad: the batch is full and is hashed, or the loop goes on. *)
LEMMA PushQuadFrame ==
    ASSUME NEW quad, PushQuad(quad)
    PROVE  /\ batch' = Append(batch, quad)
           /\ \/ /\ Len(batch) + 1 = BATCH_QUADS
                 /\ pc' = "reduce" /\ caller' = "flush"
                 /\ jobs' = <<Job(batch')>> /\ Len(jobs') = 1 /\ jobs'[1] = Job(batch')
                 /\ target' = BATCH_LEVEL + 1 /\ next' = 1
              \/ /\ Len(batch) + 1 # BATCH_QUADS
                 /\ pc' = "write" /\ UNCHANGED <<caller, jobs, target, next>>
PROOF
<1>1. ASSUME NEW j PROVE Len(<<j>>) = 1 /\ <<j>>[1] = j
  OBVIOUS
<1> QED
  BY <1>1 DEF PushQuad

(* The ways in: bulk writes end in a full batch or in the loop. *)
LEMMA WriteBulkFrame ==
    ASSUME NEW len \in WriteSizes, WriteBulk(len)
    PROVE  /\ pc = "idle" /\ caller \in {caller, "flush"}
           /\ \/ pc' = "write" /\ UNCHANGED <<caller, jobs, target, next>>
              \/ /\ pc' = "reduce" /\ caller' = "flush" /\ Len(jobs') = 1 /\ next' = 1
           /\ UNCHANGED <<stack, base, level, node, top, local>>
PROOF
<1>1. CASE offset > 0
  <2>1. PushQuad(buffer')
    BY <1>1 DEF WriteBulk
  <2> QED BY <1>1, <2>1, PushQuadFrame DEF WriteBulk, WriteAccepted, tree
<1>2. CASE ~ (offset > 0)
  BY <1>2 DEF WriteBulk, WriteAccepted, tree
<1> QED
  BY <1>1, <1>2

(* push_batches_parallel takes at least one batch and no more than a group. *)
LEMMA WriteGroupFrame ==
    ASSUME Inv, WriteGroup
    PROVE  /\ GroupSize \in 1 .. PARALLEL_GROUP
           /\ read_pos + GroupSize * BATCH_BYTES <= input.len
           /\ Len(jobs') \in Nat /\ Len(jobs') = GroupSize
           /\ \A w \in 1 .. GroupSize : 
                 jobs'[w] = Job([q \in 1 .. BATCH_QUADS |->
                         InputQuad(input, read_pos + (w - 1) * BATCH_BYTES + (q - 1) * Q)])
PROOF
<1> DEFINE rest == input.len - read_pos
           B == BATCH_BYTES
           full == rest \div B
<1>1. rest \in Nat /\ read_pos \in Nat /\ input.len \in Nat
  <2>1. pc = "write" /\ read_pos <= input.len
    BY DEF WriteGroup, Inv, Placed, Writing
  <2>2. input \in [first : Nat, len : Nat] /\ read_pos \in Nat
    BY DEF Inv, TypeOK
  <2> QED BY <2>1, <2>2
<1>2. B \in Nat \ {0} /\ PARALLEL_GROUP \in Nat \ {0} /\ PARALLEL_MIN_BATCHES \in Nat \ {0}
  BY ConstFacts, HasherAssumption
<1>3. rest >= PARALLEL_MIN_BATCHES * B
  BY DEF WriteGroup, UseWorkers
<1>4. GroupSize = IF full < PARALLEL_GROUP THEN full ELSE PARALLEL_GROUP
  BY DEF GroupSize
<1> HIDE DEF rest, B
<1>5. full \in Nat /\ B * full <= rest
  <2>1. full \in Nat /\ rest % B \in Nat /\ rest = B * full + (rest % B)
    BY <1>1, <1>2, DivMod
  <2>2. B * full \in Nat
    BY <1>2, <2>1
  <2> QED BY <1>1, <2>1, <2>2
<1>6. full # 0
  <2>1. SUFFICES ASSUME full = 0 PROVE FALSE
    OBVIOUS
  <2>2. rest % B \in Nat /\ rest % B < B /\ rest = B * full + (rest % B)
    BY <1>1, <1>2, DivMod
  <2>3. B * full = 0
    BY <1>2, <2>1
  <2>4. PICK c \in Nat : PARALLEL_MIN_BATCHES = c + 1
    <3>1. PARALLEL_MIN_BATCHES - 1 \in Nat /\ PARALLEL_MIN_BATCHES = (PARALLEL_MIN_BATCHES - 1) + 1
      BY <1>2
    <3> QED BY <3>1
  <2>5. PARALLEL_MIN_BATCHES * B = c * B + B /\ c * B \in Nat
    BY <1>2, <2>4
  <2> HIDE DEF full
  <2> QED BY <1>1, <1>2, <1>3, <2>2, <2>3, <2>5
<1> HIDE DEF full
<1>7. GroupSize \in 1 .. PARALLEL_GROUP /\ GroupSize <= full
  BY <1>2, <1>4, <1>5, <1>6
<1>8. GroupSize * B <= rest
  <2> DEFINE g == GroupSize
  <2>1. g \in Nat /\ g <= full
    BY <1>2, <1>7
  <2> HIDE DEF g
  <2>2. PICK c \in Nat : full = g + c
    <3>1. full - g \in Nat /\ full = g + (full - g)
      BY <1>5, <2>1
    <3> QED BY <3>1
  <2>3. B * full = g * B + c * B /\ c * B \in Nat /\ g * B \in Nat
    BY <1>2, <2>1, <2>2
  <2> QED BY <1>1, <1>5, <2>3 DEF g
<1>9. read_pos + GroupSize * BATCH_BYTES <= input.len
  <2>1. GroupSize * B \in Nat
    BY <1>2, <1>7
  <2>2. rest = input.len - read_pos
    BY DEF rest
  <2> QED BY <1>1, <1>8, <2>1, <2>2 DEF B
<1>10. /\ Len(jobs') \in Nat /\ Len(jobs') = GroupSize
       /\ \A w \in 1 .. GroupSize : 
             jobs'[w] = Job([q \in 1 .. BATCH_QUADS |->
                         InputQuad(input, read_pos + (w - 1) * BATCH_BYTES + (q - 1) * Q)])
  <2> DEFINE J(w) == Job([q \in 1 .. BATCH_QUADS |->
                         InputQuad(input, read_pos + (w - 1) * BATCH_BYTES + (q - 1) * Q)])
             g == GroupSize
  <2>1. jobs' = [w \in 1 .. g |-> J(w)]
    BY DEF WriteGroup
  <2>2. g \in Nat
    BY <1>2, <1>7
  <2> HIDE DEF J, g
  <2>3. Len(jobs') = g /\ \A w \in 1 .. g : jobs'[w] = J(w)
    BY <2>1, <2>2
  <2> QED BY <2>2, <2>3 DEF J, g
<1> QED
  BY <1>7, <1>9, <1>10

LEMMA ControlStep ==
    ASSUME Inv, [Next]_vars
    PROVE  Control'
PROOF
<1>0. Control
  BY DEF Inv
<1>s. /\ Len(jobs) \in Nat /\ level \in Nat /\ next \in Nat
      /\ caller \in {"", "flush", "group", "small", "build"}
  <2>1. jobs \in Seq(JobType)
    BY DEF Inv, TypeOK
  <2>2. /\ level \in Nat /\ next \in Nat
        /\ caller \in {"", "flush", "group", "small", "build"}
    BY DEF Inv, TypeOK
  <2> HIDE DEF JobType
  <2>3. Len(jobs) \in Nat
    BY <2>1
  <2> QED BY <2>2, <2>3
<1>1. CASE UNCHANGED vars
  BY <1>0, <1>1 DEF vars, self, tree, Control
<1>2. ASSUME NEW len \in WriteSizes, WriteRefused(len) PROVE Control'
  BY <1>0, <1>2 DEF WriteRefused, self, tree, Control
<1>3. ASSUME NEW len \in WriteSizes, WriteNothing(len) \/ WriteFast(len) PROVE Control'
  BY <1>0, <1>3 DEF WriteNothing, WriteFast, WriteAccepted, tree, Control
<1>4. ASSUME NEW len \in WriteSizes, WriteBulk(len) PROVE Control'
  <2>1. pc = "idle" /\ UNCHANGED <<level, node, top>>
    BY <1>4, WriteBulkFrame
  <2>2. caller = "" /\ jobs = <<>> /\ target = 0 /\ next = 0
        /\ level = 0 /\ node = Junk /\ top = 0
    BY <1>0, <1>s, <2>1 DEF Control
  <2>3. CASE pc' = "write" /\ UNCHANGED <<caller, jobs, target, next>>
    BY <2>1, <2>2, <2>3 DEF Control
  <2>4. CASE pc' = "reduce" /\ caller' = "flush" /\ Len(jobs') = 1 /\ next' = 1
    <3>1. next' \in 1 .. Len(jobs') + 1 /\ next' \in {0, 1}
      BY <2>4
    <3> QED BY <2>1, <2>2, <2>4, <3>1 DEF Control
  <2> QED BY <1>4, <2>3, <2>4, WriteBulkFrame
<1>5. ASSUME NEW steps \in 0 .. BATCH_LEVEL, BuildSmall(steps) PROVE Control'
  BY <1>0, <1>5 DEF BuildSmall, self, tree, Control
<1>6. CASE BuildPadded
  <2>1. pc = "idle" /\ caller' = "build" /\ UNCHANGED <<level, node, top>>
    BY <1>6 DEF BuildPadded, tree
  <2>2. jobs = <<>> /\ target = 0 /\ next = 0 /\ level = 0 /\ node = Junk /\ top = 0
    BY <1>0, <2>1 DEF Control
  <2>3. CASE BuildQuads # <<>>
    <3>1. jobs' = <<Job(BuildQuads)>> /\ next' = 1 /\ pc' = "reduce"
      BY <1>6, <2>3 DEF BuildPadded
    <3>2. Len(jobs') = 1
      <4>1. ASSUME NEW j PROVE Len(<<j>>) = 1
        OBVIOUS
      <4> QED BY <3>1, <4>1
    <3>3. next' \in 1 .. Len(jobs') + 1 /\ next' \in {0, 1}
      BY <3>1, <3>2
    <3> QED BY <2>1, <2>2, <3>1, <3>3 DEF Control
  <2>4. CASE BuildQuads = <<>>
    <3>1. pc' = "fold" /\ UNCHANGED <<jobs, target, next>>
      BY <1>6, <2>4 DEF BuildPadded
    <3> QED BY <2>1, <2>2, <3>1 DEF Control
  <2> QED BY <2>3, <2>4
<1>7. CASE Reset
  BY <1>0, <1>7 DEF Reset, tree, Control
<1>8. CASE WriteQuad
  <2>1. PushQuad(InputQuad(input, read_pos)) /\ pc = "write"
        /\ UNCHANGED <<level, node, top>>
    BY <1>8 DEF WriteQuad, tree
  <2>2. /\ caller \in {"", "flush", "group"} /\ jobs = <<>> /\ target = 0 /\ next = 0
        /\ level = 0 /\ node = Junk /\ top = 0
    BY <1>0, <1>s, <2>1 DEF Control
  <2>3. CASE pc' = "write" /\ UNCHANGED <<caller, jobs, target, next>>
    BY <2>1, <2>2, <2>3 DEF Control
  <2>4. CASE pc' = "reduce" /\ caller' = "flush" /\ Len(jobs') = 1 /\ next' = 1
    <3>1. next' \in 1 .. Len(jobs') + 1 /\ next' \in {0, 1}
      BY <2>4
    <3> QED BY <2>1, <2>2, <2>4, <3>1 DEF Control
  <2> QED BY <2>1, <2>3, <2>4, PushQuadFrame
<1>9. CASE WriteGroup
  <2>1. Len(jobs') \in Nat
    BY <1>9, WriteGroupFrame
  <2>2. pc' = "reduce" /\ caller' = "group" /\ next' = 1
        /\ UNCHANGED <<level, node, top>> /\ pc = "write"
    BY <1>9 DEF WriteGroup, tree
  <2>3. level = 0 /\ node = Junk /\ top = 0
    BY <1>0, <2>2 DEF Control
  <2>4. next' \in 1 .. Len(jobs') + 1
    BY <2>1, <2>2
  <2> QED BY <2>2, <2>3, <2>4 DEF Control
<1>10. CASE WriteTail
  BY <1>0, <1>10 DEF WriteTail, tree, Control
<1>11. ASSUME NEW w \in 1 .. Len(jobs), Reduce(w) PROVE Control'
  <2>1. /\ jobs' = [jobs EXCEPT ![w] = ReduceLevel(@)] /\ pc = "reduce"
        /\ UNCHANGED <<pc, caller, target, next, level, node, top>>
    BY <1>11 DEF Reduce, tree
  <2>2. Len(jobs') = Len(jobs)
    <3>1. jobs \in Seq(JobType)
      BY DEF Inv, TypeOK
    <3> QED BY <2>1, <3>1
  <2> QED BY <1>0, <2>1, <2>2 DEF Control
<1>12. CASE Reduced
  BY <1>0, <1>12 DEF Reduced, self, tree, Control
<1>13. CASE Push
  BY <1>0, <1>13 DEF Push, Control
<1>14. CASE Merge
  BY <1>0, <1>14 DEF Merge, Control
<1>15. CASE Store
  <2>1. /\ pc = "carry" /\ pc' = "push" /\ level' = 0 /\ node' = Junk /\ next' = next + 1
        /\ UNCHANGED <<caller, jobs, target, top>>
    BY <1>15 DEF Store
  <2>2. caller \in {"flush", "group", "build"} /\ next <= Len(jobs) /\ top = 0
    BY <1>0, <1>s, <2>1 DEF Control
  <2>3. next' \in 1 .. Len(jobs) + 1
    <3>1. next \in Nat /\ Len(jobs) \in Nat /\ next <= Len(jobs) /\ next' = next + 1
      BY <1>s, <2>1, <2>2
    <3> QED BY <3>1
  <2> QED BY <2>1, <2>2, <2>3 DEF Control
<1>16. CASE Pushed
  BY <1>0, <1>16 DEF Pushed, tree, Control
<1>17. CASE ReturnSmall
  BY <1>0, <1>17 DEF ReturnSmall, Return, Control
<1>18. ASSUME NEW t \in Slots, FoldWhole(t) PROVE Control'
  BY <1>0, <1>18 DEF FoldWhole, Return, Control
<1>19. ASSUME NEW t \in Slots, NEW low \in Slots, BeginFold(t, low) PROVE Control'
  <2>1. /\ pc = "fold" /\ pc' = "fold" /\ level' = low + 1
        /\ UNCHANGED <<caller, jobs, target, next>>
    BY <1>19 DEF BeginFold
  <2>2. level' # 0
    BY <2>1, TreeAssumption DEF Slots
  <2> QED BY <1>0, <2>1, <2>2 DEF Control
<1>20. CASE FoldUp
  <2>1. /\ pc = "fold" /\ pc' = "fold" /\ level' = level + 1 /\ level > 0
        /\ UNCHANGED <<caller, jobs, target, next>>
    BY <1>20 DEF FoldUp
  <2>2. level' # 0
    <3>1. level \in Nat /\ level' = level + 1
      BY <1>s, <2>1
    <3> QED BY <3>1
  <2> QED BY <1>0, <2>1, <2>2 DEF Control
<1>21. CASE EndFold
  BY <1>0, <1>21 DEF EndFold, Return, Control
<1> QED
  BY <1>1, <1>2, <1>3, <1>4, <1>5, <1>6, <1>7, <1>8, <1>9, <1>10, <1>11, <1>12,
     <1>13, <1>14, <1>15, <1>16, <1>17, <1>18, <1>19, <1>20, <1>21
     DEF Next, Write, CallStep

-----------------------------------------------------------------------------
(* Positions, and what a fresh job covers. *)

(* The stack holds whole batches: its leaves are two to a quad of Q bytes. *)
LEMMA WholeQuads ==
    ASSUME NEW c \in Nat, c % BATCH_LEAVES = 0
    PROVE  /\ (c \div 2) * Q \in Nat
           /\ 2 * ((c \div 2) * Q) = LeafSpan * c
           /\ (c + BATCH_LEAVES) % BATCH_LEAVES = 0
           /\ ((c + BATCH_LEAVES) \div 2) * Q = (c \div 2) * Q + BATCH_BYTES
PROOF
<1> DEFINE m == c \div 2
           B == BATCH_QUADS
<1>1. /\ B \in Nat \ {0} /\ BATCH_LEAVES = 2 * B /\ Q \in Nat \ {0} /\ LeafSpan = Q
      /\ BATCH_BYTES = B * Q /\ BATCH_LEAVES \in Nat \ {0}
  BY ConstFacts
<1>2. m \in Nat /\ c = 2 * m
  <2> DEFINE n == c \div BATCH_LEAVES
  <2>1. n \in Nat /\ c = BATCH_LEAVES * n + 0
    BY <1>1, DivMod
  <2> HIDE DEF n, B
  <2>2. BATCH_LEAVES * n + 0 = 2 * (B * n) /\ B * n \in Nat
    BY <1>1, <2>1
  <2> DEFINE x == B * n
  <2>3. x \in Nat /\ c = 2 * x
    BY <2>1, <2>2
  <2> HIDE DEF x
  <2> QED BY <2>3
<1> HIDE DEF m, B
<1>3. m * Q \in Nat /\ 2 * (m * Q) = LeafSpan * (2 * m)
  BY <1>1, <1>2
<1>4. (c + BATCH_LEAVES) % BATCH_LEAVES = 0
  BY <1>1, MultipleNext
<1>5. (c + BATCH_LEAVES) \div 2 = m + B
  BY <1>1, <1>2
<1>6. (m + B) * Q = m * Q + B * Q
  BY <1>1, <1>2
<1> QED
  BY <1>1, <1>2, <1>3, <1>4, <1>5, <1>6 DEF m

(* The first nibble not under the stack. *)
LEMMA StackEndFacts ==
    ASSUME stack.count \in Nat, base \in Nat, stack.count % BATCH_LEAVES = 0
    PROVE  Stacked \in Nat /\ StackEnd \in Nat /\ StackEnd = 2 * (base + Stacked)
PROOF
<1>1. Stacked \in Nat /\ 2 * Stacked = LeafSpan * stack.count
  BY WholeQuads DEF Stacked
<1> QED
  BY <1>1 DEF StackEnd

(* Quads that hold the bytes first .. last - 1, zeros after them, are what *)
(* batch_root and build hash: the job covers their nibbles.                *)
LEMMA JobOf ==
    ASSUME NEW quads \in Seq(Quads), Len(quads) \in 1 .. BATCH_QUADS,
           NEW first \in Nat, NEW last \in Nat,
           first <= last, last <= first + Len(quads) * Q,
           \A j \in 1 .. Len(quads) : \A i \in 0 .. Q - 1 :
              quads[j][i] = IF first + (j - 1) * Q + i < last
                            THEN first + (j - 1) * Q + i ELSE NoByte
    PROVE  /\ Job(quads) \in JobType
           /\ Job(quads).height = 1 /\ Job(quads).len = 2 * Len(quads)
           /\ Job(quads).len \in 1 .. BATCH_LEAVES
           /\ JobCovers(Job(quads), 2 * first, 2 * last)
PROOF
<1> DEFINE n == Len(quads)
           job == Job(quads)
<1>1. /\ n \in Nat \ {0} /\ n <= BATCH_QUADS /\ BATCH_QUADS \in Nat
      /\ BATCH_LEAVES = 2 * BATCH_QUADS /\ Q \in Nat \ {0}
  BY ConstFacts
<1>2. /\ job.height = 1 /\ job.len = 2 * n
      /\ \A i \in 0 .. BATCH_LEAVES - 1 :
            job.nodes[i] = IF i < 2 * n THEN Leaf(quads[i \div 2 + 1], i % 2) ELSE Zero(0)
      /\ job = [nodes |-> [i \in 0 .. BATCH_LEAVES - 1 |-> job.nodes[i]],
                len |-> job.len, height |-> job.height]
  BY DEF Job
<1>3. ASSUME NEW i \in 0 .. 2 * n - 1
      PROVE  Leaf(quads[i \div 2 + 1], i % 2) = RunNode(1, 2 * first + i * Q, 2 * last)
  <2> DEFINE d == i \div 2
             r == i % 2
             lo == first + d * Q
  <2>1. d \in Nat /\ r \in {0, 1} /\ i = 2 * d + r /\ d + 1 \in 1 .. n
    BY <1>1
  <2> HIDE DEF d, r, n
  <2>2. d * Q \in Nat /\ i * Q = 2 * (d * Q) + r * Q /\ r * Q \in Nat
    BY <1>1, <2>1
  <2>3. lo \in Nat
    BY <2>2
  <2>4. quads[d + 1] \in Quads
    BY <1>1, <2>1 DEF n
  <2>5. \A k \in 0 .. Q - 1 :
           quads[d + 1][k] = IF lo + k < last THEN lo + k ELSE NoByte
    <3>1. (d + 1) - 1 = d
      BY <2>1
    <3> QED BY <2>1, <3>1 DEF n
  <2>6. Leaf(quads[d + 1], r) = RunNode(1, 2 * lo + r * Q, 2 * last)
    <3> HIDE DEF lo
    <3> QED BY <2>1, <2>3, <2>4, <2>5, LeafRun
  <2>7. 2 * lo + r * Q = 2 * first + i * Q
    <3> DEFINE x == d * Q
               y == r * Q
    <3>1. x \in Nat /\ y \in Nat /\ i * Q = 2 * x + y /\ lo = first + x
      BY <2>2
    <3> HIDE DEF x, y, lo
    <3> QED BY <3>1 DEF y
  <2> QED BY <2>6, <2>7 DEF d, r
<1>4. ASSUME NEW h \in Int, NEW lo \in Nat, NEW e \in Nat, h - 1 \in 0 .. MAX_LEVEL
      PROVE  RunNode(h, lo, e) \in Node
  BY <1>4, SpanFacts DEF RunNode, Extent, Zero, Node
<1>5. job.nodes \in [0 .. BATCH_LEAVES - 1 -> Node]
  <2>1. ASSUME NEW i \in 0 .. BATCH_LEAVES - 1 PROVE job.nodes[i] \in Node
    <3>1. CASE i < 2 * n
      <4>1. i \in 0 .. 2 * n - 1
        BY <1>1, <3>1
      <4>2. i * Q \in Nat /\ 1 - 1 \in 0 .. MAX_LEVEL
        <5>1. \A a, c \in Nat : a * c \in Nat
          OBVIOUS
        <5>2. i \in Nat /\ Q \in Nat
          BY <1>1
        <5> QED BY <5>1, <5>2, TreeAssumption
      <4>3. 2 * first + i * Q \in Nat /\ 2 * last \in Nat
        BY <4>2
      <4> HIDE DEF job, n
      <4>4. RunNode(1, 2 * first + i * Q, 2 * last) \in Node
        BY <1>4, <4>2, <4>3
      <4> QED BY <1>2, <1>3, <3>1, <4>1, <4>4
    <3>2. CASE ~ (i < 2 * n)
      <4>1. Zero(0) \in Node
        BY DEF Zero, Extent, Node
      <4> HIDE DEF job, n
      <4> QED BY <1>2, <3>2, <4>1
    <3> QED BY <3>1, <3>2
  <2>2. job.nodes = [i \in 0 .. BATCH_LEAVES - 1 |-> job.nodes[i]]
    BY DEF Job
  <2> HIDE DEF job
  <2> QED BY <2>1, <2>2
<1>6. job \in JobType
  <2>1. job = [nodes |-> job.nodes, len |-> job.len, height |-> job.height]
    BY DEF Job
  <2> HIDE DEF job
  <2> QED BY <1>1, <1>2, <1>5, <2>1 DEF JobType
<1>7. job.len \in 1 .. BATCH_LEAVES
  <2> HIDE DEF job, n
  <2> QED BY <1>1, <1>2
<1>8. JobCovers(job, 2 * first, 2 * last)
  <2>1. 1 - 1 = 0 /\ Span(0) = Q
    BY SpanFacts
  <2>2. 2 * last <= 2 * first + (2 * n) * Q
    <3> DEFINE x == n * Q
    <3>1. x \in Nat /\ (2 * n) * Q = 2 * x /\ last <= first + x
      BY <1>1
    <3> HIDE DEF x, n
    <3> QED BY <3>1
  <2>3. ASSUME NEW i \in 0 .. job.len - 1
        PROVE  job.nodes[i] = RunNode(1, 2 * first + i * Q, 2 * last)
    <3> HIDE DEF job, n
    <3>1. i \in 0 .. 2 * n - 1 /\ i < 2 * n /\ i \in 0 .. BATCH_LEAVES - 1
      BY <1>1, <1>2
    <3> QED BY <1>2, <1>3, <3>1
  <2> HIDE DEF job, n
  <2>4. 1 \in 1 .. MAX_LEVEL + 1 /\ 2 * n \in Nat \ {0} /\ 2 * first <= 2 * last
    <3>1. n \in Nat \ {0} /\ MAX_LEVEL \in Nat
      BY <1>1, TreeAssumption
    <3> QED BY <3>1
  <2> QED BY <1>2, <2>1, <2>2, <2>3, <2>4 DEF JobCovers
<1> QED
  BY <1>2, <1>6, <1>7, <1>8

(* The batch, between calls and in the loop of write(), as bytes. *)
LEMMA BatchBytes ==
    ASSUME TypeOK, BatchPlaced, stack.count % BATCH_LEAVES = 0,
           NEW j \in 1 .. Len(batch), NEW i \in 0 .. Q - 1
    PROVE  batch[j][i] = base + Stacked + (j - 1) * Q + i
PROOF
<1>1. batch[j] = Quad(base + Stacked + (j - 1) * Q)
  BY DEF BatchPlaced
<1> DEFINE p == base + Stacked + (j - 1) * Q
<1> HIDE DEF p
<1>2. Quad(p)[i] = p + i
  BY DEF Quad
<1> QED
  BY <1>1, <1>2 DEF p

(* What build() hashes holds the payload from the end of the stack to its  *)
(* own end; it fits in a batch, and a quad is empty only for no payload.   *)
LEMMA BuildQuadsHold ==
    ASSUME Inv, ~ Writing
    PROVE  /\ BuildQuads \in Seq(Quads) /\ Len(BuildQuads) \in 0 .. BATCH_QUADS
           /\ BuildQuads # <<>> <=> Len(BuildQuads) # 0
           /\ BuildQuads = <<>> => bytes_written = Stacked
           /\ Stacked <= bytes_written
           /\ bytes_written <= Stacked + Len(BuildQuads) * Q
           /\ bytes_written = 0 => Len(BuildQuads) = 1
           /\ bytes_written # 0 /\ BuildQuads # <<>> =>
                 Stacked + (Len(BuildQuads) - 1) * Q < bytes_written
           /\ \A j \in 1 .. Len(BuildQuads) : \A i \in 0 .. Q - 1 :
                 BuildQuads[j][i] = IF base + Stacked + (j - 1) * Q + i < base + bytes_written
                                    THEN base + Stacked + (j - 1) * Q + i ELSE NoByte
PROOF
<1> DEFINE b == Len(batch)
           S == Stacked
           n == Len(BuildQuads)
<1>1. /\ batch \in Seq(Quads) /\ offset \in 0 .. Q - 1 /\ base \in Nat
      /\ bytes_written \in Nat /\ buffer \in Quads /\ stack.count \in Nat
      /\ TypeOK /\ BatchPlaced /\ BufferPlaced /\ stack.count % BATCH_LEAVES = 0
  <2>1. TypeOK /\ BatchPlaced /\ BufferPlaced /\ stack.count % BATCH_LEAVES = 0
    BY DEF Inv, Placed
  <2>2. /\ batch \in Seq(Quads) /\ offset \in 0 .. Q - 1 /\ base \in Nat
        /\ bytes_written \in 0 .. MAX_PAYLOAD_SIZE /\ buffer \in Quads
        /\ stack \in [nodes : StackNodes, count : Nat]
    BY <2>1 DEF TypeOK
  <2>3. bytes_written \in Nat
    BY <2>2, LimitFacts
  <2> QED BY <2>1, <2>2, <2>3
<1>2. b \in Nat /\ b < BATCH_QUADS
  BY <1>1 DEF BatchPlaced
<1>3. S \in Nat /\ Q \in Nat \ {0} /\ BATCH_QUADS \in Nat \ {0}
  BY <1>1, StackEndFacts, ConstFacts
<1>4. bytes_written = S + b * Q + offset
  BY <1>1 DEF BufferPlaced
<1>5. b * Q \in Nat /\ (b + 1) * Q = b * Q + Q /\ (b # 0 => b * Q # 0)
  <2> HIDE DEF b
  <2> QED BY <1>2, <1>3
<1>6. TailQuad \in Quads
  <2>1. \A i \in 0 .. Q - 1 : buffer[i] \in Int
    BY <1>1 DEF Quads
  <2> QED BY <2>1 DEF TailQuad, Quads, NoByte
<1>7. ASSUME NEW j \in 1 .. b, NEW i \in 0 .. Q - 1
      PROVE  batch[j][i] = IF base + S + (j - 1) * Q + i < base + bytes_written
                           THEN base + S + (j - 1) * Q + i ELSE NoByte
  <2>1. batch[j][i] = base + S + (j - 1) * Q + i
    BY <1>1, BatchBytes
  <2>2. base + S + (j - 1) * Q + i < base + bytes_written
    <3> HIDE DEF b, S
    <3>1. PICK c \in Nat : b = (j - 1) + 1 + c
      <4>1. b - j \in Nat /\ b = (j - 1) + 1 + (b - j)
        BY <1>2
      <4> QED BY <4>1
    <3>2. b * Q = (j - 1) * Q + Q + c * Q /\ c * Q \in Nat /\ (j - 1) * Q \in Nat
      BY <1>2, <1>3, <3>1
    <3> DEFINE x == (j - 1) * Q
               y == c * Q
               z == b * Q
    <3>3. x \in Nat /\ y \in Nat /\ z = x + Q + y /\ bytes_written = S + z + offset
      BY <1>4, <3>2
    <3>4. i \in Nat /\ i < Q /\ offset \in Nat
      BY <1>1, <1>3
    <3> HIDE DEF x, y, z
    <3>5. base + S + x + i < base + bytes_written
      BY <1>1, <1>3, <3>3, <3>4
    <3> QED BY <3>5 DEF x
  <2> QED BY <2>1, <2>2
<1>8. ASSUME NEW i \in 0 .. Q - 1
      PROVE  TailQuad[i] = IF base + S + b * Q + i < base + bytes_written
                           THEN base + S + b * Q + i ELSE NoByte
  <2>1. TailQuad[i] = IF i < offset THEN buffer[i] ELSE NoByte
    BY DEF TailQuad
  <2>2. i < offset => buffer[i] = base + S + b * Q + i
    BY <1>1 DEF BufferPlaced
  <2> DEFINE z == b * Q
  <2> HIDE DEF z, b, S
  <2>3. z \in Nat /\ bytes_written = S + z + offset /\ offset \in Nat
    BY <1>1, <1>3, <1>4, <1>5 DEF z
  <2>4. base + S + z + i < base + bytes_written <=> i < offset
    BY <1>1, <1>3, <2>3
  <2> QED BY <2>1, <2>2, <2>4 DEF z
<1>9. CASE offset > 0 \/ bytes_written = 0
  <2>1. BuildQuads = Append(batch, TailQuad)
    BY <1>9 DEF BuildQuads
  <2>2. /\ BuildQuads \in Seq(Quads) /\ n = b + 1
        /\ \A j \in 1 .. b : BuildQuads[j] = batch[j]
        /\ BuildQuads[b + 1] = TailQuad
    BY <1>1, <1>6, <2>1
  <2>3. n \in 0 .. BATCH_QUADS /\ n # 0
    <3> HIDE DEF b, n
    <3> QED BY <1>2, <1>3, <2>2
  <2>4. ASSUME NEW j \in 1 .. n, NEW i \in 0 .. Q - 1
        PROVE  BuildQuads[j][i] = IF base + S + (j - 1) * Q + i < base + bytes_written
                                  THEN base + S + (j - 1) * Q + i ELSE NoByte
    <3>1. j \in 1 .. b \/ (j = b + 1 /\ j - 1 = b)
      <4> HIDE DEF b, n
      <4> QED BY <1>2, <2>2
    <3> HIDE DEF b, S, n
    <3> QED BY <1>7, <1>8, <2>2, <3>1
  <2>5. n * Q = b * Q + Q
    <3> HIDE DEF b, n
    <3> QED BY <1>5, <2>2
  <2>6. bytes_written = 0 => b = 0
    <3> DEFINE z == b * Q
    <3>1. z \in Nat /\ bytes_written = S + z + offset /\ (b # 0 => z # 0)
      BY <1>4, <1>5
    <3>2. offset \in Nat
      BY <1>1
    <3> HIDE DEF z, b, S
    <3> QED BY <1>3, <1>4, <1>5, <3>1, <3>2 DEF z
  <2>7. n - 1 = b /\ BuildQuads # <<>>
    <3>1. n - 1 = b
      <4> HIDE DEF b, n
      <4> QED BY <1>2, <2>2
    <3>2. BuildQuads # <<>>
      <4>1. Len(<<>>) = 0
        OBVIOUS
      <4> QED BY <2>3, <4>1
    <3> QED BY <3>1, <3>2
  <2>8. /\ S <= bytes_written /\ bytes_written <= S + n * Q
        /\ bytes_written = 0 => n = 1
        /\ bytes_written # 0 => S + (n - 1) * Q < bytes_written
    <3> DEFINE z == b * Q
    <3>1. z \in Nat /\ bytes_written = S + z + offset /\ n * Q = z + Q /\ (n - 1) * Q = z
      BY <1>4, <1>5, <2>5, <2>7
    <3>2. offset \in Nat /\ offset < Q
      BY <1>1, <1>3
    <3> HIDE DEF z, b, S, n
    <3> QED BY <1>2, <1>3, <1>9, <2>2, <2>6, <3>1, <3>2
  <2> QED BY <2>2, <2>3, <2>4, <2>7, <2>8
<1>10. CASE ~ (offset > 0 \/ bytes_written = 0)
  <2>1. BuildQuads = batch /\ offset = 0 /\ bytes_written # 0
    BY <1>1, <1>3, <1>10 DEF BuildQuads
  <2>2. n = b
    BY <2>1
  <2>3. BuildQuads # <<>> <=> n # 0
    BY <1>1, <2>1
  <2>4. bytes_written = S + n * Q /\ S <= bytes_written /\ bytes_written <= S + n * Q
        /\ (n = 0 => bytes_written = S)
    <3> HIDE DEF n, b, S
    <3>1. n * Q \in Nat /\ (n = 0 => n * Q = 0)
      BY <1>2, <1>3, <2>2
    <3>2. bytes_written = S + n * Q + 0
      BY <1>4, <2>1, <2>2
    <3> QED BY <1>3, <3>1, <3>2
  <2>5. n # 0 => S + (n - 1) * Q < bytes_written
    <3> HIDE DEF n, b, S
    <3>1. n * Q = (n - 1) * Q + Q /\ (n - 1) * Q \in Int
      BY <1>2, <1>3, <2>2
    <3> QED BY <1>3, <2>4, <3>1
  <2>6. n \in 0 .. BATCH_QUADS
    <3> HIDE DEF n, b, S
    <3> QED BY <1>2, <1>3, <2>2
  <2> QED BY <1>1, <1>7, <2>1, <2>2, <2>3, <2>4, <2>5, <2>6
<1> QED
  BY <1>9, <1>10

-----------------------------------------------------------------------------
(* The rest of the invariant, one lemma per action. *)

Kept == TypeOK /\ Placed /\ Jobs /\ CopyInv /\ DigestIsCommitment

(* Conjuncts that hold for want of what they speak of. *)
LEMMA NoJobs ==
    ASSUME Control', pc' \in {"idle", "write", "fold"}
    PROVE  Jobs'
PROOF
<1>1. /\ jobs' = <<>> /\ caller' # "small"
      /\ caller' \in {"flush", "group"} => pc' = "write"
      /\ caller' = "build" => pc' = "fold"
  BY DEF Control
<1>2. Len(jobs') = 0 /\ 1 .. 0 = {}
  BY <1>1
<1> QED
  BY <1>1, <1>2 DEF Jobs

LEMMA NoCopy ==
    ASSUME Control', pc' \in {"idle", "write"}
    PROVE  CopyInv'
PROOF
  BY DEF Control, CopyInv

LEMMA SameDigest ==
    ASSUME Inv, \/ UNCHANGED <<result, base, bytes_written>>
                \/ result' = NoResult
    PROVE  DigestIsCommitment'
PROOF
  BY DEF Inv, DigestIsCommitment, NoResult

(* Between calls, and while build() works on copies. *)
LEMMA Apart ==
    ASSUME Inv, ~ Writing
    PROVE  /\ TypeOK /\ Control /\ BatchPlaced /\ BufferPlaced
           /\ stack.count % BATCH_LEAVES = 0 /\ stack.count \in Nat
           /\ base \in Nat /\ bytes_written \in Nat
           /\ Stacked \in Nat /\ StackEnd = 2 * (base + Stacked)
           /\ Len(batch) \in Nat /\ offset \in Nat /\ offset < Q
           /\ Len(batch) * Q \in Nat
PROOF
<1>1. TypeOK /\ Control /\ BatchPlaced /\ BufferPlaced /\ stack.count % BATCH_LEAVES = 0
  BY DEF Inv, Placed
<1>2. /\ batch \in Seq(Quads) /\ offset \in 0 .. Q - 1 /\ base \in Nat
      /\ bytes_written \in 0 .. MAX_PAYLOAD_SIZE
      /\ stack \in [nodes : StackNodes, count : Nat]
  BY <1>1 DEF TypeOK
<1>3. bytes_written \in Nat
  BY <1>2, LimitFacts
<1>4. stack.count \in Nat /\ Len(batch) \in Nat
  BY <1>2
<1>5. Stacked \in Nat /\ StackEnd = 2 * (base + Stacked)
  BY <1>1, <1>2, <1>4, StackEndFacts
<1>6. Q \in Nat \ {0} /\ \A a, b \in Nat : a * b \in Nat
  BY ConstFacts
<1>7. offset \in Nat /\ offset < Q
  BY <1>2, <1>6
<1> QED
  BY <1>1, <1>2, <1>3, <1>4, <1>5, <1>6, <1>7

LEMMA StillApart ==
    ASSUME Inv, ~ Writing, ~ Writing', UNCHANGED <<self, base>>
    PROVE  Placed'
PROOF
<1>1. BatchPlaced /\ BufferPlaced /\ stack.count % BATCH_LEAVES = 0
  BY DEF Inv, Placed
<1>2. UNCHANGED <<buffer, offset, bytes_written, batch, stack, base>>
  BY DEF self
<1>3. BatchPlaced' /\ BufferPlaced' /\ stack'.count % BATCH_LEAVES = 0
  BY <1>1, <1>2 DEF BatchPlaced, BufferPlaced, Stacked
<1>4. pc' # "write" /\ caller' \notin {"flush", "group"}
  BY DEF Writing
<1> QED
  BY <1>3, <1>4 DEF Placed, Writing

(* build's copy: a step of SubtreeStack, or none. *)
LEMMA CopyKept ==
    ASSUME Inv, caller = "build", stack' = stack,
           [Copy!Next]_(Copy!vars),
           local'.count = stack.count + (IF Padded' THEN Pow[BATCH_LEVEL] ELSE 0)
    PROVE  CopyInv'
PROOF
<1>1. Copy!Inv /\ stack.count # 0
  BY DEF Inv, CopyInv
<1>2. Copy!Inv'
  BY <1>1, Copy!NextInv, TreeAssumption, StackInstance
<1> QED
  BY <1>1, <1>2 DEF CopyInv

LEMMA CopyStutter ==
    ASSUME Inv, caller = "build",
           UNCHANGED <<stack, base, bytes_written, tree, local>>,
           Padded' <=> Padded, {pc, pc'} \subseteq {"reduce", "push"} \/ pc' = pc
                             \/ (pc' = "fold" /\ level = 0 /\ pc = "push")
    PROVE  CopyInv'
PROOF
<1>1. local.count = stack.count + (IF Padded THEN Pow[BATCH_LEVEL] ELSE 0)
  BY DEF Inv, CopyInv
<1>2. PayloadEnd' = PayloadEnd /\ StackEnd' = StackEnd
  BY DEF PayloadEnd, StackEnd
<1>3. level' = level /\ node' = node /\ top' = top
  BY DEF tree
<1>4. /\ (IF pc = "carry" THEN "push"
          ELSE IF pc = "fold" /\ level > 0 THEN "fold" ELSE "idle")'
           = (IF pc = "carry" THEN "push"
              ELSE IF pc = "fold" /\ level > 0 THEN "fold" ELSE "idle")
      /\ (IF Padded THEN PayloadEnd ELSE StackEnd)' = (IF Padded THEN PayloadEnd ELSE StackEnd)
      /\ (2 * base)' = 2 * base
  BY <1>2, <1>3
<1>5. UNCHANGED Copy!vars
  BY <1>3, <1>4 DEF Copy!vars
<1> QED
  BY <1>1, <1>5, CopyKept

(* Refused writes, and steps that change nothing. *)
LEMMA RefusedInv ==
    ASSUME Inv, Control',
           UNCHANGED <<self, base, result, pc, caller, input, read_pos, jobs,
                       target, next, tree, local>>,
           outcome' \in {"ok", "RangeError"}
    PROVE  Kept'
PROOF
<1>1. UNCHANGED <<buffer, offset, bytes_written, batch, stack, level, node, top>>
  BY DEF self, tree
<1>2. TypeOK'
  BY <1>1 DEF Inv, TypeOK
<1>3. (BuildQuads)' = BuildQuads
  BY <1>1 DEF BuildQuads, TailQuad
<1>4. Placed'
  BY <1>1 DEF Inv, Placed, Writing, BatchPlaced, BufferPlaced, Stacked, JobStart,
              RootsDone, StackEnd
<1>5. Jobs'
  BY <1>1, <1>3 DEF Inv, Jobs, JobStart, RootsDone, StackEnd, PayloadEnd, JobRange
<1>6. CopyInv'
  <2>1. Padded' <=> Padded
    BY <1>3 DEF Padded
  <2>2. CASE caller = "build"
    BY <1>1, <2>1, <2>2, CopyStutter
  <2>3. CASE caller # "build"
    BY <2>3 DEF CopyInv
  <2> QED BY <2>2, <2>3
<1>7. DigestIsCommitment'
  BY <1>1, SameDigest
<1> QED
  BY <1>2, <1>4, <1>5, <1>6, <1>7 DEF Kept

(* A write that ends in the buffer. *)
LEMMA WriteFastInv ==
    ASSUME Inv, Control', NEW len \in WriteSizes, WriteNothing(len) \/ WriteFast(len)
    PROVE  Kept'
PROOF
<1>1. /\ pc = "idle" /\ pc' = "idle" /\ caller' = caller
      /\ bytes_written' = bytes_written + len /\ bytes_written + len <= MAX_PAYLOAD_SIZE
      /\ outcome' = "ok" /\ result' = IF len = 0 THEN result ELSE NoResult
      /\ UNCHANGED <<stack, base, level, node, top, local, batch, input, read_pos,
                     jobs, target, next>>
  BY DEF WriteNothing, WriteFast, WriteAccepted, tree
<1>2. /\ ~ Writing /\ ~ Writing'
  BY <1>1 DEF Inv, Control, Writing
<1>3. /\ TypeOK /\ BatchPlaced /\ BufferPlaced
      /\ stack.count % BATCH_LEAVES = 0 /\ stack.count \in Nat
      /\ base \in Nat /\ bytes_written \in Nat /\ Stacked \in Nat
      /\ offset \in Nat /\ offset < Q /\ Len(batch) * Q \in Nat
  BY <1>2, Apart
<1>4. len \in Nat /\ Q \in Nat /\ MAX_PAYLOAD_SIZE \in Nat
  BY HasherAssumption, ConstFacts, LimitFacts
<1>5. /\ offset' \in 0 .. Q - 1 /\ offset' = offset + len
      /\ \A i \in 0 .. Q - 1 : buffer'[i] =
            IF offset <= i /\ i < offset + len
            THEN base + bytes_written + (i - offset) ELSE buffer[i]
      /\ buffer' \in Quads
  <2>1. CASE WriteNothing(len)
    <3>1. len = 0 /\ UNCHANGED <<buffer, offset>>
      BY <2>1 DEF WriteNothing
    <3>2. buffer \in Quads
      BY <1>3 DEF TypeOK
    <3> QED BY <1>3, <1>4, <3>1, <3>2
  <2>2. CASE WriteFast(len)
    <3>1. /\ offset + len < Q /\ offset' = offset + len
          /\ buffer' = [i \in 0 .. Q - 1 |->
                IF offset <= i /\ i < offset + len
                THEN base + bytes_written + (i - offset) ELSE buffer[i]]
      BY <2>2 DEF WriteFast
    <3>2. \A i \in 0 .. Q - 1 : buffer[i] \in Int
      BY <1>3 DEF TypeOK, Quads
    <3>3. \A i \in 0 .. Q - 1 : base + bytes_written + (i - offset) \in Int
      BY <1>3
    <3>4. buffer' \in Quads
      BY <3>1, <3>2, <3>3 DEF Quads
    <3>5. offset' \in 0 .. Q - 1
      BY <1>3, <1>4, <3>1
    <3> QED BY <3>1, <3>4, <3>5
  <2> QED BY <2>1, <2>2
<1>6. TypeOK'
  <2>1. bytes_written' \in 0 .. MAX_PAYLOAD_SIZE
    BY <1>1, <1>3, <1>4
  <2>2. result' \in [padding : Int, height : Nat, root : Node]
    <3>1. NoResult \in [padding : Int, height : Nat, root : Node]
      BY DEF NoResult, Junk, Extent, Node
    <3>2. result \in [padding : Int, height : Nat, root : Node]
      BY <1>3 DEF TypeOK
    <3> QED BY <1>1, <3>1, <3>2
  <2> QED BY <1>1, <1>3, <1>5, <2>1, <2>2 DEF TypeOK
<1>7. BatchPlaced'
  BY <1>1, <1>3 DEF BatchPlaced, Stacked
<1>8. BufferPlaced'
  <2> DEFINE z == Len(batch) * Q
             S == Stacked
  <2>1. S \in Nat /\ z \in Nat /\ bytes_written = S + z + offset
    BY <1>3 DEF BufferPlaced
  <2>2. Stacked' = S /\ (Len(batch) * Q)' = z
    BY <1>1 DEF Stacked
  <2>3. \A i \in 0 .. offset - 1 : buffer[i] = base + S + z + i
    BY <1>3 DEF BufferPlaced
  <2> HIDE DEF z, S
  <2>4. bytes_written' = S + z + offset'
    BY <1>1, <1>3, <1>4, <1>5, <2>1
  <2>5. ASSUME NEW i \in 0 .. offset' - 1 PROVE buffer'[i] = base + S + z + i
    <3>1. i \in 0 .. Q - 1 /\ i < offset + len
      BY <1>3, <1>4, <1>5
    <3>2. CASE i < offset
      BY <1>3, <1>5, <2>3, <3>1, <3>2
    <3>3. CASE offset <= i
      <4>1. buffer'[i] = base + bytes_written + (i - offset)
        BY <1>5, <3>1, <3>3
      <4> QED BY <1>3, <2>1, <3>1, <4>1
    <3> QED BY <1>3, <3>1, <3>2, <3>3
  <2>6. base' = base
    BY <1>1
  <2> QED BY <2>2, <2>4, <2>5, <2>6 DEF BufferPlaced
<1>9. Placed'
  BY <1>1, <1>2, <1>3, <1>7, <1>8 DEF Placed, Writing
<1>10. DigestIsCommitment'
  <2>1. CASE len = 0
    BY <1>1, <1>3, <2>1, SameDigest
  <2>2. CASE len # 0
    BY <1>1, <2>2, SameDigest
  <2> QED BY <2>1, <2>2
<1> QED
  BY <1>1, <1>6, <1>9, <1>10, NoJobs, NoCopy DEF Kept

(* A quad that continues what is placed is queued: the batch goes on, or   *)
(* is full and its job covers what follows the stack.                      *)
LEMMA QuadQueued ==
    ASSUME TypeOK, BatchPlaced, stack.count % BATCH_LEAVES = 0, Control',
           UNCHANGED <<stack, base>>,
           NEW quad, quad = Quad(base + Stacked + Len(batch) * Q), PushQuad(quad),
           jobs \in Seq(JobType), target \in Nat, next \in Nat,
           offset' = 0, input' \in [first : Nat, len : Nat], read_pos' \in Nat,
           input'.first + input'.len = base + bytes_written', read_pos' <= input'.len,
           input'.first + read_pos' = base + Stacked + (Len(batch) + 1) * Q
    PROVE  /\ Placed' /\ Jobs' /\ CopyInv'
           /\ batch' \in Seq(Quads) /\ jobs' \in Seq(JobType)
           /\ target' \in Nat /\ next' \in Nat /\ pc' \in {"write", "reduce"}
           /\ caller' \in {caller, "flush"}
PROOF
<1> DEFINE b == Len(batch)
           S == Stacked
<1>1. /\ batch \in Seq(Quads) /\ base \in Nat /\ stack.count \in Nat
      /\ b \in Nat /\ b < BATCH_QUADS
      /\ S \in Nat /\ StackEnd \in Nat /\ StackEnd = 2 * (base + S)
  <2>1. batch \in Seq(Quads) /\ base \in Nat /\ stack \in [nodes : StackNodes, count : Nat]
    BY DEF TypeOK
  <2>2. b \in Nat /\ b < BATCH_QUADS /\ stack.count \in Nat
    BY <2>1 DEF BatchPlaced
  <2> QED BY <2>1, <2>2, StackEndFacts
<1>2. /\ Q \in Nat \ {0} /\ BATCH_QUADS \in Nat \ {0} /\ BATCH_BYTES = BATCH_QUADS * Q
      /\ Span(BATCH_LEVEL) = 2 * BATCH_BYTES /\ BATCH_BYTES \in Nat \ {0}
      /\ BATCH_LEAVES = 2 * BATCH_QUADS /\ Pow[BATCH_LEVEL] = BATCH_LEAVES
      /\ BATCH_LEVEL \in Nat
  BY ConstFacts
<1>3. quad \in Quads
  <2>1. b * Q \in Nat
    BY <1>1, <1>2
  <2> DEFINE p == base + S + b * Q
  <2>2. p \in Int
    BY <1>1, <2>1
  <2> HIDE DEF p
  <2>3. Quad(p) \in Quads
    BY <2>2 DEF Quad, Quads
  <2> QED BY <2>3 DEF p
<1>4. /\ batch' = Append(batch, quad) /\ batch' \in Seq(Quads) /\ Len(batch') = b + 1
      /\ \A j \in 1 .. b : batch'[j] = batch[j]
      /\ batch'[b + 1] = quad
  <2>1. batch' = Append(batch, quad) /\ batch \in Seq(Quads) /\ quad \in Quads
    BY <1>1, <1>3, PushQuadFrame
  <2> HIDE DEF Quads
  <2> QED BY <2>1
<1>5. ASSUME NEW j \in 1 .. b + 1
      PROVE  batch'[j] = Quad(base + S + (j - 1) * Q)
  <2>1. j \in 1 .. b \/ (j = b + 1 /\ j - 1 = b)
    <3> HIDE DEF b
    <3> QED BY <1>1
  <2> QED BY <1>4, <2>1 DEF BatchPlaced
<1>6. Stacked' = S /\ StackEnd' = StackEnd
  BY DEF Stacked, StackEnd
<1>7. CASE b + 1 # BATCH_QUADS
  <2>1. pc' = "write" /\ UNCHANGED <<caller, jobs, target, next>>
    BY <1>7, PushQuadFrame
  <2>2. BatchPlaced'
    <3>1. b + 1 < BATCH_QUADS
      BY <1>1, <1>2, <1>7
    <3> HIDE DEF b, S
    <3> QED BY <1>4, <1>5, <1>6, <3>1 DEF BatchPlaced
  <2>3. Placed'
    <3> HIDE DEF b, S
    <3> QED BY <1>4, <1>6, <2>1, <2>2 DEF Placed, Writing, b, S
  <2> QED BY <1>4, <2>1, <2>3, NoJobs, NoCopy
<1>8. CASE b + 1 = BATCH_QUADS
  <2>1. /\ pc' = "reduce" /\ caller' = "flush" /\ Len(jobs') = 1 /\ jobs'[1] = Job(batch')
        /\ jobs' = <<Job(batch')>> /\ target' = BATCH_LEVEL + 1 /\ next' = 1
    BY <1>8, PushQuadFrame
  <2>2. (b + 1) * Q = BATCH_BYTES
    BY <1>2, <1>8
  <2>3. ASSUME NEW j \in 1 .. Len(batch'), NEW i \in 0 .. Q - 1
        PROVE  batch'[j][i] = IF base + S + (j - 1) * Q + i < base + S + BATCH_BYTES
                              THEN base + S + (j - 1) * Q + i ELSE NoByte
    <3> DEFINE p == base + S + (j - 1) * Q
    <3>1. batch'[j] = Quad(p) /\ j \in 1 .. BATCH_QUADS
      BY <1>4, <1>5, <1>8
    <3>2. p + i < base + S + BATCH_BYTES
      <4>1. PICK c \in Nat : BATCH_QUADS = (j - 1) + 1 + c
        <5>1. BATCH_QUADS - j \in Nat /\ BATCH_QUADS = (j - 1) + 1 + (BATCH_QUADS - j)
          BY <1>2, <3>1
        <5> QED BY <5>1
      <4> DEFINE x == (j - 1) * Q
                 y == c * Q
      <4>2. BATCH_BYTES = x + Q + y /\ x \in Nat /\ y \in Nat
        <5>1. BATCH_QUADS * Q = (j - 1) * Q + Q + c * Q
          BY <1>2, <3>1, <4>1
        <5> QED BY <1>2, <3>1, <5>1
      <4>3. i \in Nat /\ i < Q
        BY <1>2
      <4> HIDE DEF x, y, S
      <4>4. base + S + x + i < base + S + BATCH_BYTES
        BY <1>1, <1>2, <4>2, <4>3
      <4> QED BY <4>4 DEF x
    <3> HIDE DEF p
    <3>3. Quad(p)[i] = p + i
      BY DEF Quad
    <3>4. batch'[j][i] = IF p + i < base + S + BATCH_BYTES THEN p + i ELSE NoByte
      BY <3>1, <3>2, <3>3
    <3> QED BY <3>4 DEF p
  <2>4. /\ Job(batch') \in JobType /\ Job(batch').height = 1
        /\ Job(batch').len = BATCH_LEAVES
        /\ JobCovers(Job(batch'), 2 * (base + S), 2 * (base + S + BATCH_BYTES))
    <3>1. /\ batch' \in Seq(Quads) /\ Len(batch') \in 1 .. BATCH_QUADS
          /\ 2 * Len(batch') = BATCH_LEAVES /\ Len(batch') * Q = BATCH_BYTES
      <4>1. batch' \in Seq(Quads) /\ Len(batch') = BATCH_QUADS
        BY <1>4, <1>8
      <4>2. BATCH_QUADS \in 1 .. BATCH_QUADS
        BY <1>2
      <4> QED BY <1>2, <4>1, <4>2
    <3>2. /\ base + S \in Nat /\ base + S + BATCH_BYTES \in Nat
          /\ base + S <= base + S + BATCH_BYTES
          /\ base + S + BATCH_BYTES <= base + S + Len(batch') * Q
      BY <1>1, <1>2, <3>1
    <3> HIDE DEF S
    <3> QED BY <2>3, <3>1, <3>2, JobOf
  <2>5. JobStart(1)' = StackEnd /\ JobStart(2)' = StackEnd + Span(BATCH_LEVEL)
    <3>1. RootsDone' = 0
      BY <2>1 DEF RootsDone
    <3>2. 1 - 1 - 0 = 0 /\ 2 - 1 - 0 = 1
      OBVIOUS
    <3>3. /\ JobStart(1)' = StackEnd' + (1 - 1 - RootsDone') * Span(BATCH_LEVEL)
          /\ JobStart(2)' = StackEnd' + (2 - 1 - RootsDone') * Span(BATCH_LEVEL)
      BY DEF JobStart
    <3>4. 0 * Span(BATCH_LEVEL) = 0 /\ 1 * Span(BATCH_LEVEL) = Span(BATCH_LEVEL)
          /\ Span(BATCH_LEVEL) \in Nat
      BY <1>2
    <3> QED BY <1>1, <1>6, <3>1, <3>2, <3>3, <3>4
  <2>6. JobCovers(jobs'[1], JobStart(1)', JobStart(2)')
    <3>1. 2 * (base + S + BATCH_BYTES) = StackEnd + Span(BATCH_LEVEL)
      BY <1>1, <1>2
    <3> QED BY <1>1, <2>1, <2>4, <2>5, <3>1
  <2>7. Placed'
    <3>1. 2 * (input'.first + read_pos') = JobStart(2)'
      <4>1. input'.first + read_pos' = base + S + BATCH_BYTES
        BY <2>2
      <4>2. 2 * (base + S + BATCH_BYTES) = StackEnd + Span(BATCH_LEVEL)
        BY <1>1, <1>2
      <4> QED BY <2>5, <4>1, <4>2
    <3>2. Len(batch') = BATCH_QUADS
      BY <1>4, <1>8
    <3>3. Writing' /\ pc' # "write" /\ caller' # "group"
      BY <2>1 DEF Writing
    <3> QED BY <2>1, <3>1, <3>2, <3>3 DEF Placed
  <2>8. Jobs'
    <3>1. JobRange(jobs[1])'
      <4>1. BATCH_LEVEL + 1 - 1 = BATCH_LEVEL /\ 1 \in 1 .. BATCH_LEVEL + 1
            /\ BATCH_LEAVES \in 1 .. BATCH_LEAVES /\ BATCH_LEAVES <= Pow[BATCH_LEVEL]
        BY <1>2
      <4>2. jobs'[1].height = 1 /\ jobs'[1].len = BATCH_LEAVES /\ target' = BATCH_LEVEL + 1
        BY <2>1, <2>4
      <4>3. target' - jobs'[1].height = BATCH_LEVEL
        BY <1>2, <4>2
      <4> QED BY <4>1, <4>2, <4>3 DEF JobRange
    <3>2. \A w \in 1 .. Len(jobs') : w = 1 /\ w + 1 = 2
      BY <2>1
    <3> QED BY <2>1, <2>6, <3>1, <3>2 DEF Jobs
  <2>9. CopyInv'
    BY <2>1 DEF CopyInv
  <2>10. jobs' \in Seq(JobType)
    <3>1. ASSUME NEW j \in JobType PROVE <<j>> \in Seq(JobType)
      OBVIOUS
    <3> QED BY <2>1, <2>4, <3>1
  <2> QED BY <1>2, <1>4, <2>1, <2>7, <2>8, <2>9, <2>10
<1> QED
  BY <1>7, <1>8

(* A write that fills the buffered quad, or starts with whole quads. *)
LEMMA WriteBulkInv ==
    ASSUME Inv, Control', NEW len \in WriteSizes, WriteBulk(len)
    PROVE  Kept'
PROOF
<1> DEFINE z == Len(batch) * Q
           S == Stacked
<1>1. /\ pc = "idle" /\ 0 < len /\ offset + len >= Q
      /\ bytes_written' = bytes_written + len /\ bytes_written + len <= MAX_PAYLOAD_SIZE
      /\ outcome' = "ok" /\ result' = NoResult /\ offset' = 0
      /\ input' = [first |-> base + bytes_written, len |-> len]
      /\ UNCHANGED <<stack, base, level, node, top, local>>
  <2>1. result' = IF len = 0 THEN result ELSE NoResult
    BY DEF WriteBulk, WriteAccepted
  <2>2. len # 0
    BY HasherAssumption DEF WriteBulk
  <2> QED BY <2>1, <2>2 DEF WriteBulk, WriteAccepted, tree
<1>2. ~ Writing
  BY <1>1 DEF Inv, Control, Writing
<1>3. /\ TypeOK /\ BatchPlaced /\ BufferPlaced
      /\ stack.count % BATCH_LEAVES = 0 /\ stack.count \in Nat
      /\ base \in Nat /\ bytes_written \in Nat /\ S \in Nat
      /\ offset \in Nat /\ offset < Q /\ z \in Nat /\ Len(batch) \in Nat
  BY <1>2, Apart
<1>4. len \in Nat /\ Q \in Nat \ {0} /\ MAX_PAYLOAD_SIZE \in Nat
  BY HasherAssumption, ConstFacts, LimitFacts
<1>5. bytes_written = S + z + offset
  BY <1>3 DEF BufferPlaced
<1>6. /\ input' \in [first : Nat, len : Nat]
      /\ input'.first = base + bytes_written /\ input'.len = len
      /\ input'.first + input'.len = base + bytes_written'
  <2>1. base + bytes_written \in Nat
    BY <1>3
  <2>2. input'.first = base + bytes_written /\ input'.len = len
    BY <1>1
  <2> QED BY <1>1, <1>3, <1>4, <2>1, <2>2
<1>7. /\ jobs \in Seq(JobType) /\ target \in Nat /\ next \in Nat /\ batch \in Seq(Quads)
      /\ buffer \in Quads /\ caller = ""
  BY <1>1, <1>3 DEF TypeOK, Inv, Control
<1>8. /\ Placed' /\ Jobs' /\ CopyInv' /\ buffer' \in Quads /\ read_pos' \in Nat
      /\ batch' \in Seq(Quads) /\ jobs' \in Seq(JobType)
      /\ target' \in Nat /\ next' \in Nat /\ pc' \in {"write", "reduce"}
      /\ caller' \in {caller, "flush"}
  <2>1. CASE offset > 0
    <3>1. /\ buffer' = [i \in 0 .. Q - 1 |->
                          IF i < offset THEN buffer[i]
                          ELSE base + bytes_written + (i - offset)]
          /\ read_pos' = Q - offset /\ PushQuad(buffer')
      BY <2>1 DEF WriteBulk
    <3>2. buffer' = Quad(base + S + z)
      <4>1. ASSUME NEW i \in 0 .. Q - 1
            PROVE  buffer'[i] = (base + S + z) + i
        <5>1. CASE i < offset
          <6>1. buffer'[i] = buffer[i] /\ i \in 0 .. offset - 1
            BY <1>3, <3>1, <5>1
          <6>2. buffer[i] = base + S + z + i
            BY <1>3, <6>1 DEF BufferPlaced
          <6> QED BY <6>1, <6>2
        <5>2. CASE ~ (i < offset)
          <6>1. buffer'[i] = base + bytes_written + (i - offset)
            BY <3>1, <5>2
          <6> HIDE DEF S, z
          <6> QED BY <1>3, <1>5, <6>1
        <5> QED BY <5>1, <5>2
      <4>2. buffer' = [i \in 0 .. Q - 1 |-> buffer'[i]]
        BY <3>1
      <4> DEFINE p == base + S + z
      <4> HIDE DEF p
      <4>3. buffer' = [i \in 0 .. Q - 1 |-> p + i]
        BY <4>1, <4>2 DEF p
      <4> QED BY <4>3 DEF Quad, p
    <3>3. buffer' \in Quads
      <4>1. ASSUME NEW i \in 0 .. Q - 1
            PROVE  (IF i < offset THEN buffer[i]
                    ELSE base + bytes_written + (i - offset)) \in Int
        <5>1. buffer[i] \in Int
          BY <1>7 DEF Quads
        <5>2. base + bytes_written + (i - offset) \in Int
          BY <1>3
        <5> QED BY <5>1, <5>2
      <4> QED BY <3>1, <4>1 DEF Quads
    <3>4. read_pos' \in Nat /\ read_pos' <= input'.len
      BY <1>1, <1>3, <1>4, <1>6, <3>1
    <3>5. input'.first + read_pos' = base + S + (Len(batch) + 1) * Q
      <4>1. (Len(batch) + 1) * Q = z + Q
        BY <1>3, <1>4
      <4> HIDE DEF S, z
      <4> QED BY <1>3, <1>4, <1>5, <1>6, <3>1, <4>1
    <3> QED
      BY <1>1, <1>3, <1>6, <1>7, <3>1, <3>2, <3>3, <3>4, <3>5, QuadQueued
  <2>2. CASE ~ (offset > 0)
    <3>1. /\ read_pos' = 0 /\ pc' = "write"
          /\ UNCHANGED <<buffer, batch, caller, jobs, target, next>>
      BY <2>2 DEF WriteBulk
    <3>2. BatchPlaced' /\ Writing'
      BY <1>1, <1>3, <3>1 DEF BatchPlaced, Stacked, Writing
    <3>3. input'.first + read_pos' = base + S + z
      <4>1. offset = 0
        BY <1>3, <2>2
      <4> HIDE DEF S, z
      <4> QED BY <1>3, <1>5, <1>6, <3>1, <4>1
    <3>4. Stacked' = S /\ (Len(batch) * Q)' = z
      BY <1>1, <3>1 DEF Stacked
    <3>5. read_pos' <= input'.len /\ caller' = ""
      <4>1. caller' = ""
        BY <1>7, <3>1
      <4>2. read_pos' = 0 /\ input'.len = len /\ len \in Nat
        BY <1>4, <1>6, <3>1
      <4>3. read_pos' <= input'.len
        BY <4>2
      <4> QED BY <4>1, <4>3
    <3>6. Placed'
      BY <1>1, <1>3, <1>6, <3>1, <3>2, <3>3, <3>4, <3>5 DEF Placed
    <3> QED BY <1>7, <3>1, <3>6, NoJobs, NoCopy
  <2> QED BY <2>1, <2>2
<1>9. TypeOK'
  <2>1. bytes_written' \in 0 .. MAX_PAYLOAD_SIZE /\ offset' \in 0 .. Q - 1
    BY <1>1, <1>3, <1>4
  <2>2. result' \in [padding : Int, height : Nat, root : Node]
    BY <1>1 DEF NoResult, Junk, Extent, Node
  <2> QED BY <1>1, <1>3, <1>6, <1>7, <1>8, <2>1, <2>2 DEF TypeOK
<1> QED
  BY <1>1, <1>8, <1>9, SameDigest DEF Kept

(* Inside write(): where the slice has been read to. *)
LEMMA Loop ==
    ASSUME Inv, pc = "write"
    PROVE  /\ TypeOK /\ BatchPlaced /\ stack.count % BATCH_LEAVES = 0
           /\ stack.count \in Nat /\ base \in Nat /\ bytes_written \in Nat
           /\ Stacked \in Nat /\ StackEnd = 2 * (base + Stacked) /\ StackEnd \in Nat
           /\ Len(batch) \in Nat /\ Len(batch) * Q \in Nat /\ offset = 0
           /\ input \in [first : Nat, len : Nat] /\ read_pos \in Nat
           /\ input.first + input.len = base + bytes_written /\ read_pos <= input.len
           /\ input.first + read_pos = base + Stacked + Len(batch) * Q
           /\ jobs = <<>> /\ jobs \in Seq(JobType) /\ target = 0 /\ next = 0
           /\ caller \in {"", "flush", "group"}
PROOF
<1>1. Writing
  BY DEF Writing
<1>2. /\ TypeOK /\ BatchPlaced /\ stack.count % BATCH_LEAVES = 0 /\ offset = 0
      /\ input.first + input.len = base + bytes_written /\ read_pos <= input.len
      /\ input.first + read_pos = base + Stacked + Len(batch) * Q
  BY <1>1 DEF Inv, Placed
<1>3. jobs = <<>> /\ target = 0 /\ next = 0 /\ caller \in {"", "flush", "group"}
  BY DEF Inv, Control, TypeOK
<1>4. /\ stack \in [nodes : StackNodes, count : Nat] /\ base \in Nat
      /\ bytes_written \in 0 .. MAX_PAYLOAD_SIZE /\ batch \in Seq(Quads)
      /\ input \in [first : Nat, len : Nat] /\ read_pos \in Nat /\ jobs \in Seq(JobType)
  BY <1>2 DEF TypeOK
<1>5. stack.count \in Nat /\ Len(batch) \in Nat
  BY <1>4
<1>6. bytes_written \in Nat
  BY <1>4, LimitFacts
<1>7. Q \in Nat /\ \A a, b \in Nat : a * b \in Nat
  BY ConstFacts
<1>8. Stacked \in Nat /\ StackEnd = 2 * (base + Stacked) /\ StackEnd \in Nat
  BY <1>2, <1>4, <1>5, StackEndFacts
<1> QED
  BY <1>2, <1>3, <1>4, <1>5, <1>6, <1>7, <1>8

LEMMA WriteQuadInv ==
    ASSUME Inv, Control', WriteQuad
    PROVE  Kept'
PROOF
<1> DEFINE quad == InputQuad(input, read_pos)
           S == Stacked
           z == Len(batch) * Q
<1>1. /\ pc = "write" /\ read_pos + Q <= input.len /\ PushQuad(quad)
      /\ read_pos' = read_pos + Q
      /\ UNCHANGED <<buffer, offset, bytes_written, stack, base, outcome, result,
                     input, level, node, top, local>>
  BY DEF WriteQuad, tree
<1>2. /\ TypeOK /\ BatchPlaced /\ stack.count % BATCH_LEAVES = 0
      /\ base \in Nat /\ bytes_written \in Nat
      /\ S \in Nat /\ Len(batch) \in Nat /\ z \in Nat /\ offset = 0
      /\ input \in [first : Nat, len : Nat] /\ read_pos \in Nat
      /\ input.first + input.len = base + bytes_written /\ read_pos <= input.len
      /\ input.first + read_pos = base + S + z
      /\ jobs \in Seq(JobType) /\ target = 0 /\ next = 0
      /\ caller \in {"", "flush", "group"}
  BY <1>1, Loop
<1>3. Q \in Nat \ {0} /\ input.first \in Nat /\ input.len \in Nat
  BY <1>2, ConstFacts
<1>4. quad = Quad(base + S + z)
  <2> DEFINE p == base + S + z
  <2>1. input.first + read_pos = p
    BY <1>2
  <2> HIDE DEF p
  <2> QED BY <1>2, <1>3, <2>1 DEF InputQuad, Quad, p
<1>5. input'.first + read_pos' = base + S + (Len(batch) + 1) * Q
  <2>1. (Len(batch) + 1) * Q = z + Q
    <3>1. Len(batch) \in Nat /\ Q \in Nat
      BY <1>2, <1>3
    <3> QED BY <3>1
  <2> HIDE DEF S, z
  <2>2. /\ input'.first = input.first /\ read_pos' = read_pos + Q /\ Q \in Nat
        /\ input.first \in Nat /\ read_pos \in Nat
        /\ base \in Nat /\ S \in Nat /\ z \in Nat
        /\ input.first + read_pos = base + S + z
    BY <1>1, <1>2, <1>3
  <2> QED BY <2>1, <2>2
<1>6. read_pos' \in Nat /\ read_pos' <= input'.len
  <2>1. /\ read_pos' = read_pos + Q /\ read_pos + Q <= input.len /\ input' = input
        /\ read_pos \in Nat /\ Q \in Nat
    BY <1>1, <1>2, <1>3
  <2> QED BY <2>1
<1>7. /\ Placed' /\ Jobs' /\ CopyInv'
      /\ batch' \in Seq(Quads) /\ jobs' \in Seq(JobType)
      /\ target' \in Nat /\ next' \in Nat /\ pc' \in {"write", "reduce"}
      /\ caller' \in {caller, "flush"}
  <2> HIDE DEF quad
  <2> QED BY <1>1, <1>2, <1>4, <1>5, <1>6, QuadQueued
<1>8. TypeOK'
  BY <1>1, <1>2, <1>6, <1>7 DEF TypeOK
<1> QED
  BY <1>1, <1>7, <1>8, SameDigest DEF Kept

(* The rest of the slice is less than a quad and waits in the buffer. *)
LEMMA WriteTailInv ==
    ASSUME Inv, Control', WriteTail
    PROVE  Kept'
PROOF
<1> DEFINE rest == input.len - read_pos
           S == Stacked
           z == Len(batch) * Q
<1>1. /\ pc = "write" /\ read_pos + Q > input.len
      /\ buffer' = [i \in 0 .. Q - 1 |->
                      IF i < rest THEN input.first + read_pos + i ELSE buffer[i]]
      /\ offset' = IF rest > 0 THEN rest ELSE offset
      /\ pc' = "idle" /\ caller' = "" /\ input' = NoInput /\ read_pos' = 0
      /\ UNCHANGED <<bytes_written, batch, stack, base, outcome, result, jobs,
                     target, next, level, node, top, local>>
  BY DEF WriteTail, tree
<1>2. /\ TypeOK /\ BatchPlaced /\ stack.count % BATCH_LEAVES = 0
      /\ base \in Nat /\ bytes_written \in Nat /\ S \in Nat /\ z \in Nat /\ offset = 0
      /\ input \in [first : Nat, len : Nat] /\ read_pos \in Nat
      /\ input.first + input.len = base + bytes_written /\ read_pos <= input.len
      /\ input.first + read_pos = base + S + z
  BY <1>1, Loop
<1>3. Q \in Nat \ {0} /\ input.first \in Nat /\ input.len \in Nat
  BY <1>2, ConstFacts
<1>a. /\ input.first \in Nat /\ input.len \in Nat /\ read_pos \in Nat /\ Q \in Nat \ {0}
      /\ read_pos + Q > input.len /\ read_pos <= input.len
      /\ offset = 0 /\ offset' = IF rest > 0 THEN rest ELSE offset
  BY <1>1, <1>2, <1>3
<1>4. rest \in 0 .. Q - 1 /\ offset' = rest /\ offset' \in 0 .. Q - 1
  BY <1>a
<1>5. buffer' \in Quads
  <2>1. \A i \in 0 .. Q - 1 : buffer[i] \in Int
    BY <1>2 DEF TypeOK, Quads
  <2>2. ASSUME NEW i \in 0 .. Q - 1
        PROVE  (IF i < rest THEN input.first + read_pos + i ELSE buffer[i]) \in Int
    BY <1>2, <1>3, <2>1
  <2> QED BY <1>1, <2>2 DEF Quads
<1>6. BatchPlaced' /\ Stacked' = S /\ (Len(batch) * Q)' = z
  BY <1>1, <1>2 DEF BatchPlaced, Stacked
<1>7. BufferPlaced'
  <2>1. ASSUME NEW i \in 0 .. offset' - 1 PROVE buffer'[i] = base + S + z + i
    <3>1. i \in 0 .. Q - 1 /\ i < rest
      BY <1>3, <1>4
    <3>2. buffer'[i] = input.first + read_pos + i
      BY <1>1, <3>1
    <3> HIDE DEF S, z
    <3> QED BY <1>2, <1>3, <3>1, <3>2
  <2>2. bytes_written' = S + z + offset'
    <3> HIDE DEF S, z
    <3>1. /\ S \in Nat /\ z \in Nat /\ base \in Nat /\ bytes_written \in Nat
          /\ bytes_written' = bytes_written /\ offset' = input.len - read_pos
          /\ input.first + input.len = base + bytes_written
          /\ input.first + read_pos = base + S + z
      BY <1>1, <1>2, <1>4
    <3> QED BY <1>a, <3>1
  <2> QED BY <1>1, <1>6, <2>1, <2>2 DEF BufferPlaced
<1>8. Placed'
  <2>1. ~ Writing'
    BY <1>1 DEF Writing
  <2> QED BY <1>1, <1>2, <1>6, <1>7, <2>1 DEF Placed
<1>9. TypeOK'
  <2>1. input' \in [first : Nat, len : Nat]
    BY <1>1 DEF NoInput
  <2> QED BY <1>1, <1>2, <1>4, <1>5, <2>1 DEF TypeOK
<1> QED
  BY <1>1, <1>8, <1>9, NoJobs, NoCopy, SameDigest DEF Kept

(* push_batches_parallel starts its workers: job w covers batch w of what  *)
(* follows the stack.                                                      *)
LEMMA WriteGroupInv ==
    ASSUME Inv, Control', WriteGroup
    PROVE  Kept'
PROOF
<1> DEFINE g == GroupSize
           S == Stacked
           from(w) == base + S + (w - 1) * BATCH_BYTES
           J(w) == [q \in 1 .. BATCH_QUADS |->
                      InputQuad(input, read_pos + (w - 1) * BATCH_BYTES + (q - 1) * Q)]
<1>1. /\ pc = "write" /\ batch = <<>>
      /\ pc' = "reduce" /\ caller' = "group" /\ target' = BATCH_LEVEL + 1 /\ next' = 1
      /\ UNCHANGED <<buffer, offset, bytes_written, batch, stack, base, outcome,
                     result, input, read_pos, level, node, top, local>>
  BY DEF WriteGroup, UseWorkers, self, tree
<1>2. /\ TypeOK /\ stack.count % BATCH_LEAVES = 0 /\ base \in Nat
      /\ S \in Nat /\ StackEnd = 2 * (base + S) /\ StackEnd \in Nat /\ offset = 0
      /\ input \in [first : Nat, len : Nat] /\ read_pos \in Nat
      /\ input.first + input.len = base + bytes_written /\ read_pos <= input.len
      /\ input.first + read_pos = base + S + Len(batch) * Q
  BY <1>1, Loop
<1>3. /\ BATCH_BYTES \in Nat \ {0} /\ BATCH_BYTES = BATCH_QUADS * Q
      /\ BATCH_QUADS \in Nat \ {0} /\ Q \in Nat \ {0} /\ PARALLEL_GROUP \in Nat
      /\ Span(BATCH_LEVEL) = 2 * BATCH_BYTES /\ BATCH_LEVEL \in Nat
      /\ BATCH_LEAVES = 2 * BATCH_QUADS /\ Pow[BATCH_LEVEL] = BATCH_LEAVES
  BY ConstFacts
<1>4. input.first + read_pos = base + S
  <2>1. Len(batch) = 0
    BY <1>1
  <2>2. Len(batch) * Q = 0
    BY <1>3, <2>1
  <2> HIDE DEF S
  <2> QED BY <1>2, <2>2
<1>5. /\ g \in 1 .. PARALLEL_GROUP /\ g \in Nat /\ Len(jobs') = g
      /\ read_pos + g * BATCH_BYTES <= input.len
      /\ \A w \in 1 .. g : jobs'[w] = Job(J(w))
  BY <1>3, WriteGroupFrame
<1>6. ASSUME NEW w \in 1 .. g
      PROVE  /\ Job(J(w)) \in JobType /\ Job(J(w)).height = 1
             /\ Job(J(w)).len = BATCH_LEAVES
             /\ from(w) \in Nat
             /\ JobCovers(Job(J(w)), 2 * from(w), 2 * (from(w) + BATCH_BYTES))
  <2> DEFINE x == (w - 1) * BATCH_BYTES
  <2>1. x \in Nat
    <3>1. w - 1 \in Nat
      BY <1>5
    <3> QED BY <1>3, <3>1
  <2>2. ASSUME NEW q \in 1 .. BATCH_QUADS, NEW i \in 0 .. Q - 1
        PROVE  /\ J(w)[q][i] = from(w) + (q - 1) * Q + i
               /\ from(w) + (q - 1) * Q + i < from(w) + BATCH_BYTES
    <3>1. PICK c \in Nat : BATCH_QUADS = (q - 1) + 1 + c
      <4>1. BATCH_QUADS - q \in Nat /\ BATCH_QUADS = (q - 1) + 1 + (BATCH_QUADS - q)
        BY <1>3
      <4> QED BY <4>1
    <3> DEFINE y == (q - 1) * Q
               u == c * Q
               p == read_pos + x + y
    <3>2. y \in Nat /\ u \in Nat /\ BATCH_BYTES = y + Q + u
      <4>1. q - 1 \in Nat
        OBVIOUS
      <4>2. BATCH_QUADS * Q = (q - 1) * Q + Q + c * Q
        BY <1>3, <3>1, <4>1
      <4> QED BY <1>3, <3>1, <4>1, <4>2
    <3>3. J(w)[q] = InputQuad(input, p)
      OBVIOUS
    <3> HIDE DEF p
    <3>4. InputQuad(input, p)[i] = input.first + p + i
      BY DEF InputQuad
    <3>5. p = read_pos + x + y
      BY DEF p
    <3> HIDE DEF J
    <3>6. J(w)[q][i] = input.first + (read_pos + x + y) + i
      BY <3>3, <3>4, <3>5
    <3>7. i \in Nat /\ i < Q /\ input.first \in Nat
      BY <1>2, <1>3
    <3>8. from(w) = base + S + x
      OBVIOUS
    <3> HIDE DEF x, y, u, S, from
    <3>9. /\ J(w)[q][i] = from(w) + y + i
          /\ from(w) + y + i < from(w) + BATCH_BYTES
      <4>1. /\ base \in Nat /\ S \in Nat /\ x \in Nat /\ y \in Nat /\ u \in Nat
            /\ read_pos \in Nat /\ Q \in Nat /\ i \in Nat /\ i < Q
            /\ input.first \in Nat /\ input.first + read_pos = base + S
            /\ BATCH_BYTES = y + Q + u
        BY <1>2, <1>3, <1>4, <2>1, <3>2, <3>7
      <4>2. J(w)[q][i] = from(w) + y + i
        <5>1. input.first + (read_pos + x + y) + i = base + S + x + y + i
          BY <4>1
        <5> QED BY <3>6, <3>8, <5>1
      <4>3. from(w) + y + i < from(w) + BATCH_BYTES
        BY <3>8, <4>1
      <4> QED BY <4>2, <4>3
    <3> QED BY <3>9 DEF y
  <2>3. from(w) \in Nat
    <3> HIDE DEF x, S
    <3>1. base + S + x \in Nat
      BY <1>2, <2>1
    <3> QED BY <3>1 DEF x
  <2>4. J(w) \in Seq(Quads) /\ Len(J(w)) = BATCH_QUADS
    <3>1. ASSUME NEW q \in 1 .. BATCH_QUADS PROVE J(w)[q] \in Quads
      <4> DEFINE p == read_pos + x + (q - 1) * Q
      <4>1. J(w)[q] = InputQuad(input, p)
        OBVIOUS
      <4>2. input.first + p \in Int
        <5>1. (q - 1) * Q \in Int
          BY <1>3
        <5> HIDE DEF x
        <5> QED BY <1>2, <2>1, <5>1
      <4> HIDE DEF p, J
      <4>3. InputQuad(input, p) \in Quads
        <5>1. p \in Int /\ input.first \in Nat
          <6>1. (q - 1) * Q \in Int
            BY <1>3
          <6> HIDE DEF x
          <6> QED BY <1>2, <2>1, <6>1 DEF p
        <5> QED BY <5>1 DEF InputQuad, Quads
      <4> QED BY <4>1, <4>3
    <3>2. J(w) = [q \in 1 .. BATCH_QUADS |-> J(w)[q]]
      OBVIOUS
    <3> HIDE DEF J, Quads
    <3>3. J(w) \in [1 .. BATCH_QUADS -> Quads]
      BY <3>1, <3>2
    <3> QED BY <1>3, <3>3
  <2> HIDE DEF J, from
  <2>5. /\ from(w) + BATCH_BYTES \in Nat /\ from(w) <= from(w) + BATCH_BYTES
        /\ from(w) + BATCH_BYTES <= from(w) + Len(J(w)) * Q
        /\ Len(J(w)) \in 1 .. BATCH_QUADS
    BY <1>3, <2>3, <2>4
  <2>6. \A q \in 1 .. Len(J(w)) : \A i \in 0 .. Q - 1 :
           J(w)[q][i] = IF from(w) + (q - 1) * Q + i < from(w) + BATCH_BYTES
                        THEN from(w) + (q - 1) * Q + i ELSE NoByte
    BY <2>2, <2>4
  <2>7. 2 * Len(J(w)) = BATCH_LEAVES
    BY <1>3, <2>4
  <2> QED BY <2>3, <2>4, <2>5, <2>6, <2>7, JobOf
<1>7. ASSUME NEW w \in Int
      PROVE  JobStart(w)' = 2 * from(w)
  <2> DEFINE B == BATCH_BYTES
             x == (w - 1) * B
  <2>1. RootsDone' = 0 /\ StackEnd' = StackEnd
    BY <1>1 DEF RootsDone, StackEnd
  <2>2. JobStart(w)' = StackEnd' + (w - 1 - RootsDone') * Span(BATCH_LEVEL)
    BY DEF JobStart
  <2>3. w - 1 - 0 = w - 1 /\ B \in Nat
    BY <1>3
  <2> HIDE DEF B
  <2>4. (w - 1) * (2 * B) = 2 * x /\ x \in Int
    BY <2>3
  <2>5. Span(BATCH_LEVEL) = 2 * B
    BY <1>3 DEF B
  <2>6. JobStart(w)' = StackEnd + 2 * x
    BY <2>1, <2>2, <2>3, <2>4, <2>5
  <2>7. from(w) = base + S + x
    BY DEF B
  <2> HIDE DEF x, from, S
  <2> QED BY <1>2, <2>4, <2>6, <2>7
<1>8. jobs' \in Seq(JobType)
  <2>1. jobs' = [w \in 1 .. g |-> Job(J(w))]
    BY DEF WriteGroup
  <2> HIDE DEF g, J, JobType
  <2>2. jobs' \in [1 .. g -> JobType]
    BY <1>6, <2>1
  <2> QED BY <1>5, <2>2
<1> HIDE DEF J
<1>9. Placed'
  <2>1. 1 \in Nat /\ from(1) = base + S
    <3>1. (1 - 1) * BATCH_BYTES = 0
      BY <1>3
    <3> HIDE DEF S
    <3> QED BY <1>2, <3>1
  <2>2. 2 * (input'.first + read_pos') = JobStart(1)'
    BY <1>1, <1>4, <1>7, <2>1
  <2>3. /\ Writing' /\ pc' # "write" /\ caller' # "flush" /\ offset' = 0
        /\ input'.first + input'.len = base' + bytes_written' /\ read_pos' <= input'.len
        /\ batch' = <<>> /\ stack'.count % BATCH_LEAVES = 0
    BY <1>1, <1>2 DEF Writing
  <2>4. Len(jobs') \in 1 .. PARALLEL_GROUP /\ read_pos' + Len(jobs') * BATCH_BYTES <= input'.len
    BY <1>1, <1>5
  <2> QED BY <2>2, <2>3, <2>4 DEF Placed
<1>10. Jobs'
  <2>1. ASSUME NEW w \in 1 .. Len(jobs')
        PROVE  /\ JobRange(jobs[w])'
               /\ JobCovers(jobs'[w], JobStart(w)', JobStart(w + 1)')
    <3>1. w \in 1 .. g /\ w \in Nat /\ jobs'[w] = Job(J(w))
      BY <1>5
    <3>2. jobs'[w].height = 1 /\ jobs'[w].len = BATCH_LEAVES /\ target' = BATCH_LEVEL + 1
      BY <1>1, <1>6, <3>1
    <3>3. /\ target' - jobs'[w].height = BATCH_LEVEL
          /\ 1 \in 1 .. BATCH_LEVEL + 1 /\ BATCH_LEAVES \in 1 .. BATCH_LEAVES
          /\ BATCH_LEAVES <= Pow[BATCH_LEVEL]
      BY <1>3, <3>2
    <3>4. JobRange(jobs[w])'
      BY <3>2, <3>3 DEF JobRange
    <3>5. JobCovers(jobs'[w], 2 * from(w), 2 * (from(w) + BATCH_BYTES))
      BY <1>6, <3>1
    <3>6. from(w + 1) = from(w) + BATCH_BYTES
      <4> DEFINE x == (w - 1) * BATCH_BYTES
      <4>1. (w + 1 - 1) * BATCH_BYTES = x + BATCH_BYTES /\ x \in Int
        BY <1>3, <3>1
      <4>2. base \in Int /\ S \in Int /\ BATCH_BYTES \in Int
        BY <1>2, <1>3
      <4> HIDE DEF x, S
      <4>3. base + S + (w + 1 - 1) * BATCH_BYTES = base + S + x + BATCH_BYTES
        BY <4>1, <4>2
      <4> QED BY <4>3 DEF x
    <3>7. \A v \in Int : JobStart(v)' = 2 * from(v)
      BY <1>7
    <3>8. JobStart(w)' = 2 * from(w) /\ JobStart(w + 1)' = 2 * from(w + 1)
      <4>1. w \in Int /\ w + 1 \in Int
        BY <3>1
      <4> HIDE DEF from
      <4> QED BY <3>7, <4>1
    <3> HIDE DEF from
    <3> QED BY <3>4, <3>5, <3>6, <3>8
  <2> QED BY <1>1, <2>1 DEF Jobs
<1>11. CopyInv'
  BY <1>1 DEF CopyInv
<1>12. TypeOK'
  <2>1. target' \in Nat /\ next' \in Nat
    BY <1>1, <1>3
  <2> QED BY <1>1, <1>2, <1>8, <2>1 DEF TypeOK
<1> QED
  BY <1>1, <1>9, <1>10, <1>11, <1>12, SameDigest DEF Kept

-----------------------------------------------------------------------------
(* While batches are reduced and their roots pushed. *)

(* A push moves the end of the stack by what it takes off the jobs. *)
LEMMA JobStartKept ==
    ASSUME base \in Nat, stack.count \in Nat, RootsDone \in Int,
           \/ StackEnd' = StackEnd /\ RootsDone' = RootsDone
           \/ StackEnd' = StackEnd + Span(BATCH_LEVEL) /\ RootsDone' = RootsDone + 1
    PROVE  \A w \in Int : JobStart(w)' = JobStart(w)
PROOF
<1> DEFINE S == Span(BATCH_LEVEL)
<1>1. StackEnd \in Int /\ S \in Int
  <2>1. LeafSpan * stack.count \in Nat /\ S \in Nat
    <3>1. LeafSpan \in Nat /\ S \in Nat /\ \A a, b \in Nat : a * b \in Nat
      BY ConstFacts, TreeAssumption
    <3> QED BY <3>1
  <2> QED BY <2>1 DEF StackEnd
<1>2. SUFFICES ASSUME NEW w \in Int PROVE JobStart(w)' = JobStart(w)
  OBVIOUS
<1>3. /\ JobStart(w)' = StackEnd' + (w - 1 - RootsDone') * S
      /\ JobStart(w) = StackEnd + (w - 1 - RootsDone) * S
  BY DEF JobStart
<1> HIDE DEF S
<1>4. CASE StackEnd' = StackEnd /\ RootsDone' = RootsDone
  BY <1>3, <1>4
<1>5. CASE StackEnd' = StackEnd + S /\ RootsDone' = RootsDone + 1
  <2> DEFINE m == w - 1 - RootsDone
  <2>1. m \in Int /\ w - 1 - (RootsDone + 1) = m - 1
    OBVIOUS
  <2>2. (m - 1) * S = m * S - S /\ m * S \in Int
    BY <1>1, <2>1
  <2> DEFINE x == m * S
  <2>3. x \in Int /\ JobStart(w)' = StackEnd + S + (x - S) /\ JobStart(w) = StackEnd + x
    BY <1>3, <1>5, <2>1, <2>2
  <2> HIDE DEF x, m
  <2> QED BY <1>1, <2>3
<1> QED
  BY <1>4, <1>5 DEF S

(* A call between its first job and its last push. *)
LEMMA Working ==
    ASSUME Inv, pc \in {"reduce", "push", "carry"}
    PROVE  /\ TypeOK /\ Control /\ Jobs /\ jobs \in Seq(JobType) /\ Len(jobs) \in Nat
           /\ stack \in [nodes : StackNodes, count : Nat] /\ stack.count \in Nat
           /\ local \in [nodes : StackNodes, count : Nat]
           /\ stack.count % BATCH_LEAVES = 0
           /\ base \in Nat /\ bytes_written \in Nat /\ next \in Nat /\ RootsDone \in Int
           /\ level \in Nat /\ target \in 1 .. BATCH_LEVEL + 1
           /\ caller \in {"flush", "group", "small", "build"}
           /\ StackEnd \in Nat /\ PayloadEnd \in Nat
PROOF
<1>1. TypeOK /\ Control /\ Jobs /\ stack.count % BATCH_LEAVES = 0
  BY DEF Inv, Placed
<1>2. /\ jobs \in Seq(JobType) /\ stack \in [nodes : StackNodes, count : Nat]
      /\ local \in [nodes : StackNodes, count : Nat]
      /\ base \in Nat /\ bytes_written \in 0 .. MAX_PAYLOAD_SIZE /\ next \in Nat
      /\ level \in Nat
  BY <1>1 DEF TypeOK
<1>3. bytes_written \in Nat
  BY <1>2, LimitFacts
<1>4. stack.count \in Nat
  BY <1>2
<1>5. Len(jobs) \in Nat
  <2> HIDE DEF JobType
  <2> QED BY <1>2
<1>6. RootsDone \in Int
  BY <1>2 DEF RootsDone
<1>7. caller \in {"flush", "group", "small", "build"}
  BY <1>1 DEF Control, TypeOK
<1>8. target \in 1 .. BATCH_LEVEL + 1
  <2>1. target = BATCH_LEVEL + 1 => target \in 1 .. BATCH_LEVEL + 1
    BY ConstFacts
  <2> QED BY <1>1, <1>7, <2>1 DEF Jobs
<1>9. StackEnd \in Nat /\ PayloadEnd \in Nat
  <2>1. PayloadEnd \in Nat
    BY <1>2, <1>3 DEF PayloadEnd
  <2> QED BY <1>1, <1>2, <1>4, <2>1, StackEndFacts
<1> QED
  BY <1>1, <1>2, <1>3, <1>4, <1>5, <1>6, <1>7, <1>8, <1>9

(* The slice and the batch do not change under the workers and the pushes. *)
LEMMA StillWriting ==
    ASSUME Inv, caller \in {"flush", "group"}, pc # "write", pc' # "write",
           UNCHANGED <<caller, batch, offset, base, bytes_written, input, read_pos>>,
           Len(jobs') = Len(jobs), \A w \in Int : JobStart(w)' = JobStart(w),
           stack'.count % BATCH_LEAVES = 0
    PROVE  Placed'
PROOF
<1>1. /\ offset = 0 /\ input.first + input.len = base + bytes_written
      /\ read_pos <= input.len
      /\ caller = "flush" => /\ Len(batch) = BATCH_QUADS /\ Len(jobs) = 1
                             /\ 2 * (input.first + read_pos) = JobStart(2)
      /\ caller = "group" => /\ batch = <<>> /\ Len(jobs) \in 1 .. PARALLEL_GROUP
                             /\ 2 * (input.first + read_pos) = JobStart(1)
                             /\ read_pos + Len(jobs) * BATCH_BYTES <= input.len
  BY DEF Inv, Placed, Writing
<1>2. JobStart(1)' = JobStart(1) /\ JobStart(2)' = JobStart(2)
  OBVIOUS
<1>3. Writing'
  BY DEF Writing
<1> QED
  BY <1>1, <1>2, <1>3 DEF Placed

(* The jobs are as they were, or done, while their roots are pushed. *)
LEMMA JobsKept ==
    ASSUME Inv, pc \in {"reduce", "push", "carry"}, pc' \in {"push", "carry"},
           caller # "small", UNCHANGED <<caller, jobs, target>>,
           \A w \in 1 .. Len(jobs) : jobs[w].height = target,
           caller \in {"flush", "group"} => \A w \in Int : JobStart(w)' = JobStart(w),
           caller = "build" => UNCHANGED <<StackEnd, PayloadEnd, BuildQuads>>
    PROVE  Jobs'
PROOF
<1>1. /\ \A w \in 1 .. Len(jobs) : JobRange(jobs[w])
      /\ target = BATCH_LEVEL + 1
      /\ caller \in {"flush", "group"} =>
           \A w \in 1 .. Len(jobs) : JobCovers(jobs[w], JobStart(w), JobStart(w + 1))
      /\ caller = "build" =>
           /\ Len(jobs) = 1 /\ BuildQuads # <<>>
           /\ JobCovers(jobs[1], StackEnd, PayloadEnd)
  BY Working DEF Jobs
<1>2. \A w \in 1 .. Len(jobs) : JobRange(jobs[w])'
  BY <1>1 DEF JobRange
<1>3. ASSUME caller \in {"flush", "group"}, NEW w \in 1 .. Len(jobs)
      PROVE  JobCovers(jobs[w], JobStart(w)', JobStart(w + 1)')
  <2>1. w \in Int /\ w + 1 \in Int
    OBVIOUS
  <2>2. JobStart(w)' = JobStart(w) /\ JobStart(w + 1)' = JobStart(w + 1)
    BY <1>3, <2>1
  <2> QED BY <1>1, <1>3, <2>2
<1> QED
  BY <1>1, <1>2, <1>3 DEF Jobs

(* What one worker does to its job. *)
LEMMA ReducedJob ==
    ASSUME Inv, NEW w \in 1 .. Len(jobs), Reduce(w)
    PROVE  /\ jobs' \in Seq(JobType) /\ Len(jobs') = Len(jobs)
           /\ \A v \in 1 .. Len(jobs) : v # w => jobs'[v] = jobs[v]
           /\ jobs'[w].height \in 1 .. target
           /\ jobs'[w].len \in 1 .. BATCH_LEAVES
           /\ jobs'[w].len <= Pow[target - jobs'[w].height]
           /\ \A f, e \in Nat : JobCovers(jobs[w], f, e) => JobCovers(jobs'[w], f, e)
PROOF
<1> DEFINE j == jobs[w]
           r == ReduceLevel(j)
           k == target - (j.height + 1)
<1>1. pc = "reduce" /\ j.height < target /\ jobs' = [jobs EXCEPT ![w] = r]
  BY DEF Reduce
<1>2. /\ jobs \in Seq(JobType) /\ Jobs /\ target \in 1 .. BATCH_LEVEL + 1
  BY <1>1, Working
<1>3. j \in JobType
  BY <1>2
<1>4. /\ j.height \in 1 .. target /\ j.len \in 1 .. BATCH_LEAVES
      /\ j.len <= Pow[target - j.height]
  BY <1>2 DEF Jobs, JobRange
<1>5. /\ BATCH_LEVEL \in 1 .. MAX_LEVEL /\ BATCH_LEAVES \in Nat /\ BATCH_LEAVES % 2 = 0
      /\ MAX_LEVEL \in Nat
  BY HasherAssumption, ConstFacts, TreeAssumption
<1>6. j.height \in 1 .. MAX_LEVEL /\ j.len <= BATCH_LEAVES
  <2> HIDE DEF j
  <2> QED BY <1>1, <1>2, <1>4, <1>5
<1>7. ASSUME NEW f \in Nat, NEW e \in Nat, JobCovers(j, f, e)
      PROVE  /\ r \in JobType /\ r.height = j.height + 1
             /\ r.len = (j.len + 1) \div 2 /\ r.len \in 1 .. BATCH_LEAVES
             /\ JobCovers(r, f, e)
  <2>1. j \in [nodes : [0 .. BATCH_LEAVES - 1 -> Node], len : Nat, height : Nat]
    BY <1>3 DEF JobType
  <2> HIDE DEF j, r
  <2>2. ReduceLevel(j) \in JobType
    BY <1>5, <1>6, <1>7, <2>1, ReduceCovers DEF JobType
  <2> QED
    BY <1>5, <1>6, <1>7, <2>1, <2>2, ReduceCovers DEF r
<1>8. \E f, e \in Nat : JobCovers(j, f, e)
  <2>1. /\ caller \in {"flush", "group", "small", "build"} /\ base \in Nat
        /\ StackEnd \in Nat /\ PayloadEnd \in Nat /\ Control
        /\ Len(jobs) \in Nat
    BY <1>1, Working
  <2>2. CASE caller \in {"flush", "group"}
    <3>1. JobCovers(j, JobStart(w), JobStart(w + 1))
      BY <1>1, <1>2, <2>2 DEF Jobs
    <3>2. JobStart(w) \in Nat /\ JobStart(w + 1) \in Nat
      <4>1. RootsDone = 0
        <5>1. next = 1
          <6>1. next \in 1 .. Len(jobs) + 1 /\ next \in {0, 1}
            BY <1>1, <2>1, <2>2 DEF Control
          <6> QED BY <2>1, <6>1
        <5> QED BY <1>1, <5>1 DEF RootsDone
      <4>2. w - 1 - 0 \in Nat /\ w + 1 - 1 - 0 \in Nat /\ w \in Int /\ w + 1 \in Int
        BY <2>1
      <4>3. Span(BATCH_LEVEL) \in Nat /\ \A a, b \in Nat : a * b \in Nat
        BY ConstFacts
      <4>4. \A v \in Int : JobStart(v) = StackEnd + (v - 1 - 0) * Span(BATCH_LEVEL)
        BY <4>1 DEF JobStart
      <4>5. ASSUME NEW v \in Int, v - 1 - 0 \in Nat PROVE JobStart(v) \in Nat
        <5>1. (v - 1 - 0) * Span(BATCH_LEVEL) \in Nat
          BY <4>3, <4>5
        <5>2. StackEnd \in Nat
          BY <2>1
        <5>3. StackEnd + (v - 1 - 0) * Span(BATCH_LEVEL) \in Nat
          BY <5>1, <5>2
        <5> QED BY <4>4, <5>3
      <4> QED BY <4>2, <4>5
    <3> QED BY <3>1, <3>2
  <2>3. CASE caller = "small"
    <3>1. w = 1 /\ JobCovers(jobs[1], 2 * base, PayloadEnd) /\ 2 * base \in Nat
      <4>1. Len(jobs) = 1 /\ JobCovers(jobs[1], 2 * base, PayloadEnd)
        BY <1>2, <2>3 DEF Jobs
      <4>2. w = 1 /\ 2 * base \in Nat
        BY <2>1, <4>1
      <4> QED BY <4>1, <4>2
    <3> QED BY <2>1, <3>1
  <2>4. CASE caller = "build"
    <3>1. Len(jobs) = 1 /\ JobCovers(jobs[1], StackEnd, PayloadEnd)
      BY <1>1, <1>2, <2>4 DEF Jobs
    <3>2. w = 1
      BY <3>1
    <3> QED BY <2>1, <3>1, <3>2
  <2> QED BY <2>1, <2>2, <2>3, <2>4
<1>9. /\ r \in JobType /\ r.height = j.height + 1
      /\ r.len = (j.len + 1) \div 2 /\ r.len \in 1 .. BATCH_LEAVES
  BY <1>7, <1>8
<1>10. /\ jobs' \in Seq(JobType) /\ Len(jobs') = Len(jobs) /\ jobs'[w] = r
       /\ \A v \in 1 .. Len(jobs) : v # w => jobs'[v] = jobs[v]
  <2> HIDE DEF JobType, r
  <2> QED BY <1>1, <1>2, <1>9
<1> HIDE DEF r
<1>11. r.height \in 1 .. target /\ r.len <= Pow[target - r.height]
  <2> HIDE DEF j
  <2>1. k \in 0 .. MAX_LEVEL - 1 /\ target - j.height = k + 1 /\ target - r.height = k
        /\ r.height \in 1 .. target
    <3>1. /\ j.height < target /\ target \in 1 .. BATCH_LEVEL + 1 /\ j.height \in 1 .. target
          /\ BATCH_LEVEL \in 1 .. MAX_LEVEL /\ MAX_LEVEL \in Nat /\ r.height = j.height + 1
      BY <1>1, <1>2, <1>4, <1>5, <1>9
    <3> QED BY <3>1
  <2>2. Pow[k + 1] = 2 * Pow[k] /\ Pow[k] \in Nat
    BY <2>1, PowDouble DEF Slots
  <2> HIDE DEF k
  <2>3. j.len <= 2 * Pow[k] /\ j.len \in Nat
    BY <1>4, <1>5, <2>1, <2>2
  <2> DEFINE P == Pow[k]
             L == j.len
  <2>4. (L + 1) \div 2 <= P
    <3>1. L \in Nat /\ P \in Nat /\ L <= 2 * P
      BY <2>2, <2>3
    <3> HIDE DEF L, P
    <3> QED BY <3>1
  <2> QED BY <1>9, <2>1, <2>4
<1> QED
  BY <1>7, <1>9, <1>10, <1>11

LEMMA ReduceInv ==
    ASSUME Inv, Control', NEW w \in 1 .. Len(jobs), Reduce(w)
    PROVE  Kept'
PROOF
<1>1. /\ pc = "reduce" /\ pc' = "reduce"
      /\ UNCHANGED <<buffer, offset, bytes_written, batch, stack, base, outcome, result,
                     caller, input, read_pos, target, next, level, node, top, local,
                     self, tree>>
  BY DEF Reduce, self, tree
<1>2. /\ TypeOK /\ Control /\ Jobs /\ base \in Nat /\ stack.count \in Nat
      /\ RootsDone \in Int /\ Len(jobs) \in Nat /\ next \in Nat
      /\ StackEnd \in Nat /\ PayloadEnd \in Nat /\ stack.count % BATCH_LEAVES = 0
      /\ caller \in {"flush", "group", "small", "build"}
  BY <1>1, Working
<1>3. /\ jobs' \in Seq(JobType) /\ Len(jobs') = Len(jobs)
      /\ \A v \in 1 .. Len(jobs) : v # w => jobs'[v] = jobs[v]
      /\ jobs'[w].height \in 1 .. target
      /\ jobs'[w].len \in 1 .. BATCH_LEAVES
      /\ jobs'[w].len <= Pow[target - jobs'[w].height]
      /\ \A f, e \in Nat : JobCovers(jobs[w], f, e) => JobCovers(jobs'[w], f, e)
  BY ReducedJob
<1>4. TypeOK'
  BY <1>1, <1>2, <1>3 DEF TypeOK
<1>5. UNCHANGED <<StackEnd, PayloadEnd, BuildQuads, RootsDone>>
  BY <1>1 DEF StackEnd, PayloadEnd, BuildQuads, TailQuad, RootsDone
<1>6. \A v \in Int : JobStart(v)' = JobStart(v)
  BY <1>2, <1>5, JobStartKept
<1>7. Placed'
  <2>1. CASE caller \in {"flush", "group"}
    BY <1>1, <1>2, <1>3, <1>6, <2>1, StillWriting
  <2>2. CASE caller \notin {"flush", "group"}
    <3>1. ~ Writing /\ ~ Writing'
      BY <1>1, <2>2 DEF Writing
    <3> QED BY <1>1, <3>1, StillApart
  <2> QED BY <2>1, <2>2
<1>8. ASSUME NEW v \in 1 .. Len(jobs') PROVE JobRange(jobs[v])'
  <2>1. v \in 1 .. Len(jobs)
    BY <1>3
  <2>2. CASE v = w
    BY <1>1, <1>3, <2>2 DEF JobRange
  <2>3. CASE v # w
    BY <1>1, <1>2, <1>3, <2>1, <2>3 DEF JobRange, Jobs
  <2> QED BY <2>2, <2>3
<1>9. ASSUME caller \in {"flush", "group"}, NEW v \in 1 .. Len(jobs')
      PROVE  JobCovers(jobs'[v], JobStart(v)', JobStart(v + 1)')
  <2>1. v \in 1 .. Len(jobs) /\ v \in Int /\ v + 1 \in Int
    BY <1>3
  <2>2. JobCovers(jobs[v], JobStart(v), JobStart(v + 1))
    BY <1>1, <1>2, <1>9, <2>1 DEF Jobs
  <2>3. JobStart(v)' = JobStart(v) /\ JobStart(v + 1)' = JobStart(v + 1)
    BY <1>6, <2>1
  <2>4. JobStart(v) \in Nat /\ JobStart(v + 1) \in Nat
    <3>1. next \in 1 .. Len(jobs) + 1 /\ next \in {0, 1}
      BY <1>1, <1>2, <1>9 DEF Control
    <3>2. next = 1
      BY <1>2, <3>1
    <3>3. RootsDone = 0
      BY <1>1, <3>2 DEF RootsDone
    <3>4. ASSUME NEW u \in Int, u - 1 - 0 \in Nat PROVE JobStart(u) \in Nat
      <4>1. Span(BATCH_LEVEL) \in Nat /\ \A a, b \in Nat : a * b \in Nat
        BY ConstFacts
      <4>2. StackEnd \in Nat /\ (u - 1 - 0) * Span(BATCH_LEVEL) \in Nat
        BY <1>2, <3>4, <4>1
      <4>3. StackEnd + (u - 1 - 0) * Span(BATCH_LEVEL) \in Nat
        BY <4>2
      <4> QED BY <3>3, <4>3 DEF JobStart
    <3>5. v - 1 - 0 \in Nat /\ v + 1 - 1 - 0 \in Nat
      BY <2>1
    <3> QED BY <2>1, <3>4, <3>5
  <2>5. CASE v = w
    BY <1>3, <2>2, <2>3, <2>4, <2>5
  <2>6. CASE v # w
    BY <1>3, <2>1, <2>2, <2>3, <2>6
  <2> QED BY <2>5, <2>6
<1>10. ASSUME NEW f \in Nat, NEW e \in Nat, Len(jobs) = 1, JobCovers(jobs[1], f, e)
       PROVE  JobCovers(jobs'[1], f, e)
  <2>1. w = 1
    BY <1>10
  <2> QED BY <1>3, <1>10, <2>1
<1>11. Jobs'
  <2>1. caller = "small" => 2 * base \in Nat
    BY <1>2
  <2>2. caller = "small" =>
          /\ Len(jobs') = 1 /\ stack'.count = 0
          /\ target' \in 1 .. BATCH_LEVEL + 1
          /\ IsCeilLog(2 * Len(BuildQuads'), target' - 1)
          /\ JobCovers(jobs'[1], 2 * base', PayloadEnd')
    BY <1>1, <1>2, <1>3, <1>5, <1>10, <2>1 DEF Jobs
  <2>3. caller = "build" =>
          /\ Len(jobs') = 1 /\ BuildQuads' # <<>>
          /\ JobCovers(jobs'[1], StackEnd', PayloadEnd')
    BY <1>1, <1>2, <1>3, <1>5, <1>10 DEF Jobs
  <2>4. caller # "small" => target = BATCH_LEVEL + 1
    BY <1>1, <1>2 DEF Jobs
  <2> QED BY <1>1, <1>8, <1>9, <2>2, <2>3, <2>4 DEF Jobs
<1>12. CopyInv'
  <2>1. CASE caller = "build"
    <3>1. Padded' <=> Padded
      BY <1>1 DEF Padded
    <3> QED BY <1>1, <2>1, <3>1, CopyStutter
  <2>2. CASE caller # "build"
    BY <1>1, <2>2 DEF CopyInv
  <2> QED BY <2>1, <2>2
<1> QED
  BY <1>1, <1>4, <1>7, <1>11, <1>12, SameDigest DEF Kept

LEMMA ReducedInv ==
    ASSUME Inv, Control', Reduced
    PROVE  Kept'
PROOF
<1>1. /\ pc = "reduce" /\ caller # "small" /\ pc' = "push"
      /\ \A w \in 1 .. Len(jobs) : jobs[w].height = target
      /\ UNCHANGED <<buffer, offset, bytes_written, batch, stack, base, outcome, result,
                     caller, input, read_pos, jobs, target, next, level, node, top, local,
                     self, tree>>
  BY DEF Reduced, self, tree
<1>2. /\ TypeOK /\ Control /\ base \in Nat /\ stack.count \in Nat
      /\ RootsDone \in Int /\ Len(jobs) \in Nat /\ next \in Nat
      /\ stack.count % BATCH_LEAVES = 0
      /\ caller \in {"flush", "group", "build"}
  BY <1>1, Working
<1>3. TypeOK'
  BY <1>1, <1>2 DEF TypeOK
<1>4. UNCHANGED <<StackEnd, PayloadEnd, BuildQuads, RootsDone>>
  BY <1>1 DEF StackEnd, PayloadEnd, BuildQuads, TailQuad, RootsDone
<1>5. \A v \in Int : JobStart(v)' = JobStart(v)
  BY <1>2, <1>4, JobStartKept
<1>6. Placed'
  <2>1. CASE caller \in {"flush", "group"}
    BY <1>1, <1>2, <1>5, <2>1, StillWriting
  <2>2. CASE caller \notin {"flush", "group"}
    <3>1. ~ Writing /\ ~ Writing'
      BY <1>1, <2>2 DEF Writing
    <3> QED BY <1>1, <3>1, StillApart
  <2> QED BY <2>1, <2>2
<1>7. Jobs'
  BY <1>1, <1>4, <1>5, JobsKept
<1>8. CopyInv'
  <2>1. CASE caller = "build"
    <3>1. next # 2
      <4>1. next \in {0, 1}
        BY <1>1, <1>2 DEF Control
      <4> QED BY <4>1
    <3>2. ~ Padded /\ ~ Padded'
      BY <1>1, <3>1 DEF Padded
    <3> QED BY <1>1, <2>1, <3>2, CopyStutter
  <2>2. CASE caller # "build"
    BY <1>1, <2>2 DEF CopyInv
  <2> QED BY <2>1, <2>2
<1> QED
  BY <1>1, <1>3, <1>6, <1>7, <1>8, SameDigest DEF Kept

LEMMA HashPairNode ==
    ASSUME NEW left \in Node, NEW right \in Node
    PROVE  HashPair(left, right) \in Node
PROOF
  BY DEF HashPair, Extent, Junk, Node

(* The carry loop reads the stack inside its table. *)
LEMMA CarryLevel ==
    ASSUME Inv, pc = "carry"
    PROVE  /\ level \in Slots /\ Target.nodes[level] \in Node /\ node \in Node
           /\ caller \in {"flush", "group", "build"}
PROOF
<1>1. /\ stack \in [nodes : StackNodes, count : Nat]
      /\ local \in [nodes : StackNodes, count : Nat] /\ node \in Node /\ Control
      /\ caller \in {"flush", "group", "small", "build"}
  BY Working DEF TypeOK
<1>2. caller \in {"flush", "group", "build"}
  BY <1>1 DEF Control
<1>3. level \in Slots
  <2>1. CASE caller = "build"
    <3>1. Copy!Inv
      BY <2>1 DEF Inv, CopyInv
    <3>2. (IF pc = "carry" THEN "push"
           ELSE IF pc = "fold" /\ level > 0 THEN "fold" ELSE "idle") = "push"
      OBVIOUS
    <3>3. level \in Copy!Slots
      BY <3>1, <3>2 DEF Copy!Inv, Copy!PendingSubtrees, Copy!PushInv
    <3> QED BY <3>3, SameNames
  <2>2. CASE caller # "build"
    <3>1. Own!Inv
      BY DEF Inv
    <3>2. /\ (IF LiveCarry THEN "push" ELSE "idle") = "push"
          /\ (IF LiveCarry THEN level ELSE 0) = level
      BY <2>2 DEF LiveCarry
    <3>3. level \in Own!Slots
      BY <3>1, <3>2 DEF Own!Inv, Own!PendingSubtrees, Own!PushInv
    <3> QED BY <3>3, SameNames
  <2> QED BY <2>1, <2>2
<1>4. Target \in [nodes : StackNodes, count : Nat]
  BY <1>1 DEF Target
<1>5. Target.nodes[level] \in Node
  BY <1>3, <1>4 DEF StackNodes
<1> QED
  BY <1>1, <1>2, <1>3, <1>5

(* What build() hashes next to a stack is never empty of payload. *)
LEMMA TailHolds ==
    ASSUME Inv, ~ Writing, stack.count # 0, BuildQuads # <<>>
    PROVE  StackEnd < PayloadEnd
PROOF
<1> DEFINE n == Len(BuildQuads)
<1>1. /\ StackEnd = 2 * (base + Stacked) /\ Stacked \in Nat /\ stack.count \in Nat
      /\ stack.count % BATCH_LEAVES = 0 /\ base \in Nat /\ bytes_written \in Nat
  BY Apart
<1>2. /\ Stacked <= bytes_written
      /\ bytes_written # 0 => Stacked + (n - 1) * Q < bytes_written
      /\ n \in 0 .. BATCH_QUADS /\ n # 0
  BY BuildQuadsHold
<1>3. bytes_written # 0
  <2>1. SUFFICES ASSUME bytes_written = 0 PROVE FALSE
    OBVIOUS
  <2>2. 2 * Stacked = LeafSpan * stack.count
    BY <1>1, WholeQuads DEF Stacked
  <2>3. Stacked = 0
    BY <1>1, <1>2, <2>1
  <2>4. LeafSpan * stack.count # 0
    <3>1. stack.count \in Nat \ {0} /\ LeafSpan \in Nat \ {0}
      BY <1>1, TreeAssumption
    <3>2. \A a, b \in Nat \ {0} : a * b # 0
      OBVIOUS
    <3> QED BY <3>1, <3>2
  <2> QED BY <2>2, <2>3, <2>4
<1>4. (n - 1) * Q \in Nat
  <2>1. BATCH_QUADS \in Nat /\ Q \in Nat /\ \A a, b \in Nat : a * b \in Nat
    BY ConstFacts
  <2> HIDE DEF n
  <2> QED BY <1>2, <2>1
<1> HIDE DEF n
<1>5. Stacked < bytes_written
  BY <1>1, <1>2, <1>3, <1>4
<1> QED
  BY <1>1, <1>5 DEF PayloadEnd

(* build's own push: the padded batch ends the payload.                    *)
LEMMA CopyPush ==
    ASSUME Inv, Push, caller = "build"
    PROVE  CopyInv' /\ node' \in Node /\ local' \in [nodes : StackNodes, count : Nat]
PROOF
<1> DEFINE c == local.count
           M == 2 * Pow[PAYLOAD_LEVEL]
           P == Pow[BATCH_LEVEL]
           S == Span(BATCH_LEVEL)
<1>1. /\ pc = "push" /\ next <= Len(jobs) /\ pc' = "carry"
      /\ local' = [local EXCEPT !.count = @ + P]
      /\ node' = jobs[next].nodes[0] /\ level' = BATCH_LEVEL
      /\ UNCHANGED <<stack, base, bytes_written, top, caller>>
  BY DEF Push, SetTarget, Target
<1>2. /\ TypeOK /\ Control /\ Jobs /\ base \in Nat /\ stack.count \in Nat
      /\ bytes_written \in Nat /\ next \in Nat
      /\ local \in [nodes : StackNodes, count : Nat]
      /\ stack.count % BATCH_LEAVES = 0 /\ StackEnd \in Nat /\ PayloadEnd \in Nat
  BY <1>1, Working
<1>3. Len(jobs) = 1 /\ BuildQuads # <<>> /\ JobCovers(jobs[1], StackEnd, PayloadEnd)
  BY <1>1, <1>2 DEF Jobs
<1>4. next = 1
  <2>1. next \in 1 .. Len(jobs) + 1
    BY <1>1, <1>2 DEF Control
  <2> QED BY <1>1, <1>3, <2>1
<1>5. ~ Padded /\ Padded'
  <2>1. next # 2
    BY <1>4
  <2> QED BY <1>1, <2>1 DEF Padded
<1>6. Copy!Inv /\ stack.count # 0 /\ c = stack.count
  <2>1. Copy!Inv /\ stack.count # 0
        /\ local.count = stack.count + (IF Padded THEN Pow[BATCH_LEVEL] ELSE 0)
    BY DEF Inv, CopyInv
  <2>2. local.count = stack.count + 0
    BY <1>5, <2>1
  <2> QED BY <1>2, <2>1, <2>2
<1>7. /\ S \in Nat \ {0} /\ P \in Nat \ {0} /\ BATCH_LEVEL \in Slots /\ P = BATCH_LEAVES
      /\ S = LeafSpan * P /\ LeafSpan \in Nat \ {0}
      /\ BATCH_LEVEL \in Nat /\ BATCH_LEVEL \in 0 .. MAX_LEVEL
  BY ConstFacts, TreeAssumption
<1>8. StackEnd < PayloadEnd
  <2>1. ~ Writing
    BY <1>1 DEF Writing
  <2> QED BY <1>3, <1>6, <2>1, TailHolds
<1>9. /\ node' = Extent(BATCH_LEVEL + 1, StackEnd, PayloadEnd)
      /\ PayloadEnd <= StackEnd + S /\ node' \in Node
  <2>1. jobs[1].len = 1 /\ jobs[1].height = BATCH_LEVEL + 1 /\ jobs[1].nodes[0] \in Node
    <3>1. 1 \in 1 .. Len(jobs)
      BY <1>3
    <3> QED BY <1>1, <3>1, ReducedRoot
  <2>2. jobs[1].nodes[0] = Extent(jobs[1].height, StackEnd, PayloadEnd)
        /\ PayloadEnd <= StackEnd + Span(jobs[1].height - 1)
    BY <1>2, <1>3, <1>8, <2>1, CoveredRoot
  <2>3. jobs[1].height - 1 = BATCH_LEVEL
    BY <1>7, <2>1
  <2>4. PayloadEnd <= StackEnd + S
    BY <2>2, <2>3
  <2>5. node' = jobs[1].nodes[0]
    BY <1>1, <1>4
  <2> HIDE DEF S
  <2> QED BY <2>1, <2>2, <2>4, <2>5
<1>10. c \in Nat /\ c % P = 0 /\ StackEnd = 2 * base + LeafSpan * c
  BY <1>2, <1>6, <1>7 DEF StackEnd
<1>11. c + P <= M
  <2>1. /\ M = Pow[PAYLOAD_LEVEL + 1] /\ PAYLOAD_LEVEL + 1 \in BATCH_LEVEL .. MAX_LEVEL
        /\ M \in Nat \ {0}
        /\ 2 * MAX_PAYLOAD_SIZE = LeafSpan * M /\ MAX_PAYLOAD_SIZE \in Nat
    BY LimitFacts
  <2>2. PayloadEnd <= 2 * base + LeafSpan * M
    <3>1. bytes_written \in 0 .. MAX_PAYLOAD_SIZE
      BY <1>2 DEF TypeOK
    <3> HIDE DEF M
    <3> QED BY <1>2, <2>1, <3>1 DEF PayloadEnd
  <2>3. LeafSpan * c < LeafSpan * M
    <3>1. LeafSpan * c \in Nat /\ LeafSpan * M \in Nat
      <4>1. \A a, b \in Nat : a * b \in Nat
        OBVIOUS
      <4> QED BY <1>7, <1>10, <2>1, <4>1
    <3> HIDE DEF M, c
    <3> QED BY <1>2, <1>8, <1>10, <2>2, <3>1
  <2> HIDE DEF M, c
  <2>4. c < M
    <3>1. SUFFICES ASSUME M <= c PROVE FALSE
      BY <1>10, <2>1
    <3>2. PICK a \in Nat : c = M + a
      <4>1. c - M \in Nat /\ c = M + (c - M)
        BY <1>10, <2>1, <3>1
      <4> QED BY <4>1
    <3>3. LeafSpan * c = LeafSpan * M + LeafSpan * a /\ LeafSpan * a \in Nat
          /\ LeafSpan * M \in Nat
      BY <1>7, <2>1, <3>2
    <3> QED BY <2>3, <3>3
  <2>5. PICK m \in Nat : M = P * m
    <3> DEFINE J == PAYLOAD_LEVEL + 1
    <3>1. BATCH_LEVEL \in 0 .. MAX_LEVEL /\ J \in BATCH_LEVEL .. MAX_LEVEL /\ M = Pow[J]
      BY <1>7, <2>1
    <3> HIDE DEF J
    <3>2. ASSUME NEW j \in BATCH_LEVEL .. MAX_LEVEL
          PROVE  Pow[j] = Pow[BATCH_LEVEL] * Pow[j - BATCH_LEVEL]
                 /\ j - BATCH_LEVEL \in 0 .. MAX_LEVEL
      BY <3>1, PowFacts
    <3>3. M = P * Pow[J - BATCH_LEVEL] /\ J - BATCH_LEVEL \in 0 .. MAX_LEVEL
      BY <3>1, <3>2
    <3>4. Pow[J - BATCH_LEVEL] \in Nat
      BY <3>3, TreeAssumption
    <3> QED BY <3>3, <3>4
  <2>6. PICK n \in Nat : c = P * n
    <3>1. c \div P \in Nat /\ c = P * (c \div P) + 0
      BY <1>7, <1>10, DivMod
    <3>2. P * (c \div P) + 0 = P * (c \div P)
      BY <1>7, <3>1
    <3> QED BY <3>1, <3>2
  <2> HIDE DEF P
  <2>7. n < m
    <3>1. SUFFICES ASSUME m <= n PROVE FALSE
      OBVIOUS
    <3>2. PICK a \in Nat : n = m + a
      <4>1. n - m \in Nat /\ n = m + (n - m)
        BY <3>1
      <4> QED BY <4>1
    <3>3. P * n = P * m + P * a /\ P * a \in Nat /\ P * m \in Nat
      BY <1>7, <3>2
    <3> QED BY <2>4, <2>5, <2>6, <3>3
  <2>8. PICK a \in Nat : m = n + 1 + a
    <3>1. m - n - 1 \in Nat /\ m = n + 1 + (m - n - 1)
      BY <2>7
    <3> QED BY <3>1
  <2>9. P * m = P * n + P + P * a /\ P * a \in Nat /\ P * n \in Nat
    BY <1>7, <2>8
  <2> QED BY <1>7, <2>5, <2>6, <2>9
<1>12. local'.count = c + P /\ local' \in [nodes : StackNodes, count : Nat]
  <2>1. c + P \in Nat
    BY <1>7, <1>10
  <2> HIDE DEF P
  <2> QED BY <1>1, <1>2, <2>1
<1>13. /\ Copy!Pos(c) = StackEnd /\ Copy!Pos(c + P) = StackEnd + S
  <2>1. LeafSpan * (c + P) = LeafSpan * c + LeafSpan * P
    BY <1>7, <1>10
  <2>2. Copy!Pos(c) = StackEnd
    BY <1>10 DEF Copy!Pos
  <2> HIDE DEF c, P, S
  <2>3. 2 * base + LeafSpan * (c + P) = StackEnd + S
    <3>1. LeafSpan * c \in Nat /\ LeafSpan * P \in Nat
      <4>1. \A a, b \in Nat : a * b \in Nat
        OBVIOUS
      <4> QED BY <1>7, <1>10, <4>1
    <3> QED BY <1>2, <1>7, <1>10, <2>1, <3>1
  <2> QED BY <2>2, <2>3 DEF Copy!Pos
<1>14. Copy!BeginPush(BATCH_LEVEL, PayloadEnd)
  <2>1. /\ (IF pc = "carry" THEN "push"
            ELSE IF pc = "fold" /\ level > 0 THEN "fold" ELSE "idle") = "idle"
        /\ (IF pc = "carry" THEN "push"
            ELSE IF pc = "fold" /\ level > 0 THEN "fold" ELSE "idle")' = "push"
    BY <1>1
  <2>2. /\ (IF Padded THEN PayloadEnd ELSE StackEnd) = StackEnd
        /\ (IF Padded THEN PayloadEnd ELSE StackEnd)' = PayloadEnd
    <3>1. PayloadEnd' = PayloadEnd
      BY <1>1 DEF PayloadEnd
    <3> QED BY <1>5, <3>1
  <2>3. node' = Copy!Extent(BATCH_LEVEL + 1, StackEnd, PayloadEnd)
    BY <1>9, SameNames
  <2>4. (2 * base)' = 2 * base
    BY <1>1
  <2>5. /\ StackEnd = Copy!Pos(local.count)
        /\ local.count % Pow[BATCH_LEVEL] = 0
        /\ local.count + Pow[BATCH_LEVEL] <= 2 * Pow[PAYLOAD_LEVEL]
        /\ StackEnd < PayloadEnd
        /\ PayloadEnd <= Copy!Pos(local.count + Pow[BATCH_LEVEL])
    BY <1>8, <1>9, <1>10, <1>11, <1>13
  <2> QED BY <1>1, <2>1, <2>2, <2>3, <2>4, <2>5, SameNames
           DEF Copy!BeginPush, Copy!NoResult
<1>15. Copy!Next
  <2>1. BATCH_LEVEL \in Copy!Slots /\ PayloadEnd \in StackEnd + 1 .. StackEnd + Copy!Span(BATCH_LEVEL)
    <3>1. PayloadEnd \in StackEnd + 1 .. StackEnd + S
      <4> HIDE DEF S
      <4> QED BY <1>2, <1>7, <1>8, <1>9
    <3> QED BY <1>7, <3>1, SameNames
  <2>2. (IF Padded THEN PayloadEnd ELSE StackEnd) = StackEnd
    BY <1>5
  <2> QED BY <1>14, <2>1, <2>2 DEF Copy!Next
<1>16. CopyInv'
  <2>1. local'.count = stack.count + (IF Padded' THEN Pow[BATCH_LEVEL] ELSE 0)
    BY <1>5, <1>6, <1>12
  <2> QED BY <1>1, <1>15, <2>1, CopyKept
<1> QED
  BY <1>9, <1>12, <1>16

LEMMA PushInv ==
    ASSUME Inv, Control', Push
    PROVE  Kept'
PROOF
<1>1. /\ pc = "push" /\ next <= Len(jobs) /\ pc' = "carry"
      /\ node' = jobs[next].nodes[0] /\ level' = BATCH_LEVEL
      /\ UNCHANGED <<buffer, offset, bytes_written, batch, base, outcome, result,
                     caller, input, read_pos, jobs, target, next, top>>
  BY DEF Push
<1>2. /\ TypeOK /\ Control /\ Jobs /\ base \in Nat /\ stack.count \in Nat
      /\ stack \in [nodes : StackNodes, count : Nat]
      /\ RootsDone \in Int /\ Len(jobs) \in Nat /\ next \in Nat
      /\ stack.count % BATCH_LEAVES = 0 /\ StackEnd \in Nat
      /\ caller \in {"flush", "group", "small", "build"}
  BY <1>1, Working
<1>3. caller # "small" /\ next \in 1 .. Len(jobs)
  <2>1. caller # "small"
    BY <1>1, <1>2 DEF Control
  <2>2. next \in 1 .. Len(jobs) + 1
    BY <1>1, <1>2, <2>1 DEF Control
  <2>3. next \in 1 .. Len(jobs)
    BY <1>1, <1>2, <2>2
  <2> QED BY <2>1, <2>3
<1>4. node' \in Node /\ \A w \in 1 .. Len(jobs) : jobs[w].height = target
  BY <1>1, <1>2, <1>3, ReducedRoot DEF Jobs
<1>5. BATCH_LEVEL \in Nat /\ Pow[BATCH_LEVEL] = BATCH_LEAVES /\ BATCH_LEAVES \in Nat
      /\ Span(BATCH_LEVEL) = LeafSpan * Pow[BATCH_LEVEL] /\ LeafSpan \in Nat
  BY ConstFacts, TreeAssumption
<1>6. CASE caller = "build"
  <2>1. stack' = stack
    BY <1>6 DEF Push, SetTarget
  <2>2. UNCHANGED <<self, base>>
    BY <1>1, <2>1 DEF self
  <2>3. ~ Writing /\ ~ Writing'
    BY <1>1, <1>6 DEF Writing
  <2>4. Placed'
    BY <2>2, <2>3, StillApart
  <2>5. UNCHANGED <<StackEnd, PayloadEnd, BuildQuads>>
    BY <1>1, <2>1 DEF StackEnd, PayloadEnd, BuildQuads, TailQuad
  <2>6. Jobs'
    BY <1>1, <1>4, <1>6, <2>5, JobsKept
  <2>7. CopyInv' /\ local' \in [nodes : StackNodes, count : Nat]
    BY <1>6, CopyPush
  <2>8. TypeOK'
    BY <1>1, <1>2, <1>4, <1>5, <2>1, <2>7 DEF TypeOK
  <2> QED BY <1>1, <2>4, <2>6, <2>7, <2>8, SameDigest DEF Kept
<1>7. CASE caller # "build"
  <2>1. stack' = [stack EXCEPT !.count = @ + Pow[BATCH_LEVEL]] /\ local' = local
    BY <1>7 DEF Push, SetTarget, Target
  <2>2. /\ stack'.count = stack.count + BATCH_LEAVES
        /\ stack' \in [nodes : StackNodes, count : Nat]
    <3>1. stack.count + BATCH_LEAVES \in Nat
      BY <1>2, <1>5
    <3> QED BY <1>2, <1>5, <2>1, <3>1
  <2>3. stack'.count % BATCH_LEAVES = 0
    BY <1>2, <2>2, WholeQuads
  <2>4. StackEnd' = StackEnd + Span(BATCH_LEVEL)
    <3>1. LeafSpan * (stack.count + BATCH_LEAVES)
            = LeafSpan * stack.count + LeafSpan * BATCH_LEAVES
          /\ LeafSpan * stack.count \in Nat /\ LeafSpan * BATCH_LEAVES \in Nat
      <4>1. \A a, b \in Nat : a * b \in Nat
        OBVIOUS
      <4> QED BY <1>2, <1>5, <4>1
    <3>2. StackEnd' = 2 * base + LeafSpan * (stack.count + BATCH_LEAVES)
      BY <1>1, <2>2 DEF StackEnd
    <3>3. StackEnd = 2 * base + LeafSpan * stack.count
      BY DEF StackEnd
    <3> QED BY <1>2, <1>5, <3>1, <3>2, <3>3
  <2>5. RootsDone' = RootsDone + 1
    <3>1. RootsDone' = next /\ RootsDone = next - 1
      BY <1>1 DEF RootsDone
    <3> QED BY <1>2, <3>1
  <2>6. \A w \in Int : JobStart(w)' = JobStart(w)
    BY <1>2, <2>4, <2>5, JobStartKept
  <2>7. Placed'
    BY <1>1, <1>2, <1>3, <1>7, <2>3, <2>6, StillWriting
  <2>8. Jobs'
    BY <1>1, <1>3, <1>4, <1>7, <2>6, JobsKept
  <2>9. TypeOK'
    BY <1>1, <1>2, <1>4, <1>5, <2>1, <2>2 DEF TypeOK
  <2>10. CopyInv'
    BY <1>1, <1>7 DEF CopyInv
  <2> QED BY <1>1, <2>7, <2>8, <2>9, <2>10, SameDigest DEF Kept
<1> QED
  BY <1>6, <1>7

(* The carry loop, on either stack. *)
LEMMA CarryInv ==
    ASSUME Inv, Control', Merge \/ Store
    PROVE  Kept'
PROOF
<1>1. /\ pc = "carry" /\ pc' \in {"carry", "push"}
      /\ UNCHANGED <<buffer, offset, bytes_written, batch, base, outcome, result,
                     caller, input, read_pos, jobs, target, top>>
  BY DEF Merge, Store, self
<1>2. /\ TypeOK /\ Control /\ Jobs /\ base \in Nat /\ stack.count \in Nat
      /\ stack \in [nodes : StackNodes, count : Nat]
      /\ local \in [nodes : StackNodes, count : Nat]
      /\ RootsDone \in Int /\ Len(jobs) \in Nat /\ next \in Nat /\ level \in Nat
      /\ stack.count % BATCH_LEAVES = 0 /\ StackEnd \in Nat
  BY <1>1, Working
<1>3. /\ level \in Slots /\ Target.nodes[level] \in Node /\ node \in Node
      /\ caller \in {"flush", "group", "build"}
  BY <1>1, CarryLevel
<1>4. \A w \in 1 .. Len(jobs) : jobs[w].height = target
  BY <1>1, <1>2 DEF Jobs
<1>5. /\ stack' \in [nodes : StackNodes, count : Nat] /\ stack'.count = stack.count
      /\ local' \in [nodes : StackNodes, count : Nat] /\ local'.count = local.count
      /\ caller = "build" => stack' = stack
      /\ level' \in Nat /\ node' \in Node /\ next' \in Nat
  <2>1. CASE Merge
    <3>1. /\ stack' = stack /\ local' = local /\ level' = level + 1 /\ next' = next
          /\ node' = HashPair(Target.nodes[level], node)
      BY <2>1 DEF Merge, self
    <3>2. node' \in Node
      BY <1>3, <3>1, HashPairNode
    <3>3. level + 1 \in Nat
      BY <1>2
    <3> QED BY <1>2, <3>1, <3>2, <3>3
  <2>2. CASE Store
    <3>1. /\ SetTarget([Target EXCEPT !.nodes[level] = node])
          /\ level' = 0 /\ node' = Junk /\ next' = next + 1
      BY <2>2 DEF Store
    <3>2. Junk \in Node /\ next + 1 \in Nat /\ 0 \in Nat
      BY <1>2 DEF Junk, Extent, Node
    <3>3. ASSUME NEW s \in [nodes : StackNodes, count : Nat]
          PROVE  /\ [s EXCEPT !.nodes[level] = node] \in [nodes : StackNodes, count : Nat]
                 /\ [s EXCEPT !.nodes[level] = node].count = s.count
      BY <1>3 DEF StackNodes
    <3>4. CASE caller = "build"
      <4>1. local' = [local EXCEPT !.nodes[level] = node] /\ stack' = stack
        BY <3>1, <3>4 DEF SetTarget, Target
      <4> QED BY <1>2, <3>1, <3>2, <3>3, <4>1
    <3>5. CASE caller # "build"
      <4>1. stack' = [stack EXCEPT !.nodes[level] = node] /\ local' = local
        BY <3>1, <3>5 DEF SetTarget, Target
      <4> QED BY <1>2, <3>1, <3>2, <3>3, <3>5, <4>1
    <3> QED BY <3>4, <3>5
  <2> QED BY <2>1, <2>2
<1>6. TypeOK'
  BY <1>1, <1>2, <1>5 DEF TypeOK
<1>7. UNCHANGED <<StackEnd, RootsDone>>
  <2>1. StackEnd' = StackEnd
    BY <1>1, <1>5 DEF StackEnd
  <2>2. CASE Merge
    <3>1. pc' = "carry" /\ next' = next
      BY <1>1, <2>2 DEF Merge
    <3> QED BY <1>1, <2>1, <3>1 DEF RootsDone
  <2>3. CASE Store
    <3>1. pc' = "push" /\ next' = next + 1
      BY <2>3 DEF Store
    <3>2. RootsDone' = next' - 1 /\ RootsDone = next
      BY <1>1, <3>1 DEF RootsDone
    <3> QED BY <1>2, <2>1, <3>1, <3>2
  <2> QED BY <2>2, <2>3
<1>8. \A w \in Int : JobStart(w)' = JobStart(w)
  BY <1>2, <1>7, JobStartKept
<1>9. caller = "build" => UNCHANGED <<StackEnd, PayloadEnd, BuildQuads>>
  BY <1>1, <1>7 DEF PayloadEnd, BuildQuads, TailQuad
<1>10. Jobs'
  BY <1>1, <1>3, <1>4, <1>8, <1>9, JobsKept
<1>11. Placed'
  <2>1. CASE caller = "build"
    <3>1. UNCHANGED <<self, base>>
      BY <1>1, <1>5, <2>1 DEF self
    <3>2. ~ Writing /\ ~ Writing'
      BY <1>1, <2>1 DEF Writing
    <3> QED BY <3>1, <3>2, StillApart
  <2>2. CASE caller # "build"
    <3>1. stack'.count % BATCH_LEAVES = 0
      BY <1>2, <1>5
    <3> QED BY <1>1, <1>3, <1>8, <2>2, <3>1, StillWriting
  <2> QED BY <2>1, <2>2
<1>12. CopyInv'
  <2>1. CASE caller = "build"
    <3>1. Padded
      BY <1>1 DEF Padded
    <3>2. Padded'
      <4>1. CASE Merge
        <5>1. pc' = "carry"
          BY <1>1, <4>1 DEF Merge
        <5> QED BY <5>1 DEF Padded
      <4>2. CASE Store
        <5>1. pc' = "push" /\ next' = next + 1
          BY <4>2 DEF Store
        <5>2. next = 1
          <6>1. Len(jobs) = 1 /\ next \in 1 .. Len(jobs) + 1 /\ next <= Len(jobs)
            BY <1>1, <1>2, <2>1 DEF Jobs, Control
          <6> QED BY <6>1
        <5>3. next' = 2
          BY <5>1, <5>2
        <5> QED BY <5>1, <5>3 DEF Padded
      <4> QED BY <4>1, <4>2
    <3>3. local.count = stack.count + Pow[BATCH_LEVEL]
      BY <2>1, <3>1 DEF Inv, CopyInv
    <3>4. local'.count = stack.count + (IF Padded' THEN Pow[BATCH_LEVEL] ELSE 0)
      BY <1>5, <3>2, <3>3
    <3>5. /\ (IF pc = "carry" THEN "push"
              ELSE IF pc = "fold" /\ level > 0 THEN "fold" ELSE "idle") = "push"
          /\ (IF pc = "carry" THEN "push"
              ELSE IF pc = "fold" /\ level > 0 THEN "fold" ELSE "idle")'
               = IF pc' = "carry" THEN "push" ELSE "idle"
      BY <1>1
    <3>6. /\ (IF Padded THEN PayloadEnd ELSE StackEnd)'
               = (IF Padded THEN PayloadEnd ELSE StackEnd)
          /\ (2 * base)' = 2 * base
      BY <1>1, <1>9, <2>1, <3>1, <3>2
    <3>7. CASE Merge
      <4>1. /\ pc' = "carry" /\ local' = local /\ level' = level + 1
            /\ Copy!Bit(local.count, level) = 0
            /\ node' = Copy!HashPair(local.nodes[level], node)
        BY <1>1, <2>1, <3>7, SameNames DEF Merge, Target
      <4>2. Copy!Merge
        BY <1>1, <3>5, <3>6, <4>1 DEF Copy!Merge
      <4>3. Copy!Next
        BY <4>2 DEF Copy!Next, Copy!PushStep
      <4> QED BY <1>5, <2>1, <3>4, <4>3, CopyKept
    <3>8. CASE Store
      <4>1. /\ pc' = "push" /\ local' = [local EXCEPT !.nodes[level] = node]
            /\ level' = 0 /\ node' = Copy!Junk
            /\ Copy!Bit(local.count, level) = 1
        BY <1>1, <2>1, <3>8, SameNames DEF Store, Target, SetTarget
      <4>2. Copy!Store
        BY <1>1, <3>5, <3>6, <4>1 DEF Copy!Store
      <4>3. Copy!Next
        BY <4>2 DEF Copy!Next, Copy!PushStep
      <4> QED BY <1>5, <2>1, <3>4, <4>3, CopyKept
    <3> QED BY <3>7, <3>8
  <2>2. CASE caller # "build"
    BY <1>1, <2>2 DEF CopyInv
  <2> QED BY <2>1, <2>2
<1> QED
  BY <1>1, <1>6, <1>10, <1>11, <1>12, SameDigest DEF Kept

(* All roots are under the stack: the loop of write() goes on, or build    *)
(* folds its copy.                                                         *)
LEMMA PushedInv ==
    ASSUME Inv, Control', Pushed
    PROVE  Kept'
PROOF
<1> DEFINE n == Len(jobs)
           S == Stacked
<1>1. /\ pc = "push" /\ next > n
      /\ batch' = IF caller = "flush" THEN <<>> ELSE batch
      /\ read_pos' = IF caller = "group" THEN read_pos + n * BATCH_BYTES ELSE read_pos
      /\ pc' = IF caller = "build" THEN "fold" ELSE "write"
      /\ jobs' = <<>> /\ target' = 0 /\ next' = 0
      /\ UNCHANGED <<buffer, offset, bytes_written, stack, base, outcome, result,
                     caller, input, level, node, top, local, tree>>
  BY DEF Pushed, tree
<1>2. /\ TypeOK /\ Control /\ Jobs /\ base \in Nat /\ stack.count \in Nat
      /\ n \in Nat /\ next \in Nat
      /\ stack.count % BATCH_LEAVES = 0 /\ StackEnd \in Nat
      /\ caller \in {"flush", "group", "small", "build"}
  BY <1>1, Working
<1>3. caller \in {"flush", "group", "build"} /\ next = n + 1
  <2>1. caller # "small"
    BY <1>1, <1>2 DEF Control
  <2>2. next \in 1 .. n + 1
    BY <1>1, <1>2, <2>1 DEF Control
  <2>3. next = n + 1
    BY <1>1, <1>2, <2>2
  <2> QED BY <1>2, <2>1, <2>3
<1>4. /\ BATCH_BYTES \in Nat /\ Span(BATCH_LEVEL) = 2 * BATCH_BYTES
      /\ BATCH_QUADS \in Nat \ {0} /\ Q \in Nat
      /\ S \in Nat /\ StackEnd = 2 * (base + S)
  BY <1>2, StackEndFacts, ConstFacts
<1>5. batch \in Seq(Quads) /\ input \in [first : Nat, len : Nat] /\ read_pos \in Nat
      /\ jobs' \in Seq(JobType)
  <2>1. jobs' \in Seq(JobType)
    <3> HIDE DEF JobType
    <3> QED BY <1>1
  <2> QED BY <1>2, <2>1 DEF TypeOK
<1>6. RootsDone = n
  <2>1. RootsDone = next - 1
    BY <1>1 DEF RootsDone
  <2> HIDE DEF n
  <2> QED BY <1>2, <1>3, <2>1
<1>7. CASE caller \in {"flush", "group"}
  <2>1. /\ offset = 0 /\ input.first + input.len = base + bytes_written
        /\ read_pos <= input.len
        /\ caller = "flush" => n = 1 /\ 2 * (input.first + read_pos) = JobStart(2)
        /\ caller = "group" => /\ batch = <<>>
                               /\ 2 * (input.first + read_pos) = JobStart(1)
                               /\ read_pos + n * BATCH_BYTES <= input.len
    BY <1>1, <1>7 DEF Inv, Placed, Writing
  <2>2. batch' = <<>> /\ Len(batch') = 0
    BY <1>1, <1>7, <2>1
  <2>3. Stacked' = S /\ Len(batch') * Q = 0
    <3>1. 0 * Q = 0
      BY <1>4
    <3> QED BY <1>1, <2>2, <3>1 DEF Stacked
  <2>4. n * BATCH_BYTES \in Nat
    BY <1>2, <1>4
  <2>5. /\ input.first + read_pos' = base + S
        /\ read_pos' \in Nat /\ read_pos' <= input.len
    <3>1. CASE caller = "flush"
      <4>1. JobStart(2) = StackEnd
        <5>1. 2 - 1 - n = 0
          BY <2>1, <3>1
        <5>2. 0 * Span(BATCH_LEVEL) = 0
          BY <1>4
        <5>3. JobStart(2) = StackEnd + (2 - 1 - RootsDone) * Span(BATCH_LEVEL)
          BY DEF JobStart
        <5> HIDE DEF n
        <5> QED BY <1>2, <1>6, <5>1, <5>2, <5>3
      <4>2. read_pos' = read_pos /\ read_pos <= input.len
            /\ 2 * (input.first + read_pos) = StackEnd
        BY <1>1, <2>1, <3>1, <4>1
      <4>3. input.first \in Nat
        BY <1>5
      <4> HIDE DEF S
      <4>4. input.first + read_pos = base + S
        <5>1. read_pos \in Nat /\ base \in Nat /\ S \in Nat /\ StackEnd = 2 * (base + S)
          BY <1>2, <1>4, <1>5
        <5> QED BY <4>2, <4>3, <5>1
      <4> QED BY <1>5, <4>2, <4>4
    <3>2. CASE caller = "group"
      <4> DEFINE x == n * BATCH_BYTES
      <4>1. JobStart(1) = StackEnd - 2 * x
        <5>1. JobStart(1) = StackEnd + (1 - 1 - RootsDone) * Span(BATCH_LEVEL)
          BY DEF JobStart
        <5> HIDE DEF n
        <5>2. 1 - 1 - n = - n
          BY <1>2
        <5>3. (- n) * (2 * BATCH_BYTES) = - (2 * (n * BATCH_BYTES))
          BY <1>2, <1>4
        <5>4. JobStart(1) = StackEnd + (- (2 * x))
          BY <1>4, <1>6, <5>1, <5>2, <5>3
        <5> HIDE DEF x
        <5>5. x \in Nat
          BY <2>4 DEF x
        <5> QED BY <1>2, <5>4, <5>5
      <4>2. /\ read_pos' = read_pos + x /\ read_pos + x <= input.len
            /\ 2 * (input.first + read_pos) = StackEnd - 2 * x
        BY <1>1, <2>1, <3>2, <4>1
      <4>3. /\ input.first \in Nat /\ x \in Nat /\ read_pos \in Nat /\ base \in Nat
            /\ S \in Nat /\ StackEnd = 2 * (base + S)
        BY <1>2, <1>4, <1>5, <2>4
      <4> HIDE DEF x, S, n
      <4>4. \A f, r, b, s, e, y \in Nat :
               2 * (f + r) = e - 2 * y /\ e = 2 * (b + s) => (f + (r + y) = b + s)
        OBVIOUS
      <4>5. StackEnd \in Nat
        BY <4>3
      <4>6. input.first + (read_pos + x) = base + S
        BY <4>2, <4>3, <4>4, <4>5
      <4>7. read_pos + x \in Nat
        BY <4>3
      <4> QED BY <4>2, <4>6, <4>7
    <3> QED BY <1>7, <3>1, <3>2
  <2>6. pc' = "write" /\ Writing'
    BY <1>1, <1>7 DEF Writing
  <2>7. BatchPlaced'
    <3>1. 0 < BATCH_QUADS /\ 1 .. 0 = {}
      BY <1>4
    <3> QED BY <2>2, <3>1 DEF BatchPlaced
  <2>8. input'.first + read_pos' = base' + Stacked' + Len(batch') * Q
    <3>1. base + S + 0 = base + S
      BY <1>2, <1>4
    <3> QED BY <1>1, <2>3, <2>5, <3>1
  <2>9. Placed'
    BY <1>1, <1>2, <2>1, <2>2, <2>5, <2>6, <2>7, <2>8 DEF Placed
  <2>10. TypeOK'
    <3>1. batch' \in Seq(Quads)
      <4> HIDE DEF Quads
      <4> QED BY <2>2
    <3> QED BY <1>1, <1>2, <1>5, <2>5, <2>6, <3>1 DEF TypeOK
  <2> QED BY <1>1, <2>6, <2>9, <2>10, NoJobs, NoCopy, SameDigest DEF Kept
<1>8. CASE caller = "build"
  <2>1. pc' = "fold" /\ batch' = batch /\ read_pos' = read_pos
    BY <1>1, <1>8
  <2>2. Placed'
    <3>1. UNCHANGED <<self, base>> /\ ~ Writing /\ ~ Writing'
      BY <1>1, <1>8, <2>1 DEF self, Writing
    <3> QED BY <3>1, StillApart
  <2>3. n = 1 /\ BuildQuads # <<>>
    BY <1>1, <1>2, <1>8 DEF Jobs
  <2>4. next = 2 /\ level = 0
    <3>1. level = 0
      BY <1>1, <1>2 DEF Control
    <3> HIDE DEF n
    <3>2. next = 2
      BY <1>3, <2>3
    <3> QED BY <3>1, <3>2
  <2>5. Padded /\ Padded'
    <3>1. BuildQuads' = BuildQuads
      BY <1>1, <2>1 DEF BuildQuads, TailQuad
    <3> QED BY <1>1, <2>1, <2>3, <2>4, <3>1 DEF Padded
  <2>6. CopyInv'
    BY <1>1, <1>8, <2>1, <2>4, <2>5, CopyStutter
  <2>7. TypeOK'
    BY <1>1, <1>2, <1>5, <2>1 DEF TypeOK
  <2> QED BY <1>1, <2>1, <2>2, <2>6, <2>7, NoJobs, SameDigest DEF Kept
<1> QED
  BY <1>3, <1>7, <1>8

(* The job build() makes covers what the stack does not. *)
LEMMA BuildJob ==
    ASSUME Inv, pc = "idle", BuildQuads # <<>>
    PROVE  /\ Job(BuildQuads) \in JobType
           /\ Job(BuildQuads).height = 1
           /\ Job(BuildQuads).len = 2 * Len(BuildQuads)
           /\ Job(BuildQuads).len \in 1 .. BATCH_LEAVES
           /\ JobCovers(Job(BuildQuads), StackEnd, PayloadEnd)
PROOF
<1> DEFINE n == Len(BuildQuads)
           first == base + Stacked
           last == base + bytes_written
<1>1. ~ Writing
  BY DEF Writing, Inv, Control
<1>2. /\ base \in Nat /\ bytes_written \in Nat /\ Stacked \in Nat
      /\ StackEnd = 2 * first
  BY <1>1, Apart
<1>3. /\ BuildQuads \in Seq(Quads) /\ n \in 0 .. BATCH_QUADS /\ n # 0
      /\ Stacked <= bytes_written /\ bytes_written <= Stacked + n * Q
      /\ \A j \in 1 .. n : \A i \in 0 .. Q - 1 :
            BuildQuads[j][i] = IF first + (j - 1) * Q + i < last
                               THEN first + (j - 1) * Q + i ELSE NoByte
  BY <1>1, BuildQuadsHold
<1>4. n \in 1 .. BATCH_QUADS /\ n * Q \in Nat
  <2>1. BATCH_QUADS \in Nat /\ Q \in Nat
    BY ConstFacts
  <2>2. n \in 1 .. BATCH_QUADS /\ n \in Nat
    <3> HIDE DEF n
    <3> QED BY <1>3, <2>1
  <2> HIDE DEF n
  <2> QED BY <2>1, <2>2
<1>5. first \in Nat /\ last \in Nat /\ first <= last /\ last <= first + n * Q
  <2>1. Stacked <= bytes_written /\ bytes_written <= Stacked + n * Q
    BY <1>3
  <2> HIDE DEF n
  <2> QED BY <1>2, <1>4, <2>1
<1>6. PayloadEnd = 2 * last
  BY DEF PayloadEnd
<1> HIDE DEF first, last
<1> QED
  BY <1>2, <1>3, <1>4, <1>5, <1>6, JobOf

(* A payload with no full batch: one job, reduced as far as it goes. *)
LEMMA BuildSmallInv ==
    ASSUME Inv, Control', NEW steps \in 0 .. BATCH_LEVEL, BuildSmall(steps)
    PROVE  Kept'
PROOF
<1>1. /\ pc = "idle" /\ stack.count = 0 /\ IsCeilLog(2 * Len(BuildQuads), steps)
      /\ jobs' = <<Job(BuildQuads)>> /\ target' = 1 + steps
      /\ pc' = "reduce" /\ caller' = "small"
      /\ UNCHANGED <<self, buffer, offset, bytes_written, batch, stack, base, outcome,
                     result, input, read_pos, next, level, node, top, local>>
  BY DEF BuildSmall, self, tree
<1>2. ~ Writing /\ ~ Writing'
  BY <1>1 DEF Writing, Inv, Control
<1>3. /\ TypeOK /\ Stacked \in Nat /\ StackEnd = 2 * (base + Stacked) /\ base \in Nat
      /\ bytes_written \in Nat
  BY <1>2, Apart
<1>4. Stacked = 0 /\ StackEnd = 2 * base
  <2>1. 0 \div 2 = 0 /\ 0 * Q = 0
    BY ConstFacts
  <2>2. Stacked = 0
    BY <1>1, <2>1 DEF Stacked
  <2> QED BY <1>3, <2>2
<1>5. BuildQuads # <<>>
  <2>1. /\ BuildQuads = <<>> => bytes_written = Stacked
        /\ bytes_written = 0 => Len(BuildQuads) = 1
        /\ BuildQuads # <<>> <=> Len(BuildQuads) # 0
    BY <1>2, BuildQuadsHold
  <2>2. SUFFICES ASSUME BuildQuads = <<>> PROVE FALSE
    OBVIOUS
  <2>3. bytes_written = 0
    BY <1>4, <2>1, <2>2
  <2>4. Len(BuildQuads) = 1
    BY <2>1, <2>3
  <2> QED BY <2>2, <2>4
<1>6. /\ Job(BuildQuads) \in JobType /\ Job(BuildQuads).height = 1
      /\ Job(BuildQuads).len = 2 * Len(BuildQuads)
      /\ Job(BuildQuads).len \in 1 .. BATCH_LEAVES
      /\ JobCovers(Job(BuildQuads), 2 * base, PayloadEnd)
  BY <1>1, <1>4, <1>5, BuildJob
<1>7. jobs' \in Seq(JobType) /\ Len(jobs') = 1 /\ jobs'[1] = Job(BuildQuads)
  <2> HIDE DEF JobType
  <2>1. ASSUME NEW j \in JobType
        PROVE  <<j>> \in Seq(JobType) /\ Len(<<j>>) = 1 /\ <<j>>[1] = j
    OBVIOUS
  <2> QED BY <1>1, <1>6, <2>1
<1>8. BuildQuads' = BuildQuads /\ PayloadEnd' = PayloadEnd
  BY <1>1 DEF BuildQuads, TailQuad, PayloadEnd
<1>9. target' \in 1 .. BATCH_LEVEL + 1 /\ target' - 1 = steps /\ target' \in Nat
  BY <1>1, ConstFacts
<1>10. JobRange(jobs[1])'
  <2>1. jobs'[1].len <= Pow[target' - jobs'[1].height]
    BY <1>1, <1>6, <1>7, <1>9 DEF IsCeilLog
  <2>2. 1 \in 1 .. target'
    BY <1>9
  <2> QED BY <1>6, <1>7, <2>1, <2>2 DEF JobRange
<1>11. Jobs'
  <2>1. \A w \in 1 .. Len(jobs') : JobRange(jobs[w])'
    <3>1. ASSUME NEW w \in 1 .. Len(jobs') PROVE w = 1
      BY <1>7
    <3> QED BY <1>10, <3>1
  <2>2. /\ IsCeilLog(2 * Len(BuildQuads'), target' - 1)
        /\ JobCovers(jobs'[1], 2 * base', PayloadEnd')
        /\ stack'.count = 0
    BY <1>1, <1>6, <1>7, <1>8, <1>9
  <2> QED BY <1>1, <1>7, <1>9, <2>1, <2>2 DEF Jobs
<1>12. Placed'
  BY <1>1, <1>2, StillApart
<1>13. CopyInv'
  BY <1>1 DEF CopyInv
<1>14. TypeOK'
  BY <1>1, <1>3, <1>7, <1>9 DEF TypeOK
<1> QED
  BY <1>1, <1>11, <1>12, <1>13, <1>14, SameDigest DEF Kept

(* The copy starts as the hasher's own stack is between calls. *)
LEMMA CopyStart ==
    ASSUME Inv, pc = "idle", BuildPadded
    PROVE  Copy!Inv' /\ ~ Padded' /\ local' = stack
PROOF
<1>1. /\ local' = stack /\ stack' = stack /\ base' = base
      /\ level' = level /\ node' = node /\ top' = top
      /\ pc' = IF BuildQuads # <<>> THEN "reduce" ELSE "fold"
      /\ UNCHANGED <<buffer, offset, bytes_written, batch>>
  BY DEF BuildPadded, self, tree
<1>2. level = 0 /\ node = Junk /\ top = 0
  BY DEF Inv, Control
<1>3. ~ Padded'
  <2>1. BuildQuads' = BuildQuads
    BY <1>1 DEF BuildQuads, TailQuad
  <2> QED BY <1>1, <2>1 DEF Padded
<1>4. /\ (IF pc = "carry" THEN "push"
          ELSE IF pc = "fold" /\ level > 0 THEN "fold" ELSE "idle")' = "idle"
      /\ (IF Padded THEN PayloadEnd ELSE StackEnd)' = StackEnd
      /\ (2 * base)' = 2 * base
  <2>1. StackEnd' = StackEnd
    BY <1>1 DEF StackEnd
  <2> QED BY <1>1, <1>2, <1>3, <2>1
<1>5. ~ LiveCarry /\ Own!Inv
  BY DEF LiveCarry, Inv
<1>6. /\ (IF LiveCarry THEN "push" ELSE "idle") = "idle"
      /\ (IF LiveCarry THEN node ELSE Junk) = Junk
      /\ (IF LiveCarry THEN level ELSE 0) = 0
      /\ StackEnd = 2 * base + LeafSpan * stack.count
  BY <1>5 DEF StackEnd
<1>7. /\ stack \in [nodes : StackNodes, count : 0 .. 2 * Pow[PAYLOAD_LEVEL]]
      /\ 0 \in Slots /\ Junk \in Node /\ 0 \in Nat
      /\ [height |-> 0, root |-> Junk] \in [height : Nat, root : Node]
      /\ 2 * base \in Nat /\ StackEnd \in Nat
  BY <1>5, <1>6, SameNames DEF Own!Inv, Own!TypeOK
<1>8. Copy!TypeOK'
  BY <1>1, <1>2, <1>4, <1>7, SameNames DEF Copy!TypeOK
<1>9. /\ StackEnd <= Own!Pos(stack.count)
      /\ \A k \in Slots : Bit(stack.count, k) = 1 =>
            /\ Own!Pos(stack.count - Pow[k]) < StackEnd
            /\ stack.nodes[k] = Own!PendingNode(stack.count, k)
      /\ stack.count = 0 => StackEnd = 2 * base
  BY <1>5, <1>6, SameNames DEF Own!Inv, Own!PendingSubtrees, Own!RestInv
<1>10. /\ \A x : Copy!Pos(x)' = Own!Pos(x)
       /\ \A c, k : Copy!Start(c, k)' = Own!Start(c, k)
  BY <1>1, <1>4 DEF Copy!Pos, Own!Pos, Copy!Start, Own!Start
<1>11. \A c, k : Copy!PendingNode(c, k)' = Own!PendingNode(c, k)
  BY <1>4, <1>6, <1>10, SameNames DEF Copy!PendingNode, Own!PendingNode
<1>12. Copy!RestInv'
  BY <1>1, <1>4, <1>9, <1>10, <1>11, SameNames DEF Copy!RestInv
<1>13. Copy!PendingSubtrees'
  BY <1>4, <1>12 DEF Copy!PendingSubtrees
<1>14. Copy!FoldedRoot'
  BY SameNames DEF Copy!FoldedRoot, Copy!NoResult
<1> QED
  BY <1>1, <1>3, <1>8, <1>13, <1>14 DEF Copy!Inv

(* A payload with full batches: what is left is padded to one more batch. *)
LEMMA BuildPaddedInv ==
    ASSUME Inv, Control', BuildPadded
    PROVE  Kept'
PROOF
<1>1. /\ pc = "idle" /\ stack.count # 0 /\ local' = stack /\ caller' = "build"
      /\ IF BuildQuads # <<>>
         THEN jobs' = <<Job(BuildQuads)>> /\ target' = 1 + BATCH_LEVEL /\ next' = 1
              /\ pc' = "reduce"
         ELSE pc' = "fold" /\ UNCHANGED <<jobs, target, next>>
      /\ UNCHANGED <<self, buffer, offset, bytes_written, batch, stack, base, outcome,
                     result, input, read_pos, level, node, top>>
  BY DEF BuildPadded, self, tree
<1>2. ~ Writing /\ ~ Writing'
  BY <1>1 DEF Writing, Inv, Control
<1>3. TypeOK /\ stack \in [nodes : StackNodes, count : Nat] /\ stack.count \in Nat
      /\ jobs \in Seq(JobType) /\ target \in Nat /\ next \in Nat
  BY <1>2, Apart DEF TypeOK
<1>4. Placed'
  BY <1>1, <1>2, StillApart
<1>5. CopyInv'
  <2>1. local'.count = stack.count + 0
    BY <1>1, <1>3
  <2> QED BY <1>1, <2>1, CopyStart DEF CopyInv
<1>6. UNCHANGED <<BuildQuads, StackEnd, PayloadEnd>>
  BY <1>1 DEF BuildQuads, TailQuad, PayloadEnd, StackEnd
<1>7. CASE BuildQuads # <<>>
  <2>1. /\ Job(BuildQuads) \in JobType /\ Job(BuildQuads).height = 1
        /\ Job(BuildQuads).len \in 1 .. BATCH_LEAVES
        /\ JobCovers(Job(BuildQuads), StackEnd, PayloadEnd)
    BY <1>1, <1>7, BuildJob
  <2>2. jobs' \in Seq(JobType) /\ Len(jobs') = 1 /\ jobs'[1] = Job(BuildQuads)
    <3> HIDE DEF JobType
    <3>1. ASSUME NEW j \in JobType
          PROVE  <<j>> \in Seq(JobType) /\ Len(<<j>>) = 1 /\ <<j>>[1] = j
      OBVIOUS
    <3> QED BY <1>1, <1>7, <2>1, <3>1
  <2>3. /\ BATCH_LEVEL \in Nat /\ Pow[BATCH_LEVEL] = BATCH_LEAVES /\ BATCH_LEAVES \in Nat
        /\ target' = BATCH_LEVEL + 1 /\ target' \in Nat
        /\ target' - 1 = BATCH_LEVEL /\ 1 \in 1 .. target'
    BY <1>1, <1>7, ConstFacts
  <2>4. JobRange(jobs[1])'
    <3>1. jobs'[1].len <= Pow[target' - jobs'[1].height]
      <4>1. Pow[target' - jobs'[1].height] = BATCH_LEAVES
        BY <2>1, <2>2, <2>3
      <4> QED BY <2>1, <2>2, <2>3, <4>1
    <3> QED BY <2>1, <2>2, <2>3, <3>1 DEF JobRange
  <2>5. \A w \in 1 .. Len(jobs') : JobRange(jobs[w])'
    <3>1. ASSUME NEW w \in 1 .. Len(jobs') PROVE w = 1
      BY <2>2
    <3> QED BY <2>4, <3>1
  <2>6. pc' = "reduce"
    BY <1>1, <1>7
  <2>7. Jobs'
    BY <1>1, <1>6, <1>7, <2>1, <2>2, <2>3, <2>5, <2>6 DEF Jobs
  <2>8. TypeOK'
    <3>1. next' \in Nat
      BY <1>1, <1>7
    <3> QED BY <1>1, <1>3, <2>2, <2>3, <2>6, <3>1 DEF TypeOK
  <2> QED BY <1>1, <1>4, <1>5, <2>7, <2>8, SameDigest DEF Kept
<1>8. CASE BuildQuads = <<>>
  <2>1. pc' = "fold" /\ UNCHANGED <<jobs, target, next>>
    BY <1>1, <1>8
  <2>2. TypeOK'
    BY <1>1, <1>3, <2>1 DEF TypeOK
  <2> QED BY <1>1, <1>4, <1>5, <2>1, <2>2, NoJobs, SameDigest DEF Kept
<1> QED
  BY <1>7, <1>8

(* When build() folds, its copy ends where the payload does, and a payload *)
(* of so many leaves needs no less than the copy has.                      *)
LEMMA FoldEnds ==
    ASSUME Inv, pc = "fold"
    PROVE  /\ (IF Padded THEN PayloadEnd ELSE StackEnd) = PayloadEnd
           /\ local.count \in Nat /\ BATCH_LEAVES <= local.count
           /\ base \in Nat /\ bytes_written \in Nat /\ PayloadEnd = 2 * base + 2 * bytes_written
           /\ 2 * bytes_written <= LeafSpan * local.count
           /\ \A k \in 0 .. MAX_LEVEL :
                 Pow[k] < local.count => LeafSpan * Pow[k] < 2 * bytes_written
PROOF
<1> DEFINE c == local.count
           s == stack.count
           P == Pow[BATCH_LEVEL]
<1>1. caller = "build" /\ ~ Writing
  <2>1. Control /\ caller \in {"", "flush", "group", "small", "build"}
    BY DEF Inv, TypeOK
  <2>2. caller = "build"
    BY <2>1 DEF Control
  <2> QED BY <2>2 DEF Writing
<1>2. /\ TypeOK /\ s % BATCH_LEAVES = 0 /\ s \in Nat /\ base \in Nat
      /\ bytes_written \in Nat /\ Stacked \in Nat /\ StackEnd = 2 * (base + Stacked)
      /\ local \in [nodes : StackNodes, count : Nat] /\ c \in Nat
  <2>1. /\ TypeOK /\ s % BATCH_LEAVES = 0 /\ s \in Nat /\ base \in Nat
        /\ bytes_written \in Nat /\ Stacked \in Nat /\ StackEnd = 2 * (base + Stacked)
    BY <1>1, Apart
  <2> QED BY <2>1 DEF TypeOK
<1>3. /\ P = BATCH_LEAVES /\ P \in Nat \ {0} /\ BATCH_LEVEL \in Nat
      /\ BATCH_LEVEL \in 0 .. MAX_LEVEL /\ LeafSpan \in Nat \ {0} /\ MAX_LEVEL \in Nat
  BY ConstFacts, TreeAssumption
<1>4. /\ Copy!Inv /\ s # 0 /\ c = s + (IF Padded THEN P ELSE 0)
      /\ Padded <=> BuildQuads # <<>>
  BY <1>1 DEF Inv, CopyInv, Padded
<1>5. PayloadEnd = 2 * base + 2 * bytes_written
  BY <1>2 DEF PayloadEnd
<1>6. (IF Padded THEN PayloadEnd ELSE StackEnd) = PayloadEnd
  <2>1. SUFFICES ASSUME ~ Padded PROVE StackEnd = PayloadEnd
    OBVIOUS
  <2>2. bytes_written = Stacked
    BY <1>1, <1>4, <2>1, BuildQuadsHold
  <2> QED BY <1>2, <2>2 DEF PayloadEnd
<1>7. 2 * bytes_written <= LeafSpan * c
  <2>1. Copy!RestInv
    BY <1>4 DEF Copy!Inv, Copy!PendingSubtrees
  <2>2. PayloadEnd <= 2 * base + LeafSpan * c
    BY <1>6, <2>1 DEF Copy!RestInv, Copy!Pos
  <2>3. LeafSpan * c \in Nat
    <3>1. \A a, b \in Nat : a * b \in Nat
      OBVIOUS
    <3> QED BY <1>2, <1>3, <3>1
  <2> HIDE DEF c
  <2> QED BY <1>2, <1>5, <2>2, <2>3
<1>8. s \div P \in Nat \ {0} /\ s = P * (s \div P)
  <2>1. s \div P \in Nat /\ s = P * (s \div P) + 0
    BY <1>2, <1>3, DivMod
  <2>2. P * (s \div P) + 0 = P * (s \div P) /\ P * 0 = 0
    BY <1>3, <2>1
  <2> QED BY <1>4, <2>1, <2>2
<1>9. PICK n \in Nat \ {0} : s = P * n
  BY <1>8
<1>10. P <= s
  <2>1. n - 1 \in Nat /\ P * n = P * (n - 1) + P
    BY <1>3
  <2>2. P * (n - 1) \in Nat
    BY <1>3, <2>1
  <2> HIDE DEF P
  <2> QED BY <1>3, <1>9, <2>1, <2>2
<1>11. BATCH_LEAVES <= c
  <2>1. s <= c
    <3> HIDE DEF P
    <3> QED BY <1>2, <1>3, <1>4
  <2> HIDE DEF P, c
  <2> QED BY <1>2, <1>3, <1>10, <2>1
<1>12. ASSUME NEW k \in 0 .. MAX_LEVEL, Pow[k] < c
       PROVE  LeafSpan * Pow[k] < 2 * bytes_written
  <2>1. Pow[k] \in Nat /\ LeafSpan * Pow[k] \in Nat /\ LeafSpan * s \in Nat
    <3>1. Pow[k] \in Nat
      BY TreeAssumption
    <3>2. \A a, b \in Nat : a * b \in Nat
      OBVIOUS
    <3> QED BY <1>2, <1>3, <3>1, <3>2
  <2>2. 2 * Stacked = LeafSpan * s
    BY <1>2, WholeQuads DEF Stacked
  <2>3. CASE ~ Padded
    <3>1. c = s /\ bytes_written = Stacked
      <4>1. bytes_written = Stacked
        BY <1>1, <1>4, <2>3, BuildQuadsHold
      <4> QED BY <1>2, <1>4, <2>3, <4>1
    <3>2. PICK d \in Nat : s = Pow[k] + 1 + d
      <4>1. s - Pow[k] - 1 \in Nat /\ s = Pow[k] + 1 + (s - Pow[k] - 1)
        BY <1>2, <1>12, <2>1, <3>1
      <4> QED BY <4>1
    <3>3. LeafSpan * s = LeafSpan * Pow[k] + LeafSpan + LeafSpan * d /\ LeafSpan * d \in Nat
      BY <1>3, <2>1, <3>2
    <3> QED BY <1>3, <2>1, <2>2, <3>1, <3>3
  <2>4. CASE Padded
    <3>1. c = s + P /\ StackEnd < PayloadEnd
      BY <1>1, <1>4, <2>4, TailHolds
    <3>2. Pow[k] <= s
      <4>1. CASE k <= BATCH_LEVEL
        <5>1. BATCH_LEVEL \in k .. MAX_LEVEL
          BY <1>3, <4>1
        <5>2. Pow[k] <= P
          BY <5>1, PowFacts
        <5> HIDE DEF P
        <5> QED BY <1>2, <1>3, <1>10, <2>1, <5>2
      <4>2. CASE ~ (k <= BATCH_LEVEL)
        <5>1. k \in BATCH_LEVEL .. MAX_LEVEL
          BY <1>3, <4>2
        <5>2. Pow[k] = P * Pow[k - BATCH_LEVEL] /\ k - BATCH_LEVEL \in 0 .. MAX_LEVEL
          BY <1>3, <5>1, PowFacts
        <5>3. PICK m \in Nat : Pow[k] = P * m
          BY <5>2, TreeAssumption
        <5> HIDE DEF P
        <5>4. SUFFICES ASSUME ~ (m <= n) PROVE FALSE
          <6>1. SUFFICES ASSUME m <= n PROVE Pow[k] <= s
            OBVIOUS
          <6>2. PICK a \in Nat : n = m + a
            <7>1. n - m \in Nat /\ n = m + (n - m)
              BY <6>1
            <7> QED BY <7>1
          <6>3. P * n = P * m + P * a /\ P * a \in Nat /\ P * m \in Nat
            BY <1>3, <6>2
          <6> QED BY <1>9, <5>3, <6>3
        <5>5. PICK a \in Nat : m = n + 1 + a
          <6>1. m - n - 1 \in Nat /\ m = n + 1 + (m - n - 1)
            BY <5>4
          <6> QED BY <6>1
        <5>6. P * m = P * n + P + P * a /\ P * a \in Nat /\ P * n \in Nat
          BY <1>3, <5>5
        <5>7. Pow[k] < s + P
          BY <1>12, <3>1
        <5> QED BY <1>3, <1>9, <5>3, <5>6, <5>7
      <4> QED BY <4>1, <4>2
    <3>3. PICK d \in Nat : s = Pow[k] + d
      <4>1. s - Pow[k] \in Nat /\ s = Pow[k] + (s - Pow[k])
        BY <1>2, <2>1, <3>2
      <4> QED BY <4>1
    <3>4. LeafSpan * s = LeafSpan * Pow[k] + LeafSpan * d /\ LeafSpan * d \in Nat
      BY <1>3, <2>1, <3>3
    <3>5. LeafSpan * Pow[k] <= LeafSpan * s
      BY <2>1, <3>4
    <3>6. LeafSpan * s < 2 * bytes_written
      BY <1>2, <1>5, <2>1, <2>2, <3>1
    <3> QED BY <1>2, <2>1, <3>5, <3>6
  <2> QED BY <2>3, <2>4
<1> QED
  BY <1>2, <1>5, <1>6, <1>7, <1>11, <1>12

(* The root of the copy is the commitment of the payload. *)
LEMMA FoldedCommitment ==
    ASSUME Inv, pc = "fold", NEW k \in Slots,
           Pow[k] < local.count, local.count <= Pow[k + 1],
           NEW root, root = Extent(k + 2, 2 * base, PayloadEnd)
    PROVE  /\ IsCommitment([padding |-> ZeroPadding(bytes_written), height |-> k + 2,
                            root |-> root], base, bytes_written)
           /\ ZeroPadding(bytes_written) \in Int
           /\ root \in Node
PROOF
<1> DEFINE c == local.count
           z == bytes_written
<1>1. /\ c \in Nat /\ base \in Nat /\ z \in Nat /\ PayloadEnd = 2 * base + 2 * z
      /\ 2 * z <= LeafSpan * c
      /\ \A j \in 0 .. MAX_LEVEL : Pow[j] < c => LeafSpan * Pow[j] < 2 * z
  BY FoldEnds
<1>2. /\ k \in 0 .. MAX_LEVEL - 1 /\ k \in 0 .. MAX_LEVEL /\ k + 1 \in 0 .. MAX_LEVEL
      /\ k \in Nat /\ k + 2 - 1 = k + 1
      /\ Pow[k] \in Nat \ {0} /\ Pow[k + 1] = 2 * Pow[k]
      /\ LeafSpan \in Nat \ {0} /\ Q = LeafSpan
  BY PowDouble, TreeAssumption DEF Slots, Q
<1>3. LeafSpan * Pow[k] \in Nat /\ Span(k + 1) = 2 * (LeafSpan * Pow[k])
  <2>1. LeafSpan * (2 * Pow[k]) = 2 * (LeafSpan * Pow[k])
    BY <1>2
  <2>2. LeafSpan * Pow[k] \in Nat
    BY <1>2
  <2> QED BY <1>2, <2>1, <2>2 DEF Span
<1>4. z <= LeafSpan * Pow[k]
  <2>1. PICK d \in Nat : 2 * Pow[k] = c + d
    <3>1. 2 * Pow[k] - c \in Nat /\ 2 * Pow[k] = c + (2 * Pow[k] - c)
      BY <1>1, <1>2
    <3> QED BY <3>1
  <2>2. /\ LeafSpan * (2 * Pow[k]) = LeafSpan * c + LeafSpan * d
        /\ LeafSpan * d \in Nat /\ LeafSpan * c \in Nat
    BY <1>1, <1>2, <2>1
  <2>3. LeafSpan * (2 * Pow[k]) = 2 * (LeafSpan * Pow[k])
    BY <1>2
  <2> HIDE DEF c, z
  <2> QED BY <1>1, <1>3, <2>2, <2>3
<1>5. LeafSpan * Pow[k] < 2 * z
  BY <1>1, <1>2
<1>6. ASSUME k > 0 PROVE Q * Pow[k - 1] < z
  <2>1. k - 1 \in Slots /\ (k - 1) + 1 = k
    BY <1>2, <1>6, TreeAssumption DEF Slots
  <2>2. Pow[k] = 2 * Pow[k - 1] /\ Pow[k - 1] \in Nat
    <3> DEFINE j == k - 1
    <3>1. j \in Slots /\ j + 1 = k
      BY <2>1
    <3> HIDE DEF j
    <3>2. Pow[j + 1] = 2 * Pow[j] /\ Pow[j] \in Nat
      BY <3>1, PowDouble
    <3> QED BY <3>1, <3>2 DEF j
  <2>3. LeafSpan * Pow[k] = 2 * (LeafSpan * Pow[k - 1]) /\ LeafSpan * Pow[k - 1] \in Nat
    BY <1>2, <2>2
  <2> HIDE DEF z
  <2> QED BY <1>1, <1>2, <1>5, <2>3
<1>7. z <= Q * Pow[k]
  BY <1>2, <1>4
<1>8. root = RunNode(k + 2, 2 * base, 2 * (base + z))
  <2>1. 2 * (base + z) = PayloadEnd /\ 2 * base < PayloadEnd
        /\ PayloadEnd <= 2 * base + Span(k + 1)
    <3> HIDE DEF z
    <3> QED BY <1>1, <1>3, <1>4, <1>5
  <2>2. Span(k + 1) \in Nat
    BY <1>3
  <2>3. (IF PayloadEnd < 2 * base + Span(k + 1) THEN PayloadEnd
         ELSE 2 * base + Span(k + 1)) = PayloadEnd
    <3> HIDE DEF z
    <3> QED BY <1>1, <2>1, <2>2
  <2> QED BY <1>2, <2>1, <2>3 DEF RunNode
<1>9. ZeroPadding(z) = Q * Pow[k] - z
  BY <1>1, <1>2, <1>6, <1>7, PaddingFills
<1>10. ZeroPadding(z) \in Int
  <2>1. Q * Pow[k] \in Nat
    BY <1>2, <1>3
  <2> QED BY <1>1, <1>9, <2>1
<1>11. root \in Node
  <2>1. 2 * base \in Int /\ PayloadEnd \in Int /\ k + 2 \in Int
    BY <1>1, <1>2
  <2> QED BY <2>1 DEF Extent, Node
<1> QED
  BY <1>1, <1>2, <1>6, <1>7, <1>8, <1>10, <1>11, CommitmentOf

(* What every return leaves behind, whatever the digest is. *)
LEMMA ReturnInv ==
    ASSUME Inv, Control', ~ Writing, NEW h \in Nat, NEW root \in Node, Return(h, root),
           ZeroPadding(bytes_written) \in Int,
           IsCommitment([padding |-> ZeroPadding(bytes_written), height |-> h,
                         root |-> root], base, bytes_written)
    PROVE  Kept'
PROOF
<1>1. /\ result' = [padding |-> ZeroPadding(bytes_written), height |-> h, root |-> root]
      /\ pc' = "idle" /\ caller' = "" /\ jobs' = <<>> /\ target' = 0 /\ next' = 0
      /\ level' = 0 /\ node' = Junk /\ top' = 0 /\ local' = NewStack
      /\ UNCHANGED <<self, buffer, offset, bytes_written, batch, stack, base, outcome,
                     input, read_pos>>
  BY DEF Return, self
<1>2. TypeOK
  BY DEF Inv
<1>3. ~ Writing'
  BY <1>1 DEF Writing
<1>4. /\ Junk \in Node /\ NewStack \in [nodes : StackNodes, count : Nat]
      /\ 0 \in Nat
  BY DEF Junk, Extent, Node, NewStack, StackNodes, Zero
<1>5. jobs' \in Seq(JobType)
  <2> HIDE DEF JobType
  <2>1. <<>> \in Seq(JobType)
    OBVIOUS
  <2>2. jobs' = <<>>
    BY <1>1
  <2> QED BY <2>1, <2>2
<1>6. TypeOK'
  BY <1>1, <1>2, <1>4, <1>5 DEF TypeOK
<1>7. Placed'
  BY <1>1, <1>3, StillApart
<1>8. DigestIsCommitment'
  BY <1>1 DEF DigestIsCommitment
<1> QED
  BY <1>1, <1>6, <1>7, <1>8, NoJobs, NoCopy DEF Kept

(* A small payload: the one job was reduced to the root. *)
LEMMA SmallCommitment ==
    ASSUME Inv, ReturnSmall
    PROVE  /\ ~ Writing /\ target \in Nat /\ jobs[1].nodes[0] \in Node
           /\ ZeroPadding(bytes_written) \in Int
           /\ target - 2 \in 0 .. MAX_LEVEL
           /\ IsCommitment([padding |-> ZeroPadding(bytes_written), height |-> target,
                            root |-> jobs[1].nodes[0]], base, bytes_written)
PROOF
<1> DEFINE n == Len(BuildQuads)
           z == bytes_written
           k == target - 2
           root == jobs[1].nodes[0]
<1>1. /\ pc = "reduce" /\ caller = "small" /\ jobs[1].height = target
  BY DEF ReturnSmall
<1>2. ~ Writing
  BY <1>1 DEF Writing
<1>3. /\ Jobs /\ jobs \in Seq(JobType) /\ base \in Nat /\ z \in Nat
      /\ PayloadEnd \in Nat /\ target \in 1 .. BATCH_LEVEL + 1
  BY <1>1, Working
<1>4. /\ Len(jobs) = 1 /\ stack.count = 0
      /\ IsCeilLog(2 * n, target - 1)
      /\ JobCovers(jobs[1], 2 * base, PayloadEnd) /\ JobRange(jobs[1])
  <2>1. Len(jobs) = 1
    BY <1>1, <1>3 DEF Jobs
  <2>2. 1 \in 1 .. Len(jobs)
    BY <2>1
  <2> QED BY <1>1, <1>3, <2>1, <2>2 DEF Jobs
<1>5. /\ n \in 0 .. BATCH_QUADS /\ (BuildQuads # <<>> <=> n # 0)
      /\ BuildQuads = <<>> => z = Stacked
      /\ z <= Stacked + n * Q
      /\ z = 0 => n = 1
      /\ z # 0 /\ BuildQuads # <<>> => Stacked + (n - 1) * Q < z
  BY <1>2, BuildQuadsHold
<1>6. Stacked = 0
  <2>1. 0 \div 2 = 0 /\ 0 * Q = 0
    BY ConstFacts
  <2> QED BY <1>4, <2>1 DEF Stacked
<1>7. n # 0
  <2>1. SUFFICES ASSUME n = 0 PROVE FALSE
    OBVIOUS
  <2>2. BuildQuads = <<>>
    BY <1>5, <2>1
  <2>3. z = 0
    BY <1>5, <1>6, <2>2
  <2>4. n = 1
    BY <1>5, <2>3
  <2> QED BY <2>1, <2>4
<1>8. n \in Nat \ {0} /\ Q \in Nat \ {0} /\ BATCH_LEVEL \in Nat /\ BATCH_LEVEL <= MAX_LEVEL
      /\ MAX_LEVEL \in Nat
  <2>1. BATCH_QUADS \in Nat /\ Q \in Nat \ {0} /\ BATCH_LEVEL \in 0 .. MAX_LEVEL
        /\ MAX_LEVEL \in Nat
    BY ConstFacts, TreeAssumption
  <2> HIDE DEF n
  <2> QED BY <1>5, <1>7, <2>1
<1>9. /\ k \in 0 .. MAX_LEVEL - 1 /\ k \in Slots /\ target - 1 = k + 1 /\ target = k + 2
      /\ k \in 0 .. MAX_LEVEL /\ target - 1 > 0
  <2>1. target - 1 # 0
    <3>1. SUFFICES ASSUME target - 1 = 0 PROVE FALSE
      OBVIOUS
    <3>2. 2 * n <= Pow[0] /\ Pow[0] = 1
      BY <1>4, <3>1, TreeAssumption DEF IsCeilLog
    <3> HIDE DEF n
    <3> QED BY <1>8, <3>2
  <2> QED BY <1>3, <1>8, <2>1 DEF Slots
<1>10. Pow[k + 1] = 2 * Pow[k] /\ Pow[k] \in Nat \ {0}
  BY <1>9, PowDouble
<1>11. 2 * n <= Pow[k + 1] /\ Pow[k] < 2 * n
  <2>1. target - 1 - 1 = k
    BY <1>3
  <2> HIDE DEF k, n
  <2> QED BY <1>4, <1>9, <2>1 DEF IsCeilLog
<1>12. n <= Pow[k]
  <2> HIDE DEF n, k
  <2> QED BY <1>8, <1>10, <1>11
<1>13. z <= Q * Pow[k]
  <2>1. PICK d \in Nat : Pow[k] = n + d
    <3>1. Pow[k] - n \in Nat /\ Pow[k] = n + (Pow[k] - n)
      BY <1>8, <1>10, <1>12
    <3> QED BY <3>1
  <2>2. Q * Pow[k] = Q * n + Q * d /\ Q * d \in Nat /\ Q * n \in Nat /\ n * Q = Q * n
    BY <1>8, <2>1
  <2>3. z <= 0 + n * Q
    BY <1>5, <1>6
  <2> HIDE DEF n, k, z
  <2> QED BY <1>3, <2>2, <2>3
<1>14. ASSUME k > 0 PROVE Q * Pow[k - 1] < z
  <2> DEFINE p == Pow[k - 1]
             m == n - 1
  <2>1. k - 1 \in Slots /\ (k - 1) + 1 = k
    BY <1>9, <1>14, <1>8 DEF Slots
  <2>2. Pow[k] = 2 * p /\ p \in Nat \ {0}
    <3> DEFINE j == k - 1
    <3>1. j \in Slots /\ j + 1 = k
      BY <2>1
    <3> HIDE DEF j
    <3>2. Pow[j + 1] = 2 * Pow[j] /\ Pow[j] \in Nat \ {0}
      BY <3>1, PowDouble
    <3> QED BY <3>1, <3>2 DEF j
  <2>3. p <= m /\ m \in Nat /\ m > 0
    <3> HIDE DEF n, k, p
    <3> QED BY <1>8, <1>11, <2>2
  <2>4. z # 0
    <3> HIDE DEF n
    <3> QED BY <1>5, <2>3, <1>8
  <2>5. 0 + m * Q < z
    BY <1>5, <1>6, <1>7, <2>4
  <2>6. PICK d \in Nat : m = p + d
    <3>1. m - p \in Nat /\ m = p + (m - p)
      <4> HIDE DEF m, p
      <4> QED BY <2>2, <2>3
    <3> QED BY <3>1
  <2> HIDE DEF m, p, z
  <2>7. m * Q = Q * p + Q * d /\ Q * d \in Nat /\ Q * p \in Nat
    BY <1>8, <2>2, <2>6
  <2> QED BY <1>3, <2>5, <2>7 DEF p
<1>15. root = RunNode(k + 2, 2 * base, 2 * (base + z)) /\ root \in Node
  <2>1. jobs[1].len = 1
    <3>1. target - target = 0
      BY <1>3
    <3>2. jobs[1].len \in 1 .. BATCH_LEAVES /\ jobs[1].len <= Pow[0] /\ Pow[0] = 1
      BY <1>1, <1>4, <3>1, TreeAssumption DEF JobRange
    <3> QED BY <3>2, ConstFacts
  <2>2. root = RunNode(target, 2 * base, PayloadEnd)
    <3>1. 2 * base \in Nat
      BY <1>3
    <3> QED BY <1>1, <1>3, <1>4, <2>1, <3>1, CoveredRoot
  <2>3. PayloadEnd = 2 * (base + z)
    BY DEF PayloadEnd
  <2>4. root \in Node
    <3>1. jobs[1] \in JobType
      <4>1. jobs \in Seq(JobType) /\ Len(jobs) = 1
        BY <1>3, <1>4
      <4> HIDE DEF JobType
      <4> QED BY <4>1
    <3>2. 0 \in 0 .. BATCH_LEAVES - 1
      BY ConstFacts
    <3> QED BY <3>1, <3>2 DEF JobType
  <2> QED BY <1>9, <2>2, <2>3, <2>4
<1>16. ZeroPadding(z) \in Int
  <2>1. ZeroPadding(z) = Q * Pow[k] - z
    BY <1>3, <1>9, <1>13, <1>14, PaddingFills
  <2>2. Q * Pow[k] \in Nat
    BY <1>8, <1>10
  <2> QED BY <1>3, <2>1, <2>2
<1>17. IsCommitment([padding |-> ZeroPadding(z), height |-> k + 2, root |-> root], base, z)
  BY <1>3, <1>9, <1>13, <1>14, <1>15, CommitmentOf
<1> QED
  BY <1>2, <1>3, <1>9, <1>15, <1>16, <1>17

LEMMA ReturnSmallInv ==
    ASSUME Inv, Control', ReturnSmall
    PROVE  Kept'
PROOF
  BY SmallCommitment, ReturnInv DEF ReturnSmall

(* The copy, between the calls on it and inside fold(). *)
LEMMA CopyFolds ==
    ASSUME Inv, pc = "fold"
    PROVE  /\ caller = "build" /\ ~ Writing /\ Copy!TypeOK /\ Copy!RestInv
           /\ level > 0 => Copy!FoldInv
           /\ local \in [nodes : StackNodes, count : Nat]
           /\ level \in Nat /\ node \in Node /\ top \in Slots
PROOF
<1>1. caller = "build" /\ ~ Writing /\ TypeOK
  <2>1. Control /\ caller \in {"", "flush", "group", "small", "build"} /\ TypeOK
    BY DEF Inv, TypeOK
  <2>2. caller = "build"
    BY <2>1 DEF Control
  <2> QED BY <2>1, <2>2 DEF Writing
<1>2. Copy!Inv
  BY <1>1 DEF Inv, CopyInv
<1>3. Copy!TypeOK /\ Copy!RestInv
  BY <1>2 DEF Copy!Inv, Copy!PendingSubtrees
<1>4. level > 0 => Copy!FoldInv
  BY <1>2 DEF Copy!Inv, Copy!PendingSubtrees
<1>5. top \in Slots
  BY <1>3, SameNames DEF Copy!TypeOK
<1> QED
  BY <1>1, <1>3, <1>4, <1>5 DEF TypeOK

LEMMA FoldWholeInv ==
    ASSUME Inv, Control', NEW t \in Slots, FoldWhole(t)
    PROVE  Kept'
PROOF
<1> DEFINE k == t - 1
           root == local.nodes[t]
<1>1. pc = "fold" /\ level = 0 /\ local.count = Pow[t] /\ Return(t + 1, root)
  BY DEF FoldWhole
<1>2. ~ Writing /\ Copy!TypeOK /\ Copy!RestInv
  BY <1>1, CopyFolds
<1>3. (IF Padded THEN PayloadEnd ELSE StackEnd) = PayloadEnd /\ BATCH_LEAVES <= local.count
  BY <1>1, FoldEnds
<1>4. root = Extent(t + 1, 2 * base, PayloadEnd)
  <2>1. t \in Copy!Slots
    BY SameNames
  <2>2. root = Copy!Extent(t + 1, 2 * base, IF Padded THEN PayloadEnd ELSE StackEnd)
    BY <1>1, <1>2, <2>1, Copy!FoldWholeRoot, TreeAssumption, StackInstance
  <2> QED BY <1>3, <2>2, SameNames
<1>5. k \in Slots /\ k + 1 = t /\ k + 2 = t + 1
  <2>1. t # 0
    <3>1. SUFFICES ASSUME t = 0 PROVE FALSE
      OBVIOUS
    <3>2. local.count = 1
      BY <1>1, <3>1, TreeAssumption
    <3>3. BATCH_LEAVES = 2 * BATCH_QUADS /\ BATCH_QUADS \in Nat \ {0}
      BY ConstFacts
    <3> QED BY <1>3, <3>2, <3>3
  <2> QED BY <2>1, TreeAssumption DEF Slots
<1> HIDE DEF k, root
<1>6. Pow[k] < local.count /\ local.count <= Pow[k + 1]
  <2>1. Pow[k + 1] = 2 * Pow[k] /\ Pow[k] \in Nat \ {0}
    BY <1>5, PowDouble
  <2>2. local.count = Pow[k + 1]
    BY <1>1, <1>5
  <2> QED BY <2>1, <2>2
<1>7. root = Extent(k + 2, 2 * base, PayloadEnd) /\ Return(k + 2, root) /\ k + 2 \in Nat
  <2>1. k + 2 \in Nat
    BY <1>5, TreeAssumption DEF Slots
  <2> QED BY <1>1, <1>4, <1>5, <2>1
<1> QED
  BY <1>1, <1>2, <1>5, <1>6, <1>7, FoldedCommitment, ReturnInv

LEMMA EndFoldInv ==
    ASSUME Inv, Control', EndFold
    PROVE  Kept'
PROOF
<1> DEFINE root == HashPair(local.nodes[top], node)
<1>1. pc = "fold" /\ 0 < level /\ level = top /\ Return(top + 2, root)
  BY DEF EndFold
<1>2. ~ Writing /\ Copy!TypeOK /\ Copy!RestInv /\ top \in Slots /\ level \in Nat
  BY <1>1, CopyFolds
<1>3. level > 0
  BY <1>1, <1>2
<1>4. Copy!FoldInv
  BY <1>1, <1>3, CopyFolds
<1>5. (IF Padded THEN PayloadEnd ELSE StackEnd) = PayloadEnd
  BY <1>1, FoldEnds
<1>6. /\ Pow[top] < local.count /\ local.count <= Pow[top + 1]
      /\ root = Extent(top + 2, 2 * base, PayloadEnd)
  <2>1. /\ Pow[top] < local.count /\ local.count <= Pow[top + 1]
        /\ Copy!HashPair(local.nodes[top], node)
             = Copy!Extent(top + 2, 2 * base, IF Padded THEN PayloadEnd ELSE StackEnd)
    BY <1>1, <1>2, <1>4, Copy!EndFoldRoot, TreeAssumption, StackInstance
  <2> QED BY <1>5, <2>1, SameNames
<1>7. top + 2 \in Nat
  BY <1>2, TreeAssumption DEF Slots
<1> HIDE DEF root
<1> QED
  BY <1>1, <1>2, <1>6, <1>7, FoldedCommitment, ReturnInv

(* The steps inside fold() are SubtreeStack's, on the copy. *)
LEMMA FoldStepInv ==
    ASSUME Inv, Control',
           FoldUp \/ \E t, low \in Slots : BeginFold(t, low)
    PROVE  Kept'
PROOF
<1>1. /\ pc = "fold" /\ pc' = "fold"
      /\ UNCHANGED <<self, buffer, offset, bytes_written, batch, stack, base, outcome,
                     result, caller, input, read_pos, jobs, target, next, local>>
  BY DEF FoldUp, BeginFold, self
<1>2. /\ caller = "build" /\ ~ Writing /\ local \in [nodes : StackNodes, count : Nat]
      /\ level \in Nat /\ node \in Node /\ top \in Slots /\ TypeOK
      /\ level > 0 => Copy!FoldInv
  BY <1>1, CopyFolds DEF Inv
<1>3. ~ Writing'
  BY <1>1, <1>2 DEF Writing
<1>4. Placed'
  BY <1>1, <1>2, <1>3, StillApart
<1>5. Padded' <=> Padded
  BY <1>1 DEF Padded, BuildQuads, TailQuad
<1>6. /\ (IF Padded THEN PayloadEnd ELSE StackEnd)' = (IF Padded THEN PayloadEnd ELSE StackEnd)
      /\ (2 * base)' = 2 * base
      /\ local.count = stack.count + (IF Padded THEN Pow[BATCH_LEVEL] ELSE 0)
      /\ local'.count = stack.count + (IF Padded' THEN Pow[BATCH_LEVEL] ELSE 0)
  <2>1. PayloadEnd' = PayloadEnd /\ StackEnd' = StackEnd
    BY <1>1 DEF PayloadEnd, StackEnd
  <2>2. local.count = stack.count + (IF Padded THEN Pow[BATCH_LEVEL] ELSE 0)
    BY <1>2 DEF Inv, CopyInv
  <2> QED BY <1>1, <1>5, <2>1, <2>2
<1>7. CASE FoldUp
  <2>1. /\ 0 < level /\ level < top /\ level' = level + 1 /\ top' = top
        /\ node' = FoldLevel(local, level, node)
    BY <1>7 DEF FoldUp
  <2>2. /\ (IF pc = "carry" THEN "push"
            ELSE IF pc = "fold" /\ level > 0 THEN "fold" ELSE "idle") = "fold"
        /\ (IF pc = "carry" THEN "push"
            ELSE IF pc = "fold" /\ level > 0 THEN "fold" ELSE "idle")' = "fold"
    <3>1. level > 0 /\ level' > 0
      BY <1>2, <2>1
    <3> QED BY <1>1, <3>1
  <2>3. node' = Copy!FoldLevel(local, level, node)
    BY <2>1, SameNames DEF FoldLevel, Copy!FoldLevel
  <2>4. Copy!FoldUp
    BY <1>1, <1>6, <2>1, <2>2, <2>3 DEF Copy!FoldUp
  <2>5. CopyInv'
    BY <1>1, <1>2, <1>6, <2>4, CopyKept DEF Copy!Next, Copy!FoldStep
  <2>6. node' \in Node
    <3>1. level \in Slots
      BY <1>2, <2>1, TreeAssumption DEF Slots
    <3>2. local.nodes[level] \in Node
      BY <1>2, <3>1 DEF StackNodes
    <3>3. Zero(level + 1) \in Node
      BY <1>2 DEF Zero, Extent, Node
    <3> QED BY <1>2, <2>1, <3>2, <3>3, HashPairNode DEF FoldLevel
  <2>7. TypeOK'
    <3>1. level + 1 \in Nat /\ top \in Nat
      BY <1>2, TreeAssumption DEF Slots
    <3> QED BY <1>1, <1>2, <2>1, <2>6, <3>1 DEF TypeOK
  <2> QED BY <1>1, <1>4, <2>5, <2>7, NoJobs, SameDigest DEF Kept
<1>8. ASSUME NEW t \in Slots, NEW low \in Slots, BeginFold(t, low)
      PROVE  Kept'
  <2>1. /\ level = 0 /\ IsTop(local.count, t) /\ local.count # Pow[t]
        /\ IsLowest(local.count, low) /\ top' = t /\ level' = low + 1
        /\ node' = HashPair(local.nodes[low], Zero(low + 1))
    BY <1>8 DEF BeginFold
  <2>2. /\ (IF pc = "carry" THEN "push"
            ELSE IF pc = "fold" /\ level > 0 THEN "fold" ELSE "idle") = "idle"
        /\ (IF pc = "carry" THEN "push"
            ELSE IF pc = "fold" /\ level > 0 THEN "fold" ELSE "idle")' = "fold"
    <3>1. level' > 0 /\ ~ (level > 0)
      BY <2>1, TreeAssumption DEF Slots
    <3> QED BY <1>1, <3>1
  <2>3. /\ node' = Copy!HashPair(local.nodes[low], Copy!Zero(low + 1))
        /\ Copy!IsTop(local.count, t) /\ Copy!IsLowest(local.count, low)
        /\ t \in Copy!Slots /\ low \in Copy!Slots
    BY <2>1, SameNames DEF IsTop, Copy!IsTop, IsLowest, Copy!IsLowest
  <2>4. Copy!BeginFold(t, low)
    BY <1>1, <1>6, <2>1, <2>2, <2>3 DEF Copy!BeginFold
  <2>5. CopyInv'
    <3>1. Copy!Next
      BY <2>3, <2>4 DEF Copy!Next
    <3> QED BY <1>1, <1>2, <1>6, <3>1, CopyKept
  <2>6. node' \in Node
    <3>1. local.nodes[low] \in Node
      BY <1>2 DEF StackNodes
    <3>2. Zero(low + 1) \in Node
      BY DEF Zero, Extent, Node, Slots
    <3> QED BY <2>1, <3>1, <3>2, HashPairNode
  <2>7. TypeOK'
    <3>1. low + 1 \in Nat /\ t \in Nat
      BY TreeAssumption DEF Slots
    <3> QED BY <1>1, <1>2, <2>1, <2>6, <3>1 DEF TypeOK
  <2> QED BY <1>1, <1>4, <2>5, <2>7, NoJobs, SameDigest DEF Kept
<1> QED
  BY <1>7, <1>8

(* No byte anywhere: a new hasher, or one that was reset. *)
LEMMA NothingPlaced ==
    ASSUME stack.count = 0, batch = <<>>, offset = 0, bytes_written = 0, ~ Writing,
           pc = "idle"
    PROVE  Placed
PROOF
<1>1. /\ BATCH_LEAVES \in Nat \ {0} /\ BATCH_QUADS \in Nat \ {0} /\ Q \in Nat \ {0}
  BY ConstFacts
<1>2. 0 % BATCH_LEAVES = 0 /\ 0 \div 2 = 0 /\ 0 * Q = 0 /\ 0 < BATCH_QUADS
  BY <1>1
<1>3. Stacked = 0
  BY <1>2 DEF Stacked
<1>4. Len(batch) = 0
  OBVIOUS
<1>5. BatchPlaced
  BY <1>2, <1>4 DEF BatchPlaced
<1>6. BufferPlaced
  BY <1>2, <1>3, <1>4 DEF BufferPlaced
<1> QED
  BY <1>2, <1>5, <1>6 DEF Placed, Writing

LEMMA ResetInv ==
    ASSUME Inv, Control', Reset
    PROVE  Kept'
PROOF
<1>1. /\ pc = "idle" /\ pc' = "idle" /\ stack' = [stack EXCEPT !.count = 0]
      /\ buffer' = [i \in 0 .. Q - 1 |-> NoByte]
      /\ batch' = <<>> /\ offset' = 0 /\ bytes_written' = 0
      /\ base' = base + bytes_written /\ outcome' = "ok" /\ result' = NoResult
      /\ UNCHANGED <<caller, input, read_pos, jobs, target, next, level, node, top,
                     local>>
  BY DEF Reset, tree
<1>2. ~ Writing /\ ~ Writing'
  BY <1>1 DEF Writing, Inv, Control
<1>3. /\ TypeOK /\ base \in Nat /\ bytes_written \in Nat
      /\ stack \in [nodes : StackNodes, count : Nat]
  BY <1>2, Apart DEF TypeOK
<1>4. stack' \in [nodes : StackNodes, count : Nat] /\ stack'.count = 0
  BY <1>1, <1>3
<1>5. Placed'
  <2>1. Q \in Nat \ {0} /\ BATCH_LEAVES \in Nat \ {0} /\ BATCH_QUADS \in Nat \ {0}
    BY ConstFacts
  <2>2. 0 % BATCH_LEAVES = 0 /\ 0 \div 2 = 0 /\ 0 * Q = 0 /\ 0 < BATCH_QUADS
    BY <2>1
  <2>3. Stacked' = 0 /\ Len(batch') = 0
    BY <1>1, <1>4, <2>2 DEF Stacked
  <2>4. BatchPlaced'
    BY <2>2, <2>3 DEF BatchPlaced
  <2>5. BufferPlaced'
    BY <1>1, <2>2, <2>3 DEF BufferPlaced
  <2> QED BY <1>1, <1>2, <1>4, <2>2, <2>4, <2>5 DEF Placed
<1>6. TypeOK'
  <2>1. buffer' \in Quads /\ 0 \in 0 .. Q - 1 /\ 0 \in 0 .. MAX_PAYLOAD_SIZE
    BY <1>1, ConstFacts, LimitFacts DEF Quads, NoByte
  <2>2. batch' \in Seq(Quads)
    <3> HIDE DEF Quads
    <3>1. <<>> \in Seq(Quads)
      OBVIOUS
    <3> QED BY <1>1, <3>1
  <2>3. base + bytes_written \in Nat
    BY <1>3
  <2>4. NoResult \in [padding : Int, height : Nat, root : Node]
    BY DEF NoResult, Junk, Extent, Node
  <2> QED BY <1>1, <1>3, <1>4, <2>1, <2>2, <2>3, <2>4 DEF TypeOK
<1> QED
  BY <1>1, <1>5, <1>6, NoJobs, NoCopy, SameDigest DEF Kept

-----------------------------------------------------------------------------
(* The invariant. *)

LEMMA HasherInit ==
    ASSUME Init PROVE Inv
PROOF
<1>1. /\ buffer = [i \in 0 .. Q - 1 |-> NoByte]
      /\ offset = 0 /\ bytes_written = 0 /\ batch = <<>> /\ stack = NewStack
      /\ base = 0 /\ outcome = "ok" /\ result = NoResult
      /\ pc = "idle" /\ caller = "" /\ input = NoInput /\ read_pos = 0
      /\ jobs = <<>> /\ target = 0 /\ next = 0
      /\ level = 0 /\ node = Junk /\ top = 0 /\ local = NewStack
  BY DEF Init
<1>2. stack \in [nodes : StackNodes, count : Nat] /\ stack.count = 0 /\ Junk \in Node
  <2>1. NewStack \in [nodes : StackNodes, count : Nat] /\ NewStack.count = 0 /\ Junk \in Node
    BY DEF NewStack, StackNodes, Zero, Extent, Node, Junk
  <2> QED BY <1>1, <2>1
<1>3. TypeOK
  <2>1. buffer \in Quads /\ 0 \in 0 .. Q - 1 /\ 0 \in 0 .. MAX_PAYLOAD_SIZE
    <3>1. buffer = [i \in 0 .. Q - 1 |-> NoByte]
      BY <1>1
    <3> QED BY <3>1, ConstFacts, LimitFacts DEF Quads, NoByte
  <2>2. batch \in Seq(Quads)
    <3> HIDE DEF Quads
    <3>1. <<>> \in Seq(Quads)
      OBVIOUS
    <3> QED BY <1>1, <3>1
  <2>3. jobs \in Seq(JobType)
    <3> HIDE DEF JobType
    <3>1. <<>> \in Seq(JobType)
      OBVIOUS
    <3> QED BY <1>1, <3>1
  <2>4. NoResult \in [padding : Int, height : Nat, root : Node]
        /\ NoInput \in [first : Nat, len : Nat]
    BY <1>2 DEF NoResult, NoInput
  <2> QED BY <1>1, <1>2, <2>1, <2>2, <2>3, <2>4 DEF TypeOK
<1>4. Control
  BY <1>1 DEF Control
<1>5. Placed
  BY <1>1, <1>2, NothingPlaced DEF Writing
<1>6. Jobs
  <2>1. 1 .. Len(jobs) = {}
    <3>1. jobs = <<>>
      BY <1>1
    <3>2. Len(jobs) = 0
      BY <3>1
    <3> QED BY <3>2
  <2> QED BY <1>1, <2>1 DEF Jobs
<1>7. CopyInv /\ DigestIsCommitment
  BY <1>1 DEF CopyInv, DigestIsCommitment
<1>8. Own!Inv
  <2>1. ~ LiveCarry
    BY <1>1 DEF LiveCarry
  <2>2. 2 * base = 0 /\ 2 * base + LeafSpan * stack.count = 0
    <3>1. LeafSpan * 0 = 0
      BY TreeAssumption
    <3>2. base = 0 /\ stack.count = 0
      BY <1>1, <1>2
    <3> QED BY <3>1, <3>2
  <2>3. Own!Init
    BY <1>1, <2>1, <2>2, SameNames DEF Own!Init, Own!NoResult
  <2> QED BY <2>3, Own!InitInv, TreeAssumption, StackInstance
<1> QED
  BY <1>3, <1>4, <1>5, <1>6, <1>7, <1>8 DEF Inv

LEMMA KeptStep ==
    ASSUME Inv, [Next]_vars
    PROVE  Kept'
PROOF
<1>0. Control'
  BY ControlStep
<1>1. CASE UNCHANGED vars
  BY <1>0, <1>1, RefusedInv DEF vars, Inv, TypeOK
<1>2. ASSUME NEW len \in WriteSizes,
             WriteRefused(len) \/ WriteNothing(len) \/ WriteFast(len) \/ WriteBulk(len)
      PROVE  Kept'
  <2>1. CASE WriteRefused(len)
    BY <1>0, <2>1, RefusedInv DEF WriteRefused
  <2>2. CASE WriteNothing(len) \/ WriteFast(len)
    BY <1>0, <2>2, WriteFastInv
  <2>3. CASE WriteBulk(len)
    BY <1>0, <2>3, WriteBulkInv
  <2> QED BY <1>2, <2>1, <2>2, <2>3
<1>3. ASSUME NEW steps \in 0 .. BATCH_LEVEL, BuildSmall(steps) PROVE Kept'
  BY <1>0, <1>3, BuildSmallInv
<1>4. CASE BuildPadded
  BY <1>0, <1>4, BuildPaddedInv
<1>5. CASE Reset
  BY <1>0, <1>5, ResetInv
<1>6. CASE CallStep
  <2>1. CASE WriteQuad
    BY <1>0, <2>1, WriteQuadInv
  <2>2. CASE WriteGroup
    BY <1>0, <2>2, WriteGroupInv
  <2>3. CASE WriteTail
    BY <1>0, <2>3, WriteTailInv
  <2>4. ASSUME NEW w \in 1 .. Len(jobs), Reduce(w) PROVE Kept'
    BY <1>0, <2>4, ReduceInv
  <2>5. CASE Reduced
    BY <1>0, <2>5, ReducedInv
  <2>6. CASE Push
    BY <1>0, <2>6, PushInv
  <2>7. CASE Merge \/ Store
    BY <1>0, <2>7, CarryInv
  <2>8. CASE Pushed
    BY <1>0, <2>8, PushedInv
  <2>9. CASE ReturnSmall
    BY <1>0, <2>9, ReturnSmallInv
  <2>10. ASSUME NEW t \in Slots, FoldWhole(t) PROVE Kept'
    BY <1>0, <2>10, FoldWholeInv
  <2>11. CASE FoldUp \/ \E t, low \in Slots : BeginFold(t, low)
    BY <1>0, <2>11, FoldStepInv
  <2>12. CASE EndFold
    BY <1>0, <2>12, EndFoldInv
  <2> QED BY <1>6, <2>1, <2>2, <2>3, <2>4, <2>5, <2>6, <2>7, <2>8, <2>9, <2>10, <2>11,
             <2>12 DEF CallStep
<1> QED
  BY <1>1, <1>2, <1>3, <1>4, <1>5, <1>6 DEF Next, Write

THEOREM HasherInductive == Spec => []Inv
PROOF
<1>1. Init => Inv
  BY HasherInit
<1>2. Inv /\ [Next]_vars => Inv'
  BY KeptStep, ControlStep, OwnInvStep DEF Kept, Inv
<1> QED
  BY <1>1, <1>2, PTL DEF Spec

-----------------------------------------------------------------------------
(* The theorems. *)

(* Every state has the types TypeOK gives (struct CommPHasher,             *)
(* hasher.rs:20-42, and the locals of its calls).                          *)
THEOREM HasherTypeOK == Spec => []TypeOK
PROOF
<1>1. Inv => TypeOK
  BY DEF Inv
<1> QED
  BY <1>1, HasherInductive, PTL

(* Between calls every byte of the payload is in one place, in order: full *)
(* batches under the stack, quads in the batch, a partial quad in the      *)
(* buffer (write, hasher.rs:169-218, and reset, 296-302).                  *)
THEOREM HasherPayloadPlaced == Spec => []PayloadPlaced
PROOF
<1>1. ASSUME Inv, pc = "idle"
      PROVE  /\ stack.count % BATCH_LEAVES = 0
             /\ BatchPlaced /\ BufferPlaced
  <2>1. ~ Writing
    BY <1>1 DEF Writing, Inv, Control
  <2> QED BY <1>1, <2>1 DEF Inv, Placed
<1>2. Inv => PayloadPlaced
  BY <1>1 DEF PayloadPlaced, BatchPlaced, BufferPlaced, Stacked
<1> QED
  BY <1>2, HasherInductive, PTL

(* digest() is the commitment of the bytes written since the last reset,   *)
(* whatever the writes, the workers and the earlier payloads were          *)
(* (digest and build, hasher.rs:224-273).                                  *)
THEOREM HasherDigest == Spec => []DigestIsCommitment
PROOF
<1>1. Inv => DigestIsCommitment
  BY DEF Inv
<1> QED
  BY <1>1, HasherInductive, PTL

(* No index leaves its array and no debug_assert fails (hasher.rs:72, 146, *)
(* 225-227, tree.rs:60, 107).                                              *)
THEOREM HasherAssertionsHold == Spec => []AssertionsHold
PROOF
<1>1. ASSUME Inv, NEW w \in 1 .. Len(jobs)
      PROVE  /\ jobs[w].len <= BATCH_LEAVES
             /\ (jobs[w].height < target /\ jobs[w].len % 2 = 1) => jobs[w].len < BATCH_LEAVES
  <2>1. jobs[w].len \in 1 .. BATCH_LEAVES
    BY <1>1 DEF Inv, Jobs, JobRange
  <2>2. BATCH_LEAVES \in Nat /\ BATCH_LEAVES % 2 = 0
    BY ConstFacts
  <2> QED BY <2>1, <2>2
<1>2. ASSUME Inv PROVE Len(jobs) <= PARALLEL_GROUP
  <2>1. PARALLEL_GROUP \in Nat \ {0}
    BY ConstFacts
  <2>2. Control /\ Jobs /\ caller \in {"", "flush", "group", "small", "build"}
        /\ pc \in {"idle", "write", "reduce", "push", "carry", "fold"}
    BY <1>2 DEF Inv, TypeOK
  <2>3. jobs = <<>> \/ Len(jobs) = 1 \/ Len(jobs) \in 1 .. PARALLEL_GROUP
    <3>1. CASE pc \in {"idle", "write", "fold"}
      BY <2>2, <3>1 DEF Control
    <3>2. CASE pc \notin {"idle", "write", "fold"} /\ caller \in {"flush", "group"}
      BY <1>2, <3>2 DEF Inv, Placed, Writing
    <3>3. CASE pc \notin {"idle", "write", "fold"} /\ caller \in {"small", "build"}
      BY <2>2, <3>3 DEF Jobs
    <3>4. CASE caller = ""
      BY <2>2, <3>4 DEF Control
    <3> QED BY <2>2, <3>1, <3>2, <3>3, <3>4
  <2>4. CASE jobs = <<>>
    <3>1. Len(jobs) = 0
      BY <2>4
    <3> QED BY <2>1, <3>1
  <2>5. CASE Len(jobs) = 1
    BY <2>1, <2>5
  <2>6. CASE Len(jobs) \in 1 .. PARALLEL_GROUP
    BY <2>1, <2>6
  <2> QED BY <2>3, <2>4, <2>5, <2>6
<1>3. ASSUME Inv, pc \in {"carry", "fold"} PROVE level \in Slots
  <2>1. CASE pc = "carry"
    BY <1>3, <2>1, CarryLevel
  <2>2. CASE pc = "fold"
    <3>1. level \in Nat /\ top \in Slots /\ (level > 0 => Copy!FoldInv)
      BY <1>3, <2>2, CopyFolds
    <3>2. level = 0 \/ level \in 1 .. top
      BY <3>1 DEF Copy!FoldInv
    <3> QED BY <3>1, <3>2, TreeAssumption DEF Slots
  <2> QED BY <1>3, <2>1, <2>2
<1>4. ASSUME Inv, pc = "push", next <= Len(jobs) PROVE Target.count % Pow[BATCH_LEVEL] = 0
  <2>1. Pow[BATCH_LEVEL] = BATCH_LEAVES /\ stack.count % BATCH_LEAVES = 0
        /\ stack.count \in Nat
    BY <1>4, Working, ConstFacts
  <2>2. CASE caller = "build"
    <3>1. Len(jobs) = 1
      BY <1>4, <2>2 DEF Inv, Jobs
    <3>2. next # 2
      BY <1>4, <3>1
    <3>3. local.count = stack.count + 0
      BY <1>4, <2>2, <3>2 DEF Inv, CopyInv, Padded
    <3> QED BY <2>1, <2>2, <3>3 DEF Target
  <2>3. CASE caller # "build"
    BY <2>1, <2>3 DEF Target
  <2> QED BY <2>2, <2>3
<1>5. ASSUME Inv, pc # "write"
      PROVE  /\ caller = "flush" => Len(batch) = BATCH_QUADS
             /\ caller = "group" => batch = <<>>
  BY <1>5 DEF Inv, Placed, Writing
<1>6. Inv => AssertionsHold
  BY <1>1, <1>2, <1>3, <1>4, <1>5 DEF AssertionsHold
<1> QED
  BY <1>6, HasherInductive, PTL

(* self.stack is used only as SubtreeStack allows (push_batches_parallel,  *)
(* flush_batch and reset, hasher.rs:70-80, 158-163, 296-302).              *)
THEOREM HasherStackUse == Spec => StackUsedAsAllowed
PROOF
<1>1. Live!Init <=> Own!Init
  BY DEF Live!Init, Own!Init, Live!NewStack, Own!NewStack, Live!Zero, Own!Zero,
         Live!Extent, Own!Extent, Live!Slots, Own!Slots, Live!Junk, Own!Junk,
         Live!NoResult, Own!NoResult
<1>2. Init => Live!Init
  <2>1. SUFFICES ASSUME Init PROVE Own!Init
    BY <1>1
  <2>2. /\ stack = NewStack /\ base = 0 /\ pc = "idle"
    BY <2>1 DEF Init
  <2>3. ~ LiveCarry
    BY <2>2 DEF LiveCarry
  <2>4. 2 * base = 0 /\ 2 * base + LeafSpan * stack.count = 0
    <3>1. LeafSpan * 0 = 0 /\ stack.count = 0 /\ base = 0
      BY <2>2, TreeAssumption DEF NewStack
    <3> QED BY <3>1
  <2> QED BY <2>2, <2>3, <2>4, SameNames DEF Own!Init, Own!NoResult
<1>3. Live!vars = Own!vars /\ (Live!vars)' = (Own!vars)'
  BY DEF Live!vars, Own!vars
<1>4. Live!Next <=> Own!Next
  <2>1. \A L, e : Live!BeginPush(L, e) <=> Own!BeginPush(L, e)
    BY DEF Live!BeginPush, Own!BeginPush, Live!Pos, Own!Pos, Live!Extent, Own!Extent,
           Live!NoResult, Own!NoResult, Live!Junk, Own!Junk
  <2>2. \A t : Live!FoldWhole(t) <=> Own!FoldWhole(t)
    BY DEF Live!FoldWhole, Own!FoldWhole
  <2>3. \A t, low : Live!BeginFold(t, low) <=> Own!BeginFold(t, low)
    BY DEF Live!BeginFold, Own!BeginFold, Live!IsTop, Own!IsTop, Live!IsLowest,
           Own!IsLowest, Live!Bit, Own!Bit, Live!HashPair, Own!HashPair, Live!Zero,
           Own!Zero, Live!Extent, Own!Extent, Live!Complete, Own!Complete,
           Live!Span, Own!Span, Live!Junk, Own!Junk
  <2>4. Live!PushStep <=> Own!PushStep
    BY DEF Live!PushStep, Own!PushStep, Live!Merge, Own!Merge, Live!Store, Own!Store,
           Live!Bit, Own!Bit, Live!HashPair, Own!HashPair, Live!Zero,
           Own!Zero, Live!Extent, Own!Extent, Live!Complete, Own!Complete,
           Live!Span, Own!Span, Live!Junk, Own!Junk
  <2>5. Live!FoldStep <=> Own!FoldStep
    BY DEF Live!FoldStep, Own!FoldStep, Live!FoldUp, Own!FoldUp, Live!EndFold, Own!EndFold,
           Live!FoldLevel, Own!FoldLevel,
           Live!Bit, Own!Bit, Live!HashPair, Own!HashPair, Live!Zero,
           Own!Zero, Live!Extent, Own!Extent, Live!Complete, Own!Complete,
           Live!Span, Own!Span, Live!Junk, Own!Junk
  <2>6. \A skip : Live!Reset(skip) <=> Own!Reset(skip)
    BY DEF Live!Reset, Own!Reset, Live!NoResult, Own!NoResult, Live!Junk, Own!Junk,
           Live!Extent, Own!Extent
  <2>7. Live!Slots = Own!Slots /\ \A L : Live!Span(L) = Own!Span(L)
    BY DEF Live!Slots, Own!Slots, Live!Span, Own!Span
  <2> QED BY <2>1, <2>2, <2>3, <2>4, <2>5, <2>6, <2>7 DEF Live!Next, Own!Next
<1>5. Inv /\ [Next]_vars => [Live!Next]_(Live!vars)
  BY <1>3, <1>4, OwnStep
<1> QED
  BY <1>2, <1>5, HasherInductive, PTL DEF Spec, StackUsedAsAllowed

(* Names of PieceCommitment that mean the same here. *)
LEMMA PieceNames ==
    /\ \A c, f, z : Piece!IsCommitment(c, f, z) <=> IsCommitment(c, f, z)
    /\ Piece!NoAnswer = NoResult /\ Piece!Q = Q
    /\ \A l : Piece!Zero(l) = Zero(l)
    /\ \A l, a, e : Piece!Extent(l, a, e) = Extent(l, a, e)
PROOF
<1>1. /\ \A l, a, e : Piece!Extent(l, a, e) = Extent(l, a, e)
      /\ Piece!Q = Q
  BY DEF Piece!Extent, Extent, Piece!Q, Q
<1>2. \A l : Piece!Zero(l) = Zero(l)
  BY <1>1 DEF Piece!Zero, Zero
<1>3. Piece!NoAnswer = NoResult
  BY <1>1 DEF Piece!NoAnswer, NoResult, Piece!Junk, Junk
<1>4. \A c, f, z : Piece!IsCommitment(c, f, z) <=> IsCommitment(c, f, z)
  BY <1>1, <1>2 DEF Piece!IsCommitment, IsCommitment
<1> QED
  BY <1>1, <1>2, <1>3, <1>4

(* A return answers with the commitment of the payload. *)
LEMMA ReturnAnswers ==
    ASSUME TypeOK, TypeOK', DigestIsCommitment', NEW h \in Nat \ {0}, NEW root,
           Return(h, root)
    PROVE  Piece!Answer
PROOF
<1> DEFINE k == h - 2
           z == bytes_written
<1>1. /\ result' = [padding |-> ZeroPadding(z), height |-> h, root |-> root]
      /\ UNCHANGED <<base, bytes_written, outcome>>
  BY DEF Return, self
<1>2. result' # NoResult
  <2>1. result'.height = h /\ NoResult.height = 0
    BY <1>1 DEF NoResult
  <2> QED BY <2>1
<1>3. IsCommitment(result', base, z)
  BY <1>1, <1>2 DEF DigestIsCommitment
<1>4. /\ k \in 0 .. MAX_LEVEL /\ h = k + 2
      /\ result'.padding + z = Q * Pow[k]
      /\ result'.root = IF z = 0 THEN Zero(h) ELSE Extent(h, 2 * base, 2 * (base + z))
  <2>1. result'.height = h
    BY <1>1
  <2>2. h = (h - 2) + 2
    OBVIOUS
  <2> QED BY <1>3, <2>1, <2>2 DEF IsCommitment
<1>5. result'.padding \in Int /\ z \in Nat /\ Q * Pow[k] \in Nat
  <2>1. result'.padding \in Int
    BY DEF TypeOK
  <2>2. z \in Nat
    <3>1. z \in 0 .. MAX_PAYLOAD_SIZE
      BY DEF TypeOK
    <3> HIDE DEF z
    <3> QED BY <3>1, LimitFacts
  <2>3. Q \in Nat /\ Pow[k] \in Nat
    BY <1>4, SpanFacts, TreeAssumption
  <2>4. \A a, b \in Nat : a * b \in Nat
    OBVIOUS
  <2> QED BY <2>1, <2>2, <2>3, <2>4
<1>6. result'.padding = Q * Pow[k] - z
  <2>1. result'.padding + z = Q * Pow[k]
    BY <1>4
  <2> QED BY <1>5, <2>1
<1>7. result' = [padding |-> Q * Pow[k] - z, height |-> k + 2,
                 root |-> IF z = 0 THEN Zero(k + 2)
                          ELSE Extent(k + 2, 2 * base, 2 * (base + z))]
  <2>1. result' = [padding |-> result'.padding, height |-> h, root |-> result'.root]
    BY <1>1
  <2> HIDE DEF z, k
  <2> QED BY <1>4, <1>6, <2>1
<1> HIDE DEF k
<1> QED
  BY <1>1, <1>3, <1>4, <1>7, PieceNames DEF Piece!Answer

(* What is not a write, a return or a reset is inside a call. *)
LEMMA InsideCall ==
    ASSUME UNCHANGED <<base, bytes_written, outcome, result>>
    PROVE  [Piece!Next]_(Piece!vars)
PROOF
  BY DEF Piece!vars

(* The hasher keeps the promise of PieceCommitment: pieces of any length,  *)
(* RangeError past the largest payload with nothing changed, and the       *)
(* commitment of the bytes so far at every digest (hasher.rs:169-302).     *)
THEOREM HasherKeepsPromise == Spec => PieceSpec
PROOF
<1>1. Init => Piece!Init
  BY PieceNames DEF Init, Piece!Init
<1>2. ASSUME Inv, Inv', [Next]_vars PROVE [Piece!Next]_(Piece!vars)
  <2>0. TypeOK /\ TypeOK' /\ DigestIsCommitment'
    BY <1>2 DEF Inv
  <2>1. CASE UNCHANGED vars
    BY <2>1, InsideCall DEF vars, self
  <2>2. ASSUME NEW len \in WriteSizes,
               WriteRefused(len) \/ WriteNothing(len) \/ WriteFast(len) \/ WriteBulk(len)
        PROVE  [Piece!Next]_(Piece!vars)
    <3>1. CASE WriteRefused(len)
      <4>1. Piece!Refuse(len)
        BY <3>1 DEF WriteRefused, Piece!Refuse, self
      <4> QED BY <4>1 DEF Piece!Next
    <3>2. CASE WriteNothing(len) \/ WriteFast(len) \/ WriteBulk(len)
      <4>1. WriteAccepted(len)
        BY <3>2 DEF WriteNothing, WriteFast, WriteBulk
      <4>2. Piece!Accept(len)
        BY <4>1, PieceNames DEF WriteAccepted, Piece!Accept
      <4> QED BY <4>2 DEF Piece!Next
    <3> QED BY <2>2, <3>1, <3>2
  <2>3. CASE Reset
    <3>1. Piece!Restart
      BY <2>3, PieceNames DEF Reset, Piece!Restart
    <3> QED BY <3>1 DEF Piece!Next
  <2>4. CASE ReturnSmall
    <3>1. target \in Nat \ {0}
      <4>1. target \in Nat /\ target - 2 \in 0 .. MAX_LEVEL
        BY <1>2, <2>4, SmallCommitment
      <4> QED BY <4>1
    <3>2. Piece!Answer
      BY <2>0, <2>4, <3>1, ReturnAnswers DEF ReturnSmall
    <3> QED BY <3>2 DEF Piece!Next
  <2>5. ASSUME NEW t \in Slots, FoldWhole(t) PROVE [Piece!Next]_(Piece!vars)
    <3>1. t + 1 \in Nat \ {0}
      BY TreeAssumption DEF Slots
    <3>2. Piece!Answer
      BY <2>0, <2>5, <3>1, ReturnAnswers DEF FoldWhole
    <3> QED BY <3>2 DEF Piece!Next
  <2>6. CASE EndFold
    <3>1. top + 2 \in Nat \ {0}
      <4>1. top \in Nat
        BY <2>0 DEF TypeOK
      <4> QED BY <4>1
    <3>2. Piece!Answer
      BY <2>0, <2>6, <3>1, ReturnAnswers DEF EndFold
    <3> QED BY <3>2 DEF Piece!Next
  <2>7. ASSUME \/ \E steps \in 0 .. BATCH_LEVEL : BuildSmall(steps)
               \/ BuildPadded \/ WriteQuad \/ WriteGroup \/ WriteTail
               \/ \E w \in 1 .. Len(jobs) : Reduce(w)
               \/ Reduced \/ Push \/ Merge \/ Store \/ Pushed \/ FoldUp
               \/ \E t, low \in Slots : BeginFold(t, low)
        PROVE  [Piece!Next]_(Piece!vars)
    <3>1. UNCHANGED <<base, bytes_written, outcome, result>>
      BY <2>7 DEF BuildSmall, BuildPadded, WriteQuad, WriteGroup, WriteTail, Reduce,
                  Reduced, Push, Merge, Store, Pushed, FoldUp, BeginFold, self
    <3> QED BY <3>1, InsideCall
  <2> QED BY <1>2, <2>1, <2>2, <2>3, <2>4, <2>5, <2>6, <2>7 DEF Next, Write, CallStep
<1> QED
  BY <1>1, <1>2, HasherInductive, PTL DEF Spec, PieceSpec, Piece!Spec

-----------------------------------------------------------------------------
(* Calls end. *)

(* A root costs its push, the merges below the table's end and its store;  *)
(* a batch costs its levels besides, and that many steps go with each byte *)
(* a write has not read, as a batch holds at least one.                    *)
ROOT_STEPS == MAX_LEVEL + 1
BYTE_STEPS == BATCH_LEVEL + ROOT_STEPS + 3

(* The levels the workers still have to reduce. *)
Unreduced == {p \in (1 .. Len(jobs)) \X (1 .. target - 1) : jobs[p[1]].height <= p[2]}

(* What a write has not read; a group of batches counts as read when its   *)
(* workers start, although read_pos moves when they are done.              *)
GroupBytes == IF caller = "group" THEN Len(jobs) * BATCH_BYTES ELSE 0

BytesLeft == IF Writing THEN input.len - (read_pos + GroupBytes) ELSE 0

FoldSteps == IF caller = "build" THEN MAX_LEVEL + 1 ELSE 0

BatchStepsLeft ==
    CASE pc = "reduce" -> Cardinality(Unreduced) + ROOT_STEPS * Len(jobs) + 2 + FoldSteps
      [] pc = "push"   -> ROOT_STEPS * (Len(jobs) + 1 - next) + 1 + FoldSteps
      [] pc = "carry"  -> ROOT_STEPS * (Len(jobs) - next) + (MAX_LEVEL - level) + 1 + FoldSteps
      [] pc = "fold"   -> MAX_LEVEL - level
      [] OTHER         -> 0

StepsLeft == BYTE_STEPS * BytesLeft + BatchStepsLeft

LEMMA StepConstants ==
    /\ ROOT_STEPS \in Nat \ {0} /\ BYTE_STEPS \in Nat \ {0} /\ MAX_LEVEL \in Nat
    /\ BATCH_LEVEL \in Nat
    /\ BYTE_STEPS = BATCH_LEVEL + ROOT_STEPS + 3
    /\ ROOT_STEPS = MAX_LEVEL + 1
    /\ FoldSteps \in Nat
PROOF
<1>1. MAX_LEVEL \in Nat /\ BATCH_LEVEL \in Nat
  BY TreeAssumption, ConstFacts
<1> QED
  BY <1>1 DEF ROOT_STEPS, BYTE_STEPS, FoldSteps

(* The workers have finitely many levels to go, and no more than all. *)
LEMMA UnreducedFinite ==
    ASSUME NEW n \in Nat, NEW t \in Nat \ {0}, NEW left \in SUBSET ((1 .. n) \X (1 .. t - 1))
    PROVE  /\ IsFiniteSet(left) /\ Cardinality(left) \in Nat
           /\ Cardinality(left) <= n * (t - 1)
PROOF
<1>1. /\ IsFiniteSet(1 .. n) /\ Cardinality(1 .. n) = n
      /\ IsFiniteSet(1 .. t - 1) /\ Cardinality(1 .. t - 1) = t - 1
  BY FS_Interval
<1>2. /\ IsFiniteSet((1 .. n) \X (1 .. t - 1))
      /\ Cardinality((1 .. n) \X (1 .. t - 1)) = n * (t - 1)
  BY <1>1, FS_Product
<1>3. IsFiniteSet(left) /\ Cardinality(left) <= n * (t - 1)
  BY <1>2, FS_Subset
<1> QED
  BY <1>3, FS_CardinalityType

(* What a call has left is counted in natural numbers. *)
LEMMA BytesLeftNat ==
    ASSUME Inv
    PROVE  BytesLeft \in Nat
PROOF
<1>1. /\ input.len \in Nat /\ read_pos \in Nat /\ Len(jobs) \in Nat /\ BATCH_BYTES \in Nat
  <2>1. input \in [first : Nat, len : Nat] /\ read_pos \in Nat /\ jobs \in Seq(JobType)
    BY DEF Inv, TypeOK
  <2> QED BY <2>1, ConstFacts
<1>2. Len(jobs) * BATCH_BYTES \in Nat
  BY <1>1
<1>3. ASSUME Writing PROVE read_pos <= input.len
  BY <1>3 DEF Inv, Placed
<1>4. ASSUME Writing, caller = "group" PROVE read_pos + Len(jobs) * BATCH_BYTES <= input.len
  <2>1. CASE pc = "write"
    <3>1. Len(jobs) = 0
      BY <2>1 DEF Inv, Control
    <3>2. Len(jobs) * BATCH_BYTES = 0
      BY <1>1, <3>1
    <3> QED BY <1>1, <1>3, <1>4, <3>2
  <2>2. CASE pc # "write"
    BY <1>4, <2>2 DEF Inv, Placed
  <2> QED BY <2>1, <2>2
<1> DEFINE g == Len(jobs) * BATCH_BYTES
<1> HIDE DEF g
<1>5. g \in Nat /\ g = Len(jobs) * BATCH_BYTES
  BY <1>2 DEF g
<1> QED
  <2>1. GroupBytes = IF caller = "group" THEN g ELSE 0
    BY <1>5 DEF GroupBytes
  <2> QED BY <1>1, <1>3, <1>4, <1>5, <2>1 DEF BytesLeft

LEMMA InCall ==
    ASSUME Inv, pc \in {"reduce", "push", "carry"}
    PROVE  /\ target \in Nat \ {0} /\ Len(jobs) \in Nat \ {0} /\ jobs \in Seq(JobType)
           /\ caller # "small" => next \in 1 .. Len(jobs) + 1
           /\ Unreduced \in SUBSET ((1 .. Len(jobs)) \X (1 .. target - 1))
           /\ Cardinality(Unreduced) \in Nat /\ IsFiniteSet(Unreduced)
PROOF
<1>1. /\ jobs \in Seq(JobType) /\ target \in Nat
      /\ caller # "small" => next \in 1 .. Len(jobs) + 1
      /\ caller # ""
  BY DEF Inv, TypeOK, Control
<1>2. target # 0
  <2>1. CASE caller = "small"
    BY <2>1, ConstFacts DEF Inv, Jobs
  <2>2. CASE caller # "small"
    BY <2>2, ConstFacts DEF Inv, Jobs
  <2> QED BY <2>1, <2>2
<1>3. Len(jobs) \in Nat \ {0}
  <2>1. caller \in {"flush", "group", "small", "build"}
    BY <1>1 DEF Inv, TypeOK
  <2>2. CASE caller \in {"flush", "group"}
    <3>1. Len(jobs) = 1 \/ Len(jobs) \in 1 .. PARALLEL_GROUP
      BY <2>2 DEF Inv, Placed, Writing
    <3> QED BY <3>1, ConstFacts
  <2>3. CASE caller \in {"small", "build"}
    <3>1. Len(jobs) = 1
      BY <2>3 DEF Inv, Jobs
    <3> QED BY <3>1
  <2> QED BY <2>1, <2>2, <2>3
<1>4. Unreduced \in SUBSET ((1 .. Len(jobs)) \X (1 .. target - 1))
  BY DEF Unreduced
<1>5. IsFiniteSet(Unreduced) /\ Cardinality(Unreduced) \in Nat
  BY <1>1, <1>2, <1>3, <1>4, UnreducedFinite
<1> QED
  BY <1>1, <1>2, <1>3, <1>4, <1>5

LEMMA NoGroup ==
    ASSUME jobs = <<>>
    PROVE  GroupBytes = 0
PROOF
<1>1. Len(jobs) = 0 /\ BATCH_BYTES \in Nat
  BY ConstFacts
<1>2. Len(jobs) * BATCH_BYTES = 0
  BY <1>1
<1> QED
  BY <1>2 DEF GroupBytes

LEMMA LevelsLeft ==
    ASSUME Inv, pc \in {"carry", "fold"}
    PROVE  level \in Nat /\ MAX_LEVEL - level \in Nat \ {0}
PROOF
<1>1. level \in Slots
  <2>1. CASE pc = "carry"
    BY <2>1, CarryLevel
  <2>2. CASE pc = "fold"
    <3>1. level \in Nat /\ top \in Slots /\ (level > 0 => Copy!FoldInv)
      BY <2>2, CopyFolds
    <3>2. level = 0 \/ level \in 1 .. top
      BY <3>1 DEF Copy!FoldInv
    <3> QED BY <3>1, <3>2, TreeAssumption DEF Slots
  <2> QED BY <2>1, <2>2
<1> QED
  BY <1>1, TreeAssumption DEF Slots

LEMMA BatchStepsNat ==
    ASSUME Inv
    PROVE  BatchStepsLeft \in Nat
PROOF
<1>1. CASE pc = "reduce"
  <2> DEFINE r == ROOT_STEPS * Len(jobs)
             c == Cardinality(Unreduced)
  <2>1. r \in Nat /\ c \in Nat
    BY <1>1, InCall, StepConstants
  <2>2. BatchStepsLeft = c + r + 2 + FoldSteps
    BY <1>1 DEF BatchStepsLeft
  <2> HIDE DEF r, c
  <2> QED BY <2>1, <2>2, StepConstants
<1>2. CASE pc = "push"
  <2> DEFINE r == ROOT_STEPS * (Len(jobs) + 1 - next)
  <2>1. next \in 1 .. Len(jobs) + 1 /\ Len(jobs) \in Nat
    BY <1>2, InCall DEF Inv, Control
  <2>2. Len(jobs) + 1 - next \in Nat
    BY <2>1
  <2>3. r \in Nat
    BY <2>2, StepConstants
  <2>4. BatchStepsLeft = r + 1 + FoldSteps
    BY <1>2 DEF BatchStepsLeft
  <2> HIDE DEF r
  <2> QED BY <2>3, <2>4, StepConstants
<1>3. CASE pc = "carry"
  <2> DEFINE r == ROOT_STEPS * (Len(jobs) - next)
             m == MAX_LEVEL - level
  <2>1. next \in Nat /\ next <= Len(jobs) /\ Len(jobs) \in Nat
    BY <1>3, InCall DEF Inv, Control, TypeOK
  <2>2. Len(jobs) - next \in Nat
    BY <2>1
  <2>3. r \in Nat /\ m \in Nat
    BY <1>3, <2>2, StepConstants, LevelsLeft
  <2>4. BatchStepsLeft = r + m + 1 + FoldSteps
    BY <1>3 DEF BatchStepsLeft
  <2> HIDE DEF r, m
  <2> QED BY <2>3, <2>4, StepConstants
<1>4. CASE pc = "fold"
  <2>1. MAX_LEVEL - level \in Nat
    BY <1>4, LevelsLeft
  <2> QED BY <1>4, <2>1 DEF BatchStepsLeft
<1>5. CASE pc \notin {"reduce", "push", "carry", "fold"}
  BY <1>5 DEF BatchStepsLeft
<1> QED
  BY <1>1, <1>2, <1>3, <1>4, <1>5

(* The terms of the count, and what keeps it falling, are natural numbers. *)
Counted ==
    /\ BytesLeft \in Nat /\ BatchStepsLeft \in Nat
    /\ pc \in {"reduce", "push", "carry"} => Len(jobs) \in Nat \ {0}
    /\ pc \in {"carry", "fold"} => level \in Nat /\ MAX_LEVEL - level \in Nat \ {0}

LEMMA InvCounted == Inv => Counted
PROOF
  BY BytesLeftNat, BatchStepsNat, InCall, LevelsLeft DEF Counted

(* A step that reads bytes pays for the batches it starts with them. *)
LEMMA BytesPay ==
    ASSUME Counted, Counted', NEW k \in Nat \ {0}, BytesLeft' = BytesLeft - k,
           BatchStepsLeft' < BYTE_STEPS * k
    PROVE  StepsLeft' < StepsLeft
PROOF
<1> DEFINE b == BytesLeft'
           p == BYTE_STEPS * b
           q == BYTE_STEPS * k
<1>1. BytesLeft \in Nat /\ b \in Nat /\ BytesLeft = b + k
  BY DEF Counted
<1>2. BYTE_STEPS \in Nat
  BY StepConstants
<1>3. StepsLeft' = p + BatchStepsLeft'
  BY DEF StepsLeft, BYTE_STEPS, ROOT_STEPS
<1> HIDE DEF b
<1>4. BYTE_STEPS * (b + k) = p + q /\ p \in Nat /\ q \in Nat
  BY <1>1, <1>2
<1>5. StepsLeft = (p + q) + BatchStepsLeft
  BY <1>1, <1>4 DEF StepsLeft
<1>6. BatchStepsLeft \in Nat /\ BatchStepsLeft' \in Nat /\ BatchStepsLeft' < q
  BY DEF Counted
<1> DEFINE x == BatchStepsLeft
           y == BatchStepsLeft'
<1> HIDE DEF p, q
<1>7. p + y < (p + q) + x
  <2>1. x \in Nat /\ y \in Nat /\ y < q
    BY <1>6
  <2> HIDE DEF x, y
  <2> QED BY <1>4, <2>1
<1> QED
  BY <1>3, <1>5, <1>7

LEMMA BatchPays ==
    ASSUME Counted, Counted', BytesLeft' = BytesLeft, BatchStepsLeft' < BatchStepsLeft
    PROVE  StepsLeft' < StepsLeft
PROOF
<1> DEFINE b == BYTE_STEPS * BytesLeft
<1>1. b \in Nat
  BY StepConstants DEF Counted
<1>2. StepsLeft = b + BatchStepsLeft /\ StepsLeft' = b + BatchStepsLeft'
  BY DEF StepsLeft, BYTE_STEPS, ROOT_STEPS
<1>3. BatchStepsLeft \in Nat /\ BatchStepsLeft' \in Nat
  BY DEF Counted
<1> DEFINE x == BatchStepsLeft
           y == BatchStepsLeft'
<1> HIDE DEF b
<1>4. b + y < b + x
  <2>1. x \in Nat /\ y \in Nat /\ y < x
    BY <1>3
  <2> HIDE DEF x, y
  <2> QED BY <1>1, <2>1
<1> QED
  BY <1>2, <1>4

(* What a flushed batch costs before its first level is reduced. *)
LEMMA BatchStarts ==
    ASSUME Counted', pc' = "reduce", target' = BATCH_LEVEL + 1, FoldSteps' = 0
    PROVE  BatchStepsLeft' < BYTE_STEPS * Len(jobs')
PROOF
<1> DEFINE n == Len(jobs')
           left == Unreduced'
           c == Cardinality(left)
           B == BATCH_LEVEL
           R == ROOT_STEPS
<1>1. /\ n \in Nat \ {0} /\ left \in SUBSET ((1 .. n) \X (1 .. (B + 1) - 1))
  BY DEF Counted, Unreduced
<1>2. B \in Nat /\ R \in Nat /\ BYTE_STEPS = B + R + 3
  BY StepConstants
<1>3. BatchStepsLeft' = c + R * n + 2 + 0
  BY DEF BatchStepsLeft, ROOT_STEPS
<1> HIDE DEF n, left, B, R
<1>4. c \in Nat /\ c <= n * B
  <2> DEFINE t == B + 1
  <2>1. t \in Nat \ {0} /\ t - 1 = B
    BY <1>2
  <2> HIDE DEF t
  <2>2. left \in SUBSET ((1 .. n) \X (1 .. t - 1))
    BY <1>1 DEF t
  <2>3. c \in Nat /\ c <= n * (t - 1)
    BY <1>1, <2>1, <2>2, UnreducedFinite
  <2> QED BY <2>1, <2>3
<1> HIDE DEF c
<1>5. (B + R + 3) * n = n * B + R * n + 3 * n /\ R * n \in Nat /\ n * B \in Nat
  BY <1>1, <1>2
<1> DEFINE x == n * B
           y == R * n
           z == BatchStepsLeft'
<1>6. x \in Nat /\ y \in Nat /\ c <= x /\ z = c + y + 2
  BY <1>2, <1>3, <1>4, <1>5
<1>7. BYTE_STEPS * n = x + y + 3 * n
  BY <1>2, <1>5
<1> HIDE DEF x, y, z
<1>8. z < x + y + 3 * n
  BY <1>1, <1>4, <1>6
<1> QED
  BY <1>7, <1>8 DEF z, n

(* Queueing a quad of a write reads its bytes, a full batch included. *)
LEMMA QuadPays ==
    ASSUME Inv, Counted, Counted', WriteQuad
    PROVE  StepsLeft' < StepsLeft
PROOF
<1>1. /\ pc = "write" /\ jobs = <<>> /\ caller \in {"", "flush", "group"}
      /\ input.len \in Nat /\ read_pos \in Nat /\ Q \in Nat \ {0}
  <2>1. pc = "write"
    BY DEF WriteQuad
  <2>2. input \in [first : Nat, len : Nat]
    BY <2>1, Loop
  <2> QED BY <2>1, <2>2, Loop, ConstFacts
<1> DEFINE q == Q
           len == input.len
<1>2. q \in Nat \ {0} /\ len \in Nat /\ read_pos \in Nat
  BY <1>1
<1> HIDE DEF q, len
<1>3. input' = input /\ read_pos' = read_pos + Q
  BY DEF WriteQuad
<1>4. BytesLeft = input.len - read_pos
  <2>1. GroupBytes = 0
    BY <1>1, NoGroup
  <2>2. BytesLeft = input.len - (read_pos + 0)
    BY <1>1, <2>1, Zenon DEF BytesLeft, Writing
  <2>3. len - (read_pos + 0) = len - read_pos
    BY <1>2
  <2> QED BY <2>2, <2>3, Zenon DEF len
<1>5. ASSUME Writing', GroupBytes' = 0 PROVE BytesLeft' = BytesLeft - Q
  <2>1. BytesLeft' = input.len - ((read_pos + Q) + 0)
    BY <1>3, <1>5, Zenon DEF BytesLeft
  <2>2. len - ((read_pos + q) + 0) = (len - read_pos) - q
    BY <1>2
  <2> QED BY <1>4, <2>1, <2>2, Zenon DEF len, q
<1>6. CASE pc' = "write"
  <2>1. UNCHANGED <<caller, jobs>>
    BY <1>6 DEF WriteQuad, PushQuad
  <2>2. BytesLeft' = BytesLeft - Q
    <3>1. GroupBytes = 0
      BY <1>1, NoGroup
    <3>2. GroupBytes' = 0
      BY <2>1, <3>1, Zenon DEF GroupBytes
    <3>3. Writing'
      BY <1>6 DEF Writing
    <3> QED BY <1>5, <3>2, <3>3
  <2>3. BatchStepsLeft' = 0
    BY <1>6 DEF BatchStepsLeft
  <2>4. 0 < BYTE_STEPS * q
    BY <1>2, StepConstants
  <2>5. BatchStepsLeft' < BYTE_STEPS * Q
    BY <2>3, <2>4, Zenon DEF q
  <2> QED BY <1>1, <2>2, <2>5, BytesPay
<1>7. CASE pc' # "write"
  <2>1. pc' = "reduce" /\ caller' = "flush" /\ Len(jobs') = 1 /\ target' = BATCH_LEVEL + 1
    BY <1>7 DEF WriteQuad, PushQuad
  <2>2. BytesLeft' = BytesLeft - Q
    <3>1. GroupBytes' = 0 /\ Writing'
      BY <2>1 DEF GroupBytes, Writing
    <3> QED BY <1>5, <3>1
  <2>3. BatchStepsLeft' < BYTE_STEPS * 1
    <3>1. FoldSteps' = 0
      BY <2>1 DEF FoldSteps
    <3>2. BatchStepsLeft' < BYTE_STEPS * Len(jobs')
      BY <2>1, <3>1, BatchStarts
    <3> QED BY <2>1, <3>2
  <2> DEFINE x == BYTE_STEPS * q
             z == BatchStepsLeft'
  <2>4. BYTE_STEPS * 1 <= x /\ x \in Nat /\ BYTE_STEPS * 1 \in Nat
    <3> DEFINE d == q - 1
    <3>1. d \in Nat /\ q = 1 + d
      BY <1>2
    <3> HIDE DEF d
    <3>2. BYTE_STEPS * (1 + d) = BYTE_STEPS * 1 + BYTE_STEPS * d /\ BYTE_STEPS * d \in Nat
          /\ BYTE_STEPS * 1 \in Nat
      BY <3>1, StepConstants
    <3> QED BY <3>1, <3>2
  <2>5. z \in Nat /\ z < BYTE_STEPS * 1
    BY <2>3 DEF Counted
  <2> HIDE DEF x, z
  <2>6. z < x
    BY <2>4, <2>5
  <2>7. BatchStepsLeft' < BYTE_STEPS * Q
    BY <2>6 DEF x, z, q
  <2> QED BY <1>1, <2>2, <2>7, BytesPay
<1> QED
  BY <1>6, <1>7

(* Starting the workers reads all their batches. *)
LEMMA GroupPays ==
    ASSUME Inv, Counted, Counted', WriteGroup
    PROVE  StepsLeft' < StepsLeft
PROOF
<1> DEFINE g == GroupSize
           k == g * BATCH_BYTES
<1>1. /\ read_pos' = read_pos /\ input' = input
      /\ pc' = "reduce" /\ caller' = "group" /\ target' = BATCH_LEVEL + 1
  BY DEF WriteGroup
<1>2. /\ pc = "write" /\ input.len \in Nat /\ read_pos \in Nat /\ jobs = <<>>
  <2>1. pc = "write"
    BY DEF WriteGroup
  <2>2. input \in [first : Nat, len : Nat]
    BY <2>1, Loop
  <2> QED BY <2>1, <2>2, Loop
<1>3. g \in Nat \ {0} /\ Len(jobs') = g
  <2>1. PARALLEL_GROUP \in Nat
    BY ConstFacts
  <2> QED BY <2>1, WriteGroupFrame
<1>4. BATCH_BYTES \in Nat \ {0} /\ BYTE_STEPS \in Nat \ {0} /\ g \in Nat \ {0}
  BY <1>3, ConstFacts, StepConstants
<1> HIDE DEF g
<1>5. k \in Nat \ {0} /\ g <= k
  <2>1. PICK b \in Nat : BATCH_BYTES = b + 1
    <3>1. BATCH_BYTES - 1 \in Nat /\ BATCH_BYTES = (BATCH_BYTES - 1) + 1
      BY <1>4
    <3> QED BY <3>1
  <2>2. k = g * b + g /\ g * b \in Nat
    BY <1>4, <2>1
  <2> QED BY <1>4, <2>2
<1>6. BytesLeft = input.len - read_pos
  <2>1. GroupBytes = 0
    BY <1>2, NoGroup
  <2>2. BytesLeft = input.len - (read_pos + 0)
    BY <1>2, <2>1, Zenon DEF BytesLeft, Writing
  <2> QED BY <1>2, <2>2
<1>7. BytesLeft' = input.len - (read_pos + k)
  <2>1. GroupBytes' = k
    BY <1>1, <1>3, Zenon DEF GroupBytes
  <2>2. Writing'
    BY <1>1 DEF Writing
  <2> QED BY <1>1, <2>1, <2>2, Zenon DEF BytesLeft
<1> HIDE DEF k
<1>8. BytesLeft' = BytesLeft - k
  <2>1. input.len - (read_pos + k) = (input.len - read_pos) - k
    BY <1>2, <1>5
  <2> QED BY <1>6, <1>7, <2>1, Zenon
<1>9. BatchStepsLeft' < BYTE_STEPS * g
  <2>1. FoldSteps' = 0
    BY <1>1 DEF FoldSteps
  <2> QED BY <1>1, <1>3, <2>1, BatchStarts
<1>10. BYTE_STEPS * g <= BYTE_STEPS * k
  <2>1. PICK d \in Nat : k = g + d
    <3>1. k - g \in Nat /\ k = g + (k - g)
      BY <1>4, <1>5
    <3> QED BY <3>1
  <2>2. BYTE_STEPS * k = BYTE_STEPS * g + BYTE_STEPS * d /\ BYTE_STEPS * d \in Nat
        /\ BYTE_STEPS * g \in Nat
    BY <1>4, <2>1
  <2> QED BY <2>2
<1>11. BatchStepsLeft' < BYTE_STEPS * k
  <2> DEFINE x == BYTE_STEPS * g
             y == BYTE_STEPS * k
             z == BatchStepsLeft'
  <2>1. x \in Nat /\ y \in Nat /\ x <= y
    BY <1>4, <1>5, <1>10
  <2>2. z \in Nat /\ z < x
    BY <1>9 DEF Counted
  <2> HIDE DEF x, y, z
  <2>3. z < y
    BY <2>1, <2>2
  <2> QED BY <2>3 DEF y, z
<1> QED
  BY <1>5, <1>8, <1>11, BytesPay

(* A level of one job is one less to reduce, whichever worker takes it. *)
LEMMA ReducePays ==
    ASSUME Inv, Counted, Counted', NEW w \in 1 .. Len(jobs), Reduce(w)
    PROVE  StepsLeft' < StepsLeft
PROOF
<1> DEFINE h == jobs[w].height
<1>1. /\ pc = "reduce" /\ pc' = "reduce" /\ h < target
      /\ jobs' = [jobs EXCEPT ![w] = ReduceLevel(jobs[w])]
      /\ UNCHANGED <<caller, input, read_pos, target>>
  BY DEF Reduce
<1>2. jobs \in Seq(JobType) /\ target \in Nat \ {0} /\ Len(jobs) \in Nat /\ IsFiniteSet(Unreduced)
      /\ Cardinality(Unreduced) \in Nat
  BY <1>1, InCall
<1>3. h \in 1 .. target
  BY DEF Inv, Jobs, JobRange
<1>4. Len(jobs') = Len(jobs) /\ \A v \in 1 .. Len(jobs) : jobs'[v].height = IF v = w THEN h + 1 ELSE jobs[v].height
  <2>1. /\ Len(jobs') = Len(jobs)
        /\ \A v \in 1 .. Len(jobs) : jobs'[v] = IF v = w THEN ReduceLevel(jobs[w]) ELSE jobs[v]
    BY <1>1, <1>2
  <2>2. ReduceLevel(jobs[w]).height = h + 1
    BY DEF ReduceLevel
  <2> QED BY <2>1, <2>2
<1>5. Unreduced' = Unreduced \ {<<w, h>>}
  <2>1. ASSUME NEW v \in 1 .. Len(jobs), NEW l \in 1 .. target - 1
        PROVE  (jobs'[v].height <= l) <=> (jobs[v].height <= l /\ <<v, l>> # <<w, h>>)
    <3>1. CASE v = w
      <4>1. (h + 1 <= l) <=> (h <= l /\ l # h)
        BY <1>2, <1>3
      <4> QED BY <1>4, <3>1, <4>1
    <3>2. CASE v # w
      BY <1>4, <3>2
    <3> QED BY <3>1, <3>2
  <2> DEFINE D == (1 .. Len(jobs)) \X (1 .. target - 1)
  <2>2. Unreduced = {p \in D : jobs[p[1]].height <= p[2]}
        /\ Unreduced' = {p \in D : jobs'[p[1]].height <= p[2]}
    BY <1>1, <1>4 DEF Unreduced
  <2>3. ASSUME NEW p \in D
        PROVE  (jobs'[p[1]].height <= p[2]) <=> (jobs[p[1]].height <= p[2] /\ p # <<w, h>>)
    <3>1. p = <<p[1], p[2]>> /\ p[1] \in 1 .. Len(jobs) /\ p[2] \in 1 .. target - 1
      OBVIOUS
    <3>2. (jobs'[p[1]].height <= p[2]) <=> (jobs[p[1]].height <= p[2] /\ <<p[1], p[2]>> # <<w, h>>)
      BY <2>1, <3>1
    <3> QED BY <3>1, <3>2
  <2> HIDE DEF D, h
  <2> QED BY <2>2, <2>3
<1>6. <<w, h>> \in Unreduced
  BY <1>1, <1>2, <1>3 DEF Unreduced
<1>7. Cardinality(Unreduced') = Cardinality(Unreduced) - 1
  BY <1>2, <1>5, <1>6, FS_RemoveElement
<1>8. BytesLeft' = BytesLeft
  BY <1>1, <1>4 DEF BytesLeft, GroupBytes, Writing
<1>9. BatchStepsLeft' < BatchStepsLeft
  <2> DEFINE c == Cardinality(Unreduced)
             r == ROOT_STEPS * Len(jobs)
  <2>1. BatchStepsLeft = c + r + 2 + FoldSteps
    BY <1>1 DEF BatchStepsLeft
  <2>2. BatchStepsLeft' = (c - 1) + r + 2 + FoldSteps
    BY <1>1, <1>4, <1>7 DEF BatchStepsLeft, FoldSteps, ROOT_STEPS
  <2>3. c \in Nat /\ r \in Nat
    BY <1>2, StepConstants
  <2> HIDE DEF c, r
  <2> QED BY <2>1, <2>2, <2>3, StepConstants
<1> QED
  BY <1>8, <1>9, BatchPays

LEMMA RootsPay ==
    ASSUME Inv, Counted, Counted', Reduced \/ Push \/ Merge \/ Store
    PROVE  StepsLeft' < StepsLeft
PROOF
<1> DEFINE n == Len(jobs)
           R == ROOT_STEPS
<1>1. /\ UNCHANGED <<caller, input, read_pos, jobs>>
      /\ pc \in {"reduce", "push", "carry"} /\ pc' \in {"push", "carry"}
      /\ caller # "small"
  BY DEF Reduced, Push, Merge, Store, Inv, Control, SetTarget
<1>2. BytesLeft' = BytesLeft
  BY <1>1 DEF BytesLeft, GroupBytes, Writing
<1>3. FoldSteps' = FoldSteps /\ FoldSteps \in Nat
  BY <1>1, StepConstants DEF FoldSteps
<1>4. n \in Nat /\ next \in 1 .. n + 1 /\ R \in Nat /\ R = MAX_LEVEL + 1 /\ MAX_LEVEL \in Nat
  BY <1>1, InCall, StepConstants
<1>5. CASE Reduced
  <2>1. pc = "reduce" /\ pc' = "push" /\ next' = next /\ next = 1
    <3>1. pc = "reduce" /\ pc' = "push" /\ next' = next
      BY <1>5 DEF Reduced
    <3>2. next \in {0, 1}
      BY <3>1 DEF Inv, Control
    <3> QED BY <1>4, <3>1, <3>2
  <2> DEFINE c == Cardinality(Unreduced)
             r == R * n
  <2>2. c \in Nat /\ r \in Nat
    BY <1>1, <1>4, InCall
  <2>3. BatchStepsLeft = c + r + 2 + FoldSteps
    BY <2>1 DEF BatchStepsLeft
  <2>4. BatchStepsLeft' = r + 1 + FoldSteps
    <3>1. n + 1 - next = n
      BY <1>4, <2>1
    <3> QED BY <1>1, <1>3, <2>1, <3>1 DEF BatchStepsLeft, ROOT_STEPS
  <2> HIDE DEF c, r
  <2>5. BatchStepsLeft' < BatchStepsLeft
    BY <1>3, <2>2, <2>3, <2>4
  <2> QED BY <1>2, <2>5, BatchPays
<1>6. CASE Push
  <2>1. pc = "push" /\ pc' = "carry" /\ next' = next /\ level' = BATCH_LEVEL /\ next <= n
    BY <1>6 DEF Push
  <2> DEFINE r == R * (n - next)
  <2>2. r \in Nat /\ R * (n + 1 - next) = r + R
    <3> DEFINE d == n - next
    <3>1. d \in Nat /\ n + 1 - next = d + 1
      BY <1>4, <2>1
    <3> HIDE DEF d
    <3>2. R * d \in Nat /\ R * (d + 1) = R * d + R
      BY <1>4, <3>1
    <3> QED BY <3>1, <3>2 DEF d
  <2>3. BatchStepsLeft = r + R + 1 + FoldSteps
    BY <2>1, <2>2 DEF BatchStepsLeft
  <2>4. BatchStepsLeft' = r + (MAX_LEVEL - BATCH_LEVEL) + 1 + FoldSteps
    BY <1>1, <1>3, <2>1 DEF BatchStepsLeft, ROOT_STEPS
  <2> HIDE DEF r
  <2>5. BatchStepsLeft' < BatchStepsLeft
    BY <1>3, <1>4, <2>2, <2>3, <2>4, StepConstants
  <2> QED BY <1>2, <2>5, BatchPays
<1>7. CASE Merge
  <2>1. pc = "carry" /\ pc' = "carry" /\ next' = next /\ level' = level + 1
    BY <1>7 DEF Merge
  <2>2. level \in Nat /\ next <= n
    BY <2>1 DEF Counted, Inv, Control
  <2> DEFINE r == R * (n - next)
  <2>3. r \in Nat
    <3>1. n - next \in Nat
      BY <1>4, <2>2
    <3> QED BY <1>4, <3>1
  <2>4. BatchStepsLeft = r + (MAX_LEVEL - level) + 1 + FoldSteps
    BY <2>1 DEF BatchStepsLeft
  <2>5. BatchStepsLeft' = r + (MAX_LEVEL - (level + 1)) + 1 + FoldSteps
    BY <1>1, <1>3, <2>1 DEF BatchStepsLeft, ROOT_STEPS
  <2> HIDE DEF r
  <2>6. BatchStepsLeft' < BatchStepsLeft
    BY <1>3, <1>4, <2>2, <2>3, <2>4, <2>5
  <2> QED BY <1>2, <2>6, BatchPays
<1>8. CASE Store
  <2>1. pc = "carry" /\ pc' = "push" /\ next' = next + 1
    BY <1>8 DEF Store
  <2>2. level \in Nat /\ MAX_LEVEL - level \in Nat \ {0} /\ next <= n
    BY <2>1 DEF Counted, Inv, Control
  <2> DEFINE r == R * (n - next)
  <2>3. r \in Nat /\ n + 1 - (next + 1) = n - next
    <3>1. n - next \in Nat /\ n + 1 - (next + 1) = n - next
      BY <1>4, <2>2
    <3> QED BY <1>4, <3>1
  <2>4. BatchStepsLeft = r + (MAX_LEVEL - level) + 1 + FoldSteps
    BY <2>1 DEF BatchStepsLeft
  <2>5. BatchStepsLeft' = r + 1 + FoldSteps
    BY <1>1, <1>3, <2>1, <2>3 DEF BatchStepsLeft, ROOT_STEPS
  <2> HIDE DEF r
  <2>6. BatchStepsLeft' < BatchStepsLeft
    BY <1>3, <1>4, <2>2, <2>3, <2>4, <2>5
  <2> QED BY <1>2, <2>6, BatchPays
<1> QED
  BY <1>5, <1>6, <1>7, <1>8

(* A write goes on where its batches end, build folds what it has pushed. *)
LEMMA PushedPays ==
    ASSUME Inv, Counted, Counted', Pushed
    PROVE  StepsLeft' < StepsLeft
PROOF
<1>1. /\ pc = "push" /\ next > Len(jobs) /\ jobs' = <<>>
      /\ pc' = (IF caller = "build" THEN "fold" ELSE "write")
      /\ read_pos' = (IF caller = "group" THEN read_pos + Len(jobs) * BATCH_BYTES ELSE read_pos)
      /\ UNCHANGED <<caller, input, level>>
  BY DEF Pushed, tree
<1>2. /\ Len(jobs) \in Nat /\ next = Len(jobs) + 1 /\ caller \in {"flush", "group", "build"}
      /\ level = 0
  <2>1. caller \in {"flush", "group", "build"} /\ level = 0
    BY <1>1 DEF Inv, Control, TypeOK
  <2>2. Len(jobs) \in Nat /\ next \in 1 .. Len(jobs) + 1
    BY <1>1, <2>1, InCall
  <2> QED BY <1>1, <2>1, <2>2
<1>3. BytesLeft' = BytesLeft
  <2>1. read_pos \in Nat /\ BATCH_BYTES \in Nat /\ Len(jobs') = 0
    BY <1>1, ConstFacts DEF Inv, TypeOK
  <2> DEFINE g == Len(jobs) * BATCH_BYTES
  <2>2. g \in Nat /\ Len(jobs') * BATCH_BYTES = 0
    BY <1>2, <2>1
  <2> HIDE DEF g
  <2>3. CASE caller = "group"
    <3>1. read_pos' = read_pos + g
      BY <1>1, <2>3 DEF g
    <3>2. GroupBytes = g /\ GroupBytes' = 0
      BY <1>1, <2>2, <2>3 DEF GroupBytes, g
    <3>3. BytesLeft = input.len - (read_pos + g)
      BY <2>3, <3>2 DEF BytesLeft, Writing
    <3>4. BytesLeft' = input.len - ((read_pos + g) + 0)
      BY <1>1, <2>3, <3>1, <3>2 DEF BytesLeft, Writing
    <3>5. (read_pos + g) + 0 = read_pos + g
      BY <2>1, <2>2
    <3> QED BY <3>3, <3>4, <3>5
  <2>4. CASE caller # "group"
    <3>1. Writing' <=> Writing
      BY <1>1, <1>2, <2>4 DEF Writing
    <3> QED BY <1>1, <2>4, <3>1 DEF BytesLeft, GroupBytes
  <2> QED BY <2>3, <2>4
<1>4. BatchStepsLeft = 1 + FoldSteps
  <2>1. Len(jobs) + 1 - next = 0
    BY <1>2
  <2>2. ROOT_STEPS * (Len(jobs) + 1 - next) = 0
    BY <2>1, StepConstants
  <2> QED BY <1>1, <2>2, StepConstants DEF BatchStepsLeft
<1>5. BatchStepsLeft' < BatchStepsLeft
  <2>1. CASE caller = "build"
    <3>1. BatchStepsLeft' = MAX_LEVEL - 0 /\ FoldSteps = MAX_LEVEL + 1
      BY <1>1, <1>2, <2>1 DEF BatchStepsLeft, FoldSteps
    <3> QED BY <1>4, <3>1, StepConstants
  <2>2. CASE caller # "build"
    <3>1. BatchStepsLeft' = 0
      BY <1>1, <2>2 DEF BatchStepsLeft
    <3> QED BY <1>4, <3>1, StepConstants
  <2> QED BY <2>1, <2>2
<1> QED
  BY <1>3, <1>5, BatchPays

LEMMA FoldPays ==
    ASSUME Inv, Counted, Counted', FoldUp \/ \E t, low \in Slots : BeginFold(t, low)
    PROVE  StepsLeft' < StepsLeft
PROOF
<1>1. pc = "fold" /\ pc' = "fold" /\ UNCHANGED <<caller, input, read_pos, jobs>>
  BY DEF FoldUp, BeginFold
<1>2. level \in Nat /\ level' \in Nat /\ level' > level
  <2>1. level \in Nat
    BY <1>1 DEF Counted
  <2>2. CASE FoldUp
    BY <2>1, <2>2 DEF FoldUp
  <2>3. ASSUME NEW t \in Slots, NEW low \in Slots, BeginFold(t, low)
        PROVE  level' \in Nat /\ level' > level
    <3>1. level' = low + 1 /\ level = 0 /\ low \in Nat
      BY <2>3 DEF BeginFold, Slots
    <3> QED BY <3>1
  <2> QED BY <2>1, <2>2, <2>3
<1>3. BytesLeft' = BytesLeft
  BY <1>1 DEF BytesLeft, GroupBytes, Writing
<1>4. BatchStepsLeft = MAX_LEVEL - level /\ BatchStepsLeft' = MAX_LEVEL - level'
  BY <1>1 DEF BatchStepsLeft
<1>5. BatchStepsLeft' < BatchStepsLeft
  <2> DEFINE l == level'
  <2>1. l \in Nat /\ l > level
    BY <1>2
  <2> HIDE DEF l
  <2>2. MAX_LEVEL - l < MAX_LEVEL - level
    <3>1. level \in Nat
      BY <1>1 DEF Counted
    <3>2. MAX_LEVEL \in Nat
      BY StepConstants
    <3> QED BY <2>1, <3>1, <3>2
  <2> QED BY <1>4, <2>2, Zenon DEF l
<1> QED
  BY <1>3, <1>5, BatchPays

(* Every call returns, whatever is written and however the workers are     *)
(* scheduled: each of its steps but the last leaves fewer to go (the loops *)
(* of push_batches_parallel and write, hasher.rs:151-160, 201-207, and of  *)
(* reduce, push_at and fold, tree.rs:58, 110, 134).                        *)
THEOREM HasherCallsEnd ==
    Spec => [][pc # "idle" => /\ StepsLeft \in Nat
                              /\ pc' = "idle" \/ StepsLeft' < StepsLeft]_vars
PROOF
<1> DEFINE Lowers == pc # "idle" => /\ StepsLeft \in Nat
                                    /\ pc' = "idle" \/ StepsLeft' < StepsLeft
<1>1. Inv => Counted
  BY InvCounted
<1>2. Inv /\ Counted /\ Counted' /\ [Next]_vars => [Lowers]_vars
  <2> SUFFICES ASSUME Inv, Counted, Counted', Next, pc # "idle"
               PROVE  StepsLeft \in Nat /\ (pc' = "idle" \/ StepsLeft' < StepsLeft)
    OBVIOUS
  <2>1. CallStep
    BY DEF Next, Write, WriteRefused, WriteNothing, WriteFast, WriteBulk, WriteAccepted,
           BuildSmall, BuildPadded, Reset
  <2>2. StepsLeft \in Nat
    <3> DEFINE b == BYTE_STEPS * BytesLeft
    <3>1. b \in Nat /\ BatchStepsLeft \in Nat /\ StepsLeft = b + BatchStepsLeft
      BY StepConstants DEF Counted, StepsLeft
    <3> HIDE DEF b
    <3> QED BY <3>1
  <2>3. CASE \/ WriteTail \/ ReturnSmall \/ EndFold
             \/ \E t \in Slots : FoldWhole(t)
    BY <2>2, <2>3 DEF WriteTail, ReturnSmall, EndFold, FoldWhole, Return
  <2>4. CASE WriteQuad \/ WriteGroup \/ \E w \in 1 .. Len(jobs) : Reduce(w)
    BY <2>2, <2>4, QuadPays, GroupPays, ReducePays
  <2>5. CASE Reduced \/ Push \/ Merge \/ Store \/ Pushed
    BY <2>2, <2>5, RootsPay, PushedPays
  <2>6. CASE FoldUp \/ \E t, low \in Slots : BeginFold(t, low)
    BY <2>2, <2>6, FoldPays
  <2>7. pc' = "idle" \/ StepsLeft' < StepsLeft
    BY <2>1, <2>3, <2>4, <2>5, <2>6 DEF CallStep
  <2> QED BY <2>2, <2>7
<1> QED
  BY <1>1, <1>2, HasherInductive, PTL DEF Spec
=============================================================================
