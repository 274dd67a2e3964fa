# Verification of commp

TLA+ models of this repository's CommP hashers and of the code around them, the
TLC runs that check them, and TLAPS proofs about them. CommP is the root of a
binary Merkle tree over a payload after FR32 padding; the repository computes it
three times over (Rust, pure JavaScript, Rust compiled to wasm behind a
JavaScript wrapper) and compares the results with a Go implementation.

Run a model with `tlc -workers 2 -config X.cfg M`, check proofs with `tlapm M.tla`.
`PROJECT.json` maps every definition to the lines it models and lists the runs,
their mutants (a plausible bug for every property, which TLC must find), the
hazards and the theorems.

## The system

| Component | State | Operations | What makes it hard, and correct |
| --- | --- | --- | --- |
| Merkle tree, `rs/commp/src/tree.rs` | `Stack { nodes, count }` | `get_zero_comm`, `reduce`, `push_at`, `fold` | Stale slots are told from live ones only by the bits of `count`; the carry loop and the three paths of `fold` must agree with it. *fold returns the root over exactly the leaves pushed, at the least height.* |
| Rust hasher, `hasher.rs` | `buffer`, `offset`, `bytes_written`, `batch`, `stack` | `write`, `digest`/`root`/`height`, `reset` | Writes cut anywhere; batches hashed one by one or by rayon workers in any order; `build` works on copies; refused writes change nothing. *The digest is the commitment of the bytes accepted since the last reset, whatever the cuts.* |
| FR32, `fr32.rs`, `commp-js/src/fr32.js` | the output quad, reused | `fr32_pad`, `zero_padding` | Every bit must be written (the buffer holds the previous quad) and land where the next element wants it. |
| SHA-256 batching and backends, `sha256/` | none beyond the call | `hash_many`, `get`, `sha256_backend` | Groups of 2 to 16 lanes, transpositions, remainders, a forced backend the CPU lacks. *Each message's node is at its own index, and nothing runs on a CPU without its instructions.* |
| Digest bytes, `multihash.rs`, `commp-js/src/varint.js`, `commp-wasm/src/api.js` | none | `encode_digest`, `digest`, decoding | Varints and a length that depends on another varint's length. |
| JavaScript hasher, `commp-js/src` | hashers; **module-wide** `LEAVES`, `CONCAT_BUFFER` and the zero commitments | `write`, `digest`, `reset`, `dispose` | Scratch arrays shared by all hashers, zero commitments computed on demand through one of them, a `filled` flag per level instead of a counter. |
| Wasm wrapper, `commp-wasm/src/api.js`, `inline/commp_bg.js` | `#hasher` and its pointer, the finalization registry, cached views, the shadow stack, the slab of thrown objects | `create`, `write`, `digest`, `reset`, `free`, one-shot calls | Chunked writes that must be all or nothing, a memory whose buffer is replaced when it grows, allocations that trap, finalizers, reused addresses. |
| Pure JavaScript SHA-256, `commp-js/src/sha256.js` | **module-wide** schedule `W`, the padding block's constants | `sha256x64Into`, `truncatedHashInto`, `readQuad` | A schedule expanded in place over the last call's, a result that may overlap the data. |
| Wasm loading and inline build, `commp-wasm/src/inline`, `scripts/build-inline-wasm.js`, `ci.yml` | the generated files, `pkg-bundler`, the commit; the instance or the error | `build:rust`, `build:inline`, the CI check; import, calls | Files written one by one from outputs that may be of two builds; an import that must not throw when compilation is blocked. *What CI passes runs its own crate in both entries.* |
| Comparison CLIs, `compare/{rust,go,wasm.js}` | stdin, the pending bytes | `hash`, `frames`, `bench`, `gen`, `info` | Short reads, chunks across frame boundaries, input cut anywhere. |
| Comparison driver, `compare/run.js` | the results file, `.build`, the working tree | `build`, `verify`, `bench`, `memory`, `all`, `report` | Results of several runs in one file, failures between, code that changes between and during runs. |
| Benchmarks, `packages/bench` | none | | Timing only. |

How they meet: the Rust hasher pads its input quad by quad (FR32), hashes the
halves of up to 128 quads at once (`hash_many`), reduces them to a batch root and
pushes that on the stack; the wasm wrapper copies chunks into linear memory and
calls the Rust hasher there; the CLIs feed hashers from stdin; the driver runs
the CLIs.

## Abstraction

A **byte** is named by its position in everything ever written, so that a byte
of the payload before a reset, a stale byte and a byte in the wrong place are all
visible. A **Merkle node** is named by the payload beneath it
(`[level, lo, hi]`: level and the nibbles covered); hashing two nodes that do
not make a node of the reference tree gives `Junk`, and Junk never becomes
anything else. Positions are nibbles because the two halves of a 127-byte quad
meet in the middle of a byte. This stands for SHA-256 being injective on what is
hashed, and it is all that is assumed of it.

Bytes per quad, quads per batch, table sizes and the largest payload are
CONSTANTS with named assumptions; the code's values are in the comments. Powers
of two are the constant function `Pow`, defined by its recurrence in
`TreeAssumption`.

## Modules

| Module | Models |
| --- | --- |
| `MerkleTree` | `tree.rs` as operators: nodes, `HashPair`, zero commitments, `ReduceLevel`, what `fold` does at a level. |
| `SubtreeStack` | `Stack` on its own, one loop iteration a step: `BeginPush`, `Merge`, `Store` are `push_at`; `FoldWhole`, `BeginFold`, `FoldUp`, `EndFold` are `fold`. Its caller pushes complete subtrees at any level its contract allows, the last one possibly padded. |
| `QuadLeaves` | FR32 and the leaf hashes of a quad by nibble, `zero_padding`, and `IsCommitment`, the definition of a right answer. |
| `PieceCommitment` | the abstract hasher: accepts or refuses bytes, answers with the commitment. |
| `CommPHasher` | `hasher.rs`: `WriteRefused`, `WriteNothing`, `WriteFast`, `WriteBulk` are the ways into `write`; `WriteQuad`, `WriteGroup`, `WriteTail` its loop; `Reduce(w)` a worker's step on its own batch, `Reduced` the join; `BuildSmall`, `BuildPadded` are `build`. `pc` and `caller` say where a call is. |
| `JsHasher` | `commp-js`: as above, over shared `leaves`, `concat` and zero commitments; a carry is a load, a hash and a store, as in `tree.js`. |
| `WasmHasher` | `api.js` and the glue: wrappers, their pointers, the structs at those addresses, the registry, cached views, memory growth, traps, the buffers passed in and out and the slab an error object goes through. After `free()` a call hands Rust a null pointer (`CallDisposed`), a write of bytes only after it has allocated a buffer for its chunk, which is never freed (`WriteDisposed`, counted in `lost`). The Rust hasher behind a pointer is what `PieceCommitment` promises. |
| `Fr32` | `fr32_pad` and `fr32PadInto` at their real size, bit by bit; its steps are taken by `LeafHash`. |
| `LeafHash` | `readQuad`, `truncatedHashInto` and `sha256x64Into` at their real sizes, one loop iteration a step. A 32-bit value is named by what FIPS 180-4 calls it (word 17 of the schedule, `a` after round 3); an operation on other values than the standard's gives `Junk`, so the code's indices, order and reuse of scratch are checked and its bit operations are not. |
| `Backend`, `HashMany` | the choice of backend; `hash_many` group by group for every kernel. |
| `DigestBytes` | both encoders and the decoder byte by byte, with a smaller base for varints. |
| `CompareFrames` | `hash`, `frames` and `bench` of the three CLIs: `Read` is a short read of Rust and Go, `ReadChunk` a chunk of wasm.js, `HandOut` what a read returns and what stays pending; `WriteRepeated` and `PassDone` are `hash_buffer` and its callers. Go alone refuses payloads of less than `MIN_PAYLOAD` bytes: `hash` and `frames` print an error in place of the root (`Line`) and go on, `bench` fails (`PassRefused`). |
| `InlineWasm` | the generated files: `Pack`, `PackFile` are wasm-pack, `StartGenerator`, `WriteFile` the generator, `Stop` an end or interruption of either, `CI` the comparison with a rebuild; `Import` and the calls of a program that loads an entry, where WebAssembly may or may not be compiled. Each build has the imports of its binary and the names of its exports: linking needs the first only (`Instance`), and a call of a name the binary lacks, or has for another function, may then throw or trap (`Access`). |
| `CompareRun` | `run.js`: `Build`, `Skip`, `BuildOnly`, `TakeSource`, `Measure`, `Save`, `Write`, with `Edit`, `Upgrade`, `Remove` for the user and `Abort` for a failing CLI or an interrupt at any point. |
| `TreeLemmas` | facts about powers, bits and nodes that the proofs share. |
| `SubtreeStackProofs`, `CommPHasherProofs`, `JsHasherProofs`, `WasmHasherProofs`, `InlineWasmProofs` | the theorems about the module they are named after. |
| `HashingProofs`, `CompareProofs` | the theorems about `HashMany` and `DigestBytes`, and about `CompareRun` and `CompareFrames`. |
| `MC*` | values of the constants for TLC. |

Composition: `CommPHasher` and `JsHasher` extend `QuadLeaves`, which extends
`MerkleTree`. `CommPHasher` and `JsHasher` instantiate `PieceCommitment` under a
refinement mapping (`PieceSpec`), and `WasmHasher` does so step by step
(`PieceSteps`). `CommPHasher` also instantiates `SubtreeStack`
(`StackUsedAsAllowed`): its stack is only ever used as the contract proved
about allows. `HashMany` extends `Backend`, `LeafHash` extends `Fr32`. The rest
stand alone: they meet the hashers in files, streams and module loading.

## Runs

| Run | Shows | Bounds |
| --- | --- | --- |
| `SubtreeStack` | every sequence of `push_at` at every level, `fold` and `reset`: `PendingSubtrees`, `FoldedRoot`, `NoIndexPanic`; both loops end (`Returns`) | 11 leaves: counts with all-ones, adjacent and distant bits; one reset at a nonzero position. The theorems lift the bound. |
| `CommPHasher` | payload placed once and in order, digests are commitments, debug assertions and array bounds hold, calls return, `PieceSpec`, `StackUsedAsAllowed` | quads of 3 bytes (odd, so that halves split a byte), batches of 4 quads (so that levels of odd length are reduced), payloads of 8 batches (5 of them make `fold` cross distant bits), workers from 2 batches, groups of 3; write sizes on both sides of every boundary; a reset with up to one batch on the stack. Builds without the `parallel` feature take the sequential steps only. |
| `JsHasher` | two hashers over one set of scratch buffers, calls in every order: filled slots tile each payload, `digest` leaves the hasher as it was, calls return (`CallsReturn`), `PieceSpec` for each | two symmetric hashers, payloads of up to 8 quads of 3 bytes, which fills four levels and needs zeros at each |
| `WasmHasher` | no detached view is used (`TypeOK`), every exit path gives back the shadow stack, the slab cell, the one-shot hasher and the buffers, except that each write of bytes on a freed hasher leaks one, chunks in order, answers are commitments, no pointer is used or freed by another's finalizer, writes are all or nothing (`PieceSteps`) | two wrappers and the one-shot hasher over two addresses, so that addresses are reused; writes of no, one and two chunks; one growth of the memory; one refused write; one write on a freed hasher that reaches Rust, any number that trap before. The two wrappers are symmetric. |
| `LeafHash` | 254 source bits and two zero bits an element, no bit of the previous quad left (`QuadPadded`); each leaf is the digest of its half of the quad (`LeavesRight`) | none: the real sizes; result apart from the data and over it |
| `HashMany` | nodes in place, only supported instructions, the reported backend runs | every build and CPU; counts for every remainder of 16, 8, 4 and 2 lanes |
| `DigestBytes` | the bytes are the multihash of the fields and decode to them | base 8; every varint length from one to four and each boundary |
| `CompareFrames` | payloads are exact whatever the reads and chunks, with an error for the line of exactly those Go refuses; a run fails exactly when its input is cut inside a frame or cannot be read, or Go refuses a benchmark's payload; a benchmark hashes its buffer repeated; every run ends, but a benchmark with chunks of 0 bytes never does | the three CLIs; headers of 2 bytes, a cycle of sizes 1, 3, 2; six lists of frames with empty ones, first, last and between; input cut at every byte; Go digests from 3 bytes, with payloads below, at and above; 80 benchmarks whose chunk, buffer, payload and warm-up divide each other or not, no payload and chunks of 0 among them |
| `CompareRun` | numbers of different code are never combined, a merged run keeps the sections it did not measure | three runs; two states of the code with an edit between runs and one during each, in any phase; two file formats, a commit id or none, one variant of each kind, five sets of options; an abort anywhere |
| `CompareRunSections` | *violation*: `compare/README.md:61` says a command updates only its section; `save` also replaces `variants` and `config`, so a kept `verify` section loses the description of its variants | two sets of options, two runs |
| `CompareRunDiff` | *violation* of `NeverMixesCode` (`compare/README.md:61-63`): the source id hashes a diff that `tryRun` reads as empty when it is longer than the 1 MiB `execFileSync` takes, so two large uncommitted changes share an id | two changes, two runs |
| `InlineWasm` | a commit CI passes runs its own crate in both entries; where loading fails the node entry still imports and every call throws that error, with no hasher left behind; loaded code throws no such error, and none at all if the binary exports what the glue calls | two crates whose binaries import something or nothing and name their exports alike or not, with names that are missing and one that stands for another function; interruptions between any two files |

`MaxBase`, `MaxOrigin`, `MaxSkip`, `MaxGrowth` and `MaxLost` bound what would
otherwise grow for ever (stream positions, memory, leaked buffers); they only limit
how often a reset, a growth or a write on a freed hasher is explored. `MaxRuns` bounds the runs of the driver: three are two that
are merged and one before them that leaves binaries or a file behind.

### Fairness

A call of a hasher is sequential code that runs to its end, and rayon's
`for_each` returns when its workers are done, so the steps of a call are weakly
fair (`PushStep`, `FoldStep`, `CallStep`) in `SubtreeStack` and `CommPHasher`. Callers are not: nobody has to write
or to digest. `CompareFrames` is weakly fair in `Step`, which leaves the failing
read out: a process that is not stopped runs on and reads of a file return. `Exits` has one
exception, a benchmark with chunks of 0 bytes, which `parseSize` lets through and no
CLI refuses: of that it says that it never ends. The
other specifications have no fairness; that the calls of `JsHasher` end is stated
as an action property, a bound on the steps left that every step lowers
(`StepsLeft`), which needs none. The same kind of bound is proved for the steps of
`SubtreeStack`, `CommPHasher` and `CompareFrames` (`StackCallsEnd`, `HasherCallsEnd`,
`FramesStepsEnd`), so fairness only has to say there that a call which can go on does.

Deadlock is checked except where the program stops: `LeafHash`, `DigestBytes` and
`CompareFrames` end when their one call or process does, `CompareRunSections`
after its last run.

## Proofs

All theorems hold for every value of the constants that satisfies the named
assumptions (`TreeAssumption`, `QuadAssumption`, ...), which TLC evaluates on
every run. Each follows from an inductive invariant that TLC checked on the
component's run before it was proved; the temporal step is the last one.

**`TreeLemmas`** holds what the others cite: powers and logarithms, the bits of a
count and what adding to it does to them, nodes (`RunNode`, the node over a run of
leaves clipped at the payload's end, and how two of them join), and the facts
about the layers of a batch. A counterexample at the least number stands for
induction (`LeastNumber`, from the library's well-founded minimum), so nothing is
assumed that recursion over data would need.

**`SubtreeStackProofs`**. `PendingSubtrees` alone is not inductive: while `push_at`
carries, `count` is already advanced and the slots are behind. The invariant is
`TypeOK` and, by the place a call is at, `RestInv` (every set bit of `count` has
its complete subtree in its slot), `PushInv` (the slots agree with the *old*
count, and at level `l` the bits from the pushed level to `l` of the old count are
ones and `node` is the complete subtree over them and the pushed one) or
`FoldInv` (`acc` is the node over everything below its level, padded). One lemma
an action. Theorems: `StackTypeOK`, `StackPending`, `StackFoldedRoot`,
`StackNoIndexPanic`, and `StackCallsEnd`: a step of a call ends it or lowers
`MAX_LEVEL - level`.

**`CommPHasherProofs`**. `DigestIsCommitment` says something of `answer` only, so the
invariant follows the payload to it: `Control` (which locals mean something at
which `pc`), `Placed` (base, stack, batch and buffer hold the payload in this
order, with no gap), `Jobs` (a worker's levels are the reference tree's over its
own batch, whatever the other workers have done), `Own!Inv` and `CopyInv`. The
last two are the invariant of `SubtreeStackProofs` under two refinement mappings,
one for the hasher's stack and one for the copy `build` pads and folds: every
step of the hasher is a step of those instances or leaves them alone, so the carry
loop is proved once. That the preconditions of `push_at` are met is
`HasherStackUse`; that the whole implements `PieceCommitment`, step by step, is
`HasherKeepsPromise`; further `HasherDigest`, `HasherPayloadPlaced`,
`HasherAssertionsHold`, `HasherTypeOK`. `HasherCallsEnd` says that every step of a
call but the last lowers `StepsLeft`: the bytes a write has not read, each weighted by
what a batch costs (its levels, its push and merges), and for the batches under way
the levels their workers have left. These are counted as a set (`Unreduced`), since the
workers run in any order, and a group counts as read when they start, although
`read_pos` moves when they are done.

**`JsHasherProofs`**. The stack of `commp-js` has a flag per level and no counter,
so the theorems about `SubtreeStack` do not apply to it. The invariant says that
there *is* a count of leaves whose bits the flags are (`StackHolds`, `SlotHolds`):
between calls that of the whole quads of each payload (`Stacked`, `Resting`, with
`Buffered` for the rest); while a leaf is pushed that of the leaves before it,
with everything below the carry's level cleared and merged into the carry
(`CarryHolds`, `Pushing`); while a clone is folded that of the padded payload, with
the accumulator the node over everything below its level (`Folding`). Both phases
also say what is in `LEAVES` and `CONCAT_BUFFER`, the scratch all hashers share, at
the steps that read them, and `ZerosRight` what the zero commitments computed so
far are: that is where another hasher's call could do harm. `Control` says which
locals mean something at which `pc`. `JsInductive` is the invariant; from it
`JsPieceSpec` (the refinement, for each hasher), `JsFilledTilePayload`,
`JsDigestKeepsHasher`, `JsTypeOK` (with every level of a push, carry or fold among the
`MAX_LEVEL` slots), and `JsCallsReturn`, that every step of a call
lowers `StepsLeft` (as a function of the locals, `Tally`), with one more invariant
(`Measured`: no more zero commitments than levels). An earlier `StepsLeft` could not be
proved to fall: with quads of one byte, the end of a quad and the beginning of the
next left it as it was. No instance TLC had checked has such quads; the measure now
counts that step (`QuadSteps`).

**`WasmHasherProofs`**. The wrappers share one memory, registry and slab, so the
invariant says who owns what: `Owned` (a live pointer has one holder, an address
is allocated once, a struct has taken in its own writes in order), `InCall` and
`Resources` (which of shadow stack, buffers, slab cell and one-shot hasher the
call under way has taken and not given back, at each `pc`, on the way out of a
throw too), `WriteProgress` (how far a chunked write is and that a failed one is
marked) and `Done`. Theorems: `WasmReply` (a one-shot call answers for its input, a
wrapper's digest for what its own hasher has taken in), `WasmPieceSteps` (for each
wrapper), `WasmPayloadInOrder`, `WasmPointersOwned`, `WasmTypeOK`, and
`WasmCallsCleanUp`. The last cannot say that no buffer is left: `write` on a freed
hasher copies its chunk into the memory before Rust throws on the null pointer
(commp_bg.js:154-156), and nothing frees that copy. It says that there is one buffer
for each such write and no other.

**`HashingProofs`**, of `HashMany` (`CountsAssumption`). The first `done` nodes are the hashes of
their messages and nothing at or past the number of messages is written; lanes of
a group, the transpositions of the wasm, ARM and x86 kernels and the zero-padded
last group each give a message's hash at its index. Theorems: `HashManyInPlace`,
`HashManyRunsOnThisCPU`, `HashManyReports`, `HashManyTypeOK`.

Of `DigestBytes` (`BytesAssumption`: a base of at least two, a code of two bytes). The
varint of a number and its length are recursive functions; that they exist and are
what their recurrences say of every number is shown by the least number at which they
would not. The invariant is `Encoding` (what is written, with what is still to write,
is the whole multihash, and no more than was measured beforehand), `Counted` and
`CallTypes`; the decoder's part is that it finds a varint wherever one was put
(`VarintRead`) and gets its value back (`SumOfVarint`), so that the parts are found
one after the other (`WholeParts`). Theorems: `DigestMultihash`,
`DigestFieldsRoundTrip`.

**`CompareProofs`**, of `CompareRun`. A row of the results file is right only with the binaries,
the sources and the ids they were measured under, so the invariant carries them:
`Building` and `Built` (what is in `.build` is of the code its record names),
`Measuring` (rows taken so far are of the code of this run) and `OnDisk` (a file
that is not torn mixes nothing). `CompareNeverMixesCode` has a hypothesis,
`HashTellsChanges`: no change is so large that its diff is read as empty. The code
does not give it; the run `CompareRunDiff` shows that the theorem fails without it
and is listed as a finding. What an edit
in the middle of a run can reach is excused in the property itself: all numbers of a
file when a run it is merged from was edited before it noted its source, those of wasm
when while measuring. `CompareKeepsSections` and `CompareTypeOK` need no hypothesis.

Of `CompareFrames` (`FramesAssumption`). The invariant is that what is pending is the part of
the input taken and not handed out (`Streamed`), that what `hash` has taken in is what
was handed out (`HashRead`), that the frames read so far are those of the input up to
where this one starts (`FramesRead`), and that a benchmark has hashed its buffer
repeated (`Passed`). Where a frame starts is a sum over the frames before it, and again the
least number stands for induction. Theorems: `FramesPayloadsExact`,
`FramesCutInputFails` (in both directions), `FramesTypes`, and `FramesStepsEnd`: every
step lowers a bound on the steps left, in which the bytes not handed out outweigh those
not taken, and these the end of the input and the stages of a frame. Chunks of 0 bytes
are not assumed away: the theorem says that such a benchmark (`Endless`) takes no step
that changes anything, which is how it runs for ever.

**`InlineWasmProofs`**. `Passed` (what CI compared is what is committed) and `Loaded`
(instance and error exclude each other and belong to the entry imported, and a reply
is one the exports of the binary allow):
`InlinePassedRunsItsCrate`, `InlineFailsOnFirstUse`.

**Only model-checked**:

- Liveness (`Returns`, `CallsReturn` of `CommPHasher`, `Exits`) under fairness, which
  is out of the prover's reach. The part of it that is about the code is proved: the
  bound on the steps of a call that `StackCallsEnd`, `HasherCallsEnd` and
  `FramesStepsEnd` state. That a call which has not ended has a next step rests on
  TLC's check for deadlock and these properties. `CallsReturn` of `JsHasher` is proved
  as the run states it: it is an action property.
- `LeafHash` (`QuadPadded`, `LeavesRight`): one fixed instance at the real sizes without
  parameters, which TLC covers completely.
- `UpdatesOnlyItsSection`, which the code violates.

## Not modelled

- The arithmetic of SHA-256 (rotations, Boolean functions, the constants'
  values) and the vector code of the Rust compression functions: data no model
  checker covers. The unit tests compare them with other implementations.
- In the wasm glue: the text decoder of error messages, `count()` and `height()`,
  a trap inside a Rust call other than the allocation of a chunk. Both entries loaded by
  one program: the package's exports give a program one of them.
- `gen`, `info`, timing and payload data of the comparison CLIs; benchmarks of no
  iterations or an empty buffer; a payload the hasher refuses in the middle of a
  frame, whose rest stays unread (only payloads of more than 15 PiB are; what Go
  refuses it refuses at the end of the payload).
- `report` and the Markdown files of the driver, which are made from the results
  file; machine information; `sweepSizes` (run.js:634), a loop over random
  numbers that needs as many integers below `sweepMax` as it draws; two drivers at
  once.
- `packages/bench`: timing loops without state of their own.

A comment that is not what the code does, found on the way: `commp-js/src/types.ts:28`
calls the `digest` field height and root; index.js:221-222 puts the padding first,
as `FieldsRoundTrip` has it.

## Plan

1. Done: the stack and its proofs, the three hashers against one abstract
   specification, FR32 and the JavaScript SHA-256, `hash_many` and its proofs,
   digest bytes, the inline build and its loading, the comparison.
2. Done: proofs of every safety and action property of `SubtreeStack`,
   `CommPHasher`, `JsHasher`, `WasmHasher`, `HashMany`, `DigestBytes`, `CompareRun`,
   `CompareFrames` and `InlineWasm` that a passing run checks, and that the steps of a
   call or a process are bounded wherever a run checks that it ends.
3. Left with TLC: the two invariants of `LeafHash` and the liveness properties, for
   the reasons above.
