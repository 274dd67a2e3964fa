--------------------------- MODULE WasmHasherProofs ---------------------------
(***************************************************************************)
(* What is proved of WasmHasher, for any number of wrappers and addresses, *)
(* any chunk size and any lengths of the arrays a caller passes.           *)
(***************************************************************************)
EXTENDS WasmHasher, TreeLemmas, WellFoundedInduction

(* A wrapper that was never created has no pointer, and what is allocated  *)
(* is a hasher with a position.                                            *)
Allocated ==
    /\ \A w \in Wrappers : life[w] = "new" => ptr[w] = 0
    /\ \A p \in Pointers : structs[p] # Freed => structs[p].base \in Nat

InWrite == pc \in {"chunk", "copy", "write", "check"}
InDigest == pc \in {"hash", "read"}
Succeeded == pc = "leave" /\ error = ""

(* Who is called, and with what. *)
InCall ==
    /\ pc = "idle" => /\ self = Local /\ method = "" /\ input = NoInput /\ offset = 0
                      /\ got = NoAnswer /\ thrown = 0
    /\ pc # "idle" => method # ""
    /\ pc # "leave" => error = ""
    /\ InWrite => method \in {"write", "one-shot"}
    /\ InDigest => method \in {"digest", "one-shot"}
    /\ method = "root" => pc = "leave"
    /\ method \in {"digest", "root"} => error = ""
    /\ method \in {"write", "digest"} => self \in Wrappers /\ ptr[self] # 0
    /\ method \in {"one-shot", "root"} => self = Local /\ input.first = 0
    /\ method \in {"write", "one-shot", "root"} => input.len \in WriteSizes
    /\ method = "one-shot" <=> ptr[Local] # 0

(* What a call holds of the wasm instance and of the slab. *)
Resources ==
    /\ stackPointer = IF pc \in {"copy", "write", "check", "hash", "read"} THEN 16 ELSE 0
    /\ blocks = IF pc \in {"copy", "write", "read"} THEN lost + 1 ELSE lost
    /\ thrown = 0 => heap_next = 1 /\ heap \in {<<>>, <<2>>}
    /\ thrown # 0 => pc = "check" /\ thrown = 1 /\ heap = <<RangeErrorObject>> /\ heap_next = 2

(* The whole input fits in the hasher. *)
Fits == input.first - Inner(self).base + input.len <= MAX_PAYLOAD_SIZE

(* How far a write has come. *)
Position == Inner(self).base + Inner(self).size
WriteProgress ==
    InWrite =>
        /\ pc # "chunk" => offset < input.len
        /\ input.len <= CHUNK_SIZE /\ offset < input.len => offset = 0
        /\ input.first >= Inner(self).base
        /\ IF pc = "check" /\ thrown = 0
           THEN Position = input.first + offset + ChunkLen
           ELSE Position = input.first + (IF offset < input.len THEN offset ELSE input.len)
        /\ input.len <= CHUNK_SIZE \/ Fits
        /\ thrown # 0 => ~ Fits /\ offset = 0

(* What a call that is about to return has done. *)
Done ==
    /\ method = "one-shot" => Inner(Local).base = 0
    /\ method = "one-shot" /\ (InDigest \/ Succeeded) => Inner(Local).size = input.len
    /\ method \in {"digest", "one-shot"} /\ (pc = "read" \/ Succeeded) =>
           got = Commitment(Inner(self))
    /\ method = "root" => got = Commitment([Struct(0) EXCEPT !.size = input.len])
    /\ method = "write" /\ pc = "leave" /\ error # "RuntimeError" =>
           /\ input.first >= Inner(self).base
           /\ IF error = "" THEN Position = input.first + input.len
                            ELSE Position = input.first /\ ~ Fits

Owned == PointersOwned /\ PayloadInOrder /\ Allocated

Inv == TypeOK /\ Owned /\ InCall /\ Resources /\ WriteProgress /\ Done

-----------------------------------------------------------------------------
(* The commitment of a payload. *)

LEMMA LeastNumber ==
    ASSUME NEW T, T \subseteq Nat, T # {}
    PROVE  \E x \in T : \A y \in T : x <= y
PROOF
<1> DEFINE R == {ss \in Nat \X Nat : ss[1] < ss[2]}
<1>1. IsWellFoundedOn(R, Nat)
  BY NatLessThanWellFounded DEF OpToRel
<1>2. \A x, y \in Nat : y < x => <<y, x>> \in R
  OBVIOUS
<1> HIDE DEF R
<1>3. PICK x \in T : \A y \in T : ~ (<<y, x>> \in R)
  BY <1>1, WFMin
<1>4. ASSUME NEW y \in T PROVE x <= y
  <2>1. x \in Nat /\ y \in Nat
    OBVIOUS
  <2>2. ~ (y < x)
    BY <1>2, <1>3, <2>1
  <2> QED BY <2>1, <2>2
<1> QED
  BY <1>4

LEMMA LimitFacts ==
    /\ Q \in Nat \ {0} /\ MAX_PAYLOAD_SIZE \in Nat
    /\ PAYLOAD_LEVEL \in 0 .. MAX_LEVEL
    /\ CHUNK_SIZE \in Nat \ {0}
    /\ WriteSizes \subseteq 0 .. MAX_PAYLOAD_SIZE /\ WriteSizes \subseteq Nat
    /\ Pointers \subseteq Nat /\ 0 \notin Pointers
    /\ Local \notin Wrappers
PROOF
<1>1. Q \in Nat \ {0} /\ PAYLOAD_LEVEL \in 0 .. MAX_LEVEL
  BY WasmAssumption, TreeAssumption DEF Q
<1>2. Pow[PAYLOAD_LEVEL] \in Nat \ {0}
  BY <1>1, TreeAssumption
<1>3. \A a, b \in Nat : a * b \in Nat
  OBVIOUS
<1>4. MAX_PAYLOAD_SIZE \in Nat
  BY <1>1, <1>2, <1>3 DEF MAX_PAYLOAD_SIZE
<1> QED
  BY <1>1, <1>4, WasmAssumption DEF MAX_PAYLOAD_SIZE

(* A payload within the limit has a least tree. *)
IsLeastTree(size, k) ==
    /\ size <= Q * Pow[k]
    /\ k > 0 => Q * Pow[k - 1] < size

LEMMA LeastTree ==
    ASSUME NEW size \in 0 .. MAX_PAYLOAD_SIZE
    PROVE  \E k \in 0 .. MAX_LEVEL : IsLeastTree(size, k)
PROOF
<1> DEFINE T == {k \in 0 .. MAX_LEVEL : size <= Q * Pow[k]}
<1>1. PAYLOAD_LEVEL \in T
  BY LimitFacts DEF MAX_PAYLOAD_SIZE
<1>2. PICK k \in T : \A j \in T : k <= j
  <2>1. T \subseteq Nat /\ T # {}
    <3>1. \A i \in 0 .. MAX_LEVEL : i \in Nat
      BY TreeAssumption
    <3> QED BY <1>1, <3>1
  <2> HIDE DEF T
  <2> QED BY <2>1, LeastNumber
<1>3. k \in 0 .. MAX_LEVEL /\ size <= Q * Pow[k]
  OBVIOUS
<1>4. ASSUME k > 0 PROVE Q * Pow[k - 1] < size
  <2>1. k - 1 \in 0 .. MAX_LEVEL
    BY <1>3, <1>4, TreeAssumption
  <2>2. k - 1 \notin T
    <3> HIDE DEF T
    <3> QED BY <1>2, <1>3, <1>4, TreeAssumption
  <2>3. ~ (size <= Q * Pow[k - 1])
    BY <2>1, <2>2
  <2>4. Q \in Nat /\ Pow[k - 1] \in Nat /\ size \in Nat
    <3>1. Pow[k - 1] \in Nat
      BY <2>1, TreeAssumption
    <3> QED BY <3>1, LimitFacts
  <2>5. \A a, b \in Nat : a * b \in Nat
    OBVIOUS
  <2>6. Q * Pow[k - 1] \in Nat
    BY <2>4, <2>5
  <2> QED BY <2>3, <2>4, <2>6
<1> QED
  BY <1>3, <1>4 DEF IsLeastTree

(* What Rust returns for a hasher, with the height spelled out. *)
CommitmentAt(s, k) ==
    [padding |-> Q * Pow[k] - s.size, height |-> k + 2,
     root |-> IF ~ s.intact THEN Junk
              ELSE IF s.size = 0 THEN Zero(k + 2)
              ELSE Extent(k + 2, 2 * s.base, 2 * (s.base + s.size))]

LEMMA CommitmentForm ==
    ASSUME NEW s \in [base : Int, size : 0 .. MAX_PAYLOAD_SIZE, intact : BOOLEAN]
    PROVE  \E k \in 0 .. MAX_LEVEL : IsLeastTree(s.size, k) /\ Commitment(s) = CommitmentAt(s, k)
PROOF
<1> DEFINE k == CHOOSE i \in 0 .. MAX_LEVEL : IsLeastTree(s.size, i)
<1>1. s.size \in 0 .. MAX_PAYLOAD_SIZE
  OBVIOUS
<1>2. \E i \in 0 .. MAX_LEVEL : IsLeastTree(s.size, i)
  BY <1>1, LeastTree
<1>3. k \in 0 .. MAX_LEVEL /\ IsLeastTree(s.size, k)
  BY <1>2
<1>4. Commitment(s) = CommitmentAt(s, k)
  BY Zenon DEF Commitment, CommitmentAt, IsLeastTree
<1> HIDE DEF k
<1> QED
  BY <1>3, <1>4

(* What Rust returns for an intact hasher is the commitment of its bytes,  *)
(* and for any other at least has the type.                                *)
LEMMA CommitmentIs ==
    ASSUME NEW s \in [base : Int, size : 0 .. MAX_PAYLOAD_SIZE, intact : BOOLEAN]
    PROVE  /\ Commitment(s) \in Answers
           /\ s.intact => IsCommitment(Commitment(s), s.base, s.size)
PROOF
<1>1. s.size \in Nat /\ s.base \in Int
  BY LimitFacts
<1>2. PICK k \in 0 .. MAX_LEVEL : IsLeastTree(s.size, k) /\ Commitment(s) = CommitmentAt(s, k)
  BY CommitmentForm
<1>3. s.size <= Q * Pow[k] /\ (k > 0 => Q * Pow[k - 1] < s.size)
  BY <1>2 DEF IsLeastTree
<1>4. Q * Pow[k] \in Nat
  <2>1. Q \in Nat /\ Pow[k] \in Nat
    BY LimitFacts, TreeAssumption
  <2>2. \A a, b \in Nat : a * b \in Nat
    OBVIOUS
  <2> QED BY <2>1, <2>2
<1>5. k \in Nat /\ k + 2 - 2 = k /\ k + 2 - 3 = k - 1 /\ k + 2 \in Nat /\ k + 2 >= 2
      /\ (k + 2 > 2 => k > 0) /\ Q * Pow[k] - s.size \in Nat
      /\ (Q * Pow[k] - s.size) + s.size = Q * Pow[k]
  <2>1. k \in Nat
    <3>1. MAX_LEVEL \in Nat
      BY TreeAssumption
    <3> QED BY <3>1
  <2> DEFINE full == Q * Pow[k]
  <2>2. full \in Nat /\ s.size <= full
    BY <1>3, <1>4
  <2> HIDE DEF full
  <2>3. full - s.size \in Nat /\ (full - s.size) + s.size = full
    BY <1>1, <2>2
  <2>4. k + 2 - 2 = k /\ k + 2 - 3 = k - 1 /\ k + 2 \in Nat /\ k + 2 >= 2
        /\ (k + 2 > 2 => k > 0)
    BY <2>1
  <2> QED BY <2>1, <2>3, <2>4 DEF full
<1>6. Commitment(s) = CommitmentAt(s, k)
  BY <1>2
<1>7. Commitment(s).root \in Node
  BY <1>1, <1>5, <1>6 DEF CommitmentAt, Node, Extent, Zero, Junk
<1>8. Commitment(s) \in Answers
  BY <1>5, <1>6, <1>7 DEF Answers, CommitmentAt
<1>9. ASSUME s.intact PROVE IsCommitment(Commitment(s), s.base, s.size)
  BY <1>3, <1>5, <1>6, <1>9 DEF IsCommitment, CommitmentAt
<1> QED
  BY <1>8, <1>9

-----------------------------------------------------------------------------
(* The pointers. *)

StructType == [base : Int, size : 0 .. MAX_PAYLOAD_SIZE, intact : BOOLEAN]

LEMMA OwnedKept ==
    ASSUME Owned, UNCHANGED <<structs, registry, ptr, life>>
    PROVE  Owned'
PROOF
<1>1. structs' = structs /\ registry' = registry /\ ptr' = ptr /\ life' = life
  OBVIOUS
<1>2. PointersOwned' <=> PointersOwned
  BY <1>1 DEF PointersOwned, Inner
<1>3. PayloadInOrder' <=> PayloadInOrder
  BY <1>1 DEF PayloadInOrder
<1>4. Allocated' <=> Allocated
  BY <1>1 DEF Allocated
<1> QED
  BY <1>2, <1>3, <1>4 DEF Owned

LEMMA NewOwned ==
    ASSUME TypeOK, Owned, NEW w \in Objects, ptr[w] = 0, New(w)
    PROVE  Owned'
PROOF
<1>1. PICK p \in Pointers : /\ structs[p] = Freed
                            /\ structs' = [structs EXCEPT ![p] = Struct(0)]
                            /\ ptr' = [ptr EXCEPT ![w] = p]
                            /\ registry' = [registry EXCEPT ![w] = p]
  BY DEF New
<1>2. /\ structs \in [Pointers -> StructType] /\ registry \in [Objects -> Pointers \cup {0}]
      /\ ptr \in [Objects -> Pointers \cup {0}]
      /\ life \in [Objects -> {"new", "held", "dropped"}]
  BY DEF TypeOK, StructType
<1>3. life' = [life EXCEPT ![w] = "held"]
  BY DEF New
<1>4. Struct(0) # Freed /\ Struct(0).intact = TRUE /\ Struct(0).base = 0
  BY DEF Struct, Freed
<1>5. p # 0 /\ 0 \notin Pointers
  BY LimitFacts
<1>6. \A v \in Objects : ptr[v] # p
  BY <1>1, <1>5 DEF Owned, PointersOwned, Inner
<1>7. \A v \in Objects : /\ ptr'[v] = IF v = w THEN p ELSE ptr[v]
                         /\ registry'[v] = IF v = w THEN p ELSE registry[v]
                         /\ life'[v] = IF v = w THEN "held" ELSE life[v]
  BY <1>1, <1>2, <1>3
<1>8. \A q \in Pointers : structs'[q] = IF q = p THEN Struct(0) ELSE structs[q]
  BY <1>1, <1>2
<1>9. PointersOwned'
  <2>1. \A v \in Objects : registry'[v] = ptr'[v]
    BY <1>7 DEF Owned, PointersOwned
  <2>2. \A v \in Objects : ptr'[v] # 0 => structs'[ptr'[v]] # Freed
    BY <1>2, <1>4, <1>7, <1>8 DEF Owned, PointersOwned, Inner
  <2>3. \A u, v \in Objects : ptr'[u] = ptr'[v] /\ ptr'[u] # 0 => u = v
    BY <1>6, <1>7 DEF Owned, PointersOwned
  <2>4. ASSUME NEW q \in Pointers, structs'[q] # Freed
        PROVE  \E v \in Objects : registry'[v] = q
    <3>1. CASE q = p
      BY <3>1, <1>7
    <3>2. CASE q # p
      <4>1. PICK v \in Objects : registry[v] = q
        BY <3>2, <2>4, <1>8 DEF Owned, PointersOwned
      <4>2. v # w
        BY <4>1, <1>5 DEF Owned, PointersOwned
      <4> QED BY <4>1, <4>2, <1>7
    <3> QED BY <3>1, <3>2
  <2> QED BY <2>1, <2>2, <2>3, <2>4 DEF PointersOwned, Inner
<1>10. PayloadInOrder'
  BY <1>4, <1>8 DEF Owned, PayloadInOrder
<1>11. Allocated'
  <2>1. \A v \in Wrappers : life'[v] = "new" => ptr'[v] = 0
    BY <1>7 DEF Owned, Allocated, Objects
  <2>2. \A q \in Pointers : structs'[q] # Freed => structs'[q].base \in Nat
    BY <1>4, <1>8 DEF Owned, Allocated
  <2> QED BY <2>1, <2>2 DEF Allocated
<1> QED
  BY <1>9, <1>10, <1>11 DEF Owned

LEMMA FreeOwned ==
    ASSUME TypeOK, Owned, NEW w \in Objects, ptr[w] # 0, Free(w), UNCHANGED life
    PROVE  Owned'
PROOF
<1> DEFINE p == ptr[w]
<1>1. p \in Pointers
  BY DEF TypeOK
<1>2. /\ structs \in [Pointers -> StructType] /\ registry \in [Objects -> Pointers \cup {0}]
      /\ ptr \in [Objects -> Pointers \cup {0}]
  BY DEF TypeOK, StructType
<1>3. \A v \in Objects : /\ ptr'[v] = IF v = w THEN 0 ELSE ptr[v]
                         /\ registry'[v] = IF v = w THEN 0 ELSE registry[v]
  BY <1>2 DEF Free
<1>4. \A q \in Pointers : structs'[q] = IF q = p THEN Freed ELSE structs[q]
  BY <1>2 DEF Free
<1>5. PointersOwned'
  <2>1. \A v \in Objects : registry'[v] = ptr'[v]
    BY <1>3 DEF Owned, PointersOwned
  <2>2. \A v \in Objects : ptr'[v] # 0 => structs'[ptr'[v]] # Freed
    <3>1. \A v \in Objects : v # w /\ ptr[v] # 0 => ptr[v] # p
      BY DEF Owned, PointersOwned
    <3> QED BY <3>1, <1>2, <1>3, <1>4 DEF Owned, PointersOwned, Inner
  <2>3. \A u, v \in Objects : ptr'[u] = ptr'[v] /\ ptr'[u] # 0 => u = v
    BY <1>3 DEF Owned, PointersOwned
  <2>4. ASSUME NEW q \in Pointers, structs'[q] # Freed
        PROVE  \E v \in Objects : registry'[v] = q
    <3>1. q # p /\ structs[q] # Freed
      BY <2>4, <1>4
    <3>2. PICK v \in Objects : registry[v] = q
      BY <3>1 DEF Owned, PointersOwned
    <3>3. v # w
      BY <3>1, <3>2 DEF Owned, PointersOwned
    <3> QED BY <3>2, <3>3, <1>3
  <2> QED BY <2>1, <2>2, <2>3, <2>4 DEF PointersOwned, Inner
<1>6. PayloadInOrder' /\ Allocated'
  <2>1. PayloadInOrder'
    BY <1>4 DEF Owned, PayloadInOrder
  <2>2. \A v \in Wrappers : life'[v] = "new" => ptr'[v] = 0
    BY <1>3 DEF Owned, Allocated, Objects
  <2>3. \A q \in Pointers : structs'[q] # Freed => structs'[q].base \in Nat
    BY <1>4 DEF Owned, Allocated
  <2> QED BY <2>1, <2>2, <2>3 DEF Allocated
<1> QED
  BY <1>5, <1>6 DEF Owned

(* A hasher in use takes bytes in order or starts again. *)
LEMMA UseOwned ==
    ASSUME TypeOK, Owned, NEW w \in Objects, ptr[w] # 0, UNCHANGED <<registry, ptr, life>>,
           NEW s, s # Freed, s.intact, s.base \in Nat,
           structs' = [structs EXCEPT ![ptr[w]] = s]
    PROVE  Owned'
PROOF
<1> DEFINE p == ptr[w]
<1>1. p \in Pointers
  BY DEF TypeOK
<1>2. /\ structs \in [Pointers -> StructType] /\ ptr \in [Objects -> Pointers \cup {0}]
  BY DEF TypeOK, StructType
<1>3. \A q \in Pointers : structs'[q] = IF q = p THEN s ELSE structs[q]
  BY <1>2
<1>4. \A q \in Pointers : structs[q] # Freed => structs'[q] # Freed
  BY <1>3
<1>5. \A q \in Pointers : structs'[q] # Freed => structs[q] # Freed
  <2>1. structs[p] # Freed
    BY DEF Owned, PointersOwned, Inner
  <2> QED BY <1>3, <2>1
<1>6. registry' = registry /\ ptr' = ptr /\ life' = life
  OBVIOUS
<1>7. PointersOwned'
  BY <1>2, <1>4, <1>5, <1>6 DEF Owned, PointersOwned, Inner
<1>8. PayloadInOrder' /\ Allocated'
  BY <1>3, <1>6 DEF Owned, PayloadInOrder, Allocated
<1> QED
  BY <1>7, <1>8 DEF Owned

-----------------------------------------------------------------------------
(* The types. *)

LEMMA TypeFacts ==
    ASSUME TypeOK
    PROVE  /\ structs \in [Pointers -> StructType]
           /\ memory \in 0 .. MaxGrowth /\ stackPointer \in {0, 16}
           /\ lost \in 0 .. MaxLost /\ lost \in Nat /\ blocks \in lost .. lost + 1
           /\ heap \in Seq(Nat) /\ heap_next \in Nat /\ thrown \in Nat
           /\ bytesView \in Int /\ dataView \in Int /\ memory \in Int
           /\ registry \in [Objects -> Pointers \cup {0}]
           /\ ptr \in [Objects -> Pointers \cup {0}]
           /\ life \in [Objects -> {"new", "held", "dropped"}]
           /\ outcome \in [Wrappers -> Outcomes] /\ answer \in [Wrappers -> Answers]
           /\ self \in Objects
           /\ input \in [first : Nat, len : Nat] /\ offset \in Nat
           /\ got \in Answers
           /\ input.first \in Nat /\ input.len \in Nat
           /\ \A w \in Objects : ptr[w] # 0 => Inner(w) \in StructType
PROOF
<1>1. memory \in Int
  <2>1. memory \in 0 .. MaxGrowth
    BY DEF TypeOK
  <2> QED BY <2>1, WasmAssumption
<1>2. \A w \in Objects : ptr[w] # 0 => Inner(w) \in StructType
  BY DEF TypeOK, StructType, Inner
<1>3. lost \in Nat
  <2>1. lost \in 0 .. MaxLost
    BY DEF TypeOK
  <2> QED BY <2>1, WasmAssumption
<1> QED
  BY <1>1, <1>2, <1>3 DEF TypeOK, StructType

(* A call holds at most one buffer more than the writes lost. *)
LEMMA BlocksType ==
    ASSUME TypeOK, UNCHANGED lost
    PROVE  /\ lost' \in 0 .. MaxLost
           /\ lost' \in lost' .. lost' + 1 /\ lost' + 1 \in lost' .. lost' + 1
PROOF
<1>1. lost' = lost /\ lost \in 0 .. MaxLost /\ lost \in Nat
  BY TypeFacts
<1>2. lost \in lost .. lost + 1 /\ lost + 1 \in lost .. lost + 1
  BY <1>1
<1> QED
  BY <1>1, <1>2

LEMMA GrowType ==
    ASSUME TypeOK, MayGrow \/ UNCHANGED memory
    PROVE  memory' \in 0 .. MaxGrowth /\ memory' \in Int
PROOF
<1>1. memory' \in 0 .. MaxGrowth
  BY DEF TypeOK, MayGrow
<1> QED
  BY <1>1, WasmAssumption

LEMMA NoAnswerType == NoAnswer \in Answers /\ NoInput \in [first : Nat, len : Nat]
PROOF
  BY DEF NoAnswer, NoInput, Answers, Node, Junk, Extent

LEMMA IdleTypeOK ==
    ASSUME Inv, UNCHANGED call, UNCHANGED <<stackPointer, blocks, lost, dataView, slab>>,
           memory' \in 0 .. MaxGrowth, bytesView' \in Int,
           structs' \in [Pointers -> StructType],
           registry' \in [Objects -> Pointers \cup {0}],
           ptr' \in [Objects -> Pointers \cup {0}],
           life' \in [Objects -> {"new", "held", "dropped"}],
           outcome' \in [Wrappers -> Outcomes], answer' \in [Wrappers -> Answers]
    PROVE  TypeOK'
PROOF
<1>1. TypeOK
  BY DEF Inv
<1> QED
  BY <1>1 DEF TypeOK, StructType, call, slab

LEMMA NewType ==
    ASSUME TypeOK, NEW w \in Objects, New(w)
    PROVE  /\ memory' \in 0 .. MaxGrowth
           /\ structs' \in [Pointers -> StructType]
           /\ registry' \in [Objects -> Pointers \cup {0}]
           /\ ptr' \in [Objects -> Pointers \cup {0}]
           /\ life' \in [Objects -> {"new", "held", "dropped"}]
           /\ UNCHANGED <<stackPointer, blocks, bytesView, dataView, slab>>
           /\ ptr'[w] # 0 /\ Inner(w)' = Struct(0)
           /\ \A v \in Objects : v # w => ptr'[v] = ptr[v]
PROOF
<1>1. PICK p \in Pointers : /\ structs' = [structs EXCEPT ![p] = Struct(0)]
                            /\ ptr' = [ptr EXCEPT ![w] = p]
                            /\ registry' = [registry EXCEPT ![w] = p]
  BY DEF New
<1>2. Struct(0) \in StructType
  <2>1. 0 \in 0 .. MAX_PAYLOAD_SIZE
    BY LimitFacts
  <2> QED BY <2>1 DEF Struct, StructType
<1>3. memory' \in 0 .. MaxGrowth
  BY GrowType DEF New
<1>4. p # 0
  BY LimitFacts
<1>5. Inner(w)' = Struct(0) /\ ptr'[w] # 0
  BY <1>1, <1>4, TypeFacts DEF Inner
<1> QED
  BY <1>1, <1>2, <1>3, <1>5, TypeFacts DEF New

LEMMA FreeType ==
    ASSUME TypeOK, NEW w \in Objects, Free(w)
    PROVE  /\ structs' \in [Pointers -> StructType]
           /\ registry' \in [Objects -> Pointers \cup {0}]
           /\ ptr' \in [Objects -> Pointers \cup {0}]
           /\ ptr'[w] = 0
           /\ \A v \in Objects : v # w => ptr'[v] = ptr[v]
PROOF
<1>1. Freed \in StructType
  <2>1. 0 \in 0 .. MAX_PAYLOAD_SIZE
    BY LimitFacts
  <2> QED BY <2>1 DEF Freed, StructType
<1> QED
  BY <1>1, TypeFacts DEF Free

-----------------------------------------------------------------------------
(* Between calls. *)

(* What an action between calls leaves of the call, and of its resources. *)
LEMMA IdleCall ==
    ASSUME Inv, pc = "idle", UNCHANGED call, UNCHANGED <<stackPointer, blocks, lost, slab>>,
           ptr'[Local] = ptr[Local]
    PROVE  InCall' /\ Resources' /\ WriteProgress' /\ Done'
PROOF
<1>1. /\ pc' = "idle" /\ self' = self /\ method' = method /\ input' = input
      /\ offset' = offset /\ got' = got /\ thrown' = thrown /\ error' = error
      /\ stackPointer' = stackPointer /\ blocks' = blocks /\ lost' = lost
      /\ heap' = heap /\ heap_next' = heap_next
  BY DEF call, slab
<1>2. method = ""
  BY DEF Inv, InCall
<1>3. InCall'
  BY <1>1, <1>2 DEF Inv, InCall, InWrite, InDigest
<1>4. Resources'
  BY <1>1 DEF Inv, Resources
<1>5. WriteProgress' /\ Done'
  BY <1>1, <1>2 DEF WriteProgress, Done, InWrite
<1> QED
  BY <1>3, <1>4, <1>5

LEMMA BetweenCalls ==
    ASSUME Inv,
           \E w \in Wrappers : Create(w) \/ Dispose(w) \/ CallDisposed(w) \/ Drop(w)
                               \/ Finalize(w)
    PROVE  Inv'
PROOF
<1>1. PICK w \in Wrappers : Create(w) \/ Dispose(w) \/ CallDisposed(w) \/ Drop(w) \/ Finalize(w)
  OBVIOUS
<1>2. pc = "idle" /\ UNCHANGED call /\ UNCHANGED <<stackPointer, blocks, lost, slab>>
      /\ dataView' = dataView /\ bytesView' \in Int /\ answer' = answer
  <2>1. bytesView' \in {bytesView, memory}
    BY <1>1 DEF Create, New, Dispose, CallDisposed, Refresh, Drop, Finalize, glue
  <2>2. bytesView' \in Int
    BY <2>1, TypeFacts DEF Inv
  <2> QED BY <1>1, <2>2 DEF Create, New, Dispose, CallDisposed, Disposed, Drop, Finalize, glue, wasm, caller
<1>3. w \in Objects /\ w # Local /\ TypeOK /\ Owned /\ Local \in Objects
  BY LimitFacts DEF Inv, Objects
<1>4. CASE Create(w)
  <2>1. New(w) /\ outcome' = outcome /\ ptr[w] = 0
    BY <1>3, <1>4 DEF Create, caller, Owned, Allocated
  <2>2. Owned'
    BY <1>3, <2>1, NewOwned
  <2>3. TypeOK' /\ ptr'[Local] = ptr[Local]
    BY <1>2, <1>3, <2>1, NewType, TypeFacts, IdleTypeOK
  <2> QED BY <1>2, <2>2, <2>3, IdleCall DEF Inv
<1>5. CASE Dispose(w)
  <2>1. Free(w) /\ ptr[w] # 0 /\ UNCHANGED <<outcome, life, memory>>
    BY <1>5 DEF Dispose, caller
  <2>2. Owned'
    BY <1>3, <2>1, FreeOwned
  <2>3. TypeOK' /\ ptr'[Local] = ptr[Local]
    BY <1>2, <1>3, <2>1, FreeType, TypeFacts, IdleTypeOK
  <2> QED BY <1>2, <2>2, <2>3, IdleCall DEF Inv
<1>6. CASE Finalize(w)
  <2>1. Free(w) /\ ptr[w] # 0 /\ UNCHANGED <<outcome, life, memory>>
    BY <1>3, <1>6 DEF Finalize, Free, caller, Owned, PointersOwned
  <2>2. Owned'
    BY <1>3, <2>1, FreeOwned
  <2>3. TypeOK' /\ ptr'[Local] = ptr[Local]
    BY <1>2, <1>3, <2>1, FreeType, TypeFacts, IdleTypeOK
  <2> QED BY <1>2, <2>2, <2>3, IdleCall DEF Inv
<1>7. CASE CallDisposed(w)
  <2>1. UNCHANGED <<structs, registry, ptr, life, memory>>
    BY <1>7 DEF CallDisposed, wasm, glue
  <2>2. outcome' \in [Wrappers -> Outcomes]
    BY <1>3, <1>7, TypeFacts DEF CallDisposed, Outcomes
  <2>3. Owned'
    BY <1>3, <2>1, OwnedKept
  <2>4. TypeOK'
    BY <1>2, <1>3, <2>1, <2>2, TypeFacts, IdleTypeOK
  <2> QED BY <1>2, <2>1, <2>3, <2>4, IdleCall DEF Inv
<1>8. CASE Drop(w)
  <2>1. UNCHANGED <<structs, registry, ptr, memory, outcome>>
    BY <1>8 DEF Drop, wasm, glue, caller
  <2>2. life' \in [Objects -> {"new", "held", "dropped"}]
        /\ (\A v \in Wrappers : life'[v] = "new" => life[v] = "new")
    BY <1>3, <1>8, TypeFacts DEF Drop, Objects
  <2>3. Owned'
    BY <1>3, <2>1, <2>2 DEF Owned, PointersOwned, PayloadInOrder, Allocated, Inner
  <2>4. TypeOK'
    BY <1>2, <1>3, <2>1, <2>2, TypeFacts, IdleTypeOK
  <2> QED BY <1>2, <2>1, <2>3, <2>4, IdleCall DEF Inv
<1> QED
  BY <1>1, <1>4, <1>5, <1>6, <1>7, <1>8

-----------------------------------------------------------------------------
(* The calls begin. *)

(* The hasher in use, in numbers. *)
LEMMA InnerFacts ==
    ASSUME Inv, NEW w \in Objects, ptr[w] # 0
    PROVE  /\ Inner(w) \in StructType /\ Inner(w) # Freed /\ Inner(w).intact
           /\ Inner(w).base \in Nat /\ Inner(w).size \in Nat
           /\ Inner(w).size <= MAX_PAYLOAD_SIZE /\ MAX_PAYLOAD_SIZE \in Nat
           /\ ptr[w] \in Pointers
PROOF
<1>1. TypeOK /\ Owned
  BY DEF Inv
<1>2. ptr[w] \in Pointers /\ Inner(w) \in StructType
  BY <1>1, TypeFacts
<1>3. Inner(w) # Freed
  BY <1>1 DEF Owned, PointersOwned
<1>4. Inner(w).intact /\ Inner(w).base \in Nat
  BY <1>1, <1>2, <1>3 DEF Owned, PayloadInOrder, Allocated, Inner
<1>5. Inner(w).size \in 0 .. MAX_PAYLOAD_SIZE
  BY <1>2 DEF StructType
<1> QED
  BY <1>2, <1>3, <1>4, <1>5, LimitFacts

(* A call begins with the instance as the last one left it. *)
LEMMA IdleFacts ==
    ASSUME Inv, pc = "idle"
    PROVE  /\ self = Local /\ method = "" /\ input = NoInput /\ offset = 0
           /\ got = NoAnswer /\ thrown = 0 /\ error = "" /\ ptr[Local] = 0
           /\ stackPointer = 0 /\ blocks = lost /\ heap_next = 1 /\ heap \in {<<>>, <<2>>}
PROOF
<1>1. /\ self = Local /\ method = "" /\ input = NoInput /\ offset = 0
      /\ got = NoAnswer /\ thrown = 0 /\ error = "" /\ ptr[Local] = 0
  BY DEF Inv, InCall
<1>2. stackPointer = 0 /\ blocks = lost /\ heap_next = 1 /\ heap \in {<<>>, <<2>>}
  BY <1>1 DEF Inv, Resources
<1> QED
  BY <1>1, <1>2

LEMMA WriteRefusedInv ==
    ASSUME Inv, NEW w \in Wrappers, NEW len \in WriteSizes, WriteRefused(w, len)
    PROVE  Inv'
PROOF
<1>1. /\ pc = "idle" /\ UNCHANGED call /\ UNCHANGED <<stackPointer, blocks, lost, slab>>
      /\ UNCHANGED <<bytesView, dataView>> /\ answer' = answer
      /\ UNCHANGED <<structs, registry, ptr, life, memory>>
  BY DEF WriteRefused, Usable, glue, wasm
<1>2. TypeOK /\ Owned
  BY DEF Inv
<1>3. outcome' \in [Wrappers -> Outcomes]
  BY <1>2, TypeFacts DEF WriteRefused, Outcomes
<1>4. Owned'
  BY <1>1, <1>2, OwnedKept
<1>5. TypeOK'
  BY <1>1, <1>2, <1>3, TypeFacts, IdleTypeOK
<1> QED
  BY <1>1, <1>4, <1>5, IdleCall DEF Inv

LEMMA ResetInv ==
    ASSUME Inv, NEW w \in Wrappers, Reset(w)
    PROVE  Inv'
PROOF
<1>1. /\ pc = "idle" /\ UNCHANGED call /\ UNCHANGED <<stackPointer, blocks, lost, slab>>
      /\ UNCHANGED <<bytesView, dataView>> /\ ptr[w] # 0
      /\ UNCHANGED <<registry, ptr, life, memory>>
  BY DEF Reset, Usable, glue
<1>2. TypeOK /\ Owned /\ w \in Objects
  BY DEF Inv, Objects
<1> DEFINE s == Struct(Inner(w).base + Inner(w).size)
<1>3. structs' = [structs EXCEPT ![ptr[w]] = s]
  BY DEF Reset
<1>4. Inner(w).base + Inner(w).size \in Nat
  BY <1>1, <1>2, InnerFacts
<1>5. s.base \in Nat /\ s.intact /\ s # Freed /\ s \in StructType
  <2>1. 0 \in 0 .. MAX_PAYLOAD_SIZE
    BY LimitFacts
  <2> QED BY <1>4, <2>1 DEF Struct, Freed, StructType
<1> HIDE DEF s
<1>6. Owned'
  BY <1>1, <1>2, <1>3, <1>5, UseOwned
<1>7. structs' \in [Pointers -> StructType]
  BY <1>2, <1>3, <1>5, TypeFacts
<1>8. outcome' \in [Wrappers -> Outcomes] /\ answer' \in [Wrappers -> Answers]
  BY <1>2, TypeFacts, NoAnswerType DEF Reset, Outcomes
<1>9. TypeOK'
  BY <1>1, <1>2, <1>7, <1>8, TypeFacts, IdleTypeOK
<1> QED
  BY <1>1, <1>6, <1>9, IdleCall DEF Inv

(* A write on a freed hasher leaves its buffer, or traps and leaves nothing. *)
LEMMA WriteDisposedInv ==
    ASSUME Inv, NEW w \in Wrappers, NEW len \in WriteSizes, WriteDisposed(w, len)
    PROVE  Inv'
PROOF
<1>1. /\ pc = "idle" /\ MayGrow /\ lost < MaxLost
      /\ blocks' = blocks + 1 /\ lost' = lost + 1 /\ bytesView' = memory'
      /\ outcome' = [outcome EXCEPT ![w] = "Error"]
      /\ UNCHANGED <<structs, stackPointer, dataView, registry, heap, heap_next, ptr, life,
                     answer, pc, self, method, input, offset, got, thrown, error>>
  BY DEF WriteDisposed, Disposed, slab, call
<1>2. TypeOK /\ Owned /\ InCall /\ Resources
  BY DEF Inv
<1>3. blocks = lost /\ method = "" /\ lost \in Nat
  BY <1>1, <1>2, IdleFacts, TypeFacts
<1>4. blocks' = lost' /\ lost' \in 0 .. MaxLost /\ lost' \in lost' .. lost' + 1
  <2>1. lost \in Nat /\ MaxLost \in Nat /\ lost < MaxLost /\ lost' = lost + 1
    BY <1>1, <1>3, WasmAssumption
  <2>2. lost' \in 0 .. MaxLost /\ lost' \in lost' .. lost' + 1
    BY <2>1
  <2> QED BY <1>1, <1>3, <2>2
<1>5. Owned'
  BY <1>1, <1>2, OwnedKept
<1>6. TypeOK'
  <2>1. memory' \in 0 .. MaxGrowth /\ memory' \in Int
    BY <1>1, <1>2, GrowType
  <2>2. outcome' \in [Wrappers -> Outcomes]
    BY <1>1, <1>2, TypeFacts DEF Outcomes
  <2> QED BY <1>1, <1>2, <1>4, <2>1, <2>2 DEF TypeOK
<1>7. InCall'
  BY <1>1, <1>2 DEF InCall, InWrite, InDigest
<1>8. Resources'
  BY <1>1, <1>2, <1>4 DEF Resources
<1>9. WriteProgress' /\ Done'
  BY <1>1, <1>3 DEF WriteProgress, Done, InWrite
<1> QED
  BY <1>5, <1>6, <1>7, <1>8, <1>9 DEF Inv

LEMMA WriteDisposedTrapsInv ==
    ASSUME Inv, NEW w \in Wrappers, NEW len \in WriteSizes, WriteDisposedTraps(w, len)
    PROVE  Inv'
PROOF
<1>1. /\ pc = "idle" /\ UNCHANGED call /\ UNCHANGED <<stackPointer, blocks, lost, slab>>
      /\ UNCHANGED <<bytesView, dataView>> /\ answer' = answer
      /\ UNCHANGED <<structs, registry, ptr, life, memory>>
  BY DEF WriteDisposedTraps, Disposed, glue, wasm
<1>2. TypeOK /\ Owned
  BY DEF Inv
<1>3. outcome' \in [Wrappers -> Outcomes]
  BY <1>2, TypeFacts DEF WriteDisposedTraps, Outcomes
<1>4. Owned'
  BY <1>1, <1>2, OwnedKept
<1>5. TypeOK'
  BY <1>1, <1>2, <1>3, TypeFacts, IdleTypeOK
<1> QED
  BY <1>1, <1>4, <1>5, IdleCall DEF Inv

LEMMA BeginWriteInv ==
    ASSUME Inv, NEW w \in Wrappers, NEW len \in WriteSizes, BeginWrite(w, len)
    PROVE  Inv'
PROOF
<1>1. /\ pc = "idle" /\ ptr[w] # 0 /\ ~ TooLong(w, len)
      /\ self' = w /\ method' = "write" /\ pc' = "chunk"
      /\ input' = [first |-> Inner(w).base + Inner(w).size, len |-> len]
      /\ UNCHANGED <<wasm, glue, ptr, life, caller, offset, got, thrown, error>>
  BY DEF BeginWrite, Usable
<1>2. TypeOK /\ Owned /\ w \in Objects /\ w # Local /\ len \in Nat
  BY LimitFacts DEF Inv, Objects
<1>3. UNCHANGED <<structs, registry, memory, stackPointer, blocks, bytesView, dataView,
                  heap, heap_next, outcome, answer, lost>>
  BY <1>1 DEF wasm, glue, slab, caller
<1>4. input'.first = Inner(w).base + Inner(w).size /\ input'.len = len
      /\ input' \in [first : Nat, len : Nat] /\ Inner(w)' = Inner(w)
  BY <1>1, <1>2, <1>3, InnerFacts DEF Inner
<1>5. Owned'
  BY <1>1, <1>2, <1>3, OwnedKept
<1>6. TypeOK'
  BY <1>1, <1>2, <1>3, <1>4 DEF TypeOK
<1>7. InCall'
  BY <1>1, <1>2, <1>4, IdleFacts DEF InCall, InWrite, InDigest
<1>8. Resources'
  BY <1>1, <1>3, IdleFacts DEF Resources
<1>9. WriteProgress'
  <2> DEFINE b == Inner(w).base
             n == Inner(w).size
  <2>1. b \in Nat /\ n \in Nat /\ MAX_PAYLOAD_SIZE \in Nat /\ CHUNK_SIZE \in Nat
    BY <1>1, <1>2, InnerFacts, LimitFacts
  <2>2. input'.first = b + n /\ input'.len = len /\ offset' = 0 /\ thrown' = 0
        /\ self' = w /\ Inner(w)'.base = b /\ Inner(w)'.size = n
    BY <1>1, <1>4, IdleFacts
  <2>3. len > CHUNK_SIZE => n + len <= MAX_PAYLOAD_SIZE
    <3>1. len > CHUNK_SIZE => ~ (n + len > MAX_PAYLOAD_SIZE)
      BY <1>1 DEF TooLong
    <3> QED BY <1>2, <2>1, <3>1
  <2> HIDE DEF b, n
  <2>4. b + n >= b /\ b + n = (b + n) + (IF 0 < len THEN 0 ELSE len)
        /\ (len <= CHUNK_SIZE \/ (b + n) - b + len <= MAX_PAYLOAD_SIZE)
    BY <1>2, <2>1, <2>3
  <2> QED BY <1>1, <2>2, <2>4 DEF WriteProgress, InWrite, Position, Fits, Inner
<1>10. Done'
  BY <1>1 DEF Done
<1> QED
  BY <1>5, <1>6, <1>7, <1>8, <1>9, <1>10 DEF Inv

LEMMA BeginDigestInv ==
    ASSUME Inv, NEW w \in Wrappers, BeginDigest(w)
    PROVE  Inv'
PROOF
<1>1. /\ pc = "idle" /\ ptr[w] # 0
      /\ self' = w /\ method' = "digest" /\ pc' = "hash"
      /\ stackPointer' = stackPointer + 16
      /\ UNCHANGED <<structs, memory, blocks, glue, ptr, life, caller, input, offset,
                     got, thrown, error>>
  BY DEF BeginDigest, Usable, EnterDigest
<1>2. TypeOK /\ Owned /\ w \in Objects /\ w # Local
  BY LimitFacts DEF Inv, Objects
<1>3. UNCHANGED <<structs, registry, memory, blocks, bytesView, dataView,
                  heap, heap_next, outcome, answer, lost>> /\ stackPointer' = 16
  <2>1. stackPointer = 0
    BY <1>1, IdleFacts
  <2>2. stackPointer' = 16
    BY <1>1, <2>1
  <2> QED BY <1>1, <2>2 DEF glue, slab, caller
<1>4. Owned'
  BY <1>1, <1>2, <1>3, OwnedKept
<1>5. TypeOK'
  BY <1>1, <1>2, <1>3 DEF TypeOK
<1>6. InCall'
  BY <1>1, <1>2, IdleFacts DEF InCall, InWrite, InDigest
<1>7. Resources'
  BY <1>1, <1>3, IdleFacts DEF Resources
<1>8. WriteProgress' /\ Done'
  BY <1>1 DEF Done, WriteProgress, InWrite, InDigest, Succeeded
<1> QED
  BY <1>4, <1>5, <1>6, <1>7, <1>8 DEF Inv

LEMMA BeginOneShotInv ==
    ASSUME Inv, NEW len \in WriteSizes, BeginOneShot(len)
    PROVE  Inv'
PROOF
<1>1. /\ pc = "idle" /\ New(Local)
      /\ self' = Local /\ method' = "one-shot" /\ pc' = "chunk"
      /\ input' = [first |-> 0, len |-> len]
      /\ UNCHANGED <<outcome, answer, lost, offset, got, thrown, error>>
  BY DEF BeginOneShot, caller
<1>2. TypeOK /\ Owned /\ Local \in Objects /\ len \in Nat /\ ptr[Local] = 0
  BY <1>1, IdleFacts, LimitFacts DEF Inv, Objects
<1>3. /\ UNCHANGED <<stackPointer, blocks, bytesView, dataView, heap, heap_next>>
      /\ ptr'[Local] # 0 /\ Inner(Local)' = Struct(0)
      /\ memory' \in 0 .. MaxGrowth
      /\ structs' \in [Pointers -> StructType]
      /\ registry' \in [Objects -> Pointers \cup {0}]
      /\ ptr' \in [Objects -> Pointers \cup {0}]
      /\ life' \in [Objects -> {"new", "held", "dropped"}]
  BY <1>1, <1>2, NewType DEF slab
<1>4. input'.first = 0 /\ input'.len = len /\ input' \in [first : Nat, len : Nat]
      /\ Inner(Local)'.base = 0 /\ Inner(Local)'.size = 0
  BY <1>1, <1>2, <1>3 DEF Struct
<1>5. Owned'
  BY <1>1, <1>2, NewOwned
<1>6. TypeOK'
  BY <1>1, <1>2, <1>3, <1>4 DEF TypeOK, StructType
<1>7. InCall'
  BY <1>1, <1>3, <1>4, IdleFacts DEF InCall, InWrite, InDigest
<1>8. Resources'
  BY <1>1, <1>3, IdleFacts DEF Resources
<1>9. WriteProgress'
  <2>1. offset' = 0 /\ thrown' = 0 /\ len <= MAX_PAYLOAD_SIZE /\ MAX_PAYLOAD_SIZE \in Nat
    <3>1. len \in 0 .. MAX_PAYLOAD_SIZE /\ MAX_PAYLOAD_SIZE \in Nat
      BY LimitFacts
    <3>2. offset' = 0 /\ thrown' = 0
      BY <1>1, IdleFacts
    <3> QED BY <3>1, <3>2
  <2>2. 0 >= 0 /\ 0 + 0 = 0 + (IF 0 < len THEN 0 ELSE len) /\ 0 - 0 + len <= MAX_PAYLOAD_SIZE
    BY <1>2, <2>1
  <2> QED BY <1>1, <1>4, <2>1, <2>2 DEF WriteProgress, InWrite, Position, Fits, Inner
<1>10. Done'
  BY <1>1, <1>4 DEF Done, InDigest, Succeeded
<1> QED
  BY <1>5, <1>6, <1>7, <1>8, <1>9, <1>10 DEF Inv

LEMMA RootOfChunkInv ==
    ASSUME Inv, NEW len \in WriteSizes, RootOfChunk(len)
    PROVE  Inv'
PROOF
<1>1. /\ pc = "idle" /\ MayGrow /\ bytesView' = memory' /\ dataView' = memory'
      /\ self' = Local /\ method' = "root" /\ pc' = "leave"
      /\ input' = [first |-> 0, len |-> len]
      /\ got' = Commitment([Struct(0) EXCEPT !.size = len])
      /\ UNCHANGED <<structs, stackPointer, blocks, registry, heap, heap_next, ptr, life,
                     outcome, answer, lost, offset, thrown, error>>
  BY DEF RootOfChunk, slab, caller
<1>2. TypeOK /\ Owned /\ Local \in Objects /\ len \in Nat
  BY LimitFacts DEF Inv, Objects
<1>3. input'.first = 0 /\ input'.len = len /\ input' \in [first : Nat, len : Nat]
  BY <1>1, <1>2
<1>4. got' \in Answers
  <2>1. [Struct(0) EXCEPT !.size = len] \in
          [base : Int, size : 0 .. MAX_PAYLOAD_SIZE, intact : BOOLEAN]
    <3>1. len \in 0 .. MAX_PAYLOAD_SIZE
      BY LimitFacts
    <3>2. Struct(0) \in [base : Int, size : 0 .. MAX_PAYLOAD_SIZE, intact : BOOLEAN]
      <4>1. 0 \in 0 .. MAX_PAYLOAD_SIZE
        BY LimitFacts
      <4> QED BY <4>1 DEF Struct
    <3> HIDE DEF Struct
    <3> QED BY <3>1, <3>2
  <2> QED BY <1>1, <2>1, CommitmentIs
<1>5. Owned'
  BY <1>1, <1>2, OwnedKept
<1>6. memory' \in 0 .. MaxGrowth /\ memory' \in Int
  BY <1>1, <1>2, GrowType
<1>7. TypeOK'
  BY <1>1, <1>2, <1>3, <1>4, <1>6 DEF TypeOK
<1>8. InCall'
  BY <1>1, <1>3, IdleFacts DEF InCall, InWrite, InDigest
<1>9. Resources'
  BY <1>1, IdleFacts DEF Resources
<1>10. WriteProgress' /\ Done'
  BY <1>1, <1>3 DEF Done, WriteProgress, InWrite
<1> QED
  BY <1>5, <1>7, <1>8, <1>9, <1>10 DEF Inv

-----------------------------------------------------------------------------
(* The steps of a write. *)

(* A step that leaves the hashers and the arguments alone. *)
LEMMA StepFrame ==
    ASSUME Inv, UNCHANGED <<structs, registry, ptr, life, self, method, input>>
    PROVE  /\ Owned' /\ Inner(self)' = Inner(self) /\ Inner(Local)' = Inner(Local)
           /\ Position' = Position /\ (Fits' <=> Fits)
           /\ (offset' = offset => ChunkLen' = ChunkLen)
PROOF
<1>1. Owned'
  BY OwnedKept DEF Inv
<1>2. Inner(self)' = Inner(self) /\ Inner(Local)' = Inner(Local)
  BY DEF Inner
<1>3. Position' = Position
  BY <1>2 DEF Position
<1>4. Fits' <=> Fits
  BY <1>2 DEF Fits
<1>5. offset' = offset => ChunkLen' = ChunkLen
  BY DEF ChunkLen
<1> QED
  BY <1>1, <1>2, <1>3, <1>4, <1>5

LEMMA NextChunkInv ==
    ASSUME Inv, NextChunk
    PROVE  Inv'
PROOF
<1>1. /\ pc = "chunk" /\ offset < input.len /\ MayGrow /\ pc' = "copy"
      /\ UNCHANGED <<structs, bytesView, dataView, registry, heap, heap_next, ptr, life,
                     outcome, answer, lost, self, method, input, offset, got, thrown, error>>
  BY DEF NextChunk, glue, slab, caller
<1>2. TypeOK /\ InCall /\ Resources /\ WriteProgress /\ Done
  BY DEF Inv
<1>3. stackPointer' = 16 /\ blocks' = lost' + 1
  <2>1. stackPointer = 0 /\ blocks = lost
    BY <1>1, <1>2 DEF Resources
  <2>2. stackPointer' = stackPointer + 16 /\ blocks' = blocks + 1 /\ lost' = lost
    BY <1>1 DEF NextChunk
  <2> QED BY <2>1, <2>2
<1>4. TypeOK'
  <2>1. memory' \in 0 .. MaxGrowth /\ lost' \in 0 .. MaxLost /\ blocks' \in lost' .. lost' + 1
    BY <1>1, <1>2, <1>3, GrowType, BlocksType
  <2> QED BY <1>1, <1>2, <1>3, <2>1 DEF TypeOK
<1>5. InCall'
  BY <1>1, <1>2 DEF InCall, InWrite, InDigest
<1>6. Resources'
  BY <1>1, <1>2, <1>3 DEF Resources
<1>7. WriteProgress'
  <2>1. thrown = 0
    BY <1>1, <1>2 DEF Resources
  <2> QED BY <1>1, <1>2, <2>1, StepFrame DEF WriteProgress, InWrite
<1>8. Done'
  BY <1>1, <1>2, StepFrame DEF Done, InDigest, Succeeded
<1> QED
  BY <1>1, <1>4, <1>5, <1>6, <1>7, <1>8, StepFrame DEF Inv

LEMMA MallocTrapsInv ==
    ASSUME Inv, MallocTraps
    PROVE  Inv'
PROOF
<1>1. /\ pc = "chunk" /\ pc' = "leave" /\ error' = "RuntimeError"
      /\ UNCHANGED <<structs, memory, stackPointer, blocks, bytesView, dataView, registry,
                     heap, heap_next, ptr, life, outcome, answer, lost, self, method, input,
                     offset, got, thrown>>
  BY DEF MallocTraps, wasm, glue, slab, caller
<1>2. TypeOK /\ InCall /\ Resources /\ WriteProgress /\ Done
  BY DEF Inv
<1>3. TypeOK'
  BY <1>1, <1>2 DEF TypeOK
<1>4. InCall'
  BY <1>1, <1>2 DEF InCall, InWrite, InDigest
<1>5. Resources'
  BY <1>1, <1>2 DEF Resources
<1>6. WriteProgress'
  BY <1>1 DEF WriteProgress, InWrite
<1>7. Done'
  BY <1>1, <1>2, StepFrame DEF Done, InCall, InWrite, InDigest, Succeeded
<1> QED
  BY <1>1, <1>3, <1>4, <1>5, <1>6, <1>7, StepFrame DEF Inv

(* A refreshed view is of the memory there is. *)
LEMMA CopyChunkInv ==
    ASSUME Inv, CopyChunk
    PROVE  Inv'
PROOF
<1>1. /\ pc = "copy" /\ pc' = "write" /\ bytesView' = memory
      /\ UNCHANGED <<structs, memory, stackPointer, blocks, dataView, registry,
                     heap, heap_next, ptr, life, outcome, answer, lost, self, method, input,
                     offset, got, thrown, error>>
  BY DEF CopyChunk, Refresh, slab, caller
<1>2. TypeOK /\ InCall /\ Resources /\ WriteProgress /\ Done
  BY DEF Inv
<1>3. TypeOK'
  BY <1>1, <1>2, TypeFacts DEF TypeOK
<1>4. InCall'
  BY <1>1, <1>2 DEF InCall, InWrite, InDigest
<1>5. Resources'
  BY <1>1, <1>2 DEF Resources
<1>6. WriteProgress'
  BY <1>1, <1>2, StepFrame DEF WriteProgress, InWrite
<1>7. Done'
  BY <1>1, <1>2, StepFrame DEF Done, InDigest, Succeeded
<1> QED
  BY <1>1, <1>3, <1>4, <1>5, <1>6, <1>7, StepFrame DEF Inv

LEMMA WriteDoneInv ==
    ASSUME Inv, WriteDone
    PROVE  Inv'
PROOF
<1>1. /\ pc = "chunk" /\ pc' = "leave" /\ offset >= input.len /\ method = "write"
      /\ UNCHANGED <<structs, memory, stackPointer, blocks, bytesView, dataView, registry,
                     heap, heap_next, ptr, life, outcome, answer, lost, self, method, input,
                     offset, got, thrown, error>>
  BY DEF WriteDone, wasm, glue, slab, caller
<1>2. TypeOK /\ InCall /\ Resources /\ WriteProgress /\ Done
  BY DEF Inv
<1>3. TypeOK'
  BY <1>1, <1>2 DEF TypeOK
<1>4. InCall'
  BY <1>1, <1>2 DEF InCall, InWrite, InDigest
<1>5. Resources'
  BY <1>1, <1>2 DEF Resources
<1>6. WriteProgress'
  BY <1>1 DEF WriteProgress, InWrite
<1>7. Done'
  <2>1. ~ (offset < input.len)
    BY <1>1, <1>2, TypeFacts
  <2>2. input.first >= Inner(self).base /\ Position = input.first + input.len
    BY <1>1, <1>2, <2>1 DEF WriteProgress, InWrite
  <2>3. error' = ""
    BY <1>1, <1>2 DEF InCall
  <2> QED BY <1>1, <2>2, <2>3, StepFrame DEF Done, InDigest, Succeeded
<1> QED
  BY <1>1, <1>3, <1>4, <1>5, <1>6, <1>7, StepFrame DEF Inv

(* The chunk Rust is given, in numbers. *)
LEMMA ChunkFacts ==
    ASSUME Inv, pc \in {"write", "check"}
    PROVE  /\ self \in Objects /\ ptr[self] # 0
           /\ input.first \in Nat /\ input.len \in Nat /\ offset \in Nat
           /\ ChunkLen \in Nat \ {0} /\ CHUNK_SIZE \in Nat \ {0}
           /\ offset + ChunkLen <= input.len
           /\ offset + ChunkLen = IF offset + CHUNK_SIZE < input.len
                                  THEN offset + CHUNK_SIZE ELSE input.len
           /\ input.first >= Inner(self).base
           /\ (Fits \/ offset = 0)
PROOF
<1>1. self \in Objects /\ ptr[self] # 0
  BY DEF Inv, InCall, InWrite, Objects
<1>2. /\ offset < input.len /\ (input.len <= CHUNK_SIZE /\ offset < input.len => offset = 0)
      /\ input.first >= Inner(self).base /\ (input.len <= CHUNK_SIZE \/ Fits)
  BY DEF Inv, WriteProgress, InWrite
<1>3. TypeOK
  BY DEF Inv
<1>4. input.first \in Nat /\ input.len \in Nat /\ offset \in Nat /\ CHUNK_SIZE \in Nat \ {0}
  BY <1>3, TypeFacts, LimitFacts
<1>5. ChunkLen = IF input.len - offset < CHUNK_SIZE THEN input.len - offset ELSE CHUNK_SIZE
  BY DEF ChunkLen
<1> DEFINE l == input.len
           c == ChunkLen
<1> HIDE DEF l, c
<1>6. l \in Nat /\ offset < l /\ c = IF l - offset < CHUNK_SIZE THEN l - offset ELSE CHUNK_SIZE
  BY <1>2, <1>4, <1>5 DEF l, c
<1>7. c \in Nat \ {0} /\ offset + c <= l
      /\ offset + c = IF offset + CHUNK_SIZE < l THEN offset + CHUNK_SIZE ELSE l
  BY <1>4, <1>6
<1> QED
  BY <1>1, <1>2, <1>4, <1>7 DEF l, c

LEMMA RustRefusesInv ==
    ASSUME Inv, RustWrite, Inner(self).size + ChunkLen > MAX_PAYLOAD_SIZE
    PROVE  Inv'
PROOF
<1>1. /\ pc = "write" /\ pc' = "check" /\ MayGrow /\ AddHeapObject(RangeErrorObject)
      /\ thrown' = heap_next /\ blocks' = blocks - 1
      /\ UNCHANGED <<structs, stackPointer, bytesView, dataView, registry, ptr, life,
                     outcome, answer, lost, self, method, input, offset, got, error>>
  BY DEF RustWrite, caller
<1>2. TypeOK /\ InCall /\ Resources /\ WriteProgress /\ Done
  BY DEF Inv
<1>3. heap_next = 1 /\ heap \in {<<>>, <<2>>} /\ thrown = 0
  BY <1>1, <1>2 DEF Resources
<1>4. blocks' = lost' /\ stackPointer = 16
  <2>1. blocks = lost + 1 /\ lost \in Nat /\ stackPointer = 16
    BY <1>1, <1>2, TypeFacts DEF Resources
  <2> QED BY <1>1, <2>1
<1>5. heap' = <<RangeErrorObject>> /\ heap_next' = 2 /\ thrown' = 1
  <2> DEFINE cells == IF heap_next > Len(heap) THEN Append(heap, Len(heap) + 2) ELSE heap
  <2>1. cells = <<2>>
    <3>1. CASE heap = <<>>
      <4>1. Len(heap) = 0 /\ Append(heap, 2) = <<2>>
        BY <3>1
      <4> QED BY <1>3, <4>1
    <3>2. CASE heap = <<2>>
      <4>1. Len(heap) = 1
        BY <3>2
      <4> QED BY <1>3, <3>2, <4>1
    <3> QED BY <1>3, <3>1, <3>2
  <2>2. heap' = [cells EXCEPT ![heap_next] = RangeErrorObject] /\ heap_next' = cells[heap_next]
    BY <1>1 DEF AddHeapObject
  <2> HIDE DEF cells
  <2>3. heap' = [<<2>> EXCEPT ![1] = RangeErrorObject] /\ heap_next' = <<2>>[1]
    BY <1>3, <2>1, <2>2
  <2> QED BY <1>1, <1>3, <2>3
<1>6. ~ Fits /\ offset = 0
  <2> DEFINE b == Inner(self).base
             n == Inner(self).size
             f == input.first
             l == input.len
             c == ChunkLen
  <2>1. /\ f \in Nat /\ l \in Nat /\ offset \in Nat /\ c \in Nat \ {0}
        /\ offset + c <= l /\ (Fits \/ offset = 0)
    BY <1>1, ChunkFacts
  <2>2. b \in Nat /\ n \in Nat /\ MAX_PAYLOAD_SIZE \in Nat
    BY <1>1, ChunkFacts, InnerFacts
  <2>3. b + n = f + (IF offset < l THEN offset ELSE l) /\ offset < l
    BY <1>1, <1>2 DEF WriteProgress, InWrite, Position
  <2>4. Fits <=> f - b + l <= MAX_PAYLOAD_SIZE
    BY DEF Fits
  <2>5. n + c > MAX_PAYLOAD_SIZE
    OBVIOUS
  <2> HIDE DEF b, n, f, l, c
  <2>6. ~ (f - b + l <= MAX_PAYLOAD_SIZE)
    BY <2>1, <2>2, <2>3, <2>5
  <2> QED BY <2>1, <2>4, <2>6
<1>7. TypeOK'
  <2>1. memory' \in 0 .. MaxGrowth /\ lost' \in 0 .. MaxLost /\ lost' \in lost' .. lost' + 1
    BY <1>1, <1>2, GrowType, BlocksType
  <2>2. heap' \in Seq(Nat) /\ heap_next' \in Nat /\ thrown' \in Nat
    BY <1>5 DEF RangeErrorObject
  <2> QED BY <1>1, <1>2, <1>4, <2>1, <2>2 DEF TypeOK
<1>8. InCall'
  <2>1. UNCHANGED <<ptr, self, method, input, error>> /\ pc = "write" /\ pc' = "check"
    BY <1>1
  <2> QED BY <1>2, <2>1 DEF InCall, InWrite, InDigest
<1>9. Resources'
  <2>1. stackPointer' = 16 /\ pc' = "check" /\ thrown' # 0
    BY <1>1, <1>4, <1>5
  <2> QED BY <1>4, <1>5, <2>1 DEF Resources
<1>10. WriteProgress'
  <2>1. thrown' # 0 /\ offset' = offset /\ pc' = "check"
    BY <1>1, <1>5
  <2> QED BY <1>1, <1>2, <1>6, <2>1, StepFrame DEF WriteProgress, InWrite
<1>11. Done'
  BY <1>1, <1>2, StepFrame DEF Done, InDigest, Succeeded
<1> QED
  BY <1>1, <1>7, <1>8, <1>9, <1>10, <1>11, StepFrame DEF Inv

LEMMA RustTakesInv ==
    ASSUME Inv, RustWrite, ~ (Inner(self).size + ChunkLen > MAX_PAYLOAD_SIZE)
    PROVE  Inv'
PROOF
<1> DEFINE old == Inner(self)
           s == [old EXCEPT !.size = old.size + ChunkLen,
                            !.intact = old.intact /\ input.first + offset = old.base + old.size]
<1>1. /\ pc = "write" /\ pc' = "check" /\ MayGrow /\ blocks' = blocks - 1
      /\ structs' = [structs EXCEPT ![ptr[self]] = s]
      /\ UNCHANGED <<heap, heap_next, thrown>>
      /\ UNCHANGED <<stackPointer, bytesView, dataView, registry, ptr, life,
                     outcome, answer, lost, self, method, input, offset, got, error>>
  BY DEF RustWrite, caller, slab
<1>2. TypeOK /\ Owned /\ InCall /\ Resources /\ WriteProgress /\ Done
  BY DEF Inv
<1>3. self \in Objects /\ ptr[self] # 0 /\ ptr[self] \in Pointers
      /\ old \in StructType /\ old # Freed /\ old.intact
      /\ old.base \in Nat /\ old.size \in Nat /\ MAX_PAYLOAD_SIZE \in Nat
  BY <1>1, ChunkFacts, InnerFacts
<1>4. /\ input.first \in Nat /\ input.len \in Nat /\ offset \in Nat /\ ChunkLen \in Nat \ {0}
      /\ input.first >= old.base /\ thrown = 0
  BY <1>1, <1>2, ChunkFacts DEF Resources
<1>5. old.base + old.size = input.first + offset
  <2>1. Position = input.first + offset
    BY <1>1, <1>2 DEF WriteProgress, InWrite
  <2> QED BY <2>1 DEF Position
<1>6. old.size + ChunkLen \in 0 .. MAX_PAYLOAD_SIZE
  BY <1>3, <1>4
<1>7. s \in StructType /\ s.base = old.base /\ s.size = old.size + ChunkLen /\ s.intact
  <2> HIDE DEF old
  <2>1. old.intact /\ input.first + offset = old.base + old.size
    BY <1>3, <1>5
  <2> QED BY <1>3, <1>6, <2>1 DEF StructType
<1> HIDE DEF s, old
<1>8. s # Freed
  <2>1. s.base \in Nat
    BY <1>3, <1>7
  <2>2. Freed.base = -1
    BY DEF Freed
  <2> QED BY <2>1, <2>2
<1>9. Owned'
  BY <1>1, <1>2, <1>3, <1>7, <1>8, UseOwned
<1>10. structs' \in [Pointers -> StructType]
  BY <1>1, <1>2, <1>3, <1>7, TypeFacts
<1>11. Inner(self)' = s /\ (self = Local => Inner(Local)' = s)
  BY <1>1, <1>2, <1>3, TypeFacts DEF Inner
<1>12. blocks' = lost' /\ stackPointer = 16
  <2>1. blocks = lost + 1 /\ lost \in Nat /\ stackPointer = 16
    BY <1>1, <1>2, TypeFacts DEF Resources
  <2> QED BY <1>1, <2>1
<1>13. TypeOK'
  <2>1. memory' \in 0 .. MaxGrowth /\ lost' \in 0 .. MaxLost /\ lost' \in lost' .. lost' + 1
    BY <1>1, <1>2, GrowType, BlocksType
  <2> QED BY <1>1, <1>2, <1>10, <1>12, <2>1 DEF TypeOK, StructType
<1>14. InCall'
  <2>1. UNCHANGED <<ptr, self, method, input, error>> /\ pc = "write" /\ pc' = "check"
    BY <1>1
  <2> QED BY <1>2, <2>1 DEF InCall, InWrite, InDigest
<1>15. Resources'
  BY <1>1, <1>2, <1>12 DEF Resources
<1>16. WriteProgress'
  <2>1. Position' = input.first + offset + ChunkLen
    <3>1. Position' = s.base + s.size
      BY <1>11 DEF Position
    <3>2. s.base + s.size = old.base + (old.size + ChunkLen)
      BY <1>7
    <3> QED BY <3>1, <3>2, <1>3, <1>4, <1>5
  <2>2. ChunkLen' = ChunkLen
    BY <1>1 DEF ChunkLen
  <2>3. Fits' <=> Fits
    BY <1>1, <1>7, <1>11 DEF Fits, old
  <2>4. Inner(self)'.base = Inner(self).base
    BY <1>7, <1>11 DEF old
  <2>5. UNCHANGED <<input, offset, thrown>> /\ thrown = 0 /\ pc = "write" /\ pc' = "check"
    BY <1>1, <1>4
  <2>6. self' = self
    BY <1>1
  <2> QED BY <1>2, <2>1, <2>2, <2>3, <2>4, <2>5, <2>6 DEF WriteProgress, InWrite
<1>17. Done'
  <2>1. method = "one-shot" => self = Local
    BY <1>2 DEF InCall
  <2>2. method = "one-shot" => Inner(Local)'.base = 0
    BY <1>2, <1>7, <1>11, <2>1 DEF Done, old
  <2>3. method \in {"write", "one-shot"}
    BY <1>1, <1>2 DEF InCall, InWrite
  <2>4. method' = method /\ pc' = "check"
    BY <1>1
  <2> QED BY <2>2, <2>3, <2>4 DEF Done, InDigest, Succeeded
<1> QED
  BY <1>9, <1>13, <1>14, <1>15, <1>16, <1>17 DEF Inv

LEMMA CheckWriteInv ==
    ASSUME Inv, CheckWrite
    PROVE  Inv'
PROOF
<1>1. /\ pc = "check" /\ dataView' = memory /\ stackPointer' = stackPointer - 16
      /\ offset' = offset + CHUNK_SIZE
      /\ UNCHANGED <<structs, memory, blocks, bytesView, registry, ptr, life,
                     outcome, answer, lost, self, method, input, got>>
      /\ IF thrown # 0
         THEN /\ error' = IF heap[thrown] = RangeErrorObject THEN "RangeError" ELSE "?"
              /\ TakeObject(thrown) /\ thrown' = 0
         ELSE UNCHANGED <<heap, heap_next, thrown, error>>
      /\ pc' = IF error' = "" THEN "chunk" ELSE "leave"
  BY DEF CheckWrite, Refresh, Advance, slab, caller
<1>2. TypeOK /\ InCall /\ Resources /\ WriteProgress /\ Done
  BY DEF Inv
<1>3. stackPointer' = 0 /\ blocks' = lost'
  <2>1. stackPointer = 16 /\ blocks = lost
    BY <1>1, <1>2 DEF Resources
  <2>2. stackPointer' = stackPointer - 16 /\ blocks' = blocks /\ lost' = lost
    BY <1>1
  <2> QED BY <2>1, <2>2
<1>4. offset \in Nat /\ CHUNK_SIZE \in Nat \ {0} /\ offset' \in Nat
  <2>1. offset \in Nat /\ CHUNK_SIZE \in Nat \ {0}
    BY <1>1, ChunkFacts
  <2>2. offset' = offset + CHUNK_SIZE
    BY <1>1
  <2> QED BY <2>1, <2>2
<1>5. error = "" /\ method \in {"write", "one-shot"}
  BY <1>1, <1>2 DEF InCall, InWrite
<1>6. CASE thrown # 0
  <2>1. thrown = 1 /\ heap = <<RangeErrorObject>> /\ heap_next = 2
    BY <1>2, <1>6 DEF Resources
  <2>2. heap[thrown] = RangeErrorObject
    BY <2>1
  <2>3. error' = "RangeError" /\ pc' = "leave" /\ thrown' = 0
    BY <1>1, <1>6, <2>2
  <2>4. heap' = <<2>> /\ heap_next' = 1
    <3>1. heap' = [<<RangeErrorObject>> EXCEPT ![1] = 2] /\ heap_next' = 1
      BY <1>1, <1>6, <2>1 DEF TakeObject
    <3> QED BY <3>1
  <2>5. TypeOK'
    <3>1. heap' \in Seq(Nat) /\ heap_next' \in Nat /\ thrown' \in Nat /\ dataView' \in Int
      BY <1>1, <1>2, <2>3, <2>4, TypeFacts
    <3> QED BY <1>1, <1>2, <1>3, <1>4, <2>3, <3>1 DEF TypeOK
  <2>6. InCall'
    <3>1. UNCHANGED <<ptr, self, method, input>> /\ pc = "check"
      BY <1>1
    <3> QED BY <1>2, <1>5, <2>3, <3>1 DEF InCall, InWrite, InDigest
  <2>7. Resources'
    BY <1>3, <2>3, <2>4 DEF Resources
  <2>8. WriteProgress'
    BY <2>3 DEF WriteProgress, InWrite
  <2>9. Done'
    <3>1. /\ input.first >= Inner(self).base /\ ~ Fits /\ offset = 0 /\ offset < input.len
          /\ Position = input.first + (IF offset < input.len THEN offset ELSE input.len)
      BY <1>1, <1>2, <1>6 DEF WriteProgress, InWrite
    <3>2. Position = input.first
      <4>1. input.first \in Nat
        BY <1>1, ChunkFacts
      <4> QED BY <3>1, <4>1
    <3>3. UNCHANGED <<method, self, input>>
      BY <1>1
    <3> QED BY <1>1, <1>2, <1>5, <2>3, <3>1, <3>2, <3>3, StepFrame DEF Done, InDigest, Succeeded
  <2> QED BY <1>1, <2>5, <2>6, <2>7, <2>8, <2>9, StepFrame DEF Inv
<1>7. CASE thrown = 0
  <2>1. error' = "" /\ pc' = "chunk" /\ UNCHANGED <<heap, heap_next, thrown>>
    BY <1>1, <1>5, <1>7
  <2>2. TypeOK'
    <3>1. dataView' \in Int
      BY <1>1, <1>2, TypeFacts
    <3> QED BY <1>1, <1>2, <1>3, <1>4, <2>1, <3>1 DEF TypeOK
  <2>3. InCall'
    <3>1. UNCHANGED <<ptr, self, method, input>> /\ pc = "check"
      BY <1>1
    <3> QED BY <1>2, <1>5, <2>1, <3>1 DEF InCall, InWrite, InDigest
  <2>4. Resources'
    BY <1>2, <1>3, <1>7, <2>1 DEF Resources
  <2>5. WriteProgress'
    <3> DEFINE l == input.len
               c == ChunkLen
               f == input.first
    <3>1. /\ f \in Nat /\ l \in Nat /\ c \in Nat
          /\ offset + c = IF offset + CHUNK_SIZE < l THEN offset + CHUNK_SIZE ELSE l
      BY <1>1, ChunkFacts
    <3>2. Position = f + offset + c
      BY <1>1, <1>2, <1>7 DEF WriteProgress, InWrite
    <3>3. f >= Inner(self).base /\ (l <= CHUNK_SIZE \/ Fits)
      BY <1>1, <1>2 DEF WriteProgress, InWrite
    <3> HIDE DEF l, c, f
    <3>4. Position = f + (IF offset' < l THEN offset' ELSE l)
          /\ (l <= CHUNK_SIZE /\ offset' < l => offset' = 0)
      <4>1. offset' = offset + CHUNK_SIZE
        BY <1>1
      <4>2. f + offset + c = f + (offset + c)
        BY <1>4, <3>1
      <4>3. offset + c = IF offset' < l THEN offset' ELSE l
        BY <3>1, <4>1
      <4>4. ~ (l <= CHUNK_SIZE /\ offset' < l)
        BY <1>4, <3>1, <4>1
      <4> QED BY <3>2, <4>2, <4>3, <4>4
    <3>5. input' = input /\ self' = self /\ thrown' = 0
      BY <1>1, <1>7, <2>1
    <3> QED BY <1>1, <2>1, <3>3, <3>4, <3>5, StepFrame DEF WriteProgress, InWrite, l, c, f
  <2>6. Done'
    BY <1>1, <1>2, <1>5, <2>1, StepFrame DEF Done, InDigest, Succeeded
  <2> QED BY <1>1, <2>2, <2>3, <2>4, <2>5, <2>6, StepFrame DEF Inv
<1> QED
  BY <1>6, <1>7

-----------------------------------------------------------------------------
(* The digest, and the end of a call. *)

LEMMA SameCommitment ==
    ASSUME UNCHANGED <<structs, ptr, self>>
    PROVE  Commitment(Inner(self))' = Commitment(Inner(self))
PROOF
  BY DEF Commitment, Inner

LEMMA OneShotWrittenInv ==
    ASSUME Inv, OneShotWritten
    PROVE  Inv'
PROOF
<1>1. /\ pc = "chunk" /\ offset >= input.len /\ method = "one-shot" /\ pc' = "hash"
      /\ stackPointer' = stackPointer + 16
      /\ UNCHANGED <<structs, memory, blocks, bytesView, dataView, registry, heap, heap_next,
                     ptr, life, outcome, answer, lost, self, method, input, offset, got, thrown,
                     error>>
  BY DEF OneShotWritten, EnterDigest, glue, slab, caller
<1>2. TypeOK /\ InCall /\ Resources /\ WriteProgress /\ Done
  BY DEF Inv
<1>3. stackPointer' = 16 /\ blocks = lost
  <2>1. stackPointer = 0 /\ blocks = lost
    BY <1>1, <1>2 DEF Resources
  <2>2. stackPointer' = stackPointer + 16
    BY <1>1
  <2> QED BY <2>1, <2>2
<1>4. TypeOK'
  BY <1>1, <1>2, <1>3 DEF TypeOK
<1>5. InCall'
  BY <1>1, <1>2 DEF InCall, InWrite, InDigest
<1>6. Resources'
  BY <1>1, <1>2, <1>3 DEF Resources
<1>7. WriteProgress'
  BY <1>1 DEF WriteProgress, InWrite
<1>8. Done'
  <2>1. self = Local /\ input.first = 0 /\ ptr[Local] # 0 /\ Local \in Objects
    BY <1>1, <1>2 DEF InCall, Objects
  <2>2. Inner(Local).base = 0
    BY <1>1, <1>2 DEF Done
  <2>3. Inner(Local).size = input.len
    <3> DEFINE n == Inner(Local).size
               l == input.len
    <3>1. ~ (offset < l) /\ l \in Nat
      BY <1>1, <1>2, TypeFacts
    <3>2. Position = input.first + (IF offset < l THEN offset ELSE l)
      BY <1>1, <1>2 DEF WriteProgress, InWrite
    <3>3. Position = Inner(Local).base + n /\ n \in Nat
      BY <2>1, InnerFacts DEF Position
    <3> HIDE DEF n, l
    <3>4. n = l
      BY <2>1, <2>2, <3>1, <3>2, <3>3
    <3> QED BY <3>4 DEF n, l
  <2> QED BY <1>1, <2>2, <2>3, StepFrame DEF Done, Succeeded
<1> QED
  BY <1>1, <1>4, <1>5, <1>6, <1>7, <1>8, StepFrame DEF Inv

LEMMA RustDigestInv ==
    ASSUME Inv, RustDigest
    PROVE  Inv'
PROOF
<1>1. /\ pc = "hash" /\ pc' = "read" /\ MayGrow /\ got' = Commitment(Inner(self))
      /\ blocks' = blocks + 1
      /\ UNCHANGED <<structs, stackPointer, bytesView, dataView, registry, heap, heap_next,
                     ptr, life, outcome, answer, lost, self, method, input, offset, thrown,
                     error>>
  BY DEF RustDigest, glue, slab, caller
<1>2. TypeOK /\ InCall /\ Resources /\ WriteProgress /\ Done
  BY DEF Inv
<1>3. blocks' = lost' + 1 /\ stackPointer = 16
  <2>1. blocks = lost /\ stackPointer = 16
    BY <1>1, <1>2 DEF Resources
  <2>2. blocks' = blocks + 1 /\ lost' = lost
    BY <1>1
  <2> QED BY <2>1, <2>2
<1>4. got' \in Answers
  <2>1. self \in Objects /\ ptr[self] # 0
    BY <1>1, <1>2 DEF InCall, InDigest, Objects
  <2>2. Inner(self) \in StructType
    BY <2>1, InnerFacts
  <2> QED BY <1>1, <2>2, CommitmentIs DEF StructType
<1>5. TypeOK'
  <2>1. memory' \in 0 .. MaxGrowth /\ lost' \in 0 .. MaxLost /\ blocks' \in lost' .. lost' + 1
    BY <1>1, <1>2, <1>3, GrowType, BlocksType
  <2> QED BY <1>1, <1>2, <1>3, <1>4, <2>1 DEF TypeOK
<1>6. InCall'
  BY <1>1, <1>2 DEF InCall, InWrite, InDigest
<1>7. Resources'
  BY <1>1, <1>2, <1>3 DEF Resources
<1>8. WriteProgress'
  BY <1>1 DEF WriteProgress, InWrite
<1>9. Done'
  <2>1. Commitment(Inner(self))' = Commitment(Inner(self))
    BY <1>1, SameCommitment
  <2>2. method \in {"digest", "one-shot"}
    BY <1>1, <1>2 DEF InCall, InDigest
  <2> QED BY <1>1, <1>2, <2>1, <2>2, StepFrame DEF Done, InDigest, Succeeded
<1> QED
  BY <1>1, <1>5, <1>6, <1>7, <1>8, <1>9, StepFrame DEF Inv

LEMMA ReadDigestInv ==
    ASSUME Inv, ReadDigest
    PROVE  Inv'
PROOF
<1>1. /\ pc = "read" /\ pc' = "leave" /\ dataView' = memory /\ bytesView' = memory
      /\ error' = "" /\ stackPointer' = stackPointer - 16 /\ blocks' = blocks - 1
      /\ UNCHANGED <<structs, memory, registry, heap, heap_next, ptr, life,
                     outcome, answer, lost, self, method, input, offset, got, thrown>>
  BY DEF ReadDigest, Refresh, slab, caller
<1>2. TypeOK /\ InCall /\ Resources /\ WriteProgress /\ Done
  BY DEF Inv
<1>3. stackPointer' = 0 /\ blocks' = lost'
  <2>1. blocks = lost + 1 /\ lost \in Nat /\ stackPointer = 16
    BY <1>1, <1>2, TypeFacts DEF Resources
  <2>2. stackPointer' = stackPointer - 16 /\ blocks' = blocks - 1 /\ lost' = lost
    BY <1>1
  <2> QED BY <2>1, <2>2
<1>4. TypeOK'
  <2>1. memory \in Int /\ lost' \in lost' .. lost' + 1
    BY <1>1, <1>2, TypeFacts, BlocksType
  <2> QED BY <1>1, <1>2, <1>3, <2>1 DEF TypeOK
<1>5. InCall'
  BY <1>1, <1>2 DEF InCall, InWrite, InDigest
<1>6. Resources'
  BY <1>1, <1>2, <1>3 DEF Resources
<1>7. WriteProgress'
  BY <1>1 DEF WriteProgress, InWrite
<1>8. Done'
  <2>1. Commitment(Inner(self))' = Commitment(Inner(self))
    BY <1>1, SameCommitment
  <2>2. method \in {"digest", "one-shot"}
    BY <1>1, <1>2 DEF InCall, InDigest
  <2> QED BY <1>1, <1>2, <2>1, <2>2, StepFrame DEF Done, InDigest, Succeeded
<1> QED
  BY <1>1, <1>4, <1>5, <1>6, <1>7, <1>8, StepFrame DEF Inv

(* A call that returns leaves the instance as it found it. *)
LEMMA EndInv ==
    ASSUME Inv, pc = "leave", EndCall, Owned', ptr'[Local] = 0,
           UNCHANGED <<memory, stackPointer, blocks, lost, bytesView, dataView, slab, life>>,
           structs' \in [Pointers -> StructType],
           registry' \in [Objects -> Pointers \cup {0}],
           ptr' \in [Objects -> Pointers \cup {0}],
           outcome' \in [Wrappers -> Outcomes], answer' \in [Wrappers -> Answers]
    PROVE  Inv'
PROOF
<1>1. /\ pc' = "idle" /\ self' = Local /\ method' = "" /\ input' = NoInput /\ offset' = 0
      /\ got' = NoAnswer /\ thrown' = 0 /\ error' = ""
  BY DEF EndCall
<1>2. TypeOK /\ Resources
  BY DEF Inv
<1>3. TypeOK'
  BY <1>1, <1>2, NoAnswerType DEF TypeOK, StructType, slab, Objects
<1>4. InCall'
  BY <1>1 DEF InCall, InWrite, InDigest
<1>5. Resources'
  <2>1. thrown = 0 /\ stackPointer = 0 /\ blocks = lost
    BY <1>2 DEF Resources
  <2> QED BY <1>1, <1>2, <2>1 DEF Resources, slab
<1>6. WriteProgress' /\ Done'
  BY <1>1 DEF WriteProgress, Done, InWrite
<1> QED
  BY <1>3, <1>4, <1>5, <1>6 DEF Inv

LEMMA LeaveInv ==
    ASSUME Inv, Leave \/ LeaveRoot \/ LeaveOneShot
    PROVE  Inv'
PROOF
<1>1. TypeOK /\ Owned /\ InCall /\ Local \in Objects
  BY DEF Inv, Objects
<1>2. CASE Leave
  <2>1. /\ pc = "leave" /\ method \in {"write", "digest"} /\ EndCall
        /\ UNCHANGED <<memory, stackPointer, blocks, lost, bytesView, dataView, slab, life,
                       structs, registry, ptr>>
    BY <1>2 DEF Leave, wasm, glue
  <2>2. self \in Wrappers /\ ptr[Local] = 0
    BY <1>1, <2>1 DEF InCall
  <2>3. outcome' \in [Wrappers -> Outcomes]
    <3>1. error \in Outcomes \/ error = ""
      BY <1>1 DEF TypeOK, Outcomes
    <3>2. outcome \in [Wrappers -> Outcomes] /\ "ok" \in Outcomes
      BY <1>1, TypeFacts DEF Outcomes
    <3>3. outcome' = [outcome EXCEPT ![self] =
                        IF error # "" THEN error
                        ELSE IF method = "write" THEN "ok" ELSE outcome[self]]
      BY <1>2 DEF Leave
    <3> QED BY <2>2, <3>1, <3>2, <3>3
  <2>4. answer' \in [Wrappers -> Answers]
    <3>1. answer \in [Wrappers -> Answers] /\ got \in Answers /\ NoAnswer \in Answers
      BY <1>1, TypeFacts, NoAnswerType
    <3>2. answer' = [answer EXCEPT ![self] =
                       IF method = "digest" THEN (IF error = "" THEN got ELSE answer[self])
                       ELSE IF input.len = 0 \/ error = "RangeError" THEN answer[self]
                       ELSE NoAnswer]
      BY <1>2 DEF Leave
    <3> QED BY <2>2, <3>1, <3>2
  <2>5. Owned'
    BY <1>1, <2>1, OwnedKept
  <2> QED BY <1>1, <2>1, <2>2, <2>3, <2>4, <2>5, TypeFacts, EndInv
<1>3. CASE LeaveRoot
  <2>1. /\ pc = "leave" /\ method = "root" /\ EndCall
        /\ UNCHANGED <<memory, stackPointer, blocks, bytesView, dataView, slab, life,
                       structs, registry, ptr, outcome, answer, lost>>
    BY <1>3 DEF LeaveRoot, wasm, glue, caller
  <2>2. Owned' /\ ptr[Local] = 0
    BY <1>1, <2>1, OwnedKept DEF InCall
  <2> QED BY <1>1, <2>1, <2>2, TypeFacts, EndInv
<1>4. CASE LeaveOneShot
  <2>1. /\ pc = "leave" /\ method = "one-shot" /\ EndCall /\ Free(Local)
        /\ UNCHANGED <<memory, stackPointer, blocks, bytesView, dataView, slab, life,
                       outcome, answer, lost>>
    BY <1>4 DEF LeaveOneShot, caller
  <2>2. ptr[Local] # 0
    BY <1>1, <2>1 DEF InCall
  <2>3. Owned'
    BY <1>1, <2>1, <2>2, FreeOwned
  <2> QED BY <1>1, <2>1, <2>3, FreeType, TypeFacts, EndInv
<1> QED
  BY <1>2, <1>3, <1>4

LEMMA WasmInit ==
    ASSUME Init PROVE Inv
PROOF
<1>1. /\ structs = [p \in Pointers |-> Freed] /\ memory = 0 /\ stackPointer = 0
      /\ blocks = 0 /\ heap = <<>> /\ heap_next = 1
      /\ bytesView = -1 /\ dataView = -1 /\ registry = [w \in Objects |-> 0]
      /\ ptr = [w \in Objects |-> 0] /\ life = [w \in Objects |-> "new"]
      /\ outcome = [w \in Wrappers |-> "ok"] /\ answer = [w \in Wrappers |-> NoAnswer]
      /\ lost = 0
      /\ pc = "idle" /\ self = Local /\ method = "" /\ input = NoInput /\ offset = 0
      /\ got = NoAnswer /\ thrown = 0 /\ error = ""
  BY DEF Init
<1>2. TypeOK
  <2>1. Freed \in [base : Int, size : 0 .. MAX_PAYLOAD_SIZE, intact : BOOLEAN]
    <3>1. 0 \in 0 .. MAX_PAYLOAD_SIZE
      BY LimitFacts
    <3> QED BY <3>1 DEF Freed
  <2>2. 0 \in 0 .. MaxGrowth /\ 0 \in 0 .. MaxLost /\ -1 \in Int /\ 0 \in 0 .. 0 + 1
    BY WasmAssumption
  <2>3. heap \in Seq(Nat)
    <3>1. heap = <<>>
      BY <1>1
    <3> QED BY <3>1
  <2> HIDE DEF Freed
  <2> QED BY <1>1, <2>1, <2>2, <2>3, NoAnswerType DEF TypeOK, Outcomes, Objects
<1>3. Owned
  BY <1>1 DEF Owned, PointersOwned, PayloadInOrder, Allocated, Objects
<1>4. InCall
  BY <1>1 DEF InCall, InWrite, InDigest, Objects
<1>5. Resources
  BY <1>1 DEF Resources
<1>6. WriteProgress /\ Done
  BY <1>1 DEF WriteProgress, Done, InWrite
<1> QED
  BY <1>2, <1>3, <1>4, <1>5, <1>6 DEF Inv

LEMMA WasmStep ==
    ASSUME Inv, [Next]_vars PROVE Inv'
PROOF
<1>1. CASE UNCHANGED vars
  <2>1. UNCHANGED <<structs, memory, stackPointer, blocks, bytesView, dataView, registry, heap,
                    heap_next, ptr, life, outcome, answer, lost, pc, self, method, input, offset,
                    got, thrown, error>>
    BY <1>1 DEF vars, wasm, glue, slab, caller, call
  <2>2. TypeOK' /\ InCall' /\ Resources'
    BY <2>1 DEF Inv, TypeOK, InCall, Resources, InWrite, InDigest
  <2>3. WriteProgress'
    BY <2>1, StepFrame DEF Inv, WriteProgress, InWrite
  <2>4. Done'
    <3>1. Commitment(Inner(self))' = Commitment(Inner(self))
      BY <2>1, SameCommitment
    <3> QED BY <2>1, <3>1, StepFrame DEF Inv, Done, InDigest, Succeeded
  <2> QED BY <2>1, <2>2, <2>3, <2>4, StepFrame DEF Inv
<1>2. ASSUME NEW w \in Wrappers, NEW len \in WriteSizes,
             \/ WriteRefused(w, len) \/ BeginWrite(w, len)
             \/ WriteDisposed(w, len) \/ WriteDisposedTraps(w, len)
      PROVE  Inv'
  BY <1>2, WriteRefusedInv, BeginWriteInv, WriteDisposedInv, WriteDisposedTrapsInv
<1>3. ASSUME NEW w \in Wrappers, BeginDigest(w) \/ Reset(w) PROVE Inv'
  BY <1>3, BeginDigestInv, ResetInv
<1>4. ASSUME NEW len \in WriteSizes, BeginOneShot(len) \/ RootOfChunk(len) PROVE Inv'
  BY <1>4, BeginOneShotInv, RootOfChunkInv
<1>5. CASE CallStep
  BY <1>5, NextChunkInv, MallocTrapsInv, CopyChunkInv, RustTakesInv, RustRefusesInv,
     CheckWriteInv, WriteDoneInv, OneShotWrittenInv, RustDigestInv, ReadDigestInv, LeaveInv
     DEF CallStep
<1> QED
  BY <1>1, <1>2, <1>3, <1>4, <1>5, BetweenCalls DEF Next

(* The inductive invariant: who owns which pointer, what a call holds, and *)
(* how far it has come.                                                    *)
THEOREM WasmInductive == Spec => []Inv
PROOF
<1>1. Init => Inv
  BY WasmInit
<1>2. Inv /\ [Next]_vars => Inv'
  BY WasmStep
<1> QED
  BY <1>1, <1>2, PTL DEF Spec

-----------------------------------------------------------------------------
(* The theorems. *)

(* Every state has the types TypeOK gives; no call ends in the TypeError   *)
(* of a view whose buffer is gone, however often the memory grows          *)
(* (commp_bg.js 26-45).                                                    *)
THEOREM WasmTypeOK == Spec => []TypeOK
PROOF
<1>1. Inv => TypeOK
  BY DEF Inv
<1> QED
  BY <1>1, WasmInductive, PTL

(* A pointer is an allocated struct of one wrapper, and its finalizer      *)
(* frees exactly that (commp_bg.js 83-109).                                *)
THEOREM WasmPointersOwned == Spec => []PointersOwned
PROOF
<1>1. Inv => PointersOwned
  BY DEF Inv, Owned
<1> QED
  BY <1>1, WasmInductive, PTL

(* Between calls the shadow stack, the one-shot hasher and the slab are as *)
(* they were, and the only buffers left are one for each write of bytes on *)
(* a hasher already freed (api.js 171-178, 199-207, commp_bg.js 6-19,      *)
(* 151-190).                                                               *)
THEOREM WasmCallsCleanUp == Spec => []CallsCleanUp
PROOF
<1>1. ASSUME Inv, pc = "idle"
      PROVE  /\ stackPointer = 0 /\ blocks = lost /\ ptr[Local] = 0
             /\ heap_next = 1 /\ heap \in {<<>>, <<2>>}
  BY <1>1, IdleFacts
<1>2. Inv => CallsCleanUp
  BY <1>1 DEF CallsCleanUp
<1> QED
  BY <1>2, WasmInductive, PTL

(* A hasher holds a prefix of what it was given, in order, whatever chunk  *)
(* trapped (api.js 64-81).                                                 *)
THEOREM WasmPayloadInOrder == Spec => []PayloadInOrder
PROOF
<1>1. Inv => PayloadInOrder
  BY DEF Inv, Owned
<1> QED
  BY <1>1, WasmInductive, PTL

(* The answer of a one-shot call is the commitment of the whole payload,   *)
(* in however many chunks Rust took it, and a wrapper's digest is that of  *)
(* what its hasher has taken in since its reset (api.js 89-107, 171-208).  *)
THEOREM WasmReply == Spec => []ReplyIsCommitment
PROOF
<1>1. ASSUME Inv, pc = "leave", method \in {"one-shot", "root"}, error = ""
      PROVE  IsCommitment(got, 0, input.len)
  <2>1. CASE method = "one-shot"
    <3>1. self = Local /\ ptr[Local] # 0 /\ Local \in Objects
      BY <1>1, <2>1 DEF Inv, InCall, Objects
    <3>2. Inner(Local).base = 0 /\ Inner(Local).size = input.len
          /\ got = Commitment(Inner(Local))
      BY <1>1, <2>1, <3>1 DEF Inv, Done, Succeeded
    <3>3. IsCommitment(Commitment(Inner(Local)), Inner(Local).base, Inner(Local).size)
      BY <1>1, <3>1, InnerFacts, CommitmentIs DEF StructType
    <3> QED BY <3>2, <3>3
  <2>2. CASE method = "root"
    <3> DEFINE s == [Struct(0) EXCEPT !.size = input.len]
    <3>1. got = Commitment(s) /\ input.len \in 0 .. MAX_PAYLOAD_SIZE
      BY <1>1, <2>2, LimitFacts DEF Inv, Done, InCall
    <3>2. s \in [base : Int, size : 0 .. MAX_PAYLOAD_SIZE, intact : BOOLEAN]
          /\ s.base = 0 /\ s.size = input.len /\ s.intact
      <4>1. Struct(0) \in [base : Int, size : 0 .. MAX_PAYLOAD_SIZE, intact : BOOLEAN]
            /\ Struct(0).base = 0 /\ Struct(0).intact
        <5>1. 0 \in 0 .. MAX_PAYLOAD_SIZE
          BY LimitFacts
        <5> QED BY <5>1 DEF Struct
      <4> HIDE DEF Struct
      <4> QED BY <3>1, <4>1
    <3> HIDE DEF s
    <3> QED BY <3>1, <3>2, CommitmentIs
  <2> QED BY <1>1, <2>1, <2>2
<1>2. ASSUME Inv, pc = "leave", method = "digest", error = ""
      PROVE  IsCommitment(got, Inner(self).base, Inner(self).size)
  <2>1. self \in Objects /\ ptr[self] # 0
    BY <1>2 DEF Inv, InCall, Objects
  <2>2. got = Commitment(Inner(self))
    BY <1>2 DEF Inv, Done, Succeeded
  <2>3. Inner(self) \in StructType /\ Inner(self).intact
    BY <1>2, <2>1, InnerFacts
  <2> QED BY <2>2, <2>3, CommitmentIs DEF StructType
<1>3. Inv => ReplyIsCommitment
  BY <1>1, <1>2 DEF ReplyIsCommitment
<1> QED
  BY <1>3, WasmInductive, PTL

-----------------------------------------------------------------------------
(* Each hasher keeps the promise of PieceCommitment. *)

LEMMA PieceStutter ==
    ASSUME NEW w \in Wrappers, Inner(w)'.base = Inner(w).base, Written(w)' = Written(w),
           outcome'[w] = outcome[w], answer'[w] = answer[w]
    PROVE  [Piece(w)!Next]_(Piece(w)!vars)
PROOF
  BY DEF Piece!vars

LEMMA PieceAccept ==
    ASSUME NEW w \in Wrappers, NEW len \in WriteSizes,
           Inner(w)'.base = Inner(w).base, Written(w)' = Written(w) + len,
           Written(w) + len <= MAX_PAYLOAD_SIZE, outcome'[w] = "ok",
           answer'[w] = IF len = 0 THEN answer[w] ELSE NoAnswer
    PROVE  [Piece(w)!Next]_(Piece(w)!vars)
PROOF
<1>1. Piece(w)!Accept(len)
  BY DEF Piece!Accept, Piece!NoAnswer, NoAnswer, Piece!Junk, Junk, Piece!Extent, Extent
<1> QED
  BY <1>1 DEF Piece!Next

LEMMA PieceRefuse ==
    ASSUME NEW w \in Wrappers, NEW len \in WriteSizes,
           Inner(w)'.base = Inner(w).base, Written(w)' = Written(w),
           Written(w) + len > MAX_PAYLOAD_SIZE, outcome'[w] = "RangeError",
           answer'[w] = answer[w]
    PROVE  [Piece(w)!Next]_(Piece(w)!vars)
PROOF
<1>1. Piece(w)!Refuse(len)
  BY DEF Piece!Refuse
<1> QED
  BY <1>1 DEF Piece!Next

LEMMA PieceAnswer ==
    ASSUME Inv, NEW w \in Wrappers, ptr[w] # 0, Written(w) = Inner(w).size,
           Inner(w)' = Inner(w), Written(w)' = Written(w), outcome'[w] = outcome[w],
           answer'[w] = Commitment(Inner(w))
    PROVE  [Piece(w)!Next]_(Piece(w)!vars)
PROOF
<1> DEFINE s == Inner(w)
<1>1. w \in Objects
  BY DEF Objects
<1>2. s \in [base : Int, size : 0 .. MAX_PAYLOAD_SIZE, intact : BOOLEAN] /\ s.intact
  BY <1>1, InnerFacts DEF StructType
<1> HIDE DEF s
<1>3. IsCommitment(Commitment(s), s.base, s.size)
  BY <1>2, CommitmentIs
<1>4. PICK k \in 0 .. MAX_LEVEL :
         Commitment(s) = [padding |-> Q * Pow[k] - s.size, height |-> k + 2,
                          root |-> IF s.size = 0 THEN Zero(k + 2)
                                   ELSE Extent(k + 2, 2 * s.base, 2 * (s.base + s.size))]
  BY <1>2, CommitmentForm DEF CommitmentAt
<1>5. Piece(w)!Q = Q /\ Piece(w)!Zero(k + 2) = Zero(k + 2)
      /\ (\A a, b, c : Piece(w)!Extent(a, b, c) = Extent(a, b, c))
      /\ (\A a, b, c : Piece(w)!IsCommitment(a, b, c) = IsCommitment(a, b, c))
  BY DEF Piece!Q, Q, Piece!Zero, Zero, Piece!Extent, Extent, Piece!IsCommitment, IsCommitment
<1>6. Piece(w)!Answer
  BY <1>3, <1>4, <1>5 DEF Piece!Answer, s
<1> QED
  BY <1>6 DEF Piece!Next

LEMMA PieceRestart ==
    ASSUME NEW w \in Wrappers, Inner(w).base + Written(w) <= MaxBase,
           Inner(w)'.base = Inner(w).base + Written(w), Written(w)' = 0,
           outcome'[w] = "ok", answer'[w] = NoAnswer
    PROVE  [Piece(w)!Next]_(Piece(w)!vars)
PROOF
<1>1. Piece(w)!Restart
  BY DEF Piece!Restart, Piece!NoAnswer, NoAnswer, Piece!Junk, Junk, Piece!Extent, Extent
<1> QED
  BY <1>1 DEF Piece!Next

(* Another hasher's allocation or release is none of this one's business. *)
LEMMA OthersKept ==
    ASSUME TypeOK, Owned, NEW w \in Objects, NEW v \in Objects, ptr[w] # 0, v # w,
           (New(v) /\ ptr[v] = 0) \/ (Free(v) /\ ptr[v] # 0)
    PROVE  Inner(w)' = Inner(w) /\ ptr'[w] = ptr[w]
PROOF
<1>1. ptr[w] \in Pointers /\ structs[ptr[w]] # Freed
  BY DEF TypeOK, Owned, PointersOwned, Inner
<1>2. CASE New(v) /\ ptr[v] = 0
  <2>1. PICK p \in Pointers : /\ structs[p] = Freed
                              /\ structs' = [structs EXCEPT ![p] = Struct(0)]
                              /\ ptr' = [ptr EXCEPT ![v] = p]
    BY <1>2 DEF New
  <2>2. p # ptr[w]
    BY <1>1, <2>1
  <2> QED BY <1>1, <2>1, <2>2, TypeFacts DEF Inner
<1>3. CASE Free(v) /\ ptr[v] # 0
  <2>1. ptr[v] # ptr[w]
    BY <1>3 DEF Owned, PointersOwned
  <2> QED BY <1>1, <1>3, <2>1, TypeFacts DEF Free, Inner
<1> QED
  BY <1>2, <1>3

LEMMA PieceOutside ==
    ASSUME Inv, NEW w \in Wrappers, ptr[w] # 0, pc = "idle", UNCHANGED call,
           Inner(w)' = Inner(w), outcome'[w] = outcome[w], answer'[w] = answer[w]
    PROVE  [Piece(w)!Next]_(Piece(w)!vars)
PROOF
<1>1. method' = method /\ self' = self /\ input' = input
  BY DEF call
<1>2. Written(w)' = Written(w)
  BY <1>1 DEF Written
<1> QED
  BY <1>2, PieceStutter

LEMMA PieceBetween ==
    ASSUME Inv, NEW w \in Wrappers, ptr[w] # 0, ptr'[w] # 0, NEW v \in Wrappers,
           Create(v) \/ Dispose(v) \/ CallDisposed(v) \/ Drop(v) \/ Finalize(v)
    PROVE  [Piece(w)!Next]_(Piece(w)!vars)
PROOF
<1>1. pc = "idle" /\ UNCHANGED call /\ answer' = answer
  BY DEF Create, Dispose, CallDisposed, Disposed, Drop, Finalize, caller
<1>2. v \in Objects /\ w \in Objects /\ TypeOK /\ Owned
  BY DEF Inv, Objects
<1>3. CASE Create(v)
  <2>1. New(v) /\ ptr[v] = 0 /\ outcome' = outcome
    BY <1>2, <1>3 DEF Create, caller, Owned, Allocated
  <2>2. v # w
    BY <2>1
  <2>3. Inner(w)' = Inner(w)
    BY <1>2, <2>1, <2>2, OthersKept
  <2> QED BY <1>1, <2>1, <2>3, PieceOutside
<1>4. CASE Dispose(v) \/ Finalize(v)
  <2>1. Free(v) /\ ptr[v] # 0 /\ outcome' = outcome
    BY <1>2, <1>4 DEF Dispose, Finalize, Free, caller, Owned, PointersOwned
  <2>2. v # w
    BY <1>2, <2>1, FreeType
  <2>3. Inner(w)' = Inner(w)
    BY <1>2, <2>1, <2>2, OthersKept
  <2> QED BY <1>1, <2>1, <2>3, PieceOutside
<1>5. CASE CallDisposed(v)
  <2>1. v # w /\ UNCHANGED <<structs, ptr>>
    BY <1>5 DEF CallDisposed, Disposed, wasm
  <2>2. outcome'[w] = outcome[w]
    BY <1>2, <1>5, <2>1, TypeFacts DEF CallDisposed
  <2> QED BY <1>1, <2>1, <2>2, PieceOutside DEF Inner
<1>6. CASE Drop(v)
  <2>1. UNCHANGED <<structs, ptr, outcome>>
    BY <1>6 DEF Drop, wasm, caller
  <2> QED BY <1>1, <2>1, PieceOutside DEF Inner
<1> QED
  BY <1>3, <1>4, <1>5, <1>6

LEMMA PieceWriteDisposed ==
    ASSUME Inv, NEW w \in Wrappers, ptr[w] # 0, NEW v \in Wrappers,
           \E len \in WriteSizes : WriteDisposed(v, len) \/ WriteDisposedTraps(v, len)
    PROVE  [Piece(w)!Next]_(Piece(w)!vars)
PROOF
<1>1. /\ pc = "idle" /\ ptr[v] = 0 /\ UNCHANGED <<call, structs, ptr, answer>>
      /\ outcome' \in {[outcome EXCEPT ![v] = end] : end \in {"Error", "RuntimeError"}}
  BY DEF WriteDisposed, WriteDisposedTraps, Disposed, wasm
<1>2. v # w /\ TypeOK
  BY <1>1 DEF Inv
<1>3. outcome'[w] = outcome[w]
  BY <1>1, <1>2, TypeFacts
<1> QED
  BY <1>1, <1>3, PieceOutside DEF Inner

(* A write that is refused, and a reset. *)
LEMMA PieceAtOnce ==
    ASSUME Inv, NEW w \in Wrappers, ptr[w] # 0, NEW v \in Wrappers,
           Reset(v) \/ \E len \in WriteSizes : WriteRefused(v, len)
    PROVE  [Piece(w)!Next]_(Piece(w)!vars)
PROOF
<1>1. pc = "idle" /\ UNCHANGED call /\ UNCHANGED ptr /\ ptr[v] # 0
  BY DEF Reset, WriteRefused, Usable
<1>2. v \in Objects /\ w \in Objects /\ TypeOK /\ Owned
  BY DEF Inv, Objects
<1>3. method = "" /\ method' = ""
  BY <1>1, IdleFacts DEF call
<1>4. Written(w) = Inner(w).size /\ Written(w)' = Inner(w)'.size
  BY <1>3 DEF Written
<1>5. ASSUME NEW len \in WriteSizes, WriteRefused(v, len)
      PROVE  [Piece(w)!Next]_(Piece(w)!vars)
  <2>1. UNCHANGED <<structs, answer>> /\ Inner(w)' = Inner(w)
    BY <1>1, <1>5 DEF WriteRefused, wasm, Inner
  <2>2. CASE v = w
    <3>1. outcome'[w] = "RangeError"
      BY <1>2, <1>5, <2>2, TypeFacts DEF WriteRefused
    <3>2. Inner(w).size + len > MAX_PAYLOAD_SIZE
      BY <1>5, <2>2 DEF WriteRefused, TooLong
    <3> QED BY <1>4, <2>1, <3>1, <3>2, PieceRefuse
  <2>3. CASE v # w
    <3>1. outcome'[w] = outcome[w]
      BY <1>2, <1>5, <2>3, TypeFacts DEF WriteRefused
    <3> QED BY <1>4, <2>1, <3>1, PieceStutter
  <2> QED BY <2>2, <2>3
<1>6. CASE Reset(v)
  <2> DEFINE s == Struct(Inner(v).base + Inner(v).size)
  <2>1. /\ structs' = [structs EXCEPT ![ptr[v]] = s]
        /\ outcome' = [outcome EXCEPT ![v] = "ok"] /\ answer' = [answer EXCEPT ![v] = NoAnswer]
        /\ Inner(v).base + Inner(v).size <= MaxBase
    BY <1>6 DEF Reset
  <2>2. ptr[v] \in Pointers /\ ptr[w] \in Pointers
    BY <1>1, <1>2, InnerFacts
  <2>3. CASE v = w
    <3>1. Inner(w)' = s
      BY <1>1, <1>2, <2>1, <2>2, <2>3, TypeFacts DEF Inner
    <3>2. s.base = Inner(w).base + Inner(w).size /\ s.size = 0
      BY <2>3 DEF Struct
    <3> HIDE DEF s
    <3>3. outcome'[w] = "ok" /\ answer'[w] = NoAnswer
      BY <1>2, <2>1, <2>3, TypeFacts
    <3>4. Inner(w).base + Inner(w).size <= MaxBase
      BY <2>1, <2>3
    <3> QED BY <1>4, <3>1, <3>2, <3>3, <3>4, PieceRestart
  <2>4. CASE v # w
    <3>1. ptr[v] # ptr[w]
      BY <1>1, <1>2, <2>4 DEF Owned, PointersOwned
    <3>2. Inner(w)' = Inner(w)
      BY <1>1, <1>2, <2>1, <2>2, <3>1, TypeFacts DEF Inner
    <3>3. outcome'[w] = outcome[w] /\ answer'[w] = answer[w]
      BY <1>2, <2>1, <2>4, TypeFacts
    <3> QED BY <1>4, <3>2, <3>3, PieceStutter
  <2> QED BY <2>3, <2>4
<1> QED
  BY <1>5, <1>6

LEMMA PieceBegins ==
    ASSUME Inv, NEW w \in Wrappers, ptr[w] # 0,
           \/ \E v \in Wrappers : BeginDigest(v) \/ \E len \in WriteSizes : BeginWrite(v, len)
           \/ \E len \in WriteSizes : BeginOneShot(len) \/ RootOfChunk(len)
    PROVE  [Piece(w)!Next]_(Piece(w)!vars)
PROOF
<1>1. pc = "idle" /\ UNCHANGED <<outcome, answer>>
  BY DEF BeginDigest, Usable, BeginWrite, BeginOneShot, RootOfChunk, caller
<1>2. w \in Objects /\ TypeOK /\ Owned /\ Local \in Objects /\ w # Local
  BY LimitFacts DEF Inv, Objects
<1>3. Written(w) = Inner(w).size /\ ptr[Local] = 0
  BY <1>1, IdleFacts DEF Written
<1>4. ASSUME NEW v \in Wrappers, NEW len \in WriteSizes, BeginWrite(v, len)
      PROVE  [Piece(w)!Next]_(Piece(w)!vars)
  <2>1. Inner(w)' = Inner(w)
    BY <1>4 DEF BeginWrite, wasm, Inner
  <2>2. self' = v /\ method' = "write" /\ input'.first = Inner(v).base + Inner(v).size
    BY <1>4 DEF BeginWrite
  <2>3. CASE v = w
    <3> DEFINE b == Inner(w).base
               n == Inner(w).size
    <3>1. b \in Nat /\ n \in Nat
      BY <1>2, InnerFacts
    <3>2. input'.first = b + n
      BY <2>2, <2>3
    <3>3. Written(w)' = input'.first - Inner(w)'.base
      BY <2>2, <2>3 DEF Written
    <3>4. Written(w)' = (b + n) - b
      BY <2>1, <3>2, <3>3
    <3> HIDE DEF b, n
    <3>5. Written(w)' = n
      BY <3>1, <3>4
    <3>6. Written(w)' = Written(w)
      BY <1>3, <3>5 DEF n
    <3> QED BY <1>1, <2>1, <3>6, PieceStutter
  <2>4. CASE v # w
    <3>1. Written(w)' = Inner(w)'.size
      BY <2>2, <2>4 DEF Written
    <3> QED BY <1>1, <1>3, <2>1, <3>1, PieceStutter
  <2> QED BY <2>3, <2>4
<1>5. CASE \/ \E v \in Wrappers : BeginDigest(v)
           \/ \E len \in WriteSizes : BeginOneShot(len) \/ RootOfChunk(len)
  <2>1. Inner(w)' = Inner(w)
    <3>1. CASE \E len \in WriteSizes : BeginOneShot(len)
      <4>1. New(Local)
        BY <3>1 DEF BeginOneShot
      <4> QED BY <1>2, <1>3, <4>1, OthersKept
    <3>2. CASE \/ \E v \in Wrappers : BeginDigest(v)
               \/ \E len \in WriteSizes : RootOfChunk(len)
      BY <3>2 DEF BeginDigest, RootOfChunk, Inner
    <3> QED BY <1>5, <3>1, <3>2
  <2>2. method' # "write"
    BY <1>5 DEF BeginDigest, BeginOneShot, RootOfChunk
  <2>3. Written(w)' = Inner(w)'.size
    BY <2>2 DEF Written
  <2> QED BY <1>1, <1>3, <2>1, <2>3, PieceStutter
<1> QED
  BY <1>4, <1>5

(* Inside a call nothing is promised yet: Written stands still. *)
LEMMA PieceInside ==
    ASSUME Inv, NEW w \in Wrappers, ptr[w] # 0,
           \/ NextChunk \/ MallocTraps \/ CopyChunk \/ RustWrite \/ CheckWrite \/ WriteDone
           \/ OneShotWritten \/ RustDigest \/ ReadDigest
    PROVE  [Piece(w)!Next]_(Piece(w)!vars)
PROOF
<1>1. UNCHANGED <<outcome, answer, self, method, input, ptr>>
  BY DEF NextChunk, MallocTraps, CopyChunk, RustWrite, CheckWrite, WriteDone, OneShotWritten,
         RustDigest, ReadDigest, caller
<1>2. w \in Objects /\ TypeOK /\ Owned
  BY DEF Inv, Objects
<1>3. CASE structs' = structs
  <2>1. Inner(w)' = Inner(w)
    BY <1>1, <1>3 DEF Inner
  <2>2. Written(w)' = Written(w)
    BY <1>1, <2>1 DEF Written
  <2> QED BY <1>1, <2>1, <2>2, PieceStutter
<1>4. CASE structs' # structs
  <2>1. RustWrite /\ pc = "write"
    BY <1>4 DEF NextChunk, MallocTraps, CopyChunk, RustWrite, CheckWrite, WriteDone,
                OneShotWritten, RustDigest, ReadDigest, wasm
  <2>2. self \in Objects /\ ptr[self] # 0 /\ ptr[self] \in Pointers /\ ptr[w] \in Pointers
        /\ Inner(self) \in StructType
    BY <1>2, <2>1, ChunkFacts, InnerFacts
  <2> DEFINE s == [Inner(self) EXCEPT !.size = Inner(self).size + ChunkLen,
                      !.intact = Inner(self).intact
                                 /\ input.first + offset = Inner(self).base + Inner(self).size]
  <2>3. structs' = [structs EXCEPT ![ptr[self]] = s]
    BY <1>4, <2>1 DEF RustWrite
  <2>4. s.base = Inner(self).base
    BY <2>2 DEF StructType
  <2> HIDE DEF s
  <2>5. CASE self = w
    <3>1. Inner(w)'.base = Inner(w).base
      BY <1>1, <1>2, <2>2, <2>3, <2>4, <2>5, TypeFacts DEF Inner
    <3>2. method = "write"
      BY <2>1, <2>5, LimitFacts DEF Inv, InCall, InWrite
    <3>3. Written(w)' = Written(w)
      BY <1>1, <2>5, <3>1, <3>2 DEF Written
    <3> QED BY <1>1, <3>1, <3>3, PieceStutter
  <2>6. CASE self # w
    <3>1. ptr[self] # ptr[w]
      BY <1>2, <2>2, <2>6 DEF Owned, PointersOwned
    <3>2. Inner(w)' = Inner(w)
      BY <1>1, <1>2, <2>2, <2>3, <3>1, TypeFacts DEF Inner
    <3>3. Written(w)' = Written(w)
      BY <1>1, <2>6, <3>2 DEF Written
    <3> QED BY <1>1, <3>2, <3>3, PieceStutter
  <2> QED BY <2>5, <2>6
<1> QED
  BY <1>3, <1>4

(* The return of a write. *)
LEMMA PieceWritten ==
    ASSUME Inv, NEW w \in Wrappers, ptr[w] # 0, pc = "leave", method = "write", self = w,
           error # "RuntimeError", Leave
    PROVE  [Piece(w)!Next]_(Piece(w)!vars)
PROOF
<1> DEFINE b == Inner(w).base
           n == Inner(w).size
           f == input.first
           l == input.len
<1>1. w \in Objects /\ TypeOK /\ UNCHANGED <<structs, ptr>> /\ l \in WriteSizes
  BY DEF Inv, Objects, Leave, wasm, InCall
<1>2. b \in Nat /\ n \in Nat /\ f \in Nat /\ l \in Nat /\ n <= MAX_PAYLOAD_SIZE
      /\ MAX_PAYLOAD_SIZE \in Nat
  BY <1>1, InnerFacts, TypeFacts
<1>3. Inner(w)' = Inner(w) /\ method' = ""
  BY <1>1 DEF Inner, Leave, EndCall
<1>4. Written(w)' = n /\ Written(w) = f - b
  BY <1>3 DEF Written
<1>5. f >= b /\ IF error = "" THEN b + n = f + l ELSE b + n = f /\ ~ Fits
  BY DEF Inv, Done, Position
<1>6. Fits <=> f - b + l <= MAX_PAYLOAD_SIZE
  BY DEF Fits
<1>7. outcome'[w] = (IF error # "" THEN error ELSE "ok")
      /\ answer'[w] = IF l = 0 \/ error = "RangeError" THEN answer[w] ELSE NoAnswer
  <2>1. outcome' = [outcome EXCEPT ![w] = IF error # "" THEN error ELSE "ok"]
        /\ answer' = [answer EXCEPT ![w] =
                        IF l = 0 \/ error = "RangeError" THEN answer[w] ELSE NoAnswer]
    BY DEF Leave
  <2> QED BY <1>1, <2>1, TypeFacts
<1> HIDE DEF b, n, f, l
<1>8. CASE error = ""
  <2>1. n = (f - b) + l /\ (f - b) + l <= MAX_PAYLOAD_SIZE
    <3>1. b + n = f + l /\ f >= b
      BY <1>5, <1>8
    <3> QED BY <1>2, <3>1
  <2>2. Written(w)' = Written(w) + l /\ Written(w) + l <= MAX_PAYLOAD_SIZE
    BY <1>4, <2>1
  <2>3. outcome'[w] = "ok" /\ answer'[w] = IF l = 0 THEN answer[w] ELSE NoAnswer
    BY <1>7, <1>8
  <2> QED BY <1>1, <1>3, <2>2, <2>3, PieceAccept
<1>9. CASE error # ""
  <2>1. error = "RangeError"
    BY <1>1, <1>9 DEF TypeOK
  <2>2. n = f - b /\ (f - b) + l > MAX_PAYLOAD_SIZE
    <3>1. b + n = f /\ f >= b /\ ~ (f - b + l <= MAX_PAYLOAD_SIZE)
      BY <1>5, <1>6, <1>9
    <3> QED BY <1>2, <3>1
  <2>3. Written(w)' = Written(w) /\ Written(w) + l > MAX_PAYLOAD_SIZE
    BY <1>4, <2>2
  <2>4. outcome'[w] = "RangeError" /\ answer'[w] = answer[w]
    BY <1>7, <2>1
  <2> QED BY <1>1, <1>3, <2>3, <2>4, PieceRefuse
<1> QED
  BY <1>8, <1>9

LEMMA PieceLeaves ==
    ASSUME Inv, NEW w \in Wrappers, ptr[w] # 0, pc = "leave", error # "RuntimeError",
           Leave \/ LeaveRoot \/ LeaveOneShot
    PROVE  [Piece(w)!Next]_(Piece(w)!vars)
PROOF
<1>1. w \in Objects /\ Local \in Objects /\ w # Local /\ TypeOK /\ Owned /\ InCall
  BY LimitFacts DEF Inv, Objects
<1>2. method' = ""
  BY DEF Leave, LeaveRoot, LeaveOneShot, EndCall
<1>3. Written(w)' = Inner(w)'.size
  BY <1>2 DEF Written
<1>4. Inner(w)' = Inner(w)
  <2>1. CASE Leave \/ LeaveRoot
    BY <2>1 DEF Leave, LeaveRoot, wasm, Inner
  <2>2. CASE LeaveOneShot
    <3>1. Free(Local) /\ ptr[Local] # 0
      BY <1>1, <2>2 DEF LeaveOneShot, InCall
    <3> QED BY <1>1, <3>1, OthersKept
  <2> QED BY <2>1, <2>2
<1>5. CASE Leave /\ self = w /\ method = "write"
  BY <1>5, PieceWritten
<1>6. CASE Leave /\ self = w /\ method = "digest"
  <2>1. error = "" /\ got = Commitment(Inner(w))
    BY <1>1, <1>6 DEF Inv, InCall, Done, Succeeded
  <2>2. Written(w) = Inner(w).size
    BY <1>6 DEF Written
  <2>3. outcome'[w] = outcome[w] /\ answer'[w] = got
    BY <1>1, <1>6, <2>1, TypeFacts DEF Leave
  <2> QED BY <1>3, <1>4, <2>1, <2>2, <2>3, PieceAnswer
<1>7. CASE (Leave /\ self # w) \/ LeaveRoot \/ LeaveOneShot
  <2>1. Written(w) = Inner(w).size
    BY <1>1, <1>7 DEF Written, LeaveRoot, LeaveOneShot
  <2>2. outcome'[w] = outcome[w] /\ answer'[w] = answer[w]
    BY <1>1, <1>7, TypeFacts DEF Leave, LeaveRoot, LeaveOneShot, caller, InCall
  <2> QED BY <1>3, <1>4, <2>1, <2>2, PieceStutter
<1> QED
  BY <1>5, <1>6, <1>7 DEF Leave

(* Each hasher keeps the promise of PieceCommitment over its lifetime,     *)
(* whatever the other wrappers, the chunks and the memory do (api.js       *)
(* 64-81).                                                                 *)
THEOREM WasmPieceSteps == Spec => PieceSteps
PROOF
<1>1. ASSUME Inv, [Next]_vars, NEW w \in Wrappers, ptr[w] # 0, ptr'[w] # 0,
             ~ (pc = "leave" /\ error = "RuntimeError")
      PROVE  [Piece(w)!Next]_(Piece(w)!vars)
  <2>1. CASE UNCHANGED vars
    <3>1. UNCHANGED <<structs, ptr, outcome, answer, method, self, input>>
      BY <2>1 DEF vars, wasm, caller, call
    <3>2. Inner(w)' = Inner(w)
      BY <3>1 DEF Inner
    <3>3. Written(w)' = Written(w)
      BY <3>1, <3>2 DEF Written
    <3> QED BY <3>1, <3>2, <3>3, PieceStutter
  <2>2. CASE CallStep
    <3>1. CASE Leave \/ LeaveRoot \/ LeaveOneShot
      <4>1. pc = "leave"
        BY <3>1 DEF Leave, LeaveRoot, LeaveOneShot
      <4> QED BY <1>1, <3>1, <4>1, PieceLeaves
    <3>2. CASE ~ (Leave \/ LeaveRoot \/ LeaveOneShot)
      BY <1>1, <2>2, <3>2, PieceInside DEF CallStep
    <3> QED BY <3>1, <3>2
  <2>3. ASSUME NEW v \in Wrappers,
               Create(v) \/ Dispose(v) \/ CallDisposed(v) \/ Drop(v) \/ Finalize(v)
        PROVE  [Piece(w)!Next]_(Piece(w)!vars)
    BY <1>1, <2>3, PieceBetween
  <2>4. ASSUME NEW v \in Wrappers, Reset(v) \/ \E len \in WriteSizes : WriteRefused(v, len)
        PROVE  [Piece(w)!Next]_(Piece(w)!vars)
    BY <1>1, <2>4, PieceAtOnce
  <2>5. ASSUME \/ \E v \in Wrappers : BeginDigest(v) \/ \E len \in WriteSizes : BeginWrite(v, len)
               \/ \E len \in WriteSizes : BeginOneShot(len) \/ RootOfChunk(len)
        PROVE  [Piece(w)!Next]_(Piece(w)!vars)
    BY <1>1, <2>5, PieceBegins
  <2>6. ASSUME NEW v \in Wrappers,
               \E len \in WriteSizes : WriteDisposed(v, len) \/ WriteDisposedTraps(v, len)
        PROVE  [Piece(w)!Next]_(Piece(w)!vars)
    BY <1>1, <2>6, PieceWriteDisposed
  <2> QED BY <1>1, <2>1, <2>2, <2>3, <2>4, <2>5, <2>6 DEF Next
<1>2. Inv /\ [Next]_vars =>
        \A w \in Wrappers :
          ptr[w] # 0 /\ ptr'[w] # 0 /\ ~ (pc = "leave" /\ error = "RuntimeError")
          => [Piece(w)!Next]_(Piece(w)!vars)
  BY <1>1
<1> QED
  BY <1>2, WasmInductive, PTL DEF Spec, PieceSteps
=============================================================================
