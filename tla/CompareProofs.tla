----------------------------- MODULE CompareProofs -----------------------------
(***************************************************************************)
(* What is proved of compare/: of CompareRun, the driver, for any options, *)
(* any states of the code and any number of runs, and of CompareFrames,    *)
(* its CLIs, for frames of any number and sizes, reads of any length and   *)
(* an input cut anywhere.                                                  *)
(***************************************************************************)
EXTENDS CompareRun, CompareFrames, FiniteSetTheorems, SequenceTheorems,
        WellFoundedInduction, TLAPS

-----------------------------------------------------------------------------
(* What filter() leaves. *)

LEMMA LeastNumber ==
    ASSUME NEW T, T \subseteq Nat, T # {}
    PROVE  \E x \in T : \A y \in T : x <= y
PROOF
<1> DEFINE R == {ss \in Nat \X Nat : ss[1] < ss[2]}
<1>1. IsWellFoundedOn(R, Nat)
  BY NatLessThanWellFounded DEF OpToRel
<1>2. \A x, y \in Nat : y < x => <<y, x>> \in R
  OBVIOUS
<1> HIDE DEF R
<1>3. PICK x \in T : \A y \in T : ~ (<<y, x>> \in R)
  BY <1>1, WFMin
<1>4. ASSUME NEW y \in T PROVE x <= y
  <2>1. x \in Nat /\ y \in Nat
    OBVIOUS
  <2>2. ~ (y < x)
    BY <1>2, <1>3, <2>1
  <2> QED BY <2>1, <2>2
<1> QED
  BY <1>4

(* The indices up to m, and how many they are. *)
UpTo(at, m) == {j \in at : j <= m}

LEMMA UpToSteps ==
    ASSUME NEW n \in Nat, NEW at \in SUBSET (1 .. n)
    PROVE  /\ UpTo(at, n) = at /\ UpTo(at, 0) = {}
           /\ \A m \in Nat : m \notin at /\ m # 0 => UpTo(at, m) = UpTo(at, m - 1)
           /\ \A m \in at : UpTo(at, m) = UpTo(at, m - 1) \cup {m} /\ m \notin UpTo(at, m - 1)
           /\ \A i, j \in at : i < j => UpTo(at, i) \subseteq UpTo(at, j)
                                        /\ j \in UpTo(at, j) /\ j \notin UpTo(at, i)
PROOF
<1>1. \A j \in at : j \in Nat /\ 1 <= j /\ j <= n
  OBVIOUS
<1>2. UpTo(at, n) = at
  BY <1>1 DEF UpTo
<1>3. UpTo(at, 0) = {}
  <2>1. \A j \in at : ~ (j <= 0)
    BY <1>1
  <2> QED BY <2>1 DEF UpTo
<1>4. ASSUME NEW m \in Nat, m \notin at, m # 0 PROVE UpTo(at, m) = UpTo(at, m - 1)
  <2>1. \A j \in at : j # m
    BY <1>4
  <2>2. \A j \in at : j <= m <=> j <= m - 1
    BY <1>1, <1>4, <2>1
  <2> QED BY <2>2 DEF UpTo
<1>5. ASSUME NEW m \in at PROVE UpTo(at, m) = UpTo(at, m - 1) \cup {m} /\ m \notin UpTo(at, m - 1)
  <2>1. \A j \in at : j <= m <=> (j <= m - 1 \/ j = m)
    BY <1>1
  <2>2. ~ (m <= m - 1)
    BY <1>1
  <2> QED BY <2>1, <2>2 DEF UpTo
<1>6. ASSUME NEW i \in at, NEW j \in at, i < j
      PROVE  UpTo(at, i) \subseteq UpTo(at, j) /\ j \in UpTo(at, j) /\ j \notin UpTo(at, i)
  <2>1. \A h \in at : h <= i => h <= j
    BY <1>1, <1>6
  <2>2. j <= j /\ ~ (j <= i)
    BY <1>1, <1>6
  <2> QED BY <2>1, <2>2 DEF UpTo
<1> QED
  BY <1>2, <1>3, <1>4, <1>5, <1>6

LEMMA UpToFacts ==
    ASSUME NEW n \in Nat, NEW at \in SUBSET (1 .. n), NEW m \in Nat
    PROVE  /\ IsFiniteSet(at) /\ Cardinality(at) \in Nat
           /\ IsFiniteSet(UpTo(at, m)) /\ Cardinality(UpTo(at, m)) \in Nat
           /\ Cardinality(UpTo(at, m)) <= Cardinality(at)
PROOF
<1>1. IsFiniteSet(1 .. n)
  BY FS_Interval
<1>2. IsFiniteSet(at)
  BY <1>1, FS_Subset
<1>3. UpTo(at, m) \subseteq at
  BY DEF UpTo
<1> QED
  BY <1>2, <1>3, FS_Subset, FS_CardinalityType

(* The k-th of the indices. *)
LEMMA KthIndex ==
    ASSUME NEW n \in Nat, NEW at \in SUBSET (1 .. n), NEW k \in 1 .. Cardinality(at)
    PROVE  \E i \in at : Cardinality(UpTo(at, i)) = k
PROOF
<1> DEFINE T == {m \in Nat : Cardinality(UpTo(at, m)) >= k}
<1>1. k \in Nat /\ k >= 1 /\ k <= Cardinality(at)
  BY UpToFacts
<1>2. n \in T
  <2>1. UpTo(at, n) = at
    BY UpToSteps
  <2> QED BY <1>1, <2>1, UpToFacts
<1>3. PICK m \in T : \A y \in T : m <= y
  <2>1. T \subseteq Nat /\ T # {}
    BY <1>2
  <2> HIDE DEF T
  <2> QED BY <2>1, LeastNumber
<1>4. m \in Nat /\ Cardinality(UpTo(at, m)) >= k /\ Cardinality(UpTo(at, m)) \in Nat
  BY UpToFacts
<1>5. m # 0
  <2>1. SUFFICES ASSUME m = 0 PROVE FALSE
    OBVIOUS
  <2>2. UpTo(at, m) = {}
    BY <2>1, UpToSteps
  <2>3. Cardinality(UpTo(at, m)) = 0
    BY <2>2, FS_EmptySet
  <2> QED BY <1>1, <1>4, <2>3
<1>6. m - 1 \in Nat /\ m - 1 \notin T
  <2>1. m - 1 \in Nat /\ ~ (m <= m - 1)
    BY <1>4, <1>5
  <2> HIDE DEF T
  <2> QED BY <1>3, <2>1
<1>7. Cardinality(UpTo(at, m - 1)) < k /\ Cardinality(UpTo(at, m - 1)) \in Nat
  <2>1. Cardinality(UpTo(at, m - 1)) \in Nat
    BY <1>6, UpToFacts
  <2> QED BY <1>1, <1>6, <2>1
<1> HIDE DEF T
<1>8. m \in at
  <2>1. SUFFICES ASSUME m \notin at PROVE FALSE
    OBVIOUS
  <2>2. UpTo(at, m) = UpTo(at, m - 1)
    <3>1. \A h \in Nat : h \notin at /\ h # 0 => UpTo(at, h) = UpTo(at, h - 1)
      BY UpToSteps
    <3> QED BY <1>4, <1>5, <2>1, <3>1
  <2> QED BY <1>1, <1>4, <1>7, <2>2
<1>9. UpTo(at, m) = UpTo(at, m - 1) \cup {m} /\ m \notin UpTo(at, m - 1)
  BY <1>8, UpToSteps
<1>10. Cardinality(UpTo(at, m)) = Cardinality(UpTo(at, m - 1)) + 1
  BY <1>6, <1>9, UpToFacts, FS_AddElement
<1>11. Cardinality(UpTo(at, m)) = k
  BY <1>1, <1>4, <1>7, <1>10
<1> QED
  BY <1>8, <1>11

(* The indices are told apart by how many are not after them. *)
LEMMA RankOf ==
    ASSUME NEW n \in Nat, NEW at \in SUBSET (1 .. n), NEW i \in at, NEW j \in at, i < j
    PROVE  Cardinality(UpTo(at, i)) < Cardinality(UpTo(at, j))
PROOF
<1>1. i \in Nat /\ j \in Nat
  OBVIOUS
<1>2. UpTo(at, i) \subseteq UpTo(at, j) /\ j \in UpTo(at, j) /\ j \notin UpTo(at, i)
  BY UpToSteps
<1>3. UpTo(at, i) \cup {j} \subseteq UpTo(at, j)
  BY <1>2
<1>4. IsFiniteSet(UpTo(at, i)) /\ IsFiniteSet(UpTo(at, j))
      /\ Cardinality(UpTo(at, i)) \in Nat /\ Cardinality(UpTo(at, j)) \in Nat
  BY <1>1, UpToFacts
<1>5. Cardinality(UpTo(at, i) \cup {j}) = Cardinality(UpTo(at, i)) + 1
  BY <1>2, <1>4, FS_AddElement
<1>6. Cardinality(UpTo(at, i) \cup {j}) <= Cardinality(UpTo(at, j))
  BY <1>3, <1>4, FS_Subset
<1> QED
  BY <1>4, <1>5, <1>6

(* A subsequence has the elements at the indices, and no other. *)
LEMMA SubsequenceFacts ==
    ASSUME NEW S, NEW s \in Seq(S), NEW at \in SUBSET (1 .. Len(s))
    PROVE  /\ Subsequence(s, at) \in Seq(S)
           /\ \A k \in 1 .. Len(Subsequence(s, at)) : \E i \in at : Subsequence(s, at)[k] = s[i]
           /\ \A i \in at : \E k \in 1 .. Len(Subsequence(s, at)) : Subsequence(s, at)[k] = s[i]
PROOF
<1> DEFINE n == Len(s)
           c == Cardinality(at)
           rank(i) == Cardinality(UpTo(at, i))
           kth(k) == CHOOSE i \in at : Cardinality({j \in at : j <= i}) = k
           t == Subsequence(s, at)
<1>0. n \in Nat /\ at \in SUBSET (1 .. n) /\ \A i \in 1 .. n : s[i] \in S
  OBVIOUS
<1>1. n \in Nat /\ c \in Nat
  <2> HIDE DEF n
  <2> QED BY <1>0, UpToFacts
<1>2. t = [k \in 1 .. c |-> s[kth(k)]]
  BY DEF Subsequence
<1>3. ASSUME NEW k \in 1 .. c PROVE kth(k) \in at /\ rank(kth(k)) = k
  <2>1. \E i \in at : rank(i) = k
    <3> HIDE DEF n
    <3> QED BY <1>0, KthIndex
  <2>2. \E i \in at : Cardinality({j \in at : j <= i}) = k
    BY <2>1 DEF UpTo
  <2>3. kth(k) \in at /\ Cardinality({j \in at : j <= kth(k)}) = k
    BY <2>2
  <2> HIDE DEF kth
  <2> QED BY <2>3 DEF UpTo
<1>4. ASSUME NEW i \in at PROVE rank(i) \in 1 .. c
  <2>1. i \in Nat
    BY <1>0
  <2> HIDE DEF n
  <2>2. rank(i) \in Nat /\ rank(i) <= c
    BY <1>0, <2>1, UpToFacts
  <2>3. i \in UpTo(at, i) /\ IsFiniteSet(UpTo(at, i))
    <3>1. \A h \in at : UpTo(at, h) = UpTo(at, h - 1) \cup {h}
      BY <1>0, UpToSteps
    <3>2. i \in UpTo(at, i)
      BY <3>1
    <3> QED BY <1>0, <2>1, <3>2, UpToFacts
  <2>4. rank(i) # 0
    BY <2>3, FS_EmptySet
  <2> QED BY <1>1, <2>2, <2>4
<1>5. ASSUME NEW i \in at PROVE kth(rank(i)) = i
  <2> DEFINE h == kth(rank(i))
  <2>1. h \in at /\ rank(h) = rank(i)
    BY <1>3, <1>4
  <2> HIDE DEF h
  <2>2. i \in Nat /\ h \in Nat /\ rank(i) \in Nat /\ rank(h) \in Nat
    BY <1>0, <1>4, <2>1
  <2> HIDE DEF n
  <2>3. (h < i => rank(h) < rank(i)) /\ (i < h => rank(i) < rank(h))
    BY <1>0, <2>1, RankOf
  <2>5. ~ (h < i) /\ ~ (i < h)
    BY <2>1, <2>2, <2>3
  <2>4. h = i
    BY <2>2, <2>5
  <2> QED BY <2>4 DEF h
<1> HIDE DEF kth, rank, t
<1>6. t \in Seq(S) /\ Len(t) = c
  <2>1. \A k \in 1 .. c : s[kth(k)] \in S
    BY <1>0, <1>3
  <2> QED BY <1>1, <1>2, <2>1
<1>7. \A k \in 1 .. Len(t) : \E i \in at : t[k] = s[i]
  BY <1>2, <1>3, <1>6
<1>8. \A i \in at : \E k \in 1 .. Len(t) : t[k] = s[i]
  BY <1>2, <1>4, <1>5, <1>6
<1> QED
  BY <1>6, <1>7, <1>8 DEF t


-----------------------------------------------------------------------------
(* The inductive invariant. *)

VariantSet == {VARIANTS[k] : k \in 1 .. Len(VARIANTS)}
Configs == {""} \union {o.config : o \in Options}
Sources == {Unknown} \union {Id(c) : c \in Codes}
Number == [variant : Ids, code : Codes, format : Formats]
Section == {Undefined} \union [ran : {TRUE}, numbers : SUBSET Number]
Result == [is : {"json"}, version : Nat, source : Sources, config : Configs,
           variants : Seq(VariantSet), sections : [Sections -> Section],
           edited : SUBSET {"build", "source", "measure"}]

(* The hash in an id tells the changes apart: no diff outgrows tryRun. *)
HashTellsChanges == \A c \in Codes : c.change \notin Large

(* No edit reached r before its source was noted. *)
Clean(r) == {"build", "source"} \intersect r.edited = {}

(* r has the fields of one format, and no row of a backend the CPU lacks. *)
Sound(r) == \A n \in NumbersOf(r) :
               n.format = r.version /\ Named(n.variant).bin \notin Lacking

(* r is of the code c, but for what wasm measured after an edit. *)
Agrees(r, c) ==
    /\ r.source \in {Unknown, Id(c)}
    /\ \A n \in NumbersOf(r) : n.code = c \/ (n.variant = "wasm" /\ "measure" \in r.edited)

Good(r) == Sound(r) /\ (HashTellsChanges /\ Clean(r) => \E c \in Codes : Agrees(r, c))

(* The binaries a run executes: those of its variants, and go. *)
Runs(bin) == bin = "go" \/ (bin # "wasm" /\ \E k \in 1 .. Len(selected) : selected[k].bin = bin)

Types ==
    /\ code \in Codes /\ format \in Formats
    /\ built \in [Bins -> Codes \union {NotBuilt}]
    /\ file \in {NoFile, TornFile} \union Result
    /\ pc \in {"idle", "build", "source", "measure", "write"}
    /\ opts \in Options \union {NoOptions} /\ (pc = "idle" <=> opts = NoOptions)
    /\ selected \in Seq(VariantSet) /\ result \in Result

Idle == /\ pc = "idle" => result = Empty
        /\ pc \in {"idle", "write"} => todo = <<>>

(* What is not built yet is still to be built; the rest is the code's. *)
Building ==
    pc = "build" =>
        /\ todo \in Seq(Bins)
        /\ \A b \in Bins : Runs(b) =>
              \/ \E k \in 1 .. Len(todo) : todo[k] = b
              \/ built[b] \in Codes /\ (Clean(result) => built[b] = code)

(* Every binary the run executes is built, from one code unless it was     *)
(* edited, and the rows of lacking backends are gone.                      *)
Built ==
    pc \in {"source", "measure"} =>
        /\ \A b \in Bins : Runs(b) =>
              built[b] \in Codes /\ (Clean(result) => built[b] = built["go"])
        /\ \A k \in 1 .. Len(selected) : selected[k].bin \notin Lacking
        /\ Clean(result) /\ (pc = "source" \/ "measure" \notin result.edited) =>
              code = built["go"]

Measuring ==
    pc = "measure" =>
        /\ todo \in Seq({s \in Sections : Wanted(s)} \X {selected[k] : k \in 1 .. Len(selected)})
        /\ result.version = format
        /\ \A s \in Sections : result.sections[s].ran <=> Wanted(s)
        /\ Sound(result) /\ (Clean(result) => Agrees(result, built["go"]))

OnDisk == /\ file.is = "json" => Good(file)
          /\ pc = "write" => Good(result) /\ file = TornFile

Inv == Types /\ Idle /\ Building /\ Built /\ Measuring /\ OnDisk


(* The table of the variants. *)
LEMMA SeqOf ==
    ASSUME NEW S, NEW T, NEW s \in Seq(S), \A k \in 1 .. Len(s) : s[k] \in T
    PROVE  s \in Seq(T)
PROOF
  OBVIOUS

LEMMA VariantsList ==
    /\ Len(VARIANTS) = 6 /\ VARIANTS \in Seq(VariantSet)
    /\ VariantSet = {VARIANTS[1], VARIANTS[2], VARIANTS[3], VARIANTS[4], VARIANTS[5], VARIANTS[6]}
PROOF
<1>1. Len(VARIANTS) = 6
  BY DEF VARIANTS
<1>2. VARIANTS \in Seq({VARIANTS[k] : k \in 1 .. Len(VARIANTS)})
  <2>1. \A a, b, c, d, e, f : <<a, b, c, d, e, f>> \in Seq({a, b, c, d, e, f})
    OBVIOUS
  <2>2. \E S : VARIANTS \in Seq(S)
    BY <2>1 DEF VARIANTS
  <2>3. \A k \in 1 .. Len(VARIANTS) : VARIANTS[k] \in {VARIANTS[h] : h \in 1 .. Len(VARIANTS)}
    OBVIOUS
  <2> QED BY <2>2, <2>3, SeqOf
<1>3. 1 .. 6 = {1, 2, 3, 4, 5, 6}
  OBVIOUS
<1>4. VariantSet = {VARIANTS[k] : k \in {1, 2, 3, 4, 5, 6}}
  BY <1>1, <1>3 DEF VariantSet
<1> QED
  BY <1>1, <1>2, <1>4 DEF VariantSet

LEMMA VariantsOf ==
    /\ VARIANTS[1].id = "rust" /\ VARIANTS[1].impl = "rust" /\ VARIANTS[1].bin = "rust"
    /\ VARIANTS[2].id = "rust-avx2" /\ VARIANTS[2].impl = "rust" /\ VARIANTS[2].bin = "rust-avx2"
    /\ VARIANTS[3].id = "rust-native" /\ VARIANTS[3].impl = "rust" /\ VARIANTS[3].bin = "rust-native"
    /\ VARIANTS[4].id = "go" /\ VARIANTS[4].impl = "go" /\ VARIANTS[4].bin = "go"
    /\ VARIANTS[5].id = "go-1core" /\ VARIANTS[5].impl = "go" /\ VARIANTS[5].bin = "go"
    /\ VARIANTS[6].id = "wasm" /\ VARIANTS[6].impl = "wasm" /\ VARIANTS[6].bin = "wasm"
PROOF
  BY DEF VARIANTS, Variant

LEMMA VariantFacts ==
    /\ "go" \in Bins /\ "wasm" \notin Bins
    /\ \A v \in VariantSet : /\ v.id \in Ids /\ (v.bin # "wasm" => v.bin \in Bins)
                             /\ (v.bin = "wasm" => v.id = "wasm")
                             /\ (v.impl # "rust" => v.bin \in {"go", "wasm"})
                             /\ Named(v.id) = v
    /\ \A id \in Ids : Named(id) \in VariantSet
PROOF
<1>1. Ids = {v.id : v \in VariantSet} /\ Bins = {v.bin : v \in VariantSet} \ {"wasm"}
  BY DEF Ids, Bins, VariantSet
<1>2. "go" \in Bins /\ "wasm" \notin Bins
  BY <1>1, VariantsList, VariantsOf
<1>3. \A v, w \in VariantSet : v.id = w.id => v = w
  BY VariantsList, VariantsOf
<1>4. ASSUME NEW id \in Ids PROVE Named(id) \in VariantSet /\ Named(id).id = id
  <2> DEFINE h == CHOOSE k \in 1 .. Len(VARIANTS) : VARIANTS[k].id = id
  <2>1. \E k \in 1 .. Len(VARIANTS) : VARIANTS[k].id = id
    BY DEF Ids
  <2>2. h \in 1 .. Len(VARIANTS) /\ VARIANTS[h].id = id
    BY <2>1
  <2> HIDE DEF h
  <2> QED BY <2>2 DEF Named, VariantSet, h
<1>5. ASSUME NEW v \in VariantSet
      PROVE  /\ v.id \in Ids /\ (v.bin # "wasm" => v.bin \in Bins)
             /\ (v.bin = "wasm" => v.id = "wasm")
             /\ (v.impl # "rust" => v.bin \in {"go", "wasm"})
             /\ Named(v.id) = v
  <2>1. v.id \in Ids /\ (v.bin # "wasm" => v.bin \in Bins)
    BY <1>1
  <2>2. (v.bin = "wasm" => v.id = "wasm") /\ (v.impl # "rust" => v.bin \in {"go", "wasm"})
    BY VariantsList, VariantsOf
  <2> QED BY <1>3, <1>4, <2>1, <2>2
<1> QED
  BY <1>2, <1>4, <1>5

(* Ids tell the codes apart unless a diff outgrows tryRun. *)
LEMMA IdFacts ==
    ASSUME HashTellsChanges
    PROVE  \A c, d \in Codes : Id(c) = Id(d) => c = d
PROOF
<1> SUFFICES ASSUME NEW c \in Codes, NEW d \in Codes, Id(c) = Id(d) PROVE c = d
  OBVIOUS
<1>1. /\ c \in [commit : Nat \ {0}, change : Nat] /\ d \in [commit : Nat \ {0}, change : Nat]
  BY RunAssumption
<1>2. Changes(c.change) = c.change /\ Changes(d.change) = d.change
  BY DEF Changes, HashTellsChanges
<1>3. c.commit = d.commit /\ c.change = d.change
  BY <1>1, <1>2 DEF Id
<1> QED
  BY <1>1, <1>3

LEMMA NumbersIn ==
    ASSUME NEW r, NEW n
    PROVE  n \in NumbersOf(r) <=> \E s \in Sections : r.sections[s].ran /\ n \in r.sections[s].numbers
PROOF
  BY DEF NumbersOf

LEMMA EmptyFacts ==
    /\ Empty \in Result /\ Clean(Empty) /\ Empty.edited = {}
    /\ NotBuilt \notin Codes /\ NoOptions \notin Options
PROOF
<1>1. Unknown \in Sources /\ Undefined \in Section
  BY DEF Sources, Section
<1>2. [s \in Sections |-> Undefined] \in [Sections -> Section]
  BY <1>1
<1>3. <<>> \in Seq(VariantSet)
  OBVIOUS
<1>4. Empty \in Result
  <2>1. \A so \in Sources, va \in Seq(VariantSet), se \in [Sections -> Section],
           ed \in SUBSET {"build", "source", "measure"} :
          [is |-> "json", version |-> 0, source |-> so, config |-> "", variants |-> va,
           sections |-> se, edited |-> ed] \in Result
    <3>1. "json" \in {"json"} /\ 0 \in Nat /\ "" \in Configs
      BY DEF Configs
    <3> QED BY <3>1, Zenon DEF Result
  <2> HIDE DEF Result
  <2>2. {} \in SUBSET {"build", "source", "measure"}
    OBVIOUS
  <2> QED BY <1>1, <1>2, <1>3, <2>1, <2>2 DEF Empty
<1>5. Empty.edited = {} /\ Clean(Empty)
  BY DEF Empty, Clean
<1>6. NotBuilt \notin Codes
  BY RunAssumption DEF NotBuilt
<1>7. NoOptions \notin Options
  BY RunAssumption DEF NoOptions, Commands
<1> QED
  BY <1>4, <1>5, <1>6, <1>7

LEMMA NumberFacts ==
    ASSUME NEW r \in Result
    PROVE  /\ r.is = "json" /\ r.version \in Nat /\ r.source \in Sources
           /\ r.edited \in SUBSET {"build", "source", "measure"}
           /\ \A s \in Sections : r.sections[s] \in Section
           /\ \A n \in NumbersOf(r) : n \in Number
PROOF
<1>1. /\ r.is = "json" /\ r.version \in Nat /\ r.source \in Sources
      /\ r.edited \in SUBSET {"build", "source", "measure"}
      /\ \A s \in Sections : r.sections[s] \in Section
  BY DEF Result
<1>2. ASSUME NEW n \in NumbersOf(r) PROVE n \in Number
  <2>1. PICK s \in Sections : r.sections[s].ran /\ n \in r.sections[s].numbers
    BY NumbersIn
  <2>2. r.sections[s] \in Section
    BY <1>1
  <2>3. r.sections[s] # Undefined
    BY <2>1 DEF Undefined
  <2> QED BY <2>1, <2>2, <2>3 DEF Section
<1> QED
  BY <1>1, <1>2


LEMMA SelectedTyped ==
    ASSUME NEW ids \in Seq(Ids)
    PROVE  Selected(ids) \in Seq(VariantSet)
PROOF
<1>1. CASE ids = <<>>
  <2> DEFINE at == {k \in 1 .. Len(VARIANTS) : ~ VARIANTS[k].optIn}
  <2>1. at \in SUBSET (1 .. Len(VARIANTS))
    OBVIOUS
  <2> HIDE DEF at
  <2>2. Subsequence(VARIANTS, at) \in Seq(VariantSet)
    BY <2>1, VariantsList, SubsequenceFacts
  <2> QED BY <1>1, <2>2 DEF Selected, at
<1>2. CASE ids # <<>>
  <2>1. \A k \in 1 .. Len(ids) : Named(ids[k]) \in VariantSet
    BY VariantFacts
  <2>2. [k \in 1 .. Len(ids) |-> Named(ids[k])] \in Seq(VariantSet)
    BY <2>1
  <2> QED BY <1>2, <2>2 DEF Selected
<1> QED
  BY <1>1, <1>2

(* Every binary the variants execute is built, and go. *)
LEMMA NeededFacts ==
    ASSUME NEW v \in Seq(VariantSet)
    PROVE  /\ Needed(v) \in Seq(Bins)
           /\ \A b \in Bins : b = "go" \/ (\E k \in 1 .. Len(v) : v[k].bin = b) =>
                 \E j \in 1 .. Len(Needed(v)) : Needed(v)[j] = b
PROOF
<1> DEFINE n == Len(v)
           bins == <<"go">> \o [k \in 1 .. Len(v) |-> v[k].bin]
           at == {k \in 1 .. Len(bins) :
                    bins[k] # "wasm" /\ \A j \in 1 .. k - 1 : bins[j] # bins[k]}
           S == Bins \union {"wasm"}
           t == Subsequence(bins, at)
<1>1. \A k \in 1 .. n : v[k].bin \in S
  BY VariantFacts
<1>2. n \in Nat /\ [k \in 1 .. Len(v) |-> v[k].bin] \in Seq(S)
      /\ Len([k \in 1 .. Len(v) |-> v[k].bin]) = n
  BY <1>1
<1>3. bins \in Seq(S) /\ Len(bins) = n + 1 /\ bins[1] = "go"
      /\ \A k \in 1 .. n : bins[k + 1] = v[k].bin
  <2> DEFINE w == [k \in 1 .. Len(v) |-> v[k].bin]
  <2>1. w \in Seq(S) /\ Len(w) = n /\ (\A k \in 1 .. n : w[k] = v[k].bin) /\ "go" \in S
    BY <1>2, VariantFacts
  <2> HIDE DEF w, S, n
  <2>2. <<"go">> \in Seq(S) /\ Len(<<"go">>) = 1 /\ <<"go">>[1] = "go"
    BY <2>1
  <2>3. bins = <<"go">> \o w
    BY DEF w
  <2> HIDE DEF bins
  <2>4. bins \in Seq(S) /\ Len(bins) = n + 1 /\ bins[1] = "go"
    BY <1>2, <2>1, <2>2, <2>3
  <2>5. ASSUME NEW k \in 1 .. n PROVE bins[k + 1] = v[k].bin
    <3>1. k + 1 \in 2 .. n + 1 /\ k + 1 - 1 = k
      BY <1>2
    <3>2. bins[k + 1] = w[k + 1 - 1]
      BY <1>2, <2>1, <2>2, <2>3, <3>1
    <3> QED BY <2>1, <3>1, <3>2
  <2> QED BY <2>4, <2>5
<1> HIDE DEF n, bins
<1>4. at \in SUBSET (1 .. Len(bins))
  OBVIOUS
<1>5. /\ t \in Seq(S)
      /\ \A k \in 1 .. Len(t) : \E i \in at : t[k] = bins[i]
      /\ \A i \in at : \E k \in 1 .. Len(t) : t[k] = bins[i]
  <2> HIDE DEF at, S
  <2> QED BY <1>3, <1>4, SubsequenceFacts
<1>6. t \in Seq(Bins)
  <2>1. \A k \in 1 .. Len(t) : t[k] \in Bins
    <3>1. \A i \in at : bins[i] \in Bins
      BY <1>3
    <3> HIDE DEF at, t
    <3> QED BY <1>5, <3>1
  <2> HIDE DEF t, S
  <2> QED BY <1>5, <2>1, SeqOf
<1>7. ASSUME NEW b \in Bins, b = "go" \/ \E k \in 1 .. Len(v) : v[k].bin = b
      PROVE  \E j \in 1 .. Len(t) : t[j] = b
  <2> DEFINE at_b == {k \in 1 .. Len(bins) : bins[k] = b}
  <2>1. at_b \subseteq Nat /\ at_b # {}
    <3>1. CASE b = "go"
      <4>1. 1 \in at_b
        BY <1>2, <1>3, <3>1
      <4> QED BY <4>1
    <3>2. CASE \E k \in 1 .. Len(v) : v[k].bin = b
      <4>1. PICK k \in 1 .. n : v[k].bin = b
        BY <3>2 DEF n
      <4>2. k + 1 \in 1 .. Len(bins) /\ bins[k + 1] = b
        BY <1>2, <1>3, <4>1
      <4> QED BY <4>2
    <3> QED BY <1>7, <3>1, <3>2
  <2>2. PICK i \in at_b : \A j \in at_b : i <= j
    <3> HIDE DEF at_b
    <3> QED BY <2>1, LeastNumber
  <2>3. i \in 1 .. Len(bins) /\ bins[i] = b
    BY <2>2
  <2>4. b # "wasm"
    BY VariantFacts
  <2>5. ASSUME NEW j \in 1 .. i - 1 PROVE bins[j] # bins[i]
    <3>1. j \in 1 .. Len(bins) /\ ~ (i <= j)
      BY <1>2, <1>3, <2>3
    <3>2. j \notin at_b
      BY <2>2, <3>1
    <3> QED BY <2>3, <3>1, <3>2
  <2>6. i \in at
    BY <2>3, <2>4, <2>5
  <2> HIDE DEF at, t
  <2> QED BY <1>5, <2>3, <2>6
<1> QED
  BY <1>6, <1>7 DEF Needed, t, bins, at

(* A subsequence of the selected variants. *)
LEMMA FilteredFacts ==
    ASSUME NEW v \in Seq(VariantSet), NEW at \in SUBSET (1 .. Len(v))
    PROVE  /\ Subsequence(v, at) \in Seq(VariantSet)
           /\ \A k \in 1 .. Len(Subsequence(v, at)) : \E i \in at : Subsequence(v, at)[k] = v[i]
PROOF
  BY SubsequenceFacts

Chosen == {selected[k] : k \in 1 .. Len(selected)}

LEMMA PairsOf ==
    ASSUME NEW S, NEW e \in S, NEW V, NEW w \in Seq(V)
    PROVE  [k \in 1 .. Len(w) |-> <<e, w[k]>>] \in Seq(S \X V)
PROOF
  OBVIOUS

LEMMA CallsTyped ==
    ASSUME selected \in Seq(VariantSet), NEW section \in Sections
    PROVE  Calls(section) \in Seq({s \in Sections : Wanted(s)} \X Chosen)
PROOF
<1> DEFINE W == {s \in Sections : Wanted(s)}
           V == Chosen
<1>1. \A at \in SUBSET (1 .. Len(selected)) : Subsequence(selected, at) \in Seq(V)
  <2> SUFFICES ASSUME NEW at \in SUBSET (1 .. Len(selected)) PROVE Subsequence(selected, at) \in Seq(V)
    OBVIOUS
  <2>1. selected \in Seq(V)
    <3>1. \A k \in 1 .. Len(selected) : selected[k] \in V
      BY DEF Chosen
    <3> HIDE DEF V
    <3> QED BY <3>1, SeqOf
  <2> HIDE DEF V
  <2> QED BY <2>1, SubsequenceFacts
<1>2. selected \in Seq(V)
  <2>1. \A k \in 1 .. Len(selected) : selected[k] \in V
    BY DEF Chosen
  <2> HIDE DEF V
  <2> QED BY <2>1, SeqOf
<1> DEFINE distinct == Subsequence(selected, {k \in 1 .. Len(selected) :
                                             selected[k].env # "GOMAXPROCS"})
           checked == IF distinct # <<>> THEN distinct ELSE selected
           memory == Subsequence(selected, {k \in 1 .. Len(selected) : selected[k].memory})
           variants == CASE section = "verify" -> checked \o checked
                         [] section = "bench" -> selected
                         [] section = "memory" -> memory
<1>3. distinct \in Seq(V) /\ memory \in Seq(V)
  <2> HIDE DEF V
  <2> QED BY <1>1
<1>4. checked \in Seq(V)
  <2> HIDE DEF V, distinct
  <2> QED BY <1>2, <1>3
<1>5. variants \in Seq(V)
  <2>1. checked \o checked \in Seq(V)
    <3> HIDE DEF V, checked
    <3> QED BY <1>4
  <2>2. section \in {"verify", "bench", "memory"}
    BY DEF Sections
  <2> HIDE DEF V, checked, memory
  <2> QED BY <1>2, <1>3, <2>1, <2>2
<1>6. Calls(section) = IF ~Wanted(section) THEN <<>>
                       ELSE [k \in 1 .. Len(variants) |-> <<section, variants[k]>>]
  BY DEF Calls
<1> HIDE DEF variants, V
<1>7. CASE Wanted(section)
  <2>1. section \in W
    BY <1>7
  <2> HIDE DEF W
  <2>2. [k \in 1 .. Len(variants) |-> <<section, variants[k]>>] \in Seq(W \X V)
    BY <1>5, <2>1, PairsOf
  <2>3. Calls(section) \in Seq(W \X V)
    BY <1>6, <1>7, <2>2
  <2> QED BY <2>3 DEF W, V
<1>8. CASE ~ Wanted(section)
  <2>1. Calls(section) = <<>>
    BY <1>6, <1>8
  <2> QED BY <2>1
<1> QED
  BY <1>7, <1>8

(* How a number is recorded. *)
LEMMA RecordNumber ==
    ASSUME NEW r \in Result, NEW s \in Sections, r.sections[s].ran, NEW n \in Number,
           NEW r2, r2 = [r EXCEPT !.sections[s].numbers = @ \union {n}]
    PROVE  /\ r2 \in Result /\ r2.version = r.version /\ r2.source = r.source
           /\ r2.edited = r.edited
           /\ \A t \in Sections : r2.sections[t].ran <=> r.sections[t].ran
           /\ \A m \in NumbersOf(r2) : m = n \/ m \in NumbersOf(r)
PROOF
<1> DEFINE new == [r.sections[s] EXCEPT !.numbers = r.sections[s].numbers \union {n}]
           sec == [r.sections EXCEPT ![s] = new]
<1>0. r2 = [r EXCEPT !.sections = sec]
  OBVIOUS
<1>1. r.sections \in [Sections -> Section] /\ r.sections[s] \in [ran : {TRUE}, numbers : SUBSET Number]
  <2>1. r.sections \in [Sections -> Section]
    BY DEF Result
  <2>2. r.sections[s] # Undefined
    BY DEF Undefined
  <2> QED BY <2>1, <2>2 DEF Section
<1>2. new \in [ran : {TRUE}, numbers : SUBSET Number] /\ new.ran
      /\ new.numbers = r.sections[s].numbers \union {n}
  BY <1>1
<1>3. new \in Section
  BY <1>2 DEF Section
<1>5. sec \in [Sections -> Section] /\ sec[s] = new
      /\ \A t \in Sections : t # s => sec[t] = r.sections[t]
  <2> HIDE DEF new
  <2> QED BY <1>1, <1>3
<1> HIDE DEF sec, new
<1>7. r2 \in Result /\ r2.sections = sec /\ r2.version = r.version /\ r2.source = r.source
      /\ r2.edited = r.edited
  BY <1>0, <1>5 DEF Result
<1>8. \A t \in Sections : r2.sections[t].ran <=> r.sections[t].ran
  BY <1>2, <1>5, <1>7
<1>9. ASSUME NEW m \in NumbersOf(r2) PROVE m = n \/ m \in NumbersOf(r)
  <2>1. PICK t \in Sections : r2.sections[t].ran /\ m \in r2.sections[t].numbers
    BY NumbersIn
  <2>2. r.sections[t].ran
    BY <1>8, <2>1
  <2>3. m = n \/ m \in r.sections[t].numbers
    BY <1>2, <1>5, <1>7, <2>1
  <2> QED BY <2>2, <2>3, NumbersIn
<1> QED
  BY <1>7, <1>8, <1>9


(* The frames: what each part reads. *)
LEMMA OnDiskFrame ==
    ASSUME OnDisk, UNCHANGED file, pc' # "write"
    PROVE  OnDisk'
PROOF
<1>1. file' = file
  OBVIOUS
<1>2. (file.is = "json" => Good(file)) => (file.is = "json" => Good(file))'
  BY <1>1 DEF Good, Sound, Clean, Agrees, NumbersOf, HashTellsChanges
<1> QED
  BY <1>2 DEF OnDisk

LEMMA InitInv == Init => Inv
PROOF
<1> SUFFICES ASSUME Init PROVE Inv
  OBVIOUS
<1>0. /\ code \in Codes /\ format \in Formats
      /\ built = [b \in Bins |-> NotBuilt] /\ file = NoFile
      /\ pc = "idle" /\ opts = NoOptions
      /\ selected = <<>> /\ todo = <<>> /\ result = Empty
  BY DEF Init
<1>1. Types
  <2>1. built \in [Bins -> Codes \union {NotBuilt}]
    BY <1>0
  <2>2. selected \in Seq(VariantSet)
    BY <1>0
  <2> QED BY <1>0, <2>1, <2>2, EmptyFacts DEF Types
<1>2. file.is # "json"
  BY <1>0 DEF NoFile
<1> QED
  BY <1>0, <1>1, <1>2 DEF Inv, Idle, Building, Built, Measuring, OnDisk

LEMMA EditInv ==
    ASSUME Inv, Edit PROVE Inv'
PROOF
<1>0. /\ pc \in {"idle", "build", "source", "measure"} /\ result.edited = {}
      /\ code' \in Codes
      /\ result' = IF pc = "idle" THEN result ELSE [result EXCEPT !.edited = @ \union {pc}]
      /\ UNCHANGED <<format, built, file, pc, opts, selected, todo>>
  BY DEF Edit
<1>1. Types /\ Idle /\ Building /\ Built /\ Measuring /\ OnDisk
  BY DEF Inv
<1>2. OnDisk'
  BY <1>0, <1>1, OnDiskFrame
<1>3. result' \in Result /\ result'.sections = result.sections /\ result'.version = result.version
      /\ result'.source = result.source /\ (pc # "idle" => result'.edited = {pc})
  BY <1>0, <1>1 DEF Types, Result
<1>4. Types'
  BY <1>0, <1>1, <1>3 DEF Types
<1>5. Idle'
  BY <1>0, <1>1 DEF Idle
<1>6. pc \in {"build", "source"} => ~ Clean(result')
  BY <1>3 DEF Clean
<1>6a. pc = "measure" => "measure" \in result'.edited /\ Clean(result') /\ Clean(result)
  BY <1>0, <1>3 DEF Clean
<1>7. Building'
  <2> SUFFICES ASSUME pc = "build" PROVE Building'
    BY <1>0 DEF Building
  <2>1. ~ Clean(result)'
    BY <1>6 DEF Clean
  <2>2. \A b : Runs(b)' <=> Runs(b)
    BY <1>0 DEF Runs
  <2> QED BY <1>0, <1>1, <2>1, <2>2 DEF Building
<1>8. Built'
  <2> SUFFICES ASSUME pc \in {"source", "measure"} PROVE Built'
    BY <1>0 DEF Built
  <2>1. ~ Clean(result)' \/ (Clean(result) /\ "measure" \in result'.edited /\ pc = "measure")
    <3>1. Clean(result)' <=> Clean(result')
      BY DEF Clean
    <3> QED BY <1>6, <1>6a, <3>1
  <2>2. \A b : Runs(b)' <=> Runs(b)
    BY <1>0 DEF Runs
  <2> QED BY <1>0, <1>1, <2>1, <2>2 DEF Built
<1>9. Measuring'
  <2> SUFFICES ASSUME pc = "measure" PROVE Measuring'
    BY <1>0 DEF Measuring
  <2>1. NumbersOf(result') = NumbersOf(result)
    BY <1>3 DEF NumbersOf
  <2>2. Sound(result')
    BY <1>1, <1>3, <2>1 DEF Measuring, Sound
  <2>3. Agrees(result', built["go"])
    BY <1>1, <1>3, <1>6a, <2>1 DEF Measuring, Agrees
  <2>4. \A s : Wanted(s)' <=> Wanted(s)
    BY <1>0 DEF Wanted
  <2>5. todo' \in Seq({s \in Sections : Wanted(s)} \X {selected[k] : k \in 1 .. Len(selected)})'
    <3>1. {s \in Sections : Wanted(s)}' = {s \in Sections : Wanted(s)}
      BY <2>4
    <3>2. {selected[k] : k \in 1 .. Len(selected)}' = {selected[k] : k \in 1 .. Len(selected)}
      BY <1>0
    <3> QED BY <1>0, <1>1, <3>1, <3>2 DEF Measuring
  <2>6. result'.version = format' /\ \A s \in Sections : result'.sections[s].ran <=> Wanted(s)'
    BY <1>0, <1>1, <1>3, <2>4 DEF Measuring
  <2>7. Sound(result)' /\ Agrees(result, built["go"])'
    BY <1>0, <2>2, <2>3 DEF Sound, Agrees, NumbersOf
  <2> QED BY <2>5, <2>6, <2>7 DEF Measuring
<1> QED
  BY <1>2, <1>4, <1>5, <1>7, <1>8, <1>9 DEF Inv

LEMMA IdleStep ==
    ASSUME Inv, pc' = "idle", opts' = NoOptions, selected' \in Seq(VariantSet), todo' = <<>>,
           result' = Empty, code' \in Codes, format' \in Formats, built' = built,
           file' \in {file, NoFile}
    PROVE  Inv'
PROOF
<1>1. Types /\ OnDisk
  BY DEF Inv
<1>2. Types'
  BY <1>1, EmptyFacts DEF Types
<1>3. OnDisk'
  <2>1. CASE file' = file
    BY <1>1, <2>1, OnDiskFrame
  <2>2. CASE file' = NoFile
    BY <2>2 DEF OnDisk, NoFile
  <2> QED BY <2>1, <2>2
<1> QED
  BY <1>2, <1>3 DEF Inv, Idle, Building, Built, Measuring

LEMMA QuietInv ==
    ASSUME Inv, Upgrade \/ Abort \/ Remove \/ BuildOnly PROVE Inv'
PROOF
<1>1. Types /\ Idle
  BY DEF Inv
<1>2. /\ pc' = "idle" /\ opts' = NoOptions /\ selected' \in Seq(VariantSet) /\ todo' = <<>>
      /\ result' = Empty /\ code' \in Codes /\ format' \in Formats /\ built' = built
      /\ file' \in {file, NoFile}
  <2>1. CASE Upgrade
    BY <1>1, <2>1 DEF Upgrade, Types, Idle
  <2>2. CASE Abort
    BY <1>1, <2>2 DEF Abort, Types, Idle
  <2>3. CASE Remove
    BY <1>1, <2>3 DEF Remove, Types, Idle
  <2>4. CASE BuildOnly
    BY <1>1, <2>4 DEF BuildOnly, Types, Idle
  <2> QED BY <2>1, <2>2, <2>3, <2>4
<1> QED
  BY <1>2, IdleStep

LEMMA StartInv ==
    ASSUME Inv, Start PROVE Inv'
PROOF
<1>0. /\ pc = "idle" /\ opts' \in Options /\ pc' = "build"
      /\ selected' = Selected(opts'.variants) /\ todo' = Needed(selected')
      /\ UNCHANGED <<code, format, built, file, result>>
  BY DEF Start
<1>1. Types /\ Idle /\ OnDisk
  BY DEF Inv
<1>2. selected' \in Seq(VariantSet)
  <2>1. opts'.variants \in Seq(Ids)
    BY <1>0, RunAssumption
  <2> QED BY <1>0, <2>1, SelectedTyped
<1>3. Types'
  BY <1>0, <1>1, <1>2, EmptyFacts DEF Types
<1>4. Building'
  <2>1. /\ todo' \in Seq(Bins)
        /\ \A b \in Bins : b = "go" \/ (\E k \in 1 .. Len(selected') : selected'[k].bin = b) =>
              \E j \in 1 .. Len(todo') : todo'[j] = b
    BY <1>0, <1>2, NeededFacts
  <2>2. \A b \in Bins : Runs(b)' => \E j \in 1 .. Len(todo') : todo'[j] = b
    BY <2>1 DEF Runs
  <2> QED BY <2>1, <2>2 DEF Building
<1>5. OnDisk'
  BY <1>0, <1>1, OnDiskFrame
<1> QED
  BY <1>0, <1>3, <1>4, <1>5 DEF Inv, Idle, Built, Measuring

LEMMA BuildInv ==
    ASSUME Inv, Build PROVE Inv'
PROOF
<1>0. /\ pc = "build" /\ todo # <<>> /\ built' = [built EXCEPT ![Head(todo)] = code]
      /\ todo' = Tail(todo)
      /\ UNCHANGED <<code, format, file, pc, opts, selected, result>>
  BY DEF Build
<1>1. Types /\ Building /\ OnDisk
  BY DEF Inv
<1>2. todo \in Seq(Bins) /\ Head(todo) \in Bins /\ todo' \in Seq(Bins)
  BY <1>0, <1>1 DEF Building
<1>2a. built \in [Bins -> Codes \union {NotBuilt}] /\ code \in Codes
  BY <1>1 DEF Types
<1>3. built' \in [Bins -> Codes \union {NotBuilt}] /\ built'[Head(todo)] = code
      /\ \A b \in Bins : b # Head(todo) => built'[b] = built[b]
  BY <1>0, <1>2, <1>2a
<1>4. Types'
  BY <1>0, <1>1, <1>3 DEF Types
<1>5. Building'
  <2> SUFFICES ASSUME NEW b \in Bins, Runs(b)'
               PROVE  \/ \E k \in 1 .. Len(todo') : todo'[k] = b
                      \/ built'[b] \in Codes /\ (Clean(result') => built'[b] = code')
    BY <1>0, <1>2 DEF Building, Clean
  <2>1. Runs(b)
    BY <1>0 DEF Runs
  <2>2. CASE b = Head(todo)
    BY <1>0, <1>2a, <1>3, <2>2
  <2>3. CASE b # Head(todo)
    <3>1. CASE \E k \in 1 .. Len(todo) : todo[k] = b
      <4>1. PICK k \in 1 .. Len(todo) : todo[k] = b
        BY <3>1
      <4>2. k # 1
        BY <1>2, <2>3, <4>1
      <4>3. k - 1 \in 1 .. Len(todo') /\ todo'[k - 1] = todo[k]
        BY <1>0, <1>2, <4>1, <4>2
      <4> QED BY <4>1, <4>3
    <3>2. CASE built[b] \in Codes /\ (Clean(result) => built[b] = code)
      BY <1>0, <1>3, <2>3, <3>2
    <3> QED BY <1>0, <1>1, <2>1, <3>1, <3>2 DEF Building
  <2> QED BY <2>2, <2>3
<1>6. OnDisk'
  BY <1>0, <1>1, OnDiskFrame
<1> QED
  BY <1>0, <1>4, <1>5, <1>6 DEF Inv, Idle, Built, Measuring

LEMMA SkipInv ==
    ASSUME Inv, Skip PROVE Inv'
PROOF
<1> DEFINE at == {k \in 1 .. Len(selected) :
                    selected[k].impl # "rust" \/ selected[k].bin \notin Lacking}
<1>0. /\ pc = "build" /\ todo = <<>> /\ selected' = Subsequence(selected, at)
      /\ pc' = "source"
      /\ UNCHANGED <<code, format, built, file, opts, todo, result>>
  BY DEF Skip
<1>1. Types /\ Building /\ OnDisk
  BY DEF Inv
<1>2. /\ selected \in Seq(VariantSet) /\ selected' \in Seq(VariantSet)
      /\ \A k \in 1 .. Len(selected') : \E i \in at : selected'[k] = selected[i]
  <2>1. at \in SUBSET (1 .. Len(selected))
    OBVIOUS
  <2> HIDE DEF at
  <2> QED BY <1>0, <1>1, <2>1, FilteredFacts DEF Types
<1>3. Types'
  BY <1>0, <1>1, <1>2 DEF Types
<1>4. \A b \in Bins : Runs(b)' => Runs(b)
  BY <1>2 DEF Runs
<1>5. \A b \in Bins : Runs(b) => built[b] \in Codes /\ (Clean(result) => built[b] = code)
  BY <1>0, <1>1 DEF Building
<1>6. \A k \in 1 .. Len(selected') : selected'[k].bin \notin Lacking
  <2>1. ASSUME NEW i \in at PROVE selected[i].bin \notin Lacking
    <3>1. selected[i] \in VariantSet
      BY <1>2
    <3>2. "go" \notin Lacking /\ "wasm" \notin Lacking
      BY RunAssumption, VariantFacts
    <3>3. selected[i].impl # "rust" => selected[i].bin \in {"go", "wasm"}
      BY <3>1, VariantFacts
    <3> QED BY <3>2, <3>3
  <2> HIDE DEF at
  <2> QED BY <1>2, <2>1
<1>7. Built'
  <2>1. Clean(result) => built["go"] = code
    <3>1. "go" \in Bins /\ Runs("go")
      BY VariantFacts DEF Runs
    <3> QED BY <1>5, <3>1
  <2>2. Clean(result') <=> Clean(result)
    BY <1>0
  <2>3. \A b \in Bins : Runs(b)' => built'[b] \in Codes /\ (Clean(result') => built'[b] = built'["go"])
    BY <1>0, <1>4, <1>5, <2>1, <2>2
  <2> HIDE DEF at
  <2> QED BY <1>0, <1>6, <2>1, <2>2, <2>3 DEF Built, Clean
<1>8. OnDisk'
  BY <1>0, <1>1, OnDiskFrame
<1> QED
  BY <1>0, <1>3, <1>7, <1>8 DEF Inv, Idle, Building, Measuring


LEMMA TakeSourceInv ==
    ASSUME Inv, TakeSource PROVE Inv'
PROOF
<1> DEFINE sections == [s \in Sections |-> IF Wanted(s) THEN Measured({}) ELSE Undefined]
           W == {s \in Sections : Wanted(s)}
<1>0. /\ pc = "source" /\ pc' = "measure"
      /\ todo' = Calls("verify") \o Calls("bench") \o Calls("memory")
      /\ UNCHANGED <<code, format, built, file, opts, selected>>
  BY DEF TakeSource
<1>1. Types /\ Built /\ OnDisk
  BY DEF Inv
<1>2. PICK id \in {Id(code), Unknown} :
          result' = [result EXCEPT !.version = format, !.source = id,
                     !.config = opts.config, !.variants = selected,
                     !.sections = sections]
  BY DEF TakeSource
<1>3. id \in Sources /\ opts \in Options /\ opts.config \in Configs
  BY <1>0, <1>1 DEF Types, Sources, Configs
<1>4. sections \in [Sections -> Section]
      /\ \A s \in Sections : /\ sections[s].ran <=> Wanted(s)
                             /\ sections[s].ran => sections[s].numbers = {}
  <2>1. Undefined \in Section /\ ~ Undefined.ran
    BY DEF Section, Undefined
  <2>2. Measured({}) \in Section /\ Measured({}).ran /\ Measured({}).numbers = {}
    BY DEF Section, Measured
  <2> QED BY <2>1, <2>2
<1>5. /\ result' \in Result /\ result'.version = format /\ result'.source = id
      /\ result'.sections = sections /\ result'.edited = result.edited
  <2>1. format \in Nat /\ selected \in Seq(VariantSet) /\ result \in Result
    BY <1>1, RunAssumption DEF Types
  <2> HIDE DEF sections
  <2> QED BY <1>2, <1>3, <1>4, <2>1 DEF Result
<1> HIDE DEF sections
<1>6. Types'
  BY <1>0, <1>1, <1>5 DEF Types
<1>7. NumbersOf(result') = {}
  BY <1>4, <1>5 DEF NumbersOf
<1>8. Built'
  <2>1. \A b : Runs(b)' <=> Runs(b)
    BY <1>0 DEF Runs
  <2>2. Clean(result)' <=> Clean(result)
    BY <1>5 DEF Clean
  <2> QED BY <1>0, <1>1, <1>5, <2>1, <2>2 DEF Built
<1>9. Measuring'
  <2>1. \A s : Wanted(s)' <=> Wanted(s)
    BY <1>0 DEF Wanted
  <2>2. todo' \in Seq({s \in Sections : Wanted(s)} \X {selected[k] : k \in 1 .. Len(selected)})'
    <3>1. /\ Calls("verify") \in Seq(W \X Chosen) /\ Calls("bench") \in Seq(W \X Chosen)
          /\ Calls("memory") \in Seq(W \X Chosen)
      <4>1. "verify" \in Sections /\ "bench" \in Sections /\ "memory" \in Sections
        BY DEF Sections
      <4> QED BY <1>1, <4>1, CallsTyped DEF Types
    <3>2. todo' \in Seq(W \X Chosen)
      <4> HIDE DEF W
      <4> QED BY <1>0, <3>1
    <3>3. W' = W /\ {selected[k] : k \in 1 .. Len(selected)}' = Chosen
      BY <1>0, <2>1 DEF Chosen
    <3>4. (W \X {selected[k] : k \in 1 .. Len(selected)})' = W \X Chosen
      BY <3>3
    <3> QED BY <3>2, <3>4
  <2>3. result'.version = format' /\ \A s \in Sections : result'.sections[s].ran <=> Wanted(s)'
    BY <1>0, <1>4, <1>5, <2>1
  <2>4. Sound(result)'
    BY <1>7 DEF Sound, NumbersOf
  <2>5. Clean(result)' => Agrees(result, built["go"])'
    <3>1. SUFFICES ASSUME Clean(result)' PROVE result'.source \in {Unknown, Id(built'["go"])}
      BY <1>7 DEF Agrees, NumbersOf, Id, Changes
    <3>2. Clean(result)
      BY <1>5, <3>1 DEF Clean
    <3>3. code = built["go"]
      BY <1>0, <1>1, <3>2 DEF Built
    <3> QED BY <1>0, <1>2, <1>5, <3>3
  <2> QED BY <2>2, <2>3, <2>4, <2>5 DEF Measuring
<1>10. OnDisk'
  BY <1>0, <1>1, OnDiskFrame
<1> QED
  BY <1>0, <1>6, <1>8, <1>9, <1>10 DEF Inv, Idle, Building

LEMMA MeasureInv ==
    ASSUME Inv, Measure PROVE Inv'
PROOF
<1> DEFINE section == Head(todo)[1]
           v == Head(todo)[2]
           number == [variant |-> v.id, code |-> CodeOf(v), format |-> format]
           W == {s \in Sections : Wanted(s)}
<1>0. /\ pc = "measure" /\ todo # <<>> /\ todo' = Tail(todo)
      /\ result' = [result EXCEPT !.sections[section].numbers = @ \union {number}]
      /\ UNCHANGED <<code, format, built, file, pc, opts, selected>>
  BY DEF Measure
<1>1. Types /\ Built /\ Measuring /\ OnDisk
  BY DEF Inv
<1>2. todo \in Seq(W \X Chosen) /\ todo' \in Seq(W \X Chosen) /\ section \in W /\ v \in Chosen
  <2>1. todo \in Seq(W \X Chosen)
    BY <1>0, <1>1 DEF Measuring, Chosen
  <2> HIDE DEF W
  <2> QED BY <1>0, <2>1
<1>3. section \in Sections /\ result.sections[section].ran
  BY <1>0, <1>1, <1>2 DEF Measuring
<1>4. PICK k \in 1 .. Len(selected) : v = selected[k]
  BY <1>2 DEF Chosen
<1>5. v \in VariantSet /\ v.id \in Ids /\ Named(v.id) = v /\ v.bin \notin Lacking
  <2>1. v \in VariantSet
    BY <1>1, <1>4 DEF Types
  <2> HIDE DEF v
  <2> QED BY <1>0, <1>1, <1>4, <2>1, VariantFacts DEF Built
<1> HIDE DEF section, v
<1>6. /\ CodeOf(v) \in Codes
      /\ Clean(result) => CodeOf(v) = built["go"]
                          \/ (v.id = "wasm" /\ "measure" \in result.edited)
  <2>1. CASE v.bin = "wasm"
    <3>1. CodeOf(v) = code /\ code \in Codes /\ v.id = "wasm"
      BY <1>1, <1>5, <2>1, VariantFacts DEF CodeOf, Types
    <3>2. Clean(result) /\ "measure" \notin result.edited => code = built["go"]
      BY <1>0, <1>1 DEF Built
    <3> QED BY <3>1, <3>2
  <2>2. CASE v.bin # "wasm"
    <3>1. v.bin \in Bins /\ Runs(v.bin)
      BY <1>4, <1>5, <2>2, VariantFacts DEF Runs
    <3>2. CodeOf(v) = built[v.bin]
      BY <2>2 DEF CodeOf
    <3>3. built[v.bin] \in Codes /\ (Clean(result) => built[v.bin] = built["go"])
      BY <1>0, <1>1, <3>1 DEF Built
    <3> QED BY <3>2, <3>3
  <2> QED BY <2>1, <2>2
<1>7. number \in Number /\ number.variant = v.id /\ number.code = CodeOf(v) /\ number.format = format
  <2>1. format \in Formats
    BY <1>1 DEF Types
  <2> QED BY <1>5, <1>6, <2>1 DEF Number
<1> HIDE DEF number
<1>8. /\ result' \in Result /\ result'.version = result.version /\ result'.source = result.source
      /\ result'.edited = result.edited
      /\ \A t \in Sections : result'.sections[t].ran <=> result.sections[t].ran
      /\ \A m \in NumbersOf(result') : m = number \/ m \in NumbersOf(result)
  <2>1. result \in Result
    BY <1>1 DEF Types
  <2> QED BY <1>0, <1>3, <1>7, <2>1, RecordNumber
<1>9. Types'
  BY <1>0, <1>1, <1>8 DEF Types
<1>10. Built'
  <2>1. \A b : Runs(b)' <=> Runs(b)
    BY <1>0 DEF Runs
  <2>2. Clean(result)' <=> Clean(result)
    BY <1>8 DEF Clean
  <2> QED BY <1>0, <1>1, <1>8, <2>1, <2>2 DEF Built
<1>11. Measuring'
  <2>1. \A s : Wanted(s)' <=> Wanted(s)
    BY <1>0 DEF Wanted
  <2>2. todo' \in Seq({s \in Sections : Wanted(s)} \X {selected[h] : h \in 1 .. Len(selected)})'
    <3>1. W' = W /\ {selected[h] : h \in 1 .. Len(selected)}' = Chosen
      BY <1>0, <2>1 DEF Chosen
    <3>2. (W \X {selected[h] : h \in 1 .. Len(selected)})' = W \X Chosen
      BY <3>1
    <3> QED BY <1>2, <3>2
  <2>3. result'.version = format' /\ \A s \in Sections : result'.sections[s].ran <=> Wanted(s)'
    BY <1>0, <1>1, <1>8, <2>1 DEF Measuring
  <2>4. Sound(result')
    <3> SUFFICES ASSUME NEW m \in NumbersOf(result')
                 PROVE  m.format = result'.version /\ Named(m.variant).bin \notin Lacking
      BY DEF Sound
    <3>1. CASE m = number
      BY <1>0, <1>1, <1>5, <1>7, <1>8, <3>1 DEF Measuring
    <3>2. CASE m \in NumbersOf(result)
      BY <1>0, <1>1, <1>8, <3>2 DEF Measuring, Sound
    <3> QED BY <1>8, <3>1, <3>2
  <2>5. Clean(result) => Agrees(result', built["go"])
    <3> SUFFICES ASSUME Clean(result) PROVE Agrees(result', built["go"])
      OBVIOUS
    <3>1. Agrees(result, built["go"])
      BY <1>0, <1>1 DEF Measuring
    <3>2. ASSUME NEW m \in NumbersOf(result')
          PROVE  m.code = built["go"] \/ (m.variant = "wasm" /\ "measure" \in result'.edited)
      <4>1. CASE m = number
        BY <1>6, <1>7, <1>8, <4>1
      <4>2. CASE m \in NumbersOf(result)
        BY <1>8, <3>1, <4>2 DEF Agrees
      <4> QED BY <1>8, <4>1, <4>2
    <3> QED BY <1>8, <3>1, <3>2 DEF Agrees
  <2>6. Clean(result)' <=> Clean(result)
    BY <1>8 DEF Clean
  <2>7. Sound(result)' /\ (Clean(result)' => Agrees(result, built["go"])')
    BY <1>0, <2>4, <2>5, <2>6 DEF Sound, Agrees, NumbersOf, Id, Changes
  <2> QED BY <2>2, <2>3, <2>7 DEF Measuring
<1>12. OnDisk'
  BY <1>0, <1>1, OnDiskFrame
<1> QED
  BY <1>0, <1>9, <1>10, <1>11, <1>12 DEF Inv, Idle, Building


(* Combining two results keeps what both are: of one format and, when the  *)
(* id they share names one code, of that code.                             *)
LEMMA MergedGood ==
    ASSUME result \in Result, file.is = "json" => file \in Result /\ Good(file), Good(result)
    PROVE  Merged \in Result /\ Good(Merged)
PROOF
<1> DEFINE sections == [s \in Sections |-> IF result.sections[s].ran THEN result.sections[s]
                                           ELSE file.sections[s]]
           edited == result.edited \union file.edited
<1>1. CASE ~ SameCode
  BY <1>1 DEF Merged
<1>2. CASE SameCode
  <2>1. /\ file \in Result /\ Good(file) /\ result.source # Unknown
        /\ file.version = result.version /\ file.source = result.source
    BY <1>2 DEF SameCode
  <2>2. Merged = [result EXCEPT !.sections = sections, !.edited = edited]
    BY <1>2 DEF Merged
  <2>3. sections \in [Sections -> Section] /\ edited \in SUBSET {"build", "source", "measure"}
    <3>1. \A s \in Sections : result.sections[s] \in Section /\ file.sections[s] \in Section
      BY <2>1, NumberFacts
    <3>2. /\ result.edited \in SUBSET {"build", "source", "measure"}
          /\ file.edited \in SUBSET {"build", "source", "measure"}
      BY <2>1, NumberFacts
    <3> QED BY <3>1, <3>2
  <2>4. \A s \in Sections : sections[s] = IF result.sections[s].ran THEN result.sections[s]
                                          ELSE file.sections[s]
    OBVIOUS
  <2> HIDE DEF sections, edited
  <2>5. /\ Merged \in Result /\ Merged.sections = sections /\ Merged.edited = edited
        /\ Merged.version = result.version /\ Merged.source = result.source
    BY <2>2, <2>3 DEF Result
  <2>6. ASSUME NEW n \in NumbersOf(Merged) PROVE n \in NumbersOf(result) \/ n \in NumbersOf(file)
    <3>1. PICK s \in Sections : Merged.sections[s].ran /\ n \in Merged.sections[s].numbers
      BY NumbersIn
    <3>2. CASE result.sections[s].ran
      <4>1. n \in result.sections[s].numbers
        BY <2>4, <2>5, <3>1, <3>2
      <4> QED BY <3>2, <4>1, NumbersIn
    <3>3. CASE ~ result.sections[s].ran
      <4>1. file.sections[s].ran /\ n \in file.sections[s].numbers
        BY <2>4, <2>5, <3>1, <3>3
      <4> QED BY <4>1, NumbersIn
    <3> QED BY <3>2, <3>3
  <2>7. Sound(Merged)
    <3>1. Sound(result) /\ Sound(file)
      BY <2>1 DEF Good
    <3> QED BY <2>1, <2>5, <2>6, <3>1 DEF Sound
  <2>8. ASSUME HashTellsChanges, Clean(Merged)
        PROVE  \E c \in Codes : Agrees(Merged, c)
    <3>1. Clean(result) /\ Clean(file)
      BY <2>5, <2>8 DEF Clean, edited
    <3>2. PICK c \in Codes : Agrees(result, c)
      BY <2>8, <3>1 DEF Good
    <3>3. PICK d \in Codes : Agrees(file, d)
      BY <2>1, <2>8, <3>1 DEF Good
    <3>4. Id(c) = Id(d)
      BY <2>1, <3>2, <3>3 DEF Agrees
    <3>5. c = d
      BY <2>8, <3>4, IdFacts
    <3>6. result.edited \subseteq Merged.edited /\ file.edited \subseteq Merged.edited
      BY <2>5 DEF edited
    <3>7. ASSUME NEW n \in NumbersOf(Merged)
          PROVE  n.code = c \/ (n.variant = "wasm" /\ "measure" \in Merged.edited)
      <4>1. CASE n \in NumbersOf(result)
        BY <3>2, <3>6, <4>1 DEF Agrees
      <4>2. CASE n \in NumbersOf(file)
        BY <3>3, <3>5, <3>6, <4>2 DEF Agrees
      <4> QED BY <2>6, <4>1, <4>2
    <3>8. Merged.source \in {Unknown, Id(c)}
      BY <2>5, <3>2 DEF Agrees
    <3>9. Agrees(Merged, c)
      BY <3>7, <3>8 DEF Agrees
    <3> QED BY <3>9
  <2> QED BY <2>5, <2>7, <2>8 DEF Good
<1> QED
  BY <1>1, <1>2

LEMMA SaveInv ==
    ASSUME Inv, Save PROVE Inv'
PROOF
<1>0. /\ pc = "measure" /\ todo = <<>> /\ result' = Merged /\ file' = TornFile /\ pc' = "write"
      /\ UNCHANGED <<code, format, built, opts, selected, todo>>
  BY DEF Save
<1>1. Types /\ Built /\ Measuring /\ OnDisk
  BY DEF Inv
<1>2. result \in Result /\ (file.is = "json" => file \in Result /\ Good(file))
  BY <1>1 DEF Types, OnDisk, NoFile, TornFile
<1>3. Good(result)
  <2>1. Sound(result) /\ (Clean(result) => Agrees(result, built["go"]))
    BY <1>0, <1>1 DEF Measuring
  <2>2. built["go"] \in Codes
    <3>1. "go" \in Bins /\ Runs("go")
      BY VariantFacts DEF Runs
    <3> QED BY <1>0, <1>1, <3>1 DEF Built
  <2> QED BY <2>1, <2>2 DEF Good
<1>4. result' \in Result /\ Good(result')
  BY <1>0, <1>2, <1>3, MergedGood
<1>5. Types'
  BY <1>0, <1>1, <1>4 DEF Types
<1>6. OnDisk'
  <2>1. Good(result)'
    BY <1>4 DEF Good, Sound, Clean, Agrees, NumbersOf, HashTellsChanges
  <2>2. file'.is # "json"
    BY <1>0 DEF TornFile
  <2>3. file' = TornFile
    BY <1>0
  <2> QED BY <2>1, <2>2, <2>3 DEF OnDisk, TornFile
<1> QED
  BY <1>0, <1>5, <1>6 DEF Inv, Idle, Building, Built, Measuring

LEMMA WriteInv ==
    ASSUME Inv, Write PROVE Inv'
PROOF
<1>0. /\ pc = "write" /\ pc' = "idle" /\ file' = result /\ selected' = <<>>
      /\ result' = Empty /\ opts' = NoOptions
      /\ UNCHANGED <<code, format, built, todo>>
  BY DEF Write
<1>1. Types /\ Idle /\ OnDisk
  BY DEF Inv
<1>2. Types'
  <2>1. result \in Result
    BY <1>1 DEF Types
  <2>2. selected' \in Seq(VariantSet)
    BY <1>0
  <2> QED BY <1>0, <1>1, <2>1, <2>2, EmptyFacts DEF Types
<1>3. OnDisk'
  <2>1. Good(result)
    BY <1>0, <1>1 DEF OnDisk
  <2>2. Good(file)'
    BY <1>0, <2>1 DEF Good, Sound, Clean, Agrees, NumbersOf, HashTellsChanges
  <2> QED BY <1>0, <2>2 DEF OnDisk
<1>4. Idle'
  BY <1>0, <1>1 DEF Idle
<1> QED
  BY <1>0, <1>2, <1>3, <1>4 DEF Inv, Building, Built, Measuring

LEMMA StutterInv ==
    ASSUME Inv, UNCHANGED vars PROVE Inv'
PROOF
<1>0. /\ UNCHANGED <<code, format, built, file, pc, opts>>
      /\ UNCHANGED <<selected, todo, result>>
  BY DEF vars
<1>1. Types' /\ Idle'
  BY <1>0 DEF Inv, Types, Idle
<1>2. Building' /\ Built'
  BY <1>0 DEF Inv, Building, Built, Runs, Clean
<1>3. Measuring'
  BY <1>0 DEF Inv, Measuring, Wanted, Sound, Agrees, Clean, NumbersOf, Id, Changes
<1>4. OnDisk'
  BY <1>0 DEF Inv, OnDisk, Good, Sound, Agrees, Clean, NumbersOf, Id, Changes, HashTellsChanges
<1> QED
  BY <1>1, <1>2, <1>3, <1>4 DEF Inv

(* Every state a driver can be in, whatever the runs and the edits. *)
THEOREM CompareInductive == Spec => []Inv
PROOF
<1>1. Inv /\ [Next]_vars => Inv'
  <2> SUFFICES ASSUME Inv, [Next]_vars PROVE Inv'
    OBVIOUS
  <2>1. CASE Edit
    BY <2>1, EditInv
  <2>2. CASE Upgrade \/ Abort \/ Remove \/ BuildOnly
    BY <2>2, QuietInv
  <2>3. CASE Start
    BY <2>3, StartInv
  <2>4. CASE Build
    BY <2>4, BuildInv
  <2>5. CASE Skip
    BY <2>5, SkipInv
  <2>6. CASE TakeSource
    BY <2>6, TakeSourceInv
  <2>7. CASE Measure
    BY <2>7, MeasureInv
  <2>8. CASE Save
    BY <2>8, SaveInv
  <2>9. CASE Write
    BY <2>9, WriteInv
  <2>10. CASE UNCHANGED vars
    BY <2>10, StutterInv
  <2> QED
    BY <2>1, <2>2, <2>3, <2>4, <2>5, <2>6, <2>7, <2>8, <2>9, <2>10 DEF Next
<1> QED
  BY <1>1, InitInv, PTL DEF Spec

-----------------------------------------------------------------------------
(***************************************************************************)
(* The types: the binaries a run measures are built, no file that parses   *)
(* holds a row of a backend the CPU lacks, and the file is torn all the    *)
(* while it is written (and stays so when the run is aborted there).       *)
(***************************************************************************)
THEOREM CompareTypeOK == Spec => []TypeOK
PROOF
<1>1. Inv => TypeOK
  <2> SUFFICES ASSUME Inv PROVE TypeOK
    OBVIOUS
  <2>1. Types /\ Idle /\ Built /\ OnDisk
    BY DEF Inv
  <2>2. file.is \in {"none", "torn", "json"}
    BY <2>1 DEF Types, NoFile, TornFile, Result
  <2>3. ASSUME pc \in {"source", "measure"}, NEW k \in 1 .. Len(selected), selected[k].bin # "wasm"
        PROVE  built[selected[k].bin] # NotBuilt
    <3>1. selected[k] \in VariantSet
      BY <2>1 DEF Types
    <3>2. selected[k].bin \in Bins /\ Runs(selected[k].bin)
      BY <2>3, <3>1, VariantFacts DEF Runs
    <3>3. built[selected[k].bin] \in Codes
      BY <2>1, <2>3, <3>2 DEF Built
    <3> QED BY <3>3, EmptyFacts
  <2>4. pc = "write" => file = TornFile
    BY <2>1 DEF OnDisk
  <2>5. file.is = "json" => \A n \in NumbersOf(file) : Named(n.variant).bin \notin Lacking
    BY <2>1 DEF OnDisk, Good, Sound
  <2> QED BY <2>1, <2>2, <2>3, <2>4, <2>5 DEF TypeOK, Types, Idle
<1> QED
  BY <1>1, CompareInductive, PTL

(***************************************************************************)
(* Whatever runs follow each other, whichever are aborted, and with edits  *)
(* of the code between them, a results file holds the numbers of one code. *)
(* An edit while a run measures leaves that true of all but the numbers of *)
(* wasm; of a file that a run wrote while the code was edited before the   *)
(* source was noted nothing is said.  The ids must tell codes apart: they  *)
(* do not when a diff outgrows tryRun.                                     *)
(***************************************************************************)
THEOREM CompareNeverMixesCode ==
    ASSUME HashTellsChanges
    PROVE  Spec => []NeverMixesCode
PROOF
<1>1. Inv => NeverMixesCode
  <2> SUFFICES ASSUME Inv, file.is = "json" PROVE NeverMixesCode
    BY DEF NeverMixesCode
  <2> DEFINE wasm == {n \in NumbersOf(file) : n.variant = "wasm"}
             numbers == NumbersOf(file) \ IF "measure" \in file.edited THEN wasm ELSE {}
             codes == {n.code : n \in numbers}
  <2>1. Good(file)
    BY DEF Inv, OnDisk
  <2>2. \A n \in NumbersOf(file) : n.format = file.version
    BY <2>1 DEF Good, Sound
  <2>3. ASSUME Clean(file)
        PROVE  /\ \A n \in numbers : file.source \in {Unknown, Id(n.code)}
               /\ Cardinality(codes) <= 1
    <3>1. PICK c \in Codes : Agrees(file, c)
      BY <2>1, <2>3 DEF Good
    <3>2. \A n \in numbers : n.code = c
      BY <3>1 DEF Agrees
    <3>3. file.source \in {Unknown, Id(c)}
      BY <3>1 DEF Agrees
    <3>4. codes \subseteq {c}
      BY <3>2
    <3>5. codes = {} \/ codes = {c}
      <4> HIDE DEF codes
      <4> QED BY <3>4
    <3>6. Cardinality(codes) <= 1
      <4> HIDE DEF codes
      <4>1. Cardinality({}) = 0 /\ Cardinality({c}) = 1
        BY FS_EmptySet, FS_Singleton
      <4> QED BY <3>5, <4>1
    <3> QED BY <3>2, <3>3, <3>6
  <2> QED BY <2>2, <2>3 DEF NeverMixesCode, Clean
<1> QED
  BY <1>1, CompareInductive, PTL

(***************************************************************************)
(* A merge replaces the sections that were measured and keeps the others.  *)
(***************************************************************************)
THEOREM CompareKeepsSections == Spec => KeepsOtherSections
PROOF
<1>1. Inv /\ [Next]_vars =>
         [ (pc = "measure" /\ pc' = "write" /\ SameCode) =>
              \A s \in Sections :
                  result'.sections[s] = IF Wanted(s) THEN result.sections[s]
                                        ELSE file.sections[s] ]_vars
  <2> SUFFICES ASSUME Inv, Next, pc = "measure", pc' = "write", SameCode, NEW s \in Sections
               PROVE  result'.sections[s] = IF Wanted(s) THEN result.sections[s]
                                            ELSE file.sections[s]
    OBVIOUS
  <2>1. Save
    BY DEF Next, Edit, Upgrade, Remove, Start, Build, Skip, BuildOnly, TakeSource, Measure,
           Write, Abort
  <2>2. Types /\ Measuring
    BY DEF Inv
  <2>3. result' = [result EXCEPT !.sections = [t \in Sections |->
                      IF result.sections[t].ran THEN result.sections[t] ELSE file.sections[t]],
                   !.edited = result.edited \union file.edited]
    BY <2>1 DEF Save, Merged
  <2>4. result'.sections[s] = IF result.sections[s].ran THEN result.sections[s]
                              ELSE file.sections[s]
    BY <2>2, <2>3 DEF Types, Result
  <2>5. result.sections[s].ran <=> Wanted(s)
    BY <2>2 DEF Measuring
  <2> QED BY <2>4, <2>5
<1> QED
  BY <1>1, CompareInductive, PTL DEF Spec, KeepsOtherSections

-----------------------------------------------------------------------------
(* Runs of bytes of the stream. *)

LEMMA BytesFacts ==
    ASSUME NEW from \in Nat, NEW to \in Nat, from <= to
    PROVE  /\ Bytes(from, to) \in Seq(Nat)
           /\ Len(Bytes(from, to)) = to - from
           /\ \A k \in 1 .. to - from : Bytes(from, to)[k] = from + k
PROOF
<1>1. to - from \in Nat
  OBVIOUS
<1>2. Bytes(from, to) \in [1 .. to - from -> Nat]
  BY <1>1 DEF Bytes
<1>3. Bytes(from, to) \in Seq(Nat)
  BY <1>1, <1>2
<1>4. Len(Bytes(from, to)) = to - from
  BY <1>1, <1>2, <1>3
<1> QED
  BY <1>1, <1>3, <1>4 DEF Bytes

LEMMA BytesLength ==
    ASSUME NEW at \in Nat, NEW n \in Nat
    PROVE  Bytes(at, at + n) \in Seq(Nat) /\ Len(Bytes(at, at + n)) = n
PROOF
<1> DEFINE to == at + n
<1>1. to \in Nat /\ at <= to /\ to - at = n
  OBVIOUS
<1> HIDE DEF to
<1>2. Bytes(at, to) \in Seq(Nat) /\ Len(Bytes(at, to)) = to - at
  BY <1>1, BytesFacts
<1> QED
  BY <1>1, <1>2 DEF to

LEMMA BytesNone ==
    ASSUME NEW at \in Nat
    PROVE  Bytes(at, at) = <<>>
PROOF
<1>1. Bytes(at, at) \in Seq(Nat) /\ Len(Bytes(at, at)) = 0
  BY BytesFacts
<1> QED
  BY <1>1

LEMMA BytesJoin ==
    ASSUME NEW a \in Nat, NEW b \in Nat, NEW c \in Nat, a <= b, b <= c
    PROVE  Bytes(a, b) \o Bytes(b, c) = Bytes(a, c)
PROOF
<1> DEFINE s == Bytes(a, b)
           t == Bytes(b, c)
           u == Bytes(a, c)
<1>1. /\ s \in Seq(Nat) /\ Len(s) = b - a /\ \A k \in 1 .. b - a : s[k] = a + k
      /\ t \in Seq(Nat) /\ Len(t) = c - b /\ \A k \in 1 .. c - b : t[k] = b + k
      /\ u \in Seq(Nat) /\ Len(u) = c - a /\ \A k \in 1 .. c - a : u[k] = a + k
  <2>1. a <= c
    OBVIOUS
  <2>2. s \in Seq(Nat) /\ Len(s) = b - a /\ \A k \in 1 .. b - a : s[k] = a + k
    BY BytesFacts
  <2>3. t \in Seq(Nat) /\ Len(t) = c - b /\ \A k \in 1 .. c - b : t[k] = b + k
    BY BytesFacts
  <2>4. u \in Seq(Nat) /\ Len(u) = c - a /\ \A k \in 1 .. c - a : u[k] = a + k
    BY <2>1, BytesFacts
  <2> HIDE DEF s, t, u
  <2> QED BY <2>2, <2>3, <2>4
<1> HIDE DEF s, t, u
<1>2. s \o t \in Seq(Nat) /\ Len(s \o t) = c - a
  BY <1>1
<1>3. ASSUME NEW k \in 1 .. c - a PROVE (s \o t)[k] = u[k]
  <2>1. CASE k <= b - a
    <3>1. k \in 1 .. b - a /\ (s \o t)[k] = s[k]
      BY <1>1, <2>1
    <3> QED BY <1>1, <3>1
  <2>2. CASE b - a < k
    <3>1. k - (b - a) \in 1 .. c - b /\ b + (k - (b - a)) = a + k
      BY <2>2
    <3>2. (s \o t)[k] = t[k - (b - a)]
      <4>1. k \in 1 .. Len(s) + Len(t) /\ ~ (k <= Len(s))
        BY <1>1, <2>2
      <4>2. (s \o t)[k] = t[k - Len(s)]
        BY <1>1, <4>1, ConcatProperties
      <4> QED BY <1>1, <4>2
    <3>3. t[k - (b - a)] = b + (k - (b - a))
      BY <1>1, <3>1
    <3> QED BY <1>1, <3>1, <3>2, <3>3
  <2>3. k <= b - a \/ b - a < k
    OBVIOUS
  <2> QED BY <2>1, <2>2, <2>3
<1> HIDE DEF s, t, u
<1>4. s \o t = u
  <2> DEFINE v == s \o t
  <2>1. v \in Seq(Nat) /\ Len(v) = c - a /\ \A k \in 1 .. c - a : v[k] = u[k]
    BY <1>2, <1>3
  <2> HIDE DEF v
  <2>2. v = u
    BY <1>1, <2>1
  <2> QED BY <2>2 DEF v
<1> QED
  BY <1>4 DEF s, t, u

LEMMA BytesCut ==
    ASSUME NEW a \in Nat, NEW b \in Nat, NEW n \in Nat, a + n <= b
    PROVE  /\ SubSeq(Bytes(a, b), 1, n) = Bytes(a, a + n)
           /\ SubSeq(Bytes(a, b), n + 1, b - a) = Bytes(a + n, b)
PROOF
<1> DEFINE s == Bytes(a, b)
           first == SubSeq(s, 1, n)
           rest == SubSeq(s, n + 1, b - a)
<1>1. s \in Seq(Nat) /\ Len(s) = b - a /\ \A k \in 1 .. b - a : s[k] = a + k
  BY BytesFacts
<1>2. /\ Bytes(a, a + n) \in Seq(Nat) /\ Len(Bytes(a, a + n)) = n
      /\ \A k \in 1 .. n : Bytes(a, a + n)[k] = a + k
  <2>1. a + n \in Nat /\ a <= a + n /\ a + n - a = n
    OBVIOUS
  <2> QED BY <2>1, BytesFacts
<1>3. /\ Bytes(a + n, b) \in Seq(Nat) /\ Len(Bytes(a + n, b)) = b - a - n
      /\ \A k \in 1 .. b - a - n : Bytes(a + n, b)[k] = a + n + k
  <2>1. a + n \in Nat /\ b - (a + n) = b - a - n
    OBVIOUS
  <2> QED BY <2>1, BytesFacts
<1> HIDE DEF s
<1>4. first \in Seq(Nat) /\ Len(first) = n /\ \A k \in 1 .. n : first[k] = s[k]
  BY <1>1
<1>5. /\ rest \in Seq(Nat) /\ Len(rest) = b - a - n
      /\ \A k \in 1 .. b - a - n : rest[k] = s[n + k]
  BY <1>1
<1> HIDE DEF first, rest
<1>6. first = Bytes(a, a + n)
  <2>1. ASSUME NEW k \in 1 .. n PROVE first[k] = Bytes(a, a + n)[k]
    <3>1. k \in 1 .. b - a
      OBVIOUS
    <3> QED BY <1>1, <1>2, <1>4, <3>1
  <2> QED BY <1>2, <1>4, <2>1
<1>7. rest = Bytes(a + n, b)
  <2>1. ASSUME NEW k \in 1 .. b - a - n PROVE rest[k] = Bytes(a + n, b)[k]
    <3>1. n + k \in 1 .. b - a /\ a + (n + k) = a + n + k
      OBVIOUS
    <3> QED BY <1>1, <1>3, <1>5, <3>1
  <2> QED BY <1>3, <1>5, <2>1
<1> QED
  BY <1>6, <1>7 DEF s, first, rest

LEMMA BytesApart ==
    ASSUME NEW a \in Nat, NEW b \in Nat, NEW n \in Nat \ {0}, Bytes(a, a + n) = Bytes(b, b + n)
    PROVE  a = b
PROOF
<1>1. /\ 1 \in 1 .. (a + n) - a /\ 1 \in 1 .. (b + n) - b
      /\ a + n \in Nat /\ a <= a + n /\ b + n \in Nat /\ b <= b + n
  OBVIOUS
<1>2. Bytes(a, a + n)[1] = a + 1
  BY <1>1, BytesFacts
<1>3. Bytes(b, b + n)[1] = b + 1
  BY <1>1, BytesFacts
<1> QED
  BY <1>2, <1>3

-----------------------------------------------------------------------------
(* Where frames begin. *)

(* start is the sum of the frames before each, up to frame n. *)
StartsUpTo(start, sizes, n) ==
    /\ start \in [1 .. n + 1 -> Nat] /\ start[1] = 0
    /\ \A f \in 1 .. n : start[f + 1] = start[f] + HEADER + sizes[f]

LEMMA StartsExist ==
    ASSUME NEW sizes \in Seq(Nat), NEW n \in 0 .. Len(sizes)
    PROVE  \E start : StartsUpTo(start, sizes, n)
PROOF
<1> SUFFICES ASSUME ~ \E start : StartsUpTo(start, sizes, n) PROVE FALSE
  OBVIOUS
<1> DEFINE T == {m \in 0 .. Len(sizes) : ~ \E start : StartsUpTo(start, sizes, m)}
<1>1. T \subseteq Nat /\ T # {}
  OBVIOUS
<1>2. PICK m \in T : \A k \in T : m <= k
  BY <1>1, LeastNumber
<1>3. m \in 0 .. Len(sizes) /\ HEADER \in Nat /\ Len(sizes) \in Nat
  BY FramesAssumption
<1>4. CASE m = 0
  <2>1. StartsUpTo([f \in 1 .. 0 + 1 |-> 0], sizes, 0)
    BY DEF StartsUpTo
  <2> QED BY <1>4, <2>1
<1>5. CASE m # 0
  <2>1. m - 1 \in 0 .. Len(sizes) /\ m - 1 \in Nat /\ m \in 1 .. Len(sizes)
    BY <1>3, <1>5
  <2>2. m - 1 \notin T
    BY <1>2, <1>3
  <2>3. PICK g : StartsUpTo(g, sizes, m - 1)
    BY <2>1, <2>2
  <2>4. /\ g \in [1 .. m -> Nat] /\ g[1] = 0
        /\ \A f \in 1 .. m - 1 : g[f + 1] = g[f] + HEADER + sizes[f]
    BY <2>1, <2>3 DEF StartsUpTo
  <2>5. sizes[m] \in Nat /\ g[m] \in Nat
    BY <2>1, <2>4
  <2> DEFINE h == [f \in 1 .. m + 1 |-> IF f = m + 1 THEN g[m] + HEADER + sizes[m] ELSE g[f]]
  <2>6. h \in [1 .. m + 1 -> Nat]
    BY <1>3, <2>1, <2>4, <2>5
  <2>7. h[1] = 0
    BY <2>1, <2>4
  <2>8. ASSUME NEW f \in 1 .. m PROVE h[f + 1] = h[f] + HEADER + sizes[f]
    BY <2>1, <2>4
  <2>9. StartsUpTo(h, sizes, m)
    BY <2>6, <2>7, <2>8 DEF StartsUpTo
  <2> QED BY <2>9
<1> QED
  BY <1>4, <1>5

(* The recursion in Starts defines the function it describes. *)
LEMMA StartsFacts ==
    ASSUME NEW sizes \in Seq(Nat)
    PROVE  StartsUpTo(Starts(sizes), sizes, Len(sizes))
PROOF
<1> DEFINE n == Len(sizes)
           Rule(g) == [f \in 1 .. n + 1 |-> IF f = 1 THEN 0 ELSE g[f - 1] + HEADER + sizes[f - 1]]
<1>1. n \in Nat
  OBVIOUS
<1>2. PICK start : StartsUpTo(start, sizes, n)
  BY <1>1, StartsExist
<1>3. start = Rule(start)
  <2>1. start \in [1 .. n + 1 -> Nat]
    BY <1>2 DEF StartsUpTo
  <2>2. ASSUME NEW f \in 1 .. n + 1 PROVE start[f] = Rule(start)[f]
    <3>1. CASE f = 1
      BY <1>2, <3>1 DEF StartsUpTo
    <3>2. CASE f # 1
      <4>1. f - 1 \in 1 .. n /\ (f - 1) + 1 = f
        BY <1>1, <3>2
      <4>2. start[f] = start[f - 1] + HEADER + sizes[f - 1]
        BY <1>2, <4>1 DEF StartsUpTo
      <4> QED BY <3>2, <4>2
    <3> QED BY <3>1, <3>2
  <2> QED BY <2>1, <2>2
<1>4. Starts(sizes) = Rule(Starts(sizes))
  BY <1>3 DEF Starts
<1> DEFINE s == Starts(sizes)
<1> HIDE DEF n, s
<1>5. DOMAIN s = 1 .. n + 1 /\ s[1] = 0
  BY <1>1, <1>4 DEF n, s
<1>6. ASSUME NEW f \in 1 .. n PROVE s[f + 1] = s[f] + HEADER + sizes[f]
  <2>1. f + 1 \in 1 .. n + 1 /\ f + 1 # 1 /\ (f + 1) - 1 = f
    BY <1>1
  <2> QED BY <1>4, <2>1 DEF n, s
<1>7. ASSUME NEW f \in 1 .. n + 1 PROVE s[f] \in Nat
  <2> SUFFICES ASSUME s[f] \notin Nat PROVE FALSE
    OBVIOUS
  <2> DEFINE T == {k \in 1 .. n + 1 : s[k] \notin Nat}
  <2>1. T \subseteq Nat /\ T # {}
    BY <1>1
  <2>2. PICK k \in T : \A j \in T : k <= j
    BY <2>1, LeastNumber
  <2>3. k # 1
    BY <1>5, <2>2
  <2>4. k - 1 \in 1 .. n /\ k - 1 \in 1 .. n + 1 /\ ~ (k <= k - 1)
    BY <1>1, <2>3
  <2>5. s[k - 1] \in Nat
    BY <2>2, <2>4
  <2>6. s[(k - 1) + 1] = s[k - 1] + HEADER + sizes[k - 1]
    BY <1>6, <2>4
  <2>7. sizes[k - 1] \in Nat /\ HEADER \in Nat /\ (k - 1) + 1 = k
    BY <2>4, FramesAssumption DEF n
  <2>8. s[k] \in Nat
    BY <2>5, <2>6, <2>7
  <2> QED BY <2>8
<1>8. s = [f \in 1 .. n + 1 |-> s[f]]
  BY <1>4 DEF n, s
<1>9. s \in [1 .. n + 1 -> Nat]
  BY <1>7, <1>8
<1> QED
  BY <1>5, <1>6, <1>9 DEF StartsUpTo, n, s

(* Frames follow one another without a gap. *)
LEMMA FrameStarts ==
    ASSUME frames \in Seq(Nat)
    PROVE  /\ FrameStart(1) = 0
           /\ \A f \in 1 .. Len(frames) + 1 : FrameStart(f) \in Nat
           /\ \A f \in 1 .. Len(frames) :
                 FrameStart(f + 1) = FrameStart(f) + HEADER + frames[f]
PROOF
<1>1. StartsUpTo(Starts(frames), frames, Len(frames))
  BY StartsFacts
<1> QED
  BY <1>1 DEF StartsUpTo, FrameStart

LEMMA StartsGrow ==
    ASSUME frames \in Seq(Nat), NEW f \in 1 .. Len(frames), NEW g \in f + 1 .. Len(frames) + 1
    PROVE  FrameStart(f + 1) <= FrameStart(g)
PROOF
<1> SUFFICES ASSUME ~ (FrameStart(f + 1) <= FrameStart(g)) PROVE FALSE
  OBVIOUS
<1> DEFINE T == {k \in f + 1 .. Len(frames) + 1 : ~ (FrameStart(f + 1) <= FrameStart(k))}
<1>1. T \subseteq Nat /\ T # {}
  OBVIOUS
<1>2. PICK k \in T : \A j \in T : k <= j
  BY <1>1, LeastNumber
<1>3. Len(frames) \in Nat /\ f + 1 \in 1 .. Len(frames) + 1
  OBVIOUS
<1>4. FrameStart(f + 1) \in Nat /\ HEADER \in Nat
  BY <1>3, FrameStarts, FramesAssumption
<1>5. k # f + 1
  BY <1>2, <1>4
<1>6. k - 1 \in f + 1 .. Len(frames) + 1 /\ k - 1 \in 1 .. Len(frames) /\ ~ (k <= k - 1)
  BY <1>2, <1>3, <1>5
<1>7. FrameStart(f + 1) <= FrameStart(k - 1)
  BY <1>2, <1>6
<1>8. /\ FrameStart((k - 1) + 1) = FrameStart(k - 1) + HEADER + frames[k - 1]
      /\ FrameStart(k - 1) \in Nat
  BY <1>3, <1>6, FrameStarts
<1>9. frames[k - 1] \in Nat /\ (k - 1) + 1 = k
  BY <1>6
<1> QED
  BY <1>2, <1>4, <1>7, <1>8, <1>9

(* No two frames have the same header. *)
LEMMA StartsApart ==
    ASSUME frames \in Seq(Nat), NEW f \in 1 .. Len(frames), NEW g \in 1 .. Len(frames) + 1,
           f < g
    PROVE  FrameStart(f) + HEADER <= FrameStart(g) /\ FrameStart(f) < FrameStart(g)
PROOF
<1>1. g \in f + 1 .. Len(frames) + 1 /\ f \in 1 .. Len(frames) + 1 /\ frames[f] \in Nat
  OBVIOUS
<1>2. FrameStart(f + 1) <= FrameStart(g)
  BY <1>1, StartsGrow
<1>3. FrameStart(f + 1) = FrameStart(f) + HEADER + frames[f] /\ FrameStart(f) \in Nat
      /\ FrameStart(g) \in Nat
  BY <1>1, FrameStarts
<1>4. HEADER \in Nat /\ HEADER > 0
  BY FramesAssumption
<1> QED
  BY <1>1, <1>2, <1>3, <1>4

(* Counting on within a multiple. *)
LEMMA RemainderWithin ==
    ASSUME NEW d \in Nat \ {0}, NEW x \in Nat, NEW j \in Nat, (x % d) + j < d
    PROVE  (x + j) % d = (x % d) + j
PROOF
<1> DEFINE q == x \div d
         p == (x + j) \div d
         r == x % d
         s == (x + j) % d
<1>1. q \in Nat /\ r \in 0 .. d - 1 /\ x = d * q + r
  OBVIOUS
<1>2. p \in Nat /\ s \in 0 .. d - 1 /\ x + j = d * p + s
  <2>1. x + j \in Nat
    OBVIOUS
  <2> QED BY <2>1
<1>3. r + j < d
  OBVIOUS
<1> HIDE DEF q, p, r, s
<1>4. d * (p - q) = r + j - s
  <2>1. d * (p - q) = d * p - d * q /\ d * p \in Nat /\ d * q \in Nat
    BY <1>1, <1>2
  <2> DEFINE dp == d * p
            dq == d * q
  <2> HIDE DEF dp, dq
  <2>2. dp \in Nat /\ dq \in Nat /\ x = dq + r /\ x + j = dp + s /\ d * (p - q) = dp - dq
     BY <2>1, <1>1, <1>2 DEF dp, dq
  <2> QED BY <2>2, <1>1, <1>2
<1>5. p - q = 0
  <2>1. p - q \in Int /\ \A z \in Int : z >= 1 => d * z >= d
    BY <1>1, <1>2
  <2>2. \A z \in Int : z <= -1 => d * z <= - d
    OBVIOUS
  <2>3. r + j - s < d /\ r + j - s > - d
    BY <1>1, <1>2, <1>3
  <2> DEFINE z == p - q
  <2> HIDE DEF z
  <2>4. z \in Int /\ ~ (z >= 1) /\ ~ (z <= -1)
    BY <1>4, <2>1, <2>2, <2>3 DEF z
  <2>5. z = 0
    BY <2>4
  <2> QED BY <2>5 DEF z
<1> QED
  <2>1. p = q
    BY <1>1, <1>2, <1>5
  <2> DEFINE dp == d * p
  <2>2. x = dp + r /\ x + j = dp + s /\ dp \in Nat
    BY <1>1, <1>2, <2>1
  <2> HIDE DEF dp
  <2>3. s = r + j
    BY <1>1, <1>2, <2>2
  <2> QED BY <2>3 DEF r, s

-----------------------------------------------------------------------------
(* The state of a CLI. *)

(* What reads have handed out: the rest of what was taken is pending. *)
Handed == taken - Len(pending)

(* The frame read now is the first without a result. *)
Frame == Len(results) + 1

Kinds ==
    /\ cli \in {"rust", "go", "wasm"}
    /\ mode \in {"hash", "frames", "bench"}
    /\ frames \in Seq(Nat) /\ avail \in Nat /\ avail \in 0 .. FrameStart(Len(frames) + 1)
    /\ mode = "bench" => args \in Benches /\ frames = <<>>
    /\ stage \in CASE mode = "hash"   -> {"body", "exit"}
                   [] mode = "frames" -> {"header", "body", "exit"}
                   [] mode = "bench"  -> {"pass", "exit"}
    /\ eof \in BOOLEAN /\ broken \in BOOLEAN /\ failed \in BOOLEAN
    /\ limit \in Nat \union {Unlimited} /\ round \in Nat
    /\ hashed \in Seq(Nat)
    /\ broken => stage = "exit" /\ failed
    /\ stage # "exit" => ~failed

(* No byte of the stream is lost, doubled or moved by a read. *)
Streamed ==
    /\ taken \in 0 .. avail
    /\ pending \in Seq(Nat) /\ Len(pending) <= taken
    /\ pending = Bytes(Handed, taken)
    /\ eof => taken = avail
    /\ cli # "wasm" => IF Reading THEN Len(pending) <= FillSize ELSE broken \/ pending = <<>>

HashRead ==
    mode = "hash" =>
        /\ limit = Unlimited
        /\ stage = "body" => results = <<>> /\ hashed = Bytes(0, Handed)
        /\ stage = "exit" => /\ failed <=> broken
                             /\ results = IF broken THEN <<>> ELSE <<Line(Bytes(0, avail))>>

FramesRead ==
    mode = "frames" =>
        /\ results \in Seq(Seq(Nat)) /\ Len(results) <= Len(frames)
        /\ \A f \in 1 .. Len(results) :
              results[f] = Line(Bytes(FrameStart(f) + HEADER, FrameStart(f + 1)))
        /\ FrameStart(Frame) <= avail
        /\ stage = "header" => Handed = FrameStart(Frame)
        /\ stage = "body" => /\ Frame <= Len(frames) /\ limit \in Nat
                             /\ FrameStart(Frame) + HEADER <= Handed
                             /\ hashed = Bytes(FrameStart(Frame) + HEADER, Handed)
                             /\ Handed + limit = FrameStart(Frame + 1)
        /\ (stage = "exit" /\ ~broken) =>
              /\ failed <=> FrameStart(Frame) < avail
              /\ Frame <= Len(frames) => avail < FrameStart(Frame + 1)

Repeated(len) == [k \in 1 .. len |-> 1 + ((k - 1) % args.buf)]

Passed ==
    mode = "bench" =>
        /\ round \in 0 .. args.iters + 1
        /\ stage = "exit" <=> failed \/ round = args.iters + 1
        /\ failed => BenchRefused
        /\ BenchRefused => round = 0
        /\ Endless => stage = "pass" /\ round = 0 /\ hashed = <<>>
        /\ Len(hashed) <= PassSize /\ hashed = Repeated(Len(hashed))
        /\ results = IF round < 2 THEN <<>> ELSE <<Repeated(args.size)>>
        /\ ~broken /\ pending = <<>>

FramesInv == Kinds /\ Streamed /\ HashRead /\ FramesRead /\ Passed

-----------------------------------------------------------------------------
(* What a read gives. *)

LEMMA ReadSizeNat ==
    ASSUME NEW r \in Nat
    PROVE  READ_SIZES[(r % Len(READ_SIZES)) + 1] \in Nat \ {0}
PROOF
<1>1. READ_SIZES \in Seq(Nat \ {0}) /\ Len(READ_SIZES) \in Nat \ {0}
  BY FramesAssumption
<1>2. r % Len(READ_SIZES) \in 0 .. Len(READ_SIZES) - 1
  BY <1>1
<1>3. (r % Len(READ_SIZES)) + 1 \in 1 .. Len(READ_SIZES)
  BY <1>1, <1>2
<1> QED
  BY <1>1, <1>3

LEMMA FillSizeNat ==
    ASSUME limit \in Nat \union {Unlimited}, round \in Nat, Reading
    PROVE  FillSize \in Nat \ {0}
PROOF
<1>1. ReadSize \in Nat \ {0} /\ HEADER \in Nat \ {0}
  BY ReadSizeNat, FramesAssumption DEF ReadSize
<1> QED
  BY <1>1 DEF FillSize, Reading, Unlimited

LEMMA FillSizeNext ==
    ASSUME limit' \in Nat \union {Unlimited}, round' \in Nat, Reading'
    PROVE  FillSize' \in Nat \ {0}
PROOF
<1>1. ReadSize' \in Nat \ {0} /\ HEADER \in Nat \ {0}
  BY ReadSizeNat, FramesAssumption DEF ReadSize
<1> QED
  BY <1>1 DEF FillSize, Reading, Unlimited

(* The bytes a read hands out are the next of the stream, and what is left *)
(* pending follows them; fewer than asked for are the last of the input.   *)
LEMMA HandedOut ==
    ASSUME Kinds, Streamed, ReadDone, HandOut, taken' = taken
    PROVE  /\ Len(Out) \in Nat /\ Len(Out) <= FillSize /\ Len(Out) <= Len(pending)
           /\ FillSize \in Nat \ {0}
           /\ Handed \in Nat /\ Handed + Len(Out) <= taken
           /\ Out = Bytes(Handed, Handed + Len(Out)) /\ Out \in Seq(Nat)
           /\ pending' \in Seq(Nat) /\ Len(pending') = Len(pending) - Len(Out)
           /\ Handed' = Handed + Len(Out)
           /\ pending' = Bytes(Handed', taken)
           /\ cli # "wasm" => pending' = <<>>
           /\ eof' \in BOOLEAN /\ (eof' => eof)
           /\ Len(Out) < FillSize =>
                 taken = avail /\ pending' = <<>> /\ Handed + Len(Out) = avail
PROOF
<1>1. Reading /\ FillSize \in Nat \ {0}
  BY FillSizeNat DEF ReadDone, Kinds
<1>2. pending \in Seq(Nat) /\ Len(pending) \in Nat /\ taken \in Nat /\ Len(pending) <= taken
  BY DEF Streamed, Kinds
<1>3. Handed \in Nat /\ Handed + Len(pending) = taken /\ pending = Bytes(Handed, taken)
  BY <1>2 DEF Streamed, Handed
<1> DEFINE m == IF Len(pending) < FillSize THEN Len(pending) ELSE FillSize
<1>4. m \in Nat /\ m <= Len(pending) /\ m <= FillSize /\ Handed + m <= taken
  BY <1>1, <1>2, <1>3
<1>5. Out = SubSeq(pending, 1, m)
  BY DEF Out
<1> HIDE DEF m
<1>6. Out = Bytes(Handed, Handed + m)
  <2>1. SubSeq(Bytes(Handed, taken), 1, m) = Bytes(Handed, Handed + m)
    BY <1>2, <1>3, <1>4, BytesCut
  <2> QED BY <1>3, <1>5, <2>1
<1>7. Out \in Seq(Nat) /\ Len(Out) = m
  BY <1>3, <1>4, <1>6, BytesLength
<1>8. pending' = SubSeq(pending, m + 1, Len(pending))
  BY <1>7 DEF HandOut
<1>9. pending' = Bytes(Handed + m, taken)
  <2>1. Len(pending) = taken - Handed
    BY <1>2, <1>3
  <2>2. SubSeq(Bytes(Handed, taken), m + 1, taken - Handed) = Bytes(Handed + m, taken)
    BY <1>2, <1>3, <1>4, BytesCut
  <2> QED BY <1>3, <1>8, <2>1, <2>2
<1>10. pending' \in Seq(Nat) /\ Len(pending') = taken - (Handed + m)
  <2>1. Handed + m \in Nat
    BY <1>3, <1>4
  <2> QED BY <1>2, <1>4, <1>9, <2>1, BytesFacts
<1>11. Len(pending') = Len(pending) - m /\ Handed' = Handed + m
  BY <1>2, <1>3, <1>4, <1>10 DEF Handed
<1>12. ASSUME m = Len(pending) PROVE pending' = <<>>
  BY <1>2, <1>10, <1>11, <1>12
<1>13. cli # "wasm" => m = Len(pending)
  <2>1. cli # "wasm" => Len(pending) <= FillSize
    BY <1>1 DEF Streamed
  <2> QED BY <1>1, <1>2, <2>1 DEF m
<1>14. eof' \in BOOLEAN /\ (eof' => eof)
  BY DEF HandOut, Kinds
<1>15. ASSUME m < FillSize PROVE taken = avail /\ m = Len(pending) /\ Handed + m = avail
  <2>1. m = Len(pending) /\ ~ (Len(pending) >= FillSize)
    BY <1>1, <1>2, <1>15 DEF m
  <2>2. eof
    BY <2>1 DEF ReadDone
  <2> QED BY <1>3, <2>1, <2>2 DEF Streamed
<1> QED
  BY <1>1, <1>3, <1>4, <1>6, <1>7, <1>9, <1>10, <1>11, <1>12, <1>13, <1>14, <1>15

-----------------------------------------------------------------------------
(* Each action keeps the invariant. *)

LEMMA SameInput ==
    ASSUME UNCHANGED input
    PROVE  /\ cli' = cli /\ mode' = mode /\ args' = args /\ frames' = frames /\ avail' = avail
           /\ \A f : (FrameStart(f))' = FrameStart(f)'
           /\ Starts(frames)' = Starts(frames)
PROOF
  BY DEF input, FrameStart

LEMMA FramesInitInv == FramesInit => FramesInv
PROOF
<1> SUFFICES ASSUME FramesInit PROVE FramesInv
  OBVIOUS
<1> USE DEF FramesInit
<1>1. frames \in Seq(Nat) /\ <<>> \in Seq(Nat) /\ <<>> \in Seq(Seq(Nat)) /\ Len(<<>>) = 0
  <2>1. <<>> \in Seq(Nat) /\ <<>> \in Seq(Seq(Nat)) /\ Len(<<>>) = 0
    OBVIOUS
  <2>2. FrameLists \subseteq Seq(Nat)
    BY FramesAssumption
  <2> QED BY <2>1, <2>2
<1>2. FrameStart(1) = 0 /\ FrameStart(Len(frames) + 1) \in Nat
  BY <1>1, FrameStarts
<1>3. Bytes(0, 0) = <<>> /\ Handed = 0 /\ Frame = 1
  <2>1. Bytes(0, 0) = <<>>
    BY BytesNone
  <2>2. taken = 0 /\ Len(pending) = 0 /\ Len(results) = 0
    BY <1>1
  <2> HIDE DEF FramesInit
  <2>3. Handed = 0
    BY <2>2 DEF Handed
  <2>4. Frame = 1
    BY <2>2 DEF Frame
  <2> QED BY <2>1, <2>3, <2>4
<1>4. avail \in Nat /\ avail \in 0 .. FrameStart(Len(frames) + 1)
  BY <1>1, <1>2
<1>5. Kinds
  BY <1>1, <1>4, FramesAssumption DEF Kinds, Unlimited
<1>6. Streamed
  <2>1. Reading => Len(pending) <= FillSize
    BY <1>1, FillSizeNat
  <2> QED BY <1>1, <1>2, <1>3, <1>4, <2>1 DEF Streamed
<1>7. HashRead
  BY <1>3 DEF HashRead
<1>8. FramesRead
  BY <1>1, <1>2, <1>3, <1>4 DEF FramesRead
<1>9. Passed
  <2> SUFFICES ASSUME mode = "bench" PROVE Passed
    BY DEF Passed
  <2>1. args \in Benches /\ args.iters \in Nat \ {0} /\ args.size \in Nat /\ WARM_UP \in Nat
    BY FramesAssumption
  <2>2. Repeated(0) = <<>>
    BY DEF Repeated
  <2>3. PassSize \in Nat
    BY <2>1 DEF PassSize
  <2> QED BY <1>1, <2>1, <2>2, <2>3 DEF Passed
<1> QED
  BY <1>5, <1>6, <1>7, <1>8, <1>9 DEF FramesInv

LEMMA HandedSame ==
    ASSUME NEW n \in Nat, taken \in Nat, Len(pending) \in Nat,
           taken' = taken + n, Len(pending') = Len(pending) + n
    PROVE  Handed' = Handed
PROOF
  BY DEF Handed

(* A step of reading changes nothing but what is pending. *)
LEMMA TakenInv ==
    ASSUME FramesInv, Filling, UNCHANGED <<input, broken, stage, limit, round, hashed, results, failed>>,
           NEW n \in Nat, taken' = taken + n, taken + n <= avail,
           pending' = pending \o Bytes(taken, taken + n),
           cli # "wasm" => Len(pending) + n <= FillSize,
           eof' \in BOOLEAN, eof' => taken' = avail
    PROVE  FramesInv'
PROOF
<1>1. Kinds /\ Streamed /\ HashRead /\ FramesRead /\ Passed /\ Reading /\ mode # "bench"
  BY DEF FramesInv, Filling, Reading, Kinds
<1>2. /\ taken \in Nat /\ avail \in Nat /\ pending \in Seq(Nat) /\ Len(pending) \in Nat
      /\ Len(pending) <= taken /\ Handed \in Nat /\ Handed <= taken /\ pending = Bytes(Handed, taken)
  <2>1. /\ taken \in Nat /\ avail \in Nat /\ pending \in Seq(Nat) /\ Len(pending) \in Nat
        /\ Len(pending) <= taken /\ pending = Bytes(Handed, taken)
    BY <1>1 DEF Streamed, Kinds
  <2> QED BY <2>1 DEF Handed
<1>3. taken + n \in Nat /\ taken <= taken + n /\ taken + n - taken = n
  BY <1>2
<1>4. Bytes(taken, taken + n) \in Seq(Nat) /\ Len(Bytes(taken, taken + n)) = n
  BY <1>2, BytesLength
<1>5. pending' \in Seq(Nat) /\ Len(pending') = Len(pending) + n
  BY <1>2, <1>4, ConcatProperties
<1>6. Handed' = Handed
  <2>1. taken' = taken + n /\ Len(pending') = Len(pending) + n
    BY <1>5
  <2>2. taken \in Nat /\ Len(pending) \in Nat
    BY <1>2
  <2> QED BY <2>1, <2>2, HandedSame
<1>7. pending' = Bytes(Handed, taken + n)
  BY <1>2, <1>3, BytesJoin
<1>8. Kinds'
  BY <1>1, SameInput DEF Kinds, FrameStart
<1>9. Reading' = Reading /\ FillSize' = FillSize
  BY DEF Reading, FillSize, ReadSize
<1>10. Streamed'
  BY <1>1, <1>2, <1>3, <1>5, <1>6, <1>7, <1>9, SameInput DEF Streamed
<1>11. HashRead'
  BY <1>1, <1>6, SameInput DEF HashRead, Line, Refuses
<1>12. FramesRead'
  BY <1>1, <1>6, SameInput DEF FramesRead, FrameStart, Line, Refuses, Frame
<1>13. Passed'
  BY <1>1, SameInput DEF Passed
<1> QED
  BY <1>8, <1>10, <1>11, <1>12, <1>13 DEF FramesInv

LEMMA ReadInv == FramesInv /\ (Read \/ ReadChunk) => FramesInv'
PROOF
<1> SUFFICES ASSUME FramesInv, Read \/ ReadChunk PROVE FramesInv'
  OBVIOUS
<1>1. /\ taken \in Nat /\ avail \in Nat /\ taken <= avail /\ Len(pending) \in Nat
      /\ limit \in Nat \union {Unlimited} /\ round \in Nat /\ eof \in BOOLEAN
  BY DEF FramesInv, Streamed, Kinds
<1>2. Filling /\ ~ eof /\ eof' = eof
  BY DEF Read, ReadChunk, Filling
<1>3. FillSize \in Nat
  BY <1>1, <1>2, FillSizeNat DEF Filling
<1>4. UNCHANGED <<input, broken, stage, limit, round, hashed, results, failed>>
  BY DEF Read, ReadChunk
<1>5. \E n \in Nat : /\ taken' = taken + n /\ taken + n <= avail
                     /\ pending' = pending \o Bytes(taken, taken + n)
                     /\ cli # "wasm" => Len(pending) + n <= FillSize
  <2>1. CASE Read
    <3>1. PICK n \in 1 .. FillSize - Len(pending) :
             taken + n <= avail /\ pending' = pending \o Bytes(taken, taken + n)
             /\ taken' = taken + n
      BY <2>1 DEF Read
    <3> QED BY <1>1, <1>3, <3>1
  <2>2. CASE ReadChunk
    <3>1. PICK n \in 1 .. avail - taken :
             pending' = pending \o Bytes(taken, taken + n) /\ taken' = taken + n
      BY <2>2 DEF ReadChunk
    <3>2. cli = "wasm"
      BY <2>2 DEF ReadChunk
    <3> QED BY <1>1, <3>1, <3>2
  <2> QED BY <2>1, <2>2
<1> QED
  BY <1>1, <1>2, <1>4, <1>5, TakenInv

LEMMA ReadEndInv == FramesInv /\ ReadEnd => FramesInv'
PROOF
<1> SUFFICES ASSUME FramesInv, ReadEnd PROVE FramesInv'
  OBVIOUS
<1>1. /\ taken \in Nat /\ avail \in Nat /\ Len(pending) \in Nat /\ pending \in Seq(Nat)
      /\ limit \in Nat \union {Unlimited} /\ round \in Nat
  BY DEF FramesInv, Streamed, Kinds
<1>2. Filling /\ taken = avail /\ eof' = TRUE /\ taken' = taken /\ pending' = pending
      /\ UNCHANGED <<input, broken, stage, limit, round, hashed, results, failed>>
  BY DEF ReadEnd
<1>3. FillSize \in Nat /\ Len(pending) + 0 <= FillSize
  BY <1>1, <1>2, FillSizeNat DEF Filling
<1>4. pending' = pending \o Bytes(taken, taken + 0) /\ taken' = taken + 0 /\ 0 \in Nat
  BY <1>1, <1>2, BytesNone
<1> QED
  BY <1>1, <1>2, <1>3, <1>4, TakenInv

LEMMA ReadFailsInv == FramesInv /\ ReadFails => FramesInv'
PROOF
<1> SUFFICES ASSUME FramesInv, ReadFails PROVE FramesInv'
  OBVIOUS
<1>1. Kinds /\ Streamed /\ HashRead /\ FramesRead /\ mode # "bench"
  BY DEF FramesInv, ReadFails, Filling, Reading, Kinds
<1>2. /\ stage' = "exit" /\ broken' = TRUE /\ failed' = TRUE /\ Handed' = Handed /\ Frame' = Frame
      /\ UNCHANGED <<input, taken, pending, eof, limit, round, hashed, results>>
      /\ stage \in {"header", "body"}
  BY DEF ReadFails, Handed, Frame, Filling, Reading
<1>3. Kinds'
  BY <1>1, <1>2, SameInput DEF Kinds, FrameStart
<1>4. Streamed'
  BY <1>1, <1>2, SameInput DEF Streamed, Reading
<1>5. HashRead'
  BY <1>1, <1>2, SameInput DEF HashRead, Kinds
<1>6. FramesRead'
  BY <1>1, <1>2, SameInput DEF FramesRead, FrameStart, Line, Refuses
<1>7. Passed'
  BY <1>1, <1>2, SameInput DEF Passed
<1> QED
  BY <1>3, <1>4, <1>5, <1>6, <1>7 DEF FramesInv

LEMMA HandOutStreamed ==
    ASSUME Kinds, Streamed, ReadDone, HandOut, taken' = taken, broken' = broken,
           UNCHANGED input, limit' \in Nat \union {Unlimited}, round' \in Nat
    PROVE  Streamed'
PROOF
<1>1. /\ Len(Out) \in Nat /\ Handed \in Nat
      /\ pending' \in Seq(Nat) /\ Len(pending') = Len(pending) - Len(Out)
      /\ pending' = Bytes(Handed', taken)
      /\ cli # "wasm" => pending' = <<>>
      /\ eof' => eof
  BY HandedOut
<1>2. /\ taken \in 0 .. avail /\ Len(pending) \in Nat /\ Len(pending) <= taken
      /\ eof => taken = avail
  BY DEF Streamed
<1>3. Len(pending') <= taken
  BY <1>1, <1>2
<1>4. cli # "wasm" => IF Reading' THEN Len(pending') <= FillSize' ELSE pending' = <<>>
  <2> SUFFICES ASSUME cli # "wasm", Reading' PROVE Len(pending') <= FillSize'
    BY <1>1
  <2>1. FillSize' \in Nat
    BY FillSizeNext
  <2>2. pending' = <<>>
    BY <1>1
  <2>3. Len(pending') = 0
    BY <2>2
  <2> QED BY <2>1, <2>3
<1> QED
  BY <1>1, <1>2, <1>3, <1>4, SameInput DEF Streamed

LEMMA ReadHeaderInv == FramesInv /\ ReadHeader => FramesInv'
PROOF
<1> SUFFICES ASSUME FramesInv, ReadHeader PROVE FramesInv'
  OBVIOUS
<1>1. Kinds /\ Streamed /\ FramesRead /\ mode = "frames" /\ stage = "header" /\ stage' = "body"
  BY DEF FramesInv, ReadHeader, Kinds
<1>2. /\ ReadDone /\ HandOut /\ Len(Out) = HEADER
      /\ UNCHANGED <<input, broken, taken, results, failed>>
      /\ round' = 0 /\ hashed' = <<>> /\ limit' = HeaderSize(Out)
  BY DEF ReadHeader
<1>3. /\ Handed \in Nat /\ Handed + HEADER <= taken /\ Out = Bytes(Handed, Handed + HEADER)
      /\ Handed' = Handed + HEADER /\ eof' \in BOOLEAN
  BY <1>1, <1>2, HandedOut
<1>4. /\ Frame \in Nat \ {0} /\ Frame <= Len(frames) + 1 /\ Handed = FrameStart(Frame)
      /\ frames \in Seq(Nat) /\ Len(frames) \in Nat
      /\ taken \in Nat /\ taken <= avail /\ avail \in Nat
      /\ avail <= FrameStart(Len(frames) + 1) /\ FrameStart(Len(frames) + 1) \in Nat
  <2>1. /\ frames \in Seq(Nat) /\ avail \in Nat /\ avail \in 0 .. FrameStart(Len(frames) + 1)
        /\ Len(frames) \in Nat /\ taken \in 0 .. avail
    BY <1>1 DEF Kinds, Streamed
  <2>2. FrameStart(Len(frames) + 1) \in Nat
    BY <2>1, FrameStarts
  <2>3. Frame \in Nat \ {0} /\ Frame <= Len(frames) + 1 /\ Handed = FrameStart(Frame)
    BY <1>1, <2>1 DEF FramesRead, Frame
  <2> QED BY <2>1, <2>2, <2>3
<1>5. HEADER \in Nat \ {0}
  BY FramesAssumption
<1>6. Frame # Len(frames) + 1
  BY <1>3, <1>4, <1>5
<1>7. Frame \in 1 .. Len(frames) /\ frames[Frame] \in Nat
  BY <1>4, <1>6
<1>8. HeaderSize(Out) = frames[Frame]
  <2>1. Out = Bytes(FrameStart(Frame), FrameStart(Frame) + HEADER)
    BY <1>3, <1>4
  <2>2. ASSUME NEW f \in 1 .. Len(frames), Out = Bytes(FrameStart(f), FrameStart(f) + HEADER)
        PROVE  f = Frame
    <3>1. f \in 1 .. Len(frames) + 1 /\ Frame \in 1 .. Len(frames) + 1
      BY <1>4, <1>7
    <3>2. FrameStart(f) \in Nat /\ FrameStart(Frame) \in Nat
      BY <1>4, <3>1, FrameStarts
    <3>3. FrameStart(f) = FrameStart(Frame)
      BY <1>5, <2>1, <2>2, <3>2, BytesApart
    <3>4. ~ (f < Frame)
      BY <1>4, <3>1, <3>2, <3>3, StartsApart
    <3>5. ~ (Frame < f)
      BY <1>4, <1>7, <3>1, <3>2, <3>3, StartsApart
    <3> QED BY <1>7, <3>4, <3>5
  <2> QED BY <1>7, <2>1, <2>2 DEF HeaderSize
<1>9. limit' \in Nat /\ limit' = frames[Frame]
  BY <1>2, <1>7, <1>8
<1>10. FrameStart(Frame + 1) = FrameStart(Frame) + HEADER + frames[Frame] /\ FrameStart(Frame) \in Nat
  BY <1>4, <1>7, FrameStarts
<1>11. Kinds'
  <2>1. hashed' \in Seq(Nat)
    BY <1>2
  <2> QED BY <1>1, <1>2, <1>3, <1>9, <2>1, SameInput DEF Kinds, FrameStart
<1>12. Streamed'
  BY <1>1, <1>2, <1>9, HandOutStreamed
<1>13. Frame' = Frame /\ mode' = mode
  BY <1>2, SameInput DEF Frame
<1>14. hashed' = Bytes(FrameStart(Frame) + HEADER, Handed')
  <2>1. FrameStart(Frame) + HEADER \in Nat /\ FrameStart(Frame) + HEADER = Handed'
    BY <1>3, <1>4, <1>5
  <2> QED BY <1>2, <2>1, BytesNone
<1>15. Handed' + limit' = FrameStart(Frame + 1) /\ FrameStart(Frame) + HEADER <= Handed'
  BY <1>3, <1>4, <1>5, <1>7, <1>9, <1>10
<1>16. FramesRead'
  BY <1>1, <1>2, <1>7, <1>9, <1>13, <1>14, <1>15, SameInput DEF FramesRead, FrameStart, Line, Refuses
<1> QED
  BY <1>1, <1>11, <1>12, <1>13, <1>16 DEF FramesInv, HashRead, Passed

LEMMA EndOfFramesInv == FramesInv /\ EndOfFrames => FramesInv'
PROOF
<1> SUFFICES ASSUME FramesInv, EndOfFrames PROVE FramesInv'
  OBVIOUS
<1>1. Kinds /\ Streamed /\ FramesRead /\ mode = "frames" /\ stage = "header" /\ stage' = "exit"
      /\ ~ broken
  BY DEF FramesInv, EndOfFrames, Kinds
<1>2. /\ ReadDone /\ HandOut /\ Len(Out) < HEADER
      /\ UNCHANGED <<input, broken, taken, limit, round, hashed, results>>
      /\ failed' = (Out # <<>>)
  BY DEF EndOfFrames
<1>3. FillSize = HEADER /\ HEADER \in Nat \ {0}
  BY <1>1, FramesAssumption DEF FillSize
<1>4. /\ Handed \in Nat /\ eof' \in BOOLEAN /\ Out \in Seq(Nat) /\ Len(Out) \in Nat
      /\ taken = avail /\ Handed + Len(Out) = avail
  BY <1>1, <1>2, <1>3, HandedOut
<1>5. /\ Frame \in Nat \ {0} /\ Handed = FrameStart(Frame) /\ frames \in Seq(Nat) /\ Len(frames) \in Nat
      /\ limit \in Nat \union {Unlimited} /\ round \in Nat
  BY <1>1 DEF FramesRead, Frame, Kinds
<1>6. (Out # <<>>) <=> Len(Out) > 0
  BY <1>4
<1>7. failed' <=> FrameStart(Frame) < avail
  <2>1. Len(Out) > 0 <=> FrameStart(Frame) < avail
    BY <1>4, <1>5
  <2>2. failed' <=> Out # <<>>
    BY <1>2
  <2> QED BY <1>6, <2>1, <2>2
<1>8. ASSUME Frame <= Len(frames) PROVE avail < FrameStart(Frame + 1)
  <2>1. Frame \in 1 .. Len(frames) /\ frames[Frame] \in Nat
    BY <1>5, <1>8
  <2>2. FrameStart(Frame + 1) = FrameStart(Frame) + HEADER + frames[Frame]
    BY <1>5, <2>1, FrameStarts
  <2> QED BY <1>2, <1>3, <1>4, <1>5, <2>1, <2>2
<1>9. Kinds'
  BY <1>1, <1>2, <1>4, SameInput DEF Kinds, FrameStart
<1>10. Streamed'
  BY <1>1, <1>2, <1>5, HandOutStreamed
<1>11. Frame' = Frame /\ mode' = mode
  BY <1>2, SameInput DEF Frame
<1>12. FramesRead'
  BY <1>1, <1>2, <1>7, <1>8, <1>11, SameInput DEF FramesRead, FrameStart, Line, Refuses
<1> QED
  BY <1>1, <1>9, <1>10, <1>11, <1>12 DEF FramesInv, HashRead, Passed

(* What is hashed of a payload is the run of bytes read so far. *)
LEMMA HashedMore ==
    ASSUME Kinds, Streamed, ReadDone, HandOut, taken' = taken,
           NEW from \in Nat, from <= Handed, hashed = Bytes(from, Handed),
           hashed' = hashed \o Out
    PROVE  hashed' \in Seq(Nat) /\ hashed' = Bytes(from, Handed')
PROOF
<1>1. /\ Handed \in Nat /\ Len(Out) \in Nat /\ Handed' = Handed + Len(Out)
      /\ Out = Bytes(Handed, Handed + Len(Out))
  BY HandedOut
<1> DEFINE to == Handed + Len(Out)
<1>2. to \in Nat /\ Handed <= to /\ from <= to
  BY <1>1
<1>3. Handed' = to /\ Out = Bytes(Handed, to)
  BY <1>1
<1> HIDE DEF to
<1>4. hashed' = Bytes(from, to)
  BY <1>1, <1>2, <1>3, BytesJoin
<1>5. Bytes(from, to) \in Seq(Nat)
  BY <1>2, BytesFacts
<1> QED
  BY <1>3, <1>4, <1>5

LEMMA ReadBodyInv == FramesInv /\ ReadBody => FramesInv'
PROOF
<1> SUFFICES ASSUME FramesInv, ReadBody PROVE FramesInv'
  OBVIOUS
<1>1. /\ Kinds /\ Streamed /\ HashRead /\ FramesRead /\ stage = "body" /\ stage' = "body"
      /\ mode \in {"hash", "frames"}
  BY DEF FramesInv, ReadBody, Kinds
<1>2. /\ ReadDone /\ HandOut /\ Len(Out) = FillSize /\ hashed' = hashed \o Out /\ round' = round + 1
      /\ limit' = (IF limit = Unlimited THEN Unlimited ELSE limit - Len(Out))
      /\ UNCHANGED <<input, broken, taken, results, failed>>
  BY <1>1 DEF ReadBody
<1>3. /\ Handed \in Nat /\ Len(Out) \in Nat /\ Handed' = Handed + Len(Out) /\ eof' \in BOOLEAN
      /\ Handed + Len(Out) <= taken
  BY <1>1, <1>2, HandedOut
<1>4. limit \in Nat \union {Unlimited} /\ round \in Nat /\ round' \in Nat
  BY <1>1, <1>2 DEF Kinds
<1>5. limit # Unlimited => limit \in Nat /\ Len(Out) <= limit
  <2>1. Reading /\ ReadSize \in Nat
    BY <1>2, <1>4, ReadSizeNat DEF ReadDone, ReadSize
  <2>2. limit # Unlimited => limit \in Nat
    BY <1>4
  <2>3. limit \in Nat => FillSize <= limit
    BY <1>1, <2>1 DEF FillSize, Unlimited
  <2> QED BY <1>2, <2>2, <2>3
<1>6. limit' \in Nat \union {Unlimited} /\ (limit # Unlimited => limit' = limit - Len(Out) /\ limit' \in Nat)
  BY <1>2, <1>3, <1>5
<1>7. Streamed'
  BY <1>1, <1>2, <1>4, <1>6, HandOutStreamed
<1>8. Frame' = Frame /\ mode' = mode
  BY <1>2, SameInput DEF Frame
<1>9. CASE mode = "hash"
  <2>1. hashed = Bytes(0, Handed) /\ limit = Unlimited /\ results = <<>>
    BY <1>1, <1>9 DEF HashRead
  <2>2. hashed' \in Seq(Nat) /\ hashed' = Bytes(0, Handed')
    BY <1>1, <1>2, <1>3, <2>1, HashedMore
  <2>3. Kinds'
    BY <1>1, <1>2, <1>3, <1>4, <1>6, <2>2, SameInput DEF Kinds, FrameStart
  <2>4. HashRead'
    BY <1>1, <1>2, <2>1, <2>2 DEF HashRead
  <2> QED BY <1>7, <1>8, <1>9, <2>3, <2>4 DEF FramesInv, FramesRead, Passed
<1>10. CASE mode = "frames"
  <2>1. /\ Frame <= Len(frames) /\ limit \in Nat /\ FrameStart(Frame) + HEADER <= Handed
        /\ hashed = Bytes(FrameStart(Frame) + HEADER, Handed) /\ Handed + limit = FrameStart(Frame + 1)
    BY <1>1, <1>10 DEF FramesRead
  <2>2. FrameStart(Frame) \in Nat /\ FrameStart(Frame) + HEADER \in Nat
    <3>1. frames \in Seq(Nat) /\ Frame \in 1 .. Len(frames) + 1
      BY <1>1, <1>10, <2>1 DEF Kinds, FramesRead, Frame
    <3> QED BY <3>1, FrameStarts, FramesAssumption
  <2>3. hashed' \in Seq(Nat) /\ hashed' = Bytes(FrameStart(Frame) + HEADER, Handed')
    BY <1>1, <1>2, <2>1, <2>2, HashedMore
  <2>4. limit # Unlimited
    BY <2>1 DEF Unlimited
  <2>5. FrameStart(Frame) + HEADER <= Handed' /\ Handed' + limit' = FrameStart(Frame + 1) /\ limit' \in Nat
    BY <1>3, <1>6, <2>1, <2>2, <2>4
  <2>6. Kinds'
    BY <1>1, <1>2, <1>3, <1>4, <1>6, <2>3, SameInput DEF Kinds, FrameStart
  <2>7. FramesRead'
    BY <1>1, <1>2, <1>8, <1>10, <2>1, <2>3, <2>5, SameInput DEF FramesRead, FrameStart, Line, Refuses
  <2> QED BY <1>7, <1>8, <1>10, <2>6, <2>7 DEF FramesInv, HashRead, Passed
<1> QED
  BY <1>1, <1>9, <1>10

LEMMA ReadLastInv == FramesInv /\ ReadLast => FramesInv'
PROOF
<1> SUFFICES ASSUME FramesInv, ReadLast PROVE FramesInv'
  OBVIOUS
<1>1. /\ Kinds /\ Streamed /\ HashRead /\ FramesRead /\ stage = "body"
      /\ mode \in {"hash", "frames"} /\ ~ failed /\ ~ broken
  BY DEF FramesInv, ReadLast, Kinds
<1>2. /\ ReadDone /\ HandOut /\ Len(Out) < FillSize /\ hashed' = hashed \o Out
      /\ UNCHANGED <<input, broken, taken, limit, round>>
      /\ limit = Unlimited => PrintResult /\ failed' = failed
      /\ limit # Unlimited => stage' = "exit" /\ failed' = TRUE /\ results' = results
  BY DEF ReadLast
<1>3. /\ Handed \in Nat /\ Len(Out) \in Nat /\ Handed' = Handed + Len(Out) /\ eof' \in BOOLEAN
      /\ taken = avail /\ Handed + Len(Out) = avail /\ FillSize \in Nat
  BY <1>1, <1>2, HandedOut
<1>4. limit \in Nat \union {Unlimited} /\ round \in Nat
  BY <1>1 DEF Kinds
<1>5. Streamed'
  BY <1>1, <1>2, <1>4, HandOutStreamed
<1>6. mode' = mode
  BY <1>2, SameInput
<1>7. CASE mode = "hash"
  <2>1. hashed = Bytes(0, Handed) /\ limit = Unlimited /\ results = <<>>
    BY <1>1, <1>7 DEF HashRead
  <2>2. hashed' \in Seq(Nat) /\ hashed' = Bytes(0, Handed')
    BY <1>1, <1>2, <1>3, <2>1, HashedMore
  <2>3. results' = <<Line(Bytes(0, avail))>> /\ stage' = "exit" /\ failed' = failed
    <3>1. results' = Append(<<>>, Line(hashed')) /\ stage' = "exit" /\ failed' = failed
      BY <1>2, <1>7, <2>1 DEF PrintResult
    <3>2. Handed' = avail
      BY <1>3
    <3> QED BY <2>2, <3>1, <3>2
  <2>4. Kinds'
    BY <1>1, <1>2, <1>3, <1>7, <2>2, <2>3, SameInput DEF Kinds, FrameStart
  <2>5. HashRead'
    BY <1>1, <1>2, <2>1, <2>3, SameInput DEF HashRead, Line, Refuses
  <2> QED BY <1>5, <1>6, <1>7, <2>4, <2>5 DEF FramesInv, FramesRead, Passed
<1>8. CASE mode = "frames"
  <2>1. /\ Frame <= Len(frames) /\ limit \in Nat /\ FrameStart(Frame) + HEADER <= Handed
        /\ hashed = Bytes(FrameStart(Frame) + HEADER, Handed) /\ Handed + limit = FrameStart(Frame + 1)
    BY <1>1, <1>8 DEF FramesRead
  <2>2. /\ FrameStart(Frame) \in Nat /\ FrameStart(Frame) + HEADER \in Nat
        /\ HEADER \in Nat \ {0}
    <3>1. frames \in Seq(Nat) /\ Frame \in 1 .. Len(frames) + 1
      BY <1>1, <1>8, <2>1 DEF Kinds, FramesRead, Frame
    <3> QED BY <3>1, FrameStarts, FramesAssumption
  <2>3. hashed' \in Seq(Nat)
    BY <1>1, <1>2, <2>1, <2>2, HashedMore
  <2>4. stage' = "exit" /\ failed' = TRUE /\ results' = results
    BY <1>2, <2>1 DEF Unlimited
  <2>5. Frame' = Frame
    BY <2>4 DEF Frame
  <2>6. FillSize <= limit
    <3>1. ReadSize \in Nat
      BY <1>4, ReadSizeNat DEF ReadSize
    <3> QED BY <1>1, <2>1, <3>1 DEF FillSize, Unlimited
  <2>7. FrameStart(Frame) < avail /\ avail < FrameStart(Frame + 1)
    BY <1>2, <1>3, <2>1, <2>2, <2>6
  <2>8. Kinds'
    BY <1>1, <1>2, <1>3, <1>8, <2>3, <2>4, SameInput DEF Kinds, FrameStart
  <2>9. FramesRead'
    BY <1>1, <1>2, <1>8, <2>4, <2>5, <2>7, SameInput DEF FramesRead, FrameStart, Line, Refuses
  <2> QED BY <1>5, <1>6, <1>8, <2>8, <2>9 DEF FramesInv, HashRead, Passed
<1> QED
  BY <1>1, <1>7, <1>8

LEMMA FinishInv == FramesInv /\ Finish => FramesInv'
PROOF
<1> SUFFICES ASSUME FramesInv, Finish PROVE FramesInv'
  OBVIOUS
<1>1. /\ Kinds /\ Streamed /\ FramesRead /\ stage = "body" /\ mode = "frames"
      /\ ~ failed /\ ~ broken /\ limit = 0
  BY DEF FramesInv, Finish, Kinds, HashRead, Unlimited
<1>2. /\ UNCHANGED <<input, broken, taken, pending, eof, limit, round, failed, hashed>>
      /\ results' = Append(results, Line(hashed)) /\ stage' = "header"
  BY <1>1 DEF Finish, PrintResult
<1>3. /\ taken \in Nat /\ avail \in Nat /\ taken <= avail /\ Len(pending) \in Nat
      /\ Len(pending) <= taken /\ Handed \in Nat /\ Handed <= taken
  <2>1. /\ taken \in Nat /\ avail \in Nat /\ taken <= avail /\ Len(pending) \in Nat
        /\ Len(pending) <= taken
    BY <1>1 DEF Streamed, Kinds
  <2> QED BY <2>1 DEF Handed
<1>4. /\ Frame \in 1 .. Len(frames) /\ results \in Seq(Seq(Nat)) /\ Len(results) \in Nat
      /\ Frame = Len(results) + 1 /\ Line(hashed) \in Seq(Nat)
      /\ hashed = Bytes(FrameStart(Frame) + HEADER, Handed) /\ Handed + 0 = FrameStart(Frame + 1)
      /\ \A f \in 1 .. Len(results) :
            results[f] = Line(Bytes(FrameStart(f) + HEADER, FrameStart(f + 1)))
  <2>1. hashed \in Seq(Nat) /\ ErrorLine \in Seq(Nat)
    BY <1>1 DEF Kinds, ErrorLine
  <2>2. Line(hashed) \in Seq(Nat)
    BY <2>1 DEF Line
  <2> QED BY <1>1, <2>2 DEF FramesRead, Frame, Kinds
<1>5. /\ results' \in Seq(Seq(Nat)) /\ Len(results') = Frame /\ results'[Frame] = Line(hashed)
      /\ \A f \in 1 .. Len(results) : results'[f] = results[f]
  BY <1>2, <1>4, AppendProperties
<1>6. ASSUME NEW f \in 1 .. Frame
      PROVE  results'[f] = Line(Bytes(FrameStart(f) + HEADER, FrameStart(f + 1)))
  <2>1. CASE f = Frame
    BY <1>3, <1>4, <1>5, <2>1
  <2>2. CASE f # Frame
    <3>1. f \in 1 .. Len(results)
      BY <1>4, <2>2
    <3> QED BY <1>4, <1>5, <3>1
  <2> QED BY <2>1, <2>2
<1>7. Handed' = Handed /\ Frame' = Frame + 1 /\ mode' = mode
  BY <1>2, <1>5, SameInput DEF Handed, Frame
<1>8. Kinds'
  BY <1>1, <1>2, SameInput DEF Kinds, FrameStart
<1>9. Streamed'
  <2>1. cli # "wasm" => pending = <<>>
    BY <1>1 DEF Streamed, Reading
  <2>2. cli # "wasm" => Reading' /\ FillSize' = HEADER /\ HEADER \in Nat /\ Len(pending') = 0
    BY <1>2, <2>1, FramesAssumption DEF Reading, FillSize
  <2>3. cli # "wasm" => IF Reading' THEN Len(pending') <= FillSize' ELSE broken' \/ pending' = <<>>
    BY <2>2
  <2> QED BY <1>1, <1>2, <1>7, <2>3, SameInput DEF Streamed
<1>10. Len(results') <= Len(frames) /\ FrameStart(Frame + 1) <= avail /\ Handed = FrameStart(Frame + 1)
  BY <1>3, <1>4, <1>5
<1>11. FramesRead'
  BY <1>1, <1>2, <1>5, <1>6, <1>7, <1>10, SameInput DEF FramesRead, FrameStart, Line, Refuses
<1> QED
  BY <1>1, <1>7, <1>8, <1>9, <1>11 DEF FramesInv, HashRead, Passed

(* The least of three is one of them and no greater than any. *)
LEMMA LeastOfThree ==
    ASSUME NEW a \in Nat, NEW b \in Nat, NEW c \in Nat
    PROVE  LET m == Min({a, b, c}) IN m \in {a, b, c} /\ m <= a /\ m <= b /\ m <= c
PROOF
<1> DEFINE S == {a, b, c}
<1>1. \E x \in S : \A y \in S : x <= y
  OBVIOUS
<1>2. Min(S) \in S /\ \A y \in S : Min(S) <= y
  BY <1>1 DEF Min
<1> QED
  BY <1>2

LEMMA RepeatedFacts ==
    ASSUME NEW len \in Nat, args.buf \in Nat \ {0}
    PROVE  /\ Repeated(len) \in Seq(Nat) /\ Len(Repeated(len)) = len
           /\ \A k \in 1 .. len : Repeated(len)[k] = 1 + ((k - 1) % args.buf)
PROOF
<1>1. ASSUME NEW k \in 1 .. len PROVE 1 + ((k - 1) % args.buf) \in Nat
  <2>1. k - 1 \in Nat
    OBVIOUS
  <2> QED BY <2>1
<1>2. Repeated(len) \in [1 .. len -> Nat]
  BY <1>1 DEF Repeated
<1>3. Repeated(len) \in Seq(Nat) /\ Len(Repeated(len)) = len
  BY <1>2
<1> QED
  BY <1>3 DEF Repeated

LEMMA WriteRepeatedInv == FramesInv /\ WriteRepeated => FramesInv'
PROOF
<1> SUFFICES ASSUME FramesInv, WriteRepeated PROVE FramesInv'
  OBVIOUS
<1> DEFINE off == Len(hashed)
           pos == off % args.buf
           n == WriteLen(off)
<1>1. Kinds /\ Streamed /\ Passed /\ mode = "bench" /\ stage = "pass" /\ off < PassSize
  BY DEF FramesInv, WriteRepeated, Kinds
<1>2. /\ hashed' = hashed \o Bytes(pos, pos + n)
      /\ UNCHANGED <<input, broken, taken, pending, eof, stage, limit, round, results, failed>>
  BY DEF WriteRepeated
<1>3. /\ args.buf \in Nat \ {0} /\ args.chunk \in Nat /\ args.size \in Nat
      /\ WARM_UP \in Nat /\ PassSize \in Nat
  <2>1. args \in Benches
    BY <1>1 DEF Kinds
  <2>2. /\ args.buf \in Nat \ {0} /\ args.chunk \in Nat /\ args.size \in Nat
        /\ WARM_UP \in Nat
    BY <2>1, FramesAssumption
  <2> QED BY <2>2 DEF PassSize
<1>4. off \in Nat /\ pos \in Nat /\ pos < args.buf /\ hashed \in Seq(Nat)
  BY <1>1, <1>3 DEF Kinds
<1>5. n \in Nat /\ pos + n <= args.buf /\ off + n <= PassSize /\ n <= args.chunk
  <2> DEFINE a == args.chunk
             b == args.buf - pos
             c == PassSize - off
  <2>1. a \in Nat /\ b \in Nat /\ c \in Nat /\ n = Min({a, b, c})
    BY <1>1, <1>3, <1>4 DEF WriteLen
  <2> HIDE DEF a, b, c
  <2>2. n \in {a, b, c} /\ n <= a /\ n <= b /\ n <= c
    BY <2>1, LeastOfThree
  <2>3. n \in Nat
    BY <2>1, <2>2
  <2> HIDE DEF n, pos, off
  <2> QED BY <1>3, <1>4, <2>2, <2>3 DEF a, b, c
<1> HIDE DEF n, pos
<1>6. /\ Bytes(pos, pos + n) \in Seq(Nat) /\ Len(Bytes(pos, pos + n)) = n
      /\ \A k \in 1 .. n : Bytes(pos, pos + n)[k] = pos + k
  <2> DEFINE to == pos + n
  <2>1. to \in Nat /\ pos <= to /\ to - pos = n
    BY <1>4, <1>5
  <2> HIDE DEF to
  <2>2. /\ Bytes(pos, to) \in Seq(Nat) /\ Len(Bytes(pos, to)) = to - pos
        /\ \A k \in 1 .. to - pos : Bytes(pos, to)[k] = pos + k
    BY <1>4, <2>1, BytesFacts
  <2> QED BY <2>1, <2>2 DEF to
<1>7. hashed' \in Seq(Nat) /\ Len(hashed') = off + n
  <2> DEFINE s == Bytes(pos, pos + n)
  <2>1. s \in Seq(Nat) /\ Len(s) = n /\ hashed' = hashed \o s
    BY <1>2, <1>6
  <2> HIDE DEF s
  <2>2. hashed \o s \in Seq(Nat) /\ Len(hashed \o s) = Len(hashed) + Len(s)
    BY <1>4, <2>1, ConcatProperties
  <2> QED BY <2>1, <2>2
<1>8. /\ hashed = Repeated(off) /\ Repeated(off) \in Seq(Nat)
      /\ \A k \in 1 .. off : hashed[k] = 1 + ((k - 1) % args.buf)
  <2>1. hashed = Repeated(off)
    BY <1>1 DEF Passed
  <2> HIDE DEF off
  <2> QED BY <1>3, <1>4, <2>1, RepeatedFacts
<1>9. ASSUME NEW k \in 1 .. off + n PROVE hashed'[k] = 1 + ((k - 1) % args.buf)
  <2>1. hashed'[k] = IF k <= off THEN hashed[k] ELSE Bytes(pos, pos + n)[k - off]
    <3>1. k \in 1 .. Len(hashed) + Len(Bytes(pos, pos + n))
      BY <1>6
    <3> QED BY <1>2, <1>4, <1>6, <3>1, ConcatProperties
  <2>2. CASE k <= off
    BY <1>4, <1>8, <2>1, <2>2
  <2>3. CASE ~ (k <= off)
    <3> DEFINE j == k - off - 1
    <3>1. j \in Nat /\ j < n /\ k - off \in 1 .. n /\ k - 1 = off + j /\ k - off = j + 1
      BY <1>4, <1>5, <2>3
    <3> HIDE DEF j
    <3>2. hashed'[k] = pos + (j + 1)
      BY <1>6, <2>1, <2>3, <3>1
    <3>3. (off % args.buf) + j < args.buf
      <4>1. pos + j < args.buf
        BY <1>3, <1>4, <1>5, <3>1
      <4> QED BY <4>1 DEF pos
    <3> HIDE DEF off
    <3>4. (off + j) % args.buf = (off % args.buf) + j
      BY <1>3, <1>4, <3>1, <3>3, RemainderWithin
    <3>5. (k - 1) % args.buf = pos + j
      BY <3>1, <3>4 DEF pos
    <3>6. pos + (j + 1) = 1 + (pos + j)
      BY <1>4, <3>1
    <3> QED BY <3>2, <3>5, <3>6
  <2> QED BY <2>2, <2>3
<1>10. hashed' = Repeated(off + n)
  <2> DEFINE r == Repeated(off + n)
             h == hashed'
  <2>1. off + n \in Nat
    BY <1>4, <1>5
  <2>2. /\ r \in Seq(Nat) /\ Len(r) = off + n
        /\ \A k \in 1 .. off + n : r[k] = 1 + ((k - 1) % args.buf)
    BY <1>3, <2>1, RepeatedFacts
  <2>3. h \in Seq(Nat) /\ Len(h) = off + n /\ \A k \in 1 .. off + n : h[k] = r[k]
    BY <1>7, <1>9, <2>2
  <2> HIDE DEF r, h
  <2>4. h = r
    BY <2>2, <2>3
  <2> QED BY <2>4 DEF h, r
<1>11. Kinds'
  BY <1>1, <1>2, <1>7, SameInput DEF Kinds, FrameStart
<1>12. Streamed'
  <2>1. Reading' = Reading /\ ~ Reading /\ Handed' = Handed
    BY <1>1, <1>2 DEF Reading, Handed
  <2> QED BY <1>1, <1>2, <2>1, SameInput DEF Streamed
<1>13. PassSize' = PassSize /\ args' = args /\ mode' = mode
  BY <1>2, SameInput DEF PassSize
<1>14. Endless => hashed' = <<>>
  <2> SUFFICES ASSUME Endless PROVE hashed' = <<>>
    OBVIOUS
  <2>1. off = 0
    BY <1>1 DEF Passed
  <2>2. n = 0
    BY <1>3, <1>5 DEF Endless
  <2>3. Len(hashed') = 0
    <3> HIDE DEF off
    <3> QED BY <1>7, <2>1, <2>2
  <2> QED BY <1>7, <2>3
<1>15. (Endless' <=> Endless) /\ (BenchRefused' <=> BenchRefused)
  BY <1>2, SameInput DEF Endless, BenchRefused
<1>16. Len(hashed') <= PassSize' /\ hashed' = Repeated(Len(hashed))'
  <2> HIDE DEF off
  <2> QED BY <1>5, <1>7, <1>10, <1>13 DEF Repeated
<1>17. Passed'
  BY <1>1, <1>2, <1>13, <1>14, <1>15, <1>16 DEF Passed, Repeated
<1> QED
  BY <1>1, <1>11, <1>12, <1>13, <1>17 DEF FramesInv, HashRead, FramesRead

(* What a benchmark's arguments are. *)
LEMMA ArgsNat ==
    ASSUME Kinds, mode = "bench"
    PROVE  /\ args \in Benches /\ args.iters \in Nat \ {0} /\ args.buf \in Nat \ {0}
           /\ args.chunk \in Nat /\ args.size \in Nat
           /\ WARM_UP \in Nat \ {0} /\ MIN_PAYLOAD \in Nat /\ MIN_PAYLOAD <= WARM_UP
           /\ PassSize \in 0 .. args.size
PROOF
<1>1. args \in Benches
  BY DEF Kinds
<1>2. /\ args.iters \in Nat \ {0} /\ args.buf \in Nat \ {0} /\ args.chunk \in Nat /\ args.size \in Nat
      /\ WARM_UP \in Nat \ {0} /\ MIN_PAYLOAD \in Nat /\ MIN_PAYLOAD <= WARM_UP
  BY <1>1, FramesAssumption
<1> QED
  BY <1>1, <1>2 DEF PassSize

(* A pass that is through has hashed bytes, unless there are none, and is  *)
(* refused exactly when the payload itself would be: the first pass is cut *)
(* to no less than Go digests.                                             *)
LEMMA PassThrough ==
    ASSUME FramesInv, stage = "pass", Len(hashed) >= PassSize
    PROVE  mode = "bench" /\ ~ Endless /\ (Refuses(hashed) <=> BenchRefused) /\ Len(hashed) = PassSize
PROOF
<1>1. mode = "bench" /\ Kinds /\ Passed /\ Len(hashed) \in Nat
  BY DEF FramesInv, Kinds
<1>2. PassSize \in Nat /\ Len(hashed) = PassSize
  BY <1>1, ArgsNat DEF Passed
<1>3. ~ Endless
  <2> SUFFICES ASSUME Endless PROVE FALSE
    OBVIOUS
  <2>1. round = 0 /\ Len(hashed) = 0 /\ args.size > 0
    BY <1>1 DEF Passed, Endless
  <2>2. PassSize > 0
    BY <1>1, <2>1, ArgsNat DEF PassSize
  <2> QED BY <1>2, <2>1, <2>2
<1>4. PassSize < MIN_PAYLOAD <=> args.size < MIN_PAYLOAD
  BY <1>1, ArgsNat DEF PassSize
<1> QED
  BY <1>1, <1>2, <1>3, <1>4 DEF Refuses, BenchRefused

LEMMA PassDoneInv == FramesInv /\ PassDone => FramesInv'
PROOF
<1> SUFFICES ASSUME FramesInv, PassDone PROVE FramesInv'
  OBVIOUS
<1>1. Kinds /\ Streamed /\ Passed /\ stage = "pass" /\ Len(hashed) >= PassSize /\ ~ Refuses(hashed)
  BY DEF FramesInv, PassDone
<1>2. mode = "bench" /\ ~ Endless /\ ~ BenchRefused /\ ~ failed
  BY <1>1, PassThrough DEF Kinds
<1>3. /\ results' = (IF round = 0 THEN <<>> ELSE <<hashed>>) /\ hashed' = <<>> /\ round' = round + 1
      /\ stage' = (IF round = args.iters THEN "exit" ELSE stage)
      /\ UNCHANGED <<input, broken, taken, pending, eof, limit, failed>>
  BY DEF PassDone
<1>4. /\ args.iters \in Nat \ {0} /\ args.size \in Nat /\ WARM_UP \in Nat /\ round \in 0 .. args.iters + 1
      /\ PassSize \in Nat /\ hashed = Repeated(Len(hashed)) /\ Len(hashed) = PassSize
  BY <1>1, <1>2, ArgsNat, PassThrough DEF Passed
<1>5. round # 0 => hashed = Repeated(args.size)
  <2>1. round # 0 => PassSize = args.size
    BY DEF PassSize
  <2> QED BY <1>4, <2>1
<1>6. round # args.iters + 1
  BY <1>1, <1>2 DEF Passed
<1>7. args' = args /\ mode' = mode /\ cli' = cli
  BY <1>3, SameInput
<1>8. /\ round' \in 0 .. args.iters + 1 /\ (stage' = "exit" <=> round' = args.iters + 1)
      /\ results' = IF round' < 2 THEN <<>> ELSE <<Repeated(args.size)>>
  BY <1>1, <1>3, <1>4, <1>5, <1>6
<1>9. hashed' = <<>> /\ Len(hashed') = 0 /\ Repeated(0) = <<>> /\ hashed' \in Seq(Nat)
  BY <1>3 DEF Repeated
<1>10. Kinds'
  BY <1>1, <1>2, <1>3, <1>8, <1>9, SameInput DEF Kinds, FrameStart
<1>11. Streamed'
  <2>1. ~ Reading' /\ ~ Reading /\ Handed' = Handed
    BY <1>1, <1>3 DEF Reading, Handed
  <2> QED BY <1>1, <1>3, <2>1, SameInput DEF Streamed
<1>12. PassSize' \in Nat
  BY <1>4, <1>7 DEF PassSize
<1>13. Passed'
  <2>1. Len(hashed') <= PassSize'
    BY <1>9, <1>12
  <2>2. hashed' = [k \in 1 .. Len(hashed') |-> 1 + ((k - 1) % args'.buf)]
    BY <1>9
  <2>3. ~ broken' /\ ~ failed' /\ pending' = <<>>
    BY <1>1, <1>2, <1>3 DEF Passed
  <2>4. ~ Endless' /\ ~ BenchRefused'
    BY <1>2, <1>7 DEF Endless, BenchRefused
  <2> QED BY <1>7, <1>8, <2>1, <2>2, <2>3, <2>4 DEF Passed, Repeated
<1> QED
  BY <1>2, <1>7, <1>10, <1>11, <1>13 DEF FramesInv, HashRead, FramesRead

LEMMA PassRefusedInv == FramesInv /\ PassRefused => FramesInv'
PROOF
<1> SUFFICES ASSUME FramesInv, PassRefused PROVE FramesInv'
  OBVIOUS
<1>1. Kinds /\ Streamed /\ Passed /\ stage = "pass"
  BY DEF FramesInv, PassRefused
<1>2. mode = "bench" /\ ~ Endless /\ BenchRefused
  BY PassThrough DEF PassRefused
<1>3. /\ stage' = "exit" /\ failed' = TRUE
      /\ UNCHANGED <<input, broken, taken, pending, eof, limit, round, hashed, results>>
  BY DEF PassRefused
<1>4. args' = args /\ mode' = mode /\ cli' = cli
  BY <1>3, SameInput
<1>5. Kinds'
  BY <1>1, <1>2, <1>3, SameInput DEF Kinds, FrameStart
<1>6. Streamed'
  <2>1. ~ Reading' /\ ~ Reading /\ Handed' = Handed
    BY <1>1, <1>3 DEF Reading, Handed
  <2> QED BY <1>1, <1>3, <2>1, SameInput DEF Streamed
<1>7. Passed'
  <2>1. PassSize' = PassSize /\ ~ Endless' /\ BenchRefused'
    BY <1>2, <1>3, <1>4 DEF PassSize, Endless, BenchRefused
  <2>2. Repeated(Len(hashed))' = Repeated(Len(hashed)) /\ Repeated(args.size)' = Repeated(args.size)
    BY <1>3, <1>4 DEF Repeated
  <2> QED BY <1>1, <1>2, <1>3, <1>4, <2>1, <2>2 DEF Passed
<1> QED
  BY <1>2, <1>4, <1>5, <1>6, <1>7 DEF FramesInv, HashRead, FramesRead

LEMMA FramesStutterInv == FramesInv /\ UNCHANGED framesVars => FramesInv'
PROOF
  BY DEF FramesInv, framesVars, input, Kinds, Streamed, HashRead, FramesRead, Passed, FrameStart,
         Frame, Handed, Reading, FillSize, ReadSize, PassSize, Repeated,
         Line, Refuses, BenchRefused, Endless

LEMMA FramesStepInv == FramesInv /\ [FramesNext]_framesVars => FramesInv'
PROOF
  BY ReadInv, ReadEndInv, ReadFailsInv, ReadHeaderInv, EndOfFramesInv, ReadBodyInv, ReadLastInv,
     FinishInv, WriteRepeatedInv, PassDoneInv, PassRefusedInv, FramesStutterInv DEF FramesNext, Step

(* What a CLI has hashed and printed is always the part of its input it has *)
(* read (main.rs 91-151, wasm.js 54-72).                                    *)
THEOREM FramesInductive == FramesSpec => []FramesInv
PROOF
<1> QED
  BY FramesInitInv, FramesStepInv, PTL DEF FramesSpec

-----------------------------------------------------------------------------
(* The theorems about the CLIs. *)

(* Reads take no more than there is and no more than was asked for, and    *)
(* the CLIs that read into a buffer leave nothing in it (main.rs 91-108).  *)
THEOREM FramesTypes == FramesSpec => []FramesTypeOK
PROOF
<1>1. FramesInv => FramesTypeOK
  <2> SUFFICES ASSUME FramesInv PROVE FramesTypeOK
    OBVIOUS
  <2>1. Kinds /\ Streamed
    BY DEF FramesInv
  <2>2. stage \in {"header", "body", "pass", "exit"}
    BY <2>1 DEF Kinds
  <2>3. (cli # "wasm" /\ stage = "exit" /\ ~broken) => pending = <<>>
    BY <2>1 DEF Streamed, Reading
  <2> QED BY <2>1, <2>2, <2>3 DEF FramesTypeOK, Kinds, Streamed
<1> QED
  BY <1>1, FramesInductive, PTL

(* Every payload hashed is the one its header announces, whatever the sizes *)
(* of reads and chunks, and the line of one Go refuses is the error's, in   *)
(* the same place; a benchmark's is the buffer repeated to its size         *)
(* (main.rs 91-140, wasm.js 54-72, main.go 331-337).                        *)
THEOREM FramesPayloadsExact == FramesSpec => []PayloadsExact
PROOF
<1>1. FramesInv => PayloadsExact
  <2> SUFFICES ASSUME FramesInv, NEW f \in 1 .. Len(results)
               PROVE  results[f] = Line(Payload(f))
    BY DEF PayloadsExact
  <2>1. CASE mode = "hash"
    <3>1. results # <<>>
      OBVIOUS
    <3>2. stage = "exit" /\ results = <<Line(Bytes(0, avail))>>
      BY <2>1, <3>1 DEF FramesInv, Kinds, HashRead
    <3>3. Payload(f) = Bytes(0, avail) /\ f = 1
      BY <2>1, <3>2 DEF Payload
    <3> QED BY <3>2, <3>3
  <2>2. CASE mode = "frames"
    <3>1. Payload(f) = Bytes(FrameStart(f) + HEADER, FrameStart(f + 1))
      BY <2>2 DEF Payload
    <3> QED BY <2>2, <3>1 DEF FramesInv, FramesRead
  <2>3. CASE mode = "bench"
    <3>1. results # <<>>
      OBVIOUS
    <3>2. results = <<Repeated(args.size)>> /\ ~ BenchRefused
      BY <2>3, <3>1 DEF FramesInv, Passed
    <3>3. f = 1 /\ results[f] = Repeated(args.size)
      BY <3>2
    <3>4. Payload(f) = Repeated(args.size)
      BY <2>3 DEF Payload, Repeated
    <3>5. Len(Repeated(args.size)) = args.size
      BY <2>3, ArgsNat, RepeatedFacts DEF FramesInv
    <3>6. ~ Refuses(Repeated(args.size))
      BY <2>3, <3>2, <3>5 DEF Refuses, BenchRefused
    <3> QED BY <3>3, <3>4, <3>6 DEF Line
  <2> QED BY <2>1, <2>2, <2>3 DEF FramesInv, Kinds
<1> QED
  BY <1>1, FramesInductive, PTL

(* The whole frames of an input are the first ones. *)
LEMMA WholeFrames ==
    ASSUME FramesInv, mode = "frames", stage = "exit", ~ broken
    PROVE  /\ {f \in 1 .. Len(frames) : FrameStart(f + 1) <= avail} = 1 .. Len(results)
           /\ FrameStart(Frame) < avail =>
                 avail \notin {FrameStart(f) : f \in 1 .. Len(frames) + 1}
PROOF
<1>1. /\ frames \in Seq(Nat) /\ Len(frames) \in Nat /\ avail \in Nat /\ results \in Seq(Seq(Nat))
      /\ avail <= FrameStart(Len(frames) + 1) /\ FrameStart(Len(frames) + 1) \in Nat
  <2>1. /\ frames \in Seq(Nat) /\ Len(frames) \in Nat /\ avail \in Nat
        /\ avail \in 0 .. FrameStart(Len(frames) + 1) /\ results \in Seq(Seq(Nat))
    BY DEF FramesInv, Kinds, FramesRead
  <2>2. FrameStart(Len(frames) + 1) \in Nat
    BY <2>1, FrameStarts
  <2> QED BY <2>1, <2>2
<1>2. /\ Len(results) \in Nat /\ Frame = Len(results) + 1 /\ Frame \in 1 .. Len(frames) + 1
      /\ FrameStart(Frame) <= avail
      /\ Frame <= Len(frames) => avail < FrameStart(Frame + 1)
  BY <1>1 DEF FramesInv, FramesRead, Frame
<1>3. \A f \in 1 .. Len(frames) + 1 : FrameStart(f) \in Nat
  BY <1>1, FrameStarts
<1>4. ASSUME NEW f \in 1 .. Len(frames)
      PROVE  FrameStart(f + 1) <= avail <=> f <= Len(results)
  <2> DEFINE next == FrameStart(f + 1)
             here == FrameStart(Frame)
             after == FrameStart(Frame + 1)
  <2>1. f + 1 \in 1 .. Len(frames) + 1
    BY <1>1
  <2>4. next \in Nat /\ here \in Nat /\ here <= avail
    BY <1>2, <1>3, <2>1
  <2>2. CASE f <= Len(results)
    <3>1. Frame \in f + 1 .. Len(frames) + 1
      BY <1>1, <1>2, <2>2
    <3>2. FrameStart(f + 1) <= FrameStart(Frame)
      BY <1>1, <3>1, StartsGrow
    <3>3. next <= here
      BY <3>2
    <3> HIDE DEF next, here
    <3>4. next <= avail
      BY <1>1, <2>4, <3>3
    <3> QED BY <2>2, <3>4 DEF next
  <2>3. CASE ~ (f <= Len(results))
    <3>1. Frame \in 1 .. Len(frames) /\ Frame + 1 \in 1 .. Len(frames) + 1
      BY <1>1, <1>2, <2>3
    <3>2. f + 1 \in Frame + 1 .. Len(frames) + 1
      BY <1>1, <1>2, <2>1, <2>3
    <3>3. after <= next
      BY <1>1, <3>1, <3>2, StartsGrow
    <3>4. after \in Nat /\ avail < after
      BY <1>2, <1>3, <3>1
    <3> HIDE DEF next, here, after
    <3>5. ~ (next <= avail)
      BY <1>1, <2>4, <3>3, <3>4
    <3> QED BY <2>3, <3>5 DEF next
  <2> QED BY <2>2, <2>3
<1>5. {f \in 1 .. Len(frames) : FrameStart(f + 1) <= avail} = 1 .. Len(results)
  BY <1>1, <1>2, <1>4
<1>6. ASSUME FrameStart(Frame) < avail, NEW f \in 1 .. Len(frames) + 1 PROVE avail # FrameStart(f)
  <2> DEFINE this == FrameStart(f)
             here == FrameStart(Frame)
             after == FrameStart(Frame + 1)
  <2>3. this \in Nat /\ here \in Nat /\ here < avail
    BY <1>2, <1>3, <1>6
  <2>1. CASE f <= Frame
    <3>1. CASE f = Frame
      BY <1>1, <1>6, <2>3, <3>1
    <3>2. CASE f # Frame
      <4>1. f \in 1 .. Len(frames) /\ f < Frame
        BY <1>1, <1>2, <2>1, <3>2
      <4>2. this < here
        BY <1>1, <1>2, <4>1, StartsApart
      <4> HIDE DEF this, here
      <4>3. avail # this
        BY <1>1, <2>3, <4>2
      <4> QED BY <4>3 DEF this
    <3> QED BY <3>1, <3>2
  <2>2. CASE ~ (f <= Frame)
    <3>1. Frame \in 1 .. Len(frames) /\ f \in Frame + 1 .. Len(frames) + 1 /\ Frame + 1 \in 1 .. Len(frames) + 1
      BY <1>1, <1>2, <2>2
    <3>2. after <= this
      BY <1>1, <3>1, StartsGrow
    <3>3. after \in Nat /\ avail < after
      BY <1>2, <1>3, <3>1
    <3> HIDE DEF this, here, after
    <3>4. avail # this
      BY <1>1, <2>3, <3>2, <3>3
    <3> QED BY <3>4 DEF this
  <2> QED BY <2>1, <2>2
<1> QED
  BY <1>5, <1>6

(* A run fails exactly when its input is cut inside a frame or cannot be    *)
(* read, or Go refuses a benchmark's payload, and prints a line for every   *)
(* frame before that (main.rs 112-114, 136, 147-151, main.go 284-287).      *)
THEOREM FramesCutInputFails == FramesSpec => []CutInputFails
PROOF
<1>1. FramesInv => CutInputFails
  <2> DEFINE ends == {FrameStart(f) : f \in 1 .. Len(frames) + 1}
             whole == {f \in 1 .. Len(frames) : FrameStart(f + 1) <= avail}
  <2> SUFFICES ASSUME FramesInv, stage = "exit"
               PROVE  /\ failed <=> (broken \/ BenchRefused \/ (mode = "frames" /\ avail \notin ends))
                      /\ ~broken => Len(results) = IF mode = "frames" THEN Cardinality(whole)
                                                   ELSE IF BenchRefused THEN 0 ELSE 1
    BY DEF CutInputFails, BenchRefused
  <2>1. mode \in {"hash", "frames", "bench"} /\ (broken => failed)
    BY DEF FramesInv, Kinds
  <2>2. CASE mode = "hash"
    <3>1. (failed <=> broken) /\ results = IF broken THEN <<>> ELSE <<Line(Bytes(0, avail))>>
      BY <2>2 DEF FramesInv, HashRead
    <3> QED BY <2>2, <3>1 DEF BenchRefused
  <2>3. CASE mode = "bench"
    <3>1. args.iters \in Nat \ {0} /\ ~ broken
      BY <2>3, ArgsNat DEF FramesInv, Passed
    <3>2. /\ failed \/ round = args.iters + 1
          /\ failed => BenchRefused
          /\ BenchRefused => round = 0
          /\ results = IF round < 2 THEN <<>> ELSE <<Repeated(args.size)>>
      BY <2>3 DEF FramesInv, Passed
    <3>3. CASE BenchRefused
      BY <2>3, <3>1, <3>2, <3>3
    <3>4. CASE ~ BenchRefused
      <4>1. ~ failed /\ round = args.iters + 1 /\ round >= 2
        BY <3>1, <3>2, <3>4
      <4> QED BY <2>3, <3>1, <3>2, <3>4, <4>1
    <3> QED BY <3>3, <3>4
  <2>4. CASE mode = "frames"
    <3>1. CASE broken
      BY <2>1, <2>4, <3>1 DEF BenchRefused
    <3>2. CASE ~ broken
      <4>1. whole = 1 .. Len(results) /\ (FrameStart(Frame) < avail => avail \notin ends)
        BY <2>4, <3>2, WholeFrames
      <4>2. Cardinality(whole) = Len(results)
        <5>1. Len(results) \in Nat
          BY <2>4 DEF FramesInv, FramesRead
        <5> DEFINE n == Len(results)
        <5>2. n \in Int /\ 1 \in Int /\ ~ (1 > n + 1) /\ n - 1 + 1 = n
          BY <5>1
        <5> HIDE DEF n
        <5>3. Cardinality(1 .. n) = IF 1 > n THEN 0 ELSE n - 1 + 1
          BY <5>2, FS_Interval
        <5>4. Cardinality(1 .. n) = n
          BY <5>1, <5>2, <5>3 DEF n
        <5> QED BY <4>1, <5>4 DEF n
      <4>3. /\ failed <=> FrameStart(Frame) < avail
            /\ FrameStart(Frame) <= avail /\ Frame \in 1 .. Len(frames) + 1
            /\ FrameStart(Frame) \in Nat /\ avail \in Nat
        <5>1. /\ failed <=> FrameStart(Frame) < avail
              /\ FrameStart(Frame) <= avail /\ Frame \in 1 .. Len(frames) + 1
              /\ frames \in Seq(Nat) /\ avail \in Nat
          BY <2>4, <3>2 DEF FramesInv, FramesRead, Frame, Kinds
        <5> QED BY <5>1, FrameStarts
      <4>4. ~ failed => avail \in ends
        <5>1. ~ failed => avail = FrameStart(Frame)
          BY <4>3
        <5> QED BY <4>3, <5>1
      <4> QED BY <2>4, <3>2, <4>1, <4>2, <4>3, <4>4 DEF BenchRefused
    <3> QED BY <3>1, <3>2
  <2> QED BY <2>1, <2>2, <2>3, <2>4
<1> QED
  BY <1>1, FramesInductive, PTL

-----------------------------------------------------------------------------
(* The loops end. *)

(* A header takes four for a byte of it and a body none more than a header; *)
(* the end of the input is met at most once a read that hands out a byte.   *)
ReadsLeft ==
    4 * (avail - Handed) + 2 * (avail - taken) + (IF eof THEN 0 ELSE 1)
      + (IF stage = "exit" THEN 0 ELSE IF stage = "header" THEN 2 ELSE 3)

PassesLeft ==
    (args.iters + 1 - round) * (args.size + 1) + (PassSize - Len(hashed))
      + (IF stage = "exit" THEN 0 ELSE 1)

FramesStepsLeft == IF mode = "bench" THEN PassesLeft ELSE ReadsLeft

LEMMA ReadsLeftNat ==
    ASSUME FramesInv
    PROVE  /\ ReadsLeft \in Nat /\ avail \in Nat /\ taken \in 0 .. avail
           /\ Handed \in 0 .. taken /\ Len(pending) \in Nat
PROOF
<1>1. avail \in Nat /\ taken \in 0 .. avail /\ Len(pending) \in Nat /\ Handed \in 0 .. taken
  BY DEF FramesInv, Kinds, Streamed, Handed
<1> QED
  BY <1>1 DEF ReadsLeft

(* What a read that hands out changes. *)
LEMMA HandOutLowers ==
    ASSUME FramesInv, ReadDone, HandOut, taken' = taken, UNCHANGED input,
           4 * Len(Out) + (IF stage = "exit" THEN 0 ELSE IF stage = "header" THEN 2 ELSE 3)
             > 1 + (IF stage' = "exit" THEN 0 ELSE IF stage' = "header" THEN 2 ELSE 3)
    PROVE  ReadsLeft' < ReadsLeft
PROOF
<1>1. Len(Out) \in Nat /\ Handed' = Handed + Len(Out) /\ avail' = avail
  BY HandedOut DEF FramesInv, input
<1>2. avail \in Nat /\ taken \in Nat /\ Handed \in Nat
  BY ReadsLeftNat
<1> DEFINE o == Len(Out)
           h == Handed
<1>3. /\ ReadsLeft' <= 4 * (avail - (h + o)) + 2 * (avail - taken) + 1
                         + (IF stage' = "exit" THEN 0 ELSE IF stage' = "header" THEN 2 ELSE 3)
      /\ ReadsLeft >= 4 * (avail - h) + 2 * (avail - taken)
                         + (IF stage = "exit" THEN 0 ELSE IF stage = "header" THEN 2 ELSE 3)
      /\ ReadsLeft \in Int /\ ReadsLeft' \in Int
  BY <1>1, <1>2 DEF ReadsLeft
<1> HIDE DEF o, h
<1>4. o \in Nat /\ h \in Nat
  BY <1>1, <1>2 DEF o, h
<1>5. 4 * o + (IF stage = "exit" THEN 0 ELSE IF stage = "header" THEN 2 ELSE 3)
        > 1 + (IF stage' = "exit" THEN 0 ELSE IF stage' = "header" THEN 2 ELSE 3)
  BY DEF o
<1> QED
  BY <1>2, <1>3, <1>4, <1>5

LEMMA ReadingLowers ==
    ASSUME FramesInv, Read \/ ReadChunk \/ ReadEnd \/ ReadFails \/ Finish, mode # "bench"
    PROVE  ReadsLeft' < ReadsLeft
PROOF
<1>1. /\ avail \in Nat /\ taken \in 0 .. avail /\ Handed \in 0 .. taken /\ Len(pending) \in Nat
      /\ pending \in Seq(Nat) /\ avail' = avail
  BY ReadsLeftNat DEF FramesInv, Streamed, input, Read, ReadChunk, ReadEnd, ReadFails, Finish
<1>2. CASE Read \/ ReadChunk
  <2>1. PICK n \in Nat : /\ n >= 1 /\ taken' = taken + n
                         /\ pending' = pending \o Bytes(taken, taken + n)
                         /\ UNCHANGED <<eof, stage>>
    <3>1. CASE Read
      <4>1. PICK n \in 1 .. FillSize - Len(pending) :
                 taken' = taken + n /\ pending' = pending \o Bytes(taken, taken + n)
        BY <3>1 DEF Read
      <4>2. FillSize \in Nat
        BY <3>1, FillSizeNat DEF Read, Filling, FramesInv, Kinds
      <4> QED BY <1>1, <3>1, <4>1, <4>2 DEF Read
    <3>2. CASE ReadChunk
      BY <1>1, <3>2 DEF ReadChunk
    <3> QED BY <1>2, <3>1, <3>2
  <2>2. Len(pending') = Len(pending) + n
    <3> DEFINE s == Bytes(taken, taken + n)
    <3>1. s \in Seq(Nat) /\ Len(s) = n
      <4>1. taken + n \in Nat /\ taken \in Nat /\ taken <= taken + n /\ (taken + n) - taken = n
        BY <1>1, <2>1
      <4> QED BY <4>1, BytesFacts
    <3> HIDE DEF s
    <3>2. Len(pending \o s) = Len(pending) + Len(s)
      BY <1>1, <3>1, ConcatProperties
    <3> QED BY <2>1, <3>1, <3>2 DEF s
  <2>3. Handed' = Handed
    BY <1>1, <2>1, <2>2, HandedSame
  <2> QED BY <1>1, <2>1, <2>3 DEF ReadsLeft
<1>3. CASE ReadEnd
  <2>1. Handed' = Handed /\ ~ eof /\ eof' /\ UNCHANGED <<taken, stage>>
    BY <1>3 DEF ReadEnd, Filling, Handed
  <2> QED BY <1>1, <2>1 DEF ReadsLeft
<1>4. CASE ReadFails
  <2>1. Handed' = Handed /\ stage # "exit" /\ stage' = "exit" /\ UNCHANGED <<taken, eof>>
    BY <1>4 DEF ReadFails, Filling, Reading, Handed
  <2> QED BY <1>1, <2>1 DEF ReadsLeft
<1>5. CASE Finish
  <2>1. /\ Handed' = Handed /\ stage = "body" /\ stage' \in {"header", "exit"}
        /\ UNCHANGED <<taken, eof>>
    BY <1>5 DEF Finish, PrintResult, Handed
  <2> QED BY <1>1, <2>1 DEF ReadsLeft
<1> QED
  BY <1>2, <1>3, <1>4, <1>5

LEMMA HandingOutLowers ==
    ASSUME FramesInv, ReadHeader \/ EndOfFrames \/ ReadBody \/ ReadLast, mode # "bench"
    PROVE  ReadsLeft' < ReadsLeft
PROOF
<1>1. ReadDone /\ HandOut /\ taken' = taken /\ UNCHANGED input
  BY DEF ReadHeader, EndOfFrames, ReadBody, ReadLast, input
<1>2. Len(Out) \in Nat /\ FillSize \in Nat \ {0} /\ HEADER \in Nat \ {0}
  BY <1>1, HandedOut, FramesAssumption DEF FramesInv
<1>3. CASE ReadHeader
  BY <1>1, <1>2, <1>3, HandOutLowers DEF ReadHeader
<1>4. CASE EndOfFrames
  BY <1>1, <1>2, <1>4, HandOutLowers DEF EndOfFrames
<1>5. CASE ReadBody
  <2>1. stage' = stage /\ stage = "body" /\ Len(Out) >= 1
    BY <1>2, <1>5 DEF ReadBody
  <2> QED BY <1>1, <1>2, <2>1, HandOutLowers
<1>6. CASE ReadLast
  <2>1. limit = Unlimited => mode = "hash"
    BY <1>6 DEF FramesInv, FramesRead, Kinds, Unlimited, ReadLast
  <2>2. stage = "body" /\ stage' = "exit"
    BY <1>6, <2>1 DEF ReadLast, PrintResult
  <2> QED BY <1>1, <1>2, <2>2, HandOutLowers
<1> QED
  BY <1>3, <1>4, <1>5, <1>6

LEMMA BenchFacts ==
    ASSUME FramesInv, mode = "bench"
    PROVE  /\ args.iters \in Nat \ {0} /\ args.buf \in Nat \ {0} /\ args.chunk \in Nat
           /\ args.size \in Nat /\ WARM_UP \in Nat \ {0}
           /\ PassSize \in 0 .. args.size
           /\ hashed \in Seq(Nat) /\ Len(hashed) \in 0 .. PassSize
           /\ round \in 0 .. args.iters + 1
           /\ PassesLeft \in Nat
PROOF
<1>2. /\ args.iters \in Nat \ {0} /\ args.buf \in Nat \ {0} /\ args.chunk \in Nat
      /\ args.size \in Nat /\ WARM_UP \in Nat \ {0} /\ PassSize \in 0 .. args.size
  BY ArgsNat DEF FramesInv
<1>3. PassSize \in 0 .. args.size
  BY <1>2
<1>4. /\ hashed \in Seq(Nat) /\ Len(hashed) \in Nat /\ Len(hashed) <= PassSize
      /\ round \in 0 .. args.iters + 1
  BY DEF FramesInv, Kinds, Passed
<1>5. (args.iters + 1 - round) * (args.size + 1) \in Nat
  <2> DEFINE a == args.iters + 1 - round
             b == args.size + 1
  <2>1. a \in Nat /\ b \in Nat
    BY <1>2, <1>4
  <2> HIDE DEF a, b
  <2>2. a * b \in Nat
    BY <2>1
  <2> QED BY <2>2 DEF a, b
<1>6. PassesLeft \in Nat
  <2> DEFINE p == (args.iters + 1 - round) * (args.size + 1)
  <2>1. p \in Nat /\ PassesLeft = p + (PassSize - Len(hashed)) + (IF stage = "exit" THEN 0 ELSE 1)
    BY <1>5 DEF PassesLeft
  <2> HIDE DEF p
  <2> QED BY <1>3, <1>4, <2>1
<1> QED
  BY <1>2, <1>3, <1>4, <1>6

LEMMA WriteRepeatedLowers ==
    ASSUME FramesInv, WriteRepeated, mode = "bench", ~ Endless
    PROVE  PassesLeft' < PassesLeft
PROOF
<1> DEFINE off == Len(hashed)
           pos == off % args.buf
           n == WriteLen(off)
<1>1. /\ off < PassSize
      /\ hashed' = hashed \o Bytes(pos, pos + n)
      /\ UNCHANGED <<args, round, stage>>
  BY DEF WriteRepeated, input
<1>2. /\ args.buf \in Nat \ {0} /\ args.chunk \in Nat \ {0} /\ args.size \in Nat /\ PassSize \in Nat
      /\ off \in Nat /\ hashed \in Seq(Nat)
  BY <1>1, BenchFacts DEF Endless
<1>3. pos \in Nat /\ pos < args.buf
  BY <1>2
<1>4. n \in Nat /\ n >= 1
  <2> DEFINE a == args.chunk
             b == args.buf - pos
             c == PassSize - off
  <2>1. a \in Nat \ {0} /\ b \in Nat \ {0} /\ c \in Nat \ {0} /\ n = Min({a, b, c})
    BY <1>1, <1>2, <1>3 DEF WriteLen
  <2> HIDE DEF a, b, c
  <2>2. n \in {a, b, c}
    BY <2>1, LeastOfThree
  <2> QED BY <2>1, <2>2
<1> HIDE DEF n, pos
<1>5. Len(hashed') = off + n
  <2> DEFINE s == Bytes(pos, pos + n)
  <2>1. s \in Seq(Nat) /\ Len(s) = n /\ hashed' = hashed \o s
    <3>1. pos + n \in Nat /\ pos <= pos + n /\ (pos + n) - pos = n
      BY <1>3, <1>4
    <3> QED BY <1>1, <1>3, <3>1, BytesFacts
  <2> HIDE DEF s
  <2>2. Len(hashed \o s) = Len(hashed) + Len(s)
    BY <1>2, <2>1, ConcatProperties
  <2> QED BY <2>1, <2>2
<1>6. PassSize' = PassSize
  BY <1>1 DEF PassSize
<1> DEFINE p == (args.iters + 1 - round) * (args.size + 1)
           e == IF stage = "exit" THEN 0 ELSE 1
<1>7. PassesLeft = p + (PassSize - off) + e /\ PassesLeft' = p + (PassSize - (off + n)) + e
  BY <1>1, <1>5, <1>6 DEF PassesLeft
<1>8. p \in Int /\ e \in Int
  <2>1. round \in Int /\ args.iters \in Int /\ args.size \in Int
    BY BenchFacts
  <2> QED BY <2>1
<1> HIDE DEF p, off, e
<1> QED
  BY <1>2, <1>4, <1>7, <1>8

LEMMA PassDoneLowers ==
    ASSUME FramesInv, PassDone, mode = "bench"
    PROVE  PassesLeft' < PassesLeft
PROOF
<1>1. /\ hashed' = <<>> /\ round' = round + 1 /\ args' = args
      /\ Len(hashed) >= PassSize /\ stage = "pass"
  BY DEF PassDone, input
<1>2. /\ args.iters \in Nat /\ args.size \in Nat /\ round \in Nat /\ WARM_UP \in Nat
      /\ PassSize \in Nat /\ Len(hashed) = PassSize
  BY <1>1, BenchFacts
<1>3. PassSize' \in Int /\ PassSize' <= args.size /\ Len(hashed') = 0
  BY <1>1, <1>2 DEF PassSize
<1> DEFINE q == PassSize'
           a == args.iters - round
           b == args.size + 1
           e == IF stage' = "exit" THEN 0 ELSE 1
<1>4. PassesLeft = (a + 1) * b + 0 + 1
  <2>1. args.iters + 1 - round = a + 1 /\ PassSize - Len(hashed) = 0
    BY <1>2
  <2> QED BY <1>1, <2>1 DEF PassesLeft
<1>5. PassesLeft' = a * b + (q - 0) + e
  <2>1. args'.iters + 1 - round' = a /\ args'.size + 1 = b
    BY <1>1, <1>2
  <2> QED BY <1>3, <2>1 DEF PassesLeft
<1>6. a \in Int /\ b \in Int /\ q \in Int /\ q < b /\ e \in 0 .. 1
  BY <1>2, <1>3
<1> HIDE DEF a, b, q, e
<1>7. (a + 1) * b = a * b + b /\ a * b \in Int
  BY <1>6
<1> DEFINE p == a * b
<1> HIDE DEF p
<1>8. PassesLeft = p + b + 1 /\ PassesLeft' = p + q + e /\ p \in Int
  BY <1>4, <1>5, <1>6, <1>7 DEF p
<1> QED
  BY <1>6, <1>8

LEMMA PassRefusedLowers ==
    ASSUME FramesInv, PassRefused, mode = "bench"
    PROVE  PassesLeft' < PassesLeft
PROOF
<1>1. UNCHANGED <<args, round, hashed>> /\ stage = "pass" /\ stage' = "exit"
  BY DEF PassRefused, input
<1> DEFINE p == (args.iters + 1 - round) * (args.size + 1) + (PassSize - Len(hashed))
<1>2. PassesLeft = p + 1 /\ PassesLeft' = p + 0
  BY <1>1 DEF PassesLeft, PassSize
<1>3. p \in Int
  <2>1. PassesLeft \in Nat /\ PassesLeft = p + 1
    BY <1>2, BenchFacts
  <2>2. (args.iters + 1 - round) * (args.size + 1) \in Int /\ PassSize - Len(hashed) \in Int
    <3>1. round \in Int /\ args.iters \in Int /\ args.size \in Int /\ PassSize \in Int /\ Len(hashed) \in Int
      BY BenchFacts
    <3> QED BY <3>1
  <2> QED BY <2>2
<1> HIDE DEF p
<1> QED
  BY <1>2, <1>3

(* A benchmark whose chunks hold no bytes writes nothing, over and over. *)
LEMMA EndlessStutters ==
    ASSUME FramesInv, FramesNext, Endless
    PROVE  UNCHANGED framesVars
PROOF
<1>1. mode = "bench" /\ stage = "pass" /\ hashed = <<>>
  BY DEF FramesInv, Passed, Endless
<1>2. WriteRepeated \/ PassDone \/ PassRefused
  BY <1>1 DEF FramesNext, Step, Read, ReadChunk, ReadEnd, ReadFails, Filling, Reading, ReadDone,
              ReadHeader, EndOfFrames, ReadBody, ReadLast, Finish
<1>3. ~ PassDone /\ ~ PassRefused
  BY <1>1, PassThrough DEF PassDone, PassRefused
<1>4. WriteRepeated
  BY <1>2, <1>3
<1>5. UNCHANGED input /\ mode' = mode /\ args' = args
  BY <1>4 DEF WriteRepeated, input
<1>6. hashed' = <<>>
  BY <1>1, <1>4, <1>5, WriteRepeatedInv DEF FramesInv, Passed, Endless
<1> QED
  BY <1>1, <1>4, <1>6 DEF WriteRepeated, framesVars

(* Every step of a CLI, whatever it reads and hashes, lowers the number of *)
(* steps it has left, so no sequence of reads, chunks, frames or passes    *)
(* goes on for ever; and a benchmark that was given chunks of no bytes     *)
(* takes no step at all: it repeats one that changes nothing (main.rs      *)
(* 91-108, 197-214, main.go 175-202).                                      *)
THEOREM FramesStepsEnd ==
    FramesSpec => [][/\ ~ Endless
                     /\ FramesStepsLeft \in Nat
                     /\ FramesStepsLeft' < FramesStepsLeft]_framesVars
PROOF
<1> DEFINE Lowers == /\ ~ Endless
                     /\ FramesStepsLeft \in Nat
                     /\ FramesStepsLeft' < FramesStepsLeft
<1>1. FramesInv /\ [FramesNext]_framesVars => [Lowers]_framesVars
  <2> SUFFICES ASSUME FramesInv, FramesNext, ~ UNCHANGED framesVars PROVE Lowers
    OBVIOUS
  <2>1. mode' = mode
    BY DEF FramesNext, Step, input, WriteRepeated, PassDone, PassRefused, Read, ReadChunk, ReadEnd,
           ReadFails, ReadHeader, EndOfFrames, ReadBody, ReadLast, Finish
  <2>2. ~ Endless
    BY EndlessStutters
  <2>3. CASE mode = "bench"
    <3>1. stage \in {"pass", "exit"}
      BY <2>3 DEF FramesInv, Kinds
    <3>2. WriteRepeated \/ PassDone \/ PassRefused
      BY <3>1 DEF FramesNext, Step, Read, ReadChunk, ReadEnd, ReadFails, Filling, Reading, ReadDone,
                  ReadHeader, EndOfFrames, ReadBody, ReadLast, Finish
    <3>3. PassesLeft \in Nat /\ PassesLeft' < PassesLeft
      BY <2>2, <2>3, <3>2, BenchFacts, WriteRepeatedLowers, PassDoneLowers, PassRefusedLowers
    <3> QED BY <2>1, <2>2, <2>3, <3>3 DEF FramesStepsLeft
  <2>4. CASE mode # "bench"
    <3>1. stage # "pass"
      BY <2>4 DEF FramesInv, Kinds
    <3>2. ~ WriteRepeated /\ ~ PassDone /\ ~ PassRefused
      BY <3>1 DEF WriteRepeated, PassDone, PassRefused
    <3>3. ReadsLeft \in Nat /\ ReadsLeft' < ReadsLeft
      BY <2>4, <3>2, ReadsLeftNat, ReadingLowers, HandingOutLowers DEF FramesNext, Step
    <3> QED BY <2>1, <2>2, <2>4, <3>3 DEF FramesStepsLeft
  <2> QED BY <2>3, <2>4
<1> QED
  BY <1>1, FramesInductive, PTL DEF FramesSpec
=============================================================================
