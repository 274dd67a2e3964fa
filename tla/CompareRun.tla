------------------------------ MODULE CompareRun ------------------------------
(***************************************************************************)
(* The driver of the comparison, compare/run.js: a run builds the CLIs,    *)
(* notes the state of the working tree, measures its sections one CLI call *)
(* after the other and merges them into the machine's results file.  Runs  *)
(* follow each other; the code under test is edited between them and while *)
(* one is under way.                                                       *)
(***************************************************************************)
EXTENDS Integers, Sequences, FiniteSets

CONSTANTS
    Options,         \* runs to start: [command, variants (a sequence of ids,
                     \* empty by default), config]
    Codes,           \* the states the code under test can have: a commit and
                     \* the uncommitted change on top of it, 0 for none
    Large,           \* changes whose diff is more than tryRun takes in
    Formats,         \* values of FORMAT, in versions of the driver
    Lacking,         \* bins whose forced backend this CPU lacks
    MaxRuns          \* bound: runs that are started

(* One variant of each kind: a default, a forced and an opt-in Rust build, *)
(* Go and Go on one core, which share a binary, and WASM, which is run     *)
(* from the working tree and never built.                                  *)
Variant(id, impl, bin, env, optIn, memory) ==
    [id |-> id, impl |-> impl, bin |-> bin, env |-> env, optIn |-> optIn, memory |-> memory]

VARIANTS == <<
    Variant("rust",        "rust", "rust",        "",           FALSE, TRUE),
    Variant("rust-avx2",   "rust", "rust-avx2",   "",           FALSE, FALSE),
    Variant("rust-native", "rust", "rust-native", "",           TRUE,  FALSE),
    Variant("go",          "go",   "go",          "",           FALSE, TRUE),
    Variant("go-1core",    "go",   "go",          "GOMAXPROCS", FALSE, TRUE),
    Variant("wasm",        "wasm", "wasm",        "",           FALSE, TRUE) >>

Ids == {VARIANTS[k].id : k \in 1 .. Len(VARIANTS)}

Named(id) == VARIANTS[CHOOSE k \in 1 .. Len(VARIANTS) : VARIANTS[k].id = id]

Bins == {VARIANTS[k].bin : k \in 1 .. Len(VARIANTS)} \ {"wasm"}
Sections == {"verify", "bench", "memory"}

Commands == {"all", "verify", "bench", "memory", "build", "info"}

(* Only a forced backend of Rust can be lacking. *)
ASSUME RunAssumption ==
    /\ Options \subseteq [command : Commands, variants : Seq(Ids), config : STRING]
    /\ Codes \subseteq [commit : Nat \ {0}, change : Nat]
    /\ 0 \notin Large /\ Formats \subseteq Nat \ {0} /\ MaxRuns \in Nat
    /\ Lacking \subseteq Bins \ {"go"}

(* What filter() leaves of s: its elements at the indices in `at`, in      *)
(* order.  This is SelectSeq, in a form that proofs can open.              *)
Subsequence(s, at) ==
    [k \in 1 .. Cardinality(at) |->
        s[CHOOSE i \in at : Cardinality({j \in at : j <= i}) = k]]

Selected(ids) ==
    IF ids = <<>> THEN Subsequence(VARIANTS, {k \in 1 .. Len(VARIANTS) : ~ VARIANTS[k].optIn})
    ELSE [k \in 1 .. Len(ids) |-> Named(ids[k])]

Unknown == <<>>       \* source().id without git
NotBuilt == [commit |-> 0, change |-> 0]
Undefined == [ran |-> FALSE]
Measured(numbers) == [ran |-> TRUE, numbers |-> numbers]

NoFile == [is |-> "none"]
TornFile == [is |-> "torn"]

(* execFileSync gives up on output longer than its maxBuffer, 1 MiB, and   *)
(* tryRun turns that into an empty string: the hash is then that of no     *)
(* diff, 0.                                                                *)
Changes(change) == IF change \in Large THEN 0 ELSE change

(* The commit, or the commit and a hash of the change to the code.         *)
Id(c) == IF c.change = 0 THEN <<c.commit>> ELSE <<c.commit, Changes(c.change)>>

NoOptions == [command |-> "none", variants |-> <<>>, config |-> ""]

VARIABLES
    code,      \* the code under test in the working tree
    format,    \* FORMAT of the driver that runs next
    built,     \* the code each binary in compare/.build was built from
    file,      \* <label>.json
    pc,        \* where the run is, "idle" without one
    opts,      \* its options, NoOptions without one
    selected,  \* its variants
    todo,      \* bins to build, then CLI calls <<section, variant>> to make
    result,    \* what it will save
    runs       \* runs started so far

vars == <<code, format, built, file, pc, opts, selected, todo, result, runs>>

(* edited is not a field of the file: the phases of the runs it holds that *)
(* an edit of the code fell into.                                          *)
Empty == [is |-> "json", version |-> 0, source |-> Unknown, config |-> "",
          variants |-> <<>>, sections |-> [s \in Sections |-> Undefined],
          edited |-> {}]

Init ==
    /\ code \in Codes /\ format \in Formats
    /\ built = [b \in Bins |-> NotBuilt] /\ file = NoFile
    /\ pc = "idle" /\ opts = NoOptions
    /\ selected = <<>> /\ todo = <<>> /\ result = Empty /\ runs = 0

-----------------------------------------------------------------------------
(* The world around the driver. Bound: one edit while a run is under way.  *)
Edit ==
    /\ pc \in {"idle", "build", "source", "measure"} /\ result.edited = {}
    /\ code' \in Codes \ {code}
    /\ result' = IF pc = "idle" THEN result ELSE [result EXCEPT !.edited = @ \union {pc}]
    /\ UNCHANGED <<format, built, file, pc, opts, selected, todo, runs>>

Upgrade ==
    /\ pc = "idle" /\ format' \in Formats \ {format}
    /\ UNCHANGED <<code, built, file, pc, opts, selected, todo, result, runs>>

(* A CLI or a build that fails throws out of the run, and so does an       *)
(* interrupt at any point; nothing is saved.                               *)
Abort ==
    /\ pc # "idle" /\ pc' = "idle"
    /\ selected' = <<>> /\ todo' = <<>> /\ result' = Empty /\ opts' = NoOptions
    /\ UNCHANGED <<code, format, built, file, runs>>

-----------------------------------------------------------------------------
(* Mutant: the default variants are built, whichever were asked for. *)
NeededDefault(variants) == <<"go", "rust", "rust-avx2">>

(* go also generates the payloads of verify; wasm has nothing to build; a  *)
(* binary two variants share is built once.                                *)
Needed(variants) ==
    LET bins == <<"go">> \o [k \in 1 .. Len(variants) |-> variants[k].bin]
    IN  Subsequence(bins, {k \in 1 .. Len(bins) :
                             bins[k] # "wasm" /\ \A j \in 1 .. k - 1 : bins[j] # bins[k]})

Start ==
    /\ pc = "idle" /\ runs < MaxRuns /\ runs' = runs + 1 /\ opts' \in Options
    /\ pc' = "build"
    /\ selected' = Selected(opts'.variants)
    /\ todo' = Needed(selected')
    /\ UNCHANGED <<code, format, built, file, result>>

Build ==
    /\ pc = "build" /\ todo # <<>>
    /\ built' = [built EXCEPT ![Head(todo)] = code]
    /\ todo' = Tail(todo)
    /\ UNCHANGED <<code, format, file, pc, opts, selected, result, runs>>

(* A forced backend the CPU lacks would only repeat a row. *)
Skip ==
    /\ pc = "build" /\ todo = <<>> /\ opts.command \notin {"build", "info"}
    /\ selected' = Subsequence(selected,
                      {k \in 1 .. Len(selected) :
                         selected[k].impl # "rust" \/ selected[k].bin \notin Lacking})
    /\ pc' = "source"
    /\ UNCHANGED <<code, format, built, file, opts, todo, result, runs>>

(* build and info end when everything is built. *)
BuildOnly ==
    /\ pc = "build" /\ todo = <<>> /\ opts.command \in {"build", "info"}
    /\ pc' = "idle" /\ opts' = NoOptions /\ selected' = <<>> /\ result' = Empty
    /\ UNCHANGED <<code, format, built, file, todo, runs>>

Wanted(section) == opts.command \in {section, "all"}

(* GOMAXPROCS does not change what is computed: verify leaves such a       *)
(* variant out, unless all are.  It calls each for the vectors, then for   *)
(* the sweep.                                                              *)
Calls(section) ==
    LET distinct == Subsequence(selected, {k \in 1 .. Len(selected) :
                                             selected[k].env # "GOMAXPROCS"})
        checked == IF distinct # <<>> THEN distinct ELSE selected
        variants == CASE section = "verify" -> checked \o checked
                      [] section = "bench" -> selected
                      [] section = "memory" -> Subsequence(selected, {k \in 1 .. Len(selected) :
                                                                selected[k].memory})
    IN  IF ~Wanted(section) THEN <<>>
        ELSE [k \in 1 .. Len(variants) |-> <<section, variants[k]>>]

(* The source is noted when everything is built; without git there is no id. *)
TakeSource ==
    /\ pc = "source"
    /\ \E id \in {Id(code), Unknown} :
          result' = [result EXCEPT !.version = format, !.source = id,
                     !.config = opts.config, !.variants = selected,
                     !.sections = [s \in Sections |->
                        IF Wanted(s) THEN Measured({}) ELSE Undefined]]
    /\ todo' = Calls("verify") \o Calls("bench") \o Calls("memory")
    /\ pc' = "measure"
    /\ UNCHANGED <<code, format, built, file, opts, selected, runs>>

(* exec runs a binary, or wasm.js and the package it imports as they are. *)
CodeOf(v) == IF v.bin = "wasm" THEN code ELSE built[v.bin]

Measure ==
    /\ pc = "measure" /\ todo # <<>>
    /\ LET section == Head(todo)[1]
           v == Head(todo)[2]
           number == [variant |-> v.id, code |-> CodeOf(v), format |-> format]
       IN  result' = [result EXCEPT !.sections[section].numbers = @ \union {number}]
    /\ todo' = Tail(todo)
    /\ UNCHANGED <<code, format, built, file, pc, opts, selected, runs>>

(* Mutant: results of unknown source count as results of the same code. *)
SameCodeNull ==
    /\ file.is = "json"
    /\ file.version = result.version /\ file.source = result.source

(* Only sections measured from the same code are combined. *)
SameCode ==
    /\ file.is = "json" /\ result.source # Unknown
    /\ file.version = result.version /\ file.source = result.source

(* Mutant: { ...old, ...update } with its undefined sections. *)
MergedUndefined == result

(* Every field of the update but its undefined ones replaces the old one's. *)
Merged ==
    IF ~SameCode THEN result
    ELSE [result EXCEPT !.sections = [s \in Sections |->
                            IF @[s].ran THEN @[s] ELSE file.sections[s]],
                        !.edited = @ \union file.edited]

(* Opening the file truncates it. A file cut off there does not parse, and *)
(* the run that reads it throws.                                           *)
Save ==
    /\ pc = "measure" /\ todo = <<>> /\ file.is # "torn"
    /\ result' = Merged /\ file' = TornFile
    /\ pc' = "write"
    /\ UNCHANGED <<code, format, built, opts, selected, todo, runs>>

Write ==
    /\ pc = "write"
    /\ file' = result /\ pc' = "idle"
    /\ selected' = <<>> /\ result' = Empty /\ opts' = NoOptions
    /\ UNCHANGED <<code, format, built, todo, runs>>

(* A torn file is deleted by hand. *)
Remove ==
    /\ pc = "idle" /\ file.is # "none" /\ file' = NoFile
    /\ UNCHANGED <<code, format, built, pc, opts, selected, todo, result, runs>>

Next ==
    \/ Edit \/ Upgrade \/ Remove
    \/ Start \/ Build \/ Skip \/ BuildOnly \/ TakeSource \/ Measure \/ Save \/ Write \/ Abort

Spec == Init /\ [][Next]_vars

-----------------------------------------------------------------------------
NumbersOf(f) ==
    UNION {f.sections[s].numbers : s \in {t \in Sections : f.sections[t].ran}}

TypeOK ==
    /\ code \in Codes /\ format \in Formats
    /\ built \in [Bins -> Codes \union {NotBuilt}]
    /\ pc \in {"idle", "build", "source", "measure", "write"}
    /\ opts \in Options \union {NoOptions} /\ (pc = "idle" <=> opts = NoOptions)
    /\ file.is \in {"none", "torn", "json"}
    /\ pc = "idle" => todo = <<>>
    /\ pc \in {"source", "measure"} =>
          \A k \in 1 .. Len(selected) :
              selected[k].bin # "wasm" => built[selected[k].bin] # NotBuilt
    /\ pc = "write" => file = TornFile
    /\ file.is = "json" =>
          \A n \in NumbersOf(file) : Named(n.variant).bin \notin Lacking

(***************************************************************************)
(* One results file never mixes numbers from different code, nor fields of *)
(* different formats, and names the code when it names any (README.md      *)
(* 61-63, save() 1037-1051).  An edit after the source was noted reaches   *)
(* only wasm, which runs from the working tree, and the binaries still     *)
(* agree with the source; one while they are built may reach any of them.  *)
(***************************************************************************)
NeverMixesCode ==
    file.is = "json" =>
        LET wasm == {n \in NumbersOf(file) : n.variant = "wasm"}
            numbers == NumbersOf(file) \ IF "measure" \in file.edited THEN wasm ELSE {}
        IN  /\ \A n \in NumbersOf(file) : n.format = file.version
            /\ {"build", "source"} \intersect file.edited = {} =>
                  /\ \A n \in numbers : file.source \in {Unknown, Id(n.code)}
                  /\ Cardinality({n.code : n \in numbers}) <= 1

(***************************************************************************)
(* A run that is merged replaces the sections it measured and keeps all    *)
(* the others (save() 1029, 1043-1048).                                    *)
(***************************************************************************)
KeepsOtherSections ==
    [][ (pc = "measure" /\ pc' = "write" /\ SameCode) =>
          \A s \in Sections :
              result'.sections[s] = IF Wanted(s) THEN result.sections[s]
                                    ELSE file.sections[s] ]_vars

(***************************************************************************)
(* README.md 61: rerunning one command updates only its section of the     *)
(* results file, as long as the code has not changed.                      *)
(***************************************************************************)
UpdatesOnlyItsSection ==
    [][ (pc = "measure" /\ pc' = "write" /\ SameCode) =>
          result' = [file EXCEPT !.sections = [s \in Sections |->
                        IF Wanted(s) THEN result.sections[s] ELSE @[s]]] ]_vars
=============================================================================
