-------------------------------- MODULE Backend --------------------------------
(***************************************************************************)
(* Which SHA-256 code runs (rs/commp/src/sha256/backend.rs and the cfg     *)
(* switches of sha256/mod.rs), as a function of the build and the CPU:     *)
(*   build.arch     the target, "other" standing for any without kernels   *)
(*   build.simd128  wasm32 built with SIMD                                 *)
(*   build.soft     --cfg sha2_backend="soft"                              *)
(*   build.forced   --cfg commp_backend="...", or None                     *)
(*   cpu            the detectable features the CPU has                    *)
(***************************************************************************)
EXTENDS Integers, Sequences

None == "none"

(* Fastest first; the last one runs everywhere. *)
PREFERENCE == <<"ArmSha2", "ShaNi", "Avx512", "Avx2", "Sse2", "Neon", "Portable">>

Backends == {PREFERENCE[p] : p \in 1 .. 7}

Detectable(arch) ==
    IF arch = "aarch64" THEN {"sha2"}
    ELSE IF arch = "x86_64" THEN {"sha", "ssse3", "sse4.1", "avx2", "avx512f"}
    ELSE {}

Builds ==
    {b \in [arch : {"aarch64", "x86_64", "wasm32", "other"}, simd128 : BOOLEAN,
            soft : BOOLEAN, forced : Backends \union {None}] :
        /\ b.simd128 => b.arch = "wasm32"
        /\ b.arch = "wasm32" => b.forced = None /\ ~b.soft}

(* Mutant: SHA-NI is taken to imply the shuffles its kernel uses. *)
SupportedShaOnly(build, cpu, b) ==
    \/ b = "Portable"
    \/ /\ build.arch = "aarch64"
       /\ \/ b = "Neon"
          \/ b = "ArmSha2" /\ ~build.soft /\ "sha2" \in cpu
    \/ /\ build.arch = "x86_64"
       /\ \/ b = "Sse2"
          \/ b = "ShaNi" /\ ~build.soft /\ "sha" \in cpu
          \/ b = "Avx512" /\ "avx512f" \in cpu
          \/ b = "Avx2" /\ "avx2" \in cpu

Supported(build, cpu, b) ==
    \/ b = "Portable"
    \/ /\ build.arch = "aarch64"
       /\ \/ b = "Neon"
          \/ b = "ArmSha2" /\ ~build.soft /\ "sha2" \in cpu
    \/ /\ build.arch = "x86_64"
       /\ \/ b = "Sse2"
          \/ b = "ShaNi" /\ ~build.soft /\ {"sha", "ssse3", "sse4.1"} \subseteq cpu
          \/ b = "Avx512" /\ "avx512f" \in cpu
          \/ b = "Avx2" /\ "avx2" \in cpu

(* PREFERENCE.into_iter().find(supported) *)
Fastest(build, cpu) ==
    PREFERENCE[CHOOSE p \in 1 .. 7 :
        /\ Supported(build, cpu, PREFERENCE[p])
        /\ \A q \in 1 .. p - 1 : ~Supported(build, cpu, PREFERENCE[q])]

ForcedRuns(build, cpu) == build.forced # None /\ Supported(build, cpu, build.forced)

Get(build, cpu) == IF ForcedRuns(build, cpu) THEN build.forced ELSE Fastest(build, cpu)

(* The match of hash_many: arms of other targets are not compiled in. *)
CompiledIn(arch) ==
    IF arch = "aarch64" THEN {"ArmSha2", "Neon"}
    ELSE IF arch = "x86_64" THEN {"ShaNi", "Avx512", "Avx2", "Sse2"}
    ELSE {}

Kernel(build, cpu) ==
    IF build.arch = "wasm32" THEN IF build.simd128 THEN "Wasm" ELSE "Portable"
    ELSE IF Get(build, cpu) \in CompiledIn(build.arch) THEN Get(build, cpu)
    ELSE "Portable"

(* Mutant: a forced backend is reported without asking what get() picked. *)
ReportForced(build, cpu) ==
    [backend |-> Get(build, cpu),
     note |-> IF build.forced = None THEN "" ELSE "forced"]

(* sha256_backend(), native targets only *)
Report(build, cpu) ==
    [backend |-> Get(build, cpu),
     note |-> IF build.forced = None THEN ""
              ELSE IF build.forced = Get(build, cpu) THEN "forced"
              ELSE "unavailable"]
=============================================================================
