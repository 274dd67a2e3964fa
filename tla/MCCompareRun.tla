------------------------------ MODULE MCCompareRun ------------------------------
EXTENDS CompareRun

Run(command, variants, config) ==
    [command |-> command, variants |-> variants, config |-> config]

(* All variants, the order and the choices of a user, and no variant left. *)
MCOptions == {Run("all", <<"rust-native", "wasm">>, "quick"),
              Run("verify", <<"go-1core">>, "full"),
              Run("bench", <<"wasm", "rust-avx2">>, "full"),
              Run("memory", <<>>, "quick"), Run("info", <<"go">>, "full")}

(* One commit, without and with a change to the code. *)
Code(commit, change) == [commit |-> commit, change |-> change]
MCCodes == {Code(1, 0), Code(1, 1)}
MCOneCode == {Code(1, 0)}
MCTwoChanges == {Code(1, 1), Code(1, 2)}

(* A short list, for runs that need few steps. *)
MCFewOptions == {Run("verify", <<"rust">>, "quick"), Run("bench", <<"wasm">>, "full")}
=============================================================================
