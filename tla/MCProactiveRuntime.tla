-------------------------- MODULE MCProactiveRuntime --------------------------
(* Instances of ProactiveRuntime for TLC. *)
EXTENDS ProactiveRuntime, TLC

(* Intents are alike, and so are writers and publishers; only for runs      *)
(* without liveness.                                                       *)
Symmetry == Permutations(Intents) \cup Permutations(Writers)
              \cup Permutations(Publishers)
=============================================================================
