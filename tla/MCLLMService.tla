---------------------------- MODULE MCLLMService ----------------------------
(* Instances of LLMService for TLC. *)
EXTENDS LLMService, TLC

\* For runs of invariants alone: unsound beside liveness.
Symmetry == Permutations(Call)
=============================================================================
