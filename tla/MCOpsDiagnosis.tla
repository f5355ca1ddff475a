---------------------------- MODULE MCOpsDiagnosis ----------------------------
(* Instances of OpsDiagnosis for TLC. *)
EXTENDS OpsDiagnosis, TLC

\* For runs of invariants alone: unsound beside liveness.
Symmetry == Permutations(Fp) \cup Permutations(Replica) \cup Permutations(Task)
=============================================================================
