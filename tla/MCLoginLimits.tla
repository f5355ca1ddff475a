---------------------------- MODULE MCLoginLimits ----------------------------
(* Instances of LoginLimits for TLC. *)
EXTENDS LoginLimits, TLC

Symmetry == Permutations(Attempt) \cup Permutations(Source)
=============================================================================
