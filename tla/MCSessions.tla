------------------------------ MODULE MCSessions ------------------------------
(* Instances of Sessions for TLC. *)
EXTENDS Sessions, TLC

Symmetry == Permutations(User) \cup Permutations(Login) \cup Permutations(Client)
=============================================================================
