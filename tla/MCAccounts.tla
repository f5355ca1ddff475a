------------------------------ MODULE MCAccounts ------------------------------
(* Instances of Accounts for TLC. *)
EXTENDS Accounts, TLC

Symmetry == UNION {Permutations(S) : S \in {Issuer, Bearer, Email, Identity}}
=============================================================================
