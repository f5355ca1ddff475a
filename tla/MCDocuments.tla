----------------------------- MODULE MCDocuments -----------------------------
(* Instances of Documents for TLC. *)
EXTENDS Documents, TLC

Symmetry == Permutations(Doc) \cup Permutations(Eraser) \cup Permutations(Collection)
            \cup Permutations(Session)
=============================================================================
