---------------------------- MODULE MCConversation ----------------------------
(* Instances of Conversation for TLC. *)
EXTENDS Conversation

Symmetry == Permutations(Exchange) \cup Permutations(Replica) \cup Permutations(Session)
=============================================================================
