--------------------------- MODULE MCAgentApproval ---------------------------
(* Instances of AgentApproval for TLC. *)
EXTENDS AgentApproval, TLC

Symmetry == Permutations(Run) \cup Permutations(Replica)

Restart_app == [action |-> "restart", name |-> "app", replicas |-> {}]
Scale_app == [action |-> "scale", name |-> "app", replicas |-> {20}]
Scale_too_far == [action |-> "scale", name |-> "app", replicas |-> {21}]
Restart_nothing == [action |-> "restart", name |-> "none", replicas |-> {}]

\* What the planner may ask for in each instance.
OneRefused == {Restart_app, Scale_too_far}
BadRequests == {Scale_app, Scale_too_far, Restart_nothing}
=============================================================================
