---------------------------- MODULE AgentApproval ----------------------------
(***************************************************************************)
(* The agent loop and the approval of mutating Kubernetes playbooks        *)
(* (agents/agent_service.py, tools/k8s_playbook_tool.py, ApprovalStore).   *)
(*                                                                         *)
(* A run asks the planner for a step, executes it and repeats.  A playbook *)
(* step without a listed approval leaves a card (PendingApproval) and ends *)
(* the run; the client then calls /agents/approve, or runs again listing   *)
(* card ids in approved_action_ids.  The only suspension that matters is   *)
(* the planner's LLM call: from its answer to the Kubernetes patch nothing *)
(* suspends, so handling one answer is one action.  Each replica has its   *)
(* own ApprovalStore, lost when it restarts.                               *)
(***************************************************************************)
EXTENDS Integers, Sequences, FiniteSets

CONSTANTS Replica,
          Run,           \* calls of /agents/run; a run leaves at most one card, named by it
          Payload,       \* playbook requests the planner may come up with
          NoPayload, NoRun,
          MaxIterations, \* bound on request.max_iterations (the model allows up to 20)
          MaxListed,     \* bound on the length of approved_action_ids
          MaxReplicas,   \* K8S_MAX_SCALE_REPLICAS
          MaxApproves,   \* bound: calls of /agents/approve
          MaxRestarts    \* bound: replica restarts

\* What K8sPlaybookTool._parse returns, as far as execute looks at it: an
\* absent name is "none", an absent replica count the empty set.
PayloadType == [action : {"restart", "scale", "other"},
                name : {"none", "app", "db"},
                replicas : {s \in SUBSET Int : \A m, n \in s : m = n}]

ASSUME AgentAssumption == /\ Payload \subseteq PayloadType
                          /\ NoPayload \notin Payload
                          /\ NoRun \notin Run
                          /\ MaxIterations \in Nat \ {0}
                          /\ MaxListed \in Nat
                          /\ MaxReplicas \in Nat
                          /\ MaxApproves \in Nat
                          /\ MaxRestarts \in Nat

Mutation == [run : Run \cup {NoRun}, replica : Replica, approval : Run,
             payload : Payload]
Answer == [approval : Run, replica : Replica, status : {"not_found", "not_approved", "executed", "failed"}]

VARIABLES pending,   \* ids in ApprovalStore._pending of each replica
          approved,  \* ApprovalStore._approved of each replica
          card,      \* the PendingApproval a run left (None: it left none)
          pc, home,
          listed,    \* approved_action_ids, in the iteration order of the Python set
          left,      \* iterations a run may still make
          mutations, \* history: changes made to the cluster
          answers,   \* history: replies of /agents/approve
          approves, restarts

vars == <<pending, approved, card, pc, home, listed, left, mutations, answers, approves, restarts>>

Init == /\ pending = [r \in Replica |-> {}]
        /\ approved = [r \in Replica |-> {}]
        /\ card = [x \in Run |-> NoPayload]
        /\ pc = [x \in Run |-> "idle"]
        /\ home \in [Run -> Replica]
        /\ listed = [x \in Run |-> <<>>]
        /\ left = [x \in Run |-> 0]
        /\ mutations = {}
        /\ answers = {}
        /\ approves = 0
        /\ restarts = 0

\* Ids a client can have seen: cards returned by some run.
Issued == {x \in Run : card[x] # NoPayload}
-----------------------------------------------------------------------------
MutAccepts(p) == p.name # "none" /\ p.action \in {"restart", "scale"}   \* mutant: no range check

\* The checks of K8sPlaybookTool.execute and scale_deployment.
Accepts(p) ==
  /\ p.name # "none"
  /\ \/ p.action = "restart"
     \/ p.action = "scale" /\ p.replicas # {} /\ p.replicas \subseteq 0..MaxReplicas

\* Running a's payload on replica r for run x: refused, or sent to the cluster,
\* which may report failure with or without having applied it.
Execute(x, r, a, payload, ok) ==
  LET m == [run |-> x, replica |-> r, approval |-> a, payload |-> payload]
  IN  \/ /\ Accepts(payload)
         /\ mutations' = mutations \cup {m}
      \/ /\ ~ok
         /\ UNCHANGED mutations

\* One iteration of the loop is over; the last one returns.
Iterate(x) == /\ left' = [left EXCEPT ![x] = @ - 1]
              /\ pc' = [pc EXCEPT ![x] = IF left[x] = 1 THEN "done" ELSE "running"]

\* Positions of listed ids that have an item in the store of x's replica.
Hits(x) == {i \in DOMAIN listed[x] : listed[x][i] \in pending[home[x]]}
-----------------------------------------------------------------------------
Start(x, ids, n) == /\ pc[x] = "idle"
                    /\ pc' = [pc EXCEPT ![x] = "running"]
                    /\ listed' = [listed EXCEPT ![x] = ids]
                    /\ left' = [left EXCEPT ![x] = n]
                    /\ UNCHANGED <<pending, approved, card, home, mutations, answers, approves, restarts>>

MutRunPlanned(x, p) ==             \* mutant: approval by id runs the planner's request
  /\ pc[x] = "running"
  /\ \E i \in Hits(x) :
        /\ LET a == listed[x][i]
           IN  /\ approved' = [approved EXCEPT ![home[x]] = @ \cup {a}]
               /\ Execute(x, home[x], a, p, TRUE)
        /\ Iterate(x)
  /\ UNCHANGED <<pending, card, home, listed, answers, approves, restarts>>

\* The planner asks for playbook p and the first listed id with an item is
\* taken for it: its item runs, whether p is the same request or not.
RunListed(x, p) ==
  /\ pc[x] = "running"
  /\ \E i \in Hits(x) :
        /\ \A j \in Hits(x) : i <= j
        /\ LET a == listed[x][i]
           IN  /\ approved' = [approved EXCEPT ![home[x]] = @ \cup {a}]
               /\ \/ Execute(x, home[x], a, card[a], TRUE) /\ Iterate(x)
                  \/ /\ Execute(x, home[x], a, card[a], FALSE)
                     /\ pc' = [pc EXCEPT ![x] = "failed"]
                     /\ UNCHANGED left
  /\ UNCHANGED <<pending, card, home, listed, answers, approves, restarts>>

MutLeaveCardLocal(x, p) ==         \* mutant: the card is returned but not put in the store
  /\ pc[x] = "running"
  /\ Hits(x) = {}
  /\ card' = [card EXCEPT ![x] = p]
  /\ pc' = [pc EXCEPT ![x] = "done"]
  /\ UNCHANGED <<pending, approved, home, listed, left, mutations, answers, approves, restarts>>
MutLeaveCardGoOn(x, p) ==          \* mutant: no break after leaving the card
  /\ pc[x] = "running"
  /\ Hits(x) = {}
  /\ card' = [card EXCEPT ![x] = p]
  /\ pending' = [pending EXCEPT ![home[x]] = @ \cup {x}]
  /\ Iterate(x)
  /\ UNCHANGED <<approved, home, listed, mutations, answers, approves, restarts>>

\* The planner asks for playbook p and no listed id has an item: a card is left
\* and the run returns.
LeaveCard(x, p) == /\ pc[x] = "running"
                   /\ Hits(x) = {}
                   /\ card' = [card EXCEPT ![x] = p]
                   /\ pending' = [pending EXCEPT ![home[x]] = @ \cup {x}]
                   /\ pc' = [pc EXCEPT ![x] = "done"]
                   /\ UNCHANGED <<approved, home, listed, left, mutations, answers, approves, restarts>>

\* A step with another tool: none of them changes the cluster.
UseOtherTool(x) == /\ pc[x] = "running"
                   /\ Iterate(x)
                   /\ UNCHANGED <<pending, approved, card, home, listed, mutations, answers, approves, restarts>>

FinishStep(x) == /\ pc[x] = "running"
                 /\ pc' = [pc EXCEPT ![x] = "done"]
                 /\ UNCHANGED <<pending, approved, card, home, listed, left, mutations, answers, approves, restarts>>

\* The planner or a tool raised: the whole run fails.
Fail(x) == /\ pc[x] = "running"
           /\ pc' = [pc EXCEPT ![x] = "failed"]
           /\ UNCHANGED <<pending, approved, card, home, listed, left, mutations, answers, approves, restarts>>

\* /agents/approve for card a, answered by replica r.
Approve(a, r) ==
  /\ a \in Issued
  /\ approves < MaxApproves
  /\ approves' = approves + 1
  /\ \/ /\ a \notin pending[r]
        /\ answers' = answers \cup {[approval |-> a, replica |-> r, status |-> "not_found"]}
        /\ UNCHANGED <<approved, mutations>>
     \/ /\ a \in pending[r]
        /\ approved' = [approved EXCEPT ![r] = @ \cup {a}]
        /\ \E ok \in BOOLEAN :
              /\ Execute(NoRun, r, a, card[a], ok)
              /\ answers' = answers \cup {[approval |-> a, replica |-> r,
                                           status |-> IF ok THEN "executed" ELSE "failed"]}
  /\ UNCHANGED <<pending, card, pc, home, listed, left, restarts>>

Restart(r) == /\ restarts < MaxRestarts
              /\ restarts' = restarts + 1
              /\ pending' = [pending EXCEPT ![r] = {}]
              /\ approved' = [approved EXCEPT ![r] = {}]
              /\ pc' = [x \in Run |-> IF home[x] = r /\ pc[x] = "running" THEN "lost" ELSE pc[x]]
              /\ UNCHANGED <<card, home, listed, left, mutations, answers, approves>>

Answered(x) == \/ \E p \in Payload : RunListed(x, p) \/ LeaveCard(x, p)
               \/ UseOtherTool(x) \/ FinishStep(x) \/ Fail(x)

ListsOf(n) == {s \in UNION {[1..k -> Issued] : k \in 0..n} :
                 \A i, j \in DOMAIN s : s[i] = s[j] => i = j}

Finished == (\A x \in Run : pc[x] \in {"done", "failed", "lost"}) /\ UNCHANGED vars

Next == \/ \E x \in Run : \/ \E ids \in ListsOf(MaxListed), n \in 1..MaxIterations : Start(x, ids, n)
                          \/ Answered(x)
        \/ \E r \in Replica : Restart(r) \/ \E a \in Run : Approve(a, r)
        \/ Finished

Spec == Init /\ [][Next]_vars

-----------------------------------------------------------------------------
TypeOK == /\ pending \in [Replica -> SUBSET Run]
          /\ approved \in [Replica -> SUBSET Run]
          /\ card \in [Run -> Payload \cup {NoPayload}]
          /\ pc \in [Run -> {"idle", "running", "done", "failed", "lost"}]
          /\ home \in [Run -> Replica]
          /\ listed \in [Run -> Seq(Run)]
          /\ left \in [Run -> 0..MaxIterations]
          /\ mutations \subseteq Mutation
          /\ answers \subseteq Answer
          /\ approves \in 0..MaxApproves
          /\ restarts \in 0..MaxRestarts

\* "Mutations (restart / scale) are not automatic ... mutating playbooks return
\* an approval card before execution" (README.md:455).  Whatever the planner
\* asks for in whatever run, what reaches the cluster is word for word a card
\* some run left on that replica, that a client agreed to, within the limits.
OnlyAgreedCards ==
  \A m \in mutations :
     /\ m.payload = card[m.approval]
     /\ IF m.run = NoRun THEN \E n \in answers : n.approval = m.approval
                         ELSE \E i \in DOMAIN listed[m.run] : listed[m.run][i] = m.approval
     /\ m.replica = home[m.approval]
     /\ m.payload.action = "scale" => m.payload.replicas \subseteq 0..MaxReplicas

\* A run either acts on listed cards or leaves a card of its own, never both,
\* and leaving one ends it.  (So a plan of two changes cannot be approved one by
\* one in a run that lists the first card: its item runs for the second step.)
AskOrAct ==
  \A x \in Issued : pc[x] = "done" /\ \A m \in mutations : m.run # x

\* approve() and consume_approved_payload() agree: an approved id always has its
\* item, so "not_approved" (agent_service.py:132) is never answered.
ApprovedHasItem == \A r \in Replica : approved[r] \subseteq pending[r]

\* The card is word for word what runs for as long as the store holds it: no
\* later run replaces or rewrites an item a client may be looking at.
CardsStay == [][\A x \in Issued : card'[x] = card[x] /\ pc'[x] = pc[x]]_vars

\* "Approve and execute a pending mutating playbook." (agents.py:32): an issued
\* card is unknown only to a replica that did not issue it or has restarted.
FoundAtHome ==
  restarts = 0 => \A n \in answers : n.status = "not_found" => n.replica # home[n.approval]
=============================================================================
