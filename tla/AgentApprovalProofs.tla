-------------------------- MODULE AgentApprovalProofs --------------------------
(***************************************************************************)
(* Theorems about AgentApproval for any number of runs, replicas, calls    *)
(* and restarts, whatever the planner asks for.                            *)
(***************************************************************************)
EXTENDS AgentApproval, TLAPS

\* A running run has an iteration left.
BudgetLeft == \A x \in Run : pc[x] = "running" => left[x] >= 1

\* An item in a store is the card of a run of that replica.
HeldCards == \A r \in Replica : \A x \in pending[r] : home[x] = r /\ card[x] # NoPayload

\* A run that changed the cluster did so with a listed card that is still in
\* the store, so it will not leave one of its own.
ActedOnHits == \A m \in mutations : m.run # NoRun =>
                  /\ pc[m.run] # "idle"
                  /\ pc[m.run] = "running" => Hits(m.run) # {}

IInv == /\ TypeOK
        /\ BudgetLeft
        /\ HeldCards
        /\ ApprovedHasItem
        /\ ActedOnHits
        /\ AskOrAct
        /\ OnlyAgreedCards
-----------------------------------------------------------------------------
LEMMA InitIInv == Init => IInv
<1> SUFFICES ASSUME Init PROVE IInv
  OBVIOUS
<1>1. TypeOK
  <2>1. 0 \in 0..MaxIterations /\ 0 \in 0..MaxApproves /\ 0 \in 0..MaxRestarts
    BY AgentAssumption
  <2>2. <<>> \in Seq(Run)
    OBVIOUS
  <2> QED
    BY <2>1, <2>2 DEF Init, TypeOK
<1>2. BudgetLeft /\ HeldCards /\ ApprovedHasItem /\ ActedOnHits /\ AskOrAct /\ OnlyAgreedCards
  BY DEF Init, BudgetLeft, HeldCards, ApprovedHasItem, ActedOnHits, AskOrAct, OnlyAgreedCards, Issued
<1> QED
  BY <1>1, <1>2 DEF IInv

\* The end of an iteration keeps the budget's type and says whether the run goes on.
LEMMA IterateFacts ==
  ASSUME TypeOK, BudgetLeft, NEW x \in Run, pc[x] = "running", Iterate(x)
  PROVE  /\ left' \in [Run -> 0..MaxIterations]
         /\ pc' = [pc EXCEPT ![x] = "running"] \/ pc' = [pc EXCEPT ![x] = "done"]
         /\ BudgetLeft'
<1>1. left[x] \in 1..MaxIterations
  BY AgentAssumption DEF TypeOK, BudgetLeft
<1>2. left' = [left EXCEPT ![x] = @ - 1]
  BY DEF Iterate
<1>3. left' \in [Run -> 0..MaxIterations]
  BY <1>1, <1>2, AgentAssumption DEF TypeOK
<1>4. CASE left[x] = 1
  BY <1>1, <1>2, <1>3, <1>4 DEF Iterate, TypeOK, BudgetLeft
<1>5. CASE left[x] # 1
  BY <1>1, <1>2, <1>3, <1>5 DEF Iterate, TypeOK, BudgetLeft
<1> QED
  BY <1>4, <1>5

\* A step that only moves a running run on preserves the invariant.
LEMMA MoveIInv ==
  ASSUME IInv, NEW x \in Run, pc[x] = "running", NEW to \in {"running", "done", "failed"},
         pc' = [pc EXCEPT ![x] = to],
         left' \in [Run -> 0..MaxIterations], BudgetLeft',
         UNCHANGED <<pending, approved, card, home, listed, mutations, answers, approves, restarts>>
  PROVE  IInv'
<1> USE DEF IInv
<1>1. TypeOK'
  BY DEF TypeOK
<1>2. Issued' = Issued /\ x \notin Issued
  BY DEF Issued, AskOrAct
<1>3. HeldCards' /\ ApprovedHasItem'
  BY DEF HeldCards, ApprovedHasItem
<1>4. ActedOnHits'
  BY DEF ActedOnHits, Hits, TypeOK, Mutation
<1>5. AskOrAct'
  BY <1>2 DEF AskOrAct, TypeOK, Issued
<1>6. OnlyAgreedCards'
  BY DEF OnlyAgreedCards
<1> QED
  BY <1>1, <1>3, <1>4, <1>5, <1>6

LEMMA StartIInv ==
  ASSUME IInv, NEW x \in Run, NEW ids \in ListsOf(MaxListed), NEW n \in 1..MaxIterations,
         Start(x, ids, n)
  PROVE  IInv'
<1> USE DEF IInv
<1>1. ids \in Seq(Run) /\ n \in 0..MaxIterations /\ n >= 1
  <2>1. PICK k \in 0..MaxListed : ids \in [1..k -> Issued]
    BY DEF ListsOf
  <2>2. Issued \subseteq Run
    BY DEF Issued
  <2>3. k \in Nat
    BY <2>1, AgentAssumption
  <2> QED
    BY <2>1, <2>2, <2>3, AgentAssumption
<1>2. /\ pc[x] = "idle"
      /\ pc' = [pc EXCEPT ![x] = "running"]
      /\ listed' = [listed EXCEPT ![x] = ids]
      /\ left' = [left EXCEPT ![x] = n]
      /\ UNCHANGED <<pending, approved, card, home, mutations, answers, approves, restarts>>
  BY DEF Start
<1>3. TypeOK' /\ BudgetLeft'
  BY <1>1, <1>2 DEF TypeOK, BudgetLeft
<1>4. \A m \in mutations : m.run # x
  BY <1>2, AgentAssumption DEF ActedOnHits
<1>5. x \notin Issued /\ Issued' = Issued
  BY <1>2 DEF AskOrAct, Issued
<1>6. HeldCards' /\ ApprovedHasItem'
  BY <1>2 DEF HeldCards, ApprovedHasItem
<1>7. ActedOnHits'
  BY <1>2, <1>4 DEF ActedOnHits, Hits, TypeOK, Mutation
<1>8. AskOrAct'
  BY <1>2, <1>5 DEF AskOrAct, TypeOK, Issued
<1>9. OnlyAgreedCards'
  BY <1>2, <1>4 DEF OnlyAgreedCards, TypeOK, Mutation
<1> QED
  BY <1>3, <1>6, <1>7, <1>8, <1>9

\* An accepted request is within the limits, and only accepted ones arrive.
LEMMA ExecuteFacts ==
  ASSUME NEW x, NEW r, NEW a, NEW payload, NEW ok, Execute(x, r, a, payload, ok)
  PROVE  \/ mutations' = mutations
         \/ /\ mutations' = mutations \cup {[run |-> x, replica |-> r, approval |-> a,
                                           payload |-> payload]}
            /\ payload.action = "scale" => payload.replicas \subseteq 0..MaxReplicas
BY DEF Execute, Accepts

\* Running a listed card's item preserves the invariant: the item is the card,
\* the run lists it, and it stays in the store for the run's next steps.
LEMMA RunListedIInv ==
  ASSUME IInv, NEW x \in Run, NEW p \in Payload, RunListed(x, p)
  PROVE  IInv'
<1> USE DEF IInv
<1>1. PICK i \in Hits(x) :
        /\ approved' = [approved EXCEPT ![home[x]] = @ \cup {listed[x][i]}]
        /\ \E ok \in BOOLEAN : Execute(x, home[x], listed[x][i], card[listed[x][i]], ok)
        /\ \/ Iterate(x)
           \/ pc' = [pc EXCEPT ![x] = "failed"] /\ UNCHANGED left
  BY DEF RunListed
<1> DEFINE a == listed[x][i]
           r == home[x]
           m == [run |-> x, replica |-> r, approval |-> a, payload |-> card[a]]
<1>2. /\ pc[x] = "running"
      /\ UNCHANGED <<pending, card, home, listed, answers, approves, restarts>>
  BY DEF RunListed
<1>3. /\ r \in Replica /\ i \in DOMAIN listed[x] /\ a \in pending[r] /\ a \in Run
      /\ home[a] = r /\ card[a] \in Payload
  BY <1>1 DEF Hits, TypeOK, HeldCards
<1>4. \/ mutations' = mutations
      \/ /\ mutations' = mutations \cup {m}
         /\ card[a].action = "scale" => card[a].replicas \subseteq 0..MaxReplicas
  BY <1>1, ExecuteFacts
<1>5. /\ left' \in [Run -> 0..MaxIterations]
      /\ BudgetLeft'
      /\ \E to \in {"running", "done", "failed"} : pc' = [pc EXCEPT ![x] = to]
  <2>1. CASE Iterate(x)
    BY <1>2, <2>1, IterateFacts
  <2>2. CASE pc' = [pc EXCEPT ![x] = "failed"] /\ UNCHANGED left
    BY <2>2 DEF TypeOK, BudgetLeft
  <2> QED
    BY <1>1, <2>1, <2>2
<1>6. m \in Mutation /\ m.run = x /\ m.approval = a /\ m.replica = r /\ m.payload = card[a]
  BY <1>3 DEF Mutation
<1> HIDE DEF m, a, r
<1>7. TypeOK'
  <2>1. approved' \in [Replica -> SUBSET Run]
    BY <1>1, <1>3 DEF TypeOK, a, r
  <2>2. pc' \in [Run -> {"idle", "running", "done", "failed", "lost"}]
    BY <1>5 DEF TypeOK
  <2>3. mutations' \subseteq Mutation
    BY <1>4, <1>6 DEF TypeOK
  <2> QED
    BY <1>2, <1>5, <2>1, <2>2, <2>3 DEF TypeOK
<1>8. HeldCards'
  BY <1>2 DEF HeldCards
<1>9. ApprovedHasItem'
  BY <1>1, <1>2, <1>3 DEF ApprovedHasItem, TypeOK, a, r
<1>10. Hits(x)' # {} /\ \A y \in Run : Hits(y)' = Hits(y)
  BY <1>1, <1>2 DEF Hits
<1>11. ActedOnHits'
  <2> SUFFICES ASSUME NEW k \in mutations', k.run # NoRun
               PROVE  pc'[k.run] # "idle" /\ (pc'[k.run] = "running" => Hits(k.run)' # {})
    BY DEF ActedOnHits
  <2>1. CASE k.run = x
    BY <1>5, <1>10, <2>1 DEF TypeOK
  <2>2. CASE k.run # x
    <3>1. k \in mutations /\ k.run \in Run
      BY <1>4, <1>6, <2>2 DEF TypeOK, Mutation
    <3> QED
      BY <1>5, <1>10, <2>2, <3>1 DEF ActedOnHits, TypeOK
  <2> QED
    BY <2>1, <2>2
<1>12. AskOrAct'
  <2>1. Issued' = Issued /\ x \notin Issued
    BY <1>2 DEF Issued, AskOrAct
  <2> QED
    BY <1>4, <1>5, <1>6, <2>1 DEF AskOrAct, Issued, TypeOK
<1>13. OnlyAgreedCards'
  <2>1. \A k \in mutations' : k.payload.action = "scale" => k.payload.replicas \subseteq 0..MaxReplicas
    BY <1>4, <1>6 DEF OnlyAgreedCards
  <2>2. x # NoRun
    BY AgentAssumption
  <2>3. \E j \in DOMAIN listed[x] : listed[x][j] = a
    BY <1>3 DEF a
  <2> QED
    BY <1>2, <1>3, <1>4, <1>6, <2>1, <2>2, <2>3 DEF OnlyAgreedCards
<1> QED
  BY <1>5, <1>7, <1>8, <1>9, <1>11, <1>12, <1>13

\* Leaving a card preserves the invariant: no listed card was at hand, so the
\* run has not acted.
LEMMA LeaveCardIInv ==
  ASSUME IInv, NEW x \in Run, NEW p \in Payload, LeaveCard(x, p)
  PROVE  IInv'
<1> USE DEF IInv, LeaveCard
<1>1. home[x] \in Replica /\ p # NoPayload /\ x \notin Issued
  BY AgentAssumption DEF TypeOK, AskOrAct
<1>2. \A m \in mutations : m.run # x
  BY AgentAssumption DEF ActedOnHits
<1>3. \A y \in Issued : card'[y] = card[y] /\ pc'[y] = pc[y]
  BY <1>1 DEF TypeOK, Issued
<1>4. Issued' = Issued \cup {x}
  BY <1>1 DEF Issued, TypeOK
<1>5. TypeOK' /\ BudgetLeft'
  BY DEF TypeOK, BudgetLeft
<1>6. HeldCards'
  BY <1>1 DEF HeldCards, TypeOK
<1>7. ApprovedHasItem'
  BY <1>1 DEF ApprovedHasItem, TypeOK
<1>8. ActedOnHits'
  <2>1. \A y \in Run : Hits(y) \subseteq Hits(y)'
    BY <1>1 DEF Hits, TypeOK
  <2> QED
    BY <1>2, <2>1 DEF ActedOnHits, TypeOK, Mutation
<1>9. AskOrAct'
  BY <1>2, <1>3, <1>4 DEF AskOrAct, TypeOK
<1>10. OnlyAgreedCards'
  <2>1. \A m \in mutations : m.approval \in Issued
    BY AgentAssumption DEF OnlyAgreedCards, TypeOK, Mutation, Issued
  <2> QED
    BY <1>3, <2>1 DEF OnlyAgreedCards
<1> QED
  BY <1>5, <1>6, <1>7, <1>8, <1>9, <1>10

\* An approval runs the card it names, or finds nothing.
LEMMA ApproveIInv ==
  ASSUME IInv, NEW a \in Run, NEW r \in Replica, Approve(a, r)
  PROVE  IInv'
<1> USE DEF IInv
<1> DEFINE m == [run |-> NoRun, replica |-> r, approval |-> a, payload |-> card[a]]
<1>1. /\ UNCHANGED <<pending, card, pc, home, listed, left, restarts>>
      /\ approves' \in 0..MaxApproves
      /\ card[a] \in Payload
  BY AgentAssumption DEF Approve, TypeOK, Issued
<1>2. PICK n \in Answer : n.approval = a /\ answers' = answers \cup {n}
  <2>1. \A st \in {"not_found", "executed", "failed"} :
           [approval |-> a, replica |-> r, status |-> st] \in Answer
    BY DEF Answer
  <2> QED
    BY <2>1 DEF Approve
<1>3. /\ \/ approved' = approved
         \/ approved' = [approved EXCEPT ![r] = @ \cup {a}] /\ a \in pending[r]
      /\ \/ mutations' = mutations
         \/ /\ mutations' = mutations \cup {m} /\ a \in pending[r]
            /\ card[a].action = "scale" => card[a].replicas \subseteq 0..MaxReplicas
  BY ExecuteFacts DEF Approve
<1>4. m \in Mutation /\ m.run = NoRun /\ m.approval = a /\ m.replica = r /\ m.payload = card[a]
  BY <1>1 DEF Mutation
<1> HIDE DEF m
<1>5. TypeOK' /\ BudgetLeft'
  <2>1. approved' \in [Replica -> SUBSET Run]
    <3>1. approved \in [Replica -> SUBSET Run] /\ approved[r] \cup {a} \in SUBSET Run
      BY DEF TypeOK
    <3>2. [approved EXCEPT ![r] = @ \cup {a}] \in [Replica -> SUBSET Run]
      BY <3>1
    <3> QED
      BY <1>3, <3>1, <3>2
  <2>2. mutations' \subseteq Mutation
    BY <1>3, <1>4 DEF TypeOK
  <2>3. answers' \subseteq Answer
    BY <1>2 DEF TypeOK
  <2> QED
    BY <1>1, <2>1, <2>2, <2>3 DEF TypeOK, BudgetLeft
<1>6. HeldCards' /\ ApprovedHasItem'
  <2>1. HeldCards'
    BY <1>1 DEF HeldCards
  <2>2. CASE approved' = approved
    BY <1>1, <2>1, <2>2 DEF ApprovedHasItem
  <2>3. CASE approved' = [approved EXCEPT ![r] = @ \cup {a}] /\ a \in pending[r]
    <3>1. approved'[r] = approved[r] \cup {a} /\ \A s \in Replica \ {r} : approved'[s] = approved[s]
      BY <2>3 DEF TypeOK
    <3> QED
      BY <1>1, <2>1, <2>3, <3>1 DEF ApprovedHasItem
  <2> QED
    BY <1>3, <2>2, <2>3
<1>7. ActedOnHits'
  BY <1>1, <1>3, <1>4 DEF ActedOnHits, Hits
<1>8. AskOrAct'
  BY <1>1, <1>3, <1>4, AgentAssumption DEF AskOrAct, Issued
<1>9. OnlyAgreedCards'
  <2>1. \A k \in mutations' : k.payload.action = "scale" => k.payload.replicas \subseteq 0..MaxReplicas
    BY <1>3, <1>4 DEF OnlyAgreedCards
  <2>2. a \in pending[r] => home[a] = r
    BY DEF HeldCards
  <2> QED
    BY <1>1, <1>2, <1>3, <1>4, <2>1, <2>2 DEF OnlyAgreedCards
<1> QED
  BY <1>5, <1>6, <1>7, <1>8, <1>9

\* A restart forgets the replica's items and loses its runs.
LEMMA RestartIInv ==
  ASSUME IInv, NEW r \in Replica, Restart(r)
  PROVE  IInv'
<1> USE DEF IInv, Restart
<1>1. \A x \in Run : /\ pc'[x] = pc[x] \/ (pc'[x] = "lost" /\ pc[x] = "running")
                     /\ pc'[x] = "running" => (pc[x] = "running" /\ home[x] # r)
  OBVIOUS
<1>2. TypeOK' /\ BudgetLeft'
  BY <1>1, AgentAssumption DEF TypeOK, BudgetLeft
<1>3. HeldCards' /\ ApprovedHasItem'
  BY DEF HeldCards, ApprovedHasItem, TypeOK
<1>4. ActedOnHits'
  <2>1. \A x \in Run : home[x] # r => Hits(x)' = Hits(x)
    BY DEF Hits, TypeOK
  <2> QED
    BY <1>1, <2>1 DEF ActedOnHits, TypeOK, Mutation
<1>5. AskOrAct'
  BY <1>1 DEF AskOrAct, Issued
<1>6. OnlyAgreedCards'
  BY DEF OnlyAgreedCards
<1> QED
  BY <1>2, <1>3, <1>4, <1>5, <1>6
-----------------------------------------------------------------------------
LEMMA NextIInv == IInv /\ [Next]_vars => IInv'
<1> SUFFICES ASSUME IInv, [Next]_vars PROVE IInv'
  OBVIOUS
<1>1. CASE UNCHANGED vars
  <2> USE DEF vars, IInv
  <2>1. TypeOK' /\ BudgetLeft' /\ HeldCards' /\ ApprovedHasItem'
    BY <1>1 DEF TypeOK, BudgetLeft, HeldCards, ApprovedHasItem
  <2>2. ActedOnHits'
    BY <1>1 DEF ActedOnHits, Hits
  <2>3. AskOrAct'
    BY <1>1 DEF AskOrAct, Issued
  <2>4. OnlyAgreedCards'
    BY <1>1 DEF OnlyAgreedCards
  <2> QED
    BY <2>1, <2>2, <2>3, <2>4
<1>2. ASSUME NEW x \in Run, NEW ids \in ListsOf(MaxListed), NEW n \in 1..MaxIterations,
             Start(x, ids, n)
      PROVE  IInv'
  BY <1>2, StartIInv
<1>3. ASSUME NEW x \in Run, Answered(x) PROVE IInv'
  <2>1. ASSUME NEW p \in Payload, RunListed(x, p) PROVE IInv'
    BY <2>1, RunListedIInv
  <2>2. ASSUME NEW p \in Payload, LeaveCard(x, p) PROVE IInv'
    BY <2>2, LeaveCardIInv
  <2>3. CASE UseOtherTool(x)
    <3>1. pc[x] = "running" /\ TypeOK /\ BudgetLeft /\ Iterate(x)
      BY <2>3 DEF UseOtherTool, IInv
    <3>2. /\ left' \in [Run -> 0..MaxIterations]
          /\ BudgetLeft'
          /\ \E to \in {"running", "done", "failed"} : pc' = [pc EXCEPT ![x] = to]
      BY <3>1, IterateFacts
    <3> QED
      BY <2>3, <3>1, <3>2, MoveIInv DEF UseOtherTool
  <2>4. ASSUME NEW to \in {"done", "failed"}, pc' = [pc EXCEPT ![x] = to], pc[x] = "running",
               UNCHANGED <<pending, approved, card, home, listed, left, mutations, answers,
                           approves, restarts>>
        PROVE  IInv'
    <3>1. left' \in [Run -> 0..MaxIterations] /\ BudgetLeft'
      BY <2>4 DEF IInv, TypeOK, BudgetLeft
    <3> QED
      BY <2>4, <3>1, MoveIInv
  <2>5. CASE FinishStep(x)
    BY <2>4, <2>5 DEF FinishStep
  <2>6. CASE Fail(x)
    BY <2>4, <2>6 DEF Fail
  <2> QED
    BY <1>3, <2>1, <2>2, <2>3, <2>5, <2>6 DEF Answered
<1>4. ASSUME NEW r \in Replica, Restart(r) PROVE IInv'
  BY <1>4, RestartIInv
<1>5. ASSUME NEW r \in Replica, NEW a \in Run, Approve(a, r) PROVE IInv'
  BY <1>5, ApproveIInv
<1> QED
  BY <1>1, <1>2, <1>3, <1>4, <1>5 DEF Next, Finished

THEOREM AlwaysIInv == Spec => []IInv
<1>1. Init => IInv
  BY InitIInv
<1>2. IInv /\ [Next]_vars => IInv'
  BY NextIInv
<1> QED
  BY <1>1, <1>2, PTL DEF Spec

\* Every variable keeps its type (AgentService, ApprovalStore, /agents/approve).
THEOREM TypeCorrect == Spec => []TypeOK
<1>1. IInv => TypeOK
  BY DEF IInv
<1> QED
  BY <1>1, AlwaysIInv, PTL

\* Nothing but a card a client agreed to ever reaches the cluster, whatever the
\* planner answers (_run_k8s_with_approval, approve_and_execute).
THEOREM MutationsAreAgreed == Spec => []OnlyAgreedCards
<1>1. IInv => OnlyAgreedCards
  BY DEF IInv
<1> QED
  BY <1>1, AlwaysIInv, PTL

\* A run leaves a card of its own or acts on listed ones, never both
\* (AgentService.run's loop).
THEOREM RunsAskOrAct == Spec => []AskOrAct
<1>1. IInv => AskOrAct
  BY DEF IInv
<1> QED
  BY <1>1, AlwaysIInv, PTL

\* ApprovalStore: an approved id always has its item, so the "not_approved"
\* answer of approve_and_execute is dead code.
THEOREM ApprovedItemsExist == Spec => []ApprovedHasItem
<1>1. IInv => ApprovedHasItem
  BY DEF IInv
<1> QED
  BY <1>1, AlwaysIInv, PTL

\* A card is never replaced once a client may have seen it (AgentService.run).
THEOREM CardsAreFinal == Spec => CardsStay
<1>1. IInv /\ [Next]_vars => [\A x \in Issued : card'[x] = card[x] /\ pc'[x] = pc[x]]_vars
  <2> SUFFICES ASSUME IInv, Next, NEW x \in Issued
               PROVE  vars' = vars \/ (card'[x] = card[x] /\ pc'[x] = pc[x])
    OBVIOUS
  <2>1. x \in Run /\ pc[x] = "done" /\ TypeOK
    BY DEF IInv, AskOrAct, Issued
  <2>2. ASSUME NEW y \in Run, Answered(y) PROVE card'[x] = card[x] /\ pc'[x] = pc[x]
    BY <2>1, <2>2 DEF Answered, RunListed, LeaveCard, UseOtherTool, FinishStep, Fail, Iterate, TypeOK
  <2>3. ASSUME NEW y \in Run, NEW ids, NEW n, Start(y, ids, n) PROVE card'[x] = card[x] /\ pc'[x] = pc[x]
    BY <2>1, <2>3 DEF Start, TypeOK
  <2>4. ASSUME NEW r \in Replica, Restart(r) PROVE card'[x] = card[x] /\ pc'[x] = pc[x]
    BY <2>1, <2>4 DEF Restart
  <2>5. ASSUME NEW r \in Replica, NEW a \in Run, Approve(a, r) PROVE card'[x] = card[x] /\ pc'[x] = pc[x]
    BY <2>5 DEF Approve
  <2> QED
    BY <2>2, <2>3, <2>4, <2>5 DEF Next, Finished
<1> QED
  BY <1>1, AlwaysIInv, PTL DEF Spec, CardsStay

\* Until a restart every card is in the store of its run's replica.
CardsKept == restarts = 0 => \A x \in Issued : x \in pending[home[x]]

LEMMA HomeFinds ==
  ASSUME IInv, CardsKept, FoundAtHome, [Next]_vars
  PROVE  CardsKept' /\ FoundAtHome'
<1> USE DEF CardsKept, FoundAtHome
<1>0. TypeOK
  BY DEF IInv
<1>1. ASSUME UNCHANGED <<card, pending, home, answers, restarts>>
      PROVE  CardsKept' /\ FoundAtHome'
  BY <1>1 DEF Issued
<1>2. ASSUME NEW x \in Run, NEW p \in Payload, LeaveCard(x, p)
      PROVE  CardsKept' /\ FoundAtHome'
  <2>1. UNCHANGED <<home, answers, restarts>>
    BY <1>2 DEF LeaveCard
  <2>2. /\ \A y \in Run \ {x} : card'[y] = card[y]
        /\ \A y \in Run : pending[home[y]] \subseteq pending'[home[y]]
        /\ x \in pending'[home[x]]
    BY <1>0, <1>2 DEF LeaveCard, TypeOK
  <2> QED
    BY <2>1, <2>2 DEF Issued
<1>3. ASSUME NEW a \in Run, NEW r \in Replica, Approve(a, r)
      PROVE  CardsKept' /\ FoundAtHome'
  <2>1. UNCHANGED <<card, pending, home, restarts>> /\ a \in Issued
    BY <1>0, <1>3 DEF Approve, TypeOK, Issued
  <2>2. CASE restarts = 0 /\ home[a] = r
    <3>1. a \in pending[r]
      BY <2>1, <2>2
    <3>2. PICK n : n.status # "not_found" /\ answers' = answers \cup {n}
      <4>1. PICK ok \in BOOLEAN :
              answers' = answers \cup {[approval |-> a, replica |-> r,
                                       status |-> IF ok THEN "executed" ELSE "failed"]}
        BY <1>3, <3>1 DEF Approve
      <4>2. [approval |-> a, replica |-> r,
             status |-> IF ok THEN "executed" ELSE "failed"].status # "not_found"
        OBVIOUS
      <4> QED
        BY <4>1, <4>2
    <3> QED
      BY <2>1, <2>2, <3>2 DEF Issued
  <2>4. CASE restarts = 0 /\ home[a] # r
    <3>1. PICK n : n.replica = r /\ n.approval = a /\ answers' = answers \cup {n}
      <4>1. PICK st : answers' = answers \cup {[approval |-> a, replica |-> r, status |-> st]}
        BY <1>3 DEF Approve
      <4>2. /\ [approval |-> a, replica |-> r, status |-> st].replica = r
            /\ [approval |-> a, replica |-> r, status |-> st].approval = a
        OBVIOUS
      <4> QED
        BY <4>1, <4>2
    <3> QED
      BY <2>1, <2>4, <3>1 DEF Issued
  <2>3. CASE restarts # 0
    BY <2>1, <2>3
  <2> QED
    BY <2>2, <2>3, <2>4
<1>4. ASSUME NEW r \in Replica, Restart(r)
      PROVE  CardsKept' /\ FoundAtHome'
  <2>1. restarts' # 0
    BY <1>0, <1>4, AgentAssumption DEF Restart, TypeOK
  <2> QED
    BY <2>1
<1> QED
  <2>1. CASE UNCHANGED vars
    BY <1>1, <2>1 DEF vars
  <2>2. ASSUME NEW x \in Run, NEW ids, NEW n, Start(x, ids, n) PROVE CardsKept' /\ FoundAtHome'
    BY <1>1, <2>2 DEF Start
  <2>3. ASSUME NEW x \in Run, Answered(x) PROVE CardsKept' /\ FoundAtHome'
    BY <1>1, <1>2, <2>3 DEF Answered, RunListed, UseOtherTool, FinishStep, Fail
  <2> QED
    BY <1>3, <1>4, <2>1, <2>2, <2>3 DEF Next, Finished

\* The replica that issued a card finds it until a restart, however runs,
\* approvals and failures interleave (approve_and_execute, ApprovalStore); with
\* one replica every approval does.
THEOREM HomeKnowsItsCards == Spec => []FoundAtHome
<1>1. Init => CardsKept /\ FoundAtHome
  BY DEF Init, CardsKept, FoundAtHome, Issued
<1>2. IInv /\ CardsKept /\ FoundAtHome /\ [Next]_vars => (CardsKept /\ FoundAtHome)'
  BY HomeFinds
<1> QED
  BY <1>1, <1>2, AlwaysIInv, PTL DEF Spec
=============================================================================
