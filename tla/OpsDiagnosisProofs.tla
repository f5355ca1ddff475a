-------------------------- MODULE OpsDiagnosisProofs --------------------------
(***************************************************************************)
(* Theorems about OpsDiagnosis for any number of replicas, requests,       *)
(* fingerprints and restarts.  All safety results come from one inductive  *)
(* invariant, IInv: the named invariants of OpsDiagnosis and the facts     *)
(* below, which say what a request may rely on between its suspensions.    *)
(***************************************************************************)
EXTENDS OpsDiagnosis, FiniteSetTheorems, TLAPS

\* A request that is suspended stands at an alert of its batch.
AtAlert == \A t \in Task : pc[t] \in {"llm", "slack"} => at[t] <= Len(alerts[t])

\* A stored finding was built on that replica by an alert its request has
\* passed, or by the alert whose announcement it waits for, or died waiting for: an id that is
\* about to be used for a new finding is in no store.
IdsPassed == \A r \in Replica : \A f \in byId[r] :
                /\ home[f[1]] = r
                /\ \/ f[2] < at[f[1]]
                   \/ f[2] = at[f[1]] /\ pc[f[1]] \in {"slack", "lost"}

\* A fingerprint that is not on record was not announced.
SilentUnlessKnown == \A r \in Replica, fp \in Fp : byFp[r][fp] = NoFinding => posts[r][fp] = 0

\* The finding whose announcement a request waits for is one of its alert.
StoredFits == \A t \in Task : pc[t] = "slack" =>
                 /\ stored[t] \in FindingId
                 /\ finding[stored[t]] # NoFinding
                 /\ finding[stored[t]].fp = Current(t)
                 /\ stored[t] \in byId[home[t]]

\* Without Slack nobody ever waits for it.
NobodyPosts == ~slack => \A t \in Task : pc[t] # "slack"

IInv == /\ TypeOK
        /\ AtAlert
        /\ OneFindingPerFingerprint
        /\ IdsPassed
        /\ SilentUnlessKnown
        /\ StoredFits
        /\ NoneForgotten
        /\ NobodyPosts
-----------------------------------------------------------------------------
\* A batch is a sequence of at most MaxAlerts fingerprints.
LEMMA BatchIsSequence ==
  ASSUME NEW b \in Batch
  PROVE  /\ Len(b) \in 0..MaxAlerts
         /\ \A i \in 1..Len(b) : b[i] \in Fp
<1>1. PICK n \in 0..MaxAlerts : b \in [1..n -> Fp]
  BY DEF Batch
<1>2. n \in Nat /\ Len(b) = n
  BY <1>1, OpsAssumption
<1> QED
  BY <1>1, <1>2

\* Where a request that has an alert to handle stands: the id it may use and
\* the fingerprint it handles are of their types.
LEMMA OwnAndCurrent ==
  ASSUME TypeOK, NEW t \in Task, at[t] <= Len(alerts[t])
  PROVE  /\ at[t] \in 1..MaxAlerts
         /\ Own(t) \in FindingId
         /\ Current(t) \in Fp
         /\ home[t] \in Replica
<1>1. alerts[t] \in Batch /\ at[t] \in 1..(MaxAlerts + 1) /\ home[t] \in Replica
  BY DEF TypeOK
<1>2. Len(alerts[t]) \in 0..MaxAlerts /\ \A i \in 1..Len(alerts[t]) : alerts[t][i] \in Fp
  BY <1>1, BatchIsSequence
<1>3. at[t] \in 1..MaxAlerts /\ at[t] \in 1..Len(alerts[t])
  BY <1>1, <1>2, OpsAssumption
<1> QED
  BY <1>1, <1>2, <1>3 DEF Own, Current, FindingId

\* The initial states satisfy the invariant.
LEMMA InitIInv == Init => IInv
<1> SUFFICES ASSUME Init PROVE IInv
  OBVIOUS
<1>1. TypeOK
  <2>1. 1 \in 1..(MaxAlerts + 1) /\ 0 \in 0..MaxRestarts
    BY OpsAssumption
  <2>2. NoReply \in Reply
    BY DEF NoReply, Reply
  <2> QED
    BY <2>1, <2>2 DEF Init, TypeOK
<1>2. AtAlert /\ IdsPassed /\ StoredFits /\ NobodyPosts
  BY DEF Init, AtAlert, IdsPassed, StoredFits, NobodyPosts
<1>3. OneFindingPerFingerprint /\ SilentUnlessKnown /\ NoneForgotten
  BY DEF Init, OneFindingPerFingerprint, SilentUnlessKnown, NoneForgotten
<1> QED
  BY <1>1, <1>2, <1>3 DEF IInv
-----------------------------------------------------------------------------
\* What Record does to the stores, in terms of the finding it picks: either the
\* one on record for the fingerprint, or a new one whose id is in no store.
LEMMA RecordFacts ==
  ASSUME IInv, NEW t \in Task, NEW seen,
         pc[t] \in {"ready", "llm"}, at[t] <= Len(alerts[t]), Record(t, seen)
  PROVE  /\ at[t] \in 1..MaxAlerts
         /\ home[t] \in Replica
         /\ Current(t) \in Fp
         /\ Target(t) \in FindingId
         /\ \A r \in Replica : Own(t) \notin byId[r]
         /\ \/ /\ Target(t) = Own(t)
               /\ byFp[home[t]][Current(t)] = NoFinding
            \/ /\ Target(t) = byFp[home[t]][Current(t)]
               /\ Target(t) \in byId[home[t]]
               /\ finding[Target(t)] \in Finding
               /\ finding[Target(t)].fp = Current(t)
<1> USE DEF IInv
<1>1. at[t] \in 1..MaxAlerts /\ home[t] \in Replica /\ Current(t) \in Fp /\ Own(t) \in FindingId
  BY OwnAndCurrent
<1>2. ASSUME NEW r \in Replica, Own(t) \in byId[r] PROVE FALSE
  <2>1. Own(t)[1] = t /\ Own(t)[2] = at[t]
    BY DEF Own
  <2>2. at[t] < at[t] \/ pc[t] \in {"slack", "lost"}
    BY <1>2, <2>1 DEF IdsPassed
  <2> QED
    BY <2>2, <1>1
<1> DEFINE known == byFp[home[t]][Current(t)]
<1>3. CASE known \in byId[home[t]]
  <2>1. Target(t) = known
    BY <1>3 DEF Target
  <2>2. known \in FindingId /\ known # NoFinding
    BY <1>1, <1>3, OpsAssumption DEF TypeOK
  <2>3. finding[known] # NoFinding /\ finding[known].fp = Current(t)
    BY <1>1, <1>3, <2>2 DEF OneFindingPerFingerprint
  <2>4. finding[known] \in Finding
    BY <2>2, <2>3 DEF TypeOK
  <2> QED
    BY <1>1, <1>2, <1>3, <2>1, <2>2, <2>3, <2>4
<1>4. CASE known \notin byId[home[t]]
  <2>1. Target(t) = Own(t)
    BY <1>4 DEF Target
  <2>2. known = NoFinding
    BY <1>1, <1>4 DEF OneFindingPerFingerprint
  <2> QED
    BY <1>1, <1>2, <2>1, <2>2
<1> QED
  BY <1>3, <1>4

\* Recording a finding, with what follows it up to the next suspension,
\* preserves the invariant.
LEMMA RecordIInv ==
  ASSUME IInv, NEW t \in Task, NEW seen \in FindingId \cup {NoFinding},
         pc[t] \in {"ready", "llm"}, at[t] <= Len(alerts[t]), Record(t, seen),
         existing' \in [Task -> FindingId \cup {NoFinding}],
         UNCHANGED <<given, restarts>>
  PROVE  IInv'
<1> DEFINE r == home[t]
           f == Target(t)
           fp == Current(t)
           quiet == f \in byId[r] /\ finding[f].notified
           waits == slack /\ ~quiet
<1> USE DEF IInv
<1>1. /\ at[t] \in 1..MaxAlerts /\ r \in Replica /\ fp \in Fp /\ f \in FindingId
      /\ \A s \in Replica : Own(t) \notin byId[s]
      /\ \/ f = Own(t) /\ byFp[r][fp] = NoFinding
         \/ f = byFp[r][fp] /\ f \in byId[r] /\ finding[f] \in Finding /\ finding[f].fp = fp
  BY RecordFacts
<1>2. /\ slack' = slack /\ useLlm' = useLlm /\ home' = home /\ kind' = kind /\ alerts' = alerts /\ restarts' = restarts
      /\ Current(t)' = alerts[t][at'[t]]
  BY DEF given, Current
<1>3. /\ byId' = [byId EXCEPT ![r] = @ \cup {f}]
      /\ byFp' = [byFp EXCEPT ![r][fp] = f]
      /\ finding' = [finding EXCEPT ![f] = [fp |-> fp, notified |-> quiet \/ ~slack]]
      /\ posts' = IF quiet THEN posts ELSE [posts EXCEPT ![r][fp] = @ + 1]
      /\ stored' = [stored EXCEPT ![t] = f]
      /\ \/ /\ waits
            /\ pc' = [pc EXCEPT ![t] = "slack"]
            /\ at' = at /\ reply' = reply
         \/ /\ ~waits
            /\ pc' = [pc EXCEPT ![t] = "ready"]
            /\ at' = [at EXCEPT ![t] = @ + 1]
            /\ reply' = [reply EXCEPT ![Own(t)] = [id |-> f, deduplicated |-> seen = f]]
  BY DEF Record, Respond
<1>4. TypeOK'
  <2>1. byId' \in [Replica -> SUBSET FindingId] /\ byFp' \in [Replica -> [Fp -> FindingId \cup {NoFinding}]]
    BY <1>1, <1>3 DEF TypeOK
  <2>2. finding' \in [FindingId -> Finding \cup {NoFinding}]
    <3>1. (quiet \/ ~slack) \in BOOLEAN
      OBVIOUS
    <3>2. [fp |-> fp, notified |-> quiet \/ ~slack] \in Finding
      BY <1>1, <3>1 DEF Finding
    <3> HIDE DEF fp, quiet, f
    <3> QED
      BY <1>1, <1>3, <3>2 DEF TypeOK
  <2>3. posts' \in [Replica -> [Fp -> Nat]]
    BY <1>1, <1>3 DEF TypeOK
  <2>4. pc' \in [Task -> {"idle", "done", "lost"} \cup Active]
    <3>1. \E p \in {"slack", "ready"} : pc' = [pc EXCEPT ![t] = p]
      BY <1>3
    <3> HIDE DEF fp, quiet, f, waits
    <3> QED
      BY <3>1 DEF TypeOK, Active
  <2>5. at' \in [Task -> 1..(MaxAlerts + 1)]
    BY <1>1, <1>3, OpsAssumption DEF TypeOK
  <2>6. stored' \in [Task -> FindingId \cup {NoFinding}]
    BY <1>1, <1>3 DEF TypeOK
  <2>7. reply' \in [FindingId -> Reply]
    <3>1. (seen = f) \in BOOLEAN
      OBVIOUS
    <3>2. [id |-> f, deduplicated |-> seen = f] \in Reply
      BY <1>1, <3>1 DEF Reply
    <3> HIDE DEF f
    <3> QED
      BY <1>3, <3>2 DEF TypeOK
  <2> QED
    BY <1>2, <2>1, <2>2, <2>3, <2>4, <2>5, <2>6, <2>7 DEF TypeOK
<1>5. AtAlert'
  BY <1>2, <1>3 DEF AtAlert, TypeOK
<1> HIDE DEF fp, f, quiet, waits
\* The same, point by point.
<1>6. \A s \in Replica : /\ s = r => byId'[s] = byId[s] \cup {f}
                         /\ s # r => byId'[s] = byId[s]
  BY <1>1, <1>3 DEF TypeOK
<1>7. \A s \in Replica, q \in Fp : byFp'[s][q] = IF s = r /\ q = fp THEN f ELSE byFp[s][q]
  BY <1>1, <1>3 DEF TypeOK
<1>8. /\ \A g \in FindingId : g # f => finding'[g] = finding[g]
      /\ finding'[f] # NoFinding /\ finding'[f].fp = fp
      /\ finding'[f].notified = (quiet \/ ~slack)
  <2>1. finding'[f] = [fp |-> fp, notified |-> quiet \/ ~slack]
    BY <1>1, <1>3 DEF TypeOK
  <2>2. finding'[f] \in FindingId \cup Finding
    BY <1>1, <2>1 DEF Finding
  <2> QED
    BY <1>1, <1>3, <2>1, <2>2, OpsAssumption DEF TypeOK
<1>9. \A s \in Replica, q \in Fp :
          /\ posts'[s][q] \in Nat
          /\ s # r \/ q # fp \/ quiet => posts'[s][q] = posts[s][q]
          /\ s = r /\ q = fp /\ ~quiet => posts'[s][q] = posts[s][q] + 1
  BY <1>1, <1>3 DEF TypeOK
<1>10. \A g \in FindingId : g # NoFinding
  BY OpsAssumption
<1>11. \A s \in Replica : \A g \in byId[s] : g \in FindingId /\ finding[g] \in Finding /\ finding[g].fp \in Fp
  BY DEF TypeOK, OneFindingPerFingerprint, Finding
<1>12. OneFindingPerFingerprint'
  <2>1. ASSUME NEW s \in Replica, NEW g \in byId'[s]
        PROVE  finding'[g] # NoFinding /\ byFp'[s][finding'[g].fp] = g
    <3>1. CASE g = f
      <4>1. s # r => f \in byId[s] /\ finding[f].fp = fp
        BY <1>1, <1>6, <2>1, <3>1
      <4>2. s # r => byFp[s][fp] = f
        BY <4>1 DEF OneFindingPerFingerprint
      <4> QED
        BY <1>1, <1>7, <1>8, <3>1, <4>2
    <3>2. CASE g # f
      <4>1. g \in byId[s] /\ finding'[g] = finding[g]
        BY <1>6, <1>8, <1>11, <2>1, <3>2
      <4>2. finding[g] # NoFinding /\ byFp[s][finding[g].fp] = g
        BY <4>1 DEF OneFindingPerFingerprint
      <4> QED
        BY <1>1, <1>7, <1>8, <1>10, <1>11, <3>2, <4>1, <4>2
    <3> QED
      BY <3>1, <3>2
  <2>2. ASSUME NEW s \in Replica, NEW q \in Fp, byFp'[s][q] # NoFinding
        PROVE  byFp'[s][q] \in byId'[s] /\ finding'[byFp'[s][q]].fp = q
    BY <1>1, <1>6, <1>7, <1>8, <1>11, <2>2 DEF OneFindingPerFingerprint
  <2> QED
    BY <2>1, <2>2 DEF OneFindingPerFingerprint
<1>13. IdsPassed'
  <2> SUFFICES ASSUME NEW s \in Replica, NEW g \in byId'[s]
               PROVE  /\ home'[g[1]] = s
                      /\ g[2] < at'[g[1]] \/ (g[2] = at'[g[1]] /\ pc'[g[1]] \in {"slack", "lost"})
    BY DEF IdsPassed
  <2>1. CASE g \in byId[s]
    <3>1. home[g[1]] = s /\ (g[2] < at[g[1]] \/ (g[2] = at[g[1]] /\ pc[g[1]] \in {"slack", "lost"}))
      BY <2>1 DEF IdsPassed
    <3>2. g[1] \in Task /\ g[2] \in Nat /\ at[g[1]] \in Nat
      BY <1>11, <2>1 DEF TypeOK, FindingId
    <3>3. CASE g[1] = t
      <4>1. g[2] < at[t] /\ (at'[t] = at[t] \/ at'[t] = at[t] + 1)
        BY <1>3, <3>1, <3>2, <3>3 DEF TypeOK
      <4> QED
        BY <1>2, <3>1, <3>2, <3>3, <4>1
    <3>4. CASE g[1] # t
      <4>1. at'[g[1]] = at[g[1]] /\ pc'[g[1]] = pc[g[1]]
        BY <1>3, <3>2, <3>4 DEF TypeOK
      <4> QED
        BY <1>2, <3>1, <4>1
    <3> QED
      BY <3>3, <3>4
  <2>2. CASE g \notin byId[s]
    <3>1. g = Own(t) /\ s = r
      BY <1>1, <1>6, <2>2
    <3>2. g[1] = t /\ g[2] = at[t]
      BY <3>1 DEF Own
    <3> QED
      BY <1>1, <1>2, <1>3, <3>1, <3>2 DEF TypeOK
  <2> QED
    BY <2>1, <2>2
<1>14. SilentUnlessKnown'
  BY <1>1, <1>7, <1>9, <1>10 DEF SilentUnlessKnown
<1>15. StoredFits'
  <2> SUFFICES ASSUME NEW u \in Task, pc'[u] = "slack"
               PROVE  /\ stored'[u] \in FindingId
                      /\ finding'[stored'[u]] # NoFinding
                      /\ finding'[stored'[u]].fp = Current(u)'
                      /\ stored'[u] \in byId'[home'[u]]
    BY DEF StoredFits
  <2>1. CASE u = t
    <3>1. stored'[u] = f /\ at' = at /\ home'[u] = r
      BY <1>2, <1>3, <2>1 DEF TypeOK
    <3>2. Current(u)' = fp
      BY <1>2, <2>1, <3>1 DEF Current, fp
    <3> QED
      BY <1>1, <1>6, <1>8, <3>1, <3>2
  <2>2. CASE u # t
    <3>1. /\ stored'[u] = stored[u] /\ at'[u] = at[u] /\ pc[u] = "slack"
          /\ home'[u] = home[u] /\ Current(u)' = Current(u)
      BY <1>2, <1>3, <2>2 DEF TypeOK, Current
    <3>2. /\ stored[u] \in FindingId /\ finding[stored[u]] # NoFinding
          /\ finding[stored[u]].fp = Current(u)
          /\ stored[u] \in byId[home[u]]
      BY <3>1 DEF StoredFits
    <3>3. home[u] \in Replica
      BY DEF TypeOK
    <3> QED
      BY <1>1, <1>2, <1>6, <1>8, <3>1, <3>2, <3>3
  <2> QED
    BY <2>1, <2>2
<1>16. NoneForgotten'
  <2> SUFFICES ASSUME NEW s \in Replica, NEW g \in byId'[s]
               PROVE  /\ posts'[s][finding'[g].fp] >= 1
                      /\ \/ finding'[g].notified
                         \/ \E u \in Task : pc'[u] = "slack" /\ home'[u] = s /\ stored'[u] = g
    BY DEF NoneForgotten
  <2>1. CASE g = f
    <3>1. s = r
      <4>1. g \in byId[s] => f # Own(t) /\ f \in byId[r]
        BY <1>1, <2>1
      <4> QED
        BY <1>1, <1>6, <2>1, <4>1 DEF IdsPassed
    <3>2. f \in byId[r] => posts[r][fp] >= 1
      BY <1>1 DEF NoneForgotten
    <3>3. posts[r][fp] \in Nat
      BY <1>1 DEF TypeOK
    <3>4. quiet => f \in byId[r]
      BY DEF quiet
    <3>5. posts'[s][fp] >= 1
      BY <1>1, <1>9, <3>1, <3>2, <3>3, <3>4
    <3>6. CASE quiet \/ ~slack
      BY <1>8, <2>1, <3>1, <3>5, <3>6
    <3>7. CASE ~(quiet \/ ~slack)
      <4>1. pc'[t] = "slack" /\ stored'[t] = g /\ home'[t] = r
        BY <1>2, <1>3, <2>1, <3>7 DEF TypeOK, waits
      <4> QED
        BY <1>8, <2>1, <3>1, <3>5, <4>1
    <3> QED
      BY <3>6, <3>7
  <2>2. CASE g # f
    <3>1. g \in byId[s] /\ g \in FindingId /\ finding'[g] = finding[g] /\ finding[g].fp \in Fp
      BY <1>6, <1>8, <1>11, <2>2
    <3>2. /\ posts[s][finding[g].fp] >= 1
          /\ finding[g].notified \/ \E u \in Task : pc[u] = "slack" /\ home[u] = s /\ stored[u] = g
      BY <3>1 DEF NoneForgotten
    <3>3. posts[s][finding[g].fp] \in Nat
      BY <3>1 DEF TypeOK
    <3>4. posts'[s][finding'[g].fp] >= 1
      BY <1>9, <3>1, <3>2, <3>3
    <3>5. ASSUME NEW u \in Task, pc[u] = "slack", home[u] = s, stored[u] = g
          PROVE  pc'[u] = "slack" /\ home'[u] = s /\ stored'[u] = g
      BY <1>2, <1>3, <3>5 DEF TypeOK
    <3> QED
      BY <3>1, <3>2, <3>4, <3>5
  <2> QED
    BY <2>1, <2>2
<1>17. NobodyPosts'
  BY <1>2, <1>3 DEF NobodyPosts, TypeOK, waits
<1> QED
  BY <1>4, <1>5, <1>12, <1>13, <1>14, <1>15, <1>16, <1>17

\* The end of the Slack post marks the finding it was about, which is still in
\* the store, and preserves the invariant.
LEMMA SlackReturnIInv ==
  ASSUME IInv, NEW t \in Task, SlackReturn(t)
  PROVE  IInv'
<1> DEFINE r == home[t]
           g == stored[t]
<1> USE DEF IInv
<1>1. /\ pc[t] = "slack" /\ r \in Replica /\ at[t] <= Len(alerts[t])
      /\ at[t] \in 1..MaxAlerts /\ Own(t) \in FindingId
      /\ g \in FindingId /\ g \in byId[r] /\ finding[g] \in Finding
  BY OwnAndCurrent DEF SlackReturn, AtAlert, StoredFits, TypeOK
<1>2. /\ byId' = byId /\ byFp' = byFp /\ posts' = posts
      /\ slack' = slack /\ useLlm' = useLlm /\ home' = home /\ kind' = kind /\ alerts' = alerts
      /\ existing' = existing /\ stored' = stored /\ restarts' = restarts
      /\ finding' = [finding EXCEPT ![g].notified = TRUE]
      /\ pc' = [pc EXCEPT ![t] = "ready"]
      /\ at' = [at EXCEPT ![t] = @ + 1]
      /\ reply' = [reply EXCEPT ![Own(t)] = [id |-> g, deduplicated |-> existing[t] = g]]
  BY <1>1 DEF SlackReturn, Respond, given
<1>3. /\ finding' \in [FindingId -> Finding \cup {NoFinding}]
      /\ \A h \in FindingId : /\ finding[h] # NoFinding => finding'[h] # NoFinding
                              /\ finding'[h].fp = finding[h].fp
                              /\ h # g => finding'[h] = finding[h]
      /\ finding'[g].notified
  <2> DEFINE marked == [finding[g] EXCEPT !.notified = TRUE]
  <2>1. marked \in Finding /\ marked.fp = finding[g].fp /\ marked.notified
    BY <1>1 DEF Finding
  <2>2. finding' = [finding EXCEPT ![g] = marked]
    BY <1>2
  <2> HIDE DEF marked
  <2> QED
    BY <1>1, <2>1, <2>2, OpsAssumption DEF TypeOK
<1>4. \A s \in Replica : \A h \in byId[s] : h \in FindingId
  BY DEF TypeOK
<1>5. TypeOK'
  <2>1. reply' \in [FindingId -> Reply]
    <3>1. (existing[t] = g) \in BOOLEAN
      OBVIOUS
    <3>2. [id |-> g, deduplicated |-> existing[t] = g] \in Reply
      BY <1>1, <3>1 DEF Reply
    <3> HIDE DEF g
    <3> QED
      BY <1>2, <3>2 DEF TypeOK
  <2>2. at' \in [Task -> 1..(MaxAlerts + 1)]
    BY <1>1, <1>2, OpsAssumption DEF TypeOK
  <2>3. pc' \in [Task -> {"idle", "done", "lost"} \cup Active]
    BY <1>2 DEF TypeOK, Active
  <2> QED
    BY <1>2, <1>3, <2>1, <2>2, <2>3 DEF TypeOK
<1>6. AtAlert' /\ NobodyPosts'
  BY <1>1, <1>2 DEF AtAlert, NobodyPosts, TypeOK
<1>7. OneFindingPerFingerprint' /\ SilentUnlessKnown'
  BY <1>2, <1>3, <1>4 DEF OneFindingPerFingerprint, SilentUnlessKnown, TypeOK
<1>8. IdsPassed'
  <2> SUFFICES ASSUME NEW s \in Replica, NEW h \in byId[s]
               PROVE  /\ home[h[1]] = s
                      /\ h[2] < at'[h[1]] \/ (h[2] = at'[h[1]] /\ pc'[h[1]] \in {"slack", "lost"})
    BY <1>2 DEF IdsPassed
  <2>1. /\ home[h[1]] = s
        /\ h[2] < at[h[1]] \/ (h[2] = at[h[1]] /\ pc[h[1]] \in {"slack", "lost"})
    BY DEF IdsPassed
  <2>2. h[1] \in Task /\ h[2] \in Nat /\ at[h[1]] \in Nat
    BY <1>4 DEF TypeOK, FindingId
  <2>3. CASE h[1] = t
    BY <1>2, <2>1, <2>2, <2>3 DEF TypeOK
  <2>4. CASE h[1] # t
    BY <1>2, <2>1, <2>2, <2>4 DEF TypeOK
  <2> QED
    BY <2>3, <2>4
<1>9. StoredFits'
  BY <1>2, <1>3 DEF StoredFits, Current, TypeOK
<1>10. NoneForgotten'
  BY <1>1, <1>2, <1>3, <1>4 DEF NoneForgotten, TypeOK
<1> QED
  BY <1>5, <1>6, <1>7, <1>8, <1>9, <1>10

\* A restart empties the replica's store and loses the requests it served, so
\* that no promise about either is left open.
LEMMA RestartIInv ==
  ASSUME IInv, NEW r \in Replica, Restart(r)
  PROVE  IInv'
<1> USE DEF IInv, Restart
<1>1. /\ \A s \in Replica : /\ s # r => /\ byId'[s] = byId[s] /\ byFp'[s] = byFp[s]
                                        /\ posts'[s] = posts[s]
                            /\ s = r => /\ byId'[s] = {}
                                        /\ \A q \in Fp : byFp'[s][q] = NoFinding /\ posts'[s][q] = 0
      /\ \A t \in Task : /\ pc'[t] \in {pc[t], "lost"}
                         /\ home[t] # r => pc'[t] = pc[t]
                         /\ pc'[t] = "slack" => home[t] # r
      /\ finding' = finding /\ slack' = slack /\ useLlm' = useLlm /\ home' = home /\ kind' = kind /\ alerts' = alerts
      /\ at' = at /\ existing' = existing /\ stored' = stored /\ reply' = reply
  BY DEF TypeOK, given, Active
<1>2. TypeOK'
  <2>1. restarts' \in 0..MaxRestarts
    BY OpsAssumption DEF TypeOK
  <2> QED
    BY <1>1, <2>1 DEF TypeOK
<1>3. AtAlert' /\ NobodyPosts'
  BY <1>1 DEF AtAlert, NobodyPosts
<1>4. OneFindingPerFingerprint' /\ SilentUnlessKnown'
  BY <1>1 DEF OneFindingPerFingerprint, SilentUnlessKnown
<1>5. IdsPassed'
  BY <1>1 DEF IdsPassed, TypeOK, FindingId
<1>6. StoredFits'
  BY <1>1 DEF StoredFits, Current, TypeOK
<1>7. NoneForgotten'
  BY <1>1 DEF NoneForgotten
<1> QED
  BY <1>2, <1>3, <1>4, <1>5, <1>6, <1>7

\* What the scan of the store may have seen is a finding or None.
LEMMA VisibleType ==
  ASSUME TypeOK, NEW t \in Task, NEW seen \in Visible(t)
  PROVE  seen \in FindingId \cup {NoFinding}
BY DEF Visible, TypeOK

\* A step that only moves a request on, past no alert, preserves the invariant.
LEMMA MoveIInv ==
  ASSUME IInv, NEW t \in Task, NEW to \in {"ready", "llm", "done"},
         pc[t] \in {"idle", "ready"},
         to = "llm" => at[t] <= Len(alerts[t]),
         pc' = [pc EXCEPT ![t] = to],
         existing' \in [Task -> FindingId \cup {NoFinding}],
         UNCHANGED <<store, given, at, stored, reply, restarts>>
  PROVE  IInv'
<1> USE DEF IInv
<1>1. /\ byId' = byId /\ byFp' = byFp /\ finding' = finding /\ posts' = posts
      /\ slack' = slack /\ useLlm' = useLlm /\ home' = home /\ kind' = kind /\ alerts' = alerts
      /\ at' = at /\ stored' = stored /\ reply' = reply /\ restarts' = restarts
      /\ \A u \in Task : /\ pc'[u] = "slack" <=> pc[u] = "slack"
                         /\ pc'[u] = "lost" <=> pc[u] = "lost"
                         /\ pc'[u] = "llm" => pc[u] = "llm" \/ at[u] <= Len(alerts[u])
  BY DEF store, given, TypeOK
<1>2. TypeOK'
  <2>1. pc' \in [Task -> {"idle", "done", "lost"} \cup Active]
    BY DEF TypeOK, Active
  <2> QED
    BY <1>1, <2>1 DEF TypeOK
<1>3. AtAlert' /\ NobodyPosts'
  BY <1>1 DEF AtAlert, NobodyPosts
<1>4. OneFindingPerFingerprint' /\ SilentUnlessKnown'
  BY <1>1 DEF OneFindingPerFingerprint, SilentUnlessKnown
<1>5. IdsPassed'
  BY <1>1 DEF IdsPassed, TypeOK, FindingId
<1>6. StoredFits'
  BY <1>1 DEF StoredFits, Current
<1>7. NoneForgotten'
  BY <1>1 DEF NoneForgotten
<1> QED
  BY <1>2, <1>3, <1>4, <1>5, <1>6, <1>7

\* Every step preserves the invariant.
LEMMA NextIInv == IInv /\ [Next]_vars => IInv'
<1> SUFFICES ASSUME IInv, [Next]_vars PROVE IInv'
  OBVIOUS
<1>1. ASSUME NEW t \in Task, Receive(t) PROVE IInv'
  <2>1. existing' \in [Task -> FindingId \cup {NoFinding}]
    BY <1>1 DEF Receive, IInv, TypeOK
  <2> QED
    BY <1>1, <2>1, MoveIInv DEF Receive
<1>2. ASSUME NEW t \in Task, AskLlm(t) PROVE IInv'
  <2>1. existing' \in [Task -> FindingId \cup {NoFinding}]
    BY <1>2, VisibleType DEF AskLlm, IInv, TypeOK
  <2> QED
    BY <1>2, <2>1, MoveIInv DEF AskLlm, HasAlert
<1>3. ASSUME NEW t \in Task, LlmAnswer(t) PROVE IInv'
  <2>1. pc[t] = "llm" /\ at[t] <= Len(alerts[t])
    BY <1>3 DEF LlmAnswer, IInv, AtAlert
  <2>2. existing' = existing /\ existing[t] \in FindingId \cup {NoFinding}
    BY <1>3 DEF LlmAnswer, IInv, TypeOK
  <2>3. existing' \in [Task -> FindingId \cup {NoFinding}]
    BY <2>2 DEF IInv, TypeOK
  <2> QED
    BY <1>3, <2>1, <2>2, <2>3, RecordIInv DEF LlmAnswer
<1>4. ASSUME NEW t \in Task, Diagnose(t) PROVE IInv'
  <2>1. pc[t] = "ready" /\ at[t] <= Len(alerts[t])
    BY <1>4 DEF Diagnose, HasAlert
  <2>2. PICK seen \in Visible(t) : existing' = [existing EXCEPT ![t] = seen] /\ Record(t, seen)
    BY <1>4 DEF Diagnose
  <2>3. seen \in FindingId \cup {NoFinding}
    BY VisibleType DEF IInv
  <2>4. existing' \in [Task -> FindingId \cup {NoFinding}]
    BY <2>2, <2>3 DEF IInv, TypeOK
  <2> QED
    BY <1>4, <2>1, <2>2, <2>3, <2>4, RecordIInv DEF Diagnose
<1>5. ASSUME NEW t \in Task, SlackReturn(t) PROVE IInv'
  BY <1>5, SlackReturnIInv
<1>6. ASSUME NEW t \in Task, Return(t) PROVE IInv'
  <2>1. existing' \in [Task -> FindingId \cup {NoFinding}]
    BY <1>6 DEF Return, IInv, TypeOK
  <2> QED
    BY <1>6, <2>1, MoveIInv DEF Return
<1>7. ASSUME NEW r \in Replica, Restart(r) PROVE IInv'
  BY <1>7, RestartIInv
<1>8. CASE UNCHANGED vars
  BY <1>8 DEF vars, store, given, IInv, TypeOK, AtAlert, OneFindingPerFingerprint, IdsPassed,
              SilentUnlessKnown, StoredFits, NoneForgotten, NobodyPosts, Current
<1> QED
  BY <1>1, <1>2, <1>3, <1>4, <1>5, <1>6, <1>7, <1>8 DEF Next, Serve, Finished

\* The invariant holds in every behaviour.
THEOREM AlwaysIInv == Spec => []IInv
BY InitIInv, NextIInv, PTL DEF Spec
-----------------------------------------------------------------------------
\* The variables keep their types.
THEOREM TypeCorrect == Spec => []TypeOK
<1>1. IInv => TypeOK
  BY DEF IInv
<1> QED
  BY <1>1, AlwaysIInv, PTL

\* The two dictionaries of every FindingStore stay inverse to one another,
\* whatever requests interleave on it and however they are cut off.
THEOREM StoreConsistent == Spec => []OneFindingPerFingerprint
<1>1. IInv => OneFindingPerFingerprint
  BY DEF IInv
<1> QED
  BY <1>1, AlwaysIInv, PTL

\* No stored finding is left that nobody announced or announces.
THEOREM NothingForgotten == Spec => []NoneForgotten
<1>1. IInv => NoneForgotten
  BY DEF IInv
<1> QED
  BY <1>1, AlwaysIInv, PTL
-----------------------------------------------------------------------------
Waiting(r, f) == \E t \in Task : pc[t] = "slack" /\ home[t] = r /\ stored[t] = f

\* What recording does to the posts: nothing, or one more for the fingerprint,
\* which is new or whose finding somebody is announcing.
LEMMA RecordPosts ==
  ASSUME IInv, NEW t \in Task, NEW seen,
         pc[t] \in {"ready", "llm"}, at[t] <= Len(alerts[t]), Record(t, seen),
         NEW r \in Replica, NEW fp \in Fp
  PROVE  \/ posts'[r][fp] = posts[r][fp]
         \/ /\ posts'[r][fp] = posts[r][fp] + 1
            /\ \/ byFp[r][fp] = NoFinding /\ posts[r][fp] = 0
               \/ slack /\ Waiting(r, byFp[r][fp])
<1> DEFINE quiet == Target(t) \in byId[home[t]] /\ finding[Target(t)].notified
<1> USE DEF IInv
<1>1. posts' = IF quiet THEN posts ELSE [posts EXCEPT ![home[t]][Current(t)] = @ + 1]
  BY DEF Record
<1>2. home[t] \in Replica /\ Current(t) \in Fp
  BY RecordFacts
<1>3. CASE quiet \/ r # home[t] \/ fp # Current(t)
  BY <1>1, <1>2, <1>3 DEF TypeOK
<1>4. CASE ~quiet /\ r = home[t] /\ fp = Current(t)
  <2>1. posts'[r][fp] = posts[r][fp] + 1
    BY <1>1, <1>2, <1>4 DEF TypeOK
  <2>2. CASE byFp[r][fp] = NoFinding
    BY <1>2, <1>4, <2>1, <2>2 DEF SilentUnlessKnown
  <2>3. CASE byFp[r][fp] # NoFinding
    <3>1. Target(t) = byFp[r][fp] /\ Target(t) \in byId[r]
      BY <1>4, <2>3, RecordFacts
    <3>2. Waiting(r, byFp[r][fp])
      BY <1>4, <3>1 DEF NoneForgotten, Waiting
    <3> QED
      BY <2>1, <3>2 DEF NobodyPosts, Waiting
  <2> QED
    BY <2>2, <2>3
<1> QED
  BY <1>3, <1>4

\* The two settings do not change while the deployment runs.
LEMMA SettingsStay == [Next]_vars => slack' = slack /\ useLlm' = useLlm
BY DEF Next, Serve, Finished, vars, given, Receive, AskLlm, LlmAnswer, Diagnose, SlackReturn, Return, Restart

\* The same for any step; a restart sets the posts of its replica back to zero.
LEMMA NextPosts ==
  ASSUME IInv, [Next]_vars, NEW r \in Replica, NEW fp \in Fp
  PROVE  \/ posts'[r][fp] = posts[r][fp]
         \/ posts'[r][fp] = 0
         \/ /\ posts'[r][fp] = posts[r][fp] + 1
            /\ \/ byFp[r][fp] = NoFinding /\ posts[r][fp] = 0
               \/ slack /\ Waiting(r, byFp[r][fp])
<1>1. ASSUME NEW t \in Task, Receive(t) \/ AskLlm(t) \/ SlackReturn(t) \/ Return(t)
      PROVE  posts' = posts
  BY <1>1 DEF Receive, AskLlm, SlackReturn, Return, store
<1>2. ASSUME NEW t \in Task, LlmAnswer(t)
      PROVE  pc[t] = "llm" /\ at[t] <= Len(alerts[t]) /\ Record(t, existing[t])
  BY <1>2 DEF LlmAnswer, IInv, AtAlert
<1>3. ASSUME NEW t \in Task, Diagnose(t)
      PROVE  pc[t] = "ready" /\ at[t] <= Len(alerts[t]) /\ \E seen : Record(t, seen)
  BY <1>3 DEF Diagnose, HasAlert
<1>4. ASSUME NEW s \in Replica, Restart(s) PROVE posts'[r][fp] \in {posts[r][fp], 0}
  BY <1>4 DEF Restart, IInv, TypeOK
<1>5. CASE UNCHANGED vars
  BY <1>5 DEF vars, store
<1> QED
  BY <1>1, <1>2, <1>3, <1>4, <1>5, RecordPosts DEF Next, Serve, Finished

\* A fingerprint is announced again only while its finding's announcement is in
\* flight, for any number of requests and replicas.
THEOREM RepeatsOverlap == Spec => PostsOverlap
<1>1. ASSUME IInv, [Next]_vars, NEW r \in Replica, NEW fp \in Fp, posts'[r][fp] > posts[r][fp]
      PROVE  posts[r][fp] = 0 \/ Waiting(r, byFp[r][fp])
  <2>1. posts[r][fp] \in Nat
    BY <1>1 DEF IInv, TypeOK
  <2> QED
    BY <1>1, <2>1, NextPosts
<1>2. IInv /\ [Next]_vars =>
        [\A r \in Replica, fp \in Fp : posts'[r][fp] > posts[r][fp] =>
           \/ posts[r][fp] = 0
           \/ \E t \in Task : pc[t] = "slack" /\ home[t] = r /\ stored[t] = byFp[r][fp]]_vars
  BY <1>1 DEF Waiting
<1> QED
  BY <1>2, AlwaysIInv, PTL DEF Spec, PostsOverlap

\* Without Slack the comment of ops_diagnosis_service.py holds: a running
\* replica announces each fingerprint at most once.
THEOREM AnnouncedOnceWithoutSlack == Spec => []AnnouncedOnce
<1>1. Init => AnnouncedOnce
  BY DEF Init, AnnouncedOnce
<1>2. IInv /\ AnnouncedOnce /\ [Next]_vars => AnnouncedOnce'
  <2> SUFFICES ASSUME IInv, AnnouncedOnce, [Next]_vars, ~slack', NEW r \in Replica, NEW fp \in Fp
               PROVE  posts'[r][fp] <= 1
    BY DEF AnnouncedOnce
  <2>0. slack' = slack
    BY SettingsStay
  <2>1. posts[r][fp] \in Nat /\ posts[r][fp] <= 1
    BY <2>0 DEF IInv, TypeOK, AnnouncedOnce
  <2> QED
    BY <2>0, <2>1, NextPosts
<1> QED
  BY <1>1, <1>2, AlwaysIInv, PTL DEF Spec
-----------------------------------------------------------------------------
OnRecord == [r \in Replica |-> [fp \in Fp |-> byFp[r][fp] # NoFinding]]
Marked == [r \in Replica |-> [fp \in Fp |->
             byFp[r][fp] # NoFinding /\ finding[byFp[r][fp]].notified]]

Table(F) == F = [s \in Replica |-> [q \in Fp |-> F[s][q]]]

\* Two tables with the same entries, and two that differ in one.
LEMMA SameTable ==
  ASSUME NEW F, NEW G, Table(F), Table(G),
         \A s \in Replica, q \in Fp : G[s][q] = F[s][q]
  PROVE  G = F
BY DEF Table

With(F, r, fp, v) == [F EXCEPT ![r][fp] = v]

LEMMA EntrySet ==
  ASSUME NEW r \in Replica, NEW fp \in Fp, NEW F, NEW v, Table(F)
  PROVE  /\ Table(With(F, r, fp, v))
         /\ With(F, r, fp, v)[r][fp] = v
         /\ \A s \in Replica, q \in Fp : s # r \/ q # fp => With(F, r, fp, v)[s][q] = F[s][q]
<1>1. Table(With(F, r, fp, v)) /\ With(F, r, fp, v)[r][fp] = v
  BY DEF Table, With
<1>2. \A s \in Replica, q \in Fp : s # r \/ q # fp => With(F, r, fp, v)[s][q] = F[s][q]
  BY DEF Table, With
<1> QED
  BY <1>1, <1>2

LEMMA OneEntry ==
  ASSUME NEW r \in Replica, NEW fp \in Fp, NEW F, NEW G, Table(F), Table(G),
         \A s \in Replica, q \in Fp : s # r \/ q # fp => G[s][q] = F[s][q]
  PROVE  G = [F EXCEPT ![r][fp] = G[r][fp]]
<1>1. PICK v : v = G[r][fp]
  OBVIOUS
<1>2. PICK H : H = With(F, r, fp, v)
  OBVIOUS
<1>3. /\ Table(H) /\ H[r][fp] = v
      /\ \A s \in Replica, q \in Fp : s # r \/ q # fp => H[s][q] = F[s][q]
  BY <1>2, EntrySet
<1>4. \A s \in Replica, q \in Fp : G[s][q] = H[s][q]
  BY <1>1, <1>3
<1>5. G = H
  BY <1>3, <1>4, SameTable
<1> QED
  BY <1>1, <1>2, <1>5 DEF With

\* The tables are what they list, and no two replicas hold one finding.
LEMMA TablesAre ==
  Table(OnRecord) /\ Table(OnRecord)' /\ Table(Marked) /\ Table(Marked)'
BY DEF OnRecord, Marked, Table

LEMMA Entries ==
  ASSUME NEW s \in Replica, NEW q \in Fp
  PROVE  /\ OnRecord[s][q] = (byFp[s][q] # NoFinding)
         /\ Marked[s][q] = (byFp[s][q] # NoFinding /\ finding[byFp[s][q]].notified)
BY DEF OnRecord, Marked

LEMMA OnePlace ==
  ASSUME IInv, NEW r \in Replica, NEW s \in Replica, NEW fp \in Fp, NEW q \in Fp,
         byFp[r][fp] # NoFinding, byFp[s][q] = byFp[r][fp]
  PROVE  s = r /\ q = fp
<1>1. byFp[r][fp] \in byId[r] /\ byFp[s][q] \in byId[s]
  BY DEF IInv, OneFindingPerFingerprint
<1>2. home[byFp[r][fp][1]] = r /\ home[byFp[s][q][1]] = s
  BY <1>1 DEF IInv, IdsPassed
<1>3. finding[byFp[r][fp]].fp = fp /\ finding[byFp[s][q]].fp = q
  BY DEF IInv, OneFindingPerFingerprint
<1> QED
  BY <1>2, <1>3

\* Recording an alert is FindingLog's Record when the fingerprint is new, its
\* Repeat when the finding is still being announced, and invisible otherwise.
LEMMA RecordRefines ==
  ASSUME IInv, NEW t \in Task, NEW seen,
         pc[t] \in {"ready", "llm"}, at[t] <= Len(alerts[t]), Record(t, seen), slack' = slack
  PROVE  [Log!Next]_(Log!vars)
<1> DEFINE r == home[t]
           fp == Current(t)
           f == Target(t)
           quiet == f \in byId[r] /\ finding[f].notified
           mark == quiet \/ ~slack
<1>0. IInv /\ TypeOK
  BY DEF IInv
<1>1. /\ r \in Replica /\ fp \in Fp /\ f \in FindingId
      /\ \A s \in Replica : Own(t) \notin byId[s]
      /\ \/ f = Own(t) /\ byFp[r][fp] = NoFinding
         \/ f = byFp[r][fp] /\ f \in byId[r] /\ finding[f] \in Finding
  BY RecordFacts
<1>2. /\ byFp' = [byFp EXCEPT ![r][fp] = f]
      /\ finding' = [finding EXCEPT ![f] = [fp |-> fp, notified |-> mark]]
      /\ posts' = IF quiet THEN posts ELSE [posts EXCEPT ![r][fp] = @ + 1]
  BY DEF Record
<1>3. f # NoFinding
  BY <1>1, OpsAssumption
<1>4. quiet => f \in byId[r] /\ finding[f].notified
  OBVIOUS
<1>5. f \in byId[r] => (quiet <=> finding[f].notified)
  OBVIOUS
<1>50. quiet \in BOOLEAN /\ mark \in BOOLEAN /\ (quiet => mark) /\ (slack /\ ~quiet => ~mark) /\ (~slack => mark)
  OBVIOUS
<1> HIDE DEF fp, f, quiet, mark
<1>6. \A s \in Replica, q \in Fp : byFp'[s][q] = IF s = r /\ q = fp THEN f ELSE byFp[s][q]
  BY <1>0, <1>1, <1>2 DEF TypeOK
<1>7. /\ finding'[f].notified = mark
      /\ \A g \in FindingId : g # f => finding'[g] = finding[g]
  <2>1. finding'[f] = [fp |-> fp, notified |-> mark]
    BY <1>0, <1>1, <1>2 DEF TypeOK
  <2>2. \A g \in FindingId : g # f => finding'[g] = finding[g]
    BY <1>0, <1>1, <1>2 DEF TypeOK
  <2> QED
    BY <2>1, <2>2
<1>8. ASSUME NEW s \in Replica, NEW q \in Fp, ~(s = r /\ q = fp)
      PROVE  /\ byFp'[s][q] = byFp[s][q]
             /\ byFp[s][q] # NoFinding => finding'[byFp[s][q]] = finding[byFp[s][q]]
  <2>1. byFp'[s][q] = byFp[s][q]
    BY <1>6, <1>8
  <2>2. ASSUME byFp[s][q] # NoFinding PROVE byFp[s][q] \in FindingId /\ byFp[s][q] # f
    <3>1. byFp[s][q] \in byId[s] /\ byFp[s][q] \in FindingId
      BY <1>0, <2>2 DEF IInv, OneFindingPerFingerprint, TypeOK
    <3>2. f = byFp[r][fp] => byFp[s][q] # f
      BY <1>0, <1>1, <1>3, <1>8, OnePlace
    <3> QED
      BY <1>1, <3>1, <3>2
  <2> QED
    BY <1>7, <2>1, <2>2
<1>9. ASSUME NEW s \in Replica, NEW q \in Fp, ~(s = r /\ q = fp)
      PROVE  OnRecord'[s][q] = OnRecord[s][q] /\ Marked'[s][q] = Marked[s][q]
  <2>1. /\ OnRecord'[s][q] = (byFp'[s][q] # NoFinding)
        /\ Marked'[s][q] = (byFp'[s][q] # NoFinding /\ finding'[byFp'[s][q]].notified)
    BY DEF OnRecord, Marked
  <2>2. CASE byFp[s][q] = NoFinding
    BY <1>8, <1>9, <2>1, <2>2, Entries
  <2>3. CASE byFp[s][q] # NoFinding
    BY <1>8, <1>9, <2>1, <2>3, Entries
  <2> QED
    BY <2>2, <2>3
<1>10. OnRecord'[r][fp] = TRUE /\ Marked'[r][fp] = mark
  <2>1. /\ OnRecord'[r][fp] = (byFp'[r][fp] # NoFinding)
        /\ Marked'[r][fp] = (byFp'[r][fp] # NoFinding /\ finding'[byFp'[r][fp]].notified)
    BY <1>1 DEF OnRecord, Marked
  <2>2. byFp'[r][fp] = f
    BY <1>1, <1>6
  <2> QED
    BY <1>3, <1>7, <1>50, <2>1, <2>2
<1>12. OnRecord' = [OnRecord EXCEPT ![r][fp] = TRUE]
  <2>1. \A s \in Replica, q \in Fp : s # r \/ q # fp => OnRecord'[s][q] = OnRecord[s][q]
    BY <1>9
  <2>2. PICK F, G : F = OnRecord /\ G = OnRecord'
    OBVIOUS
  <2>3. Table(F) /\ Table(G)
    BY <2>2, TablesAre
  <2>4. \A s \in Replica, q \in Fp : s # r \/ q # fp => G[s][q] = F[s][q]
    BY <2>1, <2>2
  <2>5. G = [F EXCEPT ![r][fp] = G[r][fp]]
    BY <1>1, <2>3, <2>4, OneEntry
  <2> QED
    BY <1>10, <2>2, <2>5
<1>13. Marked' = [Marked EXCEPT ![r][fp] = mark]
  <2>1. \A s \in Replica, q \in Fp : s # r \/ q # fp => Marked'[s][q] = Marked[s][q]
    BY <1>9
  <2>2. PICK F, G : F = Marked /\ G = Marked'
    OBVIOUS
  <2>3. Table(F) /\ Table(G)
    BY <2>2, TablesAre
  <2>4. \A s \in Replica, q \in Fp : s # r \/ q # fp => G[s][q] = F[s][q]
    BY <2>1, <2>2
  <2>5. G = [F EXCEPT ![r][fp] = G[r][fp]]
    BY <1>1, <2>3, <2>4, OneEntry
  <2> QED
    BY <1>10, <2>2, <2>5
<1>14. CASE byFp[r][fp] = NoFinding
  <2>1. ~OnRecord[r][fp]
    BY <1>1, <1>14, Entries
  <2>2. ~quiet
    BY <1>1, <1>3, <1>4, <1>14
  <2>3. posts' = [posts EXCEPT ![r][fp] = 1]
    <3>1. posts[r][fp] = 0
      BY <1>0, <1>1, <1>14 DEF IInv, SilentUnlessKnown
    <3> QED
      BY <1>0, <1>1, <1>2, <2>2, <3>1 DEF TypeOK
  <2>4. Marked' = [Marked EXCEPT ![r][fp] = ~slack]
    <3>1. mark = ~slack
      BY <1>50, <2>2
    <3> QED
      BY <1>13, <3>1
  <2>5. PICK s \in Replica, q \in Fp : s = r /\ q = fp
    BY <1>1
  <2>6. Log!Record(s, q)
    BY <1>12, <2>1, <2>3, <2>4, <2>5 DEF Log!Record, OnRecord, Marked
  <2> QED
    BY <2>6 DEF Log!Next
<1>15. CASE byFp[r][fp] # NoFinding
  <2>1. f = byFp[r][fp] /\ f \in byId[r] /\ finding[f] \in Finding
    BY <1>1, <1>15
  <2>2. OnRecord[r][fp] = TRUE /\ (Marked[r][fp] <=> quiet)
    <3>1. (quiet <=> finding[f].notified)
      BY <1>5, <2>1
    <3> QED
      BY <1>1, <1>15, <2>1, <3>1, Entries
  <2>3. OnRecord' = OnRecord
    <3>1. OnRecord'[r][fp] = OnRecord[r][fp]
      BY <1>10, <2>2
    <3>2. \A s \in Replica, q \in Fp : OnRecord'[s][q] = OnRecord[s][q]
      BY <1>9, <3>1
    <3>3. PICK F, G : F = OnRecord /\ G = OnRecord'
      OBVIOUS
    <3> QED
      BY <3>2, <3>3, TablesAre, SameTable
  <2>4. quiet \/ slack
    BY <1>5, <2>1, <1>1 DEF IInv, NoneForgotten, NobodyPosts
  <2>5. Marked' = Marked
    <3>1. (quiet <=> mark) /\ (Marked[r][fp] <=> quiet)
      BY <1>50, <2>2, <2>4
    <3>2. Marked[r][fp] \in BOOLEAN /\ Marked'[r][fp] \in BOOLEAN
      BY <1>1 DEF Marked
    <3>3. Marked'[r][fp] = Marked[r][fp]
      BY <1>10, <3>1, <3>2
    <3>4. \A s \in Replica, q \in Fp : Marked'[s][q] = Marked[s][q]
      BY <1>9, <3>3
    <3>5. PICK F, G : F = Marked /\ G = Marked'
      OBVIOUS
    <3> QED
      BY <3>4, <3>5, TablesAre, SameTable
  <2>6. CASE quiet
    BY <1>2, <2>3, <2>5, <2>6 DEF Log!vars, OnRecord, Marked
  <2>7. CASE ~quiet
    <3>1. posts' = [posts EXCEPT ![r][fp] = @ + 1]
      BY <1>2, <2>7
    <3>2. Log!Repeat(r, fp)
      BY <2>2, <2>3, <2>5, <2>7, <3>1 DEF Log!Repeat, OnRecord, Marked
    <3> QED
      BY <1>1, <3>2 DEF Log!Next
  <2> QED
    BY <2>6, <2>7
<1> QED
  BY <1>14, <1>15

\* The end of a post is FindingLog's Mark.
LEMMA SlackRefines ==
  ASSUME IInv, NEW t \in Task, SlackReturn(t)
  PROVE  [Log!Next]_(Log!vars)
<1> DEFINE r == home[t]
           g == stored[t]
           fp == finding[g].fp
<1>1. /\ pc[t] = "slack" /\ r \in Replica /\ g \in FindingId /\ g \in byId[r] /\ finding[g] \in Finding
  BY DEF SlackReturn, IInv, StoredFits, TypeOK
<1>2. fp \in Fp /\ byFp[r][fp] = g
  BY <1>1 DEF IInv, OneFindingPerFingerprint, Finding
<1>3. /\ byFp' = byFp /\ posts' = posts /\ slack' = slack
      /\ finding' = [finding EXCEPT ![g].notified = TRUE]
  BY <1>1 DEF SlackReturn, given
<1>4. /\ finding'[g].notified = TRUE
      /\ \A h \in FindingId : h # g => finding'[h] = finding[h]
  BY <1>1, <1>3 DEF IInv, TypeOK, Finding
<1>5. g # NoFinding
  BY <1>1, OpsAssumption
<1> HIDE DEF g, fp
<1>6. OnRecord' = OnRecord
  BY <1>3 DEF OnRecord
<1>7. OnRecord[r][fp] = TRUE
  BY <1>1, <1>2, <1>5, Entries
<1>8. \A s \in Replica, q \in Fp : s # r \/ q # fp => Marked'[s][q] = Marked[s][q]
  <2> SUFFICES ASSUME NEW s \in Replica, NEW q \in Fp, s # r \/ q # fp
               PROVE  Marked'[s][q] = Marked[s][q]
    OBVIOUS
  <2>1. Marked'[s][q] = (byFp[s][q] # NoFinding /\ finding'[byFp[s][q]].notified)
    BY <1>3 DEF Marked
  <2>2. CASE byFp[s][q] = NoFinding
    BY <2>1, <2>2, Entries
  <2>3. CASE byFp[s][q] # NoFinding
    <3>1. byFp[s][q] \in FindingId
      BY <2>3 DEF IInv, TypeOK
    <3>2. byFp[s][q] # g
      BY <1>1, <1>2, <1>5, OnePlace
    <3>3. finding'[byFp[s][q]] = finding[byFp[s][q]]
      BY <1>4, <3>1, <3>2
    <3> QED
      BY <2>1, <3>3, Entries
  <2> QED
    BY <2>2, <2>3
<1>9. Marked'[r][fp] = TRUE
  <2>1. Marked'[r][fp] = (byFp[r][fp] # NoFinding /\ finding'[byFp[r][fp]].notified)
    BY <1>1, <1>2, <1>3 DEF Marked
  <2> QED
    BY <1>2, <1>4, <1>5, <2>1
<1>10. Marked' = [Marked EXCEPT ![r][fp] = TRUE]
  <2>1. PICK F, G : F = Marked /\ G = Marked'
    OBVIOUS
  <2>2. Table(F) /\ Table(G)
    BY <2>1, TablesAre
  <2>3. \A s \in Replica, q \in Fp : s # r \/ q # fp => G[s][q] = F[s][q]
    BY <1>8, <2>1
  <2>4. G = [F EXCEPT ![r][fp] = G[r][fp]]
    BY <1>1, <1>2, <2>2, <2>3, OneEntry
  <2> QED
    BY <1>9, <2>1, <2>4
<1>11. PICK s \in Replica, q \in Fp : s = r /\ q = fp
  BY <1>1, <1>2
<1>12. Log!Mark(s, q)
  BY <1>3, <1>6, <1>7, <1>10, <1>11 DEF Log!Mark, OnRecord, Marked
<1> QED
  BY <1>12 DEF Log!Next

\* A restart forgets.
LEMMA RestartRefines ==
  ASSUME IInv, NEW r \in Replica, Restart(r)
  PROVE  [Log!Next]_(Log!vars)
<1>1. /\ byFp' = [byFp EXCEPT ![r] = [fp \in Fp |-> NoFinding]]
      /\ posts' = [posts EXCEPT ![r] = [fp \in Fp |-> 0]]
      /\ finding' = finding /\ slack' = slack
  BY DEF Restart, given
<1>2. OnRecord' = [OnRecord EXCEPT ![r] = [fp \in Fp |-> FALSE]]
  BY <1>1 DEF OnRecord, IInv, TypeOK
<1>3. Marked' = [Marked EXCEPT ![r] = [fp \in Fp |-> FALSE]]
  BY <1>1 DEF Marked, IInv, TypeOK
<1>4. Log!Forget(r)
  BY <1>1, <1>2, <1>3 DEF Log!Forget, OnRecord, Marked
<1> QED
  BY <1>4 DEF Log!Next

\* Every replica implements FindingLog, whatever the settings: the fingerprint
\* index, the notified flags and the posts behave like a log that announces a
\* finding until it is marked.
THEOREM LogImplemented == Spec => ImplementsLog
<1>1. Init => Log!Init
  <2> SUFFICES ASSUME Init PROVE Log!Init
    OBVIOUS
  <2>1. ASSUME NEW r \in Replica
        PROVE  /\ [fp \in Fp |-> byFp[r][fp] # NoFinding] = [fp \in Fp |-> FALSE]
               /\ [fp \in Fp |-> byFp[r][fp] # NoFinding /\ finding[byFp[r][fp]].notified]
                    = [fp \in Fp |-> FALSE]
    <3>1. \A fp \in Fp : (byFp[r][fp] # NoFinding) = FALSE
      BY DEF Init
    <3> QED
      BY <3>1
  <2> QED
    BY <2>1 DEF Init, Log!Init
<1>2. IInv /\ [Next]_vars => [Log!Next]_(Log!vars)
  <2> SUFFICES ASSUME IInv, [Next]_vars PROVE [Log!Next]_(Log!vars)
    OBVIOUS
  <2>0. slack' = slack
    BY SettingsStay
  <2>1. ASSUME NEW t \in Task, Receive(t) \/ AskLlm(t) \/ Return(t)
        PROVE  byFp' = byFp /\ finding' = finding /\ posts' = posts
    BY <2>1 DEF Receive, AskLlm, Return, store
  <2>2. ASSUME NEW t \in Task, LlmAnswer(t) PROVE [Log!Next]_(Log!vars)
    <3>1. pc[t] = "llm" /\ at[t] <= Len(alerts[t]) /\ Record(t, existing[t])
      BY <2>2 DEF LlmAnswer, IInv, AtAlert
    <3> QED
      BY <2>0, <3>1, RecordRefines
  <2>3. ASSUME NEW t \in Task, Diagnose(t) PROVE [Log!Next]_(Log!vars)
    <3>1. pc[t] = "ready" /\ at[t] <= Len(alerts[t]) /\ \E seen : Record(t, seen)
      BY <2>3 DEF Diagnose, HasAlert
    <3> QED
      BY <2>0, <3>1, RecordRefines
  <2>4. ASSUME NEW t \in Task, SlackReturn(t) PROVE [Log!Next]_(Log!vars)
    BY <2>4, SlackRefines
  <2>5. ASSUME NEW r \in Replica, Restart(r) PROVE [Log!Next]_(Log!vars)
    BY <2>5, RestartRefines
  <2>6. ASSUME byFp' = byFp, finding' = finding, posts' = posts PROVE UNCHANGED Log!vars
    BY <2>0, <2>6 DEF Log!vars
  <2>7. CASE UNCHANGED vars
    BY <2>6, <2>7 DEF vars, store
  <2>8. ASSUME NEW t \in Task, Receive(t) \/ AskLlm(t) \/ Return(t) PROVE [Log!Next]_(Log!vars)
    BY <2>1, <2>6, <2>8
  <2> QED
    BY <2>2, <2>3, <2>4, <2>5, <2>7, <2>8 DEF Next, Serve, Finished
<1> QED
  BY <1>1, <1>2, AlwaysIInv, PTL DEF Spec, ImplementsLog, Log!Spec
-----------------------------------------------------------------------------
(* The flag of a reply. *)

\* A request that waits, for its hypothesis or for Slack, has seen a finding
\* other than the one its alert would make; without the hypothesis call, and
\* while it waits for Slack, it knows whether its alert made the finding.
Promised == \A t \in Task :
   /\ pc[t] = "llm" => useLlm
   /\ pc[t] \in {"llm", "slack"} => existing[t] # Own(t)
   /\ pc[t] = "slack" /\ kind[t] = "webhook" /\ ~useLlm =>
        (stored[t] # Own(t) => existing[t] = stored[t])

\* The id of the finding an alert would make is in no store yet.
LEMMA OwnIsNew ==
  ASSUME IInv, NEW t \in Task, pc[t] = "ready", at[t] <= Len(alerts[t]), NEW seen \in Visible(t)
  PROVE  seen # Own(t)
<1>1. Own(t)[1] = t /\ Own(t)[2] = at[t] /\ Own(t) \in FindingId /\ at[t] \in Nat
  BY OwnAndCurrent DEF Own, IInv
<1>2. \A r \in Replica : Own(t) \notin byId[r]
  BY <1>1 DEF IInv, IdsPassed
<1>3. home[t] \in Replica
  BY DEF IInv, TypeOK
<1> QED
  BY <1>1, <1>2, <1>3, OpsAssumption DEF Visible

\* A scan that is not cut off sees the finding upsert will merge into.
LEMMA ScanSeesTarget ==
  ASSUME IInv, NEW t \in Task, HasAlert(t), kind[t] = "webhook",
         Cardinality(byId[home[t]]) <= ListLimit,
         NEW seen \in Visible(t), Record(t, seen), Target(t) # Own(t)
  PROVE  seen = Target(t)
<1> DEFINE r == home[t]
           known == byFp[r][Current(t)]
           held == {f \in byId[r] : finding[f].fp = Current(t)}
<1>1. pc[t] = "ready" /\ at[t] <= Len(alerts[t])
  BY DEF HasAlert
<1>2. /\ r \in Replica /\ Current(t) \in Fp
      /\ Target(t) = known /\ Target(t) \in byId[r] /\ finding[Target(t)].fp = Current(t)
  BY <1>1, RecordFacts
<1>3. \A f \in held : f = known
  BY <1>2 DEF IInv, OneFindingPerFingerprint
<1>4. seen \in IF held = {} THEN {NoFinding} ELSE held
  BY DEF Visible
<1> QED
  BY <1>2, <1>3, <1>4

\* An answer with the right flag keeps all flags right.
LEMMA AnswerKeepsFlags ==
  ASSUME TypeOK, FlagTellsNew, NEW t \in Task, NEW seen, NEW f,
         seen = f => f # Own(t),
         kind[t] = "webhook" /\ ~useLlm => (f # Own(t) => seen = f),
         reply' = [reply EXCEPT ![Own(t)] = [id |-> f, deduplicated |-> seen = f]],
         kind' = kind, useLlm' = useLlm
  PROVE  FlagTellsNew'
<1> SUFFICES ASSUME NEW u \in Task, NEW i \in 1..MaxAlerts
             PROVE  /\ reply'[<<u, i>>].deduplicated => reply'[<<u, i>>].id # <<u, i>>
                    /\ reply'[<<u, i>>] # NoReply /\ kind[u] = "webhook" /\ ~useLlm =>
                         (reply'[<<u, i>>].id # <<u, i>> => reply'[<<u, i>>].deduplicated)
  BY DEF FlagTellsNew
<1>1. <<u, i>> \in FindingId /\ reply \in [FindingId -> Reply]
  BY DEF TypeOK, FindingId
<1>2. CASE <<u, i>> = Own(t)
  <2>1. u = t
    BY <1>2 DEF Own
  <2>2. reply'[<<u, i>>] = [id |-> f, deduplicated |-> seen = f]
    BY <1>1, <1>2
  <2>3. reply'[<<u, i>>].id = f
    BY <2>2
  <2>4. reply'[<<u, i>>].deduplicated <=> seen = f
    <3>1. CASE seen = f
      <4>1. reply'[<<u, i>>] = [id |-> f, deduplicated |-> TRUE]
        BY <2>2, <3>1
      <4> QED BY <3>1, <4>1
    <3>2. CASE seen # f
      <4>1. reply'[<<u, i>>] = [id |-> f, deduplicated |-> FALSE]
        BY <2>2, <3>2
      <4> QED BY <3>2, <4>1
    <3> QED BY <3>1, <3>2
  <2> QED BY <1>2, <2>1, <2>3, <2>4
<1>3. CASE <<u, i>> # Own(t)
  <2>1. reply'[<<u, i>>] = reply[<<u, i>>]
    BY <1>1, <1>3
  <2> QED BY <2>1 DEF FlagTellsNew
<1> QED BY <1>2, <1>3

\* Recording an alert with a scan that keeps to the facts above.
LEMMA RecordKeepsFlags ==
  ASSUME IInv, FlagTellsNew, Promised, NEW t \in Task, NEW seen, Record(t, seen),
         pc[t] \in {"ready", "llm"}, at[t] <= Len(alerts[t]),
         seen # Own(t),
         kind[t] = "webhook" /\ ~useLlm => (Target(t) # Own(t) => seen = Target(t)),
         \A u \in Task : u # t => existing'[u] = existing[u],
         existing'[t] = seen, kind' = kind, useLlm' = useLlm
  PROVE  FlagTellsNew' /\ Promised'
<1>1. TypeOK
  BY DEF IInv
<1>2. stored'[t] = Target(t) /\ \A u \in Task : u # t => stored'[u] = stored[u]
  BY <1>1 DEF Record, TypeOK
<1>3. CASE pc' = [pc EXCEPT ![t] = "slack"] /\ UNCHANGED <<at, reply>>
  <2>1. FlagTellsNew'
    BY <1>3 DEF FlagTellsNew
  <2>2. \A u \in Task : Own(u)' = Own(u)
    BY <1>3 DEF Own
  <2>3. pc'[t] = "slack" /\ \A u \in Task : u # t => pc'[u] = pc[u]
    BY <1>1, <1>3 DEF TypeOK
  <2>4. Promised'
    BY <1>2, <2>2, <2>3 DEF Promised
  <2> QED BY <2>1, <2>4
<1>4. CASE Respond(t, seen, Target(t))
  <2>0. reply' = [reply EXCEPT ![Own(t)] = [id |-> Target(t), deduplicated |-> seen = Target(t)]]
    BY <1>4 DEF Respond
  <2>1. FlagTellsNew'
    <3>1. /\ seen = Target(t) => Target(t) # Own(t)
          /\ kind[t] = "webhook" /\ ~useLlm => (Target(t) # Own(t) => seen = Target(t))
          /\ kind' = kind /\ useLlm' = useLlm
      OBVIOUS
    <3> QED BY <1>1, <2>0, <3>1, AnswerKeepsFlags, Zenon
  <2>2. \A u \in Task : u # t => Own(u)' = Own(u) /\ pc'[u] = pc[u]
    BY <1>1, <1>4 DEF Own, Respond, TypeOK
  <2>3. pc'[t] = "ready"
    BY <1>1, <1>4 DEF Respond, TypeOK
  <2>4. Promised'
    BY <1>2, <2>2, <2>3 DEF Promised
  <2> QED BY <2>1, <2>4
<1> QED BY <1>3, <1>4 DEF Record

LEMMA NextFlags ==
  ASSUME IInv, FlagTellsNew, Promised, [Next]_vars,
         \A r \in Replica : Cardinality(byId[r]) <= ListLimit
  PROVE  FlagTellsNew' /\ Promised'
<1>0. TypeOK /\ useLlm' = useLlm
  BY SettingsStay DEF IInv
<1>1. ASSUME NEW t \in Task, AskLlm(t) PROVE FlagTellsNew' /\ Promised'
  <2>1. /\ useLlm /\ pc[t] = "ready" /\ at[t] <= Len(alerts[t])
        /\ kind' = kind /\ at' = at /\ reply' = reply /\ stored' = stored
    BY <1>1 DEF AskLlm, HasAlert, given
  <2>2. PICK seen \in Visible(t) : existing' = [existing EXCEPT ![t] = seen]
    BY <1>1 DEF AskLlm
  <2>3. seen # Own(t) /\ existing'[t] = seen /\ \A u \in Task : u # t => existing'[u] = existing[u]
    BY <1>0, <2>1, <2>2, OwnIsNew DEF TypeOK
  <2>4. pc'[t] = "llm" /\ \A u \in Task : u # t => pc'[u] = pc[u]
    BY <1>0, <1>1 DEF AskLlm, TypeOK
  <2>5. \A u \in Task : Own(u)' = Own(u)
    BY <2>1 DEF Own
  <2>6. FlagTellsNew'
    BY <1>0, <2>1 DEF FlagTellsNew
  <2> QED BY <1>0, <2>1, <2>3, <2>4, <2>5, <2>6 DEF Promised
<1>2. ASSUME NEW t \in Task, LlmAnswer(t) PROVE FlagTellsNew' /\ Promised'
  <2>1. pc[t] = "llm" /\ at[t] <= Len(alerts[t]) /\ Record(t, existing[t])
    BY <1>2 DEF LlmAnswer, IInv, AtAlert
  <2>2. useLlm /\ existing[t] # Own(t)
    BY <2>1 DEF Promised
  <2>3. kind' = kind /\ existing' = existing
    BY <1>2 DEF LlmAnswer, given
  <2> QED BY <1>0, <2>1, <2>2, <2>3, RecordKeepsFlags
<1>3. ASSUME NEW t \in Task, Diagnose(t) PROVE FlagTellsNew' /\ Promised'
  <2>1. /\ HasAlert(t) /\ pc[t] = "ready" /\ at[t] <= Len(alerts[t])
        /\ home[t] \in Replica /\ kind' = kind
    BY <1>0, <1>3 DEF Diagnose, HasAlert, TypeOK, given
  <2>2. PICK seen \in Visible(t) : existing' = [existing EXCEPT ![t] = seen] /\ Record(t, seen)
    BY <1>3 DEF Diagnose
  <2>3. kind[t] = "webhook" => (Target(t) # Own(t) => seen = Target(t))
    BY <2>1, <2>2, ScanSeesTarget
  <2>4. seen # Own(t)
    BY <2>1, <2>2, OwnIsNew
  <2>5. existing'[t] = seen /\ \A u \in Task : u # t => existing'[u] = existing[u]
    BY <1>0, <2>2 DEF TypeOK
  <2> QED BY <1>0, <2>1, <2>2, <2>3, <2>4, <2>5, RecordKeepsFlags
<1>4. ASSUME NEW t \in Task, SlackReturn(t) PROVE FlagTellsNew' /\ Promised'
  <2>1. /\ pc[t] = "slack" /\ Respond(t, existing[t], stored[t])
        /\ kind' = kind /\ existing' = existing /\ stored' = stored
    BY <1>4 DEF SlackReturn, given
  <2>2. /\ existing[t] # Own(t)
        /\ kind[t] = "webhook" /\ ~useLlm => (stored[t] # Own(t) => existing[t] = stored[t])
    BY <2>1 DEF Promised
  <2>0. /\ reply' = [reply EXCEPT ![Own(t)] = [id |-> stored[t], deduplicated |-> existing[t] = stored[t]]]
        /\ useLlm' = useLlm
    BY <1>4, <2>1 DEF Respond, SlackReturn, given
  <2>3. FlagTellsNew'
    <3> DEFINE seen == existing[t]
               f == stored[t]
    <3>1. seen # Own(t)
      BY <2>2
    <3>2. /\ TypeOK /\ FlagTellsNew /\ kind' = kind /\ useLlm' = useLlm
          /\ kind[t] = "webhook" /\ ~useLlm => (f # Own(t) => seen = f)
          /\ reply' = [reply EXCEPT ![Own(t)] = [id |-> f, deduplicated |-> seen = f]]
      BY <1>0, <2>0, <2>1, <2>2
    <3> HIDE DEF seen, f
    <3>3. seen = f => f # Own(t)
      BY <3>1, Zenon
    <3> QED BY <3>2, <3>3, AnswerKeepsFlags, Zenon
  <2>4. pc'[t] = "ready" /\ \A u \in Task : u # t => Own(u)' = Own(u) /\ pc'[u] = pc[u]
    BY <1>0, <2>1 DEF Own, Respond, TypeOK
  <2>5. Promised'
    BY <1>0, <2>1, <2>4 DEF Promised
  <2> QED BY <2>3, <2>5
<1>5. ASSUME NEW t \in Task, Receive(t) \/ Return(t) PROVE FlagTellsNew' /\ Promised'
  <2>1. /\ kind' = kind /\ reply' = reply /\ existing' = existing /\ stored' = stored /\ at' = at
        /\ pc'[t] \in {"ready", "done"} /\ \A u \in Task : u # t => pc'[u] = pc[u]
    BY <1>0, <1>5 DEF Receive, Return, given, TypeOK
  <2> QED BY <1>0, <2>1 DEF FlagTellsNew, Promised, Own
<1>6. ASSUME NEW r \in Replica, Restart(r) PROVE FlagTellsNew' /\ Promised'
  <2>1. /\ kind' = kind /\ reply' = reply /\ existing' = existing /\ stored' = stored /\ at' = at
        /\ \A u \in Task : pc'[u] \in {pc[u], "lost"}
    BY <1>6 DEF Restart, given
  <2> QED BY <1>0, <2>1 DEF FlagTellsNew, Promised, Own
<1>7. CASE UNCHANGED vars
  <2>1. kind' = kind /\ reply' = reply /\ existing' = existing /\ stored' = stored /\ at' = at /\ pc' = pc
    BY <1>7 DEF vars, given
  <2> QED BY <1>0, <2>1 DEF FlagTellsNew, Promised, Own
<1> QED BY <1>1, <1>2, <1>3, <1>4, <1>5, <1>6, <1>7 DEF Next, Serve, Finished

\* With a list limit that the store cannot pass, "deduplicated" in a reply of
\* /alerts is never said of a finding this alert made, and without the hypothesis
\* call it is said of every other one, however requests, posts and restarts
\* interleave (api/ops.py, ingest_alerts).
THEOREM FlagsAreExact ==
  ASSUME IsFiniteSet(FindingId), Cardinality(FindingId) <= ListLimit
  PROVE  Spec => []FlagTellsNew
<1>1. Init => FlagTellsNew /\ Promised
  <2> SUFFICES ASSUME Init PROVE FlagTellsNew /\ Promised
    OBVIOUS
  <2>1. \A t \in Task, i \in 1..MaxAlerts : reply[<<t, i>>] = NoReply
    BY DEF Init, FindingId
  <2>2. ~NoReply.deduplicated
    BY DEF NoReply
  <2> QED BY <2>1, <2>2 DEF Init, FlagTellsNew, Promised
<1>2. ASSUME IInv PROVE \A r \in Replica : Cardinality(byId[r]) <= ListLimit
  <2> SUFFICES ASSUME NEW r \in Replica PROVE Cardinality(byId[r]) <= ListLimit
    OBVIOUS
  <2>1. byId[r] \in SUBSET FindingId
    BY <1>2 DEF IInv, TypeOK
  <2>2. /\ IsFiniteSet(byId[r]) /\ Cardinality(byId[r]) <= Cardinality(FindingId)
    BY <2>1, FS_Subset
  <2>3. Cardinality(byId[r]) \in Nat /\ Cardinality(FindingId) \in Nat /\ ListLimit \in Nat
    BY <2>2, FS_CardinalityType, OpsAssumption
  <2> QED BY <2>2, <2>3
<1>3. IInv /\ FlagTellsNew /\ Promised /\ [Next]_vars => FlagTellsNew' /\ Promised'
  BY <1>2, NextFlags
<1> QED BY <1>1, <1>3, AlwaysIInv, PTL DEF Spec
=============================================================================
