----------------------------- MODULE OpsDiagnosis -----------------------------
(***************************************************************************)
(* The alert path of the ops agent: api/ops.py receives a batch of alerts, *)
(* OpsDiagnosisService diagnoses them one by one, FindingStore keeps one   *)
(* finding per fingerprint, OpsNotifier announces it.                      *)
(*                                                                         *)
(* A replica is one asyncio process with stores of its own (lru_cache in   *)
(* dependencies.py; k8s/deployment.yaml runs two).  Code between two       *)
(* suspension points is one action.  The points are the hypothesis call    *)
(* and the Slack post, which two settings turn on; the Kubernetes client   *)
(* never suspends.  The model also lets other requests run between two     *)
(* alerts of a batch, which only adds behaviours.                          *)
(***************************************************************************)
EXTENDS Naturals, Sequences, FiniteSets

CONSTANTS Replica,      \* processes of the deployment
          Task,         \* requests to the two ingest endpoints
          Fp,           \* alert fingerprints
          NoFinding,    \* Python's None where an OpsFinding is expected
          MaxAlerts,    \* bound: alerts in one batch
          ListLimit,    \* store.list(limit=200) in ingest_alerts
          MaxRestarts   \* bound: replica restarts in one behaviour

\* A finding is named by the request and the batch position that built it
\* (its uuid4).
FindingId == Task \X (1..MaxAlerts)

\* An alert is its fingerprint: nothing depends on what else an upsert refreshes.
Batch == UNION {[1..n -> Fp] : n \in 0..MaxAlerts}
Finding == [fp : Fp, notified : BOOLEAN]

ASSUME OpsAssumption == /\ MaxAlerts \in Nat
                        /\ ListLimit \in Nat
                        /\ MaxRestarts \in Nat
                        /\ NoFinding \notin FindingId \cup Finding

Reply == [id : FindingId \cup {NoFinding}, deduplicated : BOOLEAN]
NoReply == [id |-> NoFinding, deduplicated |-> FALSE]

VARIABLES slack,     \* OPS_SLACK_WEBHOOK_URL is set
          useLlm,    \* OPS_USE_LLM_HYPOTHESIS
          byId,      \* FindingStore._by_id of each replica
          byFp,      \* FindingStore._by_fingerprint of each replica
          finding,   \* the OpsFinding objects (None: not built yet)
          posts,     \* history: OpsNotifier.notify calls of each replica since it started, per fingerprint
          pc, home, kind, alerts,   \* a request: where it is, its replica, endpoint, batch
          at,        \* position in the batch
          existing,  \* what the store held for the alert when its diagnosis began
          stored,    \* what upsert returned
          reply,     \* DiagnoseResponse per alert
          restarts

store == <<byId, byFp, finding, posts>>
given == <<slack, useLlm, home, kind, alerts>>
vars == <<store, given, pc, at, existing, stored, reply, restarts>>

Active == {"ready", "llm", "slack"}

Init == /\ slack \in BOOLEAN
        /\ useLlm \in BOOLEAN
        /\ byId = [r \in Replica |-> {}]
        /\ byFp = [r \in Replica |-> [fp \in Fp |-> NoFinding]]
        /\ finding = [f \in FindingId |-> NoFinding]
        /\ posts = [r \in Replica |-> [fp \in Fp |-> 0]]
        /\ pc = [t \in Task |-> "idle"]
        /\ home \in [Task -> Replica]
        /\ kind \in [Task -> {"webhook", "simple"}]
        /\ alerts \in [Task -> Batch]
        /\ \A t \in Task : kind[t] = "simple" => Len(alerts[t]) = 1
        /\ at = [t \in Task |-> 1]
        /\ existing = [t \in Task |-> NoFinding]
        /\ stored = [t \in Task |-> NoFinding]
        /\ reply = [f \in FindingId |-> NoReply]
        /\ restarts = 0
-----------------------------------------------------------------------------
Own(t) == <<t, at[t]>>
Current(t) == alerts[t][at[t]]

MutTarget(t) == Own(t)              \* mutant: upsert never merges

\* The finding upsert would merge into, or the one just built.
Target(t) == LET known == byFp[home[t]][Current(t)]
             IN  IF known \in byId[home[t]] THEN known ELSE Own(t)

MutVisible(t) == {NoFinding} \cup byId[home[t]]   \* mutant: any finding counts as the same

\* The scan over store.list(limit=200): past the limit the finding may be too
\* old to be seen.  /alerts/simple does not scan.
Visible(t) == LET held == {f \in byId[home[t]] : finding[f].fp = Current(t)}
              IN  IF kind[t] = "simple" \/ held = {} THEN {NoFinding}
                  ELSE IF Cardinality(byId[home[t]]) <= ListLimit THEN held
                  ELSE held \cup {NoFinding}

\* The response for the current alert, then on to the next one.
Respond(t, seen, f) ==
  /\ reply' = [reply EXCEPT ![Own(t)] = [id |-> f, deduplicated |-> seen = f]]
  /\ at' = [at EXCEPT ![t] = @ + 1]
  /\ pc' = [pc EXCEPT ![t] = "ready"]

MutRecord(t, seen) ==               \* mutant: mark_notified is forgotten
  LET r == home[t]
      f == Target(t)
      quiet == f \in byId[r] /\ finding[f].notified
  IN  /\ byId' = [byId EXCEPT ![r] = @ \cup {f}]
      /\ byFp' = [byFp EXCEPT ![r][Current(t)] = f]
      /\ finding' = [finding EXCEPT ![f] = [fp |-> Current(t), notified |-> quiet]]
      /\ posts' = IF quiet THEN posts ELSE [posts EXCEPT ![r][Current(t)] = @ + 1]
      /\ stored' = [stored EXCEPT ![t] = f]
      /\ Respond(t, seen, f)

\* Upsert, then notify unless the stored finding says it was: no suspension
\* until the Slack post.
Record(t, seen) ==
  LET r == home[t]
      f == Target(t)
      quiet == f \in byId[r] /\ finding[f].notified
  IN  /\ byId' = [byId EXCEPT ![r] = @ \cup {f}]
      /\ byFp' = [byFp EXCEPT ![r][Current(t)] = f]
      /\ finding' = [finding EXCEPT ![f] = [fp |-> Current(t), notified |-> quiet \/ ~slack]]
      /\ posts' = IF quiet THEN posts ELSE [posts EXCEPT ![r][Current(t)] = @ + 1]
      /\ stored' = [stored EXCEPT ![t] = f]
      /\ IF slack /\ ~quiet
         THEN pc' = [pc EXCEPT ![t] = "slack"] /\ UNCHANGED <<at, reply>>
         ELSE Respond(t, seen, f)
-----------------------------------------------------------------------------
\* The load balancer's and the sender's choices are fixed in Init.
Receive(t) == /\ pc[t] = "idle"
              /\ pc' = [pc EXCEPT ![t] = "ready"]
              /\ UNCHANGED <<store, given, at, existing, stored, reply, restarts>>

HasAlert(t) == pc[t] = "ready" /\ at[t] <= Len(alerts[t])

\* Scan, evidence and the start of the hypothesis call.
AskLlm(t) == /\ useLlm
             /\ HasAlert(t)
             /\ \E seen \in Visible(t) : existing' = [existing EXCEPT ![t] = seen]
             /\ pc' = [pc EXCEPT ![t] = "llm"]
             /\ UNCHANGED <<store, given, at, stored, reply, restarts>>

\* The hypothesis arrived, or failed and was replaced by a stock sentence.
LlmAnswer(t) == /\ pc[t] = "llm"
                /\ Record(t, existing[t])
                /\ UNCHANGED <<given, existing, restarts>>

\* Without the hypothesis call the diagnosis does not suspend before it records.
Diagnose(t) == /\ ~useLlm
               /\ HasAlert(t)
               /\ \E seen \in Visible(t) :
                     /\ existing' = [existing EXCEPT ![t] = seen]
                     /\ Record(t, seen)
               /\ UNCHANGED <<given, restarts>>

MutSlackReturn(t) ==                \* mutant: mark_notified is forgotten
  /\ pc[t] = "slack"
  /\ Respond(t, existing[t], stored[t])
  /\ UNCHANGED <<store, given, existing, stored, restarts>>

\* The post returned, failed or timed out: the outcome is not looked at.
SlackReturn(t) ==
  /\ pc[t] = "slack"
  /\ finding' = IF stored[t] \in byId[home[t]]
                THEN [finding EXCEPT ![stored[t]].notified = TRUE] ELSE finding
  /\ Respond(t, existing[t], stored[t])
  /\ UNCHANGED <<byId, byFp, posts, given, existing, stored, restarts>>

Return(t) == /\ pc[t] = "ready"
             /\ at[t] > Len(alerts[t])
             /\ pc' = [pc EXCEPT ![t] = "done"]
             /\ UNCHANGED <<store, given, at, existing, stored, reply, restarts>>

\* The process ends: its stores and the requests it was serving are gone.
Restart(r) ==
  /\ restarts < MaxRestarts
  /\ restarts' = restarts + 1
  /\ byId' = [byId EXCEPT ![r] = {}]
  /\ byFp' = [byFp EXCEPT ![r] = [fp \in Fp |-> NoFinding]]
  /\ posts' = [posts EXCEPT ![r] = [fp \in Fp |-> 0]]
  /\ pc' = [t \in Task |-> IF home[t] = r /\ pc[t] \in Active THEN "lost" ELSE pc[t]]
  /\ UNCHANGED <<finding, given, at, existing, stored, reply>>

Serve(t) == AskLlm(t) \/ LlmAnswer(t) \/ Diagnose(t) \/ SlackReturn(t) \/ Return(t)

\* Every request was answered or lost.
Finished == (\A t \in Task : pc[t] \in {"done", "lost"}) /\ UNCHANGED vars

Next == \/ \E t \in Task : Receive(t) \/ Serve(t)
        \/ \E r \in Replica : Restart(r)
        \/ Finished

Spec == Init /\ [][Next]_vars

\* A suspended request resumes: the LLM call and the Slack client time out.
FairSpec == Spec /\ \A t \in Task : WF_vars(Serve(t))
-----------------------------------------------------------------------------
TypeOK == /\ slack \in BOOLEAN
          /\ useLlm \in BOOLEAN
          /\ byId \in [Replica -> SUBSET FindingId]
          /\ byFp \in [Replica -> [Fp -> FindingId \cup {NoFinding}]]
          /\ finding \in [FindingId -> Finding \cup {NoFinding}]
          /\ posts \in [Replica -> [Fp -> Nat]]
          /\ pc \in [Task -> {"idle", "done", "lost"} \cup Active]
          /\ home \in [Task -> Replica]
          /\ kind \in [Task -> {"webhook", "simple"}]
          /\ alerts \in [Task -> Batch]
          /\ at \in [Task -> 1..(MaxAlerts + 1)]
          /\ existing \in [Task -> FindingId \cup {NoFinding}]
          /\ stored \in [Task -> FindingId \cup {NoFinding}]
          /\ reply \in [FindingId -> Reply]
          /\ restarts \in 0..MaxRestarts

\* FindingStore's two dictionaries stay inverse to one another whatever the
\* requests do: each stored finding is the one its fingerprint leads to, so no
\* fingerprint has two findings (finding_repository.py, "dedupe by fingerprint").
OneFindingPerFingerprint ==
  \A r \in Replica :
     /\ \A f \in byId[r] : finding[f] # NoFinding /\ byFp[r][finding[f].fp] = f
     /\ \A fp \in Fp : byFp[r][fp] # NoFinding =>
           byFp[r][fp] \in byId[r] /\ finding[byFp[r][fp]].fp = fp

\* "Only notify on first insert (not every duplicate alert)"
\* (ops_diagnosis_service.py:56): without the Slack post, a replica announces a
\* fingerprint once as long as it runs.
AnnouncedOnce == ~slack => \A r \in Replica, fp \in Fp : posts[r][fp] <= 1

\* A stored finding that nobody is announcing has been announced and says so:
\* no order of upserts and marks leaves one that no later alert would announce,
\* and none is marked without a post.
NoneForgotten ==
  \A r \in Replica : \A f \in byId[r] :
     /\ posts[r][finding[f].fp] >= 1
     /\ \/ finding[f].notified
        \/ \E t \in Task : pc[t] = "slack" /\ home[t] = r /\ stored[t] = f

\* A fingerprint is announced again only while an earlier announcement of it is
\* still in flight: once the post is over, duplicate alerts are silent.
PostsOverlap ==
  [][\A r \in Replica, fp \in Fp : posts'[r][fp] > posts[r][fp] =>
        \/ posts[r][fp] = 0
        \/ \E t \in Task : pc[t] = "slack" /\ home[t] = r /\ stored[t] = byFp[r][fp]]_vars

\* A reply that says "deduplicated" is about an earlier alert's finding, however
\* stale the scan was.  Without a suspension between scan and upsert, and with a
\* scan that sees the whole store, the flag tells exactly whether this alert made
\* a new finding.
FlagTellsNew ==
  \A t \in Task, i \in 1..MaxAlerts :
     LET answer == reply[<<t, i>>]
     IN  /\ answer.deduplicated => answer.id # <<t, i>>
         /\ answer # NoReply /\ kind[t] = "webhook" /\ ~useLlm =>
               (answer.id # <<t, i>> => answer.deduplicated)

\* Every finding that is stored ends up marked as notified, or forgotten by a
\* restart: a post that fails or times out does not keep its finding unmarked.
EventuallyNotified ==
  \A f \in FindingId, r \in Replica :
     f \in byId[r] ~> (f \notin byId[r] \/ finding[f].notified)

\* Each replica implements FindingLog, seen through its fingerprint index.
Log == INSTANCE FindingLog WITH
         recorded <- [r \in Replica |-> [fp \in Fp |-> byFp[r][fp] # NoFinding]],
         marked <- [r \in Replica |-> [fp \in Fp |->
                      byFp[r][fp] # NoFinding /\ finding[byFp[r][fp]].notified]],
         announced <- posts
ImplementsLog == Log!Spec
=============================================================================
