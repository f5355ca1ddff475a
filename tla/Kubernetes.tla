------------------------------ MODULE Kubernetes ------------------------------
(***************************************************************************)
(* The Kubernetes client, its query parser, the two tools that use it and  *)
(* the evidence a diagnosis collects (clients/kubernetes_client.py,        *)
(* tools/kubernetes_tool.py, tools/k8s_playbook_tool.py,                   *)
(* OpsDiagnosisService._collect_evidence).                                 *)
(*                                                                         *)
(* The client never suspends: a call of a tool is one step, and a process  *)
(* that collects evidence, in several calls, does nothing else meanwhile.  *)
(* The cluster moves on, by other replicas and by everybody else.          *)
(* A word stands for all its spellings in upper and lower case.            *)
(***************************************************************************)
EXTENDS Integers, Sequences

CONSTANTS Token,          \* words
          Name,           \* of pods and deployments
          Namespace, Default,
          Text,           \* queries in words
          Json,           \* queries in JSON
          Alert,
          Numeral,        \* the words that int() reads, with their values
          Podlike,        \* words that contain "pod"
          Restarting, Scaling, \* words that begin with "restart" or "scale" and say more
          MaxReplicas,    \* K8S_MAX_SCALE_REPLICAS
          Outside,        \* replica counts that others give to a deployment
          Unnamed,        \* a name of several words, which no object has
          None

Verb == {"get", "describe", "list", "events", "logs", "restart", "scale"}
READ_ACTIONS == {"get", "describe", "list", "events", "logs"}

kind_aliases == [pod |-> "pod", pods |-> "pods", deploy |-> "deployment",
                 deployment |-> "deployment", deployments |-> "deployments",
                 event |-> "events", events |-> "events", log |-> "logs", logs |-> "logs"]
Pods == {"pod", "pods"}
Deployments == {"deployment", "deploy", "deployments"}

ASSUME KubernetesAssumption ==
  /\ Default \in Namespace
  /\ MaxReplicas \in Nat
  /\ Outside \subseteq Nat
  /\ Verb \cup DOMAIN kind_aliases \cup DOMAIN Numeral \subseteq Token
  /\ Text \subseteq Seq(Token)
  /\ None \notin Token \cup Namespace \cup Int \cup Seq(Token) \cup {Unnamed, "mock", "cluster"}
  /\ Numeral \in [DOMAIN Numeral -> Int]
  /\ Name \subseteq Token \ (Verb \cup DOMAIN kind_aliases \cup DOMAIN Numeral)
  /\ Restarting \cup Scaling \subseteq Token \ Verb
  /\ Json \subseteq [action : Token \cup {None}, kind : Token, name : Name \cup {None},
                     namespace : Namespace \cup {None}, replicas : Int \cup {None}, approved : BOOLEAN]
  /\ Alert \subseteq [resource_kind : Token, resource : Name \cup {None}, namespace : Namespace \cup {None}]

Object == Name \X Namespace

VARIABLES client,    \* what the client made of K8S_AUTH_MODE, None before its first use
          pods,      \* the pods that exist
          replicas,  \* the deployments that exist, with their size
          rollout,   \* changes with every restart of a deployment by a playbook
          reply,     \* the last query answered, until its caller has taken it
          alert,     \* the alert being diagnosed
          evidence,
          pc         \* of the diagnosis

cluster == <<pods, replicas, rollout>>
diagnosis == <<alert, evidence, pc>>
vars == <<client, cluster, reply, diagnosis>>

Init == /\ client = None
        /\ pods = {}
        /\ replicas = [o \in Object |-> None]
        /\ rollout = [o \in Object |-> FALSE]
        /\ reply = None
        /\ alert = None
        /\ evidence = <<>>
        /\ pc = "idle"
-----------------------------------------------------------------------------
(* parse_k8s_query and K8sPlaybookTool._parse. *)

Query(action, kind, name, ns, count) ==
  [action |-> action, kind |-> kind, name |-> name, namespace |-> ns, replicas |-> count, approved |-> FALSE]
Parsed(action, kind, name, count) == Query(action, kind, name, None, count)

Word(ws, i) == IF i \in DOMAIN ws THEN ws[i] ELSE None

\* The place of the name in a query that may put one of some words before it.
Skip(ws, words) == IF Word(ws, 2) \in words THEN 3 ELSE 2

Count(w) == IF w \in DOMAIN Numeral THEN Numeral[w] ELSE None

\* int() of a word that is no number.
Raises(ws) == LET w == Word(ws, Skip(ws, {"deploy", "deployment"}) + 1)
              IN  Word(ws, 1) = "scale" /\ w # None /\ w \notin DOMAIN Numeral

ParseGet(ws) ==
  LET w == Word(ws, 2)
  IN  CASE w = None                     -> Parsed(ws[1], "pods", None, None)
        [] w \in DOMAIN kind_aliases    -> Parsed(ws[1], kind_aliases[w], Word(ws, 3), None)
        [] OTHER                        -> Parsed(ws[1], "pod", w, None)

\* The tool looks for "pod" in the kind.
ListKind(w) == IF w = None \/ w \in Pods \cup Podlike THEN "pods" ELSE w

MutParse(ws) ==       \* mutant: the optional word is not skipped
  LET verb == Word(ws, 1)
  IN  CASE verb = "restart" -> Parsed("restart", "deployment", Word(ws, 2), None)
        [] verb = "scale"   -> Parsed("scale", "deployment", Word(ws, 2), Count(Word(ws, 3)))
        [] verb = "logs"    -> Parsed("logs", "logs", Word(ws, 2), None)
        [] OTHER            -> Parsed("list", "pods", None, None)

parse_k8s_query(ws) ==
  LET verb == Word(ws, 1)
      named == Skip(ws, {"deploy", "deployment"})
  IN  CASE verb = None      -> Parsed("list", "pods", None, None)
        [] verb \notin Verb \cup {None} -> Parsed("get", "pod", IF Len(ws) = 1 THEN verb ELSE Unnamed, None)
        [] verb \in {"get", "describe"} -> ParseGet(ws)
        [] verb = "list"    -> Parsed("list", ListKind(Word(ws, 2)), None, None)
        [] verb = "events"  -> Parsed("events", "events", Word(ws, Skip(ws, DOMAIN kind_aliases)), None)
        [] verb = "logs"    -> Parsed("logs", "logs", Word(ws, IF Len(ws) > 2 THEN Skip(ws, Pods) ELSE 2), None)
        [] verb = "restart" -> Parsed("restart", "deployment", Word(ws, named), None)
        [] verb = "scale"   -> Parsed("scale", "deployment", Word(ws, named), Count(Word(ws, named + 1)))
-----------------------------------------------------------------------------
(* KubernetesClient. *)

Where(ns) == IF ns = None THEN Default ELSE ns

MutMark == FALSE                    \* mutant: the mark is forgotten
Mark == client = "mock"

Answer(of, name, ns, k, items) ==
  [of |-> of, name |-> name, namespace |-> ns, replicas |-> k, items |-> items, mock |-> Mark]
Error == [of |-> "error", name |-> None, namespace |-> None, replicas |-> None, items |-> {}, mock |-> FALSE]

\* A read of one object, which answers a if the object is there.
Read(there, a) == IF client = "mock" \/ there THEN a ELSE Error

get_pod(n, ns) == Read(<<n, ns>> \in pods, Answer("Pod", n, ns, None, {}))
get_pod_logs(n, ns) == Read(<<n, ns>> \in pods, Answer("PodLog", n, ns, None, {}))
list_events(n, ns) == Answer("EventList", n, ns, None, {})

list_pods(ns) == LET there == {n \in Name : <<n, ns>> \in pods}
                 IN  Answer("PodList", None, ns, None, IF client = "mock" THEN {"demo-pod-0"} ELSE there)

Deployed(n, ns) == <<n, ns>> \in Object /\ replicas[<<n, ns>>] # None

get_deployment(n, ns) ==
  Read(Deployed(n, ns), Answer("Deployment", n, ns, IF client = "mock" THEN 3 ELSE replicas[<<n, ns>>], {}))

MutInRange(k) == k # None /\ k <= MaxReplicas      \* mutant: no lower bound
InRange(k) == k \in 0..MaxReplicas
-----------------------------------------------------------------------------
\* KubernetesTool.execute, when the API server answers.
execute(q) ==
  LET ns == Where(q.namespace)
      action == IF q.action = None THEN "get" ELSE q.action
  IN  CASE action \in {"get", "describe"} /\ q.kind \in Pods ->
             IF q.name = None THEN list_pods(ns) ELSE get_pod(q.name, ns)
        [] action \in {"get", "describe"} /\ q.kind \in Deployments /\ q.name # None ->
             get_deployment(q.name, ns)
        [] action = "list" /\ q.kind \in Pods \cup Podlike -> list_pods(ns)
        [] action = "events" -> list_events(q.name, ns)
        [] action = "logs" /\ q.name # None -> get_pod_logs(q.name, ns)
        [] OTHER -> Error

\* up: the API server answers.
Answered(q, up) == IF up \/ client = "mock" THEN execute(q) ELSE Error

Reply(tool, words, a) == /\ client # None /\ reply = None /\ pc = "idle"
                         /\ reply' = [tool |-> tool, words |-> words, answer |-> a]

Ask(words, q, up) == /\ Reply("kubernetes", words, Answered(q, up))
                     /\ UNCHANGED <<client, cluster, diagnosis>>

\* A query that cannot be parsed raises.
AskRaises(words) == /\ Raises(words)
                    /\ \E tool \in {"kubernetes", "k8s_playbook"} : Reply(tool, words, Error)
                    /\ UNCHANGED <<client, cluster, diagnosis>>

AskText(words, up) == ~Raises(words) /\ Ask(words, parse_k8s_query(words), up)
-----------------------------------------------------------------------------
(* K8sPlaybookTool.execute. *)

_parse(words) ==
  LET q == parse_k8s_query(words)
      verb == Word(words, 1)
      action == IF verb \in Restarting THEN "restart" ELSE IF verb \in Scaling THEN "scale" ELSE q.action
  IN  Query(action, q.kind, q.name, q.namespace, q.replicas)

\* No request in words is approved: it is proposed.
Proposal(q) == [of |-> "PENDING_APPROVAL", playbook |-> q, mock |-> FALSE]

Propose(words, q) == /\ Reply("k8s_playbook", words, Proposal(q))
                     /\ UNCHANGED <<client, cluster, diagnosis>>

ProposeText(words) == ~Raises(words) /\ Propose(words, _parse(words))
ProposeJson(q) == ~q.approved /\ Propose(None, q)

Refused(q) == \/ q.name = None
              \/ q.action \notin {"restart", "scale"}
              \/ q.action = "scale" /\ ~InRange(q.replicas)

Refuse(q) == /\ q.approved /\ Refused(q)
             /\ Reply("k8s_playbook", None, Error)
             /\ UNCHANGED <<client, cluster, diagnosis>>

Done(q) == IF q.action = "restart"
           THEN Answer("DeploymentRestart", q.name, Where(q.namespace), None, {})
           ELSE Answer("DeploymentScale", q.name, Where(q.namespace), q.replicas, {})

Pretend(q) == /\ q.approved /\ ~Refused(q) /\ client = "mock"
              /\ Reply("k8s_playbook", None, Done(q))
              /\ UNCHANGED <<client, cluster, diagnosis>>

Patch(q) == LET o == <<q.name, Where(q.namespace)>>
            IN  /\ Deployed(q.name, Where(q.namespace))
                /\ IF q.action = "restart"
                   THEN rollout' = [rollout EXCEPT ![o] = ~@] /\ UNCHANGED replicas
                   ELSE replicas' = [replicas EXCEPT ![o] = q.replicas] /\ UNCHANGED rollout

\* The answer of a patch that was applied may still be lost.
Apply(q) == /\ q.approved /\ ~Refused(q) /\ client = "cluster"
            /\ Patch(q)
            /\ \E a \in {Done(q), Error} : Reply("k8s_playbook", None, a)
            /\ UNCHANGED <<client, pods, diagnosis>>

ApplyFails(q) == /\ q.approved /\ ~Refused(q) /\ client = "cluster"
                 /\ Reply("k8s_playbook", None, Error)
                 /\ UNCHANGED <<client, cluster, diagnosis>>

TakeReply == /\ reply # None
             /\ reply' = None
             /\ UNCHANGED <<client, cluster, diagnosis>>
-----------------------------------------------------------------------------
(* OpsDiagnosisService._collect_evidence. *)

About(a, kinds) == a.resource # None /\ a.resource_kind \in kinds

Request(action, kind, name, ns) == Query(action, kind, name, ns, None)

MutReads(a) ==        \* mutant: the events of the default namespace
  IF About(a, Pods)
  THEN <<Request("get", "pod", a.resource, a.namespace), Request("events", "pod", a.resource, None),
         Request("logs", "pod", a.resource, a.namespace)>>
  ELSE IF About(a, Deployments)
  THEN <<Request("get", "deployment", a.resource, a.namespace), Request("events", "pod", a.resource, None)>>
  ELSE <<Request("list", "pods", None, a.namespace), Request("events", "pod", None, None)>>

Reads(a) ==
  LET events(name) == Request("events", "pod", name, a.namespace)
  IN  IF About(a, Pods)
      THEN <<Request("get", "pod", a.resource, a.namespace), events(a.resource),
             Request("logs", "pod", a.resource, a.namespace)>>
      ELSE IF About(a, Deployments)
      THEN <<Request("get", "deployment", a.resource, a.namespace), events(a.resource)>>
      ELSE <<Request("list", "pods", None, a.namespace), events(None)>>

Diagnose(a) == /\ client # None /\ reply = None /\ pc = "idle"
               /\ alert' = a
               /\ evidence' = <<>>
               /\ pc' = "collect"
               /\ UNCHANGED <<client, cluster, reply>>

\* One read; the first that raises ends the collection.
Collect(up) == LET a == Answered(Reads(alert)[Len(evidence) + 1], up)
               IN  /\ pc = "collect"
                   /\ evidence' = Append(evidence, a)
                   /\ pc' = IF a = Error \/ Len(evidence') = Len(Reads(alert)) THEN "done" ELSE "collect"
                   /\ UNCHANGED <<client, cluster, reply, alert>>

Store == /\ pc = "done"
         /\ pc' = "idle"
         /\ alert' = None
         /\ evidence' = <<>>
         /\ UNCHANGED <<client, cluster, reply>>
-----------------------------------------------------------------------------
\* The client is made at its first use; what fails then leaves it a mock.
InitClients(mode, ok) ==
  /\ client = None
  /\ client' = IF mode \in {"incluster", "kubeconfig"} /\ ok THEN "cluster" ELSE "mock"
  /\ UNCHANGED <<cluster, reply, diagnosis>>

Restart == /\ client # None
           /\ client' = None
           /\ reply' = None
           /\ alert' = None /\ evidence' = <<>> /\ pc' = "idle"
           /\ UNCHANGED cluster

\* Everybody else who works on the cluster; a reply is taken at once.
Others == /\ reply = None
          /\ \E o \in Object :
               \/ /\ pods' = IF o \in pods THEN pods \ {o} ELSE pods \cup {o}
                  /\ UNCHANGED <<replicas, rollout>>
               \/ /\ \E k \in Outside \cup {None} : replicas' = [replicas EXCEPT ![o] = k]
                  /\ UNCHANGED <<pods, rollout>>
          /\ UNCHANGED <<client, reply, diagnosis>>

Next == \/ \E mode \in {"mock", "incluster", "kubeconfig", "unknown"}, ok \in BOOLEAN : InitClients(mode, ok)
        \/ \E up \in BOOLEAN : Collect(up)
        \/ \E ws \in Text : \E up \in BOOLEAN : AskText(ws, up)
        \/ \E ws \in Text : AskRaises(ws) \/ ProposeText(ws)
        \/ \E q \in Json : \E up \in BOOLEAN : Ask(None, q, up)
        \/ \E q \in Json : ProposeJson(q) \/ Refuse(q) \/ Pretend(q) \/ Apply(q) \/ ApplyFails(q)
        \/ \E a \in Alert : Diagnose(a)
        \/ TakeReply \/ Store \/ Restart \/ Others

Spec == Init /\ [][Next]_vars
-----------------------------------------------------------------------------
Queries == [action : Token \cup {None}, kind : Token, name : Token \cup {Unnamed, None},
            namespace : Namespace \cup {None}, replicas : Int \cup {None}, approved : BOOLEAN]

Answers == [of : {"Pod", "PodLog", "PodList", "EventList", "Deployment", "DeploymentRestart",
                  "DeploymentScale", "error"},
            name : Token \cup {Unnamed, None}, namespace : Namespace \cup {None},
            replicas : Int \cup {None}, items : SUBSET (Name \cup {"demo-pod-0"}), mock : BOOLEAN]

Proposals == [of : {"PENDING_APPROVAL"}, playbook : Queries, mock : {FALSE}]

TypeOK ==
  /\ client \in {None, "mock", "cluster"}
  /\ pods \subseteq Object
  /\ replicas \in [Object -> Nat \cup {None}]
  /\ rollout \in [Object -> BOOLEAN]
  /\ reply # None => reply.answer \in Answers \cup Proposals
  /\ alert \in Alert \cup {None}
  /\ evidence \in Seq(Answers)
  /\ pc \in {"idle", "collect", "done"}

\* The forms of a query that the docstring lists mean what they say, for every
\* name that is not a word of the language: the answer is about that object in
\* the default namespace, a proposal asks for that change.  Only a cluster may
\* answer with an error instead.
Understood ==
  reply # None =>
    \A n \in Name : \A k \in DOMAIN Numeral :
      LET a == reply.answer
          Means(words, of, name) ==
            reply.words = words /\ reply.tool = "kubernetes" =>
               \/ a.of = of /\ a.name = name /\ a.namespace = Default
               \/ a = Error /\ client = "cluster"
          Proposes(words, action, count) ==
            reply.words = words /\ reply.tool = "k8s_playbook" =>
               /\ a.of = "PENDING_APPROVAL" /\ a.playbook.action = action
               /\ a.playbook.name = n /\ a.playbook.replicas = count
      IN  /\ Means(<<"get", "pod", n>>, "Pod", n)
          /\ Means(<<"list", "pods">>, "PodList", None)
          /\ Means(<<"get", "deploy", n>>, "Deployment", n)
          /\ Means(<<"events">>, "EventList", None)
          /\ Means(<<"events", n>>, "EventList", n)
          /\ Means(<<"logs", n>>, "PodLog", n)
          /\ Proposes(<<"restart", "deploy", n>>, "restart", None)
          /\ Proposes(<<"scale", "deploy", n, k>>, "scale", Numeral[k])

\* Evidence is about the alert's own object, or about its namespace when it
\* names none, and is complete unless its last entry tells that a read failed.
EvidenceFits ==
  /\ \A i \in DOMAIN evidence :
        LET a == evidence[i]
        IN  IF a.of = "error" THEN i = Len(evidence) /\ pc = "done" /\ client = "cluster"
            ELSE /\ a.namespace = Where(alert.namespace)
                 /\ a.name = IF About(alert, Pods \cup Deployments) THEN alert.resource ELSE None
  /\ pc = "done" /\ evidence[Len(evidence)].of # "error" =>
        /\ About(alert, Pods) => evidence[1].of = "Pod" /\ evidence[3].of = "PodLog"
        /\ About(alert, Deployments) => evidence[1].of = "Deployment"
        /\ ~About(alert, Pods \cup Deployments) => evidence[1].of = "PodList"
        /\ evidence[2].of = "EventList"

\* What an answer tells was so in the cluster when it was given, and what was
\* not asked of the cluster is marked.
AnswerIsTrue ==
  reply = None /\ reply' # None =>
     LET a == reply'.answer
         o == <<a.name, a.namespace>>
     IN  IF a.mock THEN client = "mock"
         ELSE /\ a.of \notin {"error", "PENDING_APPROVAL"} => client = "cluster"
              /\ a.of \in {"Pod", "PodLog"} => o \in pods
              /\ a.of = "PodList" => a.items = {n \in Name : <<n, a.namespace>> \in pods}
              /\ a.of = "Deployment" => a.replicas = replicas[o]
              /\ a.of = "DeploymentScale" => replicas'[o] = a.replicas
              /\ a.of = "DeploymentRestart" => rollout'[o] # rollout[o]
AnswersAreTrue == [][AnswerIsTrue]_vars

\* A query changes nothing that its answer does not tell, unless it answers with
\* an error: the read-only tool, a proposal and a mock leave the cluster alone,
\* and no deployment is given a size out of range, whatever the request says.
ChangesAsTold ==
  [][reply = None /\ reply' # None =>
       LET a == reply'.answer
       IN  /\ a.mock \/ a.of = "PENDING_APPROVAL" \/ reply'.tool = "kubernetes" => UNCHANGED cluster
           /\ a.of = "DeploymentScale" => replicas' = [replicas EXCEPT ![<<a.name, a.namespace>>] = a.replicas]
                                          \/ a.mock
           /\ \A o \in Object : replicas'[o] # replicas[o] => replicas'[o] \in 0..MaxReplicas]_vars
=============================================================================
