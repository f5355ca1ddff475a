--------------------------- MODULE KubernetesProofs ---------------------------
(***************************************************************************)
(* Proofs about the Kubernetes client, its parser, its tools and the       *)
(* evidence of a diagnosis, for any names, queries, alerts and bounds.     *)
(* The SMT backend does not read CASE: the lemmas that take a CASE apart   *)
(* leave it to Zenon.                                                      *)
(***************************************************************************)
EXTENDS Kubernetes, TLAPS

NameOrNone == Token \cup {Unnamed, None}

LEMMA Apart == /\ None \notin Token /\ None \notin Namespace /\ None \notin Int /\ None # Unnamed
               /\ None # "mock" /\ None # "cluster"
               /\ Verb \subseteq Token /\ None \notin Verb
               /\ DOMAIN kind_aliases \subseteq Token
               /\ Name \subseteq Token
  BY KubernetesAssumption
-----------------------------------------------------------------------------
(* The parser. *)

LEMMA WordType == ASSUME NEW ws \in Text, NEW i \in Nat
                  PROVE  Word(ws, i) \in Token \cup {None}
  BY KubernetesAssumption DEF Word

LEMMA SkipType == ASSUME NEW ws, NEW words
                  PROVE  Skip(ws, words) \in {2, 3}
  BY DEF Skip

LEMMA CountType == ASSUME NEW w
                   PROVE  Count(w) \in Int \cup {None}
  BY KubernetesAssumption DEF Count

LEMMA AliasType == ASSUME NEW w \in DOMAIN kind_aliases
                   PROVE  kind_aliases[w] \in DOMAIN kind_aliases
  BY DEF kind_aliases

\* Which query the parser makes, by the first word.
LEMMA ParseCases ==
  ASSUME NEW ws
  PROVE  LET verb == Word(ws, 1)
             named == Skip(ws, {"deploy", "deployment"})
         IN  /\ verb = None => parse_k8s_query(ws) = Parsed("list", "pods", None, None)
             /\ verb \notin Verb \cup {None} =>
                   parse_k8s_query(ws) = Parsed("get", "pod", IF Len(ws) = 1 THEN verb ELSE Unnamed, None)
             /\ verb \in {"get", "describe"} => parse_k8s_query(ws) = ParseGet(ws)
             /\ verb = "list" => parse_k8s_query(ws) = Parsed("list", ListKind(Word(ws, 2)), None, None)
             /\ verb = "events" => parse_k8s_query(ws)
                   = Parsed("events", "events", Word(ws, Skip(ws, DOMAIN kind_aliases)), None)
             /\ verb = "logs" => parse_k8s_query(ws)
                   = Parsed("logs", "logs", Word(ws, IF Len(ws) > 2 THEN Skip(ws, Pods) ELSE 2), None)
             /\ verb = "restart" =>
                   parse_k8s_query(ws) = Parsed("restart", "deployment", Word(ws, named), None)
             /\ verb = "scale" => parse_k8s_query(ws)
                   = Parsed("scale", "deployment", Word(ws, named), Count(Word(ws, named + 1)))
<1> DEFINE verb == Word(ws, 1)
<1>1. ASSUME verb = None
      PROVE  verb \notin {"get", "describe", "list", "events", "logs", "restart", "scale"}
  BY <1>1, Apart DEF Verb
<1>2. ASSUME verb \in Verb
      PROVE  verb # None /\ ~(verb \notin Verb \cup {None})
  BY <1>2, Apart
<1>3. ASSUME verb \notin Verb \cup {None}
      PROVE  verb # None /\ verb \notin {"get", "describe", "list", "events", "logs", "restart", "scale"}
  BY <1>3 DEF Verb
<1>4. CASE verb = None
  <2>1. verb \in Verb \cup {None}
    BY <1>4
  <2> QED BY <1>1, <1>3, <1>4, <2>1, Zenon DEF parse_k8s_query
<1>5. CASE verb \notin Verb \cup {None}
  BY <1>3, <1>5, Zenon DEF parse_k8s_query
<1>6. CASE verb \in {"get", "describe"}
  <2>1. verb \in Verb
    BY <1>6 DEF Verb
  <2>2. verb # "list" /\ verb # "events" /\ verb # "logs" /\ verb # "restart" /\ verb # "scale"
    BY <1>6
  <2> QED BY <1>2, <1>6, <2>1, <2>2, Zenon DEF parse_k8s_query
<1>7. CASE verb = "list"
  <2>1. verb \in Verb
    BY <1>7 DEF Verb
  <2>2. verb \notin {"get", "describe"} /\ verb # "events" /\ verb # "logs" /\ verb # "restart" /\ verb # "scale"
    BY <1>7
  <2> QED BY <1>2, <1>7, <2>1, <2>2, Zenon DEF parse_k8s_query
<1>8. CASE verb = "events"
  <2>1. verb \in Verb
    BY <1>8 DEF Verb
  <2>2. verb \notin {"get", "describe"} /\ verb # "list" /\ verb # "logs" /\ verb # "restart" /\ verb # "scale"
    BY <1>8
  <2> QED BY <1>2, <1>8, <2>1, <2>2, Zenon DEF parse_k8s_query
<1>9. CASE verb = "logs"
  <2>1. verb \in Verb
    BY <1>9 DEF Verb
  <2>2. verb \notin {"get", "describe"} /\ verb # "list" /\ verb # "events" /\ verb # "restart" /\ verb # "scale"
    BY <1>9
  <2> QED BY <1>2, <1>9, <2>1, <2>2, Zenon DEF parse_k8s_query
<1>10. CASE verb = "restart"
  <2>1. verb \in Verb
    BY <1>10 DEF Verb
  <2>2. verb \notin {"get", "describe"} /\ verb # "list" /\ verb # "events" /\ verb # "logs" /\ verb # "scale"
    BY <1>10
  <2> QED BY <1>2, <1>10, <2>1, <2>2, Zenon DEF parse_k8s_query
<1>11. CASE verb = "scale"
  <2>1. verb \in Verb
    BY <1>11 DEF Verb
  <2>2. verb \notin {"get", "describe"} /\ verb # "list" /\ verb # "events" /\ verb # "logs" /\ verb # "restart"
    BY <1>11
  <2> QED BY <1>2, <1>11, <2>1, <2>2, Zenon DEF parse_k8s_query
<1> QED BY <1>4, <1>5, <1>6, <1>7, <1>8, <1>9, <1>10, <1>11 DEF Verb

LEMMA ParseGetCases ==
  ASSUME NEW ws
  PROVE  LET w == Word(ws, 2)
         IN  /\ w = None => ParseGet(ws) = Parsed(ws[1], "pods", None, None)
             /\ w \in DOMAIN kind_aliases => ParseGet(ws) = Parsed(ws[1], kind_aliases[w], Word(ws, 3), None)
             /\ w # None /\ w \notin DOMAIN kind_aliases => ParseGet(ws) = Parsed(ws[1], "pod", w, None)
<1> DEFINE w == Word(ws, 2)
<1>1. ASSUME w \in DOMAIN kind_aliases
      PROVE  w # None
  BY <1>1, Apart
<1>2. CASE w = None
  BY <1>1, <1>2, Zenon DEF ParseGet
<1>3. CASE w \in DOMAIN kind_aliases
  BY <1>1, <1>3, Zenon DEF ParseGet
<1>4. CASE w # None /\ w \notin DOMAIN kind_aliases
  BY <1>4, Zenon DEF ParseGet
<1> QED BY <1>2, <1>3, <1>4, Zenon

\* Whatever the words are, the parser makes a query of them.
LEMMA ParseType == ASSUME NEW ws \in Text
                   PROVE  parse_k8s_query(ws) \in Queries
<1> DEFINE verb == Word(ws, 1)
           named == Skip(ws, {"deploy", "deployment"})
<1>1. verb \in Token \cup {None} /\ Word(ws, 2) \in Token \cup {None} /\ Word(ws, 3) \in Token \cup {None}
  BY WordType
<1>2. /\ Word(ws, named) \in Token \cup {None}
      /\ Count(Word(ws, named + 1)) \in Int \cup {None}
  BY WordType, SkipType, CountType
<1>3. /\ Word(ws, Skip(ws, DOMAIN kind_aliases)) \in Token \cup {None}
      /\ Word(ws, IF Len(ws) > 2 THEN Skip(ws, Pods) ELSE 2) \in Token \cup {None}
  BY WordType, SkipType
<1>4. ASSUME NEW a \in Token, NEW k \in Token, NEW n \in NameOrNone, NEW c \in Int \cup {None}
      PROVE  Parsed(a, k, n, c) \in Queries
  BY <1>4 DEF Parsed, Query, Queries, NameOrNone
<1>5. Token \cup {None} \subseteq NameOrNone /\ None \in NameOrNone /\ None \in Int \cup {None}
  BY DEF NameOrNone
<1>6. {"list", "get", "events", "logs", "restart", "scale", "pods", "pod", "deployment"} \subseteq Token
  BY Apart DEF Verb, kind_aliases
<1>7. CASE verb \in {"get", "describe"}
  <2>1. ws[1] \in Token
    BY <1>1, <1>7, Apart DEF Word, Verb
  <2>2. ParseGet(ws) \in Queries
    <3>1. CASE Word(ws, 2) = None
      <4>1. Parsed(ws[1], "pods", None, None) \in Queries
        BY <2>1, <1>4, <1>5, <1>6
      <4> QED BY <3>1, <4>1, ParseGetCases, Zenon
    <3>2. CASE Word(ws, 2) \in DOMAIN kind_aliases
      <4>1. Parsed(ws[1], kind_aliases[Word(ws, 2)], Word(ws, 3), None) \in Queries
        BY <3>2, <2>1, <1>1, <1>4, <1>5, AliasType, Apart
      <4> QED BY <3>2, <4>1, ParseGetCases, Zenon
    <3>3. CASE Word(ws, 2) # None /\ Word(ws, 2) \notin DOMAIN kind_aliases
      <4>1. Parsed(ws[1], "pod", Word(ws, 2), None) \in Queries
        BY <2>1, <1>1, <1>4, <1>5, <1>6
      <4> QED BY <3>3, <4>1, ParseGetCases, Zenon
    <3> QED BY <3>1, <3>2, <3>3
  <2> QED BY <2>2, <1>7, ParseCases, Zenon
<1>8. CASE verb = "list"
  <2>1. ListKind(Word(ws, 2)) \in Token
    <3>1. CASE Word(ws, 2) = None \/ Word(ws, 2) \in Pods \cup Podlike
      BY <3>1, <1>6 DEF ListKind
    <3>2. CASE ~(Word(ws, 2) = None \/ Word(ws, 2) \in Pods \cup Podlike)
      BY <3>2, <1>1 DEF ListKind
    <3> QED BY <3>1, <3>2
  <2>2. Parsed("list", ListKind(Word(ws, 2)), None, None) \in Queries
    BY <2>1, <1>4, <1>5, <1>6
  <2> QED BY <2>2, <1>8, ParseCases, Zenon
<1>9. CASE verb = None
  <2>1. Parsed("list", "pods", None, None) \in Queries
    BY <1>4, <1>5, <1>6
  <2> QED BY <2>1, <1>9, ParseCases, Zenon
<1>10. CASE verb \notin Verb \cup {None}
  <2>1. (IF Len(ws) = 1 THEN verb ELSE Unnamed) \in NameOrNone
    BY <1>1 DEF NameOrNone
  <2>2. Parsed("get", "pod", IF Len(ws) = 1 THEN verb ELSE Unnamed, None) \in Queries
    BY <2>1, <1>4, <1>5, <1>6
  <2> QED BY <2>2, <1>10, ParseCases, Zenon
<1>11. CASE verb = "events"
  <2>1. Parsed("events", "events", Word(ws, Skip(ws, DOMAIN kind_aliases)), None) \in Queries
    BY <1>3, <1>4, <1>5, <1>6
  <2> QED BY <2>1, <1>11, ParseCases, Zenon
<1>12. CASE verb = "logs"
  <2>1. Parsed("logs", "logs", Word(ws, IF Len(ws) > 2 THEN Skip(ws, Pods) ELSE 2), None) \in Queries
    BY <1>3, <1>4, <1>5, <1>6
  <2> QED BY <2>1, <1>12, ParseCases, Zenon
<1>13. CASE verb = "restart"
  <2>1. Parsed("restart", "deployment", Word(ws, named), None) \in Queries
    BY <1>2, <1>4, <1>5, <1>6
  <2> QED BY <2>1, <1>13, ParseCases, Zenon
<1>14. CASE verb = "scale"
  <2>1. Parsed("scale", "deployment", Word(ws, named), Count(Word(ws, named + 1))) \in Queries
    BY <1>2, <1>4, <1>5, <1>6
  <2> QED BY <2>1, <1>14, ParseCases, Zenon
<1> QED BY <1>7, <1>8, <1>9, <1>10, <1>11, <1>12, <1>13, <1>14 DEF Verb
-----------------------------------------------------------------------------
(* The client and the read-only tool. *)

LEMMA AnswerType ==
  ASSUME NEW of \in {"Pod", "PodLog", "PodList", "EventList", "Deployment", "DeploymentRestart", "DeploymentScale"},
         NEW n \in NameOrNone, NEW ns \in Namespace \cup {None}, NEW k \in Int \cup {None},
         NEW items \in SUBSET (Name \cup {"demo-pod-0"})
  PROVE  Answer(of, n, ns, k, items) \in Answers
<1>1. Mark \in BOOLEAN
  BY DEF Mark
<1> QED BY <1>1 DEF Answer, Answers, NameOrNone

LEMMA ErrorType == Error \in Answers
  BY DEF Error, Answers

LEMMA WhereType == ASSUME NEW ns \in Namespace \cup {None}
                   PROVE  Where(ns) \in Namespace
  BY KubernetesAssumption DEF Where

\* The answers of the read-only tool.
LEMMA ExecuteCases ==
  ASSUME NEW q
  PROVE  LET ns == Where(q.namespace)
             action == IF q.action = None THEN "get" ELSE q.action
         IN  /\ action \in {"get", "describe"} /\ q.kind \in Pods =>
                   execute(q) = IF q.name = None THEN list_pods(ns) ELSE get_pod(q.name, ns)
             /\ action \in {"get", "describe"} /\ q.kind \in Deployments /\ q.name # None =>
                   execute(q) = get_deployment(q.name, ns)
             /\ action = "list" /\ q.kind \in Pods \cup Podlike => execute(q) = list_pods(ns)
             /\ action = "events" => execute(q) = list_events(q.name, ns)
             /\ action = "logs" /\ q.name # None => execute(q) = get_pod_logs(q.name, ns)
             /\ \/ execute(q) = Error
                \/ execute(q) = list_pods(ns)
                \/ execute(q) = list_events(q.name, ns)
                \/ q.name # None /\ execute(q) \in {get_pod(q.name, ns), get_deployment(q.name, ns),
                                                    get_pod_logs(q.name, ns)}
<1> DEFINE ns == Where(q.namespace)
           action == IF q.action = None THEN "get" ELSE q.action
           gets == action \in {"get", "describe"}
           pod == gets /\ q.kind \in Pods
           deployment == gets /\ q.kind \in Deployments /\ q.name # None
           list == action = "list" /\ q.kind \in Pods \cup Podlike
           events == action = "events"
           logs == action = "logs" /\ q.name # None
<1>1. pod => ~deployment /\ ~list /\ ~events /\ ~logs
  BY DEF Pods, Deployments
<1>2. deployment => ~pod /\ ~list /\ ~events /\ ~logs
  BY DEF Pods, Deployments
<1>3. list => ~pod /\ ~deployment /\ ~events /\ ~logs
  OBVIOUS
<1>4. events => ~pod /\ ~deployment /\ ~list /\ ~logs
  OBVIOUS
<1>5. logs => ~pod /\ ~deployment /\ ~list /\ ~events
  OBVIOUS
<1>6. execute(q) = CASE pod -> IF q.name = None THEN list_pods(ns) ELSE get_pod(q.name, ns)
                     [] deployment -> get_deployment(q.name, ns)
                     [] list -> list_pods(ns)
                     [] events -> list_events(q.name, ns)
                     [] logs -> get_pod_logs(q.name, ns)
                     [] OTHER -> Error
  BY Zenon DEF execute
<1> HIDE DEF ns, action, gets, pod, deployment, list, events, logs
<1>7. pod => execute(q) = IF q.name = None THEN list_pods(ns) ELSE get_pod(q.name, ns)
  BY <1>1, <1>6, Zenon
<1>8. deployment => execute(q) = get_deployment(q.name, ns)
  BY <1>2, <1>6, Zenon
<1>9. list => execute(q) = list_pods(ns)
  BY <1>3, <1>6, Zenon
<1>10. events => execute(q) = list_events(q.name, ns)
  BY <1>4, <1>6, Zenon
<1>11. logs => execute(q) = get_pod_logs(q.name, ns)
  BY <1>5, <1>6, Zenon
<1>12. ~pod /\ ~deployment /\ ~list /\ ~events /\ ~logs => execute(q) = Error
  BY <1>6, Zenon
<1>13. (deployment => q.name # None) /\ (logs => q.name # None)
  BY DEF deployment, logs
<1>14. \/ execute(q) = Error
       \/ execute(q) = list_pods(ns)
       \/ execute(q) = list_events(q.name, ns)
       \/ q.name # None /\ execute(q) \in {get_pod(q.name, ns), get_deployment(q.name, ns),
                                           get_pod_logs(q.name, ns)}
  BY <1>7, <1>8, <1>9, <1>10, <1>11, <1>12, <1>13
<1> QED BY <1>7, <1>8, <1>9, <1>10, <1>11, <1>14 DEF pod, deployment, list, events, logs, gets, action, ns

\* What the client answers to a read was so in the cluster, or is marked.
TrueAnswer(a) ==
  /\ a.of \in {"Pod", "PodLog", "PodList", "EventList", "Deployment", "error"}
  /\ IF a.mock THEN client = "mock"
     ELSE /\ a.of # "error" => client = "cluster"
          /\ a.of \in {"Pod", "PodLog"} => <<a.name, a.namespace>> \in pods
          /\ a.of = "PodList" => a.items = {n \in Name : <<n, a.namespace>> \in pods}
          /\ a.of = "Deployment" => a.replicas = replicas[<<a.name, a.namespace>>]

LEMMA ErrorTrue == TrueAnswer(Error)
  BY DEF TrueAnswer, Error

LEMMA ReadFound == ASSUME NEW a, NEW there, client = "mock" \/ there
                   PROVE  Read(there, a) = a
  BY DEF Read

LEMMA PodFound == ASSUME NEW n, NEW ns, client = "mock" \/ <<n, ns>> \in pods
                  PROVE  /\ get_pod(n, ns) = Answer("Pod", n, ns, None, {})
                         /\ get_pod_logs(n, ns) = Answer("PodLog", n, ns, None, {})
  BY ReadFound DEF get_pod, get_pod_logs

LEMMA MethodsTrue ==
  ASSUME TypeOK, client # None, NEW n \in NameOrNone, NEW ns \in Namespace
  PROVE  /\ list_pods(ns) \in Answers /\ TrueAnswer(list_pods(ns))
         /\ list_events(n, ns) \in Answers /\ TrueAnswer(list_events(n, ns))
         /\ get_pod(n, ns) \in Answers /\ TrueAnswer(get_pod(n, ns))
         /\ get_pod_logs(n, ns) \in Answers /\ TrueAnswer(get_pod_logs(n, ns))
         /\ get_deployment(n, ns) \in Answers /\ TrueAnswer(get_deployment(n, ns))
<1> DEFINE there == {x \in Name : <<x, ns>> \in pods}
           items == IF client = "mock" THEN {"demo-pod-0"} ELSE there
           k == IF client = "mock" THEN 3 ELSE replicas[<<n, ns>>]
<1>1. client \in {"mock", "cluster"} /\ None \in NameOrNone /\ None \in Int \cup {None} /\ ns \in Namespace \cup {None}
  BY DEF TypeOK, NameOrNone
<1>2. Mark = (client = "mock")
  BY DEF Mark
<1>3. list_pods(ns) \in Answers /\ TrueAnswer(list_pods(ns))
  <2>1. items \in SUBSET (Name \cup {"demo-pod-0"})
    OBVIOUS
  <2>2. list_pods(ns) = Answer("PodList", None, ns, None, items)
    BY DEF list_pods
  <2> HIDE DEF items
  <2>3. list_pods(ns) \in Answers
    BY <1>1, <2>1, <2>2, AnswerType
  <2>4. list_pods(ns).of = "PodList" /\ list_pods(ns).mock = Mark /\ list_pods(ns).namespace = ns
        /\ list_pods(ns).items = items
    BY <2>2 DEF Answer
  <2>5. client # "mock" => items = there
    BY DEF items
  <2> HIDE DEF there
  <2> QED BY <1>1, <1>2, <2>3, <2>4, <2>5 DEF TrueAnswer, there
<1>4. list_events(n, ns) \in Answers /\ TrueAnswer(list_events(n, ns))
  <2>1. list_events(n, ns) \in Answers
    BY <1>1, AnswerType DEF list_events
  <2> QED BY <1>1, <1>2, <2>1 DEF TrueAnswer, list_events, Answer
<1>5. get_pod(n, ns) \in Answers /\ TrueAnswer(get_pod(n, ns))
  <2>1. Answer("Pod", n, ns, None, {}) \in Answers
    BY <1>1, AnswerType
  <2>2. get_pod(n, ns) \in Answers
    BY <2>1, ErrorType DEF get_pod, Read
  <2>3. CASE client = "mock" \/ <<n, ns>> \in pods
    <3>1. get_pod(n, ns) = Answer("Pod", n, ns, None, {})
      BY <2>3, PodFound
    <3>2. TrueAnswer(Answer("Pod", n, ns, None, {}))
      BY <1>1, <1>2, <2>3 DEF TrueAnswer, Answer
    <3> QED BY <2>2, <3>1, <3>2
  <2>4. CASE ~(client = "mock" \/ <<n, ns>> \in pods)
    BY <2>2, <2>4, ErrorTrue DEF get_pod, Read
  <2> QED BY <2>3, <2>4
<1>6. get_pod_logs(n, ns) \in Answers /\ TrueAnswer(get_pod_logs(n, ns))
  <2>1. Answer("PodLog", n, ns, None, {}) \in Answers
    BY <1>1, AnswerType
  <2>2. get_pod_logs(n, ns) \in Answers
    BY <2>1, ErrorType DEF get_pod_logs, Read
  <2>3. CASE client = "mock" \/ <<n, ns>> \in pods
    <3>1. get_pod_logs(n, ns) = Answer("PodLog", n, ns, None, {})
      BY <2>3, PodFound
    <3>2. TrueAnswer(Answer("PodLog", n, ns, None, {}))
      BY <1>1, <1>2, <2>3 DEF TrueAnswer, Answer
    <3> QED BY <2>2, <3>1, <3>2
  <2>4. CASE ~(client = "mock" \/ <<n, ns>> \in pods)
    BY <2>2, <2>4, ErrorTrue DEF get_pod_logs, Read
  <2> QED BY <2>3, <2>4
<1>7. get_deployment(n, ns) \in Answers /\ TrueAnswer(get_deployment(n, ns))
  <2>1. CASE client = "mock" \/ Deployed(n, ns)
    <3>1. k \in Int \cup {None}
      BY <2>1 DEF TypeOK, Deployed
    <3>2. client # "mock" => k = replicas[<<n, ns>>]
      OBVIOUS
    <3>3. get_deployment(n, ns) = Answer("Deployment", n, ns, k, {})
      BY <2>1, ReadFound DEF get_deployment
    <3> HIDE DEF k, items, there
    <3>4. Answer("Deployment", n, ns, k, {}) \in Answers
      BY <1>1, <3>1, AnswerType
    <3>5. get_deployment(n, ns) \in Answers
      BY <3>3, <3>4
    <3>6. TrueAnswer(Answer("Deployment", n, ns, k, {}))
      BY <1>1, <1>2, <3>2 DEF TrueAnswer, Answer
    <3> QED BY <3>3, <3>5, <3>6
  <2>2. CASE ~(client = "mock" \/ Deployed(n, ns))
    BY <2>2, ErrorTrue, ErrorType DEF get_deployment, Read
  <2> QED BY <2>1, <2>2
<1> QED BY <1>3, <1>4, <1>5, <1>6, <1>7

LEMMA AnsweredTrue ==
  ASSUME TypeOK, client # None, NEW q \in Queries, NEW up \in BOOLEAN
  PROVE  Answered(q, up) \in Answers /\ TrueAnswer(Answered(q, up))
<1>1. Where(q.namespace) \in Namespace /\ q.name \in NameOrNone
  BY WhereType DEF Queries, NameOrNone
<1>2. execute(q) \in Answers /\ TrueAnswer(execute(q))
  BY <1>1, ExecuteCases, MethodsTrue, ErrorTrue, ErrorType
<1> QED BY <1>2, ErrorTrue, ErrorType DEF Answered
-----------------------------------------------------------------------------
(* The forms of a query. *)

\* a is about that object, or the cluster did not answer.
Meant(a, of, name, ns) ==
  \/ a.of = of /\ a.name = name /\ a.namespace = ns
  \/ a = Error /\ client = "cluster"

LEMMA MethodsMean ==
  ASSUME client \in {"mock", "cluster"}, NEW n, NEW ns
  PROVE  /\ Meant(list_pods(ns), "PodList", None, ns)
         /\ Meant(list_events(n, ns), "EventList", n, ns)
         /\ Meant(get_pod(n, ns), "Pod", n, ns)
         /\ Meant(get_pod_logs(n, ns), "PodLog", n, ns)
         /\ Meant(get_deployment(n, ns), "Deployment", n, ns)
<1>1. ASSUME NEW there, NEW of, NEW k, NEW items
      PROVE  Meant(Read(there, Answer(of, n, ns, k, items)), of, n, ns)
  <2>1. CASE client = "mock" \/ there
    <3>1. Meant(Answer(of, n, ns, k, items), of, n, ns)
      BY DEF Meant, Answer
    <3> QED BY <2>1, <3>1, ReadFound
  <2>2. CASE ~(client = "mock" \/ there)
    BY <2>2 DEF Meant, Read
  <2> QED BY <2>1, <2>2
<1>2. Meant(list_pods(ns), "PodList", None, ns)
  BY DEF Meant, list_pods, Answer
<1>3. Meant(list_events(n, ns), "EventList", n, ns)
  BY DEF Meant, list_events, Answer
<1> QED BY <1>1, <1>2, <1>3 DEF get_pod, get_pod_logs, get_deployment

LEMMA OneWord == ASSUME NEW a
                 PROVE  Word(<<a>>, 1) = a /\ Word(<<a>>, 2) = None
  BY DEF Word

LEMMA TwoWords == ASSUME NEW a, NEW b
                  PROVE  Word(<<a, b>>, 1) = a /\ Word(<<a, b>>, 2) = b
  BY DEF Word

LEMMA ThreeWords == ASSUME NEW a, NEW b, NEW c
                    PROVE  Word(<<a, b, c>>, 1) = a /\ Word(<<a, b, c>>, 2) = b /\ Word(<<a, b, c>>, 3) = c
  BY DEF Word

LEMMA FourWords == ASSUME NEW a, NEW b, NEW c, NEW d
                   PROVE  /\ Word(<<a, b, c, d>>, 1) = a /\ Word(<<a, b, c, d>>, 2) = b
                          /\ Word(<<a, b, c, d>>, 3) = c /\ Word(<<a, b, c, d>>, 4) = d
  BY DEF Word

LEMMA FormsParse ==
  ASSUME NEW n \in Name, NEW k \in DOMAIN Numeral
  PROVE  /\ parse_k8s_query(<<"get", "pod", n>>) = Parsed("get", "pod", n, None)
         /\ parse_k8s_query(<<"list", "pods">>) = Parsed("list", "pods", None, None)
         /\ parse_k8s_query(<<"get", "deploy", n>>) = Parsed("get", "deployment", n, None)
         /\ parse_k8s_query(<<"events">>) = Parsed("events", "events", None, None)
         /\ parse_k8s_query(<<"events", n>>) = Parsed("events", "events", n, None)
         /\ parse_k8s_query(<<"logs", n>>) = Parsed("logs", "logs", n, None)
         /\ parse_k8s_query(<<"restart", "deploy", n>>) = Parsed("restart", "deployment", n, None)
         /\ parse_k8s_query(<<"scale", "deploy", n, k>>) = Parsed("scale", "deployment", n, Numeral[k])
<1>1. n \notin DOMAIN kind_aliases /\ None \notin DOMAIN kind_aliases
  BY KubernetesAssumption, Apart
<1>2. /\ "pod" \in DOMAIN kind_aliases /\ kind_aliases["pod"] = "pod"
      /\ "deploy" \in DOMAIN kind_aliases /\ kind_aliases["deploy"] = "deployment"
  BY DEF kind_aliases
<1>3. parse_k8s_query(<<"get", "pod", n>>) = Parsed("get", "pod", n, None)
  <2> DEFINE ws == <<"get", "pod", n>>
  <2>1. Word(ws, 1) = "get" /\ Word(ws, 2) = "pod" /\ Word(ws, 3) = n /\ ws[1] = "get"
    BY ThreeWords
  <2> HIDE DEF ws
  <2>2. parse_k8s_query(ws) = ParseGet(ws)
    BY <2>1, ParseCases
  <2>3. ParseGet(ws) = Parsed(ws[1], kind_aliases[Word(ws, 2)], Word(ws, 3), None)
    BY <1>2, <2>1, ParseGetCases
  <2> QED BY <1>2, <2>1, <2>2, <2>3 DEF ws
<1>4. parse_k8s_query(<<"get", "deploy", n>>) = Parsed("get", "deployment", n, None)
  <2> DEFINE ws == <<"get", "deploy", n>>
  <2>1. Word(ws, 1) = "get" /\ Word(ws, 2) = "deploy" /\ Word(ws, 3) = n /\ ws[1] = "get"
    BY ThreeWords
  <2> HIDE DEF ws
  <2>2. parse_k8s_query(ws) = ParseGet(ws)
    BY <2>1, ParseCases
  <2>3. ParseGet(ws) = Parsed(ws[1], kind_aliases[Word(ws, 2)], Word(ws, 3), None)
    BY <1>2, <2>1, ParseGetCases
  <2> QED BY <1>2, <2>1, <2>2, <2>3 DEF ws
<1>5. parse_k8s_query(<<"list", "pods">>) = Parsed("list", "pods", None, None)
  <2> DEFINE ws == <<"list", "pods">>
  <2>1. Word(ws, 1) = "list" /\ Word(ws, 2) = "pods"
    BY TwoWords
  <2> HIDE DEF ws
  <2>2. parse_k8s_query(ws) = Parsed("list", ListKind(Word(ws, 2)), None, None)
    BY <2>1, ParseCases
  <2>3. ListKind("pods") = "pods"
    BY DEF ListKind, Pods
  <2> QED BY <2>1, <2>2, <2>3 DEF ws
<1>6. parse_k8s_query(<<"events">>) = Parsed("events", "events", None, None)
  <2> DEFINE ws == <<"events">>
  <2>1. Word(ws, 1) = "events" /\ Word(ws, 2) = None
    BY OneWord
  <2> HIDE DEF ws
  <2>2. parse_k8s_query(ws) = Parsed("events", "events", Word(ws, Skip(ws, DOMAIN kind_aliases)), None)
    BY <2>1, ParseCases
  <2>3. Skip(ws, DOMAIN kind_aliases) = 2
    BY <1>1, <2>1 DEF Skip
  <2> QED BY <2>1, <2>2, <2>3 DEF ws
<1>7. parse_k8s_query(<<"events", n>>) = Parsed("events", "events", n, None)
  <2> DEFINE ws == <<"events", n>>
  <2>1. Word(ws, 1) = "events" /\ Word(ws, 2) = n
    BY TwoWords
  <2> HIDE DEF ws
  <2>2. parse_k8s_query(ws) = Parsed("events", "events", Word(ws, Skip(ws, DOMAIN kind_aliases)), None)
    BY <2>1, ParseCases
  <2>3. Skip(ws, DOMAIN kind_aliases) = 2
    BY <1>1, <2>1 DEF Skip
  <2> QED BY <2>1, <2>2, <2>3 DEF ws
<1>8. parse_k8s_query(<<"logs", n>>) = Parsed("logs", "logs", n, None)
  <2> DEFINE ws == <<"logs", n>>
  <2>1. Word(ws, 1) = "logs" /\ Word(ws, 2) = n /\ Len(ws) = 2
    BY TwoWords
  <2> HIDE DEF ws
  <2>2. parse_k8s_query(ws)
          = Parsed("logs", "logs", Word(ws, IF Len(ws) > 2 THEN Skip(ws, Pods) ELSE 2), None)
    BY <2>1, ParseCases
  <2>3. (IF Len(ws) > 2 THEN Skip(ws, Pods) ELSE 2) = 2
    BY <2>1
  <2> QED BY <2>1, <2>2, <2>3 DEF ws
<1>9. parse_k8s_query(<<"restart", "deploy", n>>) = Parsed("restart", "deployment", n, None)
  <2> DEFINE ws == <<"restart", "deploy", n>>
  <2>1. Word(ws, 1) = "restart" /\ Word(ws, 2) = "deploy" /\ Word(ws, 3) = n
    BY ThreeWords
  <2> HIDE DEF ws
  <2>2. parse_k8s_query(ws) = Parsed("restart", "deployment", Word(ws, Skip(ws, {"deploy", "deployment"})), None)
    BY <2>1, ParseCases
  <2>3. Skip(ws, {"deploy", "deployment"}) = 3
    BY <2>1 DEF Skip
  <2> QED BY <2>1, <2>2, <2>3 DEF ws
<1>10. parse_k8s_query(<<"scale", "deploy", n, k>>) = Parsed("scale", "deployment", n, Numeral[k])
  <2> DEFINE ws == <<"scale", "deploy", n, k>>
             named == Skip(ws, {"deploy", "deployment"})
  <2>1. Word(ws, 1) = "scale" /\ Word(ws, 2) = "deploy" /\ Word(ws, 3) = n /\ Word(ws, 4) = k
    BY FourWords
  <2> HIDE DEF ws
  <2>2. parse_k8s_query(ws) = Parsed("scale", "deployment", Word(ws, named), Count(Word(ws, named + 1)))
    BY <2>1, ParseCases
  <2>3. named = 3
    BY <2>1 DEF Skip
  <2>4. Count(k) = Numeral[k]
    BY DEF Count
  <2>5. named + 1 = 4
    BY <2>3
  <2> HIDE DEF named
  <2> QED BY <2>1, <2>2, <2>3, <2>4, <2>5 DEF ws
<1> QED BY <1>3, <1>4, <1>5, <1>6, <1>7, <1>8, <1>9, <1>10

\* None of the forms raises.
LEMMA FormsReturn ==
  ASSUME NEW n \in Name, NEW k \in DOMAIN Numeral
  PROVE  /\ ~Raises(<<"get", "pod", n>>) /\ ~Raises(<<"list", "pods">>) /\ ~Raises(<<"get", "deploy", n>>)
         /\ ~Raises(<<"events">>) /\ ~Raises(<<"events", n>>) /\ ~Raises(<<"logs", n>>)
         /\ ~Raises(<<"restart", "deploy", n>>) /\ ~Raises(<<"scale", "deploy", n, k>>)
<1>1. ~Raises(<<"scale", "deploy", n, k>>)
  <2> DEFINE ws == <<"scale", "deploy", n, k>>
  <2>1. Word(ws, 2) = "deploy" /\ Word(ws, 4) = k
    BY FourWords
  <2> HIDE DEF ws
  <2>2. Skip(ws, {"deploy", "deployment"}) + 1 = 4
    BY <2>1 DEF Skip
  <2>3. ~Raises(ws)
    BY <2>1, <2>2 DEF Raises
  <2> QED BY <2>3 DEF ws
<1>2. ASSUME NEW ws, Word(ws, 1) # "scale" PROVE ~Raises(ws)
  BY <1>2 DEF Raises
<1>3. Word(<<"get", "pod", n>>, 1) # "scale" /\ Word(<<"get", "deploy", n>>, 1) # "scale"
      /\ Word(<<"restart", "deploy", n>>, 1) # "scale"
  BY ThreeWords
<1>4. Word(<<"list", "pods">>, 1) # "scale" /\ Word(<<"events">>, 1) # "scale"
      /\ Word(<<"events", n>>, 1) # "scale" /\ Word(<<"logs", n>>, 1) # "scale"
  BY OneWord, TwoWords
<1> QED BY <1>1, <1>2, <1>3, <1>4

\* What the read-only tool makes of the forms.
LEMMA FormsMean ==
  ASSUME client \in {"mock", "cluster"}, NEW n \in Name, NEW k \in DOMAIN Numeral, NEW up \in BOOLEAN
  PROVE  LET A(ws) == Answered(parse_k8s_query(ws), up)
         IN  /\ Meant(A(<<"get", "pod", n>>), "Pod", n, Default)
             /\ Meant(A(<<"list", "pods">>), "PodList", None, Default)
             /\ Meant(A(<<"get", "deploy", n>>), "Deployment", n, Default)
             /\ Meant(A(<<"events">>), "EventList", None, Default)
             /\ Meant(A(<<"events", n>>), "EventList", n, Default)
             /\ Meant(A(<<"logs", n>>), "PodLog", n, Default)
<1>1. n # None /\ \A x \in Verb : x # None
  BY Apart
<1>2. ASSUME NEW a, NEW kind, NEW name, NEW c
      PROVE  LET q == Parsed(a, kind, name, c)
             IN  q.action = a /\ q.kind = kind /\ q.name = name /\ Where(q.namespace) = Default
  BY DEF Parsed, Query, Where
<1>3. ASSUME NEW q, NEW of, NEW name, Meant(execute(q), of, name, Default)
      PROVE  Meant(Answered(q, up), of, name, Default)
  <2>1. CASE up \/ client = "mock"
    BY <1>3, <2>1 DEF Answered
  <2>2. CASE ~(up \/ client = "mock")
    BY <2>2 DEF Answered, Meant
  <2> QED BY <2>1, <2>2
<1>4. Meant(execute(Parsed("get", "pod", n, None)), "Pod", n, Default)
  <2> DEFINE q == Parsed("get", "pod", n, None)
  <2>1. q.action = "get" /\ q.kind \in Pods /\ q.name = n /\ Where(q.namespace) = Default
    BY <1>2 DEF Pods
  <2> HIDE DEF q
  <2>2. execute(q) = get_pod(n, Default)
    BY <1>1, <2>1, ExecuteCases DEF Verb
  <2> QED BY <2>2, MethodsMean DEF q
<1>5. Meant(execute(Parsed("list", "pods", None, None)), "PodList", None, Default)
  <2> DEFINE q == Parsed("list", "pods", None, None)
  <2>1. q.action = "list" /\ q.kind \in Pods \cup Podlike /\ Where(q.namespace) = Default
    BY <1>2 DEF Pods
  <2> HIDE DEF q
  <2>2. execute(q) = list_pods(Default)
    BY <1>1, <2>1, ExecuteCases DEF Verb
  <2> QED BY <2>2, MethodsMean DEF q
<1>6. Meant(execute(Parsed("get", "deployment", n, None)), "Deployment", n, Default)
  <2> DEFINE q == Parsed("get", "deployment", n, None)
  <2>1. q.action = "get" /\ q.kind \in Deployments /\ q.name = n /\ Where(q.namespace) = Default
    BY <1>2 DEF Deployments
  <2> HIDE DEF q
  <2>2. execute(q) = get_deployment(n, Default)
    BY <1>1, <2>1, ExecuteCases DEF Verb
  <2> QED BY <2>2, MethodsMean DEF q
<1>7. ASSUME NEW name
      PROVE  Meant(execute(Parsed("events", "events", name, None)), "EventList", name, Default)
  <2> DEFINE q == Parsed("events", "events", name, None)
  <2>1. q.action = "events" /\ q.name = name /\ Where(q.namespace) = Default
    BY <1>2
  <2> HIDE DEF q
  <2>2. execute(q) = list_events(name, Default)
    BY <1>1, <2>1, ExecuteCases DEF Verb
  <2> QED BY <2>2, MethodsMean DEF q
<1>8. Meant(execute(Parsed("logs", "logs", n, None)), "PodLog", n, Default)
  <2> DEFINE q == Parsed("logs", "logs", n, None)
  <2>1. q.action = "logs" /\ q.name = n /\ Where(q.namespace) = Default
    BY <1>2
  <2> HIDE DEF q
  <2>2. execute(q) = get_pod_logs(n, Default)
    BY <1>1, <2>1, ExecuteCases DEF Verb
  <2> QED BY <2>2, MethodsMean DEF q
<1> QED BY <1>3, <1>4, <1>5, <1>6, <1>7, <1>8, FormsParse

LEMMA ActionOf ==
  ASSUME NEW ws, Word(ws, 1) \in Verb
  PROVE  LET q == parse_k8s_query(ws)
         IN  _parse(ws) = Query(q.action, q.kind, q.name, q.namespace, q.replicas)
<1>1. Word(ws, 1) \notin Restarting /\ Word(ws, 1) \notin Scaling
  BY KubernetesAssumption
<1> QED BY <1>1, Zenon DEF _parse

\* What the playbook tool makes of the forms.
LEMMA FormsPropose ==
  ASSUME NEW n \in Name, NEW k \in DOMAIN Numeral
  PROVE  /\ _parse(<<"restart", "deploy", n>>) = Query("restart", "deployment", n, None, None)
         /\ _parse(<<"scale", "deploy", n, k>>) = Query("scale", "deployment", n, None, Numeral[k])
<1>1. "restart" \in Verb /\ "scale" \in Verb
  BY DEF Verb
<1>2. _parse(<<"restart", "deploy", n>>) = Query("restart", "deployment", n, None, None)
  <2> DEFINE ws == <<"restart", "deploy", n>>
             q == parse_k8s_query(ws)
  <2>1. Word(ws, 1) \in Verb
    BY <1>1, ThreeWords
  <2>2. q = Parsed("restart", "deployment", n, None)
    BY FormsParse
  <2> HIDE DEF ws, q
  <2>3. _parse(ws) = Query(q.action, q.kind, q.name, q.namespace, q.replicas)
    BY <2>1, ActionOf DEF q
  <2> QED BY <2>2, <2>3 DEF ws, Parsed, Query
<1>3. _parse(<<"scale", "deploy", n, k>>) = Query("scale", "deployment", n, None, Numeral[k])
  <2> DEFINE ws == <<"scale", "deploy", n, k>>
             q == parse_k8s_query(ws)
  <2>1. Word(ws, 1) \in Verb
    BY <1>1, FourWords
  <2>2. q = Parsed("scale", "deployment", n, Numeral[k])
    BY FormsParse
  <2> HIDE DEF ws, q
  <2>3. _parse(ws) = Query(q.action, q.kind, q.name, q.namespace, q.replicas)
    BY <2>1, ActionOf DEF q
  <2> QED BY <2>2, <2>3 DEF ws, Parsed, Query
<1> QED BY <1>2, <1>3

LEMMA PlaybookType == ASSUME NEW ws \in Text
                      PROVE  _parse(ws) \in Queries
<1>1. parse_k8s_query(ws) \in Queries
  BY ParseType
<1> DEFINE q == parse_k8s_query(ws)
           verb == Word(ws, 1)
           action == IF verb \in Restarting THEN "restart" ELSE IF verb \in Scaling THEN "scale" ELSE q.action
<1>2. _parse(ws) = Query(action, q.kind, q.name, q.namespace, q.replicas)
  BY Zenon DEF _parse
<1>3. "restart" \in Token /\ "scale" \in Token
  BY Apart DEF Verb
<1>4. q \in Queries
  BY <1>1
<1> HIDE DEF q, verb
<1>5. action \in Token \cup {None}
  BY <1>3, <1>4 DEF Queries
<1> HIDE DEF action
<1> QED BY <1>2, <1>4, <1>5 DEF Query, Queries
-----------------------------------------------------------------------------
(* The evidence. *)

\* What the reads of a diagnosis tell, by their place.
Told(a, i) == IF i = 2 THEN "EventList"
              ELSE IF i = 3 THEN "PodLog"
              ELSE IF About(a, Pods) THEN "Pod"
              ELSE IF About(a, Deployments) THEN "Deployment" ELSE "PodList"

Subject(a) == IF About(a, Pods \cup Deployments) THEN a.resource ELSE None

LEMMA RequestFields ==
  ASSUME NEW action, NEW kind, NEW name, NEW ns
  PROVE  LET q == Request(action, kind, name, ns)
         IN  q.action = action /\ q.kind = kind /\ q.name = name /\ q.namespace = ns
  BY DEF Request, Query

LEMMA ReadsType ==
  ASSUME NEW a \in Alert, NEW i \in DOMAIN Reads(a)
  PROVE  /\ Reads(a)[i] \in Queries
         /\ Len(Reads(a)) = IF About(a, Pods) THEN 3 ELSE 2
         /\ DOMAIN Reads(a) = 1..Len(Reads(a))
<1>1. a.resource \in NameOrNone /\ a.namespace \in Namespace \cup {None} /\ None \in NameOrNone
  BY KubernetesAssumption, Apart DEF NameOrNone
<1>2. ASSUME NEW action \in Token, NEW kind \in Token, NEW name \in NameOrNone
      PROVE  Request(action, kind, name, a.namespace) \in Queries
  BY <1>1, <1>2 DEF Request, Query, Queries, NameOrNone
<1>3. {"get", "list", "events", "logs", "pod", "pods", "deployment"} \subseteq Token
  BY Apart DEF Verb, kind_aliases
<1>4. CASE About(a, Pods)
  <2>1. Reads(a) = <<Request("get", "pod", a.resource, a.namespace),
                     Request("events", "pod", a.resource, a.namespace),
                     Request("logs", "pod", a.resource, a.namespace)>>
    BY <1>4, Zenon DEF Reads
  <2>2. /\ Request("get", "pod", a.resource, a.namespace) \in Queries
        /\ Request("events", "pod", a.resource, a.namespace) \in Queries
        /\ Request("logs", "pod", a.resource, a.namespace) \in Queries
    BY <1>1, <1>2, <1>3
  <2> QED BY <1>4, <2>1, <2>2
<1>5. CASE ~About(a, Pods) /\ About(a, Deployments)
  <2>1. Reads(a) = <<Request("get", "deployment", a.resource, a.namespace),
                     Request("events", "pod", a.resource, a.namespace)>>
    BY <1>5, Zenon DEF Reads
  <2>2. /\ Request("get", "deployment", a.resource, a.namespace) \in Queries
        /\ Request("events", "pod", a.resource, a.namespace) \in Queries
    BY <1>1, <1>2, <1>3
  <2> QED BY <1>5, <2>1, <2>2
<1>6. CASE ~About(a, Pods) /\ ~About(a, Deployments)
  <2>1. Reads(a) = <<Request("list", "pods", None, a.namespace), Request("events", "pod", None, a.namespace)>>
    BY <1>6, Zenon DEF Reads
  <2>2. /\ Request("list", "pods", None, a.namespace) \in Queries
        /\ Request("events", "pod", None, a.namespace) \in Queries
    BY <1>1, <1>2, <1>3
  <2> QED BY <1>6, <2>1, <2>2
<1> QED BY <1>4, <1>5, <1>6

\* A read of a diagnosis is about the alert's subject, or the cluster did not
\* answer.
LEMMA ReadsMean ==
  ASSUME client \in {"mock", "cluster"}, NEW a \in Alert, NEW i \in DOMAIN Reads(a), NEW up \in BOOLEAN
  PROVE  Meant(Answered(Reads(a)[i], up), Told(a, i), Subject(a), Where(a.namespace))
<1> DEFINE ns == Where(a.namespace)
<1>1. \A x \in Verb : x # None
  BY Apart
<1>2. {"get", "list", "events", "logs"} \subseteq Verb
  BY DEF Verb
<1>3. SUFFICES Meant(execute(Reads(a)[i]), Told(a, i), Subject(a), ns)
  <2>1. CASE up \/ client = "mock"
    BY <1>3, <2>1 DEF Answered
  <2>2. CASE ~(up \/ client = "mock")
    BY <2>2 DEF Answered, Meant
  <2> QED BY <2>1, <2>2
<1>4. About(a, Pods \cup Deployments) <=> About(a, Pods) \/ About(a, Deployments)
  BY DEF About
<1>5. About(a, Pods) => ~About(a, Deployments)
  BY DEF About, Pods, Deployments
<1>6. ASSUME NEW name
      PROVE  execute(Request("events", "pod", name, a.namespace)) = list_events(name, ns)
  <2> DEFINE q == Request("events", "pod", name, a.namespace)
  <2>1. q.action = "events" /\ q.name = name /\ q.namespace = a.namespace
    BY RequestFields
  <2> HIDE DEF q
  <2>2. execute(q) = list_events(name, ns)
    BY <1>1, <1>2, <2>1, ExecuteCases
  <2> QED BY <2>2 DEF q
<1>7. CASE About(a, Pods)
  <2>1. Reads(a) = <<Request("get", "pod", a.resource, a.namespace),
                     Request("events", "pod", a.resource, a.namespace),
                     Request("logs", "pod", a.resource, a.namespace)>>
    BY <1>7, Zenon DEF Reads
  <2>2. Subject(a) = a.resource /\ a.resource # None
    BY <1>4, <1>7 DEF Subject, About
  <2>3. CASE i = 1
    <3> DEFINE q == Request("get", "pod", a.resource, a.namespace)
    <3>1. q.action = "get" /\ q.kind \in Pods /\ q.name = a.resource /\ q.namespace = a.namespace
      BY RequestFields DEF Pods
    <3>2. Reads(a)[i] = q
      BY <2>1, <2>3
    <3> HIDE DEF q
    <3>3. execute(q) = get_pod(a.resource, ns)
      BY <1>1, <1>2, <2>2, <3>1, ExecuteCases
    <3>4. Told(a, i) = "Pod"
      BY <1>7, <2>3 DEF Told
    <3> QED BY <2>2, <3>2, <3>3, <3>4, MethodsMean
  <2>4. CASE i = 2
    BY <1>6, <2>1, <2>2, <2>4, MethodsMean DEF Told
  <2>5. CASE i = 3
    <3> DEFINE q == Request("logs", "pod", a.resource, a.namespace)
    <3>1. q.action = "logs" /\ q.name = a.resource /\ q.namespace = a.namespace
      BY RequestFields
    <3>2. Reads(a)[i] = q
      BY <2>1, <2>5
    <3> HIDE DEF q
    <3>3. execute(q) = get_pod_logs(a.resource, ns)
      BY <1>1, <1>2, <2>2, <3>1, ExecuteCases
    <3>4. Told(a, i) = "PodLog"
      BY <2>5 DEF Told
    <3> QED BY <2>2, <3>2, <3>3, <3>4, MethodsMean
  <2>6. i \in {1, 2, 3}
    BY <2>1
  <2> QED BY <2>3, <2>4, <2>5, <2>6
<1>8. CASE ~About(a, Pods) /\ About(a, Deployments)
  <2>1. Reads(a) = <<Request("get", "deployment", a.resource, a.namespace),
                     Request("events", "pod", a.resource, a.namespace)>>
    BY <1>8, Zenon DEF Reads
  <2>2. Subject(a) = a.resource /\ a.resource # None
    BY <1>4, <1>8 DEF Subject, About
  <2>3. CASE i = 1
    <3> DEFINE q == Request("get", "deployment", a.resource, a.namespace)
    <3>1. q.action = "get" /\ q.kind \in Deployments /\ q.name = a.resource /\ q.namespace = a.namespace
      BY RequestFields DEF Deployments
    <3>2. Reads(a)[i] = q
      BY <2>1, <2>3
    <3> HIDE DEF q
    <3>3. execute(q) = get_deployment(a.resource, ns)
      BY <1>1, <1>2, <2>2, <3>1, ExecuteCases
    <3>4. Told(a, i) = "Deployment"
      BY <1>8, <2>3 DEF Told
    <3> QED BY <2>2, <3>2, <3>3, <3>4, MethodsMean
  <2>4. CASE i = 2
    BY <1>6, <2>1, <2>2, <2>4, MethodsMean DEF Told
  <2>5. i \in {1, 2}
    BY <2>1
  <2> QED BY <2>3, <2>4, <2>5
<1>9. CASE ~About(a, Pods) /\ ~About(a, Deployments)
  <2>1. Reads(a) = <<Request("list", "pods", None, a.namespace), Request("events", "pod", None, a.namespace)>>
    BY <1>9, Zenon DEF Reads
  <2>2. Subject(a) = None
    BY <1>4, <1>9 DEF Subject
  <2>3. CASE i = 1
    <3> DEFINE q == Request("list", "pods", None, a.namespace)
    <3>1. q.action = "list" /\ q.kind \in Pods \cup Podlike /\ q.namespace = a.namespace
      BY RequestFields DEF Pods
    <3>2. Reads(a)[i] = q
      BY <2>1, <2>3
    <3> HIDE DEF q
    <3>3. execute(q) = list_pods(ns)
      BY <1>1, <1>2, <3>1, ExecuteCases
    <3>4. Told(a, i) = "PodList"
      BY <1>9, <2>3 DEF Told
    <3> QED BY <2>2, <3>2, <3>3, <3>4, MethodsMean
  <2>4. CASE i = 2
    BY <1>6, <2>1, <2>2, <2>4, MethodsMean DEF Told
  <2>5. i \in {1, 2}
    BY <2>1
  <2> QED BY <2>3, <2>4, <2>5
<1> QED BY <1>7, <1>8, <1>9
-----------------------------------------------------------------------------
(* The inductive invariant. *)

\* Who has an answer to take or collects evidence has a client; and how far the
\* collection has come.
Collecting ==
  /\ reply # None \/ pc # "idle" => client # None
  /\ pc = "idle" => evidence = <<>>
  /\ pc # "idle" => alert \in Alert
  /\ pc = "collect" => Len(evidence) < Len(Reads(alert))
  /\ pc = "done" => Len(evidence) > 0 /\ (\/ evidence[Len(evidence)].of = "error"
                                          \/ Len(evidence) = Len(Reads(alert)))

\* Every piece of evidence is about the alert's subject and tells what its place
\* says; only the last may be an error, of a cluster.
Pieces ==
  \A i \in DOMAIN evidence :
     \/ evidence[i].of = "error" /\ i = Len(evidence) /\ pc = "done" /\ client = "cluster"
     \/ /\ evidence[i].of = Told(alert, i)
        /\ evidence[i].name = Subject(alert)
        /\ evidence[i].namespace = Where(alert.namespace)

IInv == TypeOK /\ Collecting /\ Pieces /\ Understood

LEMMA InitIInv == Init => IInv
  BY DEF Init, IInv, TypeOK, Collecting, Pieces, Understood

LEMMA HasClient == ASSUME TypeOK, client # None
                   PROVE  client \in {"mock", "cluster"}
  BY DEF TypeOK

\* A step that answers: only the reply and the cluster change.
LEMMA AnswerStep ==
  ASSUME IInv, NEW tool, NEW words, NEW a, Reply(tool, words, a),
         a \in Answers \cup Proposals, UNCHANGED <<client, diagnosis>>,
         pods' \subseteq Object, replicas' \in [Object -> Nat \cup {None}], rollout' \in [Object -> BOOLEAN],
         Understood'
  PROVE  IInv'
<1>1. TypeOK /\ Collecting /\ Pieces
  BY DEF IInv
<1>2. reply' = [tool |-> tool, words |-> words, answer |-> a] /\ client # None
  BY DEF Reply
<1>3. UNCHANGED <<client, alert, evidence, pc>>
  BY DEF diagnosis
<1>4. TypeOK'
  <2>1. reply'.answer \in Answers \cup Proposals
    BY <1>2 DEF Proposals
  <2> QED BY <1>1, <1>3, <2>1 DEF TypeOK
<1>5. Collecting'
  BY <1>1, <1>2, <1>3 DEF Collecting
<1>6. Pieces'
  BY <1>1, <1>3 DEF Pieces
<1> QED BY <1>4, <1>5, <1>6 DEF IInv

LEMMA UnderstoodStays == ASSUME Understood, UNCHANGED <<reply, client>>
                         PROVE  Understood'
<1>1. Error' = Error /\ reply' = reply /\ client' = client
  BY DEF Error
<1> QED BY <1>1 DEF Understood

\* A step that neither answers nor collects.
LEMMA OtherStep ==
  ASSUME IInv, reply' = None \/ UNCHANGED reply, UNCHANGED <<client, diagnosis>>,
         pods' \subseteq Object, replicas' \in [Object -> Nat \cup {None}], rollout' \in [Object -> BOOLEAN]
  PROVE  IInv'
<1>1. TypeOK /\ Collecting /\ Pieces /\ Understood
  BY DEF IInv
<1>2. UNCHANGED <<client, alert, evidence, pc>>
  BY DEF diagnosis
<1>3. TypeOK'
  BY <1>1, <1>2 DEF TypeOK
<1>4. Collecting'
  BY <1>1, <1>2 DEF Collecting
<1>5. Pieces'
  BY <1>1, <1>2 DEF Pieces
<1>6. Understood'
  <2>1. CASE reply' = None
    BY <2>1 DEF Understood
  <2>2. CASE UNCHANGED reply
    BY <1>1, <1>2, <2>2, UnderstoodStays
  <2> QED BY <2>1, <2>2
<1> QED BY <1>3, <1>4, <1>5, <1>6 DEF IInv

LEMMA ClusterStays == ASSUME TypeOK, UNCHANGED cluster
                      PROVE  /\ pods' \subseteq Object
                             /\ replicas' \in [Object -> Nat \cup {None}]
                             /\ rollout' \in [Object -> BOOLEAN]
  BY DEF TypeOK, cluster

\* An answer to a request that is not in words is none of the forms.
LEMMA Wordless == ASSUME NEW tool, NEW a, reply' = [tool |-> tool, words |-> None, answer |-> a]
                  PROVE  Understood'
<1>1. ASSUME NEW n \in Name, NEW k \in DOMAIN Numeral
      PROVE  /\ None # <<"get", "pod", n>> /\ None # <<"list", "pods">> /\ None # <<"get", "deploy", n>>
             /\ None # <<"events">> /\ None # <<"events", n>> /\ None # <<"logs", n>>
             /\ None # <<"restart", "deploy", n>> /\ None # <<"scale", "deploy", n, k>>
  <2>1. n \in Token /\ k \in Token /\ {"get", "list", "events", "logs", "restart", "scale"} \subseteq Token
        /\ {"pod", "pods", "deploy"} \subseteq Token
    BY KubernetesAssumption, Apart DEF Verb, kind_aliases
  <2>2. /\ <<"get", "pod", n>> \in Seq(Token) /\ <<"list", "pods">> \in Seq(Token)
        /\ <<"get", "deploy", n>> \in Seq(Token)
        /\ <<"events">> \in Seq(Token) /\ <<"events", n>> \in Seq(Token) /\ <<"logs", n>> \in Seq(Token)
        /\ <<"restart", "deploy", n>> \in Seq(Token) /\ <<"scale", "deploy", n, k>> \in Seq(Token)
    BY <2>1
  <2>3. None \notin Seq(Token)
    BY KubernetesAssumption
  <2> QED BY <2>2, <2>3
<1>2. reply'.words = None
  OBVIOUS
<1> QED BY <1>1, <1>2 DEF Understood

LEMMA AskTextUnderstood ==
  ASSUME TypeOK, NEW ws \in Text, NEW up \in BOOLEAN, AskText(ws, up)
  PROVE  Understood'
<1> DEFINE a == Answered(parse_k8s_query(ws), up)
<1>1. client \in {"mock", "cluster"} /\ client' = client /\ reply' = [tool |-> "kubernetes", words |-> ws, answer |-> a]
  BY HasClient DEF AskText, Ask, Reply
<1>2. reply'.tool = "kubernetes" /\ reply'.words = ws /\ reply'.answer = a
  BY <1>1
<1>3. Error' = Error
  BY DEF Error
<1>4. ASSUME NEW n \in Name, NEW k \in DOMAIN Numeral
      PROVE  /\ ws = <<"get", "pod", n>> => Meant(a, "Pod", n, Default)
             /\ ws = <<"list", "pods">> => Meant(a, "PodList", None, Default)
             /\ ws = <<"get", "deploy", n>> => Meant(a, "Deployment", n, Default)
             /\ ws = <<"events">> => Meant(a, "EventList", None, Default)
             /\ ws = <<"events", n>> => Meant(a, "EventList", n, Default)
             /\ ws = <<"logs", n>> => Meant(a, "PodLog", n, Default)
  BY <1>1, FormsMean
<1> HIDE DEF a
<1> QED BY <1>1, <1>2, <1>3, <1>4 DEF Understood, Meant

LEMMA ProposeTextUnderstood ==
  ASSUME NEW ws \in Text, ProposeText(ws)
  PROVE  Understood'
<1> DEFINE a == Proposal(_parse(ws))
<1>1. reply' = [tool |-> "k8s_playbook", words |-> ws, answer |-> a]
  BY DEF ProposeText, Propose, Reply
<1>2. reply'.tool = "k8s_playbook" /\ reply'.words = ws /\ reply'.answer = a
  BY <1>1
<1>3. a.of = "PENDING_APPROVAL" /\ a.playbook = _parse(ws)
  BY DEF Proposal
<1>4. reply'.tool # "kubernetes"
  BY <1>2
<1> HIDE DEF a
<1>5. ASSUME NEW n \in Name, NEW k \in DOMAIN Numeral
      PROVE  /\ ws = <<"restart", "deploy", n>> =>
                  /\ a.of = "PENDING_APPROVAL" /\ a.playbook.action = "restart"
                  /\ a.playbook.name = n /\ a.playbook.replicas = None
             /\ ws = <<"scale", "deploy", n, k>> =>
                  /\ a.of = "PENDING_APPROVAL" /\ a.playbook.action = "scale"
                  /\ a.playbook.name = n /\ a.playbook.replicas = Numeral[k]
  <2>0. <<"restart", "deploy", n>> # <<"scale", "deploy", n, k>>
    OBVIOUS
  <2>1. CASE ws = <<"restart", "deploy", n>>
    <3>1. a.playbook = Query("restart", "deployment", n, None, None)
      BY <1>3, <2>1, FormsPropose
    <3> QED BY <1>3, <2>0, <2>1, <3>1 DEF Query
  <2>2. CASE ws = <<"scale", "deploy", n, k>>
    <3>1. a.playbook = Query("scale", "deployment", n, None, Numeral[k])
      BY <1>3, <2>2, FormsPropose
    <3> QED BY <1>3, <2>0, <2>2, <3>1 DEF Query
  <2> QED BY <2>1, <2>2
<1> QED BY <1>2, <1>4, <1>5 DEF Understood

LEMMA AskRaisesUnderstood ==
  ASSUME NEW ws \in Text, AskRaises(ws)
  PROVE  Understood'
<1>1. Raises(ws) /\ reply'.words = ws
  BY DEF AskRaises, Reply
<1> QED BY <1>1, FormsReturn DEF Understood

LEMMA AskIInv ==
  ASSUME IInv, NEW words, NEW q \in Queries, NEW up \in BOOLEAN, Ask(words, q, up), Understood'
  PROVE  IInv'
<1>1. TypeOK
  BY DEF IInv
<1>2. Reply("kubernetes", words, Answered(q, up)) /\ client # None /\ UNCHANGED <<client, cluster, diagnosis>>
  BY DEF Ask, Reply
<1>3. Answered(q, up) \in Answers
  BY <1>1, <1>2, AnsweredTrue
<1> QED BY <1>1, <1>2, <1>3, AnswerStep, ClusterStays

LEMMA ProposeIInv ==
  ASSUME IInv, NEW words, NEW q \in Queries, Propose(words, q), Understood'
  PROVE  IInv'
<1>1. TypeOK
  BY DEF IInv
<1>2. Reply("k8s_playbook", words, Proposal(q)) /\ UNCHANGED <<client, cluster, diagnosis>>
  BY DEF Propose
<1>3. Proposal(q) \in Proposals
  BY DEF Proposal, Proposals
<1> QED BY <1>1, <1>2, <1>3, AnswerStep, ClusterStays

LEMMA JsonType == Json \subseteq Queries
  BY KubernetesAssumption DEF Queries

LEMMA DoneType == ASSUME NEW q \in Json, ~Refused(q)
                  PROVE  Done(q) \in Answers
<1>1. q.name \in NameOrNone /\ Where(q.namespace) \in Namespace \cup {None} /\ q.replicas \in Int \cup {None}
      /\ None \in Int \cup {None}
  BY JsonType, WhereType DEF Queries, NameOrNone
<1>2. {} \in SUBSET (Name \cup {"demo-pod-0"})
  OBVIOUS
<1>3. Answer("DeploymentRestart", q.name, Where(q.namespace), None, {}) \in Answers
  BY <1>1, <1>2, AnswerType
<1>4. Answer("DeploymentScale", q.name, Where(q.namespace), q.replicas, {}) \in Answers
  BY <1>1, <1>2, AnswerType
<1> QED BY <1>3, <1>4 DEF Done

\* What a patch does to the cluster.
LEMMA PatchType == ASSUME TypeOK, NEW q \in Json, ~Refused(q), Patch(q)
                   PROVE  /\ replicas' \in [Object -> Nat \cup {None}]
                          /\ rollout' \in [Object -> BOOLEAN]
                          /\ \A o \in Object : replicas'[o] # replicas[o] => replicas'[o] \in 0..MaxReplicas
<1> DEFINE o == <<q.name, Where(q.namespace)>>
<1>1. o \in Object
  BY DEF Patch, Deployed
<1>2. CASE q.action = "restart"
  <2>1. rollout' = [rollout EXCEPT ![o] = ~@] /\ replicas' = replicas
    BY <1>2 DEF Patch
  <2> HIDE DEF o
  <2> QED BY <1>1, <2>1 DEF TypeOK
<1>3. CASE q.action # "restart"
  <2>1. replicas' = [replicas EXCEPT ![o] = q.replicas] /\ rollout' = rollout
    BY <1>3 DEF Patch
  <2>2. q.replicas \in 0..MaxReplicas
    BY <1>3 DEF Refused, InRange
  <2>3. q.replicas \in Nat
    BY <2>2, KubernetesAssumption
  <2> HIDE DEF o
  <2> QED BY <1>1, <2>1, <2>2, <2>3 DEF TypeOK
<1> QED BY <1>2, <1>3

LEMMA ExecutedIInv ==
  ASSUME IInv, NEW q \in Json, Refuse(q) \/ Pretend(q) \/ Apply(q) \/ ApplyFails(q)
  PROVE  IInv'
<1>1. TypeOK
  BY DEF IInv
<1>2. PICK a : Reply("k8s_playbook", None, a) /\ a \in {Error, Done(q)} /\ (~Refused(q) \/ a = Error)
  BY DEF Refuse, Pretend, Apply, ApplyFails
<1>3. a \in Answers
  BY <1>2, ErrorType, DoneType
<1>4. Understood'
  BY <1>2, Wordless DEF Reply
<1>5. UNCHANGED <<client, diagnosis>>
  BY DEF Refuse, Pretend, Apply, ApplyFails
<1>6. pods' \subseteq Object /\ replicas' \in [Object -> Nat \cup {None}] /\ rollout' \in [Object -> BOOLEAN]
  <2>1. CASE UNCHANGED cluster
    BY <1>1, <2>1, ClusterStays
  <2>2. CASE Apply(q)
    <3>1. pods' = pods /\ Patch(q) /\ ~Refused(q)
      BY <2>2 DEF Apply
    <3> QED BY <1>1, <3>1, PatchType DEF TypeOK
  <2> QED BY <2>1, <2>2 DEF Refuse, Pretend, ApplyFails
<1> QED BY <1>2, <1>3, <1>4, <1>5, <1>6, AnswerStep

LEMMA OthersIInv == ASSUME IInv, Others PROVE IInv'
<1>1. TypeOK
  BY DEF IInv
<1>2. PICK o \in Object :
         \/ /\ pods' = IF o \in pods THEN pods \ {o} ELSE pods \cup {o}
            /\ UNCHANGED <<replicas, rollout>>
         \/ /\ \E k \in Outside \cup {None} : replicas' = [replicas EXCEPT ![o] = k]
            /\ UNCHANGED <<pods, rollout>>
  BY DEF Others
<1>3. Outside \cup {None} \subseteq Nat \cup {None}
  BY KubernetesAssumption
<1>4. pods' \subseteq Object
  BY <1>1, <1>2 DEF TypeOK
<1>5. replicas' \in [Object -> Nat \cup {None}]
  BY <1>1, <1>2, <1>3 DEF TypeOK
<1>6. rollout' \in [Object -> BOOLEAN]
  BY <1>1, <1>2 DEF TypeOK
<1>7. UNCHANGED reply /\ UNCHANGED <<client, diagnosis>>
  BY DEF Others
<1> QED BY <1>4, <1>5, <1>6, <1>7, OtherStep

LEMMA TakeReplyIInv == ASSUME IInv, TakeReply PROVE IInv'
<1>1. TypeOK
  BY DEF IInv
<1>2. reply' = None /\ UNCHANGED <<client, cluster, diagnosis>>
  BY DEF TakeReply
<1> QED BY <1>1, <1>2, OtherStep, ClusterStays

LEMMA DiagnoseIInv == ASSUME IInv, NEW a \in Alert, Diagnose(a) PROVE IInv'
<1>1. TypeOK /\ client # None /\ reply = None /\ pc' = "collect" /\ alert' = a /\ evidence' = <<>>
      /\ UNCHANGED <<client, cluster, reply>>
  BY DEF IInv, Diagnose
<1>2. TypeOK'
  BY <1>1 DEF TypeOK, cluster
<1>3. Collecting'
  <2>1. Len(<<>>) = 0 /\ Len(Reads(a)) > 0
    BY DEF Reads
  <2> QED BY <1>1, <2>1 DEF Collecting
<1>4. Pieces'
  BY <1>1 DEF Pieces
<1>5. Understood'
  BY <1>1 DEF Understood
<1> QED BY <1>2, <1>3, <1>4, <1>5 DEF IInv

LEMMA CollectIInv == ASSUME IInv, NEW up \in BOOLEAN, Collect(up) PROVE IInv'
<1> DEFINE i == Len(evidence) + 1
           a == Answered(Reads(alert)[i], up)
<1>1. TypeOK /\ Collecting /\ Pieces /\ Understood
  BY DEF IInv
<1>2. /\ pc = "collect" /\ evidence' = Append(evidence, a)
      /\ pc' = IF a = Error \/ Len(evidence') = Len(Reads(alert)) THEN "done" ELSE "collect"
      /\ UNCHANGED <<client, cluster, reply, alert>>
  BY DEF Collect
<1>3. client \in {"mock", "cluster"} /\ alert \in Alert /\ Len(evidence) < Len(Reads(alert)) /\ evidence \in Seq(Answers)
  BY <1>1, <1>2, HasClient DEF Collecting, TypeOK
<1>4. Len(evidence) \in Nat /\ Len(Reads(alert)) \in {2, 3} /\ i \in DOMAIN Reads(alert)
  <2>1. Len(evidence) \in Nat
    BY <1>3
  <2>2. 1 \in DOMAIN Reads(alert)
    BY DEF Reads
  <2>3. Len(Reads(alert)) \in {2, 3} /\ DOMAIN Reads(alert) = 1..Len(Reads(alert))
    BY <1>3, <2>2, ReadsType
  <2> QED BY <1>3, <2>1, <2>3
<1>5. a \in Answers
  <2>1. Reads(alert)[i] \in Queries
    BY <1>3, <1>4, ReadsType
  <2>2. client # None
    BY <1>1, <1>2 DEF Collecting
  <2> QED BY <1>1, <2>1, <2>2, AnsweredTrue
<1>6. Meant(a, Told(alert, i), Subject(alert), Where(alert.namespace))
  BY <1>3, <1>4, ReadsMean
<1>7. Error.of = "error" /\ Told(alert, i) # "error"
  BY DEF Error, Told
<1> HIDE DEF a
<1>8. /\ evidence' \in Seq(Answers) /\ Len(evidence') = i /\ evidence'[i] = a
      /\ \A j \in 1..Len(evidence) : evidence'[j] = evidence[j]
  BY <1>2, <1>3, <1>4, <1>5
<1>9. TypeOK'
  BY <1>1, <1>2, <1>8 DEF TypeOK, cluster
<1>10. Collecting'
  <2>1. pc' \in {"collect", "done"} /\ alert' = alert /\ client' = client
    BY <1>2
  <2>2. client # None
    BY <1>1, <1>2 DEF Collecting
  <2>3. pc' = "collect" => Len(evidence') < Len(Reads(alert'))
    BY <1>2, <1>3, <1>4, <1>8
  <2>4. pc' = "done" => evidence'[Len(evidence')].of = "error" \/ Len(evidence') = Len(Reads(alert'))
    BY <1>2, <1>7, <1>8
  <2>5. Len(evidence') > 0
    BY <1>4, <1>8
  <2> QED BY <1>3, <2>1, <2>2, <2>3, <2>4, <2>5 DEF Collecting
<1>11. Pieces'
  <2> SUFFICES ASSUME NEW j \in DOMAIN evidence'
               PROVE  \/ evidence'[j].of = "error" /\ j = Len(evidence') /\ pc' = "done" /\ client' = "cluster"
                      \/ /\ evidence'[j].of = Told(alert', j)
                         /\ evidence'[j].name = Subject(alert')
                         /\ evidence'[j].namespace = Where(alert'.namespace)
    BY DEF Pieces, Told, Subject, About, Where
  <2>1. j \in 1..i /\ alert' = alert /\ client' = client
    BY <1>2, <1>8
  <2>2. CASE j = i
    <3>1. CASE a = Error /\ client = "cluster"
      BY <1>2, <1>7, <1>8, <2>1, <2>2, <3>1
    <3>2. CASE a.of = Told(alert, i) /\ a.name = Subject(alert) /\ a.namespace = Where(alert.namespace)
      BY <1>8, <2>1, <2>2, <3>2
    <3> QED BY <1>6, <3>1, <3>2 DEF Meant
  <2>3. CASE j # i
    <3>1. j \in 1..Len(evidence) /\ j \in DOMAIN evidence
      BY <1>3, <1>4, <2>1, <2>3
    <3>2. evidence'[j] = evidence[j]
      BY <1>8, <3>1
    <3>3. /\ evidence[j].of = Told(alert, j)
          /\ evidence[j].name = Subject(alert)
          /\ evidence[j].namespace = Where(alert.namespace)
      BY <1>1, <1>2, <3>1 DEF Pieces
    <3> QED BY <2>1, <3>2, <3>3
  <2> QED BY <2>2, <2>3
<1>12. Understood'
  BY <1>1, <1>2, UnderstoodStays
<1> QED BY <1>9, <1>10, <1>11, <1>12 DEF IInv

LEMMA StoreIInv == ASSUME IInv, Store PROVE IInv'
<1>1. /\ TypeOK /\ Collecting /\ Understood
      /\ pc = "done" /\ pc' = "idle" /\ alert' = None /\ evidence' = <<>> /\ UNCHANGED <<client, cluster, reply>>
  BY DEF IInv, Store
<1>2. TypeOK'
  <2>1. pods' = pods /\ replicas' = replicas /\ rollout' = rollout /\ client' = client /\ reply' = reply
    BY <1>1 DEF cluster
  <2>2. <<>> \in Seq(Answers)
    OBVIOUS
  <2> QED BY <1>1, <2>1, <2>2 DEF TypeOK
<1>3. Collecting'
  BY <1>1 DEF Collecting
<1>4. Pieces'
  BY <1>1 DEF Pieces
<1>5. Understood'
  BY <1>1, UnderstoodStays
<1> QED BY <1>2, <1>3, <1>4, <1>5 DEF IInv

LEMMA InitClientsIInv == ASSUME IInv, NEW mode, NEW ok \in BOOLEAN, InitClients(mode, ok) PROVE IInv'
<1>1. /\ TypeOK /\ Collecting /\ Pieces /\ client = None
      /\ client' \in {"mock", "cluster"} /\ UNCHANGED <<cluster, reply, diagnosis>>
  BY DEF IInv, InitClients
<1>2. reply = None /\ pc = "idle" /\ evidence = <<>>
  BY <1>1 DEF Collecting, TypeOK
<1>3. TypeOK'
  BY <1>1 DEF TypeOK, cluster, diagnosis
<1>4. Collecting'
  BY <1>1, <1>2 DEF Collecting, diagnosis
<1>5. Pieces'
  BY <1>1, <1>2 DEF Pieces, diagnosis
<1>6. Understood'
  BY <1>1, <1>2 DEF Understood
<1> QED BY <1>3, <1>4, <1>5, <1>6 DEF IInv

LEMMA RestartIInv == ASSUME IInv, Restart PROVE IInv'
<1>1. /\ TypeOK /\ client' = None /\ reply' = None /\ alert' = None /\ evidence' = <<>> /\ pc' = "idle"
      /\ UNCHANGED cluster
  BY DEF IInv, Restart
<1>2. TypeOK'
  BY <1>1 DEF TypeOK, cluster
<1>3. Collecting' /\ Pieces' /\ Understood'
  BY <1>1 DEF Collecting, Pieces, Understood
<1> QED BY <1>2, <1>3 DEF IInv
-----------------------------------------------------------------------------
LEMMA NextIInv == ASSUME IInv, [Next]_vars PROVE IInv'
<1>1. TypeOK
  BY DEF IInv
<1>2. ASSUME NEW mode, NEW ok \in BOOLEAN, InitClients(mode, ok) PROVE IInv'
  BY <1>2, InitClientsIInv
<1>3. ASSUME NEW up \in BOOLEAN, Collect(up) PROVE IInv'
  BY <1>3, CollectIInv
<1>4. ASSUME NEW ws \in Text, NEW up \in BOOLEAN, AskText(ws, up) PROVE IInv'
  <2>1. parse_k8s_query(ws) \in Queries /\ Ask(ws, parse_k8s_query(ws), up)
    BY <1>4, ParseType DEF AskText
  <2>2. Understood'
    BY <1>1, <1>4, AskTextUnderstood
  <2> QED BY <2>1, <2>2, AskIInv
<1>5. ASSUME NEW ws \in Text, AskRaises(ws) PROVE IInv'
  <2>1. PICK tool : Reply(tool, ws, Error)
    BY <1>5 DEF AskRaises
  <2>2. UNCHANGED <<client, cluster, diagnosis>>
    BY <1>5 DEF AskRaises
  <2>3. Understood'
    BY <1>5, AskRaisesUnderstood
  <2> QED BY <1>1, <2>1, <2>2, <2>3, ErrorType, AnswerStep, ClusterStays
<1>6. ASSUME NEW ws \in Text, ProposeText(ws) PROVE IInv'
  <2>1. _parse(ws) \in Queries /\ Propose(ws, _parse(ws))
    BY <1>6, PlaybookType DEF ProposeText
  <2>2. Understood'
    BY <1>6, ProposeTextUnderstood
  <2> QED BY <2>1, <2>2, ProposeIInv
<1>7. ASSUME NEW q \in Json, NEW up \in BOOLEAN, Ask(None, q, up) PROVE IInv'
  <2>1. q \in Queries
    BY JsonType
  <2>2. Understood'
    BY <1>7, Wordless DEF Ask, Reply
  <2> QED BY <1>7, <2>1, <2>2, AskIInv
<1>8. ASSUME NEW q \in Json, ProposeJson(q) PROVE IInv'
  <2>1. q \in Queries /\ Propose(None, q)
    BY <1>8, JsonType DEF ProposeJson
  <2>2. Understood'
    BY <2>1, Wordless DEF Propose, Reply
  <2> QED BY <2>1, <2>2, ProposeIInv
<1>9. ASSUME NEW q \in Json, Refuse(q) \/ Pretend(q) \/ Apply(q) \/ ApplyFails(q) PROVE IInv'
  BY <1>9, ExecutedIInv
<1>10. ASSUME NEW a \in Alert, Diagnose(a) PROVE IInv'
  BY <1>10, DiagnoseIInv
<1>11. CASE TakeReply
  BY <1>11, TakeReplyIInv
<1>12. CASE Store
  BY <1>12, StoreIInv
<1>13. CASE Restart
  BY <1>13, RestartIInv
<1>14. CASE Others
  BY <1>14, OthersIInv
<1>15. CASE UNCHANGED vars
  <2>1. UNCHANGED <<client, reply, cluster, diagnosis>>
    BY <1>15 DEF vars
  <2> QED BY <1>1, <2>1, OtherStep, ClusterStays
<1> QED BY <1>2, <1>3, <1>4, <1>5, <1>6, <1>7, <1>8, <1>9, <1>10, <1>11, <1>12, <1>13, <1>14, <1>15 DEF Next
-----------------------------------------------------------------------------
\* Every variable keeps its type.
THEOREM TypeCorrect == Spec => []TypeOK
<1>1. IInv => TypeOK
  BY DEF IInv
<1> QED BY <1>1, InitIInv, NextIInv, PTL DEF Spec

\* A form that the docstring of parse_k8s_query lists is understood, for every
\* name that is no word of the language and for any other queries meanwhile.
THEOREM FormsUnderstood == Spec => []Understood
<1>1. IInv => Understood
  BY DEF IInv
<1> QED BY <1>1, InitIInv, NextIInv, PTL DEF Spec

\* _collect_evidence collects what its alert is about, all of it or up to the
\* first error.
THEOREM EvidenceIsFitting == Spec => []EvidenceFits
<1>1. IInv => EvidenceFits
  <2> SUFFICES ASSUME IInv PROVE EvidenceFits
    OBVIOUS
  <2>1. TypeOK /\ Collecting /\ Pieces
    BY DEF IInv
  <2>2. \A i \in DOMAIN evidence :
           LET a == evidence[i]
           IN  IF a.of = "error" THEN i = Len(evidence) /\ pc = "done" /\ client = "cluster"
               ELSE /\ a.namespace = Where(alert.namespace)
                    /\ a.name = IF About(alert, Pods \cup Deployments) THEN alert.resource ELSE None
    <3>1. \A i \in DOMAIN evidence : Told(alert, i) # "error"
      BY DEF Told
    <3> QED BY <2>1, <3>1 DEF Pieces, Subject
  <2>3. ASSUME pc = "done", evidence[Len(evidence)].of # "error"
        PROVE  /\ About(alert, Pods) => evidence[1].of = "Pod" /\ evidence[3].of = "PodLog"
               /\ About(alert, Deployments) => evidence[1].of = "Deployment"
               /\ ~About(alert, Pods \cup Deployments) => evidence[1].of = "PodList"
               /\ evidence[2].of = "EventList"
    <3>1. Len(evidence) = Len(Reads(alert)) /\ alert \in Alert /\ evidence \in Seq(Answers)
      BY <2>1, <2>3 DEF Collecting, TypeOK
    <3>2. 1 \in DOMAIN Reads(alert)
      BY DEF Reads
    <3>3. Len(evidence) = (IF About(alert, Pods) THEN 3 ELSE 2) /\ DOMAIN evidence = 1..Len(evidence)
      <4>1. Len(Reads(alert)) = (IF About(alert, Pods) THEN 3 ELSE 2)
        BY <3>1, <3>2, ReadsType
      <4>2. DOMAIN evidence = 1..Len(evidence)
        BY <3>1
      <4> QED BY <3>1, <4>1, <4>2
    <3>4. \A i \in DOMAIN evidence : evidence[i].of = Told(alert, i)
      BY <2>1, <2>3 DEF Pieces
    <3>5. 1 \in DOMAIN evidence /\ 2 \in DOMAIN evidence /\ (About(alert, Pods) => 3 \in DOMAIN evidence)
      BY <3>3
    <3>6. About(alert, Deployments) => ~About(alert, Pods)
      BY DEF About, Pods, Deployments
    <3>7. ~About(alert, Pods \cup Deployments) => ~About(alert, Pods) /\ ~About(alert, Deployments)
      BY DEF About
    <3> QED BY <3>4, <3>5, <3>6, <3>7 DEF Told
  <2> QED BY <2>2, <2>3 DEF EvidenceFits
<1> QED BY <1>1, InitIInv, NextIInv, PTL DEF Spec

\* What an answer tells was so in the cluster.
THEOREM AnswersTrue == Spec => AnswersAreTrue
<1>1. ASSUME NEW words, NEW q \in Queries, NEW up \in BOOLEAN, TypeOK, Ask(words, q, up) PROVE AnswerIsTrue
  <2>1. reply'.answer = Answered(q, up) /\ client # None
    BY <1>1 DEF Ask, Reply
  <2>2. TrueAnswer(Answered(q, up))
    BY <1>1, <2>1, AnsweredTrue
  <2> QED BY <2>1, <2>2 DEF TrueAnswer, AnswerIsTrue
<1>2. ASSUME reply'.answer = Error PROVE AnswerIsTrue
  BY <1>2 DEF Error, AnswerIsTrue
<1>3. ASSUME NEW words, NEW q, Propose(words, q) PROVE AnswerIsTrue
  <2>1. reply'.answer = Proposal(q)
    BY <1>3 DEF Propose, Reply
  <2> QED BY <2>1 DEF Proposal, AnswerIsTrue
<1>4. ASSUME NEW q, Pretend(q) PROVE AnswerIsTrue
  <2>1. reply'.answer = Done(q) /\ client = "mock"
    BY <1>4 DEF Pretend, Reply
  <2>2. Done(q).mock = Mark
    BY DEF Done, Answer
  <2> QED BY <2>1, <2>2 DEF Mark, AnswerIsTrue
<1>5. ASSUME NEW q, TypeOK, Apply(q), reply'.answer = Done(q) PROVE AnswerIsTrue
  <2> DEFINE o == <<q.name, Where(q.namespace)>>
  <2>1. client = "cluster" /\ ~Mark /\ Patch(q) /\ ~Refused(q)
    BY <1>5 DEF Apply, Mark
  <2>2. o \in Object
    BY <2>1 DEF Patch, Deployed
  <2>3. CASE q.action = "restart"
    <3>1. rollout' = [rollout EXCEPT ![o] = ~@]
      BY <2>1, <2>3 DEF Patch
    <3>2. rollout'[o] # rollout[o]
      BY <1>5, <2>2, <3>1 DEF TypeOK
    <3>3. Done(q) = Answer("DeploymentRestart", q.name, Where(q.namespace), None, {})
      BY <2>3 DEF Done
    <3> QED BY <1>5, <2>1, <3>2, <3>3 DEF Answer, AnswerIsTrue
  <2>4. CASE q.action # "restart"
    <3>1. replicas' = [replicas EXCEPT ![o] = q.replicas]
      BY <2>1, <2>4 DEF Patch
    <3>2. replicas'[o] = q.replicas
      BY <1>5, <2>2, <3>1 DEF TypeOK
    <3>3. Done(q) = Answer("DeploymentScale", q.name, Where(q.namespace), q.replicas, {})
      BY <2>4 DEF Done
    <3> QED BY <1>5, <2>1, <3>2, <3>3 DEF Answer, AnswerIsTrue
  <2> QED BY <2>3, <2>4
<1>6. ASSUME UNCHANGED reply \/ reply' = None PROVE AnswerIsTrue
  BY <1>6 DEF AnswerIsTrue
<1>7. ASSUME TypeOK, [Next]_vars PROVE AnswerIsTrue
  <2>1. ASSUME NEW mode, NEW ok \in BOOLEAN, InitClients(mode, ok) PROVE AnswerIsTrue
    BY <1>6, <2>1 DEF InitClients
  <2>2. ASSUME NEW up \in BOOLEAN, Collect(up) PROVE AnswerIsTrue
    BY <1>6, <2>2 DEF Collect
  <2>3. ASSUME NEW ws \in Text, NEW up \in BOOLEAN, AskText(ws, up) PROVE AnswerIsTrue
    BY <1>1, <1>7, <2>3, ParseType DEF AskText
  <2>4. ASSUME NEW ws \in Text, AskRaises(ws) PROVE AnswerIsTrue
    BY <1>2, <2>4 DEF AskRaises, Reply
  <2>5. ASSUME NEW ws \in Text, ProposeText(ws) PROVE AnswerIsTrue
    BY <1>3, <2>5 DEF ProposeText
  <2>6. ASSUME NEW q \in Json, NEW up \in BOOLEAN, Ask(None, q, up) PROVE AnswerIsTrue
    BY <1>1, <1>7, <2>6, JsonType
  <2>7. ASSUME NEW q \in Json, ProposeJson(q) PROVE AnswerIsTrue
    BY <1>3, <2>7 DEF ProposeJson
  <2>8. ASSUME NEW q \in Json, Refuse(q) PROVE AnswerIsTrue
    BY <1>2, <2>8 DEF Refuse, Reply
  <2>9. ASSUME NEW q \in Json, Pretend(q) PROVE AnswerIsTrue
    BY <1>4, <2>9
  <2>10. ASSUME NEW q \in Json, Apply(q) PROVE AnswerIsTrue
    <3>1. reply'.answer = Done(q) \/ reply'.answer = Error
      BY <2>10 DEF Apply, Reply
    <3> QED BY <1>2, <1>5, <1>7, <2>10, <3>1
  <2>11. ASSUME NEW q \in Json, ApplyFails(q) PROVE AnswerIsTrue
    BY <1>2, <2>11 DEF ApplyFails, Reply
  <2>12. ASSUME NEW a \in Alert, Diagnose(a) PROVE AnswerIsTrue
    BY <1>6, <2>12 DEF Diagnose
  <2>13. CASE TakeReply \/ Store \/ Restart \/ Others \/ UNCHANGED vars
    BY <1>6, <2>13 DEF TakeReply, Store, Restart, Others, vars
  <2> QED BY <1>7, <2>1, <2>2, <2>3, <2>4, <2>5, <2>6, <2>7, <2>8, <2>9, <2>10, <2>11, <2>12, <2>13 DEF Next
<1>8. Spec => [][AnswerIsTrue]_vars
  <2>1. TypeOK /\ [Next]_vars => [AnswerIsTrue]_vars
    BY <1>7
  <2> QED BY <2>1, TypeCorrect, PTL DEF Spec
<1> QED BY <1>8 DEF AnswersAreTrue

\* A query changes what its answer tells and nothing else, and no deployment
\* is given a size out of range.
THEOREM ChangedAsTold == Spec => ChangesAsTold
<1> DEFINE A == reply = None /\ reply' # None =>
                  LET a == reply'.answer
                  IN  /\ a.mock \/ a.of = "PENDING_APPROVAL" \/ reply'.tool = "kubernetes" => UNCHANGED cluster
                      /\ a.of = "DeploymentScale" =>
                            replicas' = [replicas EXCEPT ![<<a.name, a.namespace>>] = a.replicas] \/ a.mock
                      /\ \A o \in Object : replicas'[o] # replicas[o] => replicas'[o] \in 0..MaxReplicas
<1>1. ASSUME UNCHANGED cluster, reply'.answer.of # "DeploymentScale" \/ reply'.answer.mock PROVE A
  <2>1. replicas' = replicas
    BY <1>1 DEF cluster
  <2> QED BY <1>1, <2>1
<1>2. ASSUME NEW q \in Json, TypeOK, Apply(q) PROVE A
  <2>1. ~Refused(q) /\ Patch(q) /\ reply'.tool = "k8s_playbook" /\ ~Mark
    BY <1>2 DEF Apply, Reply, Mark
  <2>2. reply'.answer = Done(q) \/ reply'.answer = Error
    BY <1>2 DEF Apply, Reply
  <2>3. \A o \in Object : replicas'[o] # replicas[o] => replicas'[o] \in 0..MaxReplicas
    BY <1>2, <2>1, PatchType
  <2>4. CASE reply'.answer = Error
    BY <2>1, <2>3, <2>4 DEF Error
  <2>5. CASE reply'.answer = Done(q) /\ q.action = "restart"
    <3>1. Done(q).mock = Mark /\ Done(q).of = "DeploymentRestart"
      BY <2>5 DEF Done, Answer
    <3> QED BY <2>1, <2>3, <2>5, <3>1
  <2>6. CASE reply'.answer = Done(q) /\ q.action # "restart"
    <3>1. /\ Done(q).mock = Mark /\ Done(q).of = "DeploymentScale"
          /\ Done(q).name = q.name /\ Done(q).namespace = Where(q.namespace) /\ Done(q).replicas = q.replicas
      BY <2>6 DEF Done, Answer
    <3>2. replicas' = [replicas EXCEPT ![<<q.name, Where(q.namespace)>>] = q.replicas]
      BY <2>1, <2>6 DEF Patch
    <3> QED BY <2>1, <2>3, <2>6, <3>1, <3>2
  <2> QED BY <2>2, <2>4, <2>5, <2>6
<1>3. ASSUME UNCHANGED reply \/ reply' = None PROVE A
  BY <1>3
<1> HIDE DEF A
<1>4. ASSUME NEW words, NEW q \in Queries, NEW up \in BOOLEAN, TypeOK, Ask(words, q, up) PROVE A
  <2>1. reply'.answer = Answered(q, up) /\ client # None /\ UNCHANGED cluster
    BY <1>4 DEF Ask, Reply
  <2>2. TrueAnswer(Answered(q, up))
    BY <1>4, <2>1, AnsweredTrue
  <2>3. reply'.answer.of # "DeploymentScale"
    BY <2>1, <2>2 DEF TrueAnswer
  <2> QED BY <1>1, <2>1, <2>3
<1>5. ASSUME UNCHANGED cluster, reply'.answer = Error PROVE A
  <2>1. reply'.answer.of = "error"
    BY <1>5 DEF Error
  <2> QED BY <1>1, <1>5, <2>1
<1>6. ASSUME NEW words, NEW q, Propose(words, q) PROVE A
  <2>1. reply'.answer.of = "PENDING_APPROVAL" /\ UNCHANGED cluster
    BY <1>6 DEF Propose, Reply, Proposal
  <2> QED BY <1>1, <2>1
<1>7. ASSUME TypeOK, [Next]_vars PROVE A
  <2>1. ASSUME NEW mode, NEW ok \in BOOLEAN, InitClients(mode, ok) PROVE A
    BY <1>3, <2>1 DEF InitClients
  <2>2. ASSUME NEW up \in BOOLEAN, Collect(up) PROVE A
    BY <1>3, <2>2 DEF Collect
  <2>3. ASSUME NEW ws \in Text, NEW up \in BOOLEAN, AskText(ws, up) PROVE A
    BY <1>4, <1>7, <2>3, ParseType DEF AskText
  <2>4. ASSUME NEW ws \in Text, AskRaises(ws) PROVE A
    BY <1>5, <2>4 DEF AskRaises, Reply
  <2>5. ASSUME NEW ws \in Text, ProposeText(ws) PROVE A
    BY <1>6, <2>5 DEF ProposeText
  <2>6. ASSUME NEW q \in Json, NEW up \in BOOLEAN, Ask(None, q, up) PROVE A
    BY <1>4, <1>7, <2>6, JsonType
  <2>7. ASSUME NEW q \in Json, ProposeJson(q) PROVE A
    BY <1>6, <2>7 DEF ProposeJson
  <2>8. ASSUME NEW q \in Json, Refuse(q) PROVE A
    BY <1>5, <2>8 DEF Refuse, Reply
  <2>9. ASSUME NEW q \in Json, Pretend(q) PROVE A
    <3>1. reply'.answer = Done(q) /\ Mark /\ UNCHANGED cluster
      BY <2>9 DEF Pretend, Reply, Mark
    <3>2. Done(q).mock = Mark
      BY DEF Done, Answer
    <3> QED BY <1>1, <3>1, <3>2
  <2>10. ASSUME NEW q \in Json, Apply(q) PROVE A
    BY <1>2, <1>7, <2>10
  <2>11. ASSUME NEW q \in Json, ApplyFails(q) PROVE A
    BY <1>5, <2>11 DEF ApplyFails, Reply
  <2>12. ASSUME NEW a \in Alert, Diagnose(a) PROVE A
    BY <1>3, <2>12 DEF Diagnose
  <2>13. CASE TakeReply \/ Store \/ Restart \/ Others \/ UNCHANGED vars
    BY <1>3, <2>13 DEF TakeReply, Store, Restart, Others, vars
  <2> QED BY <1>7, <2>1, <2>2, <2>3, <2>4, <2>5, <2>6, <2>7, <2>8, <2>9, <2>10, <2>11, <2>12, <2>13 DEF Next
<1>8. Spec => [][A]_vars
  <2>1. TypeOK /\ [Next]_vars => [A]_vars
    BY <1>7
  <2> QED BY <2>1, TypeCorrect, PTL DEF Spec
<1> QED BY <1>8 DEF A, ChangesAsTold
=============================================================================
