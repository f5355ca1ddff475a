----------------------------- MODULE MCKubernetes -----------------------------
(* Instances of Kubernetes for TLC. *)
EXTENDS Kubernetes, TLC

MCName == {"web"}
MCToken == Verb \cup DOMAIN kind_aliases \cup {"web", "2", "9", "my-pod", "restarting", "scaled", "node"}
MCNamespace == {"default", "ops"}
MCNumeral == ("2" :> 2) @@ ("9" :> 9)

\* What may follow the first word.
MCRest == {"pod", "deploy", "web", "2"}
MCText == {<<>>}
     \cup {<<v>> : v \in Verb \cup {"web", "restarting"}}
     \cup {<<v, w>> : v \in Verb \ {"describe"}, w \in MCRest \cup {"pods", "logs", "my-pod"}}
     \cup {<<v, w, x>> : v \in (Verb \ {"list", "describe"}) \cup {"scaled"}, w \in MCRest, x \in MCRest}
     \cup {<<"scale", w, x, y>> : w \in {"deploy", "web"}, x \in {"web", "2"}, y \in {"web", "2", "9"}}

\* A count matters to a playbook only.
MCJson == {q \in [action : {"get", "list", "events", "logs", "restart", "scale", None},
                  kind : {"pod", "deployment"}, name : {"web", None}, namespace : {"ops", None},
                  replicas : {-1, 1, 9, None}, approved : BOOLEAN] :
             q.replicas # None => q.action = "scale" /\ q.kind = "deployment"}
MCAlert == [resource_kind : {"pod", "deployment", "node"}, resource : {"web", None},
            namespace : {"ops", None}]
=============================================================================
