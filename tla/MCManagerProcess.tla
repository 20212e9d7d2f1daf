-------------------------- MODULE MCManagerProcess --------------------------
(***************************************************************************)
(* An instance of ManagerProcess for TLC: two processes, a manifest of two *)
(* files with an empty document and a CRD out of order, and two specs.     *)
(***************************************************************************)
EXTENDS ManagerProcess, TLC

CONSTANTS m1, m2

Doc(kind, apiVersion, name) == [kind |-> kind, apiVersion |-> apiVersion, name |-> name]
Crd(name) == Doc("CustomResourceDefinition", "apiextensions.k8s.io/v1", name)
Deployment(name) == Doc("Deployment", "apps/v1", name)

MCPaths ==
  << <<Deployment(AdmissionWebhooks)>>,
     <<Nil, Deployment(MetricsServer), Crd("scaledobjects")>> >>

NoAnnotations == [k \in {} |-> ""]
LogArgs == <<Pair("zap-log-level", "info"), Pair("zap-encoder", "json"),
             Pair("zap-time-encoding", "rfc3339")>>

Template(args, env) ==
  [args |-> args, sidecar |-> FALSE, annotations |-> NoAnnotations, priorityClass |-> "",
   resources |-> "shipped", env |-> env, image |-> "shipped"]

MCShipped ==
  [o \in ObjNames |->
     CASE o = MetricsServer -> Template(<<Pair("logtostderr", "true")>> \o LogArgs,
                                        <<Pair("KEDA_SERVICE_MIN_TLS_VERSION", "TLS13")>>)
       [] o = AdmissionWebhooks -> Template(LogArgs, <<Pair("WATCH_NAMESPACE", "")>>)
       [] OTHER -> Nil]

Log(level, format) ==
  ("zap-log-level" :> level) @@ ("zap-encoder" :> format) @@ ("zap-time-encoding" :> Nil)

For(metrics, webhooks) ==
  [d \in Deployments |-> IF d = MetricsServer THEN metrics ELSE webhooks]

Json ==
  [logging |-> For(Log(Nil, "json"), Log("debug", "text")),
   istio |-> For(TRUE, TRUE),
   annotations |-> For("team" :> "a", NoAnnotations),
   resources |-> For("large", Nil),
   env |-> <<Pair("KEDA_HTTP_MIN_TLS_VERSION", "TLS13")>>]
Level ==
  [logging |-> For(Log("error", Nil), Nil),
   istio |-> For(FALSE, FALSE),
   annotations |-> For("team" :> "b", "team" :> "b"),
   resources |-> For(Nil, "small"),
   env |-> <<Pair("EXTRA", "1")>>]

MCSpecs == {Json, Level}

MCOverrides == [x \in Deployments \X BOOLEAN |-> IF x[1] = MetricsServer /\ x[2] THEN "fips" ELSE Nil]
=============================================================================
