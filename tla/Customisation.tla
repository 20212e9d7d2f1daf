--------------------------- MODULE Customisation ---------------------------
(***************************************************************************)
(* What one pass makes of the objects in Cfg.Objs: the chain of update     *)
(* functions of update_objects.go, which writes the spec of the CR into    *)
(* the three Deployments and the network policy of the webhooks in memory, *)
(* and what sFnApply adds to the copy it sends.  Pure operators; the       *)
(* objects live in ManagerProcess.                                         *)
(*                                                                         *)
(* A command-line argument is a record of its flag and value, and an       *)
(* environment variable one of its name and value.  The spec of a CR gives *)
(* each Deployment a logging configuration, Istio, pod annotations and     *)
(* resources, and all of them the environment; Nil is a part left out.     *)
(***************************************************************************)
EXTENDS Naturals, Sequences, Functions, SequencesExt

CONSTANT Nil

Operator == "keda-operator"
MetricsServer == "keda-operator-metrics-apiserver"
AdmissionWebhooks == "keda-admission-webhooks"
Deployments == {Operator, MetricsServer, AdmissionWebhooks}

Pair(name, value) == [name |-> name, value |-> value]
Names(pairs) == {p.name : p \in Range(pairs)}

-----------------------------------------------------------------------------
(* Arguments: LoggingCommonCfg is the ArgUpdater of all three.             *)

\* LoggingCommonCfg.list, with what String gives for a property left out.
LogFlags == <<"zap-log-level", "zap-encoder", "zap-time-encoding">>
Zero(flag) ==
  CASE flag = "zap-log-level" -> "info"
    [] flag = "zap-encoder" -> "console"
    [] flag = "zap-time-encoding" -> "rfc3339"

String(cfg, flag) == IF cfg[flag] = Nil THEN Zero(flag) ELSE cfg[flag]

\* LoggingCommonCfg.Sanitize
SanitizeLogging(cfg) == [cfg EXCEPT !["zap-encoder"] = IF @ = "text" THEN "console" ELSE @]

\* AppendMissingArgs, one turn of its loop over the properties and all of them.
MissingArg(cfg, args, flag) ==
  IF flag \in Names(args) THEN <<>> ELSE <<Pair(flag, String(cfg, flag))>>
MissingArgs(cfg, args) ==
  MissingArg(cfg, args, LogFlags[1]) \o MissingArg(cfg, args, LogFlags[2])
    \o MissingArg(cfg, args, LogFlags[3])

\* updateDeploymentContainer0Args: UpdateArg on every argument, then the rest.
UpdateArgs(cfg, args) ==
  [i \in DOMAIN args |-> IF args[i].name \in Range(LogFlags)
                         THEN Pair(args[i].name, String(cfg, args[i].name)) ELSE args[i]]
    \o MissingArgs(cfg, args)

\* Mutant of LogToStderr: the default of the format is not considered.
LogToStderrIfConsole(cfg) == IF cfg["zap-encoder"] = "console" THEN "true" ELSE "false"

\* --logtostderr makes the metrics server ignore its encoder.
LogToStderr(cfg) == IF cfg["zap-encoder"] = "json" THEN "false" ELSE "true"

\* updateMetricsServerLogToStderr: the first such argument, or a new one.
UpdateLogToStderr(cfg, args) ==
  LET at == {i \in DOMAIN args : args[i].name = "logtostderr"}
  IN IF at = {} THEN Append(args, Pair("logtostderr", LogToStderr(cfg)))
     ELSE [args EXCEPT ![CHOOSE i \in at : \A j \in at : i <= j].value = LogToStderr(cfg)]

UpdatedArgs(d, cfg, args) ==
  CASE cfg = Nil -> args
    [] cfg # Nil /\ d = MetricsServer ->
         UpdateArgs(SanitizeLogging(cfg), UpdateLogToStderr(SanitizeLogging(cfg), args))
    [] OTHER -> UpdateArgs(SanitizeLogging(cfg), args)

-----------------------------------------------------------------------------
(* The other parts of a Deployment.                                        *)

\* EnvVars.zero
RequiredEnv ==
  <<Pair("WATCH_NAMESPACE", ""), Pair("POD_NAME", "metadata.name"),
    Pair("POD_NAMESPACE", "metadata.namespace"), Pair("OPERATOR_NAME", "keda-operator"),
    Pair("KEDA_HTTP_DEFAULT_TIMEOUT", "3000"), Pair("KEDA_HTTP_MIN_TLS_VERSION", "TLS12")>>

\* EnvVars.Sanitize: the user's, then the required ones the user did not name.
RequiredSoFar(env) ==
  LET required[i \in 0 .. Len(RequiredEnv)] ==
        CASE i = 0 -> <<>>
          [] i > 0 /\ RequiredEnv[i].name \in Names(env) -> required[i - 1]
          [] OTHER -> Append(required[i - 1], RequiredEnv[i])
  IN required
SanitizedEnv(env) == env \o RequiredSoFar(env)[Len(RequiredEnv)]

\* Mutant of UpdatedEnv: the variables are added to those of the container.
UpdatedEnvAdded(d, env, spec) ==
  IF d = AdmissionWebhooks THEN env ELSE env \o SanitizedEnv(spec.env)

\* updateKedaContanierEnvs; that of the webhooks is left as it is.
UpdatedEnv(d, env, spec) == IF d = AdmissionWebhooks THEN env ELSE SanitizedEnv(spec.env)

\* istio...Cfg; the webhooks never get a sidecar.
SidecarInjection(d, spec) == d # AdmissionWebhooks /\ spec.istio[d]

ExcludedPorts == "traffic.sidecar.istio.io/excludeInboundPorts"

\* podAnnotations...Cfg; the metrics server keeps its port out of the mesh.
PodAnnotations(d, spec) ==
  LET own == [k \in {x \in {ExcludedPorts} : d = MetricsServer /\ spec.istio[d]} |-> "6443"]
      user == spec.annotations[d]
  IN [k \in DOMAIN own \cup DOMAIN user |-> IF k \in DOMAIN user THEN user[k] ELSE own[k]]

\* updateDeploymentAnnotations: keys are added or replaced, never removed.
MergeAnnotations(existing, new) ==
  [k \in DOMAIN existing \cup DOMAIN new |-> IF k \in DOMAIN new THEN new[k] ELSE existing[k]]

\* The chain over Deployment d, whose template in memory is u.
UpdateDeployment(d, u, spec) ==
  [u EXCEPT
     !.args = UpdatedArgs(d, spec.logging[d], @),
     !.sidecar = SidecarInjection(d, spec),
     !.annotations = MergeAnnotations(@, PodAnnotations(d, spec)),
     !.priorityClass = "keda-priority-class",
     !.resources = IF spec.resources[d] = Nil THEN @ ELSE spec.resources[d],
     !.env = UpdatedEnv(d, @, spec)]

\* updateAdmissionWebhooksNetworkPolicy: the address is filled in once.
UpdateNetworkPolicy(from, address) == IF from = Nil THEN address ELSE from

\* updateImageIfOverride: overrides maps the names of images, plain and FIPS.
Image(d, shipped, overrides, fips) ==
  IF overrides[<<d, fips>>] = Nil THEN shipped ELSE overrides[<<d, fips>>]

=============================================================================
