--------------------------- MODULE ManagerProcess ---------------------------
(***************************************************************************)
(* The processes that run keda-manager (main.go): each loads the manifest, *)
(* registers its watches, waits for the leader lease and then runs passes  *)
(* over one Keda CR with the manifest in its memory.  Uninstallation       *)
(* deletes the lease among the managed objects, so two processes may lead  *)
(* at the same time, each with a memory of its own.                        *)
(*                                                                         *)
(* Leader election is client-go's.  Time counts its retry periods: a       *)
(* leader tries to renew once in each, and ends when RenewDeadline periods *)
(* have passed since it last did; others may take the lease when it was    *)
(* not renewed for LeaseDuration periods, or is not there.  A pass is      *)
(* KedaManager's, reduced to what it does to the Deployments.              *)
(***************************************************************************)
EXTENDS Customisation

CONSTANTS
  Managers,       \* processes, of one or of several pods
  NoHolder,       \* the lease is not there
  LeaseDuration, RenewDeadline,
  Paths,          \* the documents of each manifest file
  Shipped,        \* content of each object as loaded
  WebhookPolicy,  \* name of the network policy with purpose "webhook"
  Specs,          \* specs a user may write
  Overrides, Fips, Address, \* environment of the processes
  MaxEdits, MaxFailures     \* bounds

ASSUME TimesAssumption ==
  /\ LeaseDuration \in Nat /\ RenewDeadline \in Nat
  /\ 0 < RenewDeadline /\ RenewDeadline < LeaseDuration
ASSUME HolderAssumption == NoHolder \notin Managers
ASSUME PolicyAssumption == WebhookPolicy \notin Deployments

\* What a user may write as logging: values of LoggingCommonCfg, or nothing.
Logging == [Range(LogFlags) -> STRING \cup {Nil}]
Args == [name : STRING, value : STRING]
ASSUME SpecsAssumption ==
  /\ Nil # "json"
  /\ \A s \in Specs : s # Nil =>
       /\ \A d \in Deployments : s.logging[d] \in Logging \cup {Nil}
       /\ s.env \in Seq(Args)

VARIABLES
  phase,     \* of each process
  objs,      \* Cfg.Objs: the loaded objects in order
  held,      \* and their contents
  watched,   \* kinds a watch is registered for, in order
  dirty,     \* the CR is in the work queue of the process
  todo,      \* what sFnApply has left to do
  failed,    \* the objects whose Patch failed in its last loop; isError: some did
  lease,     \* who holds the lease
  age,       \* periods since the lease was renewed
  renewed,   \* periods since the process renewed the lease
  tried,     \* the process tried to renew it in this period
  sinceDel,  \* periods since an uninstallation deleted the lease
  spec,      \* of the CR; Nil: no CR
  deleting,  \* the CR is being deleted
  cluster,   \* contents of the managed objects that are in the cluster
  edits, failures

leaseVars == <<lease, age, renewed, tried, sinceDel>>
memVars == <<objs, held, watched>>
workVars == <<dirty, todo, failed>>
crVars == <<spec, deleting, edits>>
vars == <<phase, workVars, leaseVars, crVars, failures, cluster, memVars>>

Phases == {"down", "loaded", "standby", "leading"}
Documents == (UNION {Range(Paths[i]) : i \in DOMAIN Paths}) \ {Nil}
ObjNames == {doc.name : doc \in Documents}

\* No object is in the manifest twice; Nil is an empty document.
DocType == [kind : STRING, apiVersion : STRING, name : STRING]
ASSUME PathsAssumption ==
  /\ Paths \in Seq(Seq(DocType \cup {Nil}))
  /\ \A i, k \in DOMAIN Paths : \A j \in DOMAIN Paths[i], l \in DOMAIN Paths[k] :
       Paths[i][j] = Paths[k][l] /\ Paths[i][j] # Nil => i = k /\ j = l

\* Each name once.
Once(pairs) == \A i, j \in DOMAIN pairs : pairs[i].name = pairs[j].name => i = j

\* keda.yaml: each Deployment has its arguments once, the logging flags among them.
ASSUME ShippedAssumption ==
  \A d \in Deployments \cap ObjNames :
    /\ {"args", "sidecar", "annotations", "priorityClass", "resources", "env", "image"}
         \subseteq DOMAIN Shipped[d]
    /\ Shipped[d].args \in Seq(Args)
    /\ Once(Shipped[d].args)
    /\ Range(LogFlags) \subseteq Names(Shipped[d].args)

Leading == {m \in Managers : phase[m] = "leading"}
Fails == failures < MaxFailures /\ failures' = failures + 1

Nothing == [o \in {} |-> Nil]
Deployed(o, content) == o \in DOMAIN cluster /\ cluster[o] = content

Init ==
  /\ phase = [m \in Managers |-> "down"]
  /\ objs = [m \in Managers |-> <<>>]
  /\ held = [m \in Managers |-> Shipped]
  /\ watched = [m \in Managers |-> <<>>]
  /\ dirty = [m \in Managers |-> FALSE]
  /\ todo = [m \in Managers |-> <<>>]
  /\ failed = [m \in Managers |-> {}]
  /\ lease = NoHolder /\ age = 0
  /\ renewed = [m \in Managers |-> 0]
  /\ tried = [m \in Managers |-> FALSE]
  /\ sinceDel = RenewDeadline + 1
  /\ spec \in Specs /\ deleting = FALSE
  /\ cluster = Nothing
  /\ edits = 0 /\ failures = 0

-----------------------------------------------------------------------------
(* Start and end of a process.                                             *)

\* Mutant of LoadDocument: CRDs stay where they are in the file.
LoadDocumentInOrder(results, doc) == IF doc = Nil THEN results ELSE Append(results, doc)

\* One turn of the loop of LoadData: empty documents (Nil) are skipped and CRDs go
\* to the front.
LoadDocument(results, doc) ==
  CASE doc = Nil -> results
    [] doc # Nil /\ doc.kind = "CustomResourceDefinition" -> <<doc>> \o results
    [] OTHER -> Append(results, doc)

\* The results of LoadData after each turn, and at the end of the file.
ResultsSoFar(docs) ==
  LET results[i \in 0 .. Len(docs)] ==
        IF i = 0 THEN <<>> ELSE LoadDocument(results[i - 1], docs[i])
  IN results
LoadData(docs) == ResultsSoFar(docs)[Len(docs)]

\* LoadFromPaths: the files one after the other.
ObjsSoFar ==
  LET loaded[i \in 0 .. Len(Paths)] ==
        IF i = 0 THEN <<>> ELSE loaded[i - 1] \o LoadData(Paths[i])
  IN loaded
LoadFromPaths == ObjsSoFar[Len(Paths)]

Load(m) ==
  /\ phase[m] = "down"
  /\ phase' = [phase EXCEPT ![m] = "loaded"]
  /\ objs' = [objs EXCEPT ![m] = LoadFromPaths]
  /\ held' = [held EXCEPT ![m] = Shipped]
  /\ UNCHANGED <<watched, workVars, leaseVars, crVars, cluster, failures>>

\* The digest is taken of kind, group and version; apiVersion holds the last two.
CalculateSum(doc) == <<doc.kind, doc.apiVersion>>

\* registerWatchDistinct: one watch for each sum not visited before.
RegisterWatch(kinds, doc) ==
  IF \E v \in Range(kinds) : CalculateSum(v) = CalculateSum(doc) THEN kinds ELSE Append(kinds, doc)
WatchesSoFar(docs) ==
  LET kinds[i \in 0 .. Len(docs)] ==
        IF i = 0 THEN <<>> ELSE RegisterWatch(kinds[i - 1], docs[i])
  IN kinds
RegisterWatchDistinct(docs) == WatchesSoFar(docs)[Len(docs)]

SetupWithManager(m) ==
  /\ phase[m] = "loaded"
  /\ phase' = [phase EXCEPT ![m] = "standby"]
  /\ watched' = [watched EXCEPT ![m] = RegisterWatchDistinct(objs[m])]
  /\ UNCHANGED <<objs, held, workVars, leaseVars, crVars, cluster, failures>>

\* os.Exit: nothing in memory is left, and the lease is not released.
Exit(m) ==
  /\ phase' = [phase EXCEPT ![m] = "down"]
  /\ objs' = [objs EXCEPT ![m] = <<>>]
  /\ held' = [held EXCEPT ![m] = Shipped]
  /\ watched' = [watched EXCEPT ![m] = <<>>]
  /\ dirty' = [dirty EXCEPT ![m] = FALSE]
  /\ todo' = [todo EXCEPT ![m] = <<>>]
  /\ failed' = [failed EXCEPT ![m] = {}]
  /\ renewed' = [renewed EXCEPT ![m] = 0]
  /\ tried' = [tried EXCEPT ![m] = FALSE]
  /\ UNCHANGED <<lease, age, sinceDel, crVars, cluster>>

\* A start that fails (a file, the watches, the manager), or the end of the pod.
Crash(m) == phase[m] # "down" /\ Fails /\ Exit(m)

-----------------------------------------------------------------------------
(* The lease.                                                              *)

Obtain(m) ==
  /\ lease' = m /\ age' = 0
  /\ renewed' = [renewed EXCEPT ![m] = 0]
  /\ tried' = [tried EXCEPT ![m] = TRUE]
  /\ UNCHANGED sinceDel

Free == lease = NoHolder \/ age >= LeaseDuration

\* Mutant of Lead: a lease that has run out is not taken over.
LeadIfNoLease(m) ==
  /\ phase[m] = "standby" /\ lease = NoHolder
  /\ Obtain(m)
  /\ phase' = [phase EXCEPT ![m] = "leading"]
  /\ dirty' = [dirty EXCEPT ![m] = TRUE]
  /\ UNCHANGED <<memVars, todo, failed, crVars, cluster, failures>>

\* The controller starts: its sources list the CR.
Lead(m) ==
  /\ phase[m] = "standby" /\ Free
  /\ Obtain(m)
  /\ phase' = [phase EXCEPT ![m] = "leading"]
  /\ dirty' = [dirty EXCEPT ![m] = TRUE]
  /\ UNCHANGED <<memVars, todo, failed, crVars, cluster, failures>>

\* A leader whose lease is gone creates it again.
Renew(m) ==
  /\ phase[m] = "leading" /\ ~tried[m]
  /\ lease = m \/ Free
  /\ Obtain(m)
  /\ UNCHANGED <<phase, memVars, workVars, crVars, cluster, failures>>

RenewFails(m) ==
  /\ phase[m] = "leading" /\ ~tried[m]
  /\ \/ lease # m /\ ~Free /\ UNCHANGED failures
     \/ Fails
  /\ tried' = [tried EXCEPT ![m] = TRUE]
  /\ UNCHANGED <<phase, memVars, workVars, lease, age, renewed, sinceDel, crVars, cluster>>

\* Mutant of LoseLease: the process goes on without the lease.
LoseLeaseGoesOn(m) ==
  /\ phase[m] = "leading" /\ renewed[m] = RenewDeadline
  /\ renewed' = [renewed EXCEPT ![m] = 0]
  /\ UNCHANGED <<phase, memVars, workVars, lease, age, tried, sinceDel, crVars, cluster, failures>>

\* mgr.Start returns an error when the deadline passes, and main exits.
LoseLease(m) ==
  /\ phase[m] = "leading" /\ renewed[m] = RenewDeadline
  /\ Exit(m)
  /\ UNCHANGED failures

Upto(n, bound) == IF n < bound THEN n + 1 ELSE n

\* A period ends.  The clock of a leader does not stand still: it has tried, and
\* it has ended if it had to.
Tick ==
  /\ \A m \in Leading : tried[m] /\ renewed[m] < RenewDeadline
  /\ age' = Upto(age, LeaseDuration)
  /\ sinceDel' = Upto(sinceDel, RenewDeadline + 1)
  /\ renewed' = [m \in Managers |-> IF m \in Leading THEN renewed[m] + 1 ELSE renewed[m]]
  /\ tried' = [m \in Managers |-> FALSE]
  /\ UNCHANGED <<phase, memVars, workVars, lease, crVars, cluster, failures>>

-----------------------------------------------------------------------------
(* Passes of a leader.                                                     *)

\* The content of each object after the chain of update functions.
UpdatedObjs(content) ==
  [o \in ObjNames |->
     CASE o \in Deployments -> UpdateDeployment(o, content[o], spec)
       [] o = WebhookPolicy -> UpdateNetworkPolicy(content[o], Address)
       [] OTHER -> content[o]]

\* sFnUpdateKedaDeployment ... sfnUpdateAdmissionWebhooksNetworkPolicy, to sFnApply.
UpdateObjects(m) ==
  /\ phase[m] = "leading" /\ dirty[m] /\ todo[m] = <<>>
  /\ spec # Nil /\ ~deleting
  /\ held' = [held EXCEPT ![m] = UpdatedObjs(held[m])]
  /\ todo' = [todo EXCEPT ![m] = objs[m]]
  /\ failed' = [failed EXCEPT ![m] = {}]
  /\ dirty' = [dirty EXCEPT ![m] = FALSE]
  /\ UNCHANGED <<phase, objs, watched, leaseVars, crVars, cluster, failures>>

\* What is sent: the object in memory, with the image of this installation.
Sent(o, content) ==
  IF o \in Deployments
  THEN [content EXCEPT !.image = Image(o, @, Overrides, Fips)] ELSE content

\* Leaders that notice a changed object: its kind is watched.  All objects sent
\* carry the label that the predicate of the watches selects.
Noticing(doc) ==
  {m \in Leading : \E v \in Range(watched[m]) : v.kind = doc.kind /\ v.apiVersion = doc.apiVersion}

\* The cluster with content for object o.
Put(o, content) == [x \in DOMAIN cluster \cup {o} |-> IF x = o THEN content ELSE cluster[x]]

\* Mutant of ApplyObject: the pass ends with a requeue although all is done.
ApplyObjectRequeues(m) ==
  LET doc == Head(todo[m]) IN
  /\ phase[m] = "leading" /\ todo[m] # <<>>
  /\ todo' = [todo EXCEPT ![m] = Tail(@)]
  /\ cluster' = Put(doc.name, Sent(doc.name, held[m][doc.name]))
  /\ dirty' = [dirty EXCEPT ![m] = @ \/ Len(todo[m]) = 1]
  /\ UNCHANGED <<phase, memVars, failed, leaseVars, crVars, failures>>

\* Mutant of ApplyObject: the loop returns after its first Patch.
ApplyObjectFirst(m) ==
  LET doc == Head(todo[m])
      new == Sent(doc.name, held[m][doc.name])
  IN
  /\ phase[m] = "leading" /\ todo[m] # <<>>
  /\ todo' = [todo EXCEPT ![m] = <<>>]
  /\ cluster' = Put(doc.name, new)
  /\ dirty' = [n \in Managers |-> dirty[n] \/ (~Deployed(doc.name, new) /\ n \in Noticing(doc))]
  /\ UNCHANGED <<phase, memVars, failed, leaseVars, crVars, failures>>

\* One Patch of sFnApply, with force: it wins over whatever is there.
ApplyObject(m) ==
  LET doc == Head(todo[m])
      new == Sent(doc.name, held[m][doc.name])
  IN
  /\ phase[m] = "leading" /\ todo[m] # <<>>
  /\ todo' = [todo EXCEPT ![m] = Tail(@)]
  /\ cluster' = Put(doc.name, new)
  /\ dirty' = [n \in Managers |-> dirty[n] \/ (~Deployed(doc.name, new) /\ n \in Noticing(doc))]
  /\ UNCHANGED <<phase, memVars, failed, leaseVars, crVars, failures>>

\* A Patch that fails: the loop goes on, and in its end the pass stops with
\* ApplyObjError and no requeue; the status it writes raises no event.
ApplyObjectFails(m) ==
  /\ phase[m] = "leading" /\ todo[m] # <<>>
  /\ Fails
  /\ todo' = [todo EXCEPT ![m] = Tail(@)]
  /\ failed' = [failed EXCEPT ![m] = @ \cup {Head(todo[m]).name}]
  /\ UNCHANGED <<phase, memVars, dirty, leaseVars, crVars, cluster>>

\* The pass of a deleted CR, reduced to its end: all objects go, the lease of the
\* manager with them, and then the CR.
Uninstall(m) ==
  /\ phase[m] = "leading" /\ dirty[m] /\ todo[m] = <<>>
  /\ spec # Nil /\ deleting
  /\ cluster' = Nothing
  /\ lease' = NoHolder /\ age' = 0 /\ sinceDel' = 0
  /\ \/ spec' = Nil /\ deleting' = FALSE /\ UNCHANGED <<dirty, failures>>
     \/ Fails /\ UNCHANGED <<spec, deleting, dirty>>
  /\ UNCHANGED <<phase, memVars, todo, failed, renewed, tried, edits>>

\* With no CR the name stays in the queue, and the pass does nothing.
Pass(m) == UpdateObjects(m) \/ ApplyObject(m) \/ ApplyObjectFails(m) \/ Uninstall(m)

-----------------------------------------------------------------------------

\* A user creates or edits the CR, or deletes it.
EditKeda ==
  /\ edits < MaxEdits /\ edits' = edits + 1
  /\ ~deleting
  /\ \/ spec' \in Specs \ {spec} /\ UNCHANGED deleting
     \/ spec # Nil /\ deleting' = TRUE /\ UNCHANGED spec
  /\ dirty' = [m \in Managers |-> dirty[m] \/ m \in Leading]
  /\ UNCHANGED <<phase, memVars, todo, failed, leaseVars, cluster, failures>>

Next ==
  \/ \E m \in Managers :
       \/ Load(m) \/ SetupWithManager(m) \/ Crash(m)
       \/ Lead(m) \/ Renew(m) \/ RenewFails(m) \/ LoseLease(m)
       \/ Pass(m)
  \/ Tick
  \/ EditKeda

Spec == Init /\ [][Next]_vars

\* Each process and its clock go on; crashes and users promise nothing.
Fairness ==
  /\ WF_vars(Tick)
  /\ \A m \in Managers :
       /\ WF_vars(Load(m) \/ SetupWithManager(m) \/ Lead(m) \/ LoseLease(m))
       /\ WF_vars(Renew(m) \/ RenewFails(m))
       /\ WF_vars(Pass(m))

FairSpec == Spec /\ Fairness

-----------------------------------------------------------------------------
(* Types.                                                                  *)

ProcessTypeOK ==
  /\ phase \in [Managers -> Phases]
  /\ lease \in Managers \cup {NoHolder}
  /\ age \in Nat /\ sinceDel \in Nat
  /\ renewed \in [Managers -> Nat]
  /\ tried \in [Managers -> BOOLEAN]

-----------------------------------------------------------------------------
(* Leaders.                                                                *)

\* main.go promises one active manager.  Two processes lead at once only for a
\* while after an uninstallation has deleted the lease under its holder: not for
\* longer than a leader can go without renewing it.
LeadersOverlapBriefly ==
  (\E m, n \in Leading : m # n) => sinceDel <= RenewDeadline

\* What keeps it so.  A leader that lost the lease lost it to an uninstallation,
\* and not before it last renewed it; nobody else can have taken it by waiting.
LeaseInv ==
  \A m \in Leading :
    /\ renewed[m] <= RenewDeadline
    /\ lease = m => renewed[m] = age
    /\ lease # m => sinceDel <= renewed[m]
    /\ lease \notin {m, NoHolder} => age <= renewed[m]

-----------------------------------------------------------------------------
(* Memory of a process.                                                    *)

IsCrd(doc) == doc.kind = "CustomResourceDefinition"

\* Where the documents a and b of the manifest belong: files stay in their order, the
\* CRDs of a file come first, the last of them before the others, then the rest.
Precedes(a, b) ==
  \A i, k \in DOMAIN Paths : \A j \in DOMAIN Paths[i], l \in DOMAIN Paths[k] :
    Paths[i][j] = a /\ Paths[k][l] = b =>
      \/ i < k
      \/ i = k /\ IsCrd(a) /\ (IsCrd(b) => j > l)
      \/ i = k /\ ~IsCrd(a) /\ ~IsCrd(b) /\ j < l

Preceding == {ab \in Documents \X Documents : Precedes(ab[1], ab[2])}

\* What start leaves in memory: every object of every file, once and where it
\* belongs, and one watch for each kind.
StartIsComplete ==
  \A m \in Managers :
    /\ phase[m] # "down" =>
         /\ Range(objs[m]) = Documents
         /\ \A p, q \in DOMAIN objs[m] : p < q => <<objs[m][p], objs[m][q]>> \in Preceding
    /\ phase[m] \in {"standby", "leading"} =>
         \A doc \in Documents :
           \E i \in DOMAIN watched[m] :
             {j \in DOMAIN watched[m] : watched[m][j].kind = doc.kind
                                        /\ watched[m][j].apiVersion = doc.apiVersion} = {i}

ArgOf(args, flag) == {args[i].value : i \in {j \in DOMAIN args : args[j].name = flag}}

\* However often passes with different specs rewrite the arguments in memory, each
\* logging flag is there once, and the metrics server writes to stderr, which
\* overrides its encoder, exactly when the encoder is not json; unless nobody has
\* configured its logging yet.
LoggingConsistent ==
  \A m \in Managers : \A d \in Deployments \cap ObjNames :
    LET args == held[m][d].args IN
    /\ Once(args)
    /\ Range(LogFlags) \subseteq Names(args)
    /\ d = MetricsServer /\ args # Shipped[d].args =>
         (ArgOf(args, "logtostderr") = {"false"} <=> ArgOf(args, "zap-encoder") = {"json"})

-----------------------------------------------------------------------------
(* What the cluster comes to.                                              *)

\* Values of logging as a user means them.
Meant(cfg, flag) ==
  CASE cfg[flag] = Nil -> Zero(flag)
    [] cfg[flag] # Nil /\ flag = "zap-encoder" /\ cfg[flag] = "text" -> "console"
    [] OTHER -> cfg[flag]

\* Deployment content u is what the spec says.  What the spec leaves out may be
\* there from an earlier spec.
Fits(d, u, wanted) ==
  /\ wanted.logging[d] # Nil =>
       \A f \in Range(LogFlags) : ArgOf(u.args, f) = {Meant(wanted.logging[d], f)}
  /\ u.sidecar = (d # AdmissionWebhooks /\ wanted.istio[d])
  /\ \A k \in DOMAIN wanted.annotations[d] :
       k \in DOMAIN u.annotations /\ u.annotations[k] = wanted.annotations[d][k]
  /\ wanted.resources[d] # Nil => u.resources = wanted.resources[d]
  /\ d # AdmissionWebhooks =>
       /\ Range(wanted.env) \subseteq Range(u.env)
       /\ Names(RequiredEnv) \subseteq Names(u.env)
       /\ Once(wanted.env) => Once(u.env)
  /\ u.image = Image(d, Shipped[d].image, Overrides, Fips)

FitsHere(d) == d \in DOMAIN cluster /\ Fits(d, cluster[d], spec)
DeploymentsFit == \A d \in Deployments \cap ObjNames : FitsHere(d)

\* The leader has taken the spec in and applied it.
AtRest(m) == m \in Leading /\ spec # Nil /\ ~deleting /\ ~dirty[m] /\ todo[m] = <<>>

\* While a leader has nothing to do, the Deployments are as the spec says, but for the
\* ones whose Patch failed in its last pass: no edit, no takeover and no other leader
\* that applies what it had in memory, perhaps of an older spec or only in part, goes
\* unnoticed by it, and one failed Patch keeps nothing else from being applied.
RestMeansFit ==
  \A m \in Managers : AtRest(m) =>
    \A d \in (Deployments \cap ObjNames) \ failed[m] : FitsHere(d)

\* A pass repeated with the same spec changes nothing in memory, whatever specs were
\* written into it before: so it changes nothing in the cluster either, and sends
\* no event to itself.
PassRepeats ==
  \A m \in Leading :
    spec # Nil /\ ~deleting /\ ~dirty[m] =>
      \A d \in Deployments \cap ObjNames : UpdatedObjs(held[m])[d] = held[m][d]

\* Crashes, lost leases and two leaders that apply over each other notwithstanding:
\* each Deployment of a CR that stays comes to fit its spec, and stays so; unless its
\* Patch failed in the last pass of every leader, which no one takes up again.
WorkloadsConverge ==
  \A d \in Deployments \cap ObjNames :
    <>[](spec # Nil /\ ~deleting =>
           FitsHere(d) \/ (Leading # {} /\ \A m \in Leading : d \in failed[m]))

\* Leaders with different memories do not fight for ever: the passes over a CR come
\* to an end.
PassesQuiesce ==
  <>[](spec # Nil => \A m \in Managers : ~dirty[m] /\ todo[m] = <<>>)

=============================================================================
