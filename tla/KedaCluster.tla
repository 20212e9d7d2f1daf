---------------------------- MODULE KedaCluster ----------------------------
(***************************************************************************)
(* What surrounds the reconciler of keda-manager: the API server, the      *)
(* informer cache the manager reads Keda CRs from, the work queue and the  *)
(* event handlers that fill it (controllers/keda_controller.go), the users *)
(* who edit CRs and the workloads that come and go.  The reconciler itself *)
(* is in KedaFsm, HttpAddon and KedaDelete.                                *)
(*                                                                         *)
(* The API server compares resourceVersions on every write of a CR.  Only  *)
(* whether a copy is at the server's version matters, so there are two     *)
(* flags instead of numbers: current[k] (the cached copy is) and fresh     *)
(* (the copy the worker holds of the CR named key is).  A write that       *)
(* changes nothing keeps the version, as in the API server.                *)
(***************************************************************************)
EXTENDS KedaStatus, Naturals, Sequences, Functions

CONSTANTS
  Kedas,          \* names of Keda CRs
  NoKeda,         \* "not there": no CR, and no key held by the worker
  Specs,          \* specs a user may write
  AddonCfgs,      \* add-on annotations a user may write
  ExtFinalizers,  \* may a CR carry somebody else's finalizer
  Fields,         \* customisable fields of the Deployments
  StickyFields,   \* the ones written only when the spec sets them
  Values, Unset,  \* what a field holds
  Sanitized,      \* what a pass makes of a value: log format "text" is "console"
  ManifestSeq,    \* the objects of Cfg.Objs in apply order
  Crds, Deployments,
  Generational,   \* manifest objects whose kind has metadata.generation
  OperatorLease,  \* leader-election lease of keda-operator
  Absent, Tampered,
  Namespaces, DefaultAddonNamespace,
  CarefulUsers,   \* nobody creates instances of a CRD that is about to go
  Versions,       \* add-on versions shipped by releases of the manager
  Budget          \* how often each kind of outside interference happens

Customs == [Fields -> Values \cup {Unset}]
SpecTypes == [restricted : BOOLEAN, custom : Customs]
AddonTypes == [enabled : BOOLEAN, namespace : Namespaces \cup {""}, istio : BOOLEAN]
InstalledTypes == [version : Versions \cup {""}, namespace : Namespaces \cup {""}]

\* A Keda CR: deletionTimestamp, the manager's finalizer, somebody else's
\* finalizer, spec, the add-on annotations of the user, the two annotations of
\* the manager, and the status.
Keda == [del : BOOLEAN, fin : BOOLEAN, ext : BOOLEAN, spec : SpecTypes, addon : AddonTypes,
         installed : InstalledTypes, status : Statuses]

ManifestObjs == Range(ManifestSeq)
Objs == ManifestObjs \cup {OperatorLease}
Contents == Customs \cup {Absent, Tampered}
Shipped == [f \in Fields |-> Unset]

\* Where watch events come from: the objects of the manifest, and those of the
\* add-on, whose undelivered events are not told apart.
AddonEvent == "addon"
EventSources == ManifestObjs \cup {AddonEvent}

Interference == {"edit", "tamper", "workload", "failure"}

ASSUME KedasAssumption == NoKeda \notin Kedas /\ NoKeda \notin Keda
ASSUME SpecsAssumption == /\ Specs \subseteq SpecTypes /\ AddonCfgs \subseteq AddonTypes
                          /\ ExtFinalizers \subseteq BOOLEAN /\ CarefulUsers \in BOOLEAN
ASSUME FieldsAssumption == StickyFields \subseteq Fields /\ Unset \notin Values
ASSUME SanitizedAssumption ==
  /\ Sanitized \in [Values \cup {Unset} -> Values \cup {Unset}]
  /\ \A v \in Values \cup {Unset} : Sanitized[Sanitized[v]] = Sanitized[v]
  /\ \A v \in Values \cup {Unset} : Sanitized[v] = Unset <=> v = Unset
ASSUME ManifestAssumption ==
  /\ ManifestSeq \in Seq(ManifestObjs)
  /\ Crds \cup Deployments \cup Generational \subseteq ManifestObjs
  /\ Crds \cap Deployments = {}
  /\ OperatorLease \notin ManifestObjs
  /\ {Absent, Tampered} \cap Customs = {} /\ Absent # Tampered
ASSUME AddonAssumption ==
  DefaultAddonNamespace \in Namespaces /\ "" \notin Namespaces \cup Versions
ASSUME BudgetAssumption == Budget \in [Interference -> Nat]

VARIABLES
  server,     \* the CRs in the API server
  cache,      \* the CRs in the informer cache
  current,    \* the cached copy is at the server's resourceVersion
  key, fresh, \* the CR the worker reconciles; its copy is at that version
  queue,      \* the work queue, delayed entries included
  cluster,    \* content of every managed object
  depStatus,  \* status conditions of the Deployments
  objEvents,  \* sources of undelivered watch events
  scaled,     \* CRDs of KEDA that have instances (ScaledObjects, ...)
  addonObjs,  \* HTTP add-on objects in the cluster
  hso,        \* HTTPScaledObjects exist
  budget      \* interference left

crVars == <<server, cache, current, queue>>
heldVars == <<key, fresh>>
objVars == <<cluster, depStatus, objEvents, scaled>>
addonVars == <<addonObjs, hso>>
clusterVars == <<crVars, heldVars, objVars, addonVars, budget>>

\* Objects of the HTTP add-on: the HTTPScaledObject CRD, the workload and its
\* network policies in a namespace, the PeerAuthentication there, and what
\* only one version ships.
AddonCrd == <<"crd", "">>
AddonWorkload(ns) == <<"workload", ns>>
PeerAuthentication(ns) == <<"peerAuthentication", ns>>
AddonExtra(v) == <<"extra", v>>

AddonObjTypes == {AddonCrd} \cup {AddonWorkload(ns) : ns \in Namespaces}
                 \cup {PeerAuthentication(ns) : ns \in Namespaces}
                 \cup {AddonExtra(v) : v \in Versions}

\* PeerAuthentications belong to no kind of the manifest and are not watched.
PeerAuthentications == {PeerAuthentication(ns) : ns \in Namespaces}

Present(store) == {k \in Kedas : store[k] # NoKeda}

ClusterTypeOK ==
  /\ server \in [Kedas -> Keda \cup {NoKeda}]
  /\ cache \in [Kedas -> Keda \cup {NoKeda}]
  /\ current \in [Kedas -> BOOLEAN]
  /\ key \in Kedas \cup {NoKeda}
  /\ fresh \in BOOLEAN
  /\ queue \subseteq Kedas
  /\ cluster \in [Objs -> Contents]
  /\ depStatus \in [Deployments -> {"unavailable", "ready", "replicaFailure"}]
  /\ objEvents \subseteq EventSources
  /\ scaled \subseteq Crds
  /\ addonObjs \subseteq AddonObjTypes
  /\ hso \in BOOLEAN
  /\ budget \in [Interference -> Nat]

ClusterInit ==
  /\ server = [k \in Kedas |-> NoKeda]
  /\ cache = [k \in Kedas |-> NoKeda]
  /\ current = [k \in Kedas |-> TRUE]
  /\ key = NoKeda
  /\ fresh = FALSE
  /\ queue = {}
  /\ cluster = [o \in Objs |-> Absent]
  /\ depStatus = [d \in Deployments |-> "unavailable"]
  /\ objEvents = {}
  /\ scaled = {}
  /\ addonObjs = {}
  /\ hso = FALSE
  /\ budget = Budget

Spend(what) == budget[what] > 0 /\ budget' = [budget EXCEPT ![what] = @ - 1]

-----------------------------------------------------------------------------
(* Users of the Keda CRs.                                                  *)

UserWrite(k, cr) ==
  /\ Spend("edit")
  /\ server' = [server EXCEPT ![k] = cr]
  /\ current' = [current EXCEPT ![k] = FALSE]
  /\ fresh' = (fresh /\ key # k)
  /\ UNCHANGED <<cache, key, queue, objVars, addonVars>>

\* A name is used again only once the informer has seen the old CR go.
CreateKeda(k) ==
  /\ server[k] = NoKeda /\ cache[k] = NoKeda
  /\ \E s \in Specs, a \in AddonCfgs, e \in ExtFinalizers :
       UserWrite(k, [del |-> FALSE, fin |-> FALSE, ext |-> e, spec |-> s, addon |-> a,
                     installed |-> [version |-> "", namespace |-> ""],
                     status |-> EmptyStatus])

EditSpec(k) ==
  /\ server[k] # NoKeda
  /\ \E s \in Specs \ {server[k].spec} : UserWrite(k, [server[k] EXCEPT !.spec = s])

EditAddon(k) ==
  /\ server[k] # NoKeda
  /\ \E a \in AddonCfgs \ {server[k].addon} : UserWrite(k, [server[k] EXCEPT !.addon = a])

\* What the API server keeps of a CR: nothing once it is marked for deletion
\* and the last finalizer is gone.
Stored(cr) == IF cr.del /\ ~cr.fin /\ ~cr.ext THEN NoKeda ELSE cr

DeleteKeda(k) ==
  /\ server[k] # NoKeda /\ ~server[k].del
  /\ UserWrite(k, Stored([server[k] EXCEPT !.del = TRUE]))

DropExtFinalizer(k) ==
  /\ server[k] # NoKeda /\ server[k].del /\ server[k].ext
  /\ UserWrite(k, Stored([server[k] EXCEPT !.ext = FALSE]))

-----------------------------------------------------------------------------
(* Informers and event handlers.                                           *)

\* Mutant of PassesOmitStatusChanged: the predicates are and-ed.
PassesOnlyIfBothChanged(old, new) ==
  /\ old.spec # new.spec \/ old.del # new.del
  /\ old.addon # new.addon \/ old.installed # new.installed

\* ommitStatusChanged: of the updates of a CR only those of its annotations
\* and of its generation (spec, deletionTimestamp) pass.
PassesOmitStatusChanged(old, new) ==
  \/ old.spec # new.spec \/ old.del # new.del
  \/ old.addon # new.addon \/ old.installed # new.installed

\* retriggerAllKedaCRs runs on the deletion of a CR, beside the handler that
\* enqueues the CR itself.
Enqueued(k) ==
  CASE cache[k] = NoKeda /\ server[k] = NoKeda -> {}
    [] cache[k] = NoKeda /\ server[k] # NoKeda -> {k}
    [] cache[k] # NoKeda /\ server[k] = NoKeda -> {k} \cup Present(cache)
    [] OTHER -> IF PassesOmitStatusChanged(cache[k], server[k]) THEN {k} ELSE {}

\* The informer catches up with the server on one CR.
CacheSync(k) ==
  /\ ~current[k]
  /\ cache' = [cache EXCEPT ![k] = server[k]]
  /\ current' = [current EXCEPT ![k] = TRUE]
  /\ queue' = queue \cup Enqueued(k)
  /\ UNCHANGED <<server, key, fresh, objVars, addonVars, budget>>

\* Mutant of MapFunction: the check for an empty list is missing.
MapFunctionUnchecked(o) ==
  /\ o \in objEvents
  /\ objEvents' = objEvents \ {o}
  /\ \/ Present(cache) = {} /\ queue' = queue \cup {NoKeda}
     \/ \E k \in Present(cache) : queue' = IF cache[k].del THEN queue ELSE queue \cup {k}
  /\ UNCHANGED <<server, cache, current, key, fresh, cluster, depStatus, scaled,
                 addonVars, budget>>

\* mapFunction: an event of a managed object goes to the first item of a list
\* whose order the cache does not fix, and is dropped if that CR is going.
MapFunction(o) ==
  /\ o \in objEvents
  /\ objEvents' = objEvents \ {o}
  /\ \/ Present(cache) = {} /\ UNCHANGED queue
     \/ \E k \in Present(cache) :
          queue' = IF cache[k].del THEN queue ELSE queue \cup {k}
  /\ UNCHANGED <<server, cache, current, key, fresh, cluster, depStatus, scaled,
                 addonVars, budget>>

\* Watch events of object o that pass GenerationChangedPredicate.
ObjEventsAfter(o, new) ==
  IF o \in ManifestObjs
     /\ \/ (cluster[o] = Absent) # (new = Absent)
        \/ o \in Generational /\ cluster[o] # new
  THEN objEvents \cup {o} ELSE objEvents

\* The add-on objects carry the label the watches select on, so those of a
\* watched kind raise events when they come and go.
AddonEvents ==
  objEvents' = IF addonObjs' \ PeerAuthentications # addonObjs \ PeerAuthentications
               THEN objEvents \cup {AddonEvent} ELSE objEvents

-----------------------------------------------------------------------------
(* Users and controllers that act on the objects of the cluster.           *)

\* Somebody changes or removes a managed object.
Tamper(o) ==
  /\ Spend("tamper")
  /\ cluster[o] # Absent
  /\ \E c \in {Absent, Tampered} \ {cluster[o]} :
       /\ cluster' = [cluster EXCEPT ![o] = c]
       /\ objEvents' = ObjEventsAfter(o, c)
       /\ scaled' = IF c = Absent THEN scaled \ {o} ELSE scaled
       /\ depStatus' = IF c = Absent /\ o \in Deployments
                       THEN [depStatus EXCEPT ![o] = "unavailable"] ELSE depStatus
  /\ UNCHANGED <<crVars, heldVars, addonVars>>

\* Deleting the CRD takes the HTTPScaledObjects with it.
RemoveAddonObj(o) ==
  /\ addonObjs' = addonObjs \ {o}
  /\ hso' = (hso /\ o # AddonCrd)

\* Somebody removes an object of the add-on.
TamperAddon(o) ==
  /\ Spend("tamper")
  /\ o \in addonObjs
  /\ RemoveAddonObj(o)
  /\ AddonEvents
  /\ UNCHANGED <<crVars, heldVars, cluster, depStatus, scaled>>

\* The Deployment controller reports on a rollout.
DeploymentReady(d) ==
  /\ cluster[d] # Absent /\ depStatus[d] # "ready"
  /\ depStatus' = [depStatus EXCEPT ![d] = "ready"]
  /\ UNCHANGED <<crVars, heldVars, cluster, objEvents, scaled, addonVars, budget>>

DeploymentDegrades(d) ==
  /\ Spend("failure")
  /\ cluster[d] # Absent
  /\ \E s \in {"unavailable", "replicaFailure"} \ {depStatus[d]} :
       depStatus' = [depStatus EXCEPT ![d] = s]
  /\ UNCHANGED <<crVars, heldVars, cluster, objEvents, scaled, addonVars>>

\* A running keda-operator holds its lease.
AcquireLease ==
  /\ cluster[OperatorLease] = Absent
  /\ \E d \in Deployments : cluster[d] # Absent /\ depStatus[d] = "ready"
  /\ cluster' = [cluster EXCEPT ![OperatorLease] = Shipped]
  /\ UNCHANGED <<crVars, heldVars, depStatus, objEvents, scaled, addonVars, budget>>

CreateScaled(c) ==
  /\ Spend("workload")
  /\ cluster[c] # Absent
  /\ CarefulUsers => \A k \in Present(server) : ~server[k].del
  /\ scaled' = scaled \cup {c}
  /\ UNCHANGED <<crVars, heldVars, cluster, depStatus, objEvents, addonVars>>

DeleteScaled(c) ==
  /\ c \in scaled
  /\ scaled' = scaled \ {c}
  /\ UNCHANGED <<crVars, heldVars, cluster, depStatus, objEvents, addonVars, budget>>

=============================================================================
