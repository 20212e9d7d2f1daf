---------------------------- MODULE KedaManager ----------------------------
(***************************************************************************)
(* keda-manager as a whole: one worker, the API server and cache it works  *)
(* against, users, workloads, and restarts of the manager's process.       *)
(***************************************************************************)
EXTENDS KedaDelete

vars == <<clusterVars, fsmVars>>

TypeOK == ClusterTypeOK /\ FsmTypeOK

Init == ClusterInit /\ FsmInit

\* The process ends anywhere and starts again, perhaps as another release.
\* Workers start after the caches are filled; filling them delivers a Create
\* event for every CR and every managed object.
Restart ==
  /\ Spend("failure")
  /\ cache' = server
  /\ current' = [k \in Kedas |-> TRUE]
  /\ queue' = Present(server)
  /\ objEvents' = {o \in ManifestObjs : cluster[o] # Absent}
                  \cup {AddonEvent : o \in addonObjs \ PeerAuthentications}
  /\ DropPass /\ manifest' = Shipped /\ addonVersion' \in Versions /\ known' = {}
  /\ UNCHANGED <<server, cluster, depStatus, scaled, addonVars>>

WorkerStep == InstallStep \/ AddonStep \/ DeleteStep

\* What informers, handlers and the Deployment controller do.
SystemStep ==
  \/ \E k \in Kedas : CacheSync(k) /\ UNCHANGED fsmVars
  \/ \E o \in EventSources : MapFunction(o) /\ UNCHANGED fsmVars
  \/ \E d \in Deployments : DeploymentReady(d) /\ UNCHANGED fsmVars

\* What users and failures do.
OutsideStep ==
  \/ \E k \in Kedas : CreateKeda(k) /\ UNCHANGED fsmVars
  \/ \E k \in Kedas : EditSpec(k) /\ UNCHANGED fsmVars
  \/ \E k \in Kedas : EditAddon(k) /\ UNCHANGED fsmVars
  \/ \E k \in Kedas : DeleteKeda(k) /\ UNCHANGED fsmVars
  \/ \E k \in Kedas : DropExtFinalizer(k) /\ UNCHANGED fsmVars
  \/ \E o \in ManifestObjs : Tamper(o) /\ UNCHANGED fsmVars
  \/ \E o \in AddonObjTypes : TamperAddon(o) /\ UNCHANGED fsmVars
  \/ \E d \in Deployments : DeploymentDegrades(d) /\ UNCHANGED fsmVars
  \/ AcquireLease /\ UNCHANGED fsmVars
  \/ \E c \in Crds : CreateScaled(c) /\ UNCHANGED fsmVars
  \/ \E c \in Crds : DeleteScaled(c) /\ UNCHANGED fsmVars
  \/ CreateHso /\ UNCHANGED fsmVars
  \/ DeleteHso /\ UNCHANGED fsmVars

Next == WorkerStep \/ SystemStep \/ OutsideStep \/ Restart

Spec == Init /\ [][Next]_vars

\* Fairness of the parts that run by themselves.  The worker goes on with a
\* pass; the work queue is first in first out, so a key that keeps being ready
\* is taken; informers deliver and Deployments roll out.  Users promise nothing.
Fairness ==
  /\ WF_vars(WorkerStep)
  /\ \A k \in Kedas : SF_vars(Reconcile(k)) /\ WF_vars(CacheSync(k) /\ UNCHANGED fsmVars)
  /\ \A o \in EventSources : WF_vars(MapFunction(o) /\ UNCHANGED fsmVars)
  /\ \A d \in Deployments : WF_vars(DeploymentReady(d) /\ UNCHANGED fsmVars)

FairSpec == Spec /\ Fairness

-----------------------------------------------------------------------------
(* Ownership of the workloads.                                             *)

\* A step of the worker.
WorkerMoves == pc' # pc \/ todo' # todo

SanitizedSpec(spec) == [spec EXCEPT !.custom = SanitizedCustom(spec.custom)]

\* CR new has what the users wrote into old: the spec, up to the alias of a log
\* format, the annotations of the add-on, other finalizers and the deletion.
AsWritten(new, old) ==
  /\ new.spec \in {old.spec, SanitizedSpec(old.spec)}
  /\ new.addon = old.addon
  /\ new.ext = old.ext
  /\ new.del = old.del

\* sFnServedFilter lets one CR own KEDA: no two CRs are stored as served.
AtMostOneServed ==
  \A j, k \in Kedas : Served(server[j]) /\ Served(server[k]) => j = k

\* The filter finds no served CR in its list although one is served: the cache it
\* lists does not show the mark of another CR yet.
StaleList ==
  /\ pc = "ServedFilter" /\ IsNotServed(inst.status)
  /\ ServedKedas = {}
  /\ \E j \in Kedas \ {key} : Served(server[j])

\* While a pass applies or deletes workloads of KEDA or of the add-on, no CR but the
\* one it runs for is served, whatever users did since the pass started; and that one
\* is, unless the pass deletes what is gone already, for a CR gone with it.
ExclusiveOwner ==
  LET owners == {k \in Kedas : Served(server[k])} IN
  pc \in {"Apply", "DeleteObjs", "ApplyAddonObjs", "DeleteAddonObjs", "CleanupOld"} =>
    /\ owners \subseteq {key}
    /\ owners = {key} \/ (pc = "DeleteObjs" /\ \A o \in Objs : cluster[o] = Absent)

\* Being served is for life: no status update, however late, takes it away.
ServedSticky ==
  [][\A k \in Kedas : Served(server[k]) /\ server'[k] # NoKeda => Served(server'[k])]_vars

\* The finalizer of some CR stands for the workloads: when no CR carries it,
\* nothing the manager installs for KEDA is left, through failures of single
\* deletions, conflicts, stale reads and restarts.
NoOrphanedWorkloads ==
  (\A k \in Present(server) : ~server[k].fin) => \A o \in Objs : cluster[o] = Absent

\* What a user wrote is never lost to a write of the manager, which sends whole
\* objects, however old the copy that write was made from.
UserEditsSurvive ==
  [][\A k \in Kedas :
       WorkerMoves /\ server[k] # NoKeda /\ server'[k] # NoKeda
         => AsWritten(server'[k], server[k])]_vars

-----------------------------------------------------------------------------
(* The life of the CRs and of KEDA, seen from outside.                     *)

Phase(cr) ==
  CASE cr = NoKeda -> "absent"
    [] cr # NoKeda /\ cr.fin -> IF cr.del THEN "going" ELSE "held"
    [] OTHER -> IF cr.del THEN "released" ELSE "new"

Lifecycle == INSTANCE KedaLifecycle WITH
  phase <- [k \in Kedas |-> Phase(server[k])],
  owners <- {k \in Kedas : Served(server[k])},
  installed <- \E o \in Objs : cluster[o] # Absent

\* Behind caches, conflicts, failing calls and restarts, the manager does what
\* KedaLifecycle says: ownership passes from CR to CR only when there is no owner,
\* workloads come only through the owner, and the owner is released only when the
\* last of them is gone.
ImplementsLifecycle == Lifecycle!Spec

-----------------------------------------------------------------------------
(* What the resourceVersions guarantee; the proofs rest on it.             *)

\* A cached copy at the server's version is the server's CR.
CacheAgrees == \A k \in Kedas : current[k] => cache[k] = server[k]

\* The worker's copy is at the version of a CR that exists.
HeldExists == fresh => key \in Kedas /\ server[key] # NoKeda

\* The old add-on manifest is fetched only when there is something to clean up.
CleanupKnown == pc = "FetchOld" => CleanupNS # ""

\* Beyond sFnInitialize the worker's copy has the finalizer.
Finalized ==
  pc \in Pcs \ {"Idle", "ServedFilter", "Initialize", "UpdateStatus", "EmitEvent", "Return"}
    => inst.fin

TypeInv == TypeOK /\ CacheAgrees /\ HeldExists /\ CleanupKnown /\ Finalized

\* At the server's version, the worker's copy has what the users wrote.
CopyAgrees == fresh => AsWritten(inst, server[key])

-----------------------------------------------------------------------------
(* What rests is right.                                                    *)

\* Nothing is on its way to CR k: no event, no queued key, no pass.
SettledFor(k) ==
  /\ server[k] # NoKeda
  /\ pc = "Idle" /\ k \notin queue /\ current[k] /\ objEvents = {}

\* The Deployment carries every field the spec sets; a sticky field the spec
\* does not set may hold anything.
FitsSpec(content, custom) ==
  \A f \in Fields : (f \in StickyFields /\ custom[f] = Unset) \/ content[f] = Sanitized[custom[f]]

\* A served CR is left alone only in one of two conditions: installation failed
\* and says so, or the CR is Ready and every object whose changes are watched is
\* as the manifest and the spec of the CR want it.  No edit, conflict, restart
\* or tampering gets lost on the way.  A CR that waits for its uninstallation is
\* never left alone.
SettledInstalled ==
  \A k \in Kedas :
    SettledFor(k) /\ Served(server[k]) =>
      \/ server[k].del /\ ~server[k].fin
      \/ /\ ~server[k].del
         /\ server[k].status.state = "Error"
         /\ server[k].status.conditions["Installed"].reason = "ApplyObjError"
      \/ /\ ~server[k].del /\ server[k].fin
         /\ server[k].status.state = "Ready"
         /\ \A o \in Generational :
              /\ cluster[o] \notin {Absent, Tampered}
              /\ o \in Deployments => FitsSpec(cluster[o], server[k].spec.custom)

-----------------------------------------------------------------------------
(* Resources of the users.                                                 *)

\* Uninstalling KEDA never takes ScaledObjects and the like with it.
UserResourcesSurvive == [][WorkerMoves => scaled \subseteq scaled']_vars

\* The manager never removes the HTTPScaledObject CRD while it is in use.
HttpScaledObjectsSurvive == [][WorkerMoves => (hso => hso')]_vars

\* Deleting the CR is refused while HTTPScaledObjects exist.
HsoBlocksUninstall ==
  [][\A k \in Kedas : WorkerMoves /\ server[k] # NoKeda /\ server'[k] = NoKeda => ~hso]_vars

-----------------------------------------------------------------------------
(* The HTTP add-on.                                                        *)

AddonCond(k) == server[k].status.conditions["AddonInstalled"]

WantedAddon(k) ==
  Range(FetchAddonObjs(addonVersion, EffectiveNamespace(server[k].addon), server[k].addon.istio))

\* A CR that rests as Ready and reports the add-on as installed has all of it where the
\* annotations want it, after moves between namespaces, upgrades of the manager,
\* failed cleanups, restarts halfway and objects that somebody removed.  Only the
\* removal of a PeerAuthentication goes unnoticed.
AddonComplete ==
  \A k \in Kedas :
    SettledFor(k) /\ Served(server[k]) /\ server[k].status.state = "Ready"
      /\ AddonCond(k).reason = "HTTPAddonInstalled" =>
      /\ server[k].addon.enabled
      /\ WantedAddon(k) \ PeerAuthentications \subseteq addonObjs
      /\ budget["tamper"] = Budget["tamper"] => WantedAddon(k) \subseteq addonObjs

\* Disabling the add-on removes all of it.
DisabledAddonIsGone ==
  \A k \in Kedas :
    SettledFor(k) /\ Served(server[k])
      /\ AddonCond(k).reason \in {"HTTPAddonDisabled", "HTTPAddonDeleted"} => addonObjs = {}

-----------------------------------------------------------------------------
(* Progress.                                                               *)

\* While CRs exist one of them gets served: a duplicate takes over when the
\* served CR goes (retriggerAllKedaCRs, and the requeue of the filter).
SomeKedaServed ==
  Present(server) # {} ~> (Present(server) = {} \/ \E k \in Kedas : Served(server[k]))

\* The orphan check would fail on a CRD that is gone: the running process never met
\* its kind.
UnknownKind == \E c \in Crds : cluster[c] = Absent /\ c \notin known

\* A deleted CR goes away, also when its users delete the instances of KEDA's CRDs
\* only later.  It stays for good only if instances do, or if a CRD is gone that the
\* running process has never listed: the CR was deleted before anything was installed
\* for it, or a restart came between two passes of its uninstallation.
DeletionCompletes ==
  \A k \in Kedas :
    (server[k] # NoKeda /\ server[k].del) ~>
      (server[k] = NoKeda \/ [](scaled # {} \/ UnknownKind))

\* A CR with a valid spec gets Ready, or its installation failed for good.
InstallCompletes ==
  \A k \in Kedas :
    (server[k] # NoKeda /\ ~server[k].del /\ ~server[k].spec.restricted) ~>
      \/ server[k] = NoKeda \/ server[k].del \/ server[k].spec.restricted
      \/ server[k].status.state = "Ready"
      \/ server[k].status.conditions["Installed"].reason = "ApplyObjError"

\* Once the users are done with a CR that stays, and nothing has failed, its status
\* comes to say what became of the add-on it asks for: installed when enabled, and
\* removed, absent or held back by HTTPScaledObjects when disabled.
AddonConverges ==
  \A k \in Kedas :
    <>[](server[k] # NoKeda /\ ~server[k].del
         /\ budget["edit"] = 0 /\ budget["failure"] = Budget["failure"]) =>
      <>[](server[k] # NoKeda => AddonCond(k).reason \in
             IF server[k].addon.enabled THEN {"HTTPAddonInstalled"}
             ELSE {"HTTPAddonDeleted", "HTTPAddonDisabled", "HTTPAddonInUse"})

\* Events announce changes of conditions, so they end when the changes end.
EventsQuiesce == <>[](emitted = {})

=============================================================================
