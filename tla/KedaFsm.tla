------------------------------ MODULE KedaFsm ------------------------------
(***************************************************************************)
(* One pass of the reconciler over a Keda CR: controllers.Reconcile reads  *)
(* the CR from the cache and fsm.Run walks the state functions of          *)
(* pkg/reconciler.  This module has the pass itself and the installation   *)
(* path; HttpAddon and KedaDelete have the other two.  Each call to the    *)
(* API server is a step of its own, so users, informers and workloads act  *)
(* between any two of them.  The controller runs one worker.               *)
(***************************************************************************)
EXTENDS KedaCluster

CONSTANT ReadsCatchUp \* TRUE: a pass starts only when the cache is current
ASSUME ReadsCatchUpAssumption == ReadsCatchUp \in BOOLEAN

VARIABLES
  pc,                    \* the state function that runs next
  inst,                  \* systemState.instance
  outcome,               \* result and error carried to the end of the pass
  snap,                  \* systemState.snapshot
  todo,                  \* what is left of the loop over objects
  failed,                \* a call of the loop has failed
  ready, failing,        \* Deployments by the status in their Patch response
  emitted,               \* condition types an event was emitted for
  cfgAddonObjs,          \* Cfg.AddonObjs of this fsm
  manifest,              \* fields of the Deployments held in Cfg.Objs
  addonVersion,          \* DefaultAddonVersion of the running manager
  known                  \* CRDs whose kind the process's RESTMapper has found

loopVars == <<todo, failed, ready, failing>>
cfgVars == <<cfgAddonObjs, manifest, addonVersion, known>>
fsmVars == <<pc, inst, outcome, snap, emitted, loopVars, cfgVars>>

Pcs == {"Idle", "ServedFilter", "Initialize", "Validate", "Apply", "Verify",
        "UpdateStatus", "EmitEvent", "Return",
        "EnsureNamespace", "FetchOld", "CleanupOld", "FetchNew", "ApplyAddonObjs",
        "DropPeerAuthentication", "PersistInstalled", "GuardAddon", "DeleteAddon",
        "DeleteAddonObjs", "PersistDeleted",
        "DeleteResources", "CheckCrds", "DeleteObjs", "RemoveFinalizer"}

Outcomes == {"none", "requeue", "requeueAfter", "error"}

AddonLoops == {"CleanupOld", "ApplyAddonObjs", "DeleteAddonObjs"}

FsmTypeOK ==
  /\ pc \in Pcs
  /\ inst \in Keda \cup {NoKeda}
  /\ pc = "Idle" <=> key = NoKeda
  /\ pc = "Idle" <=> inst = NoKeda
  /\ outcome \in Outcomes
  /\ snap \in Statuses
  /\ todo \in Seq(Objs \cup AddonObjTypes)
  /\ pc \in AddonLoops => todo \in Seq(AddonObjTypes)
  /\ failed \in BOOLEAN
  /\ ready \subseteq Deployments /\ failing \subseteq Deployments
  /\ emitted \subseteq CondTypes
  /\ cfgAddonObjs \in Seq(AddonObjTypes)
  /\ manifest \in Customs
  /\ addonVersion \in Versions
  /\ known \subseteq Crds

FsmInit ==
  /\ pc = "Idle" /\ inst = NoKeda /\ outcome = "none" /\ snap = EmptyStatus
  /\ todo = <<>> /\ failed = FALSE /\ ready = {} /\ failing = {}
  /\ emitted = {} /\ cfgAddonObjs = <<>>
  /\ manifest = Shipped /\ addonVersion \in Versions /\ known = {}

\* systemState and the copy of Cfg are local to a pass.  The manifest is not, since
\* the copies of Cfg.Objs share one array, nor is the RESTMapper of the client: both
\* live as long as the process.
DropPass ==
  /\ pc' = "Idle" /\ inst' = NoKeda /\ outcome' = "none" /\ snap' = EmptyStatus
  /\ todo' = <<>> /\ failed' = FALSE /\ ready' = {} /\ failing' = {}
  /\ emitted' = {} /\ cfgAddonObjs' = <<>>
  /\ key' = NoKeda /\ fresh' = FALSE

-----------------------------------------------------------------------------
(* The pass.                                                               *)

Served(cr) == cr # NoKeda /\ cr.status.served = "True"

\* Not found in the cache: Result{Requeue: true}, the key stays queued.
ReconcileNotFound(k) ==
  /\ pc = "Idle" /\ k \in queue
  /\ cache[k] = NoKeda
  /\ UNCHANGED <<clusterVars, fsmVars>>

Reconcile(k) ==
  /\ pc = "Idle" /\ k \in queue
  /\ ReadsCatchUp => \A j \in Kedas : current[j]
  /\ cache[k] # NoKeda
  /\ queue' = queue \ {k}
  /\ key' = k /\ inst' = cache[k] /\ fresh' = current[k]
  /\ pc' = "ServedFilter"
  /\ UNCHANGED <<server, cache, current, objVars, addonVars, budget,
                 outcome, snap, emitted, loopVars, cfgVars>>

\* The API server stores the CR the worker sends.
Write(cr) ==
  /\ server' = [server EXCEPT ![key] = cr]
  /\ current' = [current EXCEPT ![key] = @ /\ cr = server[key]]

\* Mutant of Update: sent without the resourceVersion.
UpdateUnversioned(cr) ==
  /\ server[key] # NoKeda
  /\ Write(Stored([cr EXCEPT !.status = server[key].status]))

\* r.Update: the whole object is sent, its status left out of account, and
\* refused unless it is at the server's resourceVersion.
Update(cr) ==
  /\ fresh
  /\ Write(Stored([cr EXCEPT !.status = server[key].status]))

\* stopWith...: leave through sFnUpdateStatus(result, err).
StopWith(out, st) ==
  /\ inst' = [inst EXCEPT !.status = st]
  /\ outcome' = out
  /\ pc' = "UpdateStatus"

SwitchState(next) == pc' = next /\ UNCHANGED <<inst, outcome>>

EndPass(out) ==
  /\ DropPass
  /\ queue' = IF out = "none" THEN queue ELSE queue \cup {key}
  /\ UNCHANGED <<manifest, addonVersion, known>>

\* Mutant of UpdateStatus: a patch, which no resourceVersion protects.
UpdateStatusUnprotected ==
  /\ pc = "UpdateStatus"
  /\ server[key] # NoKeda
  /\ Write([server[key] EXCEPT !.status = inst.status])
  /\ SwitchState("EmitEvent")
  /\ UNCHANGED <<cache, queue, heldVars, objVars, addonVars, budget,
                 snap, emitted, loopVars, cfgVars>>

UpdateStatus ==
  /\ pc = "UpdateStatus"
  /\ fresh
  /\ Write([server[key] EXCEPT !.status = inst.status])
  /\ SwitchState("EmitEvent")
  /\ UNCHANGED <<cache, queue, heldVars, objVars, addonVars, budget,
                 snap, emitted, loopVars, cfgVars>>

\* Conflict, not found, or a failing API server: the pass ends with the error
\* and without events.
UpdateStatusFails ==
  /\ pc = "UpdateStatus"
  /\ \/ ~fresh /\ UNCHANGED budget
     \/ Spend("failure")
  /\ EndPass("error")
  /\ UNCHANGED <<server, cache, current, objVars, addonVars>>

\* Mutant of EmitEvent: unchanged conditions are not left out.
EmitEveryCondition ==
  /\ pc = "EmitEvent"
  /\ emitted' = {t \in CondTypes : inst.status.conditions[t] # NoCond}
  /\ SwitchState("Return")
  /\ UNCHANGED <<clusterVars, snap, loopVars, cfgVars>>

EmitEvent ==
  /\ pc = "EmitEvent"
  /\ emitted' = {t \in CondTypes :
                   /\ inst.status.conditions[t] # NoCond
                   /\ inst.status.conditions[t] # snap.conditions[t]}
  /\ SwitchState("Return")
  /\ UNCHANGED <<clusterVars, snap, loopVars, cfgVars>>

Return ==
  /\ pc = "Return"
  /\ EndPass(outcome)
  /\ UNCHANGED <<server, cache, current, objVars, addonVars, budget>>

-----------------------------------------------------------------------------
(* sFnServedFilter ... sFnVerify.                                          *)

\* Mutant of ServedKedas: a served CR that is being deleted does not count.
ServedKedasNotDeleting == {j \in Kedas : Served(cache[j]) /\ ~cache[j].del}

\* findServedKeda lists the cache.
ServedKedas == {j \in Kedas : Served(cache[j])}

\* The status of a CR that was not served, after the list of served ones.
FilteredStatus(st) ==
  IF ServedKedas = {}
  THEN UpdateServed(st, "True")
  ELSE UpdateStateFromErr(UpdateServed(st, "False"), "Installed", "KedaDuplicated")

ServedFilter ==
  /\ pc = "ServedFilter"
  /\ IsNotServed(inst.status)
  /\ \/ StopWith("requeue", FilteredStatus(inst.status)) /\ UNCHANGED budget
     \/ Spend("failure") /\ StopWith("error", inst.status)
  /\ UNCHANGED <<crVars, heldVars, objVars, addonVars, snap, emitted, loopVars, cfgVars>>

TakeSnapshot ==
  /\ pc = "ServedFilter"
  /\ ~IsNotServed(inst.status)
  /\ snap' = inst.status
  /\ SwitchState("Initialize")
  /\ UNCHANGED <<clusterVars, emitted, loopVars, cfgVars>>

AddFinalizer ==
  /\ pc = "Initialize" /\ ~inst.del /\ ~inst.fin
  /\ Update([inst EXCEPT !.fin = TRUE])
  /\ StopWith("requeue", UpdateStateProcessing(inst.status, "Installed", "Initialized"))
  /\ UNCHANGED <<cache, queue, heldVars, objVars, addonVars, budget,
                 snap, emitted, loopVars, cfgVars>>

AddFinalizerFails ==
  /\ pc = "Initialize" /\ ~inst.del /\ ~inst.fin
  /\ \/ ~fresh /\ UNCHANGED budget
     \/ Spend("failure")
  /\ StopWith("error", inst.status)
  /\ UNCHANGED <<crVars, heldVars, objVars, addonVars, snap, emitted, loopVars, cfgVars>>

\* Being deleted without our finalizer (somebody else's keeps the CR): the pass
\* ends, with no status update.
InitializeGone ==
  /\ pc = "Initialize" /\ inst.del /\ ~inst.fin
  /\ EndPass("none")
  /\ UNCHANGED <<server, cache, current, objVars, addonVars, budget>>

\* Mutant of InitializeDone: the finalizer is not waited for.
InitializeDoneUnfinalized ==
  /\ pc = "Initialize"
  /\ SwitchState(IF inst.del THEN "DeleteResources" ELSE "Validate")
  /\ UNCHANGED <<clusterVars, snap, emitted, loopVars, cfgVars>>

InitializeDone ==
  /\ pc = "Initialize" /\ inst.fin
  /\ SwitchState(IF inst.del THEN "DeleteResources" ELSE "Validate")
  /\ UNCHANGED <<clusterVars, snap, emitted, loopVars, cfgVars>>

ValidationFails ==
  /\ pc = "Validate" /\ inst.spec.restricted
  /\ StopWith("error", UpdateStateFromErr(inst.status, "Installed", "ValidationErr"))
  /\ UNCHANGED <<clusterVars, snap, emitted, loopVars, cfgVars>>

\* The chain of buildSfnUpdateObject steps over the three Deployments.  A
\* getter that returns nil (logging, resources, pod annotations left out of
\* the spec) skips its step and what an earlier pass wrote stays in Cfg.Objs;
\* the others (env, istio labels, priority class) write on every pass.
UpdatedManifest(custom) ==
  [f \in Fields |-> IF f \in StickyFields /\ custom[f] = Unset THEN manifest[f] ELSE custom[f]]

\* Sanitize writes through the pointers of the spec, so the instance in memory
\* has the sanitized values from here on, and r.Update sends them.
SanitizedCustom(custom) == [f \in Fields |-> Sanitized[custom[f]]]

UpdateObjects ==
  /\ pc = "Validate" /\ ~inst.spec.restricted
  /\ inst' = [inst EXCEPT !.spec.custom = SanitizedCustom(inst.spec.custom)]
  /\ manifest' = UpdatedManifest(SanitizedCustom(inst.spec.custom))
  /\ todo' = ManifestSeq
  /\ pc' = "Apply"
  /\ UNCHANGED outcome
  /\ UNCHANGED <<clusterVars, snap, emitted, failed, ready, failing, cfgAddonObjs,
                 addonVersion, known>>

Desired(o) == IF o \in Deployments THEN manifest ELSE Shipped

\* One server-side apply; the status of the response is kept for sFnVerify.
ApplyObject ==
  LET o == Head(todo) IN
  /\ pc = "Apply" /\ todo # <<>>
  /\ todo' = Tail(todo)
  /\ cluster' = [cluster EXCEPT ![o] = Desired(o)]
  /\ objEvents' = ObjEventsAfter(o, Desired(o))
  /\ ready' = ready \cup {d \in Deployments \cap {o} : depStatus[d] = "ready"}
  /\ failing' = failing \cup {d \in Deployments \cap {o} : depStatus[d] = "replicaFailure"}
  /\ UNCHANGED <<crVars, heldVars, depStatus, scaled, addonVars, budget,
                 pc, inst, outcome, snap, emitted, failed, cfgVars>>

ApplyObjectFails ==
  /\ pc = "Apply" /\ todo # <<>>
  /\ Spend("failure")
  /\ todo' = Tail(todo)
  /\ failed' = TRUE
  /\ UNCHANGED <<crVars, heldVars, objVars, addonVars,
                 pc, inst, outcome, snap, emitted, ready, failing, cfgVars>>

ApplyDone ==
  /\ pc = "Apply" /\ todo = <<>>
  /\ IF failed
     THEN StopWith("none", UpdateStateFromErr(inst.status, "Installed", "ApplyObjError"))
     ELSE SwitchState("Verify")
  /\ UNCHANGED <<clusterVars, snap, emitted, loopVars, cfgVars>>

\* Mutant of VerifyNotReady: the pass ends without a requeue.
VerifyNotReadyStops ==
  /\ pc = "Verify"
  /\ \/ /\ failing # {}
        /\ StopWith("none", UpdateStateReplicaFailure(inst.status,
                      "DeploymentFailure", "DeploymentReplicaFailure"))
     \/ /\ failing = {} /\ ready # Deployments
        /\ StopWith("none", UpdateStateProcessing(inst.status, "Installed", "Verification"))
  /\ UNCHANGED <<clusterVars, snap, emitted, loopVars, cfgVars>>

VerifyNotReady ==
  /\ pc = "Verify"
  /\ \/ /\ failing # {}
        /\ StopWith("requeueAfter", UpdateStateReplicaFailure(inst.status,
                      "DeploymentFailure", "DeploymentReplicaFailure"))
     \/ /\ failing = {} /\ ready # Deployments
        /\ StopWith("requeueAfter",
                    UpdateStateProcessing(inst.status, "Installed", "Verification"))
  /\ UNCHANGED <<clusterVars, snap, emitted, loopVars, cfgVars>>

VerifiedStatus(st) ==
  UpdateStateReady([RemoveCondition(st, "DeploymentFailure") EXCEPT !.kedaVersion = "installed"],
                   "Installed", "Verified")

\* Verified; sFnHandleAddon chooses between the two paths of HttpAddon.
Verified ==
  /\ pc = "Verify" /\ failing = {} /\ ready = Deployments
  /\ inst' = [inst EXCEPT !.status = VerifiedStatus(inst.status)]
  /\ pc' = IF inst.addon.enabled THEN "EnsureNamespace" ELSE "GuardAddon"
  /\ UNCHANGED <<clusterVars, outcome, snap, emitted, loopVars, cfgVars>>

InstallStep ==
  \/ \E k \in Kedas : ReconcileNotFound(k) \/ Reconcile(k)
  \/ UpdateStatus \/ UpdateStatusFails \/ EmitEvent \/ Return
  \/ ServedFilter \/ TakeSnapshot
  \/ AddFinalizer \/ AddFinalizerFails \/ InitializeGone \/ InitializeDone
  \/ ValidationFails \/ UpdateObjects
  \/ ApplyObject \/ ApplyObjectFails \/ ApplyDone
  \/ VerifyNotReady \/ Verified

=============================================================================
