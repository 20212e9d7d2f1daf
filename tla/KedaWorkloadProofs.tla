------------------------ MODULE KedaWorkloadProofs -------------------------
(***************************************************************************)
(* What the finalizer of the manager stands for, for every number of CRs,  *)
(* every manifest and reads as stale as can be: when no CR carries it,     *)
(* nothing of KEDA is left.                                                *)
(***************************************************************************)
EXTENDS KedaManagerProofs

\* CR k carries the manager's finalizer.
Held(k) == server[k] # NoKeda /\ server[k].fin

\* The states of a pass that installs KEDA or sees to the add-on, and of one that
\* uninstalls KEDA.
InstallPcs ==
  {"Validate", "Apply", "Verify", "EnsureNamespace", "FetchOld", "CleanupOld", "FetchNew",
   "ApplyAddonObjs", "DropPeerAuthentication", "PersistInstalled", "GuardAddon", "DeleteAddon",
   "DeleteAddonObjs", "PersistDeleted"}
DeletePcs == {"DeleteResources", "CheckCrds", "DeleteObjs", "RemoveFinalizer"}

\* A copy with the finalizer and without deletionTimestamp, in the cache or in the
\* worker's hands, may be old, but the CR still has the finalizer: it is taken off
\* only by a pass that has seen the deletion, and after that pass nobody sees the
\* CR as it was before.
CacheHeld == \A k \in Kedas : cache[k] # NoKeda /\ cache[k].fin /\ ~cache[k].del => Held(k)
CopyHeld == pc # "Idle" /\ inst.fin /\ ~inst.del => Held(key)
DeletionSeen ==
  fresh /\ inst.del => cache[key] # NoKeda /\ cache[key].del /\ server[key].del

\* The path of a pass fits the copy it holds.
PathFits ==
  /\ pc \in InstallPcs => inst.fin /\ ~inst.del
  /\ pc \in DeletePcs => inst.del

FinalizerInv == CacheHeld /\ CopyHeld /\ DeletionSeen /\ PathFits

\* As long as no deletion has failed, what is there is still to be deleted, and
\* the lease comes last: keda-operator may take it again until its Deployment is gone.
Remaining ==
  pc = "DeleteObjs" /\ ~failed =>
    \A o \in Objs : cluster[o] # Absent => \E i \in 1 .. Len(todo) : todo[i] = o
LeaseLast == pc = "DeleteObjs" /\ todo # <<>> => todo[Len(todo)] = OperatorLease

\* The finalizer is taken off when everything is gone.
AllRemoved == pc = "RemoveFinalizer" => \A o \in Objs : cluster[o] = Absent

RemovalInv == Remaining /\ LeaseLast /\ AllRemoved /\ NoOrphanedWorkloads

WorkloadInv == FinalizerInv /\ RemovalInv

-----------------------------------------------------------------------------
(* What a step does to the finalizers.                                     *)

\* No CR loses the finalizer, and none comes back from its deletion.
HeldStep ==
  \A j \in Kedas : /\ Held(j) => Held(j)'
                   /\ server[j] # NoKeda /\ server[j].del /\ server'[j] # NoKeda
                        => server'[j].del

\* The worker goes on with its pass, or ends it.
GoesOn ==
  /\ HeldStep /\ cache' = cache
  /\ \/ pc' = "Idle" /\ fresh' = FALSE
     \/ /\ pc # "Idle" /\ UNCHANGED <<key, fresh>>
        /\ inst'.fin = inst.fin /\ inst'.del = inst.del
        /\ pc' \in InstallPcs => pc \in InstallPcs \/ (pc = "Initialize" /\ inst.fin /\ ~inst.del)
        /\ pc' \in DeletePcs => pc \in DeletePcs \/ (pc = "Initialize" /\ inst.del)

\* Everybody else.
Aside ==
  /\ HeldStep /\ UNCHANGED <<pc, inst, key, todo, failed>>
  /\ fresh' => fresh /\ server'[key] = server[key]
  /\ \A j \in Kedas : \/ cache'[j] = cache[j]
                      \/ cache'[j] = server[j] /\ UNCHANGED server

\* A write of the worker that keeps finalizer and deletionTimestamp.
LEMMA WriteHolds ==
  ASSUME TypeInv, fresh, NEW cr \in Keda, Write(cr),
         cr.del = server[key].del, server[key].fin => cr.fin
  PROVE  HeldStep
<1>1. /\ key \in Kedas /\ cr # NoKeda
      /\ server' = [server EXCEPT ![key] = cr]
      /\ server \in [Kedas -> Keda \cup {NoKeda}]
  BY KedasAssumption DEF Write, TypeInv, TypeOK, ClusterTypeOK, HeldExists
<1> QED
  BY <1>1 DEF HeldStep, Held

\* r.Update of a copy with the finalizer.
LEMMA UpdateHolds ==
  ASSUME TypeInv, CopyAgrees, NEW cr \in Keda, cr.fin, cr.del = inst.del, Update(cr),
         cache' = cache
  PROVE  HeldStep
<1>1. /\ fresh /\ key \in Kedas /\ server \in [Kedas -> Keda \cup {NoKeda}]
      /\ server' = [server EXCEPT ![key] = [cr EXCEPT !.status = server[key].status]]
      /\ server'[key] = [cr EXCEPT !.status = server[key].status] /\ server'[key] # NoKeda
  BY UpdateType DEF TypeInv, TypeOK, ClusterTypeOK
<1>2. server'[key].fin /\ server'[key].del = server[key].del
  BY <1>1 DEF Keda, CopyAgrees, AsWritten
<1>3. \A j \in Kedas \ {key} : server'[j] = server[j]
  BY <1>1
<1> QED
  BY <1>1, <1>2, <1>3 DEF HeldStep, Held

\* The copy a state function stops with has the finalizer and the deletionTimestamp
\* of the one it got.
LEMMA StopCopy ==
  ASSUME inst \in Keda, NEW out, NEW st, StopWith(out, st)
  PROVE  inst'.fin = inst.fin /\ inst'.del = inst.del /\ pc' = "UpdateStatus"
  BY DEF StopWith, Keda

\* A state function that stops, without a write, goes on.
LEMMA StopGoesOn ==
  ASSUME TypeInv, pc # "Idle", NEW out, NEW st, StopWith(out, st),
         UNCHANGED <<server, cache, key, fresh>>
  PROVE  GoesOn
<1>1. HeldStep
  BY DEF HeldStep, Held
<1>2. inst \in Keda
  BY HeldType
<1> QED
  BY <1>1, <1>2, StopCopy DEF GoesOn, InstallPcs, DeletePcs

\* The pass and the installation path.
LEMMA InstallGoesOn ==
  ASSUME TypeInv, CopyAgrees, InstallStep, \A k \in Kedas : ~Reconcile(k)
  PROVE  GoesOn \/ UNCHANGED vars
<1> USE DEF vars, clusterVars, crVars, heldVars, objVars, addonVars, fsmVars, loopVars, cfgVars
<1>a. ASSUME UNCHANGED server PROVE HeldStep
  BY <1>a DEF HeldStep, Held
<1>1. ASSUME NEW k \in Kedas, ReconcileNotFound(k) PROVE UNCHANGED vars
  BY <1>1 DEF ReconcileNotFound
<1>2. CASE UpdateStatusFails \/ Return \/ InitializeGone
  BY <1>2, <1>a DEF UpdateStatusFails, Return, InitializeGone, EndPass, DropPass, GoesOn
<1>3. CASE EmitEvent \/ TakeSnapshot
  BY <1>3, <1>a DEF EmitEvent, TakeSnapshot, SwitchState, GoesOn, InstallPcs, DeletePcs
<1>4. CASE UpdateStatus
  <2>1. inst.status \in Statuses /\ server[key] \in Keda /\ key \in Kedas
    BY <1>4, HeldType DEF UpdateStatus, Keda
  <2>2. /\ [server[key] EXCEPT !.status = inst.status] \in Keda
        /\ [server[key] EXCEPT !.status = inst.status].del = server[key].del
        /\ [server[key] EXCEPT !.status = inst.status].fin = server[key].fin
    BY <2>1 DEF Keda
  <2>3. HeldStep
    BY <1>4, <2>2, WriteHolds DEF UpdateStatus
  <2> QED
    BY <1>4, <2>3 DEF UpdateStatus, SwitchState, GoesOn, InstallPcs, DeletePcs
<1>5. CASE AddFinalizer
  <2>1. /\ [inst EXCEPT !.fin = TRUE] \in Keda
        /\ [inst EXCEPT !.fin = TRUE].del = inst.del
        /\ [inst EXCEPT !.fin = TRUE].fin
    BY <1>5, HeldType DEF AddFinalizer, Keda
  <2>2. HeldStep
    BY <1>5, <2>1, UpdateHolds DEF AddFinalizer
  <2>3. inst \in Keda
    BY <1>5, HeldType DEF AddFinalizer
  <2> QED
    BY <1>5, <2>2, <2>3, StopCopy DEF AddFinalizer, GoesOn, InstallPcs, DeletePcs
<1>6. CASE ServedFilter \/ AddFinalizerFails \/ ValidationFails \/ VerifyNotReady
  BY <1>6, StopGoesOn DEF ServedFilter, AddFinalizerFails, ValidationFails, VerifyNotReady
<1>7. CASE InitializeDone
  BY <1>7, <1>a DEF InitializeDone, SwitchState, GoesOn, InstallPcs, DeletePcs
<1>8. CASE UpdateObjects \/ ApplyObject \/ ApplyObjectFails
  <2>1. CASE UpdateObjects
    <3>1. inst'.fin = inst.fin /\ inst'.del = inst.del
      BY <2>1, HeldType DEF UpdateObjects, Keda
    <3> QED
      BY <2>1, <1>a, <3>1 DEF UpdateObjects, GoesOn, InstallPcs, DeletePcs
  <2>2. CASE ApplyObject \/ ApplyObjectFails
    BY <2>2, <1>a DEF ApplyObject, ApplyObjectFails, GoesOn, InstallPcs, DeletePcs
  <2> QED
    BY <1>8, <2>1, <2>2
<1>9. CASE ApplyDone
  <2>1. CASE failed
    BY <1>9, <2>1, StopGoesOn DEF ApplyDone
  <2>2. CASE ~failed
    BY <1>9, <2>2, <1>a DEF ApplyDone, SwitchState, GoesOn, InstallPcs, DeletePcs
  <2> QED
    BY <2>1, <2>2
<1>10. CASE Verified
  <2>1. inst'.fin = inst.fin /\ inst'.del = inst.del
    BY <1>10, HeldType DEF Verified, Keda
  <2> QED
    BY <1>10, <1>a, <2>1 DEF Verified, GoesOn, InstallPcs, DeletePcs
<1> QED
  BY <1>1, <1>2, <1>3, <1>4, <1>5, <1>6, <1>7, <1>8, <1>9, <1>10 DEF InstallStep

\* The add-on path.
LEMMA AddonGoesOn ==
  ASSUME TypeInv, CopyAgrees, AddonStep
  PROVE  GoesOn /\ UNCHANGED cluster /\ pc' \notin DeletePcs
<1> USE DEF AddonFrame, heldVars, objVars, InstallPcs, DeletePcs
<1>a. inst \in Keda /\ pc # "Idle" /\ pc \in InstallPcs /\ UNCHANGED cluster
  <2>1. pc # "Idle" /\ pc \in InstallPcs /\ UNCHANGED cluster
    BY DEF AddonStep, EnsureNamespace, FetchOld, CleanupOld, FetchNew, ApplyAddonObj,
       ApplyAddonDone, DropPeerAuthentication, PersistInstalled, GuardAddon,
       DeleteAddonNothing, DeleteAddonFetch, DeleteAddonObj, DeleteAddonDone, PersistDeleted
  <2> QED
    BY <2>1, HeldType
<1>b. ASSUME UNCHANGED <<server, cache, key, fresh>>,
             \/ \E out, st : StopWith(out, st)
             \/ \E next \in InstallPcs : SwitchState(next)
             \/ UNCHANGED <<pc, inst>>
      PROVE  GoesOn /\ pc' \notin DeletePcs
  <2>1. HeldStep
    BY <1>b DEF HeldStep, Held
  <2>2. ASSUME NEW out, NEW st, StopWith(out, st) PROVE GoesOn /\ pc' \notin DeletePcs
    BY <2>2, <1>a, <1>b, StopGoesOn, StopCopy
  <2>3. ASSUME NEW next \in InstallPcs, SwitchState(next)
        PROVE  GoesOn /\ pc' \notin DeletePcs
    BY <2>1, <2>3, <1>a, <1>b DEF GoesOn, SwitchState
  <2> QED
    BY <2>1, <2>2, <2>3, <1>a, <1>b DEF GoesOn
<1>c. ASSUME NEW installed \in InstalledTypes, NEW status, NEW reason,
             PersistAnnotations(installed, status, reason), UNCHANGED <<cache, key, fresh>>,
             pc \in {"PersistInstalled", "PersistDeleted"}
      PROVE  GoesOn /\ pc' \notin DeletePcs
  <2>1. inst'.fin = inst.fin /\ inst'.del = inst.del /\ pc' = "UpdateStatus"
    BY <1>a, <1>c DEF PersistAnnotations, Keda
  <2>2. HeldStep
    <3>1. CASE UNCHANGED server
      BY <3>1 DEF HeldStep, Held
    <3>2. CASE Update([inst EXCEPT !.installed = installed])
      <4>1. /\ [inst EXCEPT !.installed = installed] \in Keda
            /\ [inst EXCEPT !.installed = installed].del = inst.del
            /\ [inst EXCEPT !.installed = installed].fin
        BY <1>a, <1>c DEF TypeInv, Finalized, Pcs, Keda
      <4> QED
        BY <1>c, <3>2, <4>1, UpdateHolds
    <3> QED
      BY <1>c, <3>1, <3>2 DEF PersistAnnotations
  <2> QED
    BY <2>1, <2>2, <1>a, <1>c DEF GoesOn
<1>1. CASE EnsureNamespace \/ FetchOld \/ FetchNew \/ GuardAddon
  BY <1>1, <1>b DEF EnsureNamespace, FetchOld, FetchNew, GuardAddon, AddonStop, AddonInUse, Pcs
<1>2. CASE CleanupOld \/ DropPeerAuthentication
  BY <1>2, <1>b DEF CleanupOld, DropPeerAuthentication, AddonStop, Pcs
<1>3. CASE ApplyAddonObj \/ DeleteAddonObj
  BY <1>3, <1>b DEF ApplyAddonObj, DeleteAddonObj
<1>4. CASE ApplyAddonDone
  BY <1>4, <1>b DEF ApplyAddonDone, AddonStop, Pcs
<1>5. CASE DeleteAddonNothing \/ DeleteAddonFetch \/ DeleteAddonDone
  BY <1>5, <1>b DEF DeleteAddonNothing, DeleteAddonFetch, DeleteAddonDone, AddonStop, Pcs
<1>6. CASE PersistInstalled
  <2>1. [version |-> addonVersion, namespace |-> TargetNS] \in InstalledTypes
    BY <1>a, NamespaceType DEF InstalledTypes, TypeInv, TypeOK, FsmTypeOK
  <2> QED
    BY <1>6, <1>c, <2>1 DEF PersistInstalled
<1>7. CASE PersistDeleted
  <2>1. [version |-> "", namespace |-> ""] \in InstalledTypes
    BY DEF InstalledTypes
  <2> QED
    BY <1>7, <1>c, <2>1 DEF PersistDeleted
<1> QED
  BY <1>a, <1>1, <1>2, <1>3, <1>4, <1>5, <1>6, <1>7 DEF AddonStep

\* The deletion path, apart from its last step.
LEMMA DeleteGoesOn ==
  ASSUME TypeInv, DeleteStep, ~RemoveFinalizer
  PROVE  GoesOn
<1> USE DEF DeleteFrame, CheckFrame, clusterVars, crVars, heldVars, InstallPcs, DeletePcs
<1>a. UNCHANGED <<server, cache>> /\ HeldStep
  <2>1. UNCHANGED <<server, cache>>
    BY DEF DeleteStep, DeleteResources, CheckCrd, CheckCrdBlocks, DeleteAddonLeftovers,
       DeleteObj, DeleteObjFails, DeleteDone, RemoveFinalizerFails
  <2> QED
    BY <2>1 DEF HeldStep, Held
<1>b. ASSUME NEW out, NEW st, StopWith(out, st), pc \in DeletePcs, UNCHANGED <<key, fresh>>
      PROVE  GoesOn
  BY <1>a, <1>b, StopGoesOn
<1>c. ASSUME NEW next \in DeletePcs, SwitchState(next), pc \in DeletePcs, UNCHANGED <<key, fresh>>
      PROVE  GoesOn
  BY <1>a, <1>c DEF GoesOn, SwitchState
<1>1. CASE DeleteResources
  BY <1>1, <1>b, <1>c DEF DeleteResources, DeletionStop
<1>2. CASE CheckCrd \/ DeleteObj \/ DeleteObjFails
  BY <1>2, <1>a DEF CheckCrd, DeleteObj, DeleteObjFails, GoesOn
<1>3. CASE CheckCrdBlocks
  BY <1>3, <1>b DEF CheckCrdBlocks, DeletionStop
<1>4. CASE DeleteAddonLeftovers
  BY <1>4, <1>b, <1>c DEF DeleteAddonLeftovers, DeletionStop
<1>5. CASE DeleteDone
  BY <1>5, <1>b, <1>c DEF DeleteDone, DeletionStop
<1>6. CASE RemoveFinalizerFails
  BY <1>6, <1>a DEF RemoveFinalizerFails, EndPass, DropPass, GoesOn
<1> QED
  BY <1>1, <1>2, <1>3, <1>4, <1>5, <1>6 DEF DeleteStep

\* Users leave the finalizer alone, and what they delete stays deleted.
LEMMA UserWriteAside ==
  ASSUME TypeInv, NEW k \in Kedas, NEW cr, UserWrite(k, cr), UNCHANGED fsmVars,
         \/ server[k] = NoKeda
         \/ cr = NoKeda /\ ~server[k].fin
         \/ cr # NoKeda /\ cr.fin = server[k].fin /\ (server[k].del => cr.del)
  PROVE  Aside
<1>1. /\ server' = [server EXCEPT ![k] = cr]
      /\ server \in [Kedas -> Keda \cup {NoKeda}]
      /\ UNCHANGED <<pc, inst, key, cache, todo, failed>>
      /\ fresh' => fresh /\ key # k
  BY DEF UserWrite, TypeInv, TypeOK, ClusterTypeOK, fsmVars, loopVars
<1>2. HeldStep
  BY <1>1 DEF HeldStep, Held
<1>3. fresh' => fresh /\ server'[key] = server[key]
  BY <1>1, HeldType
<1> QED
  BY <1>1, <1>2, <1>3 DEF Aside

\* Users, failures, informers, handlers and rollouts.
LEMMA OutsideAside ==
  ASSUME TypeInv, OutsideStep \/ SystemStep
  PROVE  Aside
<1>a. UNCHANGED fsmVars
  BY DEF OutsideStep, SystemStep
<1>b. \A k \in Kedas : server[k] # NoKeda => server[k] \in Keda
  BY DEF TypeInv, TypeOK, ClusterTypeOK
<1>c. ASSUME UNCHANGED <<crVars, heldVars>> \/ UNCHANGED <<server, cache, key, fresh>>
      PROVE  Aside
  BY <1>a, <1>c DEF Aside, HeldStep, Held, crVars, heldVars, fsmVars, loopVars
<1>1. ASSUME NEW k \in Kedas, CreateKeda(k) PROVE Aside
  BY <1>1, <1>a, UserWriteAside DEF CreateKeda
<1>2. ASSUME NEW k \in Kedas, NEW cr \in Keda, UserWrite(k, cr),
             cr.fin = server[k].fin, cr.del = server[k].del
      PROVE  Aside
  BY <1>2, <1>a, UserWriteAside, KedasAssumption
<1>3. ASSUME NEW k \in Kedas, EditSpec(k) PROVE Aside
  <2>1. PICK s \in Specs : UserWrite(k, [server[k] EXCEPT !.spec = s])
    BY <1>3 DEF EditSpec
  <2>2. /\ [server[k] EXCEPT !.spec = s] \in Keda
        /\ [server[k] EXCEPT !.spec = s].fin = server[k].fin
        /\ [server[k] EXCEPT !.spec = s].del = server[k].del
    BY <1>3, <1>b, SpecsAssumption DEF EditSpec, Keda
  <2> QED
    BY <1>2, <2>1, <2>2
<1>4. ASSUME NEW k \in Kedas, EditAddon(k) PROVE Aside
  <2>1. PICK a \in AddonCfgs : UserWrite(k, [server[k] EXCEPT !.addon = a])
    BY <1>4 DEF EditAddon
  <2>2. /\ [server[k] EXCEPT !.addon = a] \in Keda
        /\ [server[k] EXCEPT !.addon = a].fin = server[k].fin
        /\ [server[k] EXCEPT !.addon = a].del = server[k].del
    BY <1>4, <1>b, SpecsAssumption DEF EditAddon, Keda
  <2> QED
    BY <1>2, <2>1, <2>2
<1>5. ASSUME NEW k \in Kedas, NEW cr \in Keda, UserWrite(k, Stored(cr)),
             cr.fin = server[k].fin, cr.del
      PROVE  Aside
  <2>1. \/ Stored(cr) = NoKeda /\ ~server[k].fin
        \/ Stored(cr) = cr /\ cr # NoKeda
    BY <1>5, KedasAssumption DEF Stored
  <2> QED
    BY <1>5, <1>a, <2>1, UserWriteAside
<1>6. ASSUME NEW k \in Kedas, DeleteKeda(k) PROVE Aside
  <2>1. /\ [server[k] EXCEPT !.del = TRUE] \in Keda
        /\ [server[k] EXCEPT !.del = TRUE].fin = server[k].fin
        /\ [server[k] EXCEPT !.del = TRUE].del
    BY <1>6, <1>b DEF DeleteKeda, Keda
  <2> QED
    BY <1>5, <1>6, <2>1 DEF DeleteKeda
<1>7. ASSUME NEW k \in Kedas, DropExtFinalizer(k) PROVE Aside
  <2>1. /\ [server[k] EXCEPT !.ext = FALSE] \in Keda
        /\ [server[k] EXCEPT !.ext = FALSE].fin = server[k].fin
        /\ [server[k] EXCEPT !.ext = FALSE].del
    BY <1>7, <1>b DEF DropExtFinalizer, Keda
  <2> QED
    BY <1>5, <1>7, <2>1 DEF DropExtFinalizer
<1>8. ASSUME NEW o, Tamper(o) \/ TamperAddon(o) \/ DeploymentDegrades(o) \/ DeploymentReady(o)
      PROVE  Aside
  BY <1>8, <1>c DEF Tamper, TamperAddon, DeploymentDegrades, DeploymentReady
<1>9. ASSUME NEW o, AcquireLease \/ CreateScaled(o) \/ DeleteScaled(o) \/ CreateHso \/ DeleteHso
      PROVE  Aside
  BY <1>9, <1>c DEF AcquireLease, CreateScaled, DeleteScaled, CreateHso, DeleteHso
<1>10. ASSUME NEW o, MapFunction(o) PROVE Aside
  BY <1>10, <1>c DEF MapFunction
<1>11. ASSUME NEW k \in Kedas, CacheSync(k) PROVE Aside
  <2>1. /\ cache' = [cache EXCEPT ![k] = server[k]] /\ UNCHANGED <<server, key, fresh>>
        /\ cache \in [Kedas -> Keda \cup {NoKeda}]
    BY <1>11 DEF CacheSync, TypeInv, TypeOK, ClusterTypeOK
  <2>2. \A j \in Kedas : cache'[j] = cache[j] \/ (cache'[j] = server[j] /\ UNCHANGED server)
    BY <2>1
  <2> QED
    BY <1>a, <2>1, <2>2 DEF Aside, HeldStep, Held, fsmVars, loopVars
<1> QED
  BY <1>1, <1>3, <1>4, <1>6, <1>7, <1>8, <1>9, <1>10, <1>11 DEF OutsideStep, SystemStep

\* So every step is one of these.
LEMMA HeldStepKinds ==
  ASSUME TypeInv, CopyAgrees, [Next]_vars
  PROVE  \/ \E k \in Kedas : Reconcile(k)
         \/ RemoveFinalizer \/ Restart
         \/ GoesOn \/ Aside \/ UNCHANGED vars
  BY InstallGoesOn, AddonGoesOn, DeleteGoesOn, OutsideAside DEF Next, WorkerStep

-----------------------------------------------------------------------------
(* Old copies do not mislead about the finalizer.                          *)

\* Every step keeps FinalizerInv.
LEMMA FinalizerInvStep ==
  ASSUME TypeInv, TypeInv', CopyAgrees, FinalizerInv, [Next]_vars
  PROVE  FinalizerInv'
<1> USE DEF FinalizerInv
<1>a. /\ pc # "Idle" => key \in Kedas /\ inst \in Keda
      /\ fresh => key \in Kedas /\ server[key] # NoKeda
      /\ fresh' => server'[key'] # NoKeda
      /\ (pc # "Idle")' => key' \in Kedas
      /\ pc = "Idle" <=> key = NoKeda
      /\ NoKeda \notin Kedas
  BY KedasAssumption DEF TypeInv, TypeOK, ClusterTypeOK, FsmTypeOK, HeldExists
<1>1. ASSUME NEW k \in Kedas, Reconcile(k) PROVE FinalizerInv'
  <2>1. /\ UNCHANGED <<server, cache>>
        /\ key' = k /\ inst' = cache[k] /\ pc' = "ServedFilter" /\ cache[k] # NoKeda
        /\ fresh' => cache[k] = server[k]
    BY <1>1 DEF Reconcile, TypeInv, CacheAgrees
  <2> QED
    BY <2>1 DEF CacheHeld, CopyHeld, DeletionSeen, PathFits, Held, InstallPcs, DeletePcs
<1>2. CASE RemoveFinalizer
  <2>1. /\ fresh /\ inst.del /\ key \in Kedas
        /\ pc' = "Idle" /\ fresh' = FALSE /\ cache' = cache
        /\ \A j \in Kedas \ {key} : server'[j] = server[j]
        /\ cache[key].del
    BY <1>2, <1>a DEF RemoveFinalizer, EndPass, DropPass, Update, Write, PathFits, DeletePcs, DeletionSeen,
       TypeInv, TypeOK, ClusterTypeOK
  <2> QED
    BY <2>1 DEF CacheHeld, CopyHeld, DeletionSeen, PathFits, Held, InstallPcs, DeletePcs
<1>3. CASE Restart
  <2>1. UNCHANGED server /\ cache' = server /\ pc' = "Idle" /\ fresh' = FALSE
    BY <1>3 DEF Restart, DropPass
  <2> QED
    BY <2>1 DEF CacheHeld, CopyHeld, DeletionSeen, PathFits, Held, InstallPcs, DeletePcs
<1>4. CASE GoesOn
  <2>1. CacheHeld'
    BY <1>4 DEF GoesOn, CacheHeld, HeldStep
  <2>2. CASE pc' = "Idle" /\ fresh' = FALSE
    BY <2>1, <2>2 DEF CopyHeld, DeletionSeen, PathFits, InstallPcs, DeletePcs
  <2>3. CASE ~(pc' = "Idle" /\ fresh' = FALSE)
    <3>1. /\ pc # "Idle" /\ UNCHANGED <<key, fresh, cache>> /\ key \in Kedas
          /\ inst'.fin = inst.fin /\ inst'.del = inst.del
      BY <1>4, <2>3, <1>a DEF GoesOn
    <3>2. CopyHeld'
      BY <1>4, <3>1 DEF GoesOn, HeldStep, CopyHeld
    <3>3. DeletionSeen'
      BY <1>4, <3>1, <1>a DEF GoesOn, HeldStep, DeletionSeen
    <3>4. PathFits'
      BY <1>4, <2>3, <3>1 DEF GoesOn, PathFits, InstallPcs, DeletePcs
    <3> QED
      BY <2>1, <3>2, <3>3, <3>4
  <2> QED
    BY <2>2, <2>3
<1>5. CASE Aside
  <2>1. CacheHeld'
    BY <1>5 DEF Aside, CacheHeld, HeldStep, Held
  <2>2. CopyHeld' /\ PathFits'
    BY <1>5, <1>a DEF Aside, CopyHeld, PathFits, HeldStep
  <2>3. DeletionSeen'
    BY <1>5, <1>a DEF Aside, DeletionSeen
  <2> QED
    BY <2>1, <2>2, <2>3
<1>6. CASE UNCHANGED vars
  BY <1>6 DEF vars, clusterVars, crVars, heldVars, fsmVars, CacheHeld, CopyHeld, DeletionSeen,
     PathFits, Held
<1> QED
  BY <1>1, <1>2, <1>3, <1>4, <1>5, <1>6, HeldStepKinds

-----------------------------------------------------------------------------
(* The finalizer stands for the workloads.                                 *)

\* The worker changes nothing in the cluster and is not deleting afterwards.
Elsewhere == UNCHANGED cluster /\ pc' \notin {"DeleteObjs", "RemoveFinalizer"}

\* What the worker's steps do to the workloads.
LEMMA WorkerKinds ==
  ASSUME TypeInv, CopyAgrees, WorkerStep
  PROVE  \/ ApplyObject \/ DeleteAddonLeftovers \/ DeleteObj \/ DeleteObjFails
         \/ DeleteDone \/ RemoveFinalizer \/ Elsewhere
<1> USE DEF clusterVars, objVars
<1>1. ASSUME InstallStep, ~ApplyObject PROVE Elsewhere
  <2> USE DEF Elsewhere
  <2>1. ASSUME NEW k \in Kedas, Reconcile(k) \/ ReconcileNotFound(k) PROVE Elsewhere
    BY <2>1 DEF Reconcile, ReconcileNotFound, fsmVars
  <2>2. CASE UpdateStatus \/ UpdateStatusFails \/ EmitEvent \/ Return
    BY <2>2 DEF UpdateStatus, UpdateStatusFails, EmitEvent, Return, SwitchState, EndPass, DropPass
  <2>3. CASE ServedFilter \/ TakeSnapshot \/ AddFinalizer \/ AddFinalizerFails
    BY <2>3 DEF ServedFilter, TakeSnapshot, AddFinalizer, AddFinalizerFails, SwitchState, StopWith
  <2>4. CASE InitializeGone \/ InitializeDone \/ ValidationFails \/ UpdateObjects
    BY <2>4 DEF InitializeGone, InitializeDone, ValidationFails, UpdateObjects, SwitchState,
       StopWith, EndPass, DropPass
  <2>5. CASE ApplyObjectFails \/ ApplyDone \/ VerifyNotReady \/ Verified
    BY <2>5 DEF ApplyObjectFails, ApplyDone, VerifyNotReady, Verified, SwitchState, StopWith
  <2> QED
    BY <1>1, <2>1, <2>2, <2>3, <2>4, <2>5 DEF InstallStep
<1>2. ASSUME AddonStep PROVE Elsewhere
  BY <1>2, AddonGoesOn DEF Elsewhere, DeletePcs
<1>3. CASE DeleteResources \/ CheckCrd \/ CheckCrdBlocks \/ RemoveFinalizerFails
  BY <1>3 DEF DeleteResources, CheckCrd, CheckCrdBlocks, CheckFrame, RemoveFinalizerFails, DeletionStop,
     StopWith, SwitchState, EndPass, DropPass, Elsewhere
<1> QED
  BY <1>1, <1>2, <1>3 DEF WorkerStep, DeleteStep

\* What everybody else's steps do to them.
LEMMA OutsideKinds ==
  ASSUME OutsideStep \/ SystemStep
  PROVE  \/ \E o \in ManifestObjs : Tamper(o)
         \/ AcquireLease
         \/ UNCHANGED cluster
<1> USE DEF objVars
<1>1. ASSUME NEW k \in Kedas,
             \/ CreateKeda(k) \/ EditSpec(k) \/ EditAddon(k) \/ DeleteKeda(k)
             \/ DropExtFinalizer(k) \/ CacheSync(k)
      PROVE  UNCHANGED cluster
  BY <1>1 DEF CreateKeda, EditSpec, EditAddon, DeleteKeda, DropExtFinalizer, CacheSync, UserWrite
<1>2. ASSUME NEW o, \/ TamperAddon(o) \/ MapFunction(o) \/ DeploymentReady(o) \/ DeploymentDegrades(o)
                    \/ CreateScaled(o) \/ DeleteScaled(o) \/ CreateHso \/ DeleteHso
      PROVE  UNCHANGED cluster
  BY <1>2 DEF TamperAddon, MapFunction, DeploymentReady, DeploymentDegrades, CreateScaled, DeleteScaled,
     CreateHso, DeleteHso
<1> QED
  BY <1>1, <1>2 DEF OutsideStep, SystemStep

\* With the finalizers in place and no object new, no workload is orphaned.
LEMMA StillOwned ==
  ASSUME HeldStep, NoOrphanedWorkloads,
         \A o \in Objs : cluster'[o] # Absent => \E p \in Objs : cluster[p] # Absent
  PROVE  NoOrphanedWorkloads'
  BY DEF HeldStep, NoOrphanedWorkloads, Present, Held

\* The list of the last loop has every object, the lease at its end.
LEMMA DeletionList ==
  LET list == ManifestSeq \o <<OperatorLease>>
  IN  /\ list # <<>> => list[Len(list)] = OperatorLease
      /\ \A o \in Objs : \E i \in 1 .. Len(list) : list[i] = o
<1> DEFINE list == ManifestSeq \o <<OperatorLease>>
<1>1. ManifestSeq \in Seq(ManifestObjs)
  BY ManifestAssumption
<1>2. /\ Len(list) = Len(ManifestSeq) + 1 /\ Len(ManifestSeq) \in Nat
      /\ list[Len(ManifestSeq) + 1] = OperatorLease
      /\ \A i \in 1 .. Len(ManifestSeq) : list[i] = ManifestSeq[i]
  BY <1>1
<1>3. ASSUME NEW o \in ManifestObjs PROVE \E i \in 1 .. Len(list) : list[i] = o
  <2>1. PICK i \in 1 .. Len(ManifestSeq) : ManifestSeq[i] = o
    BY <1>1 DEF ManifestObjs, Range
  <2> QED
    BY <1>2, <2>1
<1> QED
  BY <1>2, <1>3 DEF Objs

\* Taking the head off a list loses nothing else, and keeps the last element.
LEMMA TailKeeps ==
  ASSUME NEW S, NEW s \in Seq(S), s # <<>>
  PROVE  /\ \A i \in 1 .. Len(s) : s[i] # Head(s) => \E j \in 1 .. Len(Tail(s)) : Tail(s)[j] = s[i]
         /\ Tail(s) # <<>> => Tail(s)[Len(Tail(s))] = s[Len(s)]
<1>1. /\ Len(s) \in Nat /\ Len(s) > 0 /\ Len(Tail(s)) = Len(s) - 1 /\ Head(s) = s[1]
      /\ \A j \in 1 .. Len(Tail(s)) : Tail(s)[j] = s[j + 1]
  OBVIOUS
<1>2. ASSUME NEW i \in 1 .. Len(s), s[i] # Head(s)
      PROVE  \E j \in 1 .. Len(Tail(s)) : Tail(s)[j] = s[i]
  <2>1. i - 1 \in 1 .. Len(Tail(s)) /\ (i - 1) + 1 = i
    BY <1>1, <1>2
  <2> QED
    BY <1>1, <2>1
<1>3. ASSUME Tail(s) # <<>> PROVE Tail(s)[Len(Tail(s))] = s[Len(s)]
  <2>1. Tail(s) \in Seq(S) /\ Len(Tail(s)) > 0
    BY <1>3
  <2>2. Len(Tail(s)) \in 1 .. Len(Tail(s)) /\ Len(Tail(s)) + 1 = Len(s)
    BY <1>1, <2>1
  <2> QED
    BY <1>1, <2>2
<1> QED
  BY <1>2, <1>3

\* Every step keeps RemovalInv.
LEMMA RemovalInvStep ==
  ASSUME TypeInv, TypeInv', CopyAgrees, FinalizerInv, RemovalInv, [Next]_vars
  PROVE  RemovalInv'
<1> USE DEF RemovalInv
<1>a. /\ cluster \in [Objs -> Contents] /\ todo \in Seq(Objs \cup AddonObjTypes)
      /\ Deployments \subseteq Objs /\ OperatorLease \in Objs /\ ManifestObjs \subseteq Objs
  BY ManifestAssumption DEF TypeInv, TypeOK, ClusterTypeOK, FsmTypeOK, Objs
<1>b. \A k \in Kedas : ~Reconcile(k) \/ UNCHANGED server
  BY DEF Reconcile
<1>c. ASSUME HeldStep, Elsewhere PROVE RemovalInv'
  BY <1>c, StillOwned DEF Elsewhere, Remaining, LeaseLast, AllRemoved
<1>d. HeldStep \/ RemoveFinalizer
  <2>1. UNCHANGED server => HeldStep
    BY DEF HeldStep, Held
  <2> QED
    BY <2>1, <1>b, HeldStepKinds DEF GoesOn, Aside, Restart, vars, clusterVars, crVars
<1>1. CASE ApplyObject
  <2>1. pc' = "Apply" /\ Held(key) /\ Held(key)' /\ key \in Kedas
    <3>1. /\ pc = "Apply" /\ pc' = "Apply" /\ UNCHANGED <<server, key>>
      BY <1>1 DEF ApplyObject, crVars, heldVars
    <3>2. Held(key) /\ key \in Kedas
      BY <3>1, HeldType DEF FinalizerInv, PathFits, CopyHeld, InstallPcs
    <3> QED
      BY <3>1, <3>2 DEF Held
  <2>2. NoOrphanedWorkloads'
    BY <1>1, <2>1 DEF NoOrphanedWorkloads, Present, Held, ApplyObject, heldVars
  <2> QED
    BY <2>1, <2>2 DEF Remaining, LeaseLast, AllRemoved
<1>2. CASE DeleteAddonLeftovers
  <2>1. /\ UNCHANGED cluster /\ HeldStep
        /\ \/ pc' = "DeleteObjs" /\ todo' = ManifestSeq \o <<OperatorLease>>
           \/ pc' = "UpdateStatus"
    BY <1>2, <1>d DEF DeleteAddonLeftovers, RemoveFinalizer, SwitchState, DeletionStop, StopWith,
       objVars
  <2>2. NoOrphanedWorkloads'
    BY <2>1, StillOwned
  <2> QED
    BY <2>1, <2>2, DeletionList DEF Remaining, LeaseLast, AllRemoved
<1>3. CASE DeleteObj
  <2>1. /\ pc = "DeleteObjs" /\ pc' = "DeleteObjs" /\ todo # <<>> /\ todo' = Tail(todo)
        /\ failed' = failed /\ HeldStep
        /\ cluster' = [cluster EXCEPT ![Head(todo)] = Absent]
    BY <1>3, <1>d DEF DeleteObj, RemoveFinalizer
  <2>2. \A o \in Objs : cluster'[o] # Absent => cluster[o] # Absent /\ o # Head(todo)
    BY <1>a, <2>1
  <2>3. Remaining'
    BY <1>a, <2>1, <2>2, TailKeeps DEF Remaining
  <2>4. LeaseLast'
    BY <1>a, <2>1, TailKeeps DEF LeaseLast
  <2>5. NoOrphanedWorkloads'
    BY <2>1, <2>2, StillOwned
  <2> QED
    BY <2>1, <2>3, <2>4, <2>5 DEF AllRemoved
<1>4. CASE DeleteObjFails
  <2>1. /\ pc = "DeleteObjs" /\ pc' = "DeleteObjs" /\ todo # <<>> /\ todo' = Tail(todo)
        /\ failed' = TRUE /\ HeldStep /\ UNCHANGED cluster
    BY <1>4, <1>d DEF DeleteObjFails, RemoveFinalizer, objVars
  <2>2. LeaseLast'
    BY <1>a, <2>1, TailKeeps DEF LeaseLast
  <2>3. NoOrphanedWorkloads'
    BY <2>1, StillOwned
  <2> QED
    BY <2>1, <2>2, <2>3 DEF Remaining, AllRemoved
<1>5. CASE DeleteDone
  <2>1. /\ pc = "DeleteObjs" /\ todo = <<>> /\ UNCHANGED cluster /\ HeldStep
        /\ \/ ~failed /\ pc' = "RemoveFinalizer"
           \/ pc' = "UpdateStatus"
    BY <1>5, <1>d DEF DeleteDone, RemoveFinalizer, SwitchState, DeletionStop, StopWith,
       clusterVars, objVars
  <2>2. AllRemoved'
    BY <2>1 DEF AllRemoved, Remaining
  <2>3. NoOrphanedWorkloads'
    BY <2>1, StillOwned
  <2> QED
    BY <2>1, <2>2, <2>3 DEF Remaining, LeaseLast
<1>6. CASE RemoveFinalizer
  <2>1. pc' = "Idle" /\ UNCHANGED cluster /\ \A o \in Objs : cluster[o] = Absent
    BY <1>6 DEF RemoveFinalizer, EndPass, DropPass, objVars, AllRemoved
  <2> QED
    BY <2>1 DEF Remaining, LeaseLast, AllRemoved, NoOrphanedWorkloads
<1>7. CASE WorkerStep
  <2>1. CASE Elsewhere /\ ~RemoveFinalizer
    BY <1>c, <1>d, <2>1
  <2> QED
    BY <1>1, <1>2, <1>3, <1>4, <1>5, <1>6, <1>7, <2>1, WorkerKinds
<1>8. CASE OutsideStep \/ SystemStep
  <2>1. Aside
    BY <1>8, OutsideAside
  <2>2. /\ UNCHANGED <<pc, todo, failed>> /\ HeldStep
    BY <2>1 DEF Aside
  <2>3. ASSUME \A o \in Objs : cluster'[o] # Absent => cluster[o] # Absent
        PROVE  RemovalInv'
    BY <2>2, <2>3, StillOwned DEF Remaining, LeaseLast, AllRemoved
  <2>4. ASSUME NEW o \in ManifestObjs, Tamper(o) PROVE RemovalInv'
    BY <2>3, <2>4, <1>a DEF Tamper
  <2>5. CASE AcquireLease
    <3>1. PICK d \in Deployments : cluster[d] # Absent
      BY <2>5 DEF AcquireLease
    <3>2. \A o \in Objs \ {OperatorLease} : cluster'[o] = cluster[o]
      BY <2>5, <1>a DEF AcquireLease
    <3>3. Remaining'
      <4> SUFFICES ASSUME pc = "DeleteObjs", ~failed, NEW o \in Objs, cluster'[o] # Absent
                   PROVE  \E i \in 1 .. Len(todo) : todo[i] = o
        BY <2>2 DEF Remaining
      <4>1. \E i \in 1 .. Len(todo) : todo[i] = d
        BY <3>1, <1>a DEF Remaining
      <4>2. todo # <<>> /\ Len(todo) \in 1 .. Len(todo)
        BY <4>1, <1>a
      <4>3. todo[Len(todo)] = OperatorLease
        BY <4>2 DEF LeaseLast
      <4> QED
        BY <3>2, <4>2, <4>3 DEF Remaining
    <3>4. AllRemoved' /\ LeaseLast'
      BY <2>2, <3>1, <1>a DEF AllRemoved, LeaseLast
    <3>5. NoOrphanedWorkloads'
      BY <2>2, <3>1, <1>a, StillOwned
    <3> QED
      BY <3>3, <3>4, <3>5
  <2> QED
    BY <1>8, <2>3, <2>4, <2>5, OutsideKinds
<1>9. CASE Restart
  <2>1. Elsewhere /\ UNCHANGED server
    BY <1>9 DEF Restart, Elsewhere, DropPass
  <2>2. HeldStep
    BY <2>1 DEF HeldStep, Held
  <2> QED
    BY <2>1, <2>2, <1>c
<1>10. CASE UNCHANGED vars
  BY <1>10 DEF vars, clusterVars, crVars, objVars, fsmVars, loopVars, Remaining, LeaseLast,
     AllRemoved, NoOrphanedWorkloads, Present
<1> QED
  BY <1>7, <1>8, <1>9, <1>10 DEF Next

\* WorkloadInv holds throughout.
THEOREM WorkloadInvariant == Spec => []WorkloadInv
<1>1. Init => WorkloadInv
  BY DEF Init, ClusterInit, FsmInit, WorkloadInv, FinalizerInv, RemovalInv, CacheHeld, CopyHeld,
     DeletionSeen, PathFits, InstallPcs, DeletePcs, Remaining, LeaseLast, AllRemoved,
     NoOrphanedWorkloads
<1>2. TypeInv /\ TypeInv' /\ CopyAgrees /\ WorkloadInv /\ [Next]_vars => WorkloadInv'
  BY FinalizerInvStep, RemovalInvStep DEF WorkloadInv
<1> QED
  BY <1>1, <1>2, TypeInvariant, CopyInvariant, PTL DEF Spec

\* Uninstallation and the finalizer keep their promise for any number of CRs, any
\* manifest, stale reads, failing calls and restarts: no CR with the finalizer, no
\* workload of KEDA.
THEOREM NothingOrphaned == Spec => []NoOrphanedWorkloads
<1>1. WorkloadInv => NoOrphanedWorkloads
  BY DEF WorkloadInv, RemovalInv
<1> QED
  BY <1>1, WorkloadInvariant, PTL

-----------------------------------------------------------------------------
(* Old copies do not mislead about the deletion.                           *)

\* A copy marked for deletion stands for a CR that is, or is gone and may have come
\* again; and such a CR has no finalizer that the copy lacks.
DeletionInv ==
  /\ \A k \in Kedas :
       cache[k] # NoKeda /\ cache[k].del /\ server[k] # NoKeda
         => server[k].del /\ (server[k].fin => cache[k].fin)
  /\ pc # "Idle" /\ inst.del /\ Held(key) => server[key].del /\ inst.fin

\* The states of a pass whose r.Update sends a copy with the finalizer.
AddingPcs == {"Initialize", "PersistInstalled", "PersistDeleted"}

\* A CR comes new only once the cache has seen the old one go, and gets the finalizer
\* only from a pass that holds a current copy not marked for deletion.
FinalizerAdded ==
  \A j \in Kedas : server'[j] # NoKeda =>
    /\ server[j] = NoKeda => cache[j] = NoKeda
    /\ server'[j].fin => Held(j) \/ (fresh /\ j = key /\ ~inst.del /\ pc \in AddingPcs)

\* A write of the worker.
LEMMA WriteAdds ==
  ASSUME TypeInv, fresh, NEW cr, Write(cr),
         cr # NoKeda /\ cr.fin => server[key].fin \/ (~inst.del /\ pc \in AddingPcs)
  PROVE  FinalizerAdded
<1>1. /\ key \in Kedas /\ server[key] # NoKeda
      /\ server' = [server EXCEPT ![key] = cr]
      /\ server \in [Kedas -> Keda \cup {NoKeda}]
  BY DEF Write, TypeInv, TypeOK, ClusterTypeOK, HeldExists
<1> QED
  BY <1>1 DEF FinalizerAdded, Held

\* A write of a user.
LEMMA UserWriteAdds ==
  ASSUME TypeInv, NEW k \in Kedas, NEW cr, UserWrite(k, cr),
         server[k] = NoKeda => cache[k] = NoKeda,
         cr # NoKeda /\ cr.fin => Held(k)
  PROVE  FinalizerAdded
<1>1. /\ server' = [server EXCEPT ![k] = cr]
      /\ server \in [Kedas -> Keda \cup {NoKeda}]
  BY DEF UserWrite, TypeInv, TypeOK, ClusterTypeOK
<1> QED
  BY <1>1 DEF FinalizerAdded, Held

\* Only these steps of the worker write a CR.
LEMMA WorkerWriters ==
  ASSUME WorkerStep
  PROVE  \/ UNCHANGED server
         \/ UpdateStatus \/ AddFinalizer \/ PersistInstalled \/ PersistDeleted \/ RemoveFinalizer
<1> USE DEF clusterVars, crVars
<1>1. ASSUME InstallStep, ~UpdateStatus, ~AddFinalizer PROVE UNCHANGED server
  BY <1>1 DEF InstallStep, ReconcileNotFound, Reconcile, UpdateStatusFails, EmitEvent, Return,
     ServedFilter, TakeSnapshot, AddFinalizerFails, InitializeGone, InitializeDone,
     ValidationFails, UpdateObjects, ApplyObject, ApplyObjectFails, ApplyDone, VerifyNotReady,
     Verified
<1>2. ASSUME AddonStep, ~PersistInstalled, ~PersistDeleted PROVE UNCHANGED server
  BY <1>2 DEF AddonStep, EnsureNamespace, FetchOld, CleanupOld, FetchNew, ApplyAddonObj,
     ApplyAddonDone, DropPeerAuthentication, GuardAddon, DeleteAddonNothing, DeleteAddonFetch,
     DeleteAddonObj, DeleteAddonDone
<1>3. ASSUME DeleteStep, ~RemoveFinalizer PROVE UNCHANGED server
  BY <1>3 DEF DeleteStep, DeleteResources, CheckCrd, CheckCrdBlocks, CheckFrame,
     DeleteAddonLeftovers, DeleteObj, DeleteObjFails, DeleteDone, RemoveFinalizerFails
<1> QED
  BY <1>1, <1>2, <1>3 DEF WorkerStep

\* Most steps write no CR.
LEMMA ServerWriters ==
  ASSUME [Next]_vars
  PROVE  \/ UNCHANGED server
         \/ UpdateStatus \/ AddFinalizer \/ PersistInstalled \/ PersistDeleted \/ RemoveFinalizer
         \/ \E k \in Kedas : \/ CreateKeda(k) \/ EditSpec(k) \/ EditAddon(k) \/ DeleteKeda(k)
                             \/ DropExtFinalizer(k)
<1> USE DEF vars, clusterVars, crVars
<1>1. ASSUME NEW o, \/ CacheSync(o) \/ MapFunction(o) \/ DeploymentReady(o) \/ Tamper(o)
                    \/ TamperAddon(o) \/ DeploymentDegrades(o) \/ AcquireLease
                    \/ CreateScaled(o) \/ DeleteScaled(o) \/ CreateHso \/ DeleteHso
      PROVE  UNCHANGED server
  BY <1>1 DEF CacheSync, MapFunction, DeploymentReady, Tamper, TamperAddon, DeploymentDegrades,
     AcquireLease, CreateScaled, DeleteScaled, CreateHso, DeleteHso
<1>2. CASE Restart
  BY <1>2 DEF Restart
<1> QED
  BY <1>1, <1>2, WorkerWriters DEF Next, SystemStep, OutsideStep

\* Every step is of this kind.
LEMMA FinalizerAdds ==
  ASSUME TypeInv, CopyAgrees, FinalizerInv, [Next]_vars
  PROVE  FinalizerAdded
<1>a. \A k \in Kedas : server[k] # NoKeda => server[k] \in Keda
  BY DEF TypeInv, TypeOK, ClusterTypeOK
<1>b. pc # "Idle" => inst \in Keda
  BY HeldType
<1>1. CASE UNCHANGED server
  BY <1>1 DEF FinalizerAdded, Held
<1>2. CASE UpdateStatus
  <2>1. [server[key] EXCEPT !.status = inst.status].fin = server[key].fin
    BY <1>2, HeldType DEF UpdateStatus, Keda
  <2> QED
    BY <1>2, <2>1, WriteAdds DEF UpdateStatus
<1>3. ASSUME NEW cr, Update(cr), ~inst.del, pc \in AddingPcs PROVE FinalizerAdded
  BY <1>3, WriteAdds DEF Update
<1>4. CASE AddFinalizer
  BY <1>3, <1>4 DEF AddFinalizer, AddingPcs
<1>5. CASE PersistInstalled \/ PersistDeleted
  <2>1. ~inst.del /\ pc \in AddingPcs
    BY <1>5 DEF PersistInstalled, PersistDeleted, FinalizerInv, PathFits, InstallPcs, AddingPcs
  <2> QED
    BY <1>1, <1>3, <1>5, <2>1 DEF PersistInstalled, PersistDeleted, PersistAnnotations
<1>6. CASE RemoveFinalizer
  <2> DEFINE cr == [[inst EXCEPT !.fin = FALSE] EXCEPT !.status = server[key].status]
  <2>1. fresh /\ Write(Stored(cr))
    BY <1>6 DEF RemoveFinalizer, Update
  <2>2. ~cr.fin
    BY <1>6, <1>b DEF RemoveFinalizer, Keda
  <2>3. Stored(cr) = NoKeda \/ ~Stored(cr).fin
    BY <2>2 DEF Stored
  <2> HIDE DEF cr
  <2> QED
    BY <2>1, <2>3, WriteAdds
<1>7. ASSUME NEW k \in Kedas, CreateKeda(k) PROVE FinalizerAdded
  BY <1>7, UserWriteAdds DEF CreateKeda
<1>8. ASSUME NEW k \in Kedas, EditSpec(k) \/ EditAddon(k) PROVE FinalizerAdded
  <2>1. \A s : /\ [server[k] EXCEPT !.spec = s].fin = server[k].fin
               /\ [server[k] EXCEPT !.addon = s].fin = server[k].fin
    BY <1>8, <1>a DEF EditSpec, EditAddon, Keda
  <2> QED
    BY <1>8, <2>1, UserWriteAdds DEF EditSpec, EditAddon, Held
<1>9. ASSUME NEW k \in Kedas, DeleteKeda(k) \/ DropExtFinalizer(k) PROVE FinalizerAdded
  <2>1. server[k] # NoKeda
    BY <1>9 DEF DeleteKeda, DropExtFinalizer
  <2>2. /\ [server[k] EXCEPT !.del = TRUE].fin = server[k].fin
        /\ [server[k] EXCEPT !.ext = FALSE].fin = server[k].fin
    BY <1>a, <2>1 DEF Keda
  <2>3. ASSUME NEW cr, cr.fin = server[k].fin, UserWrite(k, Stored(cr)) PROVE FinalizerAdded
    BY <2>1, <2>3, UserWriteAdds DEF Stored, Held
  <2> QED
    BY <1>9, <2>2, <2>3 DEF DeleteKeda, DropExtFinalizer
<1> QED
  BY <1>1, <1>2, <1>4, <1>5, <1>6, <1>7, <1>8, <1>9, ServerWriters

\* Every step keeps DeletionInv.
LEMMA DeletionInvStep ==
  ASSUME TypeInv, TypeInv', CopyAgrees, FinalizerInv, DeletionInv, [Next]_vars
  PROVE  DeletionInv'
<1>a. /\ pc # "Idle" => key \in Kedas /\ inst \in Keda
      /\ pc = "Idle" <=> key = NoKeda
      /\ NoKeda \notin Kedas
      /\ fresh => key \in Kedas /\ server[key] # NoKeda /\ inst.del = server[key].del
  BY KedasAssumption DEF TypeInv, TypeOK, ClusterTypeOK, FsmTypeOK, HeldExists, CopyAgrees, AsWritten
<1>b. FinalizerAdded
  BY FinalizerAdds
<1> DEFINE Cached(k) == cache[k] # NoKeda /\ cache[k].del /\ server[k] # NoKeda
                          => server[k].del /\ (server[k].fin => cache[k].fin)
<1>c. ASSUME HeldStep, NEW k \in Kedas, cache'[k] = cache[k] PROVE Cached(k)'
  BY <1>a, <1>b, <1>c DEF HeldStep, FinalizerAdded, DeletionInv, Held
<1>d. ASSUME HeldStep, pc # "Idle", inst'.del = inst.del, inst'.fin = inst.fin, key' = key
      PROVE  pc' # "Idle" /\ inst'.del /\ Held(key)' => server'[key'].del /\ inst'.fin
  BY <1>a, <1>b, <1>d DEF HeldStep, FinalizerAdded, DeletionInv, Held
<1>1. ASSUME NEW k \in Kedas, Reconcile(k) PROVE DeletionInv'
  <2>1. UNCHANGED <<server, cache>> /\ key' = k /\ inst' = cache[k] /\ cache[k] # NoKeda
    BY <1>1 DEF Reconcile
  <2> QED
    BY <2>1 DEF DeletionInv, Held
<1>2. CASE RemoveFinalizer
  <2> DEFINE cr == [[inst EXCEPT !.fin = FALSE] EXCEPT !.status = server[key].status]
  <2>1. /\ fresh /\ key \in Kedas /\ inst \in Keda /\ inst.del /\ pc' = "Idle" /\ cache' = cache
        /\ server \in [Kedas -> Keda \cup {NoKeda}]
        /\ server' = [server EXCEPT ![key] = Stored(cr)]
    BY <1>2, <1>a DEF RemoveFinalizer, EndPass, DropPass, Update, Write, FinalizerInv, PathFits,
       DeletePcs, TypeInv, TypeOK, ClusterTypeOK
  <2>2. cr.del /\ ~cr.fin
    BY <2>1 DEF Keda
  <2> HIDE DEF cr
  <2>3. \A k \in Kedas : Cached(k)'
    BY <2>1, <2>2 DEF DeletionInv, Stored
  <2> QED
    BY <2>1, <2>3 DEF DeletionInv
<1>3. CASE Restart
  BY <1>3 DEF Restart, DropPass, DeletionInv
<1>4. CASE GoesOn
  <2>1. HeldStep /\ cache' = cache
    BY <1>4 DEF GoesOn
  <2>2. \A k \in Kedas : Cached(k)'
    BY <1>c, <2>1
  <2> QED
    BY <1>4, <1>d, <2>1, <2>2 DEF GoesOn, DeletionInv
<1>5. CASE Aside
  <2>1. HeldStep /\ UNCHANGED <<pc, inst, key>>
    BY <1>5 DEF Aside
  <2>2. \A k \in Kedas : Cached(k)'
    BY <1>5, <1>c, <2>1 DEF Aside
  <2> QED
    BY <1>d, <2>1, <2>2 DEF DeletionInv
<1>6. CASE UNCHANGED vars
  BY <1>6 DEF vars, clusterVars, crVars, heldVars, fsmVars, DeletionInv, Held
<1> QED
  BY <1>1, <1>2, <1>3, <1>4, <1>5, <1>6, HeldStepKinds

\* A copy of a CR that is marked for deletion, however old, tells the truth about the
\* CR that bears the finalizer.
THEOREM DeletionInvariant == Spec => []DeletionInv
<1>1. Init => DeletionInv
  BY DEF Init, ClusterInit, FsmInit, DeletionInv
<1>2. TypeInv /\ TypeInv' /\ CopyAgrees /\ WorkloadInv /\ DeletionInv /\ [Next]_vars => DeletionInv'
  BY DeletionInvStep DEF WorkloadInv
<1> QED
  BY <1>1, <1>2, TypeInvariant, CopyInvariant, WorkloadInvariant, PTL DEF Spec

=============================================================================
