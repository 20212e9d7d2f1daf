------------------------ MODULE KedaResourceProofs -------------------------
(***************************************************************************)
(* What becomes of the users' resources, for any number of CRs, stale      *)
(* reads, failing calls and restarts: HTTPScaledObjects fall to a move or  *)
(* an upgrade of the add-on, or to its removal when they come after its    *)
(* guard has looked, and to nothing else; ScaledObjects and the like       *)
(* outlive the uninstallation of KEDA if none comes while it runs.         *)
(***************************************************************************)
EXTENDS KedaServedProofs

-----------------------------------------------------------------------------
(* HTTPScaledObjects.                                                      *)

\* The guard has let the removal of the add-on through.
Removing == pc \in {"DeleteAddon", "DeleteAddonObjs"}

\* A step of a pass takes HTTPScaledObjects away only when it cleans up after a move or
\* an upgrade, or removes the add-on.
HsoLost ==
  WorkerMoves /\ hso /\ ~hso' => Removing \/ (pc = "CleanupOld" /\ CleanupNS # "")

\* During a removal there are HTTPScaledObjects only if somebody has created them in it.
HsoLate == Removing' /\ hso' /\ ~(Removing /\ hso) => Removing /\ CreateHso

\* The end of a pass, where Cfg.AddonObjs may be set.
LatePcs == {"UpdateStatus", "EmitEvent", "Return"}

\* Something is there to clean up when it is cleaned up, and before its end a pass knows
\* no add-on objects: the removal and the uninstallation take only what they fetch.
GuardInv ==
  /\ pc \in {"FetchOld", "CleanupOld"} => CleanupNS # ""
  /\ cfgAddonObjs # <<>> => pc \in LatePcs

\* A step that leaves the HTTPScaledObjects and Cfg.AddonObjs alone, and comes to a
\* removal or a cleanup only from its guard.
KeepsClear ==
  /\ UNCHANGED <<hso, cfgAddonObjs>>
  /\ pc' \notin {"FetchOld", "CleanupOld"}
  /\ Removing' => Removing \/ ~hso
  /\ pc \in LatePcs => pc' \in LatePcs

Clear == GuardInv' /\ HsoLost /\ HsoLate

\* Such a step keeps the invariant and the HTTPScaledObjects.
LEMMA ClearKept ==
  ASSUME GuardInv, KeepsClear
  PROVE  Clear
  BY DEF GuardInv, KeepsClear, Clear, HsoLost, HsoLate

\* The installation path.
LEMMA InstallClear ==
  ASSUME TypeInv, GuardInv, InstallStep
  PROVE  Clear
<1> USE DEF clusterVars, addonVars, fsmVars, cfgVars, LatePcs, Removing
<1>a. ASSUME EndPass(outcome) \/ EndPass("error") \/ EndPass("none"), UNCHANGED hso
      PROVE  Clear
  BY <1>a DEF EndPass, DropPass, GuardInv, Clear, HsoLost, HsoLate
<1>1. ASSUME NEW k \in Kedas, Reconcile(k) \/ ReconcileNotFound(k)
      PROVE  Clear
  BY <1>1, ClearKept DEF Reconcile, ReconcileNotFound, KeepsClear
<1>2. CASE UpdateStatusFails \/ Return \/ InitializeGone
  BY <1>2, <1>a DEF UpdateStatusFails, Return, InitializeGone
<1>3. CASE UpdateStatus \/ EmitEvent \/ ServedFilter \/ TakeSnapshot
  BY <1>3, ClearKept DEF UpdateStatus, EmitEvent, ServedFilter, TakeSnapshot, SwitchState,
     StopWith, KeepsClear
<1>4. CASE AddFinalizer \/ AddFinalizerFails \/ InitializeDone \/ ValidationFails
  BY <1>4, ClearKept DEF AddFinalizer, AddFinalizerFails, InitializeDone, ValidationFails,
     SwitchState, StopWith, KeepsClear
<1>5. CASE UpdateObjects \/ ApplyObject \/ ApplyObjectFails \/ ApplyDone
  BY <1>5, ClearKept DEF UpdateObjects, ApplyObject, ApplyObjectFails, ApplyDone,
     SwitchState, StopWith, KeepsClear
<1>6. CASE VerifyNotReady \/ Verified
  BY <1>6, ClearKept DEF VerifyNotReady, Verified, StopWith, KeepsClear
<1> QED
  BY <1>1, <1>2, <1>3, <1>4, <1>5, <1>6 DEF InstallStep

\* The add-on path.
LEMMA AddonClear ==
  ASSUME TypeInv, GuardInv, AddonStep
  PROVE  Clear
<1> USE DEF addonVars, LatePcs, Removing
<1>a. \A ns : PeerAuthentication(ns) # AddonCrd
  BY DEF PeerAuthentication, AddonCrd
<1>b. ASSUME NEW ns, RemoveAddonObj(PeerAuthentication(ns)), hso \in BOOLEAN
      PROVE  hso' = hso
  BY <1>a, <1>b DEF RemoveAddonObj
<1>c. hso \in BOOLEAN
  BY DEF TypeInv, TypeOK, ClusterTypeOK
<1>d. ASSUME UNCHANGED <<inst, addonVersion>> PROVE CleanupNS' = CleanupNS
  BY <1>d DEF CleanupNS, TargetNS
<1>1. CASE EnsureNamespace \/ FetchOld
  <2>1. /\ UNCHANGED <<hso, cfgAddonObjs, addonVersion>>
        /\ pc' \in {"FetchOld", "CleanupOld"} => UNCHANGED inst
        /\ pc' \in {"FetchOld", "CleanupOld"} => CleanupNS # ""
        /\ pc \notin LatePcs /\ ~Removing'
    BY <1>1 DEF EnsureNamespace, FetchOld, SwitchState, AddonStop, StopWith, AddonFrame, GuardInv
  <2> QED
    BY <1>d, <2>1 DEF GuardInv, Clear, HsoLost, HsoLate
<1>1b. CASE CleanupOld
  <2>1. /\ UNCHANGED <<inst, cfgAddonObjs, addonVersion>> /\ (hso' => hso) /\ ~Removing'
        /\ pc = "CleanupOld"
    BY <1>1b, <1>c DEF CleanupOld, SwitchState, RemoveAddonObj, AddonFrame
  <2> QED
    BY <1>d, <2>1 DEF GuardInv, Clear, HsoLost, HsoLate
<1>2. CASE FetchNew \/ ApplyAddonObj \/ ApplyAddonDone
  BY <1>2, ClearKept DEF FetchNew, ApplyAddonObj, ApplyAddonDone, SwitchState, AddonStop,
     StopWith, KeepsClear
<1>3. CASE DropPeerAuthentication
  BY <1>3, <1>b, <1>c, ClearKept DEF DropPeerAuthentication, SwitchState, AddonStop, StopWith,
     KeepsClear
<1>4. CASE PersistInstalled \/ PersistDeleted
  <2>1. hso' = hso /\ pc' = "UpdateStatus"
    BY <1>4 DEF PersistInstalled, PersistDeleted, PersistAnnotations
  <2> QED
    BY <2>1 DEF GuardInv, Clear, HsoLost, HsoLate
<1>5. CASE GuardAddon
  BY <1>5, ClearKept DEF GuardAddon, AddonInUse, SwitchState, StopWith, KeepsClear
<1>6. CASE DeleteAddonNothing \/ DeleteAddonFetch
  BY <1>6, ClearKept DEF DeleteAddonNothing, DeleteAddonFetch, SwitchState, AddonStop, StopWith,
     KeepsClear, GuardInv
<1>7. CASE DeleteAddonObj
  <2>1. UNCHANGED <<pc, cfgAddonObjs>> /\ (hso' => hso) /\ pc = "DeleteAddonObjs"
    BY <1>7, <1>c DEF DeleteAddonObj, RemoveAddonObj
  <2> QED
    BY <2>1 DEF GuardInv, Clear, HsoLost, HsoLate
<1>8. CASE DeleteAddonDone
  BY <1>8, <1>b, <1>c, ClearKept DEF DeleteAddonDone, SwitchState, AddonStop, StopWith, KeepsClear
<1> QED
  BY <1>1, <1>1b, <1>2, <1>3, <1>4, <1>5, <1>6, <1>7, <1>8 DEF AddonStep

\* The deletion path: it finds no add-on objects in Cfg.AddonObjs.
LEMMA DeleteClear ==
  ASSUME TypeInv, GuardInv, DeleteStep
  PROVE  Clear
<1> USE DEF clusterVars, addonVars, cfgVars, DeleteFrame, CheckFrame, LatePcs, Removing
<1>1. CASE DeleteResources
  BY <1>1, ClearKept DEF DeleteResources, DeletionStop, SwitchState, StopWith, KeepsClear
<1>2. CASE CheckCrd \/ CheckCrdBlocks
  BY <1>2, ClearKept DEF CheckCrd, CheckCrdBlocks, DeletionStop, StopWith, KeepsClear
<1>3. CASE DeleteAddonLeftovers
  <2>1. cfgAddonObjs = <<>>
    BY <1>3 DEF DeleteAddonLeftovers, GuardInv
  <2>2. Range(cfgAddonObjs) = {}
    BY <2>1 DEF Range
  <2>3. hso' = hso
    BY <1>3, <2>2 DEF DeleteAddonLeftovers, TypeInv, TypeOK, ClusterTypeOK
  <2> QED
    BY <1>3, <2>3, ClearKept DEF DeleteAddonLeftovers, DeletionStop, SwitchState, StopWith, KeepsClear
<1>4. CASE DeleteObj \/ DeleteObjFails \/ DeleteDone
  BY <1>4, ClearKept DEF DeleteObj, DeleteObjFails, DeleteDone, DeletionStop, SwitchState,
     StopWith, KeepsClear
<1>5. CASE RemoveFinalizer \/ RemoveFinalizerFails
  <2>1. pc' = "Idle" /\ cfgAddonObjs' = <<>> /\ hso' = hso
    BY <1>5 DEF RemoveFinalizer, RemoveFinalizerFails, EndPass, DropPass
  <2> QED
    BY <2>1 DEF GuardInv, Clear, HsoLost, HsoLate
<1> QED
  BY <1>1, <1>2, <1>3, <1>4, <1>5 DEF DeleteStep

\* Everybody else.
LEMMA OutsideClear ==
  ASSUME GuardInv, OutsideStep \/ SystemStep
  PROVE  Clear
<1> USE DEF addonVars, fsmVars, loopVars, cfgVars
<1>a. UNCHANGED fsmVars
  BY DEF OutsideStep, SystemStep
<1>b. GuardInv' /\ HsoLost
  <2>1. CleanupNS' = CleanupNS
    BY <1>a DEF CleanupNS, TargetNS
  <2> QED
    BY <1>a, <2>1 DEF GuardInv, HsoLost, WorkerMoves
<1>c. (hso' => hso) \/ CreateHso
  <2>1. ASSUME NEW k, \/ CreateKeda(k) \/ EditSpec(k) \/ EditAddon(k) \/ DeleteKeda(k)
                      \/ DropExtFinalizer(k) \/ CacheSync(k)
        PROVE  hso' = hso
    BY <2>1 DEF CreateKeda, EditSpec, EditAddon, DeleteKeda, DropExtFinalizer, CacheSync, UserWrite
  <2>2. ASSUME NEW o, \/ Tamper(o) \/ DeploymentDegrades(o) \/ DeploymentReady(o)
                      \/ MapFunction(o) \/ AcquireLease \/ CreateScaled(o) \/ DeleteScaled(o)
        PROVE  hso' = hso
    BY <2>2 DEF Tamper, DeploymentDegrades, DeploymentReady, MapFunction, AcquireLease,
       CreateScaled, DeleteScaled
  <2>3. ASSUME NEW o, TamperAddon(o) \/ DeleteHso PROVE hso' => hso
    BY <2>3 DEF TamperAddon, RemoveAddonObj, DeleteHso
  <2> QED
    BY <2>1, <2>2, <2>3 DEF OutsideStep, SystemStep
<1> QED
  BY <1>a, <1>b, <1>c DEF Clear, HsoLate, Removing

\* Every step.
LEMMA GuardInvStep ==
  ASSUME TypeInv, GuardInv, [Next]_vars
  PROVE  Clear
<1>1. CASE Restart
  BY <1>1 DEF Restart, DropPass, GuardInv, addonVars, Clear, HsoLost, HsoLate, Removing
<1>2. CASE UNCHANGED vars
  BY <1>2 DEF vars, clusterVars, addonVars, fsmVars, loopVars, cfgVars, GuardInv, Clear, HsoLost,
     HsoLate, Removing, CleanupNS, TargetNS, WorkerMoves
<1> QED
  BY <1>1, <1>2, InstallClear, AddonClear, DeleteClear, OutsideClear DEF Next, WorkerStep

\* The manager takes HTTPScaledObjects away in two ways only, whatever users do and
\* whichever calls fail: by cleaning up after a move or an upgrade, and by a removal
\* of the add-on, where they fall only if they were created after the guard had found
\* none.  A list of the guard that fails counts as one that found some, and a pass that
\* deletes the CR leaves the CRD of the add-on alone.
THEOREM HsoLosses == Spec => [][HsoLost /\ HsoLate]_vars
<1>1. Init => GuardInv
  BY DEF Init, FsmInit, GuardInv
<1>2. TypeInv /\ GuardInv /\ [Next]_vars => GuardInv'
  BY GuardInvStep DEF Clear
<1>3. TypeInv /\ GuardInv /\ [Next]_vars => [HsoLost /\ HsoLate]_vars
  BY GuardInvStep DEF Clear
<1> QED
  BY <1>1, <1>2, <1>3, TypeInvariant, PTL DEF Spec

-----------------------------------------------------------------------------
(* ScaledObjects and other instances of KEDA's CRDs.                       *)

\* CRDs that have instances are still to be looked at, and once all of them have been
\* looked at there are no instances, although nobody locks anything.
CheckedInv ==
  /\ pc = "CheckCrds" => \A c \in scaled : \E i \in 1 .. Len(todo) : todo[i] = c
  /\ pc = "DeleteObjs" => scaled = {}

\* The pass that uninstalls runs for a CR with the finalizer, unless no CR has it.
SoleHolder == pc \in DeletePcs => Held(key) \/ \A j \in Kedas : ~Held(j)

\* For then nobody else bears a mark.
LEMMA HolderIsSole ==
  ASSUME TypeInv, MarkInv, HeldServed, OneMark
  PROVE  SoleHolder
<1>1. pc \in DeletePcs => key \in Kedas /\ Marked(key)
  BY HeldType DEF DeletePcs, OwnerPcs, Pcs, MarkInv, PassMarked, Marked
<1> QED
  BY <1>1 DEF SoleHolder, HeldServed, OneMark, Marked

\* While the CRDs are looked at or deleted a careful user creates no instance: a CR is
\* marked for deletion, or nothing of KEDA is left.
LEMMA NobodyCreates ==
  ASSUME TypeInv, CarefulUsers, FinalizerInv, NoOrphanedWorkloads, DeletionInv, SoleHolder,
         NEW c \in Crds, CreateScaled(c)
  PROVE  pc \notin {"CheckCrds", "DeleteObjs"}
<1> SUFFICES ASSUME pc \in {"CheckCrds", "DeleteObjs"} PROVE FALSE
  OBVIOUS
<1>1. inst.del /\ key \in Kedas
  BY HeldType DEF FinalizerInv, PathFits, DeletePcs
<1>2. CASE Held(key)
  <2>1. server[key].del /\ key \in Present(server)
    BY <1>1, <1>2 DEF DeletionInv, Held, Present
  <2> QED
    BY <2>1 DEF CreateScaled
<1>3. CASE \A j \in Kedas : ~Held(j)
  <2>1. c \in Objs
    BY ManifestAssumption DEF Objs
  <2> QED
    BY <1>3, <2>1 DEF NoOrphanedWorkloads, Present, Held, CreateScaled
<1> QED
  BY <1>2, <1>3 DEF SoleHolder, DeletePcs

\* The worker's steps off the deletion path.
LEMMA InstallUnchecked ==
  ASSUME TypeInv, CopyAgrees, InstallStep \/ AddonStep
  PROVE  UNCHANGED scaled /\ pc' \notin {"CheckCrds", "DeleteObjs"}
<1> USE DEF clusterVars, objVars, fsmVars, AddonFrame
<1>1. ASSUME NEW k \in Kedas, Reconcile(k) \/ ReconcileNotFound(k)
      PROVE  UNCHANGED scaled /\ pc' \notin {"CheckCrds", "DeleteObjs"}
  BY <1>1 DEF Reconcile, ReconcileNotFound
<1>2. ASSUME UpdateStatus \/ UpdateStatusFails \/ EmitEvent \/ Return \/ InitializeGone
      PROVE  UNCHANGED scaled /\ pc' \notin {"CheckCrds", "DeleteObjs"}
  BY <1>2 DEF UpdateStatus, UpdateStatusFails, EmitEvent, Return, InitializeGone, SwitchState,
     EndPass, DropPass
<1>3. ASSUME \/ ServedFilter \/ TakeSnapshot \/ AddFinalizer \/ AddFinalizerFails
             \/ InitializeDone \/ ValidationFails
      PROVE  UNCHANGED scaled /\ pc' \notin {"CheckCrds", "DeleteObjs"}
  BY <1>3 DEF ServedFilter, TakeSnapshot, AddFinalizer, AddFinalizerFails, InitializeDone,
     ValidationFails, SwitchState, StopWith
<1>4. ASSUME \/ UpdateObjects \/ ApplyObject \/ ApplyObjectFails \/ ApplyDone
             \/ VerifyNotReady \/ Verified
      PROVE  UNCHANGED scaled /\ pc' \notin {"CheckCrds", "DeleteObjs"}
  BY <1>4 DEF UpdateObjects, ApplyObject, ApplyObjectFails, ApplyDone, VerifyNotReady, Verified,
     SwitchState, StopWith
<1>5. ASSUME AddonStep
      PROVE  UNCHANGED scaled /\ pc' \notin {"CheckCrds", "DeleteObjs"}
  <2>1. UNCHANGED scaled
    BY <1>5 DEF AddonStep, EnsureNamespace, FetchOld, CleanupOld, FetchNew, ApplyAddonObj,
       ApplyAddonDone, DropPeerAuthentication, PersistInstalled, GuardAddon,
       DeleteAddonNothing, DeleteAddonFetch, DeleteAddonObj, DeleteAddonDone, PersistDeleted
  <2> QED
    BY <1>5, <2>1, AddonGoesOn DEF DeletePcs
<1> QED
  BY <1>1, <1>2, <1>3, <1>4, <1>5 DEF InstallStep

\* The deletion path: each CRD is looked at before the first object is deleted.
LEMMA DeleteChecked ==
  ASSUME TypeInv, CheckedInv, DeleteStep
  PROVE  CheckedInv' /\ scaled \subseteq scaled'
<1> USE DEF clusterVars, objVars
<1>a. todo \in Seq(Objs \cup AddonObjTypes) /\ scaled \subseteq Crds
  BY DEF TypeInv, TypeOK, ClusterTypeOK, FsmTypeOK
<1>b. ASSUME UNCHANGED scaled, pc' \notin {"CheckCrds", "DeleteObjs"}
      PROVE  CheckedInv' /\ scaled \subseteq scaled'
  BY <1>b DEF CheckedInv
<1>1. CASE DeleteResources
  <2>1. CASE pc' = "CheckCrds" /\ todo' = ManifestSeq /\ UNCHANGED scaled
    <3>1. \A c \in Crds : \E i \in 1 .. Len(ManifestSeq) : ManifestSeq[i] = c
      BY ManifestAssumption DEF ManifestObjs, Range
    <3> QED
      BY <1>a, <2>1, <3>1 DEF CheckedInv
  <2> QED
    BY <1>1, <1>b, <2>1 DEF DeleteResources, DeletionStop, SwitchState, StopWith
<1>2. CASE CheckCrd
  <2>1. /\ pc = "CheckCrds" /\ pc' = "CheckCrds" /\ todo # <<>> /\ todo' = Tail(todo)
        /\ Head(todo) \notin scaled /\ UNCHANGED scaled
    BY <1>2 DEF CheckCrd, CheckFrame
  <2>2. \A c \in scaled : \E i \in 1 .. Len(todo) : todo[i] = c /\ todo[i] # Head(todo)
    BY <2>1 DEF CheckedInv
  <2>3. \A i \in 1 .. Len(todo) :
          todo[i] # Head(todo) => \E j \in 1 .. Len(Tail(todo)) : Tail(todo)[j] = todo[i]
    BY <1>a, <2>1, TailKeeps
  <2>4. \A c \in scaled : \E i \in 1 .. Len(Tail(todo)) : Tail(todo)[i] = c
    BY <2>2, <2>3
  <2> QED
    BY <2>1, <2>4 DEF CheckedInv
<1>3. CASE CheckCrdBlocks \/ DeleteDone \/ RemoveFinalizer \/ RemoveFinalizerFails
  BY <1>3, <1>b DEF CheckCrdBlocks, CheckFrame, DeleteDone, RemoveFinalizer, RemoveFinalizerFails,
     DeletionStop, SwitchState, StopWith, EndPass, DropPass
<1>4. CASE DeleteAddonLeftovers
  <2>1. /\ pc = "CheckCrds" /\ todo = <<>> /\ UNCHANGED scaled /\ pc' \in {"DeleteObjs", "UpdateStatus"}
    BY <1>4 DEF DeleteAddonLeftovers, DeletionStop, SwitchState, StopWith
  <2>2. scaled = {}
    BY <2>1 DEF CheckedInv
  <2> QED
    BY <2>1, <2>2 DEF CheckedInv
<1>5. CASE DeleteObj \/ DeleteObjFails
  <2>1. pc = "DeleteObjs" /\ pc' = "DeleteObjs" /\ scaled' \subseteq scaled
    BY <1>5 DEF DeleteObj, DeleteObjFails
  <2> QED
    BY <2>1 DEF CheckedInv
<1> QED
  BY <1>1, <1>2, <1>3, <1>4, <1>5 DEF DeleteStep

\* Everybody else creates instances at most where nothing is being deleted.
LEMMA OutsideChecked ==
  ASSUME TypeInv, CarefulUsers, FinalizerInv, NoOrphanedWorkloads, DeletionInv, SoleHolder,
         CheckedInv, OutsideStep \/ SystemStep
  PROVE  CheckedInv' /\ ~WorkerMoves
<1> USE DEF crVars, heldVars, objVars, addonVars, fsmVars, loopVars
<1>a. UNCHANGED <<pc, todo>> /\ ~WorkerMoves
  BY DEF OutsideStep, SystemStep, WorkerMoves
<1>b. ASSUME scaled' \subseteq scaled PROVE CheckedInv'
  BY <1>a, <1>b DEF CheckedInv
<1>1. ASSUME NEW k \in Kedas, \/ CreateKeda(k) \/ EditSpec(k) \/ EditAddon(k) \/ DeleteKeda(k)
                              \/ DropExtFinalizer(k) \/ CacheSync(k)
      PROVE  CheckedInv'
  <2>1. UNCHANGED scaled
    BY <1>1 DEF CreateKeda, EditSpec, EditAddon, DeleteKeda, DropExtFinalizer, CacheSync, UserWrite
  <2> QED
    BY <1>b, <2>1
<1>2. ASSUME NEW o, \/ Tamper(o) \/ TamperAddon(o) \/ MapFunction(o) \/ DeploymentReady(o)
                    \/ DeploymentDegrades(o) \/ AcquireLease \/ DeleteScaled(o)
                    \/ CreateHso \/ DeleteHso
      PROVE  CheckedInv'
  <2>1. scaled' \subseteq scaled
    BY <1>2 DEF Tamper, TamperAddon, MapFunction, DeploymentReady, DeploymentDegrades,
       AcquireLease, DeleteScaled, CreateHso, DeleteHso
  <2> QED
    BY <1>b, <2>1
<1>3. ASSUME NEW c \in Crds, CreateScaled(c) PROVE CheckedInv'
  BY <1>a, <1>3, NobodyCreates DEF CheckedInv
<1> QED
  BY <1>a, <1>1, <1>2, <1>3 DEF OutsideStep, SystemStep

\* Every step keeps CheckedInv, and a step of the worker the users' resources.
LEMMA CheckedInvStep ==
  ASSUME TypeInv, CopyAgrees, CarefulUsers, WorkloadInv, DeletionInv, SoleHolder, CheckedInv,
         [Next]_vars
  PROVE  CheckedInv' /\ (WorkerMoves => scaled \subseteq scaled')
<1>1. CASE InstallStep \/ AddonStep
  BY <1>1, InstallUnchecked DEF CheckedInv
<1>2. CASE DeleteStep
  BY <1>2, DeleteChecked
<1>3. CASE OutsideStep \/ SystemStep
  BY <1>3, OutsideChecked DEF WorkloadInv, RemovalInv
<1>4. CASE Restart
  BY <1>4 DEF Restart, DropPass, CheckedInv
<1>5. CASE UNCHANGED vars
  BY <1>5 DEF vars, clusterVars, objVars, fsmVars, loopVars, CheckedInv
<1> QED
  BY <1>1, <1>2, <1>3, <1>4, <1>5 DEF Next, WorkerStep

\* Deleting the last CR never takes a ScaledObject with it: the lists of the deletion
\* path and the finalizer leave no gap in which one could have come.  Only after a
\* stale list may the outdated pass of a CR that is gone, retriggered by the end of a
\* third, delete the CRDs under another that is served.
THEOREM UserResourcesKept ==
  ASSUME CarefulUsers
  PROVE  Spec => UserResourcesSurvive \/ <>StaleList
<1>1. Init => CheckedInv
  BY DEF Init, FsmInit, CheckedInv
<1>2. TypeInv /\ CopyAgrees /\ WorkloadInv /\ DeletionInv /\ SoleHolder /\ CheckedInv /\ [Next]_vars
        => CheckedInv'
  BY CheckedInvStep
<1>3. TypeInv /\ CopyAgrees /\ WorkloadInv /\ DeletionInv /\ SoleHolder /\ CheckedInv /\ [Next]_vars
        => [WorkerMoves => scaled \subseteq scaled']_vars
  BY CheckedInvStep
<1>4. TypeInv /\ MarkInv /\ HeldServed /\ OneMark => SoleHolder
  BY HolderIsSole
<1> QED
  BY <1>1, <1>2, <1>3, <1>4, TypeInvariant, CopyInvariant, WorkloadInvariant, DeletionInvariant,
     MarkInvariant, HoldersServed, OneMarkInvariant, PTL DEF Spec, UserResourcesSurvive

\* With one CR no list can lack the mark of another, and the condition goes.
COROLLARY SoleUserResourcesKept ==
  ASSUME CarefulUsers, \A j, k \in Kedas : j = k
  PROVE  Spec => UserResourcesSurvive
<1>1. TypeInv => ~StaleList
  BY HeldType DEF StaleList
<1> QED
  BY <1>1, TypeInvariant, UserResourcesKept, PTL

=============================================================================
