------------------------- MODULE KedaServedProofs --------------------------
(***************************************************************************)
(* Who owns the workloads, for every number of CRs and reads as stale as   *)
(* can be: being served is for life; and one CR at most is served, and     *)
(* only its pass touches the workloads, until the filter once decides on a *)
(* list that lacks the mark of another CR.                                 *)
(***************************************************************************)
EXTENDS KedaWorkloadProofs

\* Beyond sFnInitialize.
OwnerPcs == Pcs \ {"Idle", "ServedFilter", "Initialize", "UpdateStatus", "EmitEvent", "Return"}

\* A copy at the server's version carries the server's mark, or a mark the
\* filter of this very pass has set.
MarkKept == fresh /\ Served(server[key]) => inst.status.served = "True"

\* The state functions before the status update see what the server has.
CopySeen ==
  fresh /\ pc \in OwnerPcs \cup {"ServedFilter", "Initialize"} =>
    /\ inst.fin = server[key].fin
    /\ inst.status.served = "True" => Served(server[key])

\* The filter lets no other pass through.
PassMarked == pc \in OwnerPcs \cup {"Initialize"} => inst.status.served = "True"

MarkInv == MarkKept /\ CopySeen /\ PassMarked

\* Who has the finalizer is served.
HeldServed == \A k \in Kedas : Held(k) => Served(server[k])

\* Somewhere CR k is marked as served: in the server, in the cache, or in the copy
\* the worker holds.
Marked(k) ==
  \/ Served(server[k])
  \/ Served(cache[k])
  \/ pc # "Idle" /\ key = k /\ inst.status.served = "True"

\* There is one mark only.  AtMostOneServed does not follow from itself: the filter
\* reads the cache, and the status update writes what the filter decided.
OneMark == \A j, k \in Kedas : Marked(j) /\ Marked(k) => j = k

-----------------------------------------------------------------------------
(* What a step does to the marks.                                          *)

\* No CR gets or loses the mark, other than by going.
MarkStep ==
  \A j \in Kedas : /\ Served(server'[j]) => Served(server[j])
                   /\ Served(server[j]) /\ server'[j] # NoKeda => Served(server'[j])

\* The worker goes on with the pass, or ends it, without touching a mark.
QuietWorker ==
  /\ MarkStep /\ cache' = cache
  /\ \/ pc' = "Idle" /\ fresh' = FALSE
     \/ /\ UNCHANGED <<key, fresh>>
        /\ inst'.status.served = inst.status.served /\ inst'.fin = inst.fin
        /\ \/ pc' \in {"UpdateStatus", "EmitEvent", "Return"}
           \/ /\ pc' = "Initialize" /\ pc = "ServedFilter" /\ inst.status.served = "True"
              /\ UNCHANGED server
           \/ /\ pc' \in OwnerPcs /\ UNCHANGED server
              /\ \/ pc \in OwnerPcs
                 \/ pc = "Initialize" /\ inst.fin

\* Everybody else: no CR is marked, a write outdates the worker's copy, and the cache
\* only moves towards the server.
QuietOutside ==
  /\ MarkStep /\ UNCHANGED <<pc, inst, key>>
  /\ fresh' => fresh /\ server'[key] = server[key]
  /\ \A j \in Kedas : cache'[j] = cache[j] \/ cache'[j] = server'[j]

\* The status a state function stops with has the served mark of the CR in hand.
LEMMA StopMark ==
  ASSUME inst \in Keda, NEW out, NEW st, StopWith(out, st), st.served = inst.status.served
  PROVE  /\ inst'.status.served = inst.status.served /\ inst'.fin = inst.fin
         /\ pc' = "UpdateStatus"
  BY DEF StopWith, Keda

\* The helpers of the state functions leave the mark alone.
LEMMA HelperMarks ==
  ASSUME NEW st \in Statuses, NEW t \in CondTypes, NEW r, NEW s
  PROVE  /\ UpdateStateReplicaFailure(st, t, r).served = st.served
         /\ UpdateStateFromErr(st, t, r).served = st.served
         /\ UpdateStateFromWarning(st, t, r).served = st.served
         /\ UpdateStateReady(st, t, r).served = st.served
         /\ UpdateStateProcessing(st, t, r).served = st.served
         /\ UpdateStateDeletion(st, t, r).served = st.served
         /\ UpdateStateDeletionTrue(st, t, r).served = st.served
         /\ SetAddonCondition(st, s, r).served = st.served
<1>1. SetAddonCondition(st, s, r).served = st.served
  BY DEF SetAddonCondition, SetCondition, Statuses
<1> QED
  BY <1>1, WithStateServed DEF UpdateStateReplicaFailure, UpdateStateFromErr,
     UpdateStateFromWarning, UpdateStateReady, UpdateStateProcessing,
     UpdateStateDeletion, UpdateStateDeletionTrue

\* A write that keeps the status, or removes the CR, keeps the marks.
LEMMA WriteMarks ==
  ASSUME TypeInv, fresh, NEW cr, Write(cr), cr = NoKeda \/ cr.status = server[key].status
  PROVE  MarkStep
<1>1. /\ key \in Kedas /\ server[key] # NoKeda
      /\ server' = [server EXCEPT ![key] = cr]
      /\ server \in [Kedas -> Keda \cup {NoKeda}]
  BY DEF Write, TypeInv, TypeOK, ClusterTypeOK, HeldExists
<1> QED
  BY <1>1 DEF MarkStep, Served

\* r.Update keeps the status.
LEMMA UpdateMarks ==
  ASSUME TypeInv, NEW cr \in Keda, Update(cr)
  PROVE  MarkStep
<1> DEFINE new == [cr EXCEPT !.status = server[key].status]
<1>1. new.status = server[key].status
  BY DEF Keda
<1>2. fresh /\ Write(Stored(new))
  BY DEF Update
<1>3. Stored(new) = NoKeda \/ Stored(new) = new
  BY DEF Stored
<1> HIDE DEF new
<1> QED
  BY <1>1, <1>2, <1>3, WriteMarks

\* The pass and the installation path mark nothing, apart from the filter and
\* the status update.
LEMMA InstallQuiet ==
  ASSUME TypeInv, InstallStep, \A k \in Kedas : ~Reconcile(k), ~ServedFilter, ~UpdateStatus
  PROVE  QuietWorker \/ UNCHANGED vars
<1> USE DEF vars, clusterVars, crVars, heldVars, objVars, addonVars, fsmVars, loopVars, cfgVars
<1>a. ASSUME UNCHANGED server PROVE MarkStep
  BY <1>a DEF MarkStep
<1>b. pc # "Idle" => inst \in Keda /\ inst.status \in Statuses
  BY HeldType DEF Keda
<1>c. "Installed" \in CondTypes /\ "DeploymentFailure" \in CondTypes
  BY DEF CondTypes
<1>1. ASSUME NEW k \in Kedas, ReconcileNotFound(k) PROVE UNCHANGED vars
  BY <1>1 DEF ReconcileNotFound
<1>2. CASE UpdateStatusFails \/ Return \/ InitializeGone
  BY <1>2, <1>a DEF UpdateStatusFails, Return, InitializeGone, EndPass, DropPass, QuietWorker
<1>3. CASE EmitEvent
  BY <1>3, <1>a DEF EmitEvent, SwitchState, QuietWorker
<1>4. CASE TakeSnapshot
  <2>1. inst.status.served = "True"
    BY <1>4, <1>b DEF TakeSnapshot, IsNotServed, Statuses, ServedMarks
  <2> QED
    BY <1>4, <1>a, <2>1 DEF TakeSnapshot, SwitchState, QuietWorker
<1>5. CASE AddFinalizer
  <2>1. [inst EXCEPT !.fin = TRUE] \in Keda
    BY <1>5, <1>b DEF AddFinalizer, Keda
  <2>2. MarkStep
    BY <1>5, <2>1, UpdateMarks DEF AddFinalizer
  <2>3. UpdateStateProcessing(inst.status, "Installed", "Initialized").served = inst.status.served
    BY <1>5, <1>b, <1>c, HelperMarks DEF AddFinalizer
  <2> QED
    BY <1>5, <1>b, <2>2, <2>3, StopMark DEF AddFinalizer, QuietWorker
<1>6. CASE AddFinalizerFails
  BY <1>6, <1>a, <1>b, StopMark DEF AddFinalizerFails, QuietWorker
<1>7. CASE InitializeDone
  BY <1>7, <1>a DEF InitializeDone, SwitchState, QuietWorker, OwnerPcs, Pcs
<1>8. CASE ValidationFails
  <2>1. UpdateStateFromErr(inst.status, "Installed", "ValidationErr").served = inst.status.served
    BY <1>8, <1>b, <1>c, HelperMarks DEF ValidationFails
  <2> QED
    BY <1>8, <1>a, <1>b, <2>1, StopMark DEF ValidationFails, QuietWorker
<1>9. CASE UpdateObjects
  <2>1. inst'.status.served = inst.status.served /\ inst'.fin = inst.fin
    BY <1>9, <1>b DEF UpdateObjects, Keda
  <2> QED
    BY <1>9, <1>a, <2>1 DEF UpdateObjects, QuietWorker, OwnerPcs, Pcs
<1>10. CASE ApplyObject \/ ApplyObjectFails
  BY <1>10, <1>a DEF ApplyObject, ApplyObjectFails, QuietWorker, OwnerPcs, Pcs
<1>11. CASE ApplyDone
  <2>1. UpdateStateFromErr(inst.status, "Installed", "ApplyObjError").served = inst.status.served
    BY <1>11, <1>b, <1>c, HelperMarks DEF ApplyDone
  <2>2. CASE failed
    BY <1>11, <1>a, <1>b, <2>1, <2>2, StopMark DEF ApplyDone, QuietWorker
  <2>3. CASE ~failed
    BY <1>11, <1>a, <2>3 DEF ApplyDone, SwitchState, QuietWorker, OwnerPcs, Pcs
  <2> QED
    BY <2>2, <2>3
<1>12. CASE VerifyNotReady
  <2>1. /\ UpdateStateReplicaFailure(inst.status, "DeploymentFailure",
                                     "DeploymentReplicaFailure").served = inst.status.served
        /\ UpdateStateProcessing(inst.status, "Installed", "Verification").served = inst.status.served
    BY <1>12, <1>b, <1>c, HelperMarks DEF VerifyNotReady
  <2>2. inst'.status.served = inst.status.served /\ inst'.fin = inst.fin /\ pc' = "UpdateStatus"
    BY <1>12, <1>b, <2>1, StopMark DEF VerifyNotReady
  <2> QED
    BY <1>12, <1>a, <2>2 DEF VerifyNotReady, QuietWorker
<1>13. CASE Verified
  <2>1. inst \in Keda /\ inst.status \in Statuses
    BY <1>13, <1>b DEF Verified
  <2> DEFINE st == [RemoveCondition(inst.status, "DeploymentFailure") EXCEPT !.kedaVersion = "installed"]
  <2>2. st \in Statuses /\ st.served = inst.status.served
    <3>1. /\ RemoveCondition(inst.status, "DeploymentFailure") \in Statuses
          /\ RemoveCondition(inst.status, "DeploymentFailure").served = inst.status.served
      BY <1>c, <2>1 DEF RemoveCondition, Statuses, Conds, NoCond
    <3> QED
      BY <3>1 DEF Statuses
  <2> HIDE DEF st
  <2>3. VerifiedStatus(inst.status).served = inst.status.served
    <3>1. UpdateStateReady(st, "Installed", "Verified").served = st.served
      BY <1>c, <2>2, HelperMarks
    <3>2. VerifiedStatus(inst.status) = UpdateStateReady(st, "Installed", "Verified")
      BY DEF VerifiedStatus, st
    <3> QED
      BY <2>2, <3>1, <3>2
  <2>4. inst'.status.served = inst.status.served /\ inst'.fin = inst.fin
    BY <1>13, <2>1, <2>3 DEF Verified, Keda
  <2> QED
    BY <1>13, <1>a, <2>4 DEF Verified, QuietWorker, OwnerPcs, Pcs
<1> QED
  BY <1>1, <1>2, <1>3, <1>4, <1>5, <1>6, <1>7, <1>8, <1>9, <1>10, <1>11, <1>12, <1>13
     DEF InstallStep

\* The add-on path marks nothing.
LEMMA AddonQuiet ==
  ASSUME TypeInv, AddonStep
  PROVE  QuietWorker
<1> USE DEF AddonFrame, heldVars
<1>a. ASSUME UNCHANGED server PROVE MarkStep
  BY <1>a DEF MarkStep
<1>b. inst \in Keda /\ inst.status \in Statuses
  <2>1. pc # "Idle"
    BY DEF AddonStep, EnsureNamespace, FetchOld, CleanupOld, FetchNew, ApplyAddonObj,
       ApplyAddonDone, DropPeerAuthentication, PersistInstalled, GuardAddon,
       DeleteAddonNothing, DeleteAddonFetch, DeleteAddonObj, DeleteAddonDone, PersistDeleted
  <2> QED
    BY <2>1, HeldType DEF Keda
<1>c. ASSUME NEW r, AddonStop(r) \/ AddonInUse
      PROVE  /\ inst'.status.served = inst.status.served /\ inst'.fin = inst.fin
             /\ pc' = "UpdateStatus"
  <2>1. \A q : SetAddonCondition(inst.status, "False", q).served = inst.status.served
    BY <1>b DEF SetAddonCondition, SetCondition, Statuses
  <2>2. [SetAddonCondition(inst.status, "False", "HTTPAddonInUse") EXCEPT !.state = "Warning"].served
          = inst.status.served
    BY <1>b DEF SetAddonCondition, SetCondition, Statuses
  <2> QED
    BY <1>b, <1>c, <2>1, <2>2, StopMark DEF AddonStop, AddonInUse
<1>d. ASSUME cache' = cache, UNCHANGED <<key, fresh, server>>,
             \/ \E r : AddonStop(r)
             \/ AddonInUse
             \/ \E next \in OwnerPcs : SwitchState(next) /\ pc \in OwnerPcs
      PROVE  QuietWorker
  BY <1>a, <1>c, <1>d DEF QuietWorker, SwitchState
<1>e. ASSUME NEW i \in InstalledTypes, NEW s, NEW r, PersistAnnotations(i, s, r), cache' = cache,
             UNCHANGED <<key, fresh>>
      PROVE  QuietWorker
  <2>1. MarkStep
    <3>1. CASE Update([inst EXCEPT !.installed = i])
      <4>1. [inst EXCEPT !.installed = i] \in Keda
        BY <1>b DEF Keda
      <4> QED
        BY <3>1, <4>1, UpdateMarks
    <3>2. CASE UNCHANGED server
      BY <1>a, <3>2
    <3> QED
      BY <1>e, <3>1, <3>2 DEF PersistAnnotations
  <2>2. SetAddonCondition(inst.status, s, r).served = inst.status.served
    BY <1>b DEF SetAddonCondition, SetCondition, Statuses
  <2>3. inst'.status.served = inst.status.served /\ inst'.fin = inst.fin /\ pc' = "UpdateStatus"
    BY <1>b, <1>e, <2>2 DEF PersistAnnotations, Keda
  <2> QED
    BY <1>e, <2>1, <2>3 DEF QuietWorker
<1>1. CASE EnsureNamespace
  BY <1>1, <1>d DEF EnsureNamespace, OwnerPcs, Pcs
<1>2. CASE FetchOld
  BY <1>2, <1>d DEF FetchOld, OwnerPcs, Pcs
<1>3. CASE CleanupOld
  BY <1>3, <1>d DEF CleanupOld, OwnerPcs, Pcs
<1>4. CASE FetchNew
  BY <1>4, <1>d DEF FetchNew, OwnerPcs, Pcs
<1>5. CASE ApplyAddonObj
  BY <1>5, <1>a DEF ApplyAddonObj, QuietWorker, OwnerPcs, Pcs
<1>6. CASE ApplyAddonDone
  BY <1>6, <1>d DEF ApplyAddonDone, OwnerPcs, Pcs
<1>7. CASE DropPeerAuthentication
  BY <1>7, <1>d DEF DropPeerAuthentication, OwnerPcs, Pcs
<1>8. CASE PersistInstalled
  <2>1. [version |-> addonVersion, namespace |-> TargetNS] \in InstalledTypes
    BY <1>b, NamespaceType DEF InstalledTypes, TypeInv, TypeOK, FsmTypeOK
  <2> QED
    BY <1>8, <1>e, <2>1 DEF PersistInstalled
<1>9. CASE GuardAddon
  BY <1>9, <1>d DEF GuardAddon, OwnerPcs, Pcs
<1>10. CASE DeleteAddonNothing
  BY <1>10, <1>d DEF DeleteAddonNothing
<1>11. CASE DeleteAddonFetch
  BY <1>11, <1>d DEF DeleteAddonFetch, OwnerPcs, Pcs
<1>12. CASE DeleteAddonObj
  BY <1>12, <1>a DEF DeleteAddonObj, QuietWorker, OwnerPcs, Pcs
<1>13. CASE DeleteAddonDone
  BY <1>13, <1>d DEF DeleteAddonDone, OwnerPcs, Pcs
<1>14. CASE PersistDeleted
  BY <1>14, <1>e DEF PersistDeleted, InstalledTypes
<1> QED
  BY <1>1, <1>2, <1>3, <1>4, <1>5, <1>6, <1>7, <1>8, <1>9, <1>10, <1>11, <1>12, <1>13, <1>14
     DEF AddonStep

\* The deletion path marks nothing.
LEMMA DeleteQuiet ==
  ASSUME TypeInv, DeleteStep
  PROVE  QuietWorker
<1> USE DEF DeleteFrame, CheckFrame, clusterVars, crVars, heldVars
<1>a. ASSUME UNCHANGED server PROVE MarkStep
  BY <1>a DEF MarkStep
<1>b. inst \in Keda /\ inst.status \in Statuses
  <2>1. pc # "Idle"
    BY DEF DeleteStep, DeleteResources, CheckCrd, CheckCrdBlocks, DeleteAddonLeftovers,
       DeleteObj, DeleteObjFails, DeleteDone, RemoveFinalizer, RemoveFinalizerFails
  <2> QED
    BY <2>1, HeldType DEF Keda
<1>c. ASSUME NEW out, NEW r, cache' = cache, UNCHANGED <<key, fresh, server>>,
             \/ StopWith(out, UpdateStateDeletion(inst.status, "Deleted", r))
             \/ StopWith(out, UpdateStateDeletionTrue(inst.status, "Deleted", r))
             \/ StopWith(out, UpdateStateFromWarning(inst.status, "Deleted", r))
             \/ StopWith(out, UpdateStateFromErr(inst.status, "Deleted", r))
      PROVE  QuietWorker
  <2>1. "Deleted" \in CondTypes
    BY DEF CondTypes
  <2>2. inst'.status.served = inst.status.served /\ inst'.fin = inst.fin /\ pc' = "UpdateStatus"
    BY <1>b, <1>c, <2>1, HelperMarks, StopMark
  <2> QED
    BY <1>a, <1>c, <2>2 DEF QuietWorker
<1>d. ASSUME NEW next \in OwnerPcs, SwitchState(next), pc \in OwnerPcs,
             cache' = cache, UNCHANGED <<key, fresh, server>>
      PROVE  QuietWorker
  BY <1>a, <1>d DEF QuietWorker, SwitchState
<1>1. CASE DeleteResources
  BY <1>1, <1>c, <1>d DEF DeleteResources, DeletionStop, OwnerPcs, Pcs
<1>2. CASE CheckCrd \/ DeleteObj \/ DeleteObjFails
  BY <1>2, <1>a DEF CheckCrd, DeleteObj, DeleteObjFails, QuietWorker, OwnerPcs, Pcs
<1>3. CASE CheckCrdBlocks
  BY <1>3, <1>c DEF CheckCrdBlocks, DeletionStop
<1>4. CASE DeleteAddonLeftovers
  BY <1>4, <1>c, <1>d DEF DeleteAddonLeftovers, DeletionStop, OwnerPcs, Pcs
<1>5. CASE DeleteDone
  BY <1>5, <1>c, <1>d DEF DeleteDone, DeletionStop, OwnerPcs, Pcs
<1>6. CASE RemoveFinalizer
  <2>1. [inst EXCEPT !.fin = FALSE] \in Keda
    BY <1>b DEF Keda
  <2>2. MarkStep
    BY <1>6, <2>1, UpdateMarks DEF RemoveFinalizer
  <2> QED
    BY <1>6, <2>2 DEF RemoveFinalizer, EndPass, DropPass, QuietWorker
<1>7. CASE RemoveFinalizerFails
  BY <1>7, <1>a DEF RemoveFinalizerFails, EndPass, DropPass, QuietWorker
<1> QED
  BY <1>1, <1>2, <1>3, <1>4, <1>5, <1>6, <1>7 DEF DeleteStep

\* Users leave status and finalizer of a CR alone.
LEMMA UserWriteQuiet ==
  ASSUME TypeInv, NEW k \in Kedas, NEW cr, UserWrite(k, cr), UNCHANGED fsmVars,
         \/ server[k] = NoKeda /\ cr.status = EmptyStatus
         \/ /\ server[k] # NoKeda
            /\ \/ cr = NoKeda /\ ~server[k].fin
               \/ cr # NoKeda /\ cr.status = server[k].status /\ cr.fin = server[k].fin
  PROVE  QuietOutside
<1>1. /\ server' = [server EXCEPT ![k] = cr]
      /\ server \in [Kedas -> Keda \cup {NoKeda}]
      /\ UNCHANGED <<pc, inst, key, cache>> /\ fresh' = (fresh /\ key # k)
      /\ fresh => key \in Kedas
  BY DEF UserWrite, TypeInv, TypeOK, ClusterTypeOK, HeldExists, fsmVars
<1>2. MarkStep
  <2>1. EmptyStatus.served # "True"
    BY DEF EmptyStatus
  <2> QED
    BY <1>1, <2>1 DEF MarkStep, Served
<1>3. fresh' => fresh /\ server'[key] = server[key]
  BY <1>1
<1> QED
  BY <1>1, <1>2, <1>3 DEF QuietOutside

\* Users, failures, informers, handlers and rollouts mark nothing.
LEMMA OutsideQuiet ==
  ASSUME TypeInv, OutsideStep \/ SystemStep
  PROVE  QuietOutside
<1>a. UNCHANGED fsmVars
  BY DEF OutsideStep, SystemStep
<1>b. \A k \in Kedas : server[k] # NoKeda => server[k] \in Keda
  BY DEF TypeInv, TypeOK, ClusterTypeOK
<1>c. ASSUME UNCHANGED <<crVars, heldVars>> \/ UNCHANGED <<server, cache, current, key, fresh>>
      PROVE  QuietOutside
  BY <1>a, <1>c DEF QuietOutside, MarkStep, crVars, heldVars, fsmVars
<1>1. ASSUME NEW k \in Kedas, CreateKeda(k) PROVE QuietOutside
  BY <1>1, <1>a, UserWriteQuiet DEF CreateKeda
<1>2. ASSUME NEW k \in Kedas, EditSpec(k) PROVE QuietOutside
  <2>1. PICK s \in Specs : UserWrite(k, [server[k] EXCEPT !.spec = s])
    BY <1>2 DEF EditSpec
  <2>2. server[k] \in Keda /\ server[k] # NoKeda
    BY <1>2, <1>b DEF EditSpec
  <2>3. [server[k] EXCEPT !.spec = s] \in Keda
    BY <2>2, SpecsAssumption DEF Keda
  <2>4. /\ [server[k] EXCEPT !.spec = s] # NoKeda
        /\ [server[k] EXCEPT !.spec = s].status = server[k].status
        /\ [server[k] EXCEPT !.spec = s].fin = server[k].fin
    BY <2>2, <2>3, KedasAssumption DEF Keda
  <2> QED
    BY <1>a, <2>1, <2>2, <2>4, UserWriteQuiet
<1>3. ASSUME NEW k \in Kedas, EditAddon(k) PROVE QuietOutside
  <2>1. PICK a \in AddonCfgs : UserWrite(k, [server[k] EXCEPT !.addon = a])
    BY <1>3 DEF EditAddon
  <2>2. server[k] \in Keda /\ server[k] # NoKeda
    BY <1>3, <1>b DEF EditAddon
  <2>3. [server[k] EXCEPT !.addon = a] \in Keda
    BY <2>2, SpecsAssumption DEF Keda
  <2>4. /\ [server[k] EXCEPT !.addon = a] # NoKeda
        /\ [server[k] EXCEPT !.addon = a].status = server[k].status
        /\ [server[k] EXCEPT !.addon = a].fin = server[k].fin
    BY <2>2, <2>3, KedasAssumption DEF Keda
  <2> QED
    BY <1>a, <2>1, <2>2, <2>4, UserWriteQuiet
<1>4. ASSUME NEW k \in Kedas, NEW cr \in Keda, UserWrite(k, Stored(cr)), server[k] # NoKeda,
             cr.status = server[k].status, cr.fin = server[k].fin
      PROVE  QuietOutside
  <2>1. \/ Stored(cr) = NoKeda /\ ~server[k].fin
        \/ Stored(cr) = cr /\ cr # NoKeda
    BY <1>4, KedasAssumption DEF Stored
  <2> QED
    BY <1>4, <1>a, <2>1, UserWriteQuiet
<1>5. ASSUME NEW k \in Kedas, DeleteKeda(k) PROVE QuietOutside
  <2>1. /\ [server[k] EXCEPT !.del = TRUE] \in Keda
        /\ [server[k] EXCEPT !.del = TRUE].status = server[k].status
        /\ [server[k] EXCEPT !.del = TRUE].fin = server[k].fin
    BY <1>5, <1>b DEF DeleteKeda, Keda
  <2> QED
    BY <1>4, <1>5, <2>1 DEF DeleteKeda
<1>6. ASSUME NEW k \in Kedas, DropExtFinalizer(k) PROVE QuietOutside
  <2>1. /\ [server[k] EXCEPT !.ext = FALSE] \in Keda
        /\ [server[k] EXCEPT !.ext = FALSE].status = server[k].status
        /\ [server[k] EXCEPT !.ext = FALSE].fin = server[k].fin
    BY <1>6, <1>b DEF DropExtFinalizer, Keda
  <2> QED
    BY <1>4, <1>6, <2>1 DEF DropExtFinalizer
<1>7. ASSUME NEW o, Tamper(o) \/ TamperAddon(o) \/ DeploymentDegrades(o) \/ DeploymentReady(o)
      PROVE  QuietOutside
  BY <1>7, <1>c DEF Tamper, TamperAddon, DeploymentDegrades, DeploymentReady
<1>8. ASSUME NEW o, AcquireLease \/ CreateScaled(o) \/ DeleteScaled(o) \/ CreateHso \/ DeleteHso
      PROVE  QuietOutside
  BY <1>8, <1>c DEF AcquireLease, CreateScaled, DeleteScaled, CreateHso, DeleteHso
<1>9. ASSUME NEW o, MapFunction(o) PROVE QuietOutside
  BY <1>9, <1>c DEF MapFunction
<1>10. ASSUME NEW k \in Kedas, CacheSync(k) PROVE QuietOutside
  <2>1. /\ cache' = [cache EXCEPT ![k] = server[k]] /\ UNCHANGED <<server, key, fresh>>
        /\ cache \in [Kedas -> Keda \cup {NoKeda}]
    BY <1>10 DEF CacheSync, TypeInv, TypeOK, ClusterTypeOK
  <2>2. \A j \in Kedas : cache'[j] = cache[j] \/ cache'[j] = server'[j]
    BY <2>1
  <2> QED
    BY <1>a, <2>1, <2>2 DEF QuietOutside, MarkStep, fsmVars
<1> QED
  BY <1>1, <1>2, <1>3, <1>5, <1>6, <1>7, <1>8, <1>9, <1>10 DEF OutsideStep, SystemStep

\* So every step is one of these.
LEMMA MarkStepKinds ==
  ASSUME TypeInv, [Next]_vars
  PROVE  \/ \E k \in Kedas : Reconcile(k)
         \/ ServedFilter \/ UpdateStatus \/ Restart
         \/ QuietWorker \/ QuietOutside
         \/ UNCHANGED vars
  BY InstallQuiet, AddonQuiet, DeleteQuiet, OutsideQuiet DEF Next, WorkerStep

-----------------------------------------------------------------------------
(* Being served is for life.                                               *)

\* Every step keeps the fresh copy's mark in step with the server's.
LEMMA MarkKeptStep ==
  ASSUME TypeInv, TypeInv', MarkKept, [Next]_vars
  PROVE  MarkKept'
<1>1. ASSUME NEW k \in Kedas, Reconcile(k) PROVE MarkKept'
  BY <1>1 DEF Reconcile, MarkKept, TypeInv, CacheAgrees, Served
<1>2. CASE ServedFilter
  <2>1. ~(fresh /\ Served(server[key]))
    BY <1>2 DEF ServedFilter, MarkKept, IsNotServed
  <2> QED
    BY <1>2, <2>1 DEF ServedFilter, MarkKept, crVars, heldVars
<1>3. CASE UpdateStatus
  <2>1. key \in Kedas /\ server[key] \in Keda /\ server \in [Kedas -> Keda \cup {NoKeda}]
    BY <1>3, HeldType DEF UpdateStatus, TypeInv, TypeOK, ClusterTypeOK
  <2>2. server'[key].status = inst.status /\ UNCHANGED <<key, inst>>
    BY <1>3, <2>1 DEF UpdateStatus, Write, SwitchState, heldVars, Keda
  <2> QED
    BY <2>2 DEF MarkKept, Served
<1>4. CASE Restart
  BY <1>4 DEF Restart, DropPass, MarkKept
<1>5. CASE QuietWorker
  <2>1. fresh => key \in Kedas
    BY DEF TypeInv, HeldExists
  <2> QED
    BY <1>5, <2>1 DEF QuietWorker, MarkStep, MarkKept
<1>6. CASE QuietOutside
  <2>1. fresh => key \in Kedas
    BY DEF TypeInv, HeldExists
  <2> QED
    BY <1>6, <2>1 DEF QuietOutside, MarkStep, MarkKept
<1>7. CASE UNCHANGED vars
  BY <1>7 DEF vars, clusterVars, crVars, heldVars, fsmVars, MarkKept
<1> QED
  BY <1>1, <1>2, <1>3, <1>4, <1>5, <1>6, <1>7, MarkStepKinds

\* No step takes the mark away from a CR that stays.
LEMMA StickyStep ==
  ASSUME TypeInv, MarkKept, [Next]_vars, NEW k \in Kedas,
         Served(server[k]), server'[k] # NoKeda
  PROVE  Served(server'[k])
<1>1. CASE UpdateStatus
  <2>1. key \in Kedas /\ server[key] \in Keda /\ server \in [Kedas -> Keda \cup {NoKeda}]
    BY <1>1, HeldType DEF UpdateStatus, TypeInv, TypeOK, ClusterTypeOK
  <2>2. server' = [server EXCEPT ![key] = [server[key] EXCEPT !.status = inst.status]]
    BY <1>1 DEF UpdateStatus, Write
  <2>3. CASE k = key
    <3>1. server'[k].status = inst.status
      BY <2>1, <2>2, <2>3 DEF Keda
    <3>2. inst.status.served = "True"
      BY <1>1, <2>3 DEF UpdateStatus, MarkKept
    <3> QED
      BY <3>1, <3>2 DEF Served
  <2>4. CASE k # key
    BY <2>1, <2>2, <2>4
  <2> QED
    BY <2>3, <2>4
<1>2. CASE QuietWorker \/ QuietOutside
  BY <1>2 DEF QuietWorker, QuietOutside, MarkStep
<1>3. CASE (\E j \in Kedas : Reconcile(j)) \/ ServedFilter \/ Restart \/ UNCHANGED vars
  <2>1. UNCHANGED server
    BY <1>3 DEF Reconcile, ServedFilter, Restart, vars, clusterVars, crVars
  <2> QED
    BY <2>1
<1> QED
  BY <1>1, <1>2, <1>3, MarkStepKinds

\* Every step keeps CopySeen.
LEMMA CopySeenStep ==
  ASSUME TypeInv, TypeInv', CopySeen, [Next]_vars
  PROVE  CopySeen'
<1>1. ASSUME NEW k \in Kedas, Reconcile(k) PROVE CopySeen'
  BY <1>1 DEF Reconcile, CopySeen, TypeInv, CacheAgrees, Served
<1>2. CASE ServedFilter \/ UpdateStatus \/ Restart
  BY <1>2 DEF ServedFilter, UpdateStatus, Restart, DropPass, StopWith, SwitchState, CopySeen, OwnerPcs
<1>3. CASE QuietWorker
  BY <1>3 DEF QuietWorker, CopySeen, OwnerPcs
<1>4. CASE QuietOutside
  BY <1>4 DEF QuietOutside, CopySeen
<1>5. CASE UNCHANGED vars
  BY <1>5 DEF vars, clusterVars, crVars, heldVars, fsmVars, CopySeen
<1> QED
  BY <1>1, <1>2, <1>3, <1>4, <1>5, MarkStepKinds

\* Every step keeps PassMarked.
LEMMA PassMarkedStep ==
  ASSUME TypeInv, PassMarked, [Next]_vars
  PROVE  PassMarked'
<1>1. ASSUME NEW k \in Kedas, Reconcile(k) PROVE PassMarked'
  BY <1>1 DEF Reconcile, PassMarked, OwnerPcs
<1>2. CASE ServedFilter \/ UpdateStatus \/ Restart
  BY <1>2 DEF ServedFilter, UpdateStatus, Restart, DropPass, StopWith, SwitchState, PassMarked,
     OwnerPcs
<1>3. CASE QuietWorker
  BY <1>3 DEF QuietWorker, PassMarked, OwnerPcs
<1>4. CASE QuietOutside
  BY <1>4 DEF QuietOutside, PassMarked
<1>5. CASE UNCHANGED vars
  BY <1>5 DEF vars, fsmVars, PassMarked
<1> QED
  BY <1>1, <1>2, <1>3, <1>4, <1>5, MarkStepKinds

\* What a pass knows of the mark.
THEOREM MarkInvariant == Spec => []MarkInv
<1>1. Init => MarkInv
  BY DEF Init, ClusterInit, FsmInit, MarkInv, MarkKept, CopySeen, PassMarked, OwnerPcs
<1>2. TypeInv /\ TypeInv' /\ MarkInv /\ [Next]_vars => MarkInv'
  BY MarkKeptStep, CopySeenStep, PassMarkedStep DEF MarkInv
<1> QED
  BY <1>1, <1>2, TypeInvariant, PTL DEF Spec

\* A CR stored as served stays so until it is gone: a status update whose copy is
\* outdated is refused by the API server, and one that is not carries the mark.
\* This holds with stale reads as well.
THEOREM ServedForLife == Spec => ServedSticky
<1>1. TypeInv /\ MarkInv /\ [Next]_vars
        => [\A k \in Kedas : Served(server[k]) /\ server'[k] # NoKeda => Served(server'[k])]_vars
  BY StickyStep DEF MarkInv
<1> QED
  BY <1>1, TypeInvariant, MarkInvariant, PTL DEF Spec, ServedSticky

\* The finalizer is given to a CR that is served, and taken off with reads that may be
\* as old as they like.
LEMMA HeldServedStep ==
  ASSUME TypeInv, CopyAgrees, FinalizerInv, MarkInv, HeldServed, [Next]_vars
  PROVE  HeldServed'
<1> SUFFICES ASSUME NEW k \in Kedas, server'[k] # NoKeda, server'[k].fin
             PROVE  Served(server'[k])
  BY DEF HeldServed, Held
<1>1. Held(k) \/ (fresh /\ k = key /\ pc \in AddingPcs)
  BY FinalizerAdds DEF FinalizerAdded
<1>2. Served(server[k])
  BY <1>1 DEF HeldServed, MarkInv, CopySeen, PassMarked, AddingPcs, OwnerPcs, Pcs
<1> QED
  BY <1>2, StickyStep DEF MarkInv

\* Who has the finalizer is served, stale reads or not.
THEOREM HoldersServed == Spec => []HeldServed
<1>1. Init => HeldServed
  BY DEF Init, ClusterInit, HeldServed, Held
<1>2. TypeInv /\ CopyAgrees /\ WorkloadInv /\ MarkInv /\ HeldServed /\ [Next]_vars => HeldServed'
  BY HeldServedStep DEF WorkloadInv
<1> QED
  BY <1>1, <1>2, TypeInvariant, CopyInvariant, WorkloadInvariant, MarkInvariant, PTL DEF Spec

-----------------------------------------------------------------------------
(* One owner.                                                              *)

\* The start of a pass, the filter, the status update and the quiet steps all keep
\* OneMark, unless the filter is at a list that lacks the mark of another CR.
LEMMA OneMarkStep ==
  ASSUME TypeInv, TypeInv', OneMark, ~StaleList, [Next]_vars
  PROVE  OneMark'
<1>a. pc # "Idle" => key \in Kedas /\ inst \in Keda
  BY HeldType
<1>b. ASSUME \A k \in Kedas : Marked(k)' => Marked(k) PROVE OneMark'
  BY <1>b DEF OneMark
<1>1. ASSUME NEW k \in Kedas, Reconcile(k) PROVE OneMark'
  <2>1. UNCHANGED <<server, cache>> /\ key' = k /\ inst' = cache[k] /\ cache[k] # NoKeda
    BY <1>1 DEF Reconcile
  <2> QED
    BY <1>b, <2>1 DEF Marked, Served
<1>2. CASE ServedFilter
  <2>1. UNCHANGED <<server, cache, key>> /\ pc = "ServedFilter" /\ key \in Kedas
        /\ inst \in Keda /\ inst.status \in Statuses /\ inst.status.served # "True"
    BY <1>2, <1>a DEF ServedFilter, crVars, heldVars, IsNotServed, Keda
  <2>2. CASE inst'.status.served = inst.status.served
    BY <1>b, <2>1, <2>2 DEF Marked
  <2>3. CASE StopWith("requeue", FilteredStatus(inst.status)) /\ ServedKedas # {}
    <3>1. UpdateServed(inst.status, "False") \in Statuses
      BY <2>1 DEF UpdateServed, Statuses, ServedMarks
    <3>2. UpdateServed(inst.status, "False").served = "False"
      BY <2>1 DEF UpdateServed, Statuses
    <3>3. FilteredStatus(inst.status).served = "False"
      BY <2>3, <3>1, <3>2, HelperMarks DEF FilteredStatus, CondTypes
    <3>4. inst'.status.served # "True"
      BY <2>1, <2>3, <3>3 DEF StopWith, Keda
    <3> QED
      BY <1>b, <2>1, <3>4 DEF Marked
  <2>4. CASE ServedKedas = {}
    <3>1. \A j \in Kedas \ {key} : ~Served(server[j]) /\ ~Served(cache[j])
      BY <1>2, <2>4 DEF ServedFilter, StaleList, ServedKedas
    <3> QED
      BY <2>1, <3>1 DEF OneMark, Marked
  <2>5. CASE StopWith("error", inst.status)
    <3>1. inst'.status.served = inst.status.served
      BY <2>1, <2>5 DEF StopWith, Keda
    <3> QED
      BY <2>2, <3>1
  <2> QED
    BY <1>2, <2>3, <2>4, <2>5 DEF ServedFilter
<1>3. CASE UpdateStatus
  <2>1. /\ key \in Kedas /\ server[key] \in Keda /\ server \in [Kedas -> Keda \cup {NoKeda}]
        /\ server' = [server EXCEPT ![key] = [server[key] EXCEPT !.status = inst.status]]
        /\ UNCHANGED <<cache, key, inst>> /\ pc # "Idle"
    BY <1>3, HeldType DEF UpdateStatus, Write, SwitchState, heldVars, TypeInv, TypeOK, ClusterTypeOK
  <2>2. server'[key].status = inst.status
    BY <2>1 DEF Keda
  <2>3. \A j \in Kedas \ {key} : server'[j] = server[j]
    BY <2>1
  <2> QED
    BY <1>b, <2>1, <2>2, <2>3 DEF Marked, Served
<1>4. CASE Restart
  BY <1>4, <1>b DEF Restart, DropPass, Marked
<1>5. CASE QuietWorker
  <2>1. pc # "Idle" \/ pc' = "Idle"
    BY <1>5 DEF QuietWorker, TypeInv, TypeOK, FsmTypeOK
  <2> QED
    BY <1>5, <1>b, <2>1 DEF QuietWorker, MarkStep, Marked
<1>6. CASE QuietOutside
  BY <1>6, <1>b DEF QuietOutside, MarkStep, Marked
<1>7. CASE UNCHANGED vars
  BY <1>7, <1>b DEF vars, clusterVars, crVars, heldVars, fsmVars, Marked
<1> QED
  BY <1>1, <1>2, <1>3, <1>4, <1>5, <1>6, <1>7, MarkStepKinds

\* There is one mark, as long as no list is stale.
THEOREM OneMarkInvariant == Spec => []OneMark \/ <>StaleList
<1>1. Init => OneMark
  BY DEF Init, ClusterInit, FsmInit, OneMark, Marked, Served
<1>2. TypeInv /\ TypeInv' /\ OneMark /\ ~StaleList /\ [Next]_vars => OneMark'
  BY OneMarkStep
<1> QED
  BY <1>1, <1>2, TypeInvariant, PTL DEF Spec

\* sFnServedFilter lets one CR at most own KEDA, for any number of CRs and any delay of
\* the cache; the one thing that can break it is a filter that lists the cache before
\* the mark of another CR has reached it.
THEOREM OneServed == Spec => []AtMostOneServed \/ <>StaleList
<1>1. OneMark => AtMostOneServed
  BY DEF OneMark, Marked, AtMostOneServed
<1> QED
  BY <1>1, OneMarkInvariant, PTL

\* A pass that applies or deletes workloads runs for the one served CR, even when
\* its copy is old and users have edited or deleted CRs since it started, as long as
\* no list was stale.
THEOREM OwnerIsExclusive == Spec => []ExclusiveOwner \/ <>StaleList
<1>1. TypeInv /\ MarkInv /\ HeldServed /\ WorkloadInv /\ OneMark => ExclusiveOwner
  <2> SUFFICES ASSUME TypeInv, MarkInv, HeldServed, WorkloadInv, OneMark,
                      pc \in {"Apply", "DeleteObjs", "ApplyAddonObjs", "DeleteAddonObjs", "CleanupOld"}
               PROVE  LET owners == {k \in Kedas : Served(server[k])} IN
                      /\ owners \subseteq {key}
                      /\ owners = {key} \/ (pc = "DeleteObjs" /\ \A o \in Objs : cluster[o] = Absent)
    BY DEF ExclusiveOwner
  <2>1. key \in Kedas /\ Marked(key)
    BY HeldType DEF MarkInv, PassMarked, OwnerPcs, Pcs, Marked
  <2>2. \A k \in Kedas : Served(server[k]) => k = key
    BY <2>1 DEF OneMark, Marked
  <2>3. CASE pc # "DeleteObjs"
    <3>1. Held(key)
      BY <2>3 DEF WorkloadInv, FinalizerInv, CopyHeld, PathFits, InstallPcs
    <3> QED
      BY <2>1, <2>2, <3>1 DEF HeldServed
  <2>4. CASE pc = "DeleteObjs" /\ \E o \in Objs : cluster[o] # Absent
    <3>1. PICK k \in Kedas : Held(k)
      BY <2>4 DEF WorkloadInv, RemovalInv, NoOrphanedWorkloads, Present, Held
    <3> QED
      BY <2>1, <2>2, <3>1 DEF HeldServed
  <2> QED
    BY <2>2, <2>3, <2>4
<1> QED
  BY <1>1, TypeInvariant, MarkInvariant, HoldersServed, WorkloadInvariant, OneMarkInvariant, PTL

\* When a pass starts, the list of its filter lacks no mark.
ListComplete == pc = "ServedFilter" => \A j \in Kedas : Served(server[j]) => Served(cache[j])

\* A filter whose pass started with a cache that had caught up never meets a stale list:
\* nobody but the worker marks a CR.  So ReadsCatchUp rules out StaleList and no more.
THEOREM CaughtUpListsAll ==
  ASSUME ReadsCatchUp
  PROVE  Spec => []~StaleList
<1>1. Init => ListComplete
  BY DEF Init, FsmInit, ListComplete
<1>2. TypeInv /\ ListComplete /\ [Next]_vars => ListComplete'
  <2> SUFFICES ASSUME TypeInv, ListComplete, [Next]_vars PROVE ListComplete'
    OBVIOUS
  <2>1. ASSUME NEW k \in Kedas, Reconcile(k) PROVE ListComplete'
    BY <2>1 DEF Reconcile, TypeInv, CacheAgrees, ListComplete
  <2>2. CASE ServedFilter \/ UpdateStatus \/ Restart
    BY <2>2 DEF ServedFilter, UpdateStatus, Restart, DropPass, StopWith, SwitchState, ListComplete
  <2>3. CASE QuietWorker
    BY <2>3 DEF QuietWorker, ListComplete, OwnerPcs
  <2>4. CASE QuietOutside
    BY <2>4 DEF QuietOutside, MarkStep, ListComplete, Served
  <2>5. CASE UNCHANGED vars
    BY <2>5 DEF vars, clusterVars, crVars, fsmVars, ListComplete
  <2> QED
    BY <2>1, <2>2, <2>3, <2>4, <2>5, MarkStepKinds
<1>3. ListComplete => ~StaleList
  BY DEF ListComplete, StaleList, ServedKedas
<1> QED
  BY <1>1, <1>2, <1>3, TypeInvariant, PTL DEF Spec

=============================================================================
