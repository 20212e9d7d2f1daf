------------------------- MODULE KedaManagerProofs -------------------------
(***************************************************************************)
(* Theorems about KedaManager for every set of CRs, every manifest, every  *)
(* set of specs and every amount of interference.                          *)
(***************************************************************************)
EXTENDS KedaManager, TLAPS

(***************************************************************************)
(* The helpers of KedaStatus yield statuses.                               *)
(***************************************************************************)

\* Setting a condition (meta.SetStatusCondition) yields a status.
LEMMA SetConditionType ==
  ASSUME NEW st \in Statuses, NEW t \in CondTypes,
         NEW s \in {"True", "False", "Unknown"}, NEW r \in Reasons
  PROVE  SetCondition(st, t, s, r) \in Statuses
  BY DEF SetCondition, Statuses, Conds

\* Setting the state along with it does, too.
LEMMA WithStateType ==
  ASSUME NEW st \in Statuses, NEW t \in CondTypes, NEW x \in States,
         NEW s \in {"True", "False", "Unknown"}, NEW r \in Reasons
  PROVE  WithState(st, x, t, s, r) \in Statuses
<1>1. SetCondition(st, t, s, r) \in Statuses
  BY SetConditionType
<1> QED
  BY <1>1 DEF WithState, Statuses

\* Every UpdateState helper yields a status.
LEMMA UpdateStateType ==
  ASSUME NEW st \in Statuses, NEW t \in CondTypes, NEW r \in Reasons
  PROVE  /\ UpdateStateReplicaFailure(st, t, r) \in Statuses
         /\ UpdateStateFromErr(st, t, r) \in Statuses
         /\ UpdateStateFromWarning(st, t, r) \in Statuses
         /\ UpdateStateReady(st, t, r) \in Statuses
         /\ UpdateStateProcessing(st, t, r) \in Statuses
         /\ UpdateStateDeletion(st, t, r) \in Statuses
         /\ UpdateStateDeletionTrue(st, t, r) \in Statuses
  BY WithStateType DEF UpdateStateReplicaFailure, UpdateStateFromErr,
     UpdateStateFromWarning, UpdateStateReady, UpdateStateProcessing,
     UpdateStateDeletion, UpdateStateDeletionTrue, States

\* They leave the served mark alone.
LEMMA WithStateServed ==
  ASSUME NEW st \in Statuses, NEW t \in CondTypes, NEW x, NEW s, NEW r
  PROVE  WithState(st, x, t, s, r).served = st.served
  BY DEF WithState, SetCondition, Statuses

(***************************************************************************)
(* Types.                                                                  *)
(***************************************************************************)

\* A CR that was just created has a status.
LEMMA EmptyStatusType == EmptyStatus \in Statuses
  BY DEF EmptyStatus, Statuses, States, ServedMarks, Conds, NoCond

\* Interference uses up the budget and never more than that.
LEMMA SpendType ==
  ASSUME budget \in [Interference -> Nat], NEW what \in Interference, Spend(what)
  PROVE  budget' \in [Interference -> Nat]
  BY DEF Spend

\* A CR with another status is a CR.
LEMMA WithStatusType ==
  ASSUME NEW cr \in Keda, NEW st \in Statuses
  PROVE  [cr EXCEPT !.status = st] \in Keda /\ [cr EXCEPT !.status = st] # NoKeda
<1>1. [cr EXCEPT !.status = st] \in Keda
  BY DEF Keda
<1> QED
  BY <1>1, KedasAssumption

\* sFnUpdateStatus is entered with a CR in hand.
LEMMA StopWithType ==
  ASSUME inst \in Keda, NEW st \in Statuses, NEW out \in Outcomes, StopWith(out, st)
  PROVE  /\ inst' \in Keda /\ inst' # NoKeda
         /\ outcome' \in Outcomes /\ pc' = "UpdateStatus"
  BY WithStatusType DEF StopWith

\* The end of a pass leaves the worker idle.
LEMMA EndPassType ==
  ASSUME TypeInv, pc # "Idle", NEW out, EndPass(out)
  PROVE  FsmTypeOK' /\ key' = NoKeda /\ fresh' = FALSE /\ queue' \subseteq Kedas
<1>1. key \in Kedas
  BY DEF TypeInv, TypeOK, ClusterTypeOK, FsmTypeOK
<1>2. <<>> \in Seq(Objs \cup AddonObjTypes) /\ <<>> \in Seq(AddonObjTypes)
  OBVIOUS
<1>3. snap' \in Statuses
  BY EmptyStatusType DEF EndPass, DropPass
<1> QED
  BY <1>1, <1>2, <1>3 DEF EndPass, DropPass, TypeInv, TypeOK, ClusterTypeOK, FsmTypeOK,
     Pcs, Outcomes, AddonLoops

\* A write of the worker keeps server and cache in order.
LEMMA WriteType ==
  ASSUME TypeInv, fresh, NEW cr \in Keda \cup {NoKeda}, Write(cr), cache' = cache
  PROVE  /\ server' \in [Kedas -> Keda \cup {NoKeda}]
         /\ current' \in [Kedas -> BOOLEAN]
         /\ CacheAgrees'
         /\ server'[key] = cr
  BY DEF Write, TypeInv, TypeOK, ClusterTypeOK, CacheAgrees, HeldExists

\* With a pass under way the worker holds a CR; a fresh copy stands for a CR the
\* server has.
LEMMA HeldType ==
  ASSUME TypeInv
  PROVE  /\ pc # "Idle" => key \in Kedas /\ inst \in Keda
         /\ fresh => key \in Kedas /\ server[key] \in Keda
  BY DEF TypeInv, TypeOK, ClusterTypeOK, FsmTypeOK, HeldExists

\* r.Update of a copy with the finalizer stores that copy, with the server's status.
LEMMA UpdateType ==
  ASSUME TypeInv, NEW cr \in Keda, cr.fin, Update(cr), cache' = cache
  PROVE  /\ fresh /\ key \in Kedas
         /\ server' \in [Kedas -> Keda \cup {NoKeda}]
         /\ current' \in [Kedas -> BOOLEAN]
         /\ CacheAgrees'
         /\ server' = [server EXCEPT ![key] = [cr EXCEPT !.status = server[key].status]]
         /\ server'[key] = [cr EXCEPT !.status = server[key].status]
         /\ server'[key] \in Keda /\ server'[key] # NoKeda
<1>1. fresh /\ key \in Kedas /\ server[key] \in Keda /\ server[key].status \in Statuses
  BY HeldType DEF Update, Keda
<1> DEFINE new == [cr EXCEPT !.status = server[key].status]
<1>2. new \in Keda /\ new # NoKeda
  BY <1>1, WithStatusType
<1>3. new.fin
  BY DEF Keda
<1>4. Write(new)
  BY <1>3 DEF Update, Stored
<1> HIDE DEF new
<1>5. server' = [server EXCEPT ![key] = new]
  BY <1>4 DEF Write
<1> QED
  BY <1>1, <1>2, <1>4, <1>5, WriteType DEF new

\* A sequence over a set is one over any larger set.
LEMMA SeqSubset ==
  ASSUME NEW S, NEW T, S \subseteq T, NEW s \in Seq(S)
  PROVE  s \in Seq(T)
  OBVIOUS

\* Appending stays in a set of sequences, and the add-on objects are among those
\* that todo holds.
LEMMA SeqFacts ==
  /\ <<>> \in Seq(AddonObjTypes)
  /\ \A S : \A s, t \in Seq(S) : s \o t \in Seq(S)
  /\ \A S : \A x \in S : <<x>> \in Seq(S)
  /\ \A s \in Seq(AddonObjTypes) : s \in Seq(Objs \cup AddonObjTypes)
<1>1. \A s \in Seq(AddonObjTypes) : s \in Seq(Objs \cup AddonObjTypes)
  BY SeqSubset
<1> QED
  BY <1>1

\* What the loops run over, and what they leave of it.
LEMMA TodoType ==
  /\ ManifestSeq \in Seq(Objs \cup AddonObjTypes)
  /\ ManifestSeq \o <<OperatorLease>> \in Seq(Objs \cup AddonObjTypes)
  /\ \A S : \A s \in Seq(S) : s # <<>> => Head(s) \in S /\ Tail(s) \in Seq(S)
<1>1. ManifestSeq \in Seq(Objs \cup AddonObjTypes)
  BY ManifestAssumption, SeqSubset DEF Objs
<1>2. <<OperatorLease>> \in Seq(Objs \cup AddonObjTypes)
  BY DEF Objs
<1>3. ManifestSeq \o <<OperatorLease>> \in Seq(Objs \cup AddonObjTypes)
  BY <1>1, <1>2
<1> QED
  BY <1>1, <1>3

\* Sanitizing the customisation of a spec yields one.
LEMMA SanitizedType ==
  ASSUME NEW c \in Customs
  PROVE  SanitizedCustom(c) \in Customs
  BY SanitizedAssumption DEF SanitizedCustom, Customs

\* What an apply writes is content of an object.
LEMMA DesiredType ==
  ASSUME manifest \in Customs, NEW o
  PROVE  Desired(o) \in Contents
  BY DEF Desired, Contents, Shipped, Customs

\* The events of the add-on objects come from one source.
LEMMA AddonEventsType ==
  ASSUME objEvents \subseteq EventSources, AddonEvents
  PROVE  objEvents' \subseteq EventSources
  BY DEF AddonEvents, EventSources

\* The pass and the installation path keep the types.
LEMMA InstallStepTypes ==
  ASSUME TypeInv, InstallStep
  PROVE  TypeInv'
<1> USE KedasAssumption
<1> USE DEF TypeInv, TypeOK, ClusterTypeOK, FsmTypeOK, CacheAgrees, HeldExists, CleanupKnown, Finalized,
        vars, clusterVars, crVars, heldVars, objVars, addonVars, fsmVars, loopVars, cfgVars
<1>1. ASSUME NEW k \in Kedas, Reconcile(k) PROVE TypeInv'
  BY <1>1 DEF Reconcile, Pcs, AddonLoops
<1>2. CASE UpdateStatus
  <2>1. inst.status \in Statuses /\ inst # NoKeda /\ key # NoKeda
    BY <1>2, HeldType DEF UpdateStatus, Keda
  <2>2. [server[key] EXCEPT !.status = inst.status] \in Keda \ {NoKeda}
    BY <1>2, <2>1, HeldType, WithStatusType DEF UpdateStatus
  <2> QED
    BY <1>2, <2>1, <2>2, WriteType DEF UpdateStatus, SwitchState, Pcs, AddonLoops
<1>3. CASE UpdateStatusFails
  <2>1. budget' \in [Interference -> Nat]
    BY <1>3, SpendType DEF UpdateStatusFails, Interference
  <2> QED
    BY <1>3, <2>1, EndPassType DEF UpdateStatusFails
<1>4. CASE EmitEvent
  BY <1>4 DEF EmitEvent, SwitchState, Pcs, AddonLoops
<1>5. CASE Return
  BY <1>5, EndPassType DEF Return
<1>6. CASE ServedFilter
  <2>1. inst \in Keda /\ inst.status \in Statuses
    BY <1>6, HeldType DEF ServedFilter, Keda
  <2>2. FilteredStatus(inst.status) \in Statuses
    <3>1. \A m \in {"True", "False"} : UpdateServed(inst.status, m) \in Statuses
      BY <2>1 DEF UpdateServed, Statuses, ServedMarks
    <3> QED
      BY <3>1, UpdateStateType DEF FilteredStatus, CondTypes, Reasons
  <2>3. budget' \in [Interference -> Nat]
    BY <1>6, SpendType DEF ServedFilter, Interference
  <2>4. inst' \in Keda /\ inst' # NoKeda /\ outcome' \in Outcomes /\ pc' = "UpdateStatus"
    BY <1>6, <2>1, <2>2, StopWithType DEF ServedFilter, Outcomes
  <2> QED
    BY <1>6, <2>3, <2>4 DEF ServedFilter, Pcs, AddonLoops
<1>7. CASE TakeSnapshot
  <2>1. inst.status \in Statuses
    BY <1>7, HeldType DEF TakeSnapshot, Keda
  <2> QED
    BY <1>7, <2>1 DEF TakeSnapshot, SwitchState, Pcs, AddonLoops
<1>8. CASE AddFinalizer
  <2>1. inst \in Keda /\ inst.status \in Statuses
    BY <1>8, HeldType DEF AddFinalizer, Keda
  <2>2. [inst EXCEPT !.fin = TRUE] \in Keda /\ [inst EXCEPT !.fin = TRUE].fin
    BY <2>1 DEF Keda
  <2>3. inst' \in Keda /\ inst' # NoKeda /\ outcome' \in Outcomes /\ pc' = "UpdateStatus"
    BY <1>8, <2>1, UpdateStateType, StopWithType DEF AddFinalizer, Outcomes, CondTypes, Reasons
  <2>4. /\ server' \in [Kedas -> Keda \cup {NoKeda}] /\ current' \in [Kedas -> BOOLEAN]
        /\ CacheAgrees' /\ server'[key] # NoKeda /\ key \in Kedas
    BY <1>8, <2>2, UpdateType DEF AddFinalizer
  <2> QED
    BY <1>8, <2>3, <2>4 DEF AddFinalizer, Pcs, AddonLoops
<1>9. CASE AddFinalizerFails
  <2>1. inst \in Keda /\ inst.status \in Statuses
    BY <1>9, HeldType DEF AddFinalizerFails, Keda
  <2>2. budget' \in [Interference -> Nat]
    BY <1>9, SpendType DEF AddFinalizerFails, Interference
  <2>3. inst' \in Keda /\ inst' # NoKeda /\ outcome' \in Outcomes /\ pc' = "UpdateStatus"
    BY <1>9, <2>1, StopWithType DEF AddFinalizerFails, Outcomes
  <2> QED
    BY <1>9, <2>2, <2>3 DEF AddFinalizerFails, Pcs, AddonLoops
<1>10. CASE InitializeGone
  BY <1>10, EndPassType DEF InitializeGone
<1>11. CASE InitializeDone
  BY <1>11 DEF InitializeDone, SwitchState, Pcs, AddonLoops
<1>12. CASE ValidationFails
  <2>1. inst \in Keda /\ inst.status \in Statuses
    BY <1>12, HeldType DEF ValidationFails, Keda
  <2>2. inst' \in Keda /\ inst' # NoKeda /\ outcome' \in Outcomes /\ pc' = "UpdateStatus"
    BY <1>12, <2>1, UpdateStateType, StopWithType DEF ValidationFails, Outcomes, CondTypes, Reasons
  <2> QED
    BY <1>12, <2>2 DEF ValidationFails, Pcs, AddonLoops
<1>13. CASE UpdateObjects
  <2>1. inst.spec.custom \in Customs
    BY <1>13, HeldType DEF UpdateObjects, Keda, SpecTypes
  <2>2. SanitizedCustom(inst.spec.custom) \in Customs
    BY <2>1, SanitizedType
  <2>3. manifest' \in Customs
    BY <1>13, <2>2 DEF UpdateObjects, UpdatedManifest, Customs
  <2>4. inst' \in Keda /\ inst'.fin = inst.fin
    BY <1>13, <2>2, HeldType DEF UpdateObjects, Keda, SpecTypes
  <2> QED
    BY <1>13, <2>3, <2>4, TodoType DEF UpdateObjects, Pcs, AddonLoops
<1>14. CASE ApplyObject
  <2>1. Desired(Head(todo)) \in Contents
    BY DesiredType
  <2>2. todo' \in Seq(Objs \cup AddonObjTypes)
    BY <1>14, TodoType DEF ApplyObject
  <2>3. objEvents' \subseteq EventSources
    BY <1>14 DEF ApplyObject, ObjEventsAfter, EventSources
  <2>4. cluster' \in [Objs -> Contents]
    BY <1>14, <2>1 DEF ApplyObject
  <2> QED
    BY <1>14, <2>2, <2>3, <2>4 DEF ApplyObject, AddonLoops
<1>15. CASE ApplyObjectFails
  <2>1. budget' \in [Interference -> Nat]
    BY <1>15, SpendType DEF ApplyObjectFails, Interference
  <2>2. todo' \in Seq(Objs \cup AddonObjTypes)
    BY <1>15, TodoType DEF ApplyObjectFails
  <2> QED
    BY <1>15, <2>1, <2>2 DEF ApplyObjectFails, AddonLoops
<1>16. CASE ApplyDone
  <2>1. inst \in Keda /\ inst.status \in Statuses
    BY <1>16, HeldType DEF ApplyDone, Keda
  <2>2. CASE failed
    <3>1. inst' \in Keda /\ inst' # NoKeda /\ outcome' \in Outcomes /\ pc' = "UpdateStatus"
      BY <1>16, <2>1, <2>2, UpdateStateType, StopWithType DEF ApplyDone, Outcomes, CondTypes, Reasons
    <3> QED
      BY <1>16, <3>1 DEF ApplyDone, Pcs, AddonLoops
  <2>3. CASE ~failed
    BY <1>16, <2>3 DEF ApplyDone, SwitchState, Pcs, AddonLoops
  <2> QED
    BY <2>2, <2>3
<1>17. CASE VerifyNotReady
  <2>1. inst \in Keda /\ inst.status \in Statuses
    BY <1>17, HeldType DEF VerifyNotReady, Keda
  <2>2. inst' \in Keda /\ inst' # NoKeda /\ outcome' \in Outcomes /\ pc' = "UpdateStatus"
    BY <1>17, <2>1, UpdateStateType, StopWithType DEF VerifyNotReady, Outcomes, CondTypes, Reasons
  <2> QED
    BY <1>17, <2>2 DEF VerifyNotReady, Pcs, AddonLoops
<1>18. CASE Verified
  <2>1. inst \in Keda /\ inst.status \in Statuses
    BY <1>18, HeldType DEF Verified, Keda
  <2>2. [RemoveCondition(inst.status, "DeploymentFailure") EXCEPT !.kedaVersion = "installed"] \in Statuses
    BY <2>1 DEF RemoveCondition, Statuses, Conds, NoCond
  <2>3. VerifiedStatus(inst.status) \in Statuses
    BY <2>2, UpdateStateType DEF VerifiedStatus, CondTypes, Reasons
  <2>4. inst' \in Keda /\ inst' # NoKeda /\ inst'.fin = inst.fin
    BY <1>18, <2>1, <2>3, WithStatusType DEF Verified, Keda
  <2> QED
    BY <1>18, <2>4 DEF Verified, Pcs, AddonLoops
<1>19. ASSUME NEW k \in Kedas, ReconcileNotFound(k) PROVE TypeInv'
  BY <1>19 DEF ReconcileNotFound
<1> QED
  BY <1>1, <1>2, <1>3, <1>4, <1>5, <1>6, <1>7, <1>8, <1>9, <1>10, <1>11, <1>12, <1>13,
     <1>14, <1>15, <1>16, <1>17, <1>18, <1>19 DEF InstallStep

\* The names of the add-on objects.
LEMMA AddonObjType ==
  /\ AddonCrd \in AddonObjTypes
  /\ \A ns \in Namespaces : AddonWorkload(ns) \in AddonObjTypes
                            /\ PeerAuthentication(ns) \in AddonObjTypes
  /\ \A v \in Versions : AddonExtra(v) \in AddonObjTypes
  BY DEF AddonObjTypes

\* A release manifest of the add-on, moved to a namespace, consists of add-on objects.
LEMMA FetchType ==
  ASSUME NEW v \in Versions, NEW ns \in Namespaces, NEW istio \in BOOLEAN
  PROVE  FetchAddonObjs(v, ns, istio) \in Seq(AddonObjTypes)
<1>1. <<AddonCrd, AddonWorkload(ns), AddonExtra(v)>> \in Seq(AddonObjTypes)
  BY AddonObjType
<1>2. <<PeerAuthentication(ns)>> \in Seq(AddonObjTypes) /\ <<>> \in Seq(AddonObjTypes)
  BY AddonObjType
<1> QED
  BY <1>1, <1>2 DEF FetchAddonObjs, FetchResources

\* The namespaces the add-on steps compute.
LEMMA NamespaceType ==
  ASSUME inst \in Keda
  PROVE  /\ TargetNS \in Namespaces /\ LastNS \in Namespaces
         /\ CleanupNS # "" => CleanupNS \in Namespaces /\ inst.installed.version \in Versions
         /\ inst.addon.istio \in BOOLEAN
<1>1. inst.addon \in AddonTypes /\ inst.installed \in InstalledTypes
  BY DEF Keda
<1>2. TargetNS \in Namespaces /\ LastNS \in Namespaces
  BY <1>1, AddonAssumption DEF TargetNS, LastNS, EffectiveNamespace, AddonTypes, InstalledTypes
<1> QED
  BY <1>1, <1>2 DEF CleanupNS, AddonTypes, InstalledTypes

\* The add-on steps stop with a typed CR.
LEMMA AddonStopType ==
  ASSUME inst \in Keda, NEW reason \in Reasons, AddonStop(reason) \/ AddonInUse
  PROVE  /\ inst' \in Keda /\ inst' # NoKeda
         /\ outcome' \in Outcomes /\ pc' = "UpdateStatus"
<1>1. inst.status \in Statuses
  BY DEF Keda
<1>2. \A r \in Reasons : SetAddonCondition(inst.status, "False", r) \in Statuses
  BY <1>1, SetConditionType DEF SetAddonCondition, CondTypes
<1>3. [SetAddonCondition(inst.status, "False", "HTTPAddonInUse") EXCEPT !.state = "Warning"] \in Statuses
  BY <1>2 DEF Statuses, States, Reasons
<1> QED
  BY <1>2, <1>3, StopWithType DEF AddonStop, AddonInUse, Outcomes

\* Persisting the annotations keeps everything typed.
LEMMA PersistType ==
  ASSUME TypeInv, pc \in {"PersistInstalled", "PersistDeleted"}, cache' = cache,
         UNCHANGED heldVars, NEW i \in InstalledTypes, NEW s \in {"True", "False"}, NEW r \in Reasons,
         PersistAnnotations(i, s, r)
  PROVE  /\ server' \in [Kedas -> Keda \cup {NoKeda}]
         /\ current' \in [Kedas -> BOOLEAN]
         /\ CacheAgrees' /\ HeldExists'
         /\ budget' \in [Interference -> Nat]
         /\ inst' \in Keda /\ inst' # NoKeda /\ outcome' \in Outcomes /\ pc' = "UpdateStatus"
<1>1. inst \in Keda /\ inst.status \in Statuses
  BY HeldType DEF Keda
<1>2. SetAddonCondition(inst.status, s, r) \in Statuses
  BY <1>1, SetConditionType DEF SetAddonCondition, CondTypes
<1>3. inst' \in Keda /\ inst' # NoKeda /\ outcome' \in Outcomes /\ pc' = "UpdateStatus"
  <2>1. inst' \in Keda
    BY <1>1, <1>2 DEF PersistAnnotations, Keda
  <2> QED
    BY <2>1, KedasAssumption DEF PersistAnnotations, Outcomes
<1>4. budget' \in [Interference -> Nat]
  BY SpendType DEF PersistAnnotations, Interference, TypeInv, TypeOK, ClusterTypeOK
<1>5. CASE Update([inst EXCEPT !.installed = i])
  <2>1. [inst EXCEPT !.installed = i] \in Keda /\ [inst EXCEPT !.installed = i].fin = inst.fin
    BY <1>1 DEF Keda
  <2>2. inst.fin
    BY DEF TypeInv, Finalized, Pcs
  <2>3. /\ server' \in [Kedas -> Keda \cup {NoKeda}] /\ current' \in [Kedas -> BOOLEAN]
        /\ CacheAgrees' /\ server'[key] # NoKeda /\ key \in Kedas
    BY <1>5, <2>1, <2>2, UpdateType
  <2> QED
    BY <1>3, <1>4, <2>3 DEF HeldExists, heldVars
<1>6. CASE UNCHANGED <<server, current>>
  BY <1>3, <1>4, <1>6 DEF TypeInv, TypeOK, ClusterTypeOK, CacheAgrees, HeldExists, heldVars
<1> QED
  BY <1>5, <1>6 DEF PersistAnnotations

\* The add-on path keeps the types.
LEMMA AddonStepTypes ==
  ASSUME TypeInv, AddonStep
  PROVE  TypeInv'
<1> USE DEF TypeInv, TypeOK, ClusterTypeOK, FsmTypeOK, CacheAgrees, HeldExists, CleanupKnown, Finalized,
        AddonFrame, vars, clusterVars, crVars, heldVars, objVars, addonVars, fsmVars, loopVars, cfgVars
<1>a. budget' \in [Interference -> Nat]
  <2>1. \/ UNCHANGED budget \/ Spend("failure")
        \/ PersistInstalled \/ PersistDeleted
    BY DEF AddonStep, EnsureNamespace, FetchOld, CleanupOld, FetchNew, ApplyAddonObj,
       ApplyAddonDone, DropPeerAuthentication, GuardAddon, DeleteAddonNothing,
       DeleteAddonFetch, DeleteAddonObj, DeleteAddonDone
  <2> QED
    BY <2>1, SpendType DEF Interference, PersistInstalled, PersistDeleted, PersistAnnotations
<1>b. pc # "Idle" /\ inst \in Keda /\ inst # NoKeda /\ key \in Kedas
  <2>1. pc # "Idle"
    BY DEF AddonStep, EnsureNamespace, FetchOld, CleanupOld, FetchNew, ApplyAddonObj,
       ApplyAddonDone, DropPeerAuthentication, PersistInstalled, GuardAddon,
       DeleteAddonNothing, DeleteAddonFetch, DeleteAddonObj, DeleteAddonDone, PersistDeleted
  <2> QED
    BY <2>1, HeldType
<1>c. ASSUME NEW reason \in Reasons, AddonStop(reason) \/ AddonInUse
      PROVE  /\ inst' \in Keda /\ inst' # NoKeda
             /\ outcome' \in Outcomes /\ pc' = "UpdateStatus"
  BY <1>b, <1>c, AddonStopType
<1>d. objEvents' \subseteq EventSources
  <2>1. AddonEvents
    BY DEF AddonStep, EnsureNamespace, FetchOld, CleanupOld, FetchNew, ApplyAddonObj,
       ApplyAddonDone, DropPeerAuthentication, PersistInstalled, GuardAddon,
       DeleteAddonNothing, DeleteAddonFetch, DeleteAddonObj, DeleteAddonDone, PersistDeleted
  <2> QED
    BY <2>1, AddonEventsType
<1> USE <1>d
<1>1. CASE EnsureNamespace
  <2>1. CASE SwitchState(IF CleanupNS = "" THEN "FetchNew" ELSE "FetchOld")
    <3>1. CleanupNS' = CleanupNS
      BY <1>1, <2>1 DEF EnsureNamespace, SwitchState, CleanupNS, TargetNS
    <3> QED
      BY <1>1, <1>a, <2>1, <3>1 DEF EnsureNamespace, SwitchState, Pcs, AddonLoops
  <2>2. CASE AddonStop("HTTPAddonInstallErr")
    BY <1>1, <1>a, <1>c, <2>2 DEF EnsureNamespace, Pcs, AddonLoops, Reasons
  <2> QED
    BY <1>1, <2>1, <2>2 DEF EnsureNamespace
<1>2. CASE FetchOld
  <2>a. CleanupNS \in Namespaces /\ inst.installed.version \in Versions
    BY <1>2, <1>b, NamespaceType DEF FetchOld
  <2>1. FetchAddonObjs(inst.installed.version, CleanupNS, FALSE) \in Seq(AddonObjTypes)
    BY <2>a, FetchType
  <2>2. <<PeerAuthentication(CleanupNS)>> \in Seq(AddonObjTypes)
    <3>1. PeerAuthentication(CleanupNS) \in AddonObjTypes
      BY <2>a, AddonObjType
    <3> QED
      BY <3>1, SeqFacts
  <2>3. FetchAddonObjs(inst.installed.version, CleanupNS, FALSE)
          \o <<PeerAuthentication(CleanupNS)>> \in Seq(AddonObjTypes)
    BY <2>1, <2>2, SeqFacts
  <2>4. todo' \in Seq(Objs \cup AddonObjTypes)
    BY <1>2, <2>3, SeqFacts DEF FetchOld
  <2> QED
    BY <1>2, <1>a, <2>3, <2>4 DEF FetchOld, SwitchState, Pcs, AddonLoops
<1>3. CASE CleanupOld
  <2>1. todo' \in Seq(AddonObjTypes) /\ todo' \in Seq(Objs \cup AddonObjTypes)
    BY <1>3, TodoType DEF CleanupOld, AddonLoops
  <2>2. addonObjs' \subseteq AddonObjTypes /\ hso' \in BOOLEAN
    BY <1>3 DEF CleanupOld, RemoveAddonObj
  <2> QED
    BY <1>3, <1>a, <2>1, <2>2 DEF CleanupOld, SwitchState, Pcs, AddonLoops
<1>4. CASE FetchNew
  <2>1. FetchAddonObjs(addonVersion, TargetNS, inst.addon.istio) \in Seq(AddonObjTypes)
    BY <1>b, NamespaceType, FetchType
  <2>2. CASE AddonStop("HTTPAddonInstallErr") /\ UNCHANGED todo
    BY <1>4, <1>a, <1>c, <2>2 DEF FetchNew, Pcs, AddonLoops, Reasons
  <2>3. CASE /\ todo' = FetchAddonObjs(addonVersion, TargetNS, inst.addon.istio)
             /\ SwitchState("ApplyAddonObjs")
    <3>1. todo' \in Seq(Objs \cup AddonObjTypes)
      BY <2>1, <2>3, SeqFacts
    <3> QED
      BY <1>4, <1>a, <2>1, <2>3, <3>1 DEF FetchNew, SwitchState, Pcs, AddonLoops
  <2> QED
    BY <1>4, <2>2, <2>3 DEF FetchNew
<1>5. CASE ApplyAddonObj
  <2>1. /\ Head(todo) \in AddonObjTypes
        /\ todo' \in Seq(AddonObjTypes) /\ todo' \in Seq(Objs \cup AddonObjTypes)
    BY <1>5, TodoType DEF ApplyAddonObj, AddonLoops
  <2>2. addonObjs' \subseteq AddonObjTypes
    BY <1>5, <2>1 DEF ApplyAddonObj
  <2> QED
    BY <1>5, <1>a, <2>1, <2>2 DEF ApplyAddonObj
<1>6. CASE ApplyAddonDone
  <2>1. CASE failed
    BY <1>6, <1>c, <2>1 DEF ApplyAddonDone, Pcs, AddonLoops, Reasons
  <2>2. CASE ~failed
    BY <1>6, <2>2 DEF ApplyAddonDone, SwitchState, Pcs, AddonLoops
  <2> QED
    BY <2>1, <2>2
<1>7. CASE DropPeerAuthentication
  <2>1. CASE AddonStop("HTTPAddonInstallErr") /\ UNCHANGED addonVars
    BY <1>7, <1>a, <1>c, <2>1 DEF DropPeerAuthentication, Pcs, AddonLoops, Reasons
  <2>2. CASE RemoveAddonObj(PeerAuthentication(TargetNS)) /\ SwitchState("PersistInstalled")
    BY <1>7, <1>a, <2>2 DEF DropPeerAuthentication, RemoveAddonObj, SwitchState, Pcs, AddonLoops
  <2> QED
    BY <1>7, <2>1, <2>2 DEF DropPeerAuthentication
<1>8. CASE PersistInstalled
  <2>1. [version |-> addonVersion, namespace |-> TargetNS] \in InstalledTypes
    BY <1>b, NamespaceType DEF InstalledTypes
  <2>2. cfgAddonObjs' \in Seq(AddonObjTypes)
    BY <1>8, <1>b, NamespaceType, FetchType DEF PersistInstalled
  <2>3. /\ server' \in [Kedas -> Keda \cup {NoKeda}] /\ current' \in [Kedas -> BOOLEAN]
        /\ CacheAgrees' /\ HeldExists'
        /\ inst' \in Keda /\ inst' # NoKeda /\ outcome' \in Outcomes /\ pc' = "UpdateStatus"
    BY <1>8, <2>1, PersistType DEF PersistInstalled, Reasons
  <2> QED
    BY <1>8, <1>a, <1>b, <2>2, <2>3 DEF PersistInstalled, Pcs, AddonLoops
<1>9. CASE GuardAddon
  <2>1. CASE AddonInUse
    BY <1>9, <1>a, <1>c, <2>1 DEF GuardAddon, Pcs, AddonLoops, Reasons
  <2>2. CASE SwitchState("DeleteAddon")
    BY <1>9, <1>a, <2>2 DEF GuardAddon, SwitchState, Pcs, AddonLoops
  <2> QED
    BY <1>9, <2>1, <2>2 DEF GuardAddon
<1>10. CASE DeleteAddonNothing
  BY <1>10, <1>a, <1>c DEF DeleteAddonNothing, Pcs, AddonLoops, Reasons
<1>11. CASE DeleteAddonFetch
  <2>1. CASE AddonStop("HTTPAddonDeleted") /\ UNCHANGED todo
    BY <1>11, <1>a, <1>c, <2>1 DEF DeleteAddonFetch, Pcs, AddonLoops, Reasons
  <2>2. CASE SwitchState("DeleteAddonObjs")
             /\ todo' = IF cfgAddonObjs # <<>> THEN cfgAddonObjs
                        ELSE FetchAddonObjs(inst.installed.version, LastNS, FALSE)
    <3>1. cfgAddonObjs = <<>> => inst.installed.version \in Versions
      BY <1>11, <1>b DEF DeleteAddonFetch, Keda, InstalledTypes
    <3>2. todo' \in Seq(AddonObjTypes)
      BY <1>b, <2>2, <3>1, NamespaceType, FetchType
    <3>3. todo' \in Seq(Objs \cup AddonObjTypes)
      BY <3>2, SeqFacts
    <3> QED
      BY <1>11, <1>a, <2>2, <3>2, <3>3 DEF DeleteAddonFetch, SwitchState, Pcs, AddonLoops
  <2> QED
    BY <1>11, <2>1, <2>2 DEF DeleteAddonFetch
<1>12. CASE DeleteAddonObj
  <2>1. todo' \in Seq(AddonObjTypes) /\ todo' \in Seq(Objs \cup AddonObjTypes)
    BY <1>12, TodoType DEF DeleteAddonObj, AddonLoops
  <2> QED
    BY <1>12, <1>a, <2>1 DEF DeleteAddonObj, RemoveAddonObj
<1>13. CASE DeleteAddonDone
  <2>1. CASE AddonStop("HTTPAddonInstallErr") /\ UNCHANGED addonVars
    BY <1>13, <1>a, <1>c, <2>1 DEF DeleteAddonDone, Pcs, AddonLoops, Reasons
  <2>2. CASE RemoveAddonObj(PeerAuthentication(LastNS)) /\ SwitchState("PersistDeleted")
    BY <1>13, <1>a, <2>2 DEF DeleteAddonDone, RemoveAddonObj, SwitchState, Pcs, AddonLoops
  <2> QED
    BY <1>13, <2>1, <2>2 DEF DeleteAddonDone
<1>14. CASE PersistDeleted
  <2>1. [version |-> "", namespace |-> ""] \in InstalledTypes
    BY DEF InstalledTypes
  <2>2. /\ server' \in [Kedas -> Keda \cup {NoKeda}] /\ current' \in [Kedas -> BOOLEAN]
        /\ CacheAgrees' /\ HeldExists'
        /\ inst' \in Keda /\ inst' # NoKeda /\ outcome' \in Outcomes /\ pc' = "UpdateStatus"
    BY <1>14, <2>1, PersistType DEF PersistDeleted, Reasons
  <2>3. cfgAddonObjs' \in Seq(AddonObjTypes)
    BY <1>14, SeqFacts DEF PersistDeleted
  <2>4. UNCHANGED <<addonVars, todo, failed>> /\ AddonFrame
    BY <1>14 DEF PersistDeleted
  <2> QED
    BY <1>a, <1>b, <2>2, <2>3, <2>4 DEF Pcs, AddonLoops
<1> QED
  BY <1>1, <1>2, <1>3, <1>4, <1>5, <1>6, <1>7, <1>8, <1>9, <1>10, <1>11, <1>12, <1>13, <1>14
     DEF AddonStep

\* The deletion path keeps the types.
LEMMA DeleteStepTypes ==
  ASSUME TypeInv, DeleteStep
  PROVE  TypeInv'
<1> USE KedasAssumption
<1> USE DEF TypeInv, TypeOK, ClusterTypeOK, FsmTypeOK, CacheAgrees, HeldExists, CleanupKnown, Finalized,
        DeleteFrame, vars, clusterVars, crVars, heldVars, objVars, addonVars, fsmVars, loopVars, cfgVars
<1>a. budget' \in [Interference -> Nat]
  <2>1. UNCHANGED budget \/ Spend("failure")
    BY DEF DeleteStep, DeleteResources, CheckCrd, CheckCrdBlocks, DeleteAddonLeftovers,
       DeleteObj, DeleteObjFails, DeleteDone, RemoveFinalizer, RemoveFinalizerFails
  <2> QED
    BY <2>1, SpendType DEF Interference
<1>b. pc # "Idle" /\ inst \in Keda /\ inst # NoKeda /\ inst.status \in Statuses
  <2>1. pc # "Idle"
    BY DEF DeleteStep, DeleteResources, CheckCrd, CheckCrdBlocks, DeleteAddonLeftovers,
       DeleteObj, DeleteObjFails, DeleteDone, RemoveFinalizer, RemoveFinalizerFails
  <2> QED
    BY <2>1, HeldType DEF Keda
<1>c. ASSUME NEW out \in Outcomes, NEW r \in Reasons,
             \/ StopWith(out, UpdateStateDeletion(inst.status, "Deleted", r))
             \/ StopWith(out, UpdateStateDeletionTrue(inst.status, "Deleted", r))
             \/ StopWith(out, UpdateStateFromWarning(inst.status, "Deleted", r))
             \/ StopWith(out, UpdateStateFromErr(inst.status, "Deleted", r))
      PROVE  /\ inst' \in Keda /\ inst' # NoKeda
             /\ outcome' \in Outcomes /\ pc' = "UpdateStatus"
  <2>1. "Deleted" \in CondTypes
    BY DEF CondTypes
  <2> QED
    BY <1>b, <1>c, <2>1, UpdateStateType, StopWithType
<1>1. CASE DeleteResources
  <2>1. CASE SwitchState("CheckCrds") /\ todo' = ManifestSeq
    BY <1>1, <2>1, TodoType DEF DeleteResources, SwitchState, Pcs, AddonLoops
  <2>2. CASE /\ \/ StopWith("requeue", UpdateStateDeletion(inst.status, "Deleted", "Deletion"))
                \/ StopWith("error", UpdateStateFromWarning(inst.status, "Deleted", "HTTPAddonInUse"))
             /\ UNCHANGED todo
    <3>1. inst' \in Keda /\ inst' # NoKeda /\ outcome' \in Outcomes /\ pc' = "UpdateStatus"
      BY <1>c, <2>2 DEF Outcomes, Reasons
    <3> QED
      BY <1>1, <2>2, <3>1 DEF DeleteResources, Pcs, AddonLoops
  <2> QED
    BY <1>1, <2>1, <2>2 DEF DeleteResources, DeletionStop
<1>2. CASE CheckCrd
  <2>1. todo' \in Seq(Objs \cup AddonObjTypes)
    BY <1>2, TodoType DEF CheckCrd
  <2>2. known' \subseteq Crds
    BY <1>2 DEF CheckCrd, Discover
  <2> QED
    BY <1>2, <2>1, <2>2 DEF CheckCrd, CheckFrame, AddonLoops
<1>3. CASE CheckCrdBlocks
  <2>1. inst' \in Keda /\ inst' # NoKeda /\ outcome' \in Outcomes /\ pc' = "UpdateStatus"
    BY <1>3, <1>c DEF CheckCrdBlocks, DeletionStop, Outcomes, Reasons
  <2>2. known' \subseteq Crds
    BY <1>3 DEF CheckCrdBlocks, Discover
  <2>3. UNCHANGED todo /\ CheckFrame
    BY <1>3 DEF CheckCrdBlocks
  <2> QED
    BY <1>a, <1>b, <2>1, <2>2, <2>3 DEF CheckFrame, Pcs, AddonLoops
<1>4. CASE DeleteAddonLeftovers
  <2>1. CASE SwitchState("DeleteObjs") /\ todo' = ManifestSeq \o <<OperatorLease>>
    <3>1. addonObjs' \subseteq AddonObjTypes /\ hso' \in BOOLEAN
          /\ objEvents' \subseteq EventSources
      BY <1>4, AddonEventsType DEF DeleteAddonLeftovers
    <3>2. todo' \in Seq(Objs \cup AddonObjTypes)
      BY <2>1, TodoType
    <3>3. /\ UNCHANGED <<crVars, heldVars, cluster, depStatus, scaled, failed>> /\ DeleteFrame
          /\ pc = "CheckCrds"
      BY <1>4 DEF DeleteAddonLeftovers
    <3> QED
      BY <1>a, <2>1, <3>1, <3>2, <3>3 DEF SwitchState, Pcs, AddonLoops
  <2>2. CASE /\ StopWith("error", UpdateStateFromErr(inst.status, "Deleted", "DeletionErr"))
             /\ UNCHANGED <<addonVars, objEvents, todo>>
    <3>1. inst' \in Keda /\ inst' # NoKeda /\ outcome' \in Outcomes /\ pc' = "UpdateStatus"
      BY <1>c, <2>2 DEF Outcomes, Reasons
    <3>2. UNCHANGED <<crVars, heldVars, cluster, depStatus, scaled, failed>> /\ DeleteFrame
      BY <1>4 DEF DeleteAddonLeftovers
    <3> QED
      BY <1>a, <1>b, <2>2, <3>1, <3>2 DEF Pcs, AddonLoops
  <2> QED
    BY <1>4, <2>1, <2>2 DEF DeleteAddonLeftovers, DeletionStop
<1>5. CASE DeleteObj
  <2>1. todo' \in Seq(Objs \cup AddonObjTypes)
    BY <1>5, TodoType DEF DeleteObj
  <2>2. cluster' \in [Objs -> Contents] /\ objEvents' \subseteq EventSources
    BY <1>5 DEF DeleteObj, ObjEventsAfter, EventSources, Contents
  <2>3. depStatus' \in [Deployments -> {"unavailable", "ready", "replicaFailure"}]
    BY <1>5 DEF DeleteObj
  <2>4. scaled' \subseteq Crds
    BY <1>5 DEF DeleteObj
  <2> QED
    BY <1>5, <2>1, <2>2, <2>3, <2>4 DEF DeleteObj, AddonLoops
<1>6. CASE DeleteObjFails
  <2>1. todo' \in Seq(Objs \cup AddonObjTypes)
    BY <1>6, TodoType DEF DeleteObjFails
  <2> QED
    BY <1>6, <1>a, <2>1 DEF DeleteObjFails, AddonLoops
<1>7. CASE DeleteDone
  <2>1. CASE SwitchState("RemoveFinalizer")
    BY <1>7, <2>1 DEF DeleteDone, SwitchState, Pcs, AddonLoops
  <2>2. CASE \/ StopWith("requeue", UpdateStateDeletionTrue(inst.status, "Deleted", "Deleted"))
             \/ StopWith("error", UpdateStateFromErr(inst.status, "Deleted", "DeletionErr"))
    <3>1. inst' \in Keda /\ inst' # NoKeda /\ outcome' \in Outcomes /\ pc' = "UpdateStatus"
      BY <1>c, <2>2 DEF Outcomes, Reasons
    <3> QED
      BY <1>7, <3>1 DEF DeleteDone, Pcs, AddonLoops
  <2> QED
    BY <1>7, <2>1, <2>2 DEF DeleteDone, DeletionStop
<1>8. CASE RemoveFinalizer
  <2> DEFINE cr == [[inst EXCEPT !.fin = FALSE] EXCEPT !.status = server[key].status]
  <2>a. fresh /\ inst \in Keda /\ server[key].status \in Statuses
    BY <1>8, HeldType DEF RemoveFinalizer, Update, Keda
  <2>b. cr \in Keda
    BY <2>a DEF Keda
  <2>1. Stored(cr) \in Keda \cup {NoKeda}
    BY <2>b DEF Stored
  <2>2. FsmTypeOK' /\ key' = NoKeda /\ fresh' = FALSE /\ queue' \subseteq Kedas
    BY <1>8, EndPassType DEF RemoveFinalizer
  <2>3. /\ server' \in [Kedas -> Keda \cup {NoKeda}]
        /\ current' \in [Kedas -> BOOLEAN]
        /\ CacheAgrees'
    BY <1>8, <2>a, <2>1, WriteType DEF RemoveFinalizer, Update
  <2> QED
    BY <1>8, <2>2, <2>3 DEF RemoveFinalizer, EndPass, DropPass
<1>9. CASE RemoveFinalizerFails
  <2>1. FsmTypeOK' /\ key' = NoKeda /\ fresh' = FALSE /\ queue' \subseteq Kedas
    BY <1>9, <1>b, EndPassType DEF RemoveFinalizerFails
  <2>2. pc' = "Idle"
    BY <1>9 DEF RemoveFinalizerFails, EndPass, DropPass
  <2> QED
    BY <1>9, <1>a, <2>1, <2>2 DEF RemoveFinalizerFails
<1> QED
  BY <1>1, <1>2, <1>3, <1>4, <1>5, <1>6, <1>7, <1>8, <1>9 DEF DeleteStep

\* A write of a user keeps the types: what it stores is a CR or nothing, and the
\* copies of it are marked as outdated.
LEMMA UserWriteType ==
  ASSUME TypeInv, NEW k \in Kedas, NEW cr \in Keda \cup {NoKeda}, UserWrite(k, cr),
         UNCHANGED fsmVars
  PROVE  TypeInv'
<1> USE DEF TypeInv, TypeOK, ClusterTypeOK, FsmTypeOK, CacheAgrees, HeldExists, CleanupKnown, Finalized,
        crVars, heldVars, objVars, addonVars, fsmVars, loopVars, cfgVars
<1>1. budget' \in [Interference -> Nat]
  BY SpendType DEF UserWrite, Interference
<1>2. CleanupNS' = CleanupNS
  BY DEF CleanupNS, TargetNS, EffectiveNamespace
<1>3. /\ server' \in [Kedas -> Keda \cup {NoKeda}]
      /\ current' \in [Kedas -> BOOLEAN] /\ fresh' \in BOOLEAN
      /\ CacheAgrees' /\ HeldExists'
  BY DEF UserWrite
<1> QED
  BY <1>1, <1>2, <1>3 DEF UserWrite

\* Users and failures keep the types.
LEMMA OutsideStepTypes ==
  ASSUME TypeInv, OutsideStep
  PROVE  TypeInv'
<1> USE DEF TypeInv, TypeOK, ClusterTypeOK, FsmTypeOK, CacheAgrees, HeldExists, CleanupKnown, Finalized,
        crVars, heldVars, objVars, addonVars, fsmVars, loopVars, cfgVars
<1>a. UNCHANGED fsmVars
  BY DEF OutsideStep
<1>b. CleanupNS' = CleanupNS
  BY <1>a DEF CleanupNS, TargetNS, EffectiveNamespace
<1>c. \A k \in Kedas : server[k] # NoKeda => server[k] \in Keda
  OBVIOUS
<1>d. \A cr \in Keda : Stored(cr) \in Keda \cup {NoKeda}
  BY DEF Stored
<1>1. ASSUME NEW k \in Kedas, CreateKeda(k) PROVE TypeInv'
  <2>1. PICK s \in Specs, a \in AddonCfgs, e \in ExtFinalizers :
          UserWrite(k, [del |-> FALSE, fin |-> FALSE, ext |-> e, spec |-> s, addon |-> a,
                        installed |-> [version |-> "", namespace |-> ""],
                        status |-> EmptyStatus])
    BY <1>1 DEF CreateKeda
  <2>2. [del |-> FALSE, fin |-> FALSE, ext |-> e, spec |-> s, addon |-> a,
         installed |-> [version |-> "", namespace |-> ""], status |-> EmptyStatus] \in Keda
    BY SpecsAssumption, EmptyStatusType DEF Keda, InstalledTypes
  <2> QED
    BY <1>a, <2>1, <2>2, UserWriteType
<1>2. ASSUME NEW k \in Kedas, EditSpec(k) PROVE TypeInv'
  <2>1. PICK s \in Specs : UserWrite(k, [server[k] EXCEPT !.spec = s])
    BY <1>2 DEF EditSpec
  <2>2. [server[k] EXCEPT !.spec = s] \in Keda
    BY <1>2, <1>c, SpecsAssumption DEF EditSpec, Keda
  <2> QED
    BY <1>a, <2>1, <2>2, UserWriteType
<1>3. ASSUME NEW k \in Kedas, EditAddon(k) PROVE TypeInv'
  <2>1. PICK a \in AddonCfgs : UserWrite(k, [server[k] EXCEPT !.addon = a])
    BY <1>3 DEF EditAddon
  <2>2. [server[k] EXCEPT !.addon = a] \in Keda
    BY <1>3, <1>c, SpecsAssumption DEF EditAddon, Keda
  <2> QED
    BY <1>a, <2>1, <2>2, UserWriteType
<1>4. ASSUME NEW k \in Kedas, DeleteKeda(k) PROVE TypeInv'
  <2>1. [server[k] EXCEPT !.del = TRUE] \in Keda
    BY <1>4, <1>c DEF DeleteKeda, Keda
  <2> QED
    BY <1>4, <1>a, <1>d, <2>1, UserWriteType DEF DeleteKeda
<1>5. ASSUME NEW k \in Kedas, DropExtFinalizer(k) PROVE TypeInv'
  <2>1. [server[k] EXCEPT !.ext = FALSE] \in Keda
    BY <1>5, <1>c DEF DropExtFinalizer, Keda
  <2> QED
    BY <1>5, <1>a, <1>d, <2>1, UserWriteType DEF DropExtFinalizer
<1>6. ASSUME NEW o \in ManifestObjs, Tamper(o) PROVE TypeInv'
  <2>1. budget' \in [Interference -> Nat]
    BY <1>6, SpendType DEF Tamper, Interference
  <2>2. PICK c \in {Absent, Tampered} :
          /\ cluster' = [cluster EXCEPT ![o] = c]
          /\ objEvents' = ObjEventsAfter(o, c)
          /\ scaled' = IF c = Absent THEN scaled \ {o} ELSE scaled
          /\ depStatus' = IF c = Absent /\ o \in Deployments
                          THEN [depStatus EXCEPT ![o] = "unavailable"] ELSE depStatus
    BY <1>6 DEF Tamper
  <2>3. cluster' \in [Objs -> Contents] /\ objEvents' \subseteq EventSources
    BY <2>2 DEF ObjEventsAfter, EventSources, Contents, Objs
  <2>4. /\ scaled' \subseteq Crds
        /\ depStatus' \in [Deployments -> {"unavailable", "ready", "replicaFailure"}]
    BY <2>2
  <2> QED
    BY <1>6, <1>a, <1>b, <2>1, <2>3, <2>4 DEF Tamper
<1>6b. ASSUME NEW o \in AddonObjTypes, TamperAddon(o) PROVE TypeInv'
  <2>1. budget' \in [Interference -> Nat]
    BY <1>6b, SpendType DEF TamperAddon, Interference
  <2>2. /\ addonObjs' \subseteq AddonObjTypes /\ hso' \in BOOLEAN
        /\ objEvents' \subseteq EventSources
    BY <1>6b, AddonEventsType DEF TamperAddon, RemoveAddonObj
  <2> QED
    BY <1>6b, <1>a, <1>b, <2>1, <2>2 DEF TamperAddon
<1>7. ASSUME NEW d \in Deployments, DeploymentDegrades(d) PROVE TypeInv'
  <2>1. budget' \in [Interference -> Nat]
    BY <1>7, SpendType DEF DeploymentDegrades, Interference
  <2>2. depStatus' \in [Deployments -> {"unavailable", "ready", "replicaFailure"}]
    BY <1>7 DEF DeploymentDegrades
  <2> QED
    BY <1>7, <1>a, <1>b, <2>1, <2>2 DEF DeploymentDegrades
<1>8. CASE AcquireLease
  <2>1. cluster' \in [Objs -> Contents]
    BY <1>8 DEF AcquireLease, Contents, Customs, Shipped
  <2> QED
    BY <1>8, <1>a, <1>b, <2>1 DEF AcquireLease
<1>9. ASSUME NEW c \in Crds, CreateScaled(c) \/ DeleteScaled(c) PROVE TypeInv'
  <2>1. budget' \in [Interference -> Nat]
    BY <1>9, SpendType DEF CreateScaled, DeleteScaled, Interference
  <2>2. scaled' \subseteq Crds
    BY <1>9 DEF CreateScaled, DeleteScaled
  <2>3. UNCHANGED <<crVars, heldVars, cluster, depStatus, objEvents, addonVars>>
    BY <1>9 DEF CreateScaled, DeleteScaled
  <2> QED
    BY <1>a, <1>b, <2>1, <2>2, <2>3
<1>10. CASE CreateHso \/ DeleteHso
  <2>1. budget' \in [Interference -> Nat]
    BY <1>10, SpendType DEF CreateHso, DeleteHso, Interference
  <2>2. hso' \in BOOLEAN
    BY <1>10 DEF CreateHso, DeleteHso
  <2>3. UNCHANGED <<crVars, heldVars, objVars, addonObjs>>
    BY <1>10 DEF CreateHso, DeleteHso
  <2> QED
    BY <1>a, <1>b, <2>1, <2>2, <2>3
<1> QED
  BY <1>1, <1>2, <1>3, <1>4, <1>5, <1>6, <1>6b, <1>7, <1>8, <1>9, <1>10 DEF OutsideStep

\* Informers, event handlers and rollouts keep the types.
LEMMA SystemStepTypes ==
  ASSUME TypeInv, SystemStep
  PROVE  TypeInv'
<1> USE DEF TypeInv, TypeOK, ClusterTypeOK, FsmTypeOK, CacheAgrees, HeldExists, CleanupKnown, Finalized,
        crVars, heldVars, objVars, addonVars, fsmVars, loopVars, cfgVars
<1>a. UNCHANGED fsmVars
  BY DEF SystemStep
<1>b. CleanupNS' = CleanupNS
  BY <1>a DEF CleanupNS, TargetNS, EffectiveNamespace
<1>1. ASSUME NEW k \in Kedas, CacheSync(k) PROVE TypeInv'
  <2>1. Enqueued(k) \subseteq Kedas
    BY DEF Enqueued, Present
  <2>2. /\ cache' \in [Kedas -> Keda \cup {NoKeda}]
        /\ current' \in [Kedas -> BOOLEAN]
        /\ CacheAgrees' /\ HeldExists'
    BY <1>1 DEF CacheSync
  <2> QED
    BY <1>1, <1>a, <1>b, <2>1, <2>2 DEF CacheSync
<1>2. ASSUME NEW o \in EventSources, MapFunction(o) PROVE TypeInv'
  <2>1. queue' \subseteq Kedas
    BY <1>2 DEF MapFunction, Present
  <2> QED
    BY <1>2, <1>a, <1>b, <2>1 DEF MapFunction
<1>3. ASSUME NEW d \in Deployments, DeploymentReady(d) PROVE TypeInv'
  BY <1>3, <1>a, <1>b DEF DeploymentReady
<1> QED
  BY <1>1, <1>2, <1>3 DEF SystemStep

\* A restart of the manager keeps the types.
LEMMA RestartTypes ==
  ASSUME TypeInv, Restart
  PROVE  TypeInv'
<1>1. budget' \in [Interference -> Nat]
  BY SpendType DEF Restart, Interference, TypeInv, TypeOK, ClusterTypeOK
<1>2. snap' \in Statuses
  BY EmptyStatusType DEF Restart, DropPass
<1>3. manifest' \in Customs
  BY DEF Restart, Shipped, Customs
<1>4. queue' \subseteq Kedas
  BY DEF Restart, Present
<1>5. <<>> \in Seq(Objs \cup AddonObjTypes) /\ <<>> \in Seq(AddonObjTypes)
  OBVIOUS
<1>6. FsmTypeOK'
  BY <1>2, <1>3, <1>5, KedasAssumption DEF Restart, DropPass, FsmTypeOK, Pcs, Outcomes, AddonLoops
<1>7. objEvents' \subseteq EventSources
  BY DEF Restart, EventSources
<1> QED
  BY <1>1, <1>4, <1>6, <1>7 DEF Restart, DropPass, TypeInv, TypeOK, ClusterTypeOK,
     CacheAgrees, HeldExists, CleanupKnown, Finalized, addonVars

\* Every step keeps the types.
LEMMA NextTypes ==
  ASSUME TypeInv, [Next]_vars
  PROVE  TypeInv'
<1>1. CASE UNCHANGED vars
  <2>1. CleanupNS' = CleanupNS
    BY <1>1 DEF CleanupNS, TargetNS, EffectiveNamespace, vars, fsmVars, cfgVars
  <2> QED
    BY <1>1, <2>1 DEF TypeInv, TypeOK, ClusterTypeOK, FsmTypeOK, CacheAgrees, HeldExists,
       CleanupKnown, Finalized, vars, clusterVars, crVars, heldVars, objVars, addonVars, fsmVars,
       loopVars, cfgVars
<1> QED
  BY <1>1, InstallStepTypes, AddonStepTypes, DeleteStepTypes, SystemStepTypes,
     OutsideStepTypes, RestartTypes DEF Next, WorkerStep

\* The initial states are typed.
LEMMA InitTypes ==
  ASSUME Init
  PROVE  TypeInv
<1>1. <<>> \in Seq(Objs \cup AddonObjTypes) /\ <<>> \in Seq(AddonObjTypes)
  OBVIOUS
<1>2. ClusterTypeOK
  BY BudgetAssumption DEF Init, ClusterInit, ClusterTypeOK, Contents
<1>3. FsmTypeOK
  BY <1>1, EmptyStatusType, KedasAssumption DEF Init, ClusterInit, FsmInit, FsmTypeOK, Pcs,
     Outcomes, AddonLoops, Shipped, Customs
<1> QED
  BY <1>2, <1>3 DEF Init, ClusterInit, FsmInit, TypeInv, TypeOK, CacheAgrees, HeldExists,
     CleanupKnown, Finalized

\* Types, and with them what the resourceVersions guarantee, hold in every
\* behaviour of the manager.
THEOREM TypeInvariant == Spec => []TypeInv
<1>1. Init => TypeInv
  BY InitTypes
<1>2. TypeInv /\ [Next]_vars => TypeInv'
  BY NextTypes
<1> QED
  BY <1>1, <1>2, PTL DEF Spec

\* The type invariant that the model checker evaluates.
THEOREM TypeCorrect == Spec => []TypeOK
<1>1. TypeInv => TypeOK
  BY DEF TypeInv
<1> QED
  BY <1>1, TypeInvariant, PTL

-----------------------------------------------------------------------------
(***************************************************************************)
(* What the users wrote into a CR outlives the manager's writes, which     *)
(* send whole objects: for any number of CRs, any specs and annotations,   *)
(* stale reads, conflicts, failing calls and restarts.                     *)
(***************************************************************************)

\* A copy with the same user's part.
SameUserPart(new, old) ==
  new.spec = old.spec /\ new.addon = old.addon /\ new.ext = old.ext /\ new.del = old.del

\* No CR that stays loses what its user wrote.
EditsKept ==
  \A k \in Kedas : server[k] # NoKeda /\ server'[k] # NoKeda => AsWritten(server'[k], server[k])

\* Sanitizing twice is sanitizing once.
LEMMA SanitizedTwice ==
  ASSUME NEW spec \in SpecTypes
  PROVE  /\ SanitizedSpec(spec) \in SpecTypes
         /\ SanitizedSpec(SanitizedSpec(spec)) = SanitizedSpec(spec)
<1>1. spec.custom \in Customs /\ spec = [restricted |-> spec.restricted, custom |-> spec.custom]
  BY DEF SpecTypes
<1>2. \A f \in Fields : spec.custom[f] \in Values \cup {Unset}
  BY <1>1 DEF Customs
<1>3. SanitizedCustom(SanitizedCustom(spec.custom)) = SanitizedCustom(spec.custom)
  BY <1>2, SanitizedAssumption DEF SanitizedCustom
<1>4. SanitizedSpec(spec) = [restricted |-> spec.restricted, custom |-> SanitizedCustom(spec.custom)]
  BY <1>1 DEF SanitizedSpec
<1>5. SanitizedSpec(spec) \in SpecTypes
  BY <1>1, <1>4, SanitizedType DEF SpecTypes
<1> QED
  BY <1>3, <1>4, <1>5 DEF SanitizedSpec

\* The worker keeps what the users wrote, in its copy and in the server.
LEMMA WorkerEdits ==
  ASSUME TypeInv, CopyAgrees, WorkerStep
  PROVE  CopyAgrees' /\ EditsKept
<1> USE DEF vars, clusterVars, crVars, heldVars, objVars, addonVars, fsmVars, loopVars, cfgVars
<1>a. ASSUME UNCHANGED server PROVE EditsKept
  BY <1>a DEF EditsKept, AsWritten
<1>b. ASSUME UNCHANGED server, fresh' = FALSE PROVE CopyAgrees' /\ EditsKept
  BY <1>a, <1>b DEF CopyAgrees
<1>c. ASSUME UNCHANGED <<server, key, fresh>>, SameUserPart(inst', inst)
      PROVE  CopyAgrees' /\ EditsKept
  BY <1>a, <1>c DEF CopyAgrees, AsWritten, SameUserPart
<1>d. ASSUME UNCHANGED <<server, key, fresh>>, pc # "Idle", NEW out, NEW st, StopWith(out, st)
      PROVE  CopyAgrees' /\ EditsKept
  <2>1. SameUserPart(inst', inst)
    BY <1>d, HeldType DEF StopWith, SameUserPart, Keda
  <2> QED
    BY <1>c, <1>d, <2>1
<1>e. ASSUME UNCHANGED <<server, key, fresh, inst>>
      PROVE  CopyAgrees' /\ EditsKept
  BY <1>c, <1>e DEF SameUserPart
<1>f. ASSUME NEW cr \in Keda, cr.fin, Update(cr), cache' = cache, UNCHANGED <<key, fresh>>,
             SameUserPart(cr, inst), SameUserPart(inst', inst)
      PROVE  CopyAgrees' /\ EditsKept
  <2>1. /\ fresh /\ key \in Kedas /\ server \in [Kedas -> Keda \cup {NoKeda}]
        /\ server' = [server EXCEPT ![key] = [cr EXCEPT !.status = server[key].status]]
        /\ server'[key] = [cr EXCEPT !.status = server[key].status]
    BY <1>f, UpdateType DEF TypeInv, TypeOK, ClusterTypeOK
  <2>2. SameUserPart(server'[key], inst)
    BY <1>f, <2>1 DEF SameUserPart, Keda
  <2>3. CopyAgrees'
    BY <1>f, <2>2 DEF CopyAgrees, AsWritten, SameUserPart
  <2>4. AsWritten(server'[key], server[key])
    BY <2>1, <2>2 DEF CopyAgrees, AsWritten, SameUserPart
  <2>5. \A k \in Kedas \ {key} : server'[k] = server[k]
    BY <2>1
  <2> QED
    BY <2>3, <2>4, <2>5 DEF EditsKept, AsWritten
<1>g. ASSUME pc # "Idle" PROVE inst \in Keda /\ key \in Kedas
  BY <1>g, HeldType
<1>1. CASE InstallStep
  <2>1. ASSUME NEW k \in Kedas, Reconcile(k) PROVE CopyAgrees' /\ EditsKept
    BY <2>1, <1>a DEF Reconcile, TypeInv, CacheAgrees, CopyAgrees, AsWritten
  <2>2. ASSUME NEW k \in Kedas, ReconcileNotFound(k) PROVE CopyAgrees' /\ EditsKept
    BY <2>2, <1>e DEF ReconcileNotFound
  <2>3. CASE UpdateStatus
    <3>1. /\ key \in Kedas /\ server[key] \in Keda /\ server \in [Kedas -> Keda \cup {NoKeda}]
          /\ server' = [server EXCEPT ![key] = [server[key] EXCEPT !.status = inst.status]]
          /\ UNCHANGED <<key, fresh, inst>>
      BY <2>3, HeldType DEF UpdateStatus, Write, SwitchState, TypeInv, TypeOK, ClusterTypeOK
    <3>2. SameUserPart(server'[key], server[key])
      BY <3>1 DEF SameUserPart, Keda
    <3>3. \A k \in Kedas \ {key} : server'[k] = server[k]
      BY <3>1
    <3> QED
      BY <3>1, <3>2, <3>3 DEF CopyAgrees, EditsKept, AsWritten, SameUserPart
  <2>4. CASE UpdateStatusFails \/ Return \/ InitializeGone
    BY <2>4, <1>b DEF UpdateStatusFails, Return, InitializeGone, EndPass, DropPass
  <2>5. CASE EmitEvent \/ TakeSnapshot \/ InitializeDone \/ ApplyObject \/ ApplyObjectFails
    BY <2>5, <1>e DEF EmitEvent, TakeSnapshot, InitializeDone, ApplyObject, ApplyObjectFails,
       SwitchState
  <2>6. CASE ServedFilter \/ AddFinalizerFails \/ ValidationFails \/ VerifyNotReady
    BY <2>6, <1>d DEF ServedFilter, AddFinalizerFails, ValidationFails, VerifyNotReady
  <2>7. CASE AddFinalizer
    <3>1. /\ [inst EXCEPT !.fin = TRUE] \in Keda /\ [inst EXCEPT !.fin = TRUE].fin
          /\ SameUserPart([inst EXCEPT !.fin = TRUE], inst)
      BY <2>7, <1>g DEF AddFinalizer, SameUserPart, Keda
    <3>2. SameUserPart(inst', inst)
      BY <2>7, <1>g DEF AddFinalizer, StopWith, SameUserPart, Keda
    <3> QED
      BY <2>7, <1>f, <3>1, <3>2 DEF AddFinalizer
  <2>8. CASE UpdateObjects
    <3>1. /\ inst \in Keda /\ inst.spec \in SpecTypes /\ UNCHANGED <<server, key, fresh>>
          /\ inst'.spec = SanitizedSpec(inst.spec)
          /\ inst'.addon = inst.addon /\ inst'.ext = inst.ext /\ inst'.del = inst.del
      BY <2>8, <1>g DEF UpdateObjects, SanitizedSpec, Keda
    <3>2. fresh => server[key].spec \in SpecTypes
      BY HeldType DEF Keda
    <3> QED
      BY <1>a, <3>1, <3>2, SanitizedTwice DEF CopyAgrees, AsWritten
  <2>9. CASE ApplyDone
    <3>1. CASE failed
      BY <2>9, <3>1, <1>d DEF ApplyDone
    <3>2. CASE ~failed
      BY <2>9, <3>2, <1>e DEF ApplyDone, SwitchState
    <3> QED
      BY <3>1, <3>2
  <2>10. CASE Verified
    <3>1. SameUserPart(inst', inst)
      BY <2>10, <1>g DEF Verified, SameUserPart, Keda
    <3> QED
      BY <2>10, <1>c, <3>1 DEF Verified
  <2> QED
    BY <1>1, <2>1, <2>2, <2>3, <2>4, <2>5, <2>6, <2>7, <2>8, <2>9, <2>10 DEF InstallStep
<1>2. CASE AddonStep
  <2> USE DEF AddonFrame
  <2>a. ASSUME NEW i \in InstalledTypes, NEW s, NEW r, PersistAnnotations(i, s, r),
               pc \in {"PersistInstalled", "PersistDeleted"}, UNCHANGED <<cache, key, fresh>>
        PROVE  CopyAgrees' /\ EditsKept
    <3>1. /\ inst \in Keda /\ inst.fin
          /\ [inst EXCEPT !.installed = i] \in Keda
          /\ [inst EXCEPT !.installed = i].fin
          /\ SameUserPart([inst EXCEPT !.installed = i], inst)
      BY <2>a, <1>g DEF TypeInv, Finalized, Pcs, SameUserPart, Keda
    <3>2. SameUserPart(inst', inst)
      BY <2>a, <3>1 DEF PersistAnnotations, SameUserPart, Keda
    <3>3. CASE Update([inst EXCEPT !.installed = i])
      BY <2>a, <1>f, <3>1, <3>2, <3>3
    <3>4. CASE UNCHANGED server
      BY <2>a, <1>c, <3>2, <3>4
    <3> QED
      BY <2>a, <3>3, <3>4 DEF PersistAnnotations
  <2>1. CASE EnsureNamespace \/ FetchOld \/ FetchNew \/ GuardAddon
    BY <2>1, <1>d, <1>e DEF EnsureNamespace, FetchOld, FetchNew, GuardAddon, AddonStop,
       AddonInUse, SwitchState
  <2>2. CASE CleanupOld \/ DropPeerAuthentication \/ ApplyAddonObj \/ DeleteAddonObj
    BY <2>2, <1>d, <1>e DEF CleanupOld, DropPeerAuthentication, ApplyAddonObj, DeleteAddonObj,
       AddonStop, SwitchState
  <2>3. CASE ApplyAddonDone
    BY <2>3, <1>d, <1>e DEF ApplyAddonDone, AddonStop, SwitchState
  <2>4. CASE DeleteAddonNothing \/ DeleteAddonFetch \/ DeleteAddonDone
    BY <2>4, <1>d, <1>e DEF DeleteAddonNothing, DeleteAddonFetch, DeleteAddonDone, AddonStop,
       SwitchState
  <2>5. CASE PersistInstalled
    <3>1. [version |-> addonVersion, namespace |-> TargetNS] \in InstalledTypes
      BY <2>5, <1>g, NamespaceType DEF PersistInstalled, InstalledTypes, TypeInv, TypeOK, FsmTypeOK
    <3> QED
      BY <2>5, <2>a, <3>1 DEF PersistInstalled
  <2>6. CASE PersistDeleted
    <3>1. [version |-> "", namespace |-> ""] \in InstalledTypes
      BY DEF InstalledTypes
    <3> QED
      BY <2>6, <2>a, <3>1 DEF PersistDeleted
  <2> QED
    BY <1>2, <2>1, <2>2, <2>3, <2>4, <2>5, <2>6 DEF AddonStep
<1>3. CASE DeleteStep
  <2> USE DEF DeleteFrame, CheckFrame
  <2>1. CASE DeleteResources
    BY <2>1, <1>d, <1>e DEF DeleteResources, DeletionStop, SwitchState
  <2>2. CASE CheckCrd \/ DeleteObj \/ DeleteObjFails
    BY <2>2, <1>e DEF CheckCrd, DeleteObj, DeleteObjFails
  <2>3. CASE CheckCrdBlocks
    BY <2>3, <1>d DEF CheckCrdBlocks, DeletionStop
  <2>4. CASE DeleteAddonLeftovers
    BY <2>4, <1>d, <1>e DEF DeleteAddonLeftovers, DeletionStop, SwitchState
  <2>5. CASE DeleteDone
    BY <2>5, <1>d, <1>e DEF DeleteDone, DeletionStop, SwitchState
  <2>6. CASE RemoveFinalizerFails
    BY <2>6, <1>b DEF RemoveFinalizerFails, EndPass, DropPass
  <2>7. CASE RemoveFinalizer
    <3> DEFINE cr == [[inst EXCEPT !.fin = FALSE] EXCEPT !.status = server[key].status]
    <3>1. /\ fresh /\ key \in Kedas /\ inst \in Keda /\ server[key].status \in Statuses
          /\ server \in [Kedas -> Keda \cup {NoKeda}]
      BY <2>7, <1>g, HeldType DEF RemoveFinalizer, Update, Keda, TypeInv, TypeOK, ClusterTypeOK
    <3>2. cr \in Keda /\ SameUserPart(cr, inst)
      BY <3>1 DEF SameUserPart, Keda
    <3>3. server' = [server EXCEPT ![key] = Stored(cr)] /\ fresh' = FALSE
      BY <2>7 DEF RemoveFinalizer, Update, Write, EndPass, DropPass
    <3> HIDE DEF cr
    <3>4. server'[key] # NoKeda => SameUserPart(server'[key], inst)
      BY <3>1, <3>2, <3>3 DEF Stored
    <3>5. \A k \in Kedas \ {key} : server'[k] = server[k]
      BY <3>1, <3>3
    <3> QED
      BY <3>1, <3>3, <3>4, <3>5 DEF CopyAgrees, EditsKept, AsWritten, SameUserPart
  <2> QED
    BY <1>3, <2>1, <2>2, <2>3, <2>4, <2>5, <2>6, <2>7 DEF DeleteStep
<1> QED
  BY <1>1, <1>2, <1>3 DEF WorkerStep

\* Everybody else leaves the worker's copy alone; a write of a user to the CR it
\* stands for outdates it.
LEMMA OutsideCopies ==
  ASSUME TypeInv, CopyAgrees, OutsideStep \/ SystemStep
  PROVE  CopyAgrees' /\ UNCHANGED fsmVars
<1> USE DEF crVars, heldVars, fsmVars
<1>a. UNCHANGED fsmVars
  BY DEF OutsideStep, SystemStep
<1>b. ASSUME UNCHANGED <<server, key, fresh>> PROVE CopyAgrees'
  BY <1>a, <1>b DEF CopyAgrees, AsWritten
<1>c. ASSUME NEW k \in Kedas, NEW cr, UserWrite(k, cr) PROVE CopyAgrees'
  <2>1. fresh' => fresh /\ key' = key /\ server'[key] = server[key]
    BY <1>c, HeldType DEF UserWrite, TypeInv, TypeOK, ClusterTypeOK
  <2> QED
    BY <1>a, <2>1 DEF CopyAgrees, AsWritten
<1>1. ASSUME NEW k \in Kedas, CreateKeda(k) \/ EditSpec(k) \/ EditAddon(k) PROVE CopyAgrees'
  BY <1>1, <1>c DEF CreateKeda, EditSpec, EditAddon
<1>2. ASSUME NEW k \in Kedas, DeleteKeda(k) \/ DropExtFinalizer(k) PROVE CopyAgrees'
  BY <1>2, <1>c DEF DeleteKeda, DropExtFinalizer
<1>3. ASSUME NEW o, \/ Tamper(o) \/ TamperAddon(o) \/ DeploymentDegrades(o) \/ DeploymentReady(o)
                    \/ MapFunction(o) \/ CacheSync(o)
      PROVE  CopyAgrees'
  BY <1>3, <1>b DEF Tamper, TamperAddon, DeploymentDegrades, DeploymentReady, MapFunction, CacheSync
<1>4. ASSUME NEW o, AcquireLease \/ CreateScaled(o) \/ DeleteScaled(o) \/ CreateHso \/ DeleteHso
      PROVE  CopyAgrees'
  BY <1>4, <1>b DEF AcquireLease, CreateScaled, DeleteScaled, CreateHso, DeleteHso
<1> QED
  BY <1>a, <1>1, <1>2, <1>3, <1>4 DEF OutsideStep, SystemStep

\* Every step keeps CopyAgrees, and a step of the worker keeps what users wrote.
LEMMA CopyStep ==
  ASSUME TypeInv, CopyAgrees, [Next]_vars
  PROVE  CopyAgrees' /\ (WorkerMoves => EditsKept)
<1>1. CASE OutsideStep \/ SystemStep
  BY <1>1, OutsideCopies DEF WorkerMoves, fsmVars, loopVars
<1>2. CASE Restart
  BY <1>2 DEF Restart, DropPass, CopyAgrees, EditsKept, AsWritten
<1>3. CASE UNCHANGED vars
  BY <1>3 DEF vars, clusterVars, crVars, heldVars, fsmVars, CopyAgrees, EditsKept, AsWritten
<1> QED
  BY <1>1, <1>2, <1>3, WorkerEdits DEF Next

\* A copy at the server's resourceVersion has what the users wrote.
THEOREM CopyInvariant == Spec => []CopyAgrees
<1>1. Init => CopyAgrees
  BY DEF Init, ClusterInit, CopyAgrees
<1>2. TypeInv /\ CopyAgrees /\ [Next]_vars => CopyAgrees'
  BY CopyStep
<1> QED
  BY <1>1, <1>2, TypeInvariant, PTL DEF Spec

\* r.Update sends the whole CR, spec and annotations included, and still no edit
\* of a user is lost: a copy that is outdated is refused, one that is not has the
\* edit.
THEOREM EditsSurvive == Spec => UserEditsSurvive
<1>1. TypeInv /\ CopyAgrees /\ [Next]_vars
        => [\A k \in Kedas : WorkerMoves /\ server[k] # NoKeda /\ server'[k] # NoKeda
              => AsWritten(server'[k], server[k])]_vars
  BY CopyStep DEF EditsKept
<1> QED
  BY <1>1, TypeInvariant, CopyInvariant, PTL DEF Spec, UserEditsSurvive

=============================================================================
