------------------------ MODULE KedaLifecycleProofs ------------------------
(***************************************************************************)
(* KedaManager implements KedaLifecycle, for every number of CRs, every    *)
(* manifest, every amount of interference and reads as stale as can be,    *)
(* until the filter once decides on a list that lacks the mark of another. *)
(***************************************************************************)
EXTENDS KedaServedProofs

Owners == {k \in Kedas : Served(server[k])}
Installed == \E o \in Objs : cluster[o] # Absent

-----------------------------------------------------------------------------
(* Steps of the manager as steps of the life cycle.                        *)

\* A CR is absent in the life cycle when the server does not have it.
LEMMA PhaseAbsent ==
  ASSUME NEW cr \in Keda \cup {NoKeda}
  PROVE  Phase(cr) = "absent" <=> cr = NoKeda
  BY DEF Phase

\* A step that changes no phase, no owner and not whether KEDA is there.
LEMMA NothingMoves ==
  ASSUME \A k \in Kedas : Phase(server'[k]) = Phase(server[k]),
         \A k \in Kedas : Served(server'[k]) <=> Served(server[k]),
         Installed' <=> Installed
  PROVE  UNCHANGED Lifecycle!vars
<1>1. [k \in Kedas |-> Phase(server[k])]' = [k \in Kedas |-> Phase(server[k])]
  OBVIOUS
<1>2. {k \in Kedas : Served(server[k])}' = {k \in Kedas : Served(server[k])}
  OBVIOUS
<1>3. (\E o \in Objs : cluster[o] # Absent)' = (\E o \in Objs : cluster[o] # Absent)
  BY DEF Installed
<1> QED
  BY <1>1, <1>2, <1>3 DEF Lifecycle!vars

\* A write that changes the phase of one CR.
LEMMA OneMoves ==
  ASSUME TypeInv, TypeInv', NEW k \in Kedas, UNCHANGED cluster,
         \A j \in Kedas \ {k} : server'[j] = server[j],
         server'[k] # NoKeda => (Served(server'[k]) <=> Served(server[k]))
  PROVE  Lifecycle!Move(k, Phase(server'[k]))
<1>1. /\ server \in [Kedas -> Keda \cup {NoKeda}]
      /\ server' \in [Kedas -> Keda \cup {NoKeda}]
  BY DEF TypeInv, TypeOK, ClusterTypeOK
<1>2. [j \in Kedas |-> Phase(server[j])]'
        = [[j \in Kedas |-> Phase(server[j])] EXCEPT ![k] = Phase(server'[k])]
  OBVIOUS
<1>3. Phase(server'[k]) = "absent" <=> server'[k] = NoKeda
  BY <1>1, PhaseAbsent
<1>4. {j \in Kedas : Served(server[j])}'
        = IF Phase(server'[k]) = "absent" THEN {j \in Kedas : Served(server[j])} \ {k}
          ELSE {j \in Kedas : Served(server[j])}
  <2>1. CASE server'[k] = NoKeda
    BY <1>3, <2>1 DEF Served
  <2>2. CASE server'[k] # NoKeda
    BY <1>3, <2>2
  <2> QED
    BY <2>1, <2>2
<1>5. (\E o \in Objs : cluster[o] # Absent)' = (\E o \in Objs : cluster[o] # Absent)
  OBVIOUS
<1> QED
  BY <1>2, <1>4, <1>5 DEF Lifecycle!Move

\* A step that touches workloads and no CR.
LEMMA WorkloadsMove ==
  ASSUME UNCHANGED server,
         Installed' => \/ Installed
                       \/ \E k \in Kedas : Held(k) /\ Served(server[k])
  PROVE  [Lifecycle!Next]_(Lifecycle!vars)
<1>1. /\ [k \in Kedas |-> Phase(server[k])]' = [k \in Kedas |-> Phase(server[k])]
      /\ {k \in Kedas : Served(server[k])}' = {k \in Kedas : Served(server[k])}
  OBVIOUS
<1>2. CASE Installed' <=> Installed
  BY <1>2, NothingMoves
<1>3. CASE Installed /\ ~Installed'
  BY <1>1, <1>3 DEF Lifecycle!Next, Lifecycle!Vanish, Installed
<1>4. CASE Installed' /\ ~Installed
  <2>1. PICK k \in Kedas : Held(k) /\ Served(server[k])
    BY <1>4
  <2>2. Phase(server[k]) \in {"held", "going"} /\ Served(server[k])
    BY <2>1 DEF Held, Phase
  <2>3. Lifecycle!Install(k)
    BY <1>1, <1>4, <2>2 DEF Lifecycle!Install, Installed
  <2> QED
    BY <2>3 DEF Lifecycle!Next
<1> QED
  BY <1>2, <1>3, <1>4

\* The worker.
LEMMA WorkerImplements ==
  ASSUME TypeInv, TypeInv', CopyAgrees, MarkInv, HeldServed, OneMark, WorkloadInv, WorkerStep
  PROVE  [Lifecycle!Next]_(Lifecycle!vars)
<1> USE DEF crVars, heldVars, objVars, AddonFrame
<1>a. /\ server \in [Kedas -> Keda \cup {NoKeda}]
      /\ pc # "Idle" => key \in Kedas /\ inst \in Keda
      /\ fresh => key \in Kedas /\ server[key] \in Keda /\ server[key] # NoKeda
  BY HeldType DEF TypeInv, TypeOK, ClusterTypeOK, HeldExists
<1>b. UNCHANGED cluster => (Installed' <=> Installed)
  BY DEF Installed
<1>1. CASE UpdateStatus
  <2>1. /\ fresh /\ key \in Kedas /\ server[key] \in Keda /\ UNCHANGED cluster
        /\ server' = [server EXCEPT ![key] = [server[key] EXCEPT !.status = inst.status]]
    BY <1>1, <1>a DEF UpdateStatus, Write
  <2>2. /\ server'[key].fin = server[key].fin /\ server'[key].del = server[key].del
        /\ server'[key].status = inst.status /\ server'[key] # NoKeda
    <3>1. inst.status \in Statuses
      BY <1>1, <1>a DEF UpdateStatus, Keda
    <3>2. [server[key] EXCEPT !.status = inst.status] # NoKeda
      BY <2>1, <3>1, WithStatusType
    <3>3. server'[key] = [server[key] EXCEPT !.status = inst.status]
      BY <2>1, <1>a
    <3> QED
      BY <2>1, <3>2, <3>3 DEF Keda
  <2>3. \A j \in Kedas \ {key} : server'[j] = server[j]
    BY <2>1, <1>a
  <2>4. \A j \in Kedas : Phase(server'[j]) = Phase(server[j])
    <3>1. Phase(server'[key]) = Phase(server[key])
      BY <2>1, <2>2, <1>a DEF Phase
    <3> QED
      BY <2>3, <3>1
  <2>5. CASE Served(server'[key]) <=> Served(server[key])
    BY <1>b, <2>1, <2>3, <2>4, <2>5, NothingMoves
  <2>6. CASE ~(Served(server'[key]) <=> Served(server[key]))
    <3>1. Served(server'[key]) /\ \A j \in Kedas : ~Served(server[j])
      <4>1. inst.status.served = "True" /\ ~Served(server[key])
        BY <2>1, <2>2, <2>6 DEF Served, MarkInv, MarkKept
      <4>2. Marked(key)
        BY <1>1, <4>1 DEF UpdateStatus, Marked
      <4> QED
        BY <2>1, <2>2, <4>1, <4>2 DEF Served, OneMark, Marked
    <3>2. {j \in Kedas : Served(server[j])}' = {key} /\ {j \in Kedas : Served(server[j])} = {}
      BY <2>1, <2>3, <3>1
    <3>3. [j \in Kedas |-> Phase(server[j])]' = [j \in Kedas |-> Phase(server[j])]
      BY <2>4
    <3>4. Phase(server[key]) # "absent"
      BY <1>a, <2>1, PhaseAbsent
    <3>5. Lifecycle!Acquire(key)
      BY <2>1, <3>2, <3>3, <3>4 DEF Lifecycle!Acquire
    <3> QED
      BY <2>1, <3>5 DEF Lifecycle!Next
  <2> QED
    BY <2>5, <2>6
<1>2. ASSUME NEW cr \in Keda, cr.fin, cr.del = inst.del, Update(cr), UNCHANGED <<cache, cluster>>,
             Served(server[key]), ~inst.del \/ server[key].fin
      PROVE  [Lifecycle!Next]_(Lifecycle!vars)
  <2>1. /\ fresh /\ key \in Kedas /\ server[key] \in Keda /\ server[key] # NoKeda
        /\ server' = [server EXCEPT ![key] = [cr EXCEPT !.status = server[key].status]]
        /\ server'[key] = [cr EXCEPT !.status = server[key].status]
        /\ server'[key] # NoKeda
    BY <1>2, <1>a, UpdateType
  <2>2. /\ server'[key].fin /\ server'[key].del = server[key].del /\ inst.del = server[key].del
        /\ server'[key].status = server[key].status
    BY <1>2, <2>1 DEF Keda, CopyAgrees, AsWritten
  <2>3. \A j \in Kedas \ {key} : server'[j] = server[j]
    BY <2>1, <1>a
  <2>4. Served(server'[key]) <=> Served(server[key])
    BY <2>1, <2>2 DEF Served
  <2>5. CASE server[key].fin
    <3>1. Phase(server'[key]) = Phase(server[key])
      BY <2>1, <2>2, <2>5 DEF Phase
    <3> QED
      BY <1>2, <1>b, <2>3, <2>4, <3>1, NothingMoves
  <2>6. CASE ~server[key].fin
    <3>1. Phase(server[key]) = "new" /\ Phase(server'[key]) = "held"
      BY <1>2, <2>1, <2>2, <2>6 DEF Phase
    <3>2. Lifecycle!Move(key, "held")
      BY <1>2, <2>1, <2>3, <2>4, <3>1, OneMoves
    <3>3. Lifecycle!Take(key)
      BY <1>2, <2>1, <3>1, <3>2 DEF Lifecycle!Take
    <3> QED
      BY <2>1, <3>3 DEF Lifecycle!Next
  <2> QED
    BY <2>5, <2>6
<1>3. CASE AddFinalizer
  <2>1. /\ [inst EXCEPT !.fin = TRUE] \in Keda /\ [inst EXCEPT !.fin = TRUE].fin
        /\ [inst EXCEPT !.fin = TRUE].del = inst.del
    BY <1>3, <1>a DEF AddFinalizer, Keda
  <2>2. Served(server[key])
    BY <1>3 DEF AddFinalizer, Update, MarkInv, CopySeen, PassMarked
  <2> QED
    BY <1>2, <1>3, <2>1, <2>2 DEF AddFinalizer
<1>4. ASSUME NEW i \in InstalledTypes, NEW s, NEW r, PersistAnnotations(i, s, r),
             pc \in {"PersistInstalled", "PersistDeleted"}, UNCHANGED <<cache, cluster>>
      PROVE  [Lifecycle!Next]_(Lifecycle!vars)
  <2>1. inst \in Keda /\ inst.fin /\ ~inst.del /\ (fresh => Served(server[key]))
    BY <1>4, <1>a DEF WorkloadInv, FinalizerInv, PathFits, InstallPcs, MarkInv, CopySeen, PassMarked,
       OwnerPcs, Pcs
  <2>2. /\ [inst EXCEPT !.installed = i] \in Keda /\ [inst EXCEPT !.installed = i].fin
        /\ [inst EXCEPT !.installed = i].del = inst.del
    BY <2>1 DEF Keda
  <2>3. CASE Update([inst EXCEPT !.installed = i])
    BY <1>2, <1>4, <2>1, <2>2, <2>3 DEF Update
  <2>4. CASE UNCHANGED server
    BY <1>4, <1>b, <2>4, NothingMoves
  <2> QED
    BY <1>4, <2>3, <2>4 DEF PersistAnnotations
<1>5. CASE PersistInstalled
  <2>1. [version |-> addonVersion, namespace |-> TargetNS] \in InstalledTypes
    BY <1>5, <1>a, NamespaceType DEF PersistInstalled, InstalledTypes, TypeInv, TypeOK, FsmTypeOK
  <2> QED
    BY <1>4, <1>5, <2>1 DEF PersistInstalled
<1>6. CASE PersistDeleted
  BY <1>4, <1>6 DEF PersistDeleted, InstalledTypes
<1>7. CASE RemoveFinalizer
  <2> DEFINE cr == [[inst EXCEPT !.fin = FALSE] EXCEPT !.status = server[key].status]
  <2>1. /\ fresh /\ key \in Kedas /\ inst \in Keda /\ inst.del /\ UNCHANGED cluster
        /\ server' = [server EXCEPT ![key] = Stored(cr)]
        /\ ~Installed
    BY <1>7, <1>a DEF RemoveFinalizer, Update, Write, WorkloadInv, RemovalInv, AllRemoved,
       FinalizerInv, PathFits, DeletePcs, Installed
  <2>2. /\ cr.del /\ ~cr.fin /\ cr.status = server[key].status
        /\ Stored(cr) = NoKeda \/ Stored(cr) = cr
    BY <2>1 DEF Keda, Stored
  <2> HIDE DEF cr
  <2>3. /\ \A j \in Kedas \ {key} : server'[j] = server[j]
        /\ server'[key] = Stored(cr)
    BY <1>a, <2>1
  <2>4. server'[key] # NoKeda => (Served(server'[key]) <=> Served(server[key]))
    BY <1>a, <2>1, <2>2, <2>3 DEF Served
  <2>5. Phase(server'[key]) \in {"absent", "released"}
    BY <2>2, <2>3 DEF Phase
  <2>6. Phase(server[key]) = "going" /\ Served(server[key])
    <3>1. server[key].fin /\ Served(server[key])
      BY <1>7, <2>1 DEF RemoveFinalizer, TypeInv, Finalized, MarkInv, CopySeen, PassMarked, OwnerPcs, Pcs
    <3> QED
      BY <1>a, <2>1, <3>1 DEF Phase, CopyAgrees, AsWritten
  <2>7. Lifecycle!Move(key, Phase(server'[key]))
    BY <2>1, <2>3, <2>4, OneMoves
  <2>8. Lifecycle!Release(key)
    BY <2>1, <2>5, <2>6, <2>7 DEF Lifecycle!Release, Installed
  <2> QED
    BY <2>1, <2>8 DEF Lifecycle!Next
<1>8. CASE UNCHANGED server /\ ~RemoveFinalizer
  <2>1. CASE ApplyObject
    <3>1. key \in Kedas /\ Held(key) /\ Served(server[key])
      BY <2>1, <1>a DEF ApplyObject, WorkloadInv, FinalizerInv, CopyHeld, PathFits, InstallPcs, HeldServed
    <3> QED
      BY <1>8, <3>1, WorkloadsMove
  <2>2. CASE DeleteObj
    <3>1. \A o \in Objs : cluster'[o] # Absent => cluster[o] # Absent
      BY <2>2 DEF DeleteObj, TypeInv, TypeOK, ClusterTypeOK
    <3> QED
      BY <1>8, <3>1, WorkloadsMove DEF Installed
  <2>3. CASE UNCHANGED cluster
    BY <1>8, <1>b, <2>3, NothingMoves
  <2> QED
    BY <1>8, <2>1, <2>2, <2>3, WorkerKinds DEF DeleteAddonLeftovers, DeleteObjFails, DeleteDone,
       Elsewhere, clusterVars
<1> QED
  BY <1>1, <1>3, <1>5, <1>6, <1>7, <1>8, WorkerWriters

\* Users, failures, informers, handlers and rollouts.
LEMMA OutsideImplements ==
  ASSUME TypeInv, TypeInv', OutsideStep \/ SystemStep
  PROVE  [Lifecycle!Next]_(Lifecycle!vars)
<1> USE DEF crVars, heldVars, objVars
<1>a. \A k \in Kedas : server[k] # NoKeda => server[k] \in Keda
  BY DEF TypeInv, TypeOK, ClusterTypeOK
<1>b. ASSUME UNCHANGED <<server, cluster>> PROVE UNCHANGED Lifecycle!vars
  BY <1>b, NothingMoves DEF Installed
<1>c. ASSUME NEW k \in Kedas, NEW cr, UserWrite(k, cr)
      PROVE  /\ UNCHANGED cluster /\ server'[k] = cr
             /\ \A j \in Kedas \ {k} : server'[j] = server[j]
  BY <1>c DEF UserWrite, TypeInv, TypeOK, ClusterTypeOK
<1>d. ASSUME NEW k \in Kedas, NEW cr \in Keda, UserWrite(k, cr), server[k] # NoKeda,
             cr.fin = server[k].fin, cr.del = server[k].del, cr.status = server[k].status
      PROVE  UNCHANGED Lifecycle!vars
  <2>1. Phase(cr) = Phase(server[k]) /\ (Served(cr) <=> Served(server[k]))
    BY <1>d, KedasAssumption DEF Phase, Served
  <2>2. UNCHANGED cluster /\ server'[k] = cr /\ \A j \in Kedas \ {k} : server'[j] = server[j]
    BY <1>c, <1>d
  <2> QED
    BY <2>1, <2>2, NothingMoves DEF Installed
<1>1. ASSUME NEW k \in Kedas, CreateKeda(k) PROVE Lifecycle!Create(k)
  <2>1. PICK s \in Specs, a \in AddonCfgs, e \in ExtFinalizers :
          UserWrite(k, [del |-> FALSE, fin |-> FALSE, ext |-> e, spec |-> s, addon |-> a,
                        installed |-> [version |-> "", namespace |-> ""],
                        status |-> EmptyStatus])
    BY <1>1 DEF CreateKeda
  <2> DEFINE cr == [del |-> FALSE, fin |-> FALSE, ext |-> e, spec |-> s, addon |-> a,
                    installed |-> [version |-> "", namespace |-> ""], status |-> EmptyStatus]
  <2>2. cr \in Keda /\ ~cr.fin /\ ~cr.del /\ cr.status.served # "True"
    BY SpecsAssumption, EmptyStatusType DEF Keda, InstalledTypes, EmptyStatus
  <2> HIDE DEF cr
  <2>3. UNCHANGED cluster /\ server'[k] = cr /\ \A j \in Kedas \ {k} : server'[j] = server[j]
    BY <1>c, <2>1 DEF cr
  <2>4. /\ Phase(server[k]) = "absent" /\ Phase(server'[k]) = "new"
        /\ ~Served(server[k]) /\ ~Served(server'[k])
    BY <1>1, <2>2, <2>3, KedasAssumption DEF CreateKeda, Phase, Served
  <2>5. Lifecycle!Move(k, "new")
    <3>1. Lifecycle!Move(k, Phase(server'[k]))
      BY <2>3, <2>4, OneMoves
    <3> QED
      BY <2>4, <3>1
  <2> QED
    BY <2>4, <2>5 DEF Lifecycle!Create
<1>2. ASSUME NEW k \in Kedas, EditSpec(k) PROVE UNCHANGED Lifecycle!vars
  <2>1. PICK s \in Specs : UserWrite(k, [server[k] EXCEPT !.spec = s])
    BY <1>2 DEF EditSpec
  <2>2. /\ [server[k] EXCEPT !.spec = s] \in Keda /\ server[k] # NoKeda
        /\ [server[k] EXCEPT !.spec = s].fin = server[k].fin
        /\ [server[k] EXCEPT !.spec = s].del = server[k].del
        /\ [server[k] EXCEPT !.spec = s].status = server[k].status
    BY <1>2, <1>a, SpecsAssumption DEF EditSpec, Keda
  <2> QED
    BY <1>d, <2>1, <2>2
<1>3. ASSUME NEW k \in Kedas, EditAddon(k) PROVE UNCHANGED Lifecycle!vars
  <2>1. PICK a \in AddonCfgs : UserWrite(k, [server[k] EXCEPT !.addon = a])
    BY <1>3 DEF EditAddon
  <2>2. /\ [server[k] EXCEPT !.addon = a] \in Keda /\ server[k] # NoKeda
        /\ [server[k] EXCEPT !.addon = a].fin = server[k].fin
        /\ [server[k] EXCEPT !.addon = a].del = server[k].del
        /\ [server[k] EXCEPT !.addon = a].status = server[k].status
    BY <1>3, <1>a, SpecsAssumption DEF EditAddon, Keda
  <2> QED
    BY <1>d, <2>1, <2>2
<1>4. ASSUME NEW k \in Kedas, NEW cr \in Keda, UserWrite(k, Stored(cr)), server[k] # NoKeda,
             cr.fin = server[k].fin, cr.del, cr.status = server[k].status
      PROVE  /\ Lifecycle!Move(k, Phase(server'[k]))
             /\ server[k].fin => Phase(server'[k]) = "going"
             /\ ~server[k].fin => Phase(server'[k]) \in {"absent", "released"}
             /\ ~server[k].fin /\ ~cr.ext => Phase(server'[k]) = "absent"
  <2>1. /\ UNCHANGED cluster /\ server'[k] = Stored(cr)
        /\ \A j \in Kedas \ {k} : server'[j] = server[j]
    BY <1>c, <1>4
  <2>2. Stored(cr) = NoKeda \/ Stored(cr) = cr
    BY DEF Stored
  <2>3. server'[k] # NoKeda => (Served(server'[k]) <=> Served(server[k]))
    BY <1>4, <2>1, <2>2 DEF Served
  <2>4. Lifecycle!Move(k, Phase(server'[k]))
    BY <2>1, <2>3, OneMoves
  <2> QED
    BY <1>4, <2>1, <2>4, KedasAssumption DEF Stored, Phase
<1>5. ASSUME NEW k \in Kedas, DeleteKeda(k) PROVE Lifecycle!Delete(k)
  <2> DEFINE cr == [server[k] EXCEPT !.del = TRUE]
  <2>1. /\ cr \in Keda /\ cr.del /\ cr.fin = server[k].fin /\ cr.status = server[k].status
        /\ server[k] # NoKeda /\ ~server[k].del
    BY <1>5, <1>a DEF DeleteKeda, Keda
  <2>2. UserWrite(k, Stored(cr))
    BY <1>5 DEF DeleteKeda
  <2> HIDE DEF cr
  <2>3. /\ Lifecycle!Move(k, Phase(server'[k]))
        /\ server[k].fin => Phase(server'[k]) = "going"
        /\ ~server[k].fin => Phase(server'[k]) \in {"absent", "released"}
    BY <1>4, <2>1, <2>2
  <2>4. /\ server[k].fin => Phase(server[k]) = "held"
        /\ ~server[k].fin => Phase(server[k]) = "new"
    BY <2>1 DEF Phase
  <2>5. CASE server[k].fin
    BY <2>3, <2>4, <2>5 DEF Lifecycle!Delete
  <2>6. CASE ~server[k].fin
    BY <2>3, <2>4, <2>6 DEF Lifecycle!Delete
  <2> QED
    BY <2>5, <2>6
<1>6. ASSUME NEW k \in Kedas, DropExtFinalizer(k) PROVE Lifecycle!Drop(k) \/ UNCHANGED Lifecycle!vars
  <2> DEFINE cr == [server[k] EXCEPT !.ext = FALSE]
  <2>1. /\ cr \in Keda /\ cr.del /\ cr.fin = server[k].fin /\ cr.status = server[k].status /\ ~cr.ext
        /\ server[k] # NoKeda /\ server[k].del
    BY <1>6, <1>a DEF DropExtFinalizer, Keda
  <2>2. UserWrite(k, Stored(cr))
    BY <1>6 DEF DropExtFinalizer
  <2> HIDE DEF cr
  <2>3. CASE ~server[k].fin
    <3>1. Lifecycle!Move(k, "absent")
      BY <1>4, <2>1, <2>2, <2>3
    <3>2. Phase(server[k]) = "released"
      BY <2>1, <2>3 DEF Phase
    <3> QED
      BY <3>1, <3>2 DEF Lifecycle!Drop
  <2>4. CASE server[k].fin
    <3>1. Stored(cr) = cr
      BY <2>1, <2>4 DEF Stored
    <3> QED
      BY <1>d, <2>1, <2>2, <3>1
  <2> QED
    BY <2>3, <2>4
<1>7. ASSUME NEW o \in ManifestObjs, Tamper(o) PROVE [Lifecycle!Next]_(Lifecycle!vars)
  <2>1. UNCHANGED server /\ Installed
    BY <1>7 DEF Tamper, Installed, Objs
  <2> QED
    BY <2>1, WorkloadsMove
<1>8. CASE AcquireLease
  <2>1. UNCHANGED server /\ Installed
    BY <1>8, ManifestAssumption DEF AcquireLease, Installed, Objs
  <2> QED
    BY <2>1, WorkloadsMove
<1>9. ASSUME NEW o, \/ TamperAddon(o) \/ DeploymentDegrades(o) \/ DeploymentReady(o)
                    \/ MapFunction(o) \/ CacheSync(o)
                    \/ CreateScaled(o) \/ DeleteScaled(o) \/ CreateHso \/ DeleteHso
      PROVE  UNCHANGED Lifecycle!vars
  BY <1>9, <1>b DEF TamperAddon, DeploymentDegrades, DeploymentReady, MapFunction, CacheSync,
     CreateScaled, DeleteScaled, CreateHso, DeleteHso
<1> QED
  BY <1>1, <1>2, <1>3, <1>5, <1>6, <1>7, <1>8, <1>9 DEF OutsideStep, SystemStep, Lifecycle!Next

-----------------------------------------------------------------------------

\* Initially no CR and nothing of KEDA is there.
LEMMA InitImplements ==
  ASSUME Init
  PROVE  Lifecycle!Init
<1>1. /\ server = [k \in Kedas |-> NoKeda]
      /\ \A o \in Objs : cluster[o] = Absent
  BY DEF Init, ClusterInit
<1>2. [k \in Kedas |-> Phase(server[k])] = [k \in Kedas |-> "absent"]
  BY <1>1 DEF Phase
<1>3. {k \in Kedas : Served(server[k])} = {}
  BY <1>1 DEF Served
<1>4. (\E o \in Objs : cluster[o] # Absent) = FALSE
  BY <1>1
<1> QED
  BY <1>2, <1>3, <1>4 DEF Lifecycle!Init

\* Every step of the manager is a step of the life cycle or changes nothing in it.
LEMMA StepImplements ==
  ASSUME TypeInv, TypeInv', CopyAgrees, MarkInv, HeldServed, OneMark, WorkloadInv, [Next]_vars
  PROVE  [Lifecycle!Next]_(Lifecycle!vars)
<1>1. CASE Restart \/ UNCHANGED vars
  <2>1. UNCHANGED <<server, cluster>>
    BY <1>1 DEF Restart, vars, clusterVars, crVars, objVars
  <2> QED
    BY <2>1, NothingMoves DEF Installed
<1> QED
  BY <1>1, WorkerImplements, OutsideImplements DEF Next

\* The manager, with its passes, caches, conflicts, failing calls and restarts,
\* implements the life cycle of KedaLifecycle, as long as no list of the filter is
\* stale.
THEOREM LifecycleImplemented == Spec => ImplementsLifecycle \/ <>StaleList
<1>1. Init => Lifecycle!Init
  BY InitImplements
<1>2. TypeInv /\ TypeInv' /\ CopyAgrees /\ MarkInv /\ HeldServed /\ OneMark /\ WorkloadInv
        /\ [Next]_vars
        => [Lifecycle!Next]_(Lifecycle!vars)
  BY StepImplements
<1> QED
  BY <1>1, <1>2, TypeInvariant, CopyInvariant, MarkInvariant, HoldersServed, OneMarkInvariant,
     WorkloadInvariant, PTL DEF Spec, ImplementsLifecycle, Lifecycle!Spec

=============================================================================
