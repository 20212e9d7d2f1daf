----------------------------- MODULE HttpAddon -----------------------------
(***************************************************************************)
(* The HTTP add-on part of a pass (pkg/reconciler/addon.go), reached once  *)
(* KEDA is verified: install, move or upgrade it when the CR enables it,   *)
(* remove it when it does not.  What is installed is known only from two   *)
(* annotations of the CR, written by an Update whose failure is ignored.   *)
(***************************************************************************)
EXTENDS KedaFsm

EffectiveNamespace(cfg) == IF cfg.namespace = "" THEN DefaultAddonNamespace ELSE cfg.namespace

\* addon.FetchResources: the CRDs of a release, then its manifest, here with the
\* namespace they are moved to.  Both downloads or neither: one failure is the whole's.
FetchResources(v, ns) == <<AddonCrd, AddonWorkload(ns), AddonExtra(v)>>

\* fetchAddonObjs: the release moved to a namespace.
FetchAddonObjs(v, ns, istio) ==
  FetchResources(v, ns)
    \o IF istio THEN <<PeerAuthentication(ns)>> ELSE <<>>

TargetNS == EffectiveNamespace(inst.addon)

\* Where the previous installation has to be cleaned up, "" for nowhere.
CleanupNS ==
  CASE inst.installed.version = "" -> ""
    [] inst.installed.version # "" /\ inst.installed.namespace \notin {"", TargetNS}
         -> inst.installed.namespace
    [] OTHER -> IF inst.installed.version # addonVersion THEN TargetNS ELSE ""

AddonStop(reason) == StopWith("none", SetAddonCondition(inst.status, "False", reason))

\* What a step of this module leaves alone, and the events it causes.
AddonFrame ==
  /\ AddonEvents
  /\ UNCHANGED <<cache, queue, heldVars, cluster, depStatus, scaled, snap, emitted,
                 ready, failing, manifest, addonVersion, known>>

-----------------------------------------------------------------------------
(* sFnApplyAddon                                                           *)

EnsureNamespace ==
  /\ pc = "EnsureNamespace"
  /\ \/ SwitchState(IF CleanupNS = "" THEN "FetchNew" ELSE "FetchOld") /\ UNCHANGED budget
     \/ Spend("failure") /\ AddonStop("HTTPAddonInstallErr")
  /\ UNCHANGED <<server, current, addonVars, todo, failed, cfgAddonObjs>>
  /\ AddonFrame

\* cleanupOldAddon: when the old manifest cannot be fetched nothing is removed.
FetchOld ==
  /\ pc = "FetchOld"
  /\ \/ /\ todo' = FetchAddonObjs(inst.installed.version, CleanupNS, FALSE)
                     \o <<PeerAuthentication(CleanupNS)>>
        /\ SwitchState("CleanupOld")
        /\ UNCHANGED budget
     \/ Spend("failure") /\ SwitchState("FetchNew") /\ UNCHANGED todo
  /\ UNCHANGED <<server, current, addonVars, failed, cfgAddonObjs>>
  /\ AddonFrame

\* Errors of the cleanup are dropped.
CleanupOld ==
  /\ pc = "CleanupOld" /\ todo # <<>>
  /\ todo' = Tail(todo)
  /\ \/ RemoveAddonObj(Head(todo)) /\ UNCHANGED budget
     \/ Spend("failure") /\ UNCHANGED addonVars
  /\ SwitchState(IF Len(todo) = 1 THEN "FetchNew" ELSE "CleanupOld")
  /\ UNCHANGED <<server, current, failed, cfgAddonObjs>>
  /\ AddonFrame

FetchNew ==
  /\ pc = "FetchNew"
  /\ \/ /\ todo' = FetchAddonObjs(addonVersion, TargetNS, inst.addon.istio)
        /\ SwitchState("ApplyAddonObjs")
        /\ UNCHANGED budget
     \/ Spend("failure") /\ AddonStop("HTTPAddonInstallErr") /\ UNCHANGED todo
  /\ UNCHANGED <<server, current, addonVars, failed, cfgAddonObjs>>
  /\ AddonFrame

ApplyAddonObj ==
  /\ pc = "ApplyAddonObjs" /\ todo # <<>>
  /\ todo' = Tail(todo)
  /\ \/ addonObjs' = addonObjs \cup {Head(todo)} /\ UNCHANGED <<failed, budget>>
     \/ Spend("failure") /\ failed' = TRUE /\ UNCHANGED addonObjs
  /\ UNCHANGED <<server, current, hso, pc, inst, outcome, cfgAddonObjs>>
  /\ AddonFrame

\* Mutant of ApplyAddonDone: the joined errors of the loop are dropped.
ApplyAddonDoneAnyway ==
  /\ pc = "ApplyAddonObjs" /\ todo = <<>>
  /\ SwitchState(IF inst.addon.istio THEN "PersistInstalled" ELSE "DropPeerAuthentication")
  /\ UNCHANGED <<server, current, addonVars, budget, todo, failed, cfgAddonObjs>>
  /\ AddonFrame

ApplyAddonDone ==
  /\ pc = "ApplyAddonObjs" /\ todo = <<>>
  /\ IF failed THEN AddonStop("HTTPAddonInstallErr")
     ELSE SwitchState(IF inst.addon.istio THEN "PersistInstalled" ELSE "DropPeerAuthentication")
  /\ UNCHANGED <<server, current, addonVars, budget, todo, failed, cfgAddonObjs>>
  /\ AddonFrame

DropPeerAuthentication ==
  /\ pc = "DropPeerAuthentication"
  /\ \/ RemoveAddonObj(PeerAuthentication(TargetNS)) /\ SwitchState("PersistInstalled")
        /\ UNCHANGED budget
     \/ Spend("failure") /\ AddonStop("HTTPAddonInstallErr") /\ UNCHANGED addonVars
  /\ UNCHANGED <<server, current, todo, failed, cfgAddonObjs>>
  /\ AddonFrame

\* Mutant of PersistAnnotations: the status is not restored after r.Update, whose
\* response carries the one the server has.
PersistAnnotationsUnrestored(installed, status, reason) ==
  /\ \/ /\ Update([inst EXCEPT !.installed = installed])
        /\ inst' = [inst EXCEPT !.installed = installed, !.status = server[key].status]
        /\ UNCHANGED budget
     \/ /\ (~fresh /\ UNCHANGED budget) \/ Spend("failure")
        /\ inst' = [inst EXCEPT !.installed = installed,
                                !.status = SetAddonCondition(inst.status, status, reason)]
        /\ UNCHANGED <<server, current>>
  /\ outcome' = "none"
  /\ pc' = "UpdateStatus"

\* Annotations and condition in memory, then r.Update, which persists only the
\* annotations and whose failure is logged and nothing else.
PersistAnnotations(installed, status, reason) ==
  /\ \/ Update([inst EXCEPT !.installed = installed]) /\ UNCHANGED budget
     \/ ~fresh /\ UNCHANGED <<server, current, budget>>
     \/ Spend("failure") /\ UNCHANGED <<server, current>>
  /\ inst' = [inst EXCEPT !.installed = installed,
                          !.status = SetAddonCondition(inst.status, status, reason)]
  /\ outcome' = "none"
  /\ pc' = "UpdateStatus"

PersistInstalled ==
  /\ pc = "PersistInstalled"
  /\ PersistAnnotations([version |-> addonVersion, namespace |-> TargetNS],
                        "True", "HTTPAddonInstalled")
  /\ cfgAddonObjs' = FetchAddonObjs(addonVersion, TargetNS, inst.addon.istio)
  /\ UNCHANGED <<addonVars, todo, failed>>
  /\ AddonFrame

-----------------------------------------------------------------------------
(* sFnGuardAddonInUse and sFnDeleteAddon                                   *)

AddonInUse ==
  StopWith("requeueAfter",
           [SetAddonCondition(inst.status, "False", "HTTPAddonInUse") EXCEPT !.state = "Warning"])

\* Mutant of GuardAddon: what the list returns is not looked at.
GuardAddonSkipped ==
  /\ pc = "GuardAddon"
  /\ SwitchState("DeleteAddon")
  /\ UNCHANGED <<server, current, addonVars, budget, todo, failed, cfgAddonObjs>>
  /\ AddonFrame

GuardAddon ==
  /\ pc = "GuardAddon"
  /\ \/ (IF hso THEN AddonInUse ELSE SwitchState("DeleteAddon")) /\ UNCHANGED budget
     \/ Spend("failure") /\ AddonInUse
  /\ UNCHANGED <<server, current, addonVars, todo, failed, cfgAddonObjs>>
  /\ AddonFrame

LastNS == EffectiveNamespace(inst.installed)

\* Cfg.AddonObjs is empty here in every pass, so without the version annotation
\* the add-on counts as never installed.
DeleteAddonNothing ==
  /\ pc = "DeleteAddon" /\ cfgAddonObjs = <<>> /\ inst.installed.version = ""
  /\ AddonStop("HTTPAddonDisabled")
  /\ UNCHANGED <<server, current, addonVars, budget, todo, failed, cfgAddonObjs>>
  /\ AddonFrame

DeleteAddonFetch ==
  /\ pc = "DeleteAddon" /\ ~(cfgAddonObjs = <<>> /\ inst.installed.version = "")
  /\ \/ /\ todo' = IF cfgAddonObjs # <<>> THEN cfgAddonObjs
                   ELSE FetchAddonObjs(inst.installed.version, LastNS, FALSE)
        /\ SwitchState("DeleteAddonObjs")
        /\ UNCHANGED budget
     \/ Spend("failure") /\ AddonStop("HTTPAddonDeleted") /\ UNCHANGED todo
  /\ UNCHANGED <<server, current, addonVars, failed, cfgAddonObjs>>
  /\ AddonFrame

DeleteAddonObj ==
  /\ pc = "DeleteAddonObjs" /\ todo # <<>>
  /\ todo' = Tail(todo)
  /\ \/ RemoveAddonObj(Head(todo)) /\ UNCHANGED <<failed, budget>>
     \/ Spend("failure") /\ failed' = TRUE /\ UNCHANGED addonVars
  /\ UNCHANGED <<server, current, pc, inst, outcome, cfgAddonObjs>>
  /\ AddonFrame

DeleteAddonDone ==
  /\ pc = "DeleteAddonObjs" /\ todo = <<>>
  /\ \/ failed /\ AddonStop("HTTPAddonInstallErr") /\ UNCHANGED <<addonVars, budget>>
     \/ ~failed /\ RemoveAddonObj(PeerAuthentication(LastNS))
        /\ SwitchState("PersistDeleted") /\ UNCHANGED budget
     \/ ~failed /\ Spend("failure") /\ AddonStop("HTTPAddonInstallErr") /\ UNCHANGED addonVars
  /\ UNCHANGED <<server, current, todo, failed, cfgAddonObjs>>
  /\ AddonFrame

PersistDeleted ==
  /\ pc = "PersistDeleted"
  /\ PersistAnnotations([version |-> "", namespace |-> ""], "False", "HTTPAddonDeleted")
  /\ cfgAddonObjs' = <<>>
  /\ UNCHANGED <<addonVars, todo, failed>>
  /\ AddonFrame

AddonStep ==
  \/ EnsureNamespace \/ FetchOld \/ CleanupOld \/ FetchNew
  \/ ApplyAddonObj \/ ApplyAddonDone \/ DropPeerAuthentication \/ PersistInstalled
  \/ GuardAddon \/ DeleteAddonNothing \/ DeleteAddonFetch
  \/ DeleteAddonObj \/ DeleteAddonDone \/ PersistDeleted

-----------------------------------------------------------------------------
(* HTTPScaledObjects of the users.                                         *)

\* A pass that read the add-on as disabled is about to remove its CRD.
RemovingAddon == pc \in {"GuardAddon", "DeleteAddon", "DeleteAddonObjs"}

CreateHso ==
  /\ Spend("workload")
  /\ AddonCrd \in addonObjs
  /\ CarefulUsers => ~RemovingAddon
                     /\ \A k \in Present(server) : ~server[k].del /\ server[k].addon.enabled
  /\ hso' = TRUE
  /\ UNCHANGED <<crVars, heldVars, objVars, addonObjs>>

DeleteHso ==
  /\ hso
  /\ hso' = FALSE
  /\ UNCHANGED <<crVars, heldVars, objVars, addonObjs, budget>>

=============================================================================
