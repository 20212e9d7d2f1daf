----------------------------- MODULE KedaDelete -----------------------------
(***************************************************************************)
(* The deletion path of a pass (delete_resources.go, remove_finalizer.go): *)
(* mark the CR, refuse while instances of KEDA's CRDs exist, delete what   *)
(* the manifest lists, mark again, delete again and drop the finalizer.    *)
(* The strategy is always safeDeletionStrategy: nothing sets               *)
(* defaultDeletionStrategy to another one.                                 *)
(***************************************************************************)
EXTENDS HttpAddon

IsKedaDeleting(st) == st.conditions["Deleted"] # NoCond

\* checkAddonOrphanResources: looks at the HTTPScaledObjects only if this very
\* pass has installed the add-on.
AddonOrphans == cfgAddonObjs # <<>> /\ hso

\* Mutant of DeletionStop: the error is swallowed.
DeletionStopQuietly(st) == StopWith("none", st)

DeletionStop(st) == StopWith("error", st)

DeleteFrame == UNCHANGED <<snap, emitted, ready, failing, cfgVars>>

\* sFnDeleteResources, and the first check of sFnSafeDeletionState.
DeleteResources ==
  /\ pc = "DeleteResources"
  /\ CASE ~IsKedaDeleting(inst.status) ->
            /\ StopWith("requeue", UpdateStateDeletion(inst.status, "Deleted", "Deletion"))
            /\ UNCHANGED todo
       [] IsKedaDeleting(inst.status) /\ AddonOrphans ->
            /\ DeletionStop(UpdateStateFromWarning(inst.status, "Deleted", "HTTPAddonInUse"))
            /\ UNCHANGED todo
       [] OTHER ->
            /\ SwitchState("CheckCrds")
            /\ todo' = ManifestSeq
  /\ UNCHANGED <<clusterVars, failed>>
  /\ DeleteFrame

\* The kinds the RESTMapper comes to know when a kind is listed: that of CRD c, looked
\* up in the server if it is new, and with it others of its API group that are there.
Discover(c) ==
  IF c \in known THEN UNCHANGED known
  ELSE \E kinds \in SUBSET {d \in Crds : cluster[d] # Absent} : known' = known \cup kinds

\* What a step of checkCRDOrphanResources leaves alone.
CheckFrame ==
  UNCHANGED <<crVars, heldVars, objVars, addonVars, failed, snap, emitted, ready, failing,
              cfgAddonObjs, manifest, addonVersion>>

\* Mutant of CheckCrd: a failing list counts as an empty one.
CheckCrdFailsOpen ==
  LET c == Head(todo) IN
  /\ pc = "CheckCrds" /\ todo # <<>>
  /\ IF c \in Crds THEN Discover(c) ELSE UNCHANGED known
  /\ \/ c \notin scaled /\ (c \in Crds => c \in known') /\ UNCHANGED budget
     \/ c \in Crds /\ Spend("failure")
  /\ todo' = Tail(todo)
  /\ UNCHANGED <<pc, inst, outcome>>
  /\ CheckFrame

\* checkCRDOrphanResources: one List per CRD of the manifest, the first hit or
\* error stops; what is not a CRD is passed over.  A kind that is known is listed,
\* and "not found" counts as none.
CheckCrd ==
  LET c == Head(todo) IN
  /\ pc = "CheckCrds" /\ todo # <<>>
  /\ c \notin scaled
  /\ IF c \in Crds THEN Discover(c) /\ c \in known' ELSE UNCHANGED known
  /\ todo' = Tail(todo)
  /\ UNCHANGED <<budget, pc, inst, outcome>>
  /\ CheckFrame

\* Instances exist; or the CRD is gone and its kind unknown, which is a
\* NoKindMatchError and not the NotFound the code ignores; or the call fails.
CheckCrdBlocks ==
  LET c == Head(todo) IN
  /\ pc = "CheckCrds" /\ todo # <<>>
  /\ c \in Crds /\ Discover(c)
  /\ \/ c \in scaled /\ c \in known' /\ UNCHANGED budget
     \/ c \notin known' /\ cluster[c] = Absent /\ UNCHANGED budget
     \/ Spend("failure")
  /\ DeletionStop(UpdateStateFromWarning(inst.status, "Deleted", "DeletionErr"))
  /\ UNCHANGED todo
  /\ CheckFrame

\* deleteAddonObjs, then AddLeaseObjs in front of the loop.  The manager's own
\* lease is on the list too; its leader election restores it at once.
DeleteAddonLeftovers ==
  /\ pc = "CheckCrds" /\ todo = <<>>
  /\ \/ /\ addonObjs' = addonObjs \ (Range(cfgAddonObjs)
                                     \cup {PeerAuthentication(DefaultAddonNamespace)})
        /\ hso' = (hso /\ AddonCrd \notin Range(cfgAddonObjs))
        /\ AddonEvents
        /\ todo' = ManifestSeq \o <<OperatorLease>>
        /\ SwitchState("DeleteObjs")
        /\ UNCHANGED budget
     \/ /\ Spend("failure")
        /\ DeletionStop(UpdateStateFromErr(inst.status, "Deleted", "DeletionErr"))
        /\ UNCHANGED <<addonVars, objEvents, todo>>
  /\ UNCHANGED <<crVars, heldVars, cluster, depStatus, scaled, failed>>
  /\ DeleteFrame

\* One r.Delete; deleting a CRD takes its instances with it.
DeleteObj ==
  LET o == Head(todo) IN
  /\ pc = "DeleteObjs" /\ todo # <<>>
  /\ todo' = Tail(todo)
  /\ cluster' = [cluster EXCEPT ![o] = Absent]
  /\ objEvents' = ObjEventsAfter(o, Absent)
  /\ depStatus' = [d \in Deployments |-> IF d = o THEN "unavailable" ELSE depStatus[d]]
  /\ scaled' = scaled \ {o}
  /\ UNCHANGED <<crVars, heldVars, addonVars, budget, pc, inst, outcome, failed>>
  /\ DeleteFrame

DeleteObjFails ==
  /\ pc = "DeleteObjs" /\ todo # <<>>
  /\ Spend("failure")
  /\ todo' = Tail(todo)
  /\ failed' = TRUE
  /\ UNCHANGED <<crVars, heldVars, objVars, addonVars, pc, inst, outcome>>
  /\ DeleteFrame

\* Mutant of DeleteDone: the finalizer goes whatever became of the deletions.
DeleteDoneAnyway ==
  /\ pc = "DeleteObjs" /\ todo = <<>>
  /\ SwitchState("RemoveFinalizer")
  /\ UNCHANGED <<clusterVars, todo, failed>>
  /\ DeleteFrame

\* The finalizer goes only in a pass that found Deleted = True, that is one
\* after a pass whose deletions all went through.
DeleteDone ==
  /\ pc = "DeleteObjs" /\ todo = <<>>
  /\ CASE failed ->
            DeletionStop(UpdateStateFromErr(inst.status, "Deleted", "DeletionErr"))
       [] ~failed /\ inst.status.conditions["Deleted"].status \in {"", "True"} ->
            SwitchState("RemoveFinalizer")
       [] OTHER ->
            StopWith("requeue", UpdateStateDeletionTrue(inst.status, "Deleted", "Deleted"))
  /\ UNCHANGED <<clusterVars, todo, failed>>
  /\ DeleteFrame

RemoveFinalizer ==
  /\ pc = "RemoveFinalizer"
  /\ Update([inst EXCEPT !.fin = FALSE])
  /\ EndPass("none")
  /\ UNCHANGED <<cache, objVars, addonVars, budget>>

\* A CR that is gone counts as done, any other error ends the pass with it.
RemoveFinalizerFails ==
  /\ pc = "RemoveFinalizer"
  /\ \/ ~fresh /\ EndPass(IF server[key] = NoKeda THEN "none" ELSE "error") /\ UNCHANGED budget
     \/ Spend("failure") /\ EndPass("error")
  /\ UNCHANGED <<server, cache, current, objVars, addonVars>>

DeleteStep ==
  \/ DeleteResources \/ CheckCrd \/ CheckCrdBlocks \/ DeleteAddonLeftovers
  \/ DeleteObj \/ DeleteObjFails \/ DeleteDone \/ RemoveFinalizer \/ RemoveFinalizerFails

=============================================================================
