------------------------- MODULE KedaSettledProofs -------------------------
(***************************************************************************)
(* What rests is right, for one CR, every manifest, every set of specs and *)
(* annotations, reads as stale as can be, tampering, failing calls and     *)
(* restarts: a CR that nothing is on its way to has KEDA and its add-on as *)
(* it wants them, or says that they are not.  With a second CR this is not *)
(* so: its events may go to the first.                                     *)
(*                                                                         *)
(* The argument follows the wishes of the user from the cache into a pass, *)
(* through its loops into the cluster and back into the status: at each of *)
(* these places they are those of the cached CR, or the CR is in the queue *)
(* again.                                                                  *)
(***************************************************************************)
EXTENDS KedaWorkloadProofs

AddonPcs ==
  {"EnsureNamespace", "FetchOld", "CleanupOld", "FetchNew", "ApplyAddonObjs",
   "DropPeerAuthentication", "PersistInstalled"}
DisablePcs == {"GuardAddon", "DeleteAddon", "DeleteAddonObjs", "PersistDeleted"}
EndPcs == {"UpdateStatus", "EmitEvent", "Return"}

InTodo(o) == \E i \in 1 .. Len(todo) : todo[i] = o

\* Every object whose changes are watched is as the manifest wants it, is still to be
\* applied, or an event is on its way.
Applied ==
  \/ objEvents # {}
  \/ \A o \in Generational : cluster[o] = Desired(o) \/ (pc = "Apply" /\ InTodo(o))

WantedFor(a) == Range(FetchAddonObjs(addonVersion, EffectiveNamespace(a), a.istio))

\* The same for the objects of the add-on, with the annotations a; what is not watched
\* may be missing once somebody has tampered with something.
AddonThere(a) ==
  /\ a.enabled
  /\ \/ objEvents # {}
     \/ \A x \in WantedFor(a) \ PeerAuthentications :
          x \in addonObjs \/ (pc = "ApplyAddonObjs" /\ InTodo(x))
  /\ budget["tamper"] = Budget["tamper"] =>
       \A x \in WantedFor(a) : x \in addonObjs \/ (pc = "ApplyAddonObjs" /\ InTodo(x))

SaysFailed(st) == st.state = "Error" /\ st.conditions["Installed"].reason = "ApplyObjError"
SaysInstalled(st) == st.conditions["AddonInstalled"].reason = "HTTPAddonInstalled"

\* Status st says Ready, and so it is for a CR that wants what cr wants.
InPlace(cr, st) ==
  /\ st.state = "Ready"
  /\ FitsSpec(manifest, cr.spec.custom) /\ Applied
  /\ SaysInstalled(st) => AddonThere(cr.addon)

\* The copy of the pass wants what the cached CR wants.
WantsAsCached ==
  /\ cache[key] # NoKeda
  /\ inst.spec \in {cache[key].spec, SanitizedSpec(cache[key].spec)}
  /\ inst.addon = cache[key].addon
  /\ inst.del = cache[key].del

\* From sFnApply on the manifest in memory fits the copy and the cluster fits the
\* manifest, unless a Patch has failed.
ManifestPlaced ==
  pc \in InstallPcs \ {"Validate"} =>
    FitsSpec(manifest, inst.spec.custom) /\ (Applied \/ (pc = "Apply" /\ failed))

\* From sFnApplyAddon's loop on the add-on is in place, unless a Patch has failed.
AddonPlaced ==
  /\ pc \in AddonPcs => inst.addon.enabled
  /\ pc \in AddonPcs \cup DisablePcs => inst.status.state = "Ready"
  /\ pc \in {"ApplyAddonObjs", "DropPeerAuthentication", "PersistInstalled"}
       => AddonThere(inst.addon) \/ (pc = "ApplyAddonObjs" /\ failed)
  /\ pc = "DropPeerAuthentication" => ~inst.addon.istio

\* A pass that is not to be repeated ends with a status that is true, and stored.
EndsWell ==
  pc \in EndPcs /\ outcome = "none" =>
    /\ ~inst.del
    /\ SaysFailed(inst.status) \/ (inst.fin /\ InPlace(inst, inst.status))
    /\ pc # "UpdateStatus" /\ server[key] # NoKeda => server[key].status = inst.status

PassFits == WantsAsCached /\ ManifestPlaced /\ AddonPlaced /\ EndsWell

\* As long as the CR is not to be reconciled again.
PassInv == pc # "Idle" /\ key \notin queue => PassFits

\* Between passes: a CR that is not to be reconciled again is about to go, or its
\* installation failed, or its status is true.
RestInv ==
  \A k \in Kedas :
    pc = "Idle" /\ k \notin queue /\ cache[k] # NoKeda /\ server[k] # NoKeda =>
      IF cache[k].del THEN ~server[k].fin
      ELSE \/ SaysFailed(server[k].status)
           \/ server[k].fin /\ InPlace(cache[k], server[k].status)

\* Interference is never undone.
TamperLeft == budget["tamper"] <= Budget["tamper"]

SettledInv == PassInv /\ RestInv /\ TamperLeft

-----------------------------------------------------------------------------
(* The operators.                                                          *)

\* Sanitizing the spec does not change which content fits it.
LEMMA FitsSanitized ==
  ASSUME NEW content, NEW custom \in Customs
  PROVE  FitsSpec(content, SanitizedCustom(custom)) <=> FitsSpec(content, custom)
<1>1. \A f \in Fields : /\ custom[f] \in Values \cup {Unset}
                        /\ SanitizedCustom(custom)[f] = Sanitized[custom[f]]
  BY DEF SanitizedCustom, Customs
<1>2. \A f \in Fields : /\ Sanitized[Sanitized[custom[f]]] = Sanitized[custom[f]]
                        /\ Sanitized[custom[f]] = Unset <=> custom[f] = Unset
  BY <1>1, SanitizedAssumption
<1> QED
  BY <1>1, <1>2 DEF FitsSpec

\* The chain of update functions makes the manifest fit the spec, whatever earlier
\* specs have left in it.
LEMMA UpdatedFits ==
  ASSUME NEW custom \in Customs
  PROVE  FitsSpec(UpdatedManifest(SanitizedCustom(custom)), SanitizedCustom(custom))
<1> DEFINE c == SanitizedCustom(custom)
<1>1. \A f \in Fields : custom[f] \in Values \cup {Unset} /\ c[f] = Sanitized[custom[f]]
  BY DEF SanitizedCustom, Customs
<1>2. \A f \in Fields : Sanitized[c[f]] = c[f]
  BY <1>1, SanitizedAssumption
<1> HIDE DEF c
<1>3. \A f \in Fields :
        UpdatedManifest(c)[f] = IF f \in StickyFields /\ c[f] = Unset THEN manifest[f] ELSE c[f]
  BY DEF UpdatedManifest
<1>4. FitsSpec(UpdatedManifest(c), c)
  BY <1>2, <1>3 DEF FitsSpec
<1> QED
  BY <1>4 DEF c

\* Content that fits the copy fits the cached CR.
LEMMA FitsCached ==
  ASSUME TypeInv, pc # "Idle", WantsAsCached, NEW content, FitsSpec(content, inst.spec.custom)
  PROVE  FitsSpec(content, cache[key].spec.custom)
<1>1. cache[key].spec \in SpecTypes /\ cache[key].spec.custom \in Customs
  BY HeldType DEF WantsAsCached, TypeInv, TypeOK, ClusterTypeOK, Keda, SpecTypes
<1>2. SanitizedSpec(cache[key].spec).custom = SanitizedCustom(cache[key].spec.custom)
  BY <1>1 DEF SanitizedSpec, SpecTypes
<1> QED
  BY <1>1, <1>2, FitsSanitized DEF WantsAsCached

\* The manifest of a release without Istio has no PeerAuthentication.
LEMMA PlainManifest ==
  ASSUME NEW v, NEW ns, NEW x \in Range(FetchAddonObjs(v, ns, FALSE))
  PROVE  \A n : x # PeerAuthentication(n)
<1> DEFINE s == FetchResources(v, ns) \o <<>>
<1>1. /\ DOMAIN s = 1 .. 3
      /\ s[1] = AddonCrd /\ s[2] = AddonWorkload(ns) /\ s[3] = AddonExtra(v)
  BY DEF FetchResources
<1>2. x \in {s[i] : i \in DOMAIN s}
  BY DEF FetchAddonObjs, Range
<1> HIDE DEF s
<1>3. x \in {AddonCrd, AddonWorkload(ns), AddonExtra(v)}
  BY <1>1, <1>2
<1>4. \A n : AddonCrd # PeerAuthentication(n)
  BY DEF AddonCrd, PeerAuthentication
<1>5. \A n : AddonWorkload(ns) # PeerAuthentication(n)
  BY DEF AddonWorkload, PeerAuthentication
<1>6. \A n : AddonExtra(v) # PeerAuthentication(n)
  BY DEF AddonExtra, PeerAuthentication
<1> QED
  BY <1>3, <1>4, <1>5, <1>6

\* What is applied stays so where nobody touches it, unless a loop is left early.
LEMMA AppliedKept ==
  ASSUME todo \in Seq(Objs \cup AddonObjTypes), pc # "Apply" \/ todo = <<>> \/ UNCHANGED <<pc, todo>>,
         UNCHANGED <<cluster, manifest>>, objEvents \subseteq objEvents', Applied
  PROVE  Applied'
  BY DEF Applied, Desired, InTodo

\* The same for the add-on.
LEMMA ThereKept ==
  ASSUME todo \in Seq(Objs \cup AddonObjTypes),
         pc # "ApplyAddonObjs" \/ todo = <<>> \/ UNCHANGED <<pc, todo>>,
         UNCHANGED addonVersion, addonObjs \subseteq addonObjs', objEvents \subseteq objEvents',
         budget'["tamper"] = budget["tamper"], NEW a, AddonThere(a)
  PROVE  AddonThere(a)'
  BY DEF AddonThere, WantedFor, InTodo

\* Of the kinds of interference only tampering counts here, and it is never undone.
LEMMA SpendTamper ==
  ASSUME TypeInv, TamperLeft, NEW what \in Interference, Spend(what)
  PROVE  /\ TamperLeft'
         /\ what # "tamper" => budget'["tamper"] = budget["tamper"]
         /\ what = "tamper" => budget'["tamper"] # Budget["tamper"]
<1>1. /\ budget \in [Interference -> Nat] /\ Budget \in [Interference -> Nat]
      /\ "tamper" \in Interference
  BY BudgetAssumption DEF TypeInv, TypeOK, ClusterTypeOK, Interference
<1> QED
  BY <1>1 DEF Spend, TamperLeft

-----------------------------------------------------------------------------
(* Everybody but the worker.                                               *)

\* Seen from CR k, which is not to be reconciled again: the cached CR wants what it
\* wanted, and what is in place for it stays in place.
Undisturbed(k) ==
  /\ k \notin queue /\ cache[k] # NoKeda /\ cache'[k] # NoKeda
  /\ cache'[k].spec = cache[k].spec /\ cache'[k].addon = cache[k].addon
  /\ cache'[k].del = cache[k].del
  /\ server'[k] # NoKeda => /\ server[k] # NoKeda
                            /\ server'[k].status = server[k].status
                            /\ server'[k].fin = server[k].fin
  /\ ~cache[k].del => /\ Applied => Applied'
                      /\ \A a \in AddonTypes : AddonThere(a) => AddonThere(a)'

\* Nobody touches the objects.
ObjectsAlone == UNCHANGED <<cluster, addonObjs>> /\ objEvents \subseteq objEvents'

\* Then what is in place stays in place.
LEMMA LeftInPlace ==
  ASSUME TypeInv, UNCHANGED fsmVars, ObjectsAlone, budget'["tamper"] = budget["tamper"]
  PROVE  (Applied => Applied') /\ \A a : AddonThere(a) => AddonThere(a)'
<1>1. todo \in Seq(Objs \cup AddonObjTypes) /\ UNCHANGED <<pc, todo, manifest, addonVersion>>
  BY DEF TypeInv, TypeOK, FsmTypeOK, fsmVars, loopVars, cfgVars
<1> QED
  BY <1>1, AppliedKept, ThereKept DEF ObjectsAlone

\* What users write into a CR comes to the worker through the cache.
LEMMA UserUndisturbed ==
  ASSUME TypeInv, TamperLeft, NEW k \in Kedas, NEW cr, UserWrite(k, cr), UNCHANGED fsmVars,
         k \notin queue, cache[k] # NoKeda, server[k] # NoKeda,
         cr = NoKeda \/ (cr.status = server[k].status /\ cr.fin = server[k].fin)
  PROVE  Undisturbed(k) /\ TamperLeft'
<1>1. /\ ObjectsAlone /\ UNCHANGED <<cache, queue>> /\ Spend("edit")
      /\ server' = [server EXCEPT ![k] = cr] /\ server \in [Kedas -> Keda \cup {NoKeda}]
  BY DEF UserWrite, ObjectsAlone, objVars, addonVars, TypeInv, TypeOK, ClusterTypeOK
<1>2. budget'["tamper"] = budget["tamper"] /\ TamperLeft'
  BY <1>1, SpendTamper DEF Interference
<1> QED
  BY <1>1, <1>2, LeftInPlace DEF Undisturbed

\* Who tampers leaves an event behind, or touches what is not watched.
LEMMA TamperUndisturbed ==
  ASSUME TypeInv, TamperLeft, NEW k \in Kedas, UNCHANGED fsmVars,
         k \notin queue, cache[k] # NoKeda, server[k] = NoKeda \/ server[k] \in Keda,
         \/ \E o \in ManifestObjs : Tamper(o)
         \/ \E o \in AddonObjTypes : TamperAddon(o)
  PROVE  Undisturbed(k) /\ TamperLeft'
<1>a. UNCHANGED crVars /\ Spend("tamper")
  BY DEF Tamper, TamperAddon
<1>b. TamperLeft' /\ budget'["tamper"] # Budget["tamper"]
  BY <1>a, SpendTamper DEF Interference
<1>c. /\ UNCHANGED <<pc, todo, manifest, addonVersion>>
      /\ cluster \in [Objs -> Contents] /\ Generational \subseteq ManifestObjs
  BY ManifestAssumption DEF TypeInv, TypeOK, ClusterTypeOK, fsmVars, loopVars, cfgVars
<1>1. ASSUME NEW o \in ManifestObjs, Tamper(o)
      PROVE  /\ Applied => Applied'
             /\ \A a : AddonThere(a) => AddonThere(a)'
  <2>1. PICK c \in {Absent, Tampered} \ {cluster[o]} :
          /\ cluster' = [cluster EXCEPT ![o] = c] /\ objEvents' = ObjEventsAfter(o, c)
    BY <1>1 DEF Tamper
  <2>2. /\ objEvents \subseteq objEvents' /\ UNCHANGED addonObjs
        /\ o \in Generational => o \in objEvents'
    BY <1>1, <2>1 DEF ObjEventsAfter, Tamper, addonVars
  <2>3. o \notin Generational => \A p \in Generational : cluster'[p] = cluster[p]
    BY <1>c, <2>1 DEF Objs
  <2>4. Applied => Applied'
    BY <1>c, <2>2, <2>3 DEF Applied, Desired, InTodo
  <2>5. \A a : AddonThere(a) => AddonThere(a)'
    BY <1>b, <1>c, <2>2 DEF AddonThere, WantedFor, InTodo
  <2> QED
    BY <2>4, <2>5
<1>2. ASSUME NEW o \in AddonObjTypes, TamperAddon(o)
      PROVE  /\ Applied => Applied'
             /\ \A a : AddonThere(a) => AddonThere(a)'
  <2>1. /\ UNCHANGED cluster /\ objEvents \subseteq objEvents' /\ o \in addonObjs
        /\ addonObjs' = addonObjs \ {o} /\ AddonEvents
    BY <1>2 DEF TamperAddon, RemoveAddonObj, AddonEvents
  <2>2. o \in PeerAuthentications \/ objEvents' # {}
    BY <2>1 DEF AddonEvents
  <2>3. Applied => Applied'
    BY <1>c, <2>1 DEF Applied, Desired, InTodo
  <2>4. \A a : AddonThere(a) => AddonThere(a)'
    BY <1>b, <1>c, <2>1, <2>2 DEF AddonThere, WantedFor, InTodo
  <2> QED
    BY <2>3, <2>4
<1>3. /\ Applied => Applied'
      /\ \A a : AddonThere(a) => AddonThere(a)'
  BY <1>1, <1>2
<1> QED
  BY <1>a, <1>b, <1>3 DEF Undisturbed, crVars

\* What the informer and the handlers take from the worker's sight they put into its
\* queue, the CR being the only one.
LEMMA InformerUndisturbed ==
  ASSUME TypeInv, \A i, j \in Kedas : i = j, NEW k \in Kedas, UNCHANGED fsmVars,
         k \notin queue', cache[k] # NoKeda \/ cache'[k] # NoKeda,
         CacheSync(k) \/ \E o \in EventSources : MapFunction(o)
  PROVE  Undisturbed(k)
<1>1. CASE CacheSync(k)
  <2>1. /\ cache'[k] = server[k] /\ UNCHANGED <<server, budget>> /\ ObjectsAlone
        /\ k \notin queue /\ k \notin Enqueued(k)
    BY <1>1 DEF CacheSync, TypeInv, TypeOK, ClusterTypeOK, ObjectsAlone, objVars, addonVars
  <2>2. /\ cache[k] # NoKeda /\ server[k] # NoKeda
        /\ ~PassesOmitStatusChanged(cache[k], server[k])
    BY <1>1, <2>1 DEF Enqueued
  <2>3. (Applied => Applied') /\ \A a : AddonThere(a) => AddonThere(a)'
    BY <2>1, LeftInPlace
  <2> QED
    BY <2>1, <2>2, <2>3 DEF Undisturbed, PassesOmitStatusChanged
<1>2. ASSUME NEW o \in EventSources, MapFunction(o) PROVE Undisturbed(k)
  <2>1. /\ UNCHANGED <<server, cache>> /\ k \notin queue /\ cache[k] # NoKeda
        /\ cache[k].del
    BY <1>2 DEF MapFunction, Present
  <2> QED
    BY <2>1 DEF Undisturbed
<1> QED
  BY <1>1, <1>2

\* All of them together.
LEMMA OutsideUndisturbed ==
  ASSUME TypeInv, TamperLeft, \A i, j \in Kedas : i = j, OutsideStep \/ SystemStep,
         NEW k \in Kedas, k \notin queue', cache[k] # NoKeda \/ cache'[k] # NoKeda
  PROVE  Undisturbed(k)
<1>a. UNCHANGED fsmVars
  BY DEF OutsideStep, SystemStep
<1>b. server[k] # NoKeda => server[k] \in Keda
  BY DEF TypeInv, TypeOK, ClusterTypeOK
<1>1. ASSUME NEW j \in Kedas,
             CreateKeda(j) \/ EditSpec(j) \/ EditAddon(j) \/ DeleteKeda(j) \/ DropExtFinalizer(j)
      PROVE  Undisturbed(k)
  <2>1. j = k
    OBVIOUS
  <2>2. UNCHANGED <<cache, queue>>
    BY <1>1 DEF CreateKeda, EditSpec, EditAddon, DeleteKeda, DropExtFinalizer, UserWrite
  <2>3. ~CreateKeda(j)
    BY <2>1, <2>2 DEF CreateKeda
  <2>4. server[k] \in Keda /\ server[k] # NoKeda
    BY <1>1, <1>b, <2>1, <2>3 DEF EditSpec, EditAddon, DeleteKeda, DropExtFinalizer
  <2>5. \A x : /\ [server[k] EXCEPT !.spec = x].status = server[k].status
               /\ [server[k] EXCEPT !.spec = x].fin = server[k].fin
               /\ [server[k] EXCEPT !.addon = x].status = server[k].status
               /\ [server[k] EXCEPT !.addon = x].fin = server[k].fin
               /\ [server[k] EXCEPT !.del = x].status = server[k].status
               /\ [server[k] EXCEPT !.del = x].fin = server[k].fin
               /\ [server[k] EXCEPT !.ext = x].status = server[k].status
               /\ [server[k] EXCEPT !.ext = x].fin = server[k].fin
    BY <2>4 DEF Keda
  <2>6. ASSUME NEW cr, UserWrite(k, cr),
               cr = NoKeda \/ (cr.status = server[k].status /\ cr.fin = server[k].fin)
        PROVE  Undisturbed(k)
    BY <1>a, <2>2, <2>4, <2>6, UserUndisturbed
  <2>7. CASE EditSpec(j)
    BY <2>1, <2>5, <2>6, <2>7 DEF EditSpec
  <2>8. CASE EditAddon(j)
    BY <2>1, <2>5, <2>6, <2>8 DEF EditAddon
  <2>9. ASSUME NEW cr, UserWrite(k, Stored(cr)),
               cr.status = server[k].status /\ cr.fin = server[k].fin
        PROVE  Undisturbed(k)
    BY <2>6, <2>9 DEF Stored
  <2>10. CASE DeleteKeda(j)
    BY <2>1, <2>5, <2>9, <2>10 DEF DeleteKeda
  <2>11. CASE DropExtFinalizer(j)
    BY <2>1, <2>5, <2>9, <2>11 DEF DropExtFinalizer
  <2> QED
    BY <1>1, <2>3, <2>7, <2>8, <2>10, <2>11
<1>2. ASSUME NEW j \in Kedas, CacheSync(j) PROVE Undisturbed(k)
  <2>1. CacheSync(k)
    BY <1>2
  <2> QED
    BY <1>a, <2>1, InformerUndisturbed
<1>3. ASSUME NEW o \in EventSources, MapFunction(o) PROVE Undisturbed(k)
  BY <1>3, <1>a, InformerUndisturbed
<1>4. ASSUME \/ \E o \in ManifestObjs : Tamper(o)
             \/ \E o \in AddonObjTypes : TamperAddon(o)
      PROVE  Undisturbed(k)
  <2>1. UNCHANGED <<cache, queue>>
    BY <1>4 DEF Tamper, TamperAddon, crVars
  <2> QED
    BY <1>4, <1>a, <1>b, <2>1, TamperUndisturbed
<1>5. CASE AcquireLease
  <2>1. UNCHANGED <<server, cache, queue, objEvents, addonObjs, budget>>
    BY <1>5 DEF AcquireLease, crVars, addonVars
  <2>2. \A o \in Generational : cluster'[o] = cluster[o]
    BY <1>5, ManifestAssumption DEF AcquireLease, Objs, TypeInv, TypeOK, ClusterTypeOK
  <2>3. Applied => Applied'
    BY <1>a, <2>1, <2>2 DEF Applied, Desired, InTodo, fsmVars, loopVars, cfgVars
  <2>4. \A a : AddonThere(a) => AddonThere(a)'
    BY <1>a, <2>1 DEF AddonThere, WantedFor, InTodo, fsmVars, loopVars, cfgVars
  <2> QED
    BY <2>1, <2>3, <2>4 DEF Undisturbed
<1>6. ASSUME NEW o, \/ DeploymentReady(o) \/ DeploymentDegrades(o) \/ CreateScaled(o)
                    \/ DeleteScaled(o) \/ CreateHso \/ DeleteHso
      PROVE  Undisturbed(k)
  <2>1. UNCHANGED crVars /\ ObjectsAlone
    BY <1>6 DEF DeploymentReady, DeploymentDegrades, CreateScaled, DeleteScaled, CreateHso,
       DeleteHso, ObjectsAlone, objVars, addonVars
  <2>2. UNCHANGED budget \/ Spend("failure") \/ Spend("workload")
    BY <1>6 DEF DeploymentReady, DeploymentDegrades, CreateScaled, DeleteScaled, CreateHso,
       DeleteHso
  <2>3. budget'["tamper"] = budget["tamper"]
    BY <2>2, SpendTamper DEF Interference
  <2>4. (Applied => Applied') /\ \A a : AddonThere(a) => AddonThere(a)'
    BY <1>a, <2>1, <2>3, LeftInPlace
  <2> QED
    BY <2>1, <2>4 DEF Undisturbed, crVars
<1> QED
  BY <1>1, <1>2, <1>3, <1>4, <1>5, <1>6 DEF OutsideStep, SystemStep

\* None of them takes a CR out of the queue.
LEMMA OutsideQueue ==
  ASSUME OutsideStep \/ SystemStep
  PROVE  queue \subseteq queue'
<1>1. ASSUME NEW k, \/ CreateKeda(k) \/ EditSpec(k) \/ EditAddon(k) \/ DeleteKeda(k)
                    \/ DropExtFinalizer(k) \/ CacheSync(k) \/ MapFunction(k)
      PROVE  queue \subseteq queue'
  BY <1>1 DEF CreateKeda, EditSpec, EditAddon, DeleteKeda, DropExtFinalizer, CacheSync,
     MapFunction, UserWrite
<1>2. ASSUME NEW o, \/ Tamper(o) \/ TamperAddon(o) \/ DeploymentReady(o) \/ DeploymentDegrades(o)
                    \/ AcquireLease \/ CreateScaled(o) \/ DeleteScaled(o) \/ CreateHso \/ DeleteHso
      PROVE  queue \subseteq queue'
  BY <1>2 DEF Tamper, TamperAddon, DeploymentReady, DeploymentDegrades, AcquireLease,
     CreateScaled, DeleteScaled, CreateHso, DeleteHso, crVars
<1> QED
  BY <1>1, <1>2 DEF OutsideStep, SystemStep

\* Their steps keep what is known of passes and of rest.
LEMMA OutsideSettled ==
  ASSUME TypeInv, PathFits, PassInv, RestInv, TamperLeft, \A i, j \in Kedas : i = j,
         OutsideStep \/ SystemStep
  PROVE  PassInv' /\ RestInv'
<1>a. UNCHANGED fsmVars /\ key' = key
  BY OutsideAside DEF OutsideStep, SystemStep, Aside
<1>b. UNCHANGED <<pc, inst, outcome, todo, failed, manifest, addonVersion>>
  BY <1>a DEF fsmVars, loopVars, cfgVars
<1>1. ASSUME NEW k \in Kedas, Undisturbed(k), ~cache[k].del, NEW cr \in Keda, NEW st, InPlace(cr, st)
      PROVE  InPlace(cr, st)'
  <2>1. cr.addon \in AddonTypes
    BY DEF Keda
  <2> QED
    BY <1>1, <1>b, <2>1 DEF InPlace, Undisturbed, FitsSpec
<1>2. ASSUME (pc # "Idle")', (key \notin queue)' PROVE PassFits'
  <2>1. pc # "Idle" /\ key \in Kedas /\ inst \in Keda
    BY <1>2, <1>b, HeldType
  <2>2. key \notin queue
    BY <1>2, <1>a, <2>1, OutsideQueue
  <2>3. PassFits
    BY <2>1, <2>2 DEF PassInv
  <2>4. Undisturbed(key)
    BY <1>2, <1>a, <2>1, <2>3, OutsideUndisturbed DEF PassFits, WantsAsCached
  <2>5. WantsAsCached'
    BY <1>a, <1>b, <2>3, <2>4 DEF PassFits, WantsAsCached, Undisturbed
  <2>6. ~inst.del => ~cache[key].del
    BY <2>3 DEF PassFits, WantsAsCached
  <2>7. pc \in InstallPcs => ~inst.del
    BY DEF PathFits
  <2>8. ManifestPlaced'
    BY <1>b, <2>3, <2>4, <2>6, <2>7 DEF PassFits, ManifestPlaced, Undisturbed, FitsSpec
  <2>9. AddonPlaced'
    <3>1. inst.addon \in AddonTypes
      BY <2>1 DEF Keda
    <3> QED
      BY <1>b, <2>3, <2>4, <2>6, <2>7, <3>1 DEF PassFits, AddonPlaced, Undisturbed, InstallPcs
  <2>10. EndsWell'
    <3> SUFFICES ASSUME pc \in EndPcs, outcome = "none"
                 PROVE  /\ ~inst.del
                        /\ SaysFailed(inst.status) \/ (inst.fin /\ InPlace(inst, inst.status)')
                        /\ pc # "UpdateStatus" /\ server'[key] # NoKeda
                             => server'[key].status = inst.status
      BY <1>a, <1>b DEF EndsWell, InPlace, SaysFailed, FitsSpec, SaysInstalled
    <3>1. EndsWell
      BY <2>3 DEF PassFits
    <3>2. ~inst.del /\ ~cache[key].del
      BY <3>1, <2>6 DEF EndsWell
    <3>3. InPlace(inst, inst.status) => InPlace(inst, inst.status)'
      BY <1>1, <1>b, <2>1, <2>4, <3>2
    <3> QED
      BY <2>4, <3>1, <3>2, <3>3 DEF EndsWell, Undisturbed
  <2> QED
    BY <2>5, <2>8, <2>9, <2>10 DEF PassFits
<1>3. ASSUME NEW k \in Kedas, (pc = "Idle" /\ k \notin queue /\ cache[k] # NoKeda /\ server[k] # NoKeda)'
      PROVE  IF cache'[k].del THEN ~server'[k].fin
             ELSE \/ SaysFailed(server'[k].status)
                  \/ server'[k].fin /\ InPlace(cache[k], server[k].status)'
  <2>1. Undisturbed(k)
    BY <1>3, OutsideUndisturbed
  <2>2. /\ pc = "Idle" /\ k \notin queue /\ cache[k] # NoKeda /\ server[k] # NoKeda
        /\ cache'[k].spec = cache[k].spec /\ cache'[k].addon = cache[k].addon
        /\ cache'[k].del = cache[k].del
        /\ server'[k].status = server[k].status /\ server'[k].fin = server[k].fin
    BY <1>3, <1>b, <2>1 DEF Undisturbed
  <2>3. cache[k] \in Keda
    BY <2>2 DEF TypeInv, TypeOK, ClusterTypeOK
  <2>4. CASE cache[k].del
    BY <2>2, <2>4 DEF RestInv
  <2>5. CASE ~cache[k].del
    <3>1. ASSUME InPlace(cache[k], server[k].status) PROVE InPlace(cache[k], server[k].status)'
      <4>1. cache[k].addon \in AddonTypes
        BY <2>3 DEF Keda
      <4> QED
        BY <1>b, <2>1, <2>2, <2>5, <3>1, <4>1 DEF InPlace, Undisturbed, FitsSpec
    <3> QED
      BY <2>2, <2>5, <3>1 DEF RestInv
  <2> QED
    BY <2>4, <2>5
<1> QED
  BY <1>2, <1>3 DEF PassInv, RestInv

-----------------------------------------------------------------------------
(* The worker, within a pass.                                              *)

\* The wishes in the copy stay as they are.
SameWishes ==
  /\ UNCHANGED <<cache, key>>
  /\ inst'.spec = inst.spec /\ inst'.addon = inst.addon /\ inst'.del = inst.del

\* What is in place stays in place.
Steady ==
  /\ UNCHANGED <<cluster, manifest, addonVersion>> /\ objEvents \subseteq objEvents'
  /\ addonObjs \subseteq addonObjs' /\ budget'["tamper"] = budget["tamper"]
  /\ pc \in {"Apply", "ApplyAddonObjs"} => todo = <<>>

\* A pass that leaves the path of installation, to be repeated if it ends, owes nothing.
LEMMA OffPath ==
  ASSUME PassFits, SameWishes, pc' \notin InstallPcs \ {"Validate"},
         pc' \in EndPcs => outcome' # "none"
  PROVE  PassFits'
  BY DEF PassFits, SameWishes, WantsAsCached, ManifestPlaced, AddonPlaced, EndsWell, InstallPcs,
     AddonPcs, DisablePcs

\* A state function that stops keeps the wishes and sets the status.
LEMMA StopWishes ==
  ASSUME inst \in Keda, NEW out, NEW st, StopWith(out, st), UNCHANGED <<cache, key>>
  PROVE  /\ SameWishes /\ inst'.fin = inst.fin /\ inst'.status = st
         /\ pc' = "UpdateStatus" /\ outcome' = out
  BY DEF StopWith, SameWishes, Keda

\* One that stops for a while owes nothing.
LEMMA StopOffPath ==
  ASSUME inst \in Keda, PassFits, NEW out, out # "none", NEW st, StopWith(out, st),
         UNCHANGED <<cache, key>>
  PROVE  PassFits'
  BY StopWishes, OffPath DEF InstallPcs

\* What is in place for the copy stays so while nobody touches it.
LEMMA PlacedKept ==
  ASSUME todo \in Seq(Objs \cup AddonObjTypes), Steady, NEW a
  PROVE  (Applied => Applied') /\ (AddonThere(a) => AddonThere(a)')
  BY AppliedKept, ThereKept DEF Steady

\* The chain of updates turns the wishes into a manifest that is all to be applied.
LEMMA UpdateObjectsFits ==
  ASSUME TypeInv, PassFits, UpdateObjects
  PROVE  PassFits'
<1>a. /\ inst \in Keda /\ inst.spec \in SpecTypes /\ inst.spec.custom \in Customs
      /\ key \in Kedas /\ UNCHANGED <<cache, key>>
  BY HeldType DEF UpdateObjects, Keda, SpecTypes, clusterVars, crVars, heldVars
<1>1. /\ inst'.spec = SanitizedSpec(inst.spec) /\ inst'.addon = inst.addon /\ inst'.del = inst.del
      /\ inst'.spec.custom = SanitizedCustom(inst.spec.custom)
  BY <1>a DEF UpdateObjects, SanitizedSpec, Keda, SpecTypes
<1>2. cache[key] \in Keda /\ cache[key].spec \in SpecTypes
  BY <1>a DEF PassFits, WantsAsCached, TypeInv, TypeOK, ClusterTypeOK, Keda
<1>3. WantsAsCached'
  BY <1>a, <1>1, <1>2, SanitizedTwice DEF PassFits, WantsAsCached
<1>4. FitsSpec(manifest, inst.spec.custom)'
  <2>1. manifest' = UpdatedManifest(SanitizedCustom(inst.spec.custom))
    BY DEF UpdateObjects
  <2>2. FitsSpec(manifest', SanitizedCustom(inst.spec.custom))
    BY <1>a, <2>1, UpdatedFits
  <2> QED
    BY <1>1, <2>2 DEF FitsSpec
<1>5. Applied'
  <2>1. pc' = "Apply" /\ todo' = ManifestSeq
    BY DEF UpdateObjects
  <2>2. \A o \in Generational : \E i \in 1 .. Len(ManifestSeq) : ManifestSeq[i] = o
    BY ManifestAssumption DEF ManifestObjs, Range
  <2> QED
    BY <2>1, <2>2 DEF Applied, InTodo
<1>6. pc' = "Apply"
  BY DEF UpdateObjects
<1> QED
  BY <1>3, <1>4, <1>5, <1>6 DEF PassFits, ManifestPlaced, AddonPlaced, EndsWell, AddonPcs,
     DisablePcs, EndPcs

\* The loop of sFnApply.
LEMMA ApplyFits ==
  ASSUME TypeInv, PassFits, ApplyObject \/ ApplyObjectFails
  PROVE  PassFits'
<1>a. /\ pc = "Apply" /\ pc' = "Apply" /\ todo # <<>> /\ todo' = Tail(todo)
      /\ UNCHANGED <<cache, key, inst, manifest>>
      /\ todo \in Seq(Objs \cup AddonObjTypes) /\ cluster \in [Objs -> Contents]
      /\ Generational \subseteq Objs
  BY ManifestAssumption DEF ApplyObject, ApplyObjectFails, crVars, heldVars, cfgVars, TypeInv,
     TypeOK, ClusterTypeOK, FsmTypeOK, Objs
<1>1. Applied' \/ failed'
  <2>1. CASE ApplyObjectFails
    BY <2>1 DEF ApplyObjectFails
  <2>2. CASE ApplyObject /\ Applied
    <3>1. /\ cluster' = [cluster EXCEPT ![Head(todo)] = Desired(Head(todo))]
          /\ objEvents \subseteq objEvents'
      BY <2>2 DEF ApplyObject, ObjEventsAfter
    <3>2. \A o : Desired(o)' = Desired(o)
      BY <1>a DEF Desired
    <3>3. ASSUME NEW o \in Generational, cluster[o] = Desired(o) \/ InTodo(o)
          PROVE  cluster'[o] = Desired(o) \/ InTodo(o)'
      <4>1. CASE o = Head(todo)
        BY <1>a, <3>1, <4>1
      <4>2. CASE o # Head(todo)
        <5>1. cluster[o] = Desired(o) => cluster'[o] = Desired(o)
          BY <1>a, <3>1, <4>2
        <5>2. InTodo(o) => \E j \in 1 .. Len(Tail(todo)) : Tail(todo)[j] = o
          BY <1>a, <4>2, TailKeeps DEF InTodo
        <5> QED
          BY <1>a, <3>3, <5>1, <5>2 DEF InTodo
      <4> QED
        BY <4>1, <4>2
    <3> QED
      BY <1>a, <2>2, <3>1, <3>2, <3>3 DEF Applied
  <2>3. CASE ApplyObject /\ ~Applied
    BY <1>a, <2>3 DEF PassFits, ManifestPlaced, InstallPcs, ApplyObject
  <2> QED
    BY <2>1, <2>2, <2>3
<1> QED
  BY <1>a, <1>1 DEF PassFits, WantsAsCached, ManifestPlaced, AddonPlaced, EndsWell, InstallPcs,
     AddonPcs, DisablePcs, EndPcs, FitsSpec

\* What the helpers make of state and reasons.
LEMMA StatusFacts ==
  ASSUME NEW st \in Statuses
  PROVE  /\ SaysFailed(UpdateStateFromErr(st, "Installed", "ApplyObjError"))
         /\ VerifiedStatus(st).state = "Ready"
         /\ \A s, r : SetAddonCondition(st, s, r).state = st.state
         /\ \A s, r : SetAddonCondition(st, s, r).conditions["AddonInstalled"].reason = r
<1>1. SaysFailed(UpdateStateFromErr(st, "Installed", "ApplyObjError"))
  BY DEF SaysFailed, UpdateStateFromErr, WithState, SetCondition, Statuses, CondTypes
<1>2. VerifiedStatus(st).state = "Ready"
  BY DEF VerifiedStatus, UpdateStateReady, WithState, SetCondition, RemoveCondition, Statuses,
     CondTypes
<1>3. \A s, r : /\ SetAddonCondition(st, s, r).state = st.state
                /\ SetAddonCondition(st, s, r).conditions["AddonInstalled"].reason = r
  BY DEF SetAddonCondition, SetCondition, Statuses, CondTypes
<1> QED
  BY <1>1, <1>2, <1>3

\* Storing the status and emitting events, at the end of a pass.
LEMMA EndFits ==
  ASSUME TypeInv, PassFits, UpdateStatus \/ EmitEvent
  PROVE  PassFits'
<1>a. /\ pc \in EndPcs /\ pc' \in EndPcs \ {"UpdateStatus"}
      /\ UNCHANGED <<cache, key, inst, outcome>> /\ SameWishes /\ Steady
  BY DEF UpdateStatus, EmitEvent, SwitchState, EndPcs, SameWishes, Steady, clusterVars, crVars,
     heldVars, objVars, addonVars, cfgVars
<1>b. inst \in Keda /\ key \in Kedas /\ todo \in Seq(Objs \cup AddonObjTypes)
  BY <1>a, HeldType DEF EndPcs, TypeInv, TypeOK, FsmTypeOK
<1>1. WantsAsCached'
  BY <1>a DEF PassFits, WantsAsCached
<1>2. EndsWell'
  <2> SUFFICES ASSUME outcome = "none"
               PROVE  /\ ~inst.del
                      /\ SaysFailed(inst.status) \/ (inst.fin /\ InPlace(inst, inst.status)')
                      /\ server'[key] # NoKeda => server'[key].status = inst.status
    BY <1>a DEF EndsWell, InPlace, FitsSpec, SaysFailed, SaysInstalled
  <2>1. ~inst.del /\ (SaysFailed(inst.status) \/ (inst.fin /\ InPlace(inst, inst.status)))
    BY <1>a DEF PassFits, EndsWell
  <2>2. InPlace(inst, inst.status) => InPlace(inst, inst.status)'
    BY <1>a, <1>b, PlacedKept DEF InPlace, FitsSpec, SaysInstalled, Steady
  <2>3. CASE UpdateStatus
    <3>1. /\ server[key] \in Keda /\ server \in [Kedas -> Keda \cup {NoKeda}]
          /\ server' = [server EXCEPT ![key] = [server[key] EXCEPT !.status = inst.status]]
      BY <2>3, HeldType DEF UpdateStatus, Write, TypeInv, TypeOK, ClusterTypeOK
    <3>2. [server[key] EXCEPT !.status = inst.status].status = inst.status
      BY <3>1 DEF Keda
    <3> QED
      BY <1>b, <2>1, <2>2, <3>1, <3>2
  <2>4. CASE EmitEvent
    BY <2>1, <2>2, <2>4 DEF EmitEvent, clusterVars, crVars, PassFits, EndsWell, EndPcs
  <2> QED
    BY <2>3, <2>4
<1> QED
  BY <1>a, <1>1, <1>2 DEF PassFits, ManifestPlaced, AddonPlaced, InstallPcs, AddonPcs, DisablePcs,
     EndPcs

\* sFnApply is done, and sFnVerify finds KEDA ready.
LEMMA VerifyFits ==
  ASSUME TypeInv, PathFits, PassFits, ApplyDone \/ Verified
  PROVE  PassFits'
<1>a. /\ inst \in Keda /\ inst.status \in Statuses /\ todo \in Seq(Objs \cup AddonObjTypes)
      /\ pc \in {"Apply", "Verify"} /\ UNCHANGED clusterVars /\ UNCHANGED <<loopVars, cfgVars>>
  BY HeldType DEF ApplyDone, Verified, Keda, TypeInv, TypeOK, FsmTypeOK
<1>b. UNCHANGED <<cache, key>> /\ Steady
  BY <1>a DEF ApplyDone, Verified, Steady, clusterVars, crVars, heldVars, objVars, addonVars,
     cfgVars, loopVars
<1>c. FitsSpec(manifest, inst.spec.custom) /\ (Applied \/ (pc = "Apply" /\ failed))
  BY <1>a DEF PassFits, ManifestPlaced, InstallPcs
<1>d. Applied => Applied'
  BY <1>a, <1>b, PlacedKept
<1>1. CASE ApplyDone /\ failed
  <2>1. StopWith("none", UpdateStateFromErr(inst.status, "Installed", "ApplyObjError"))
    BY <1>1 DEF ApplyDone
  <2>2. /\ SameWishes /\ pc' = "UpdateStatus" /\ SaysFailed(inst.status)'
    BY <1>a, <1>b, <2>1, StopWishes, StatusFacts DEF SaysFailed
  <2>3. ~inst.del
    BY <1>1 DEF ApplyDone, PassFits, PathFits, InstallPcs
  <2> QED
    BY <2>2, <2>3 DEF PassFits, SameWishes, WantsAsCached, ManifestPlaced, AddonPlaced, EndsWell,
       InstallPcs, AddonPcs, DisablePcs
<1>2. CASE ApplyDone /\ ~failed
  <2>1. pc' = "Verify" /\ UNCHANGED <<inst, manifest>> /\ Applied'
    BY <1>2, <1>b, <1>c, <1>d DEF ApplyDone, SwitchState, Steady
  <2> QED
    BY <1>b, <1>c, <2>1 DEF PassFits, WantsAsCached, ManifestPlaced, AddonPlaced, EndsWell, FitsSpec,
       AddonPcs, DisablePcs, EndPcs
<1>3. CASE Verified
  <2>1. /\ inst'.spec = inst.spec /\ inst'.addon = inst.addon /\ inst'.del = inst.del
        /\ inst'.status = VerifiedStatus(inst.status) /\ UNCHANGED manifest
        /\ pc' = IF inst.addon.enabled THEN "EnsureNamespace" ELSE "GuardAddon"
    BY <1>3, <1>a DEF Verified, Keda, cfgVars
  <2>2. inst'.status.state = "Ready"
    BY <1>a, <2>1, StatusFacts
  <2>3. Applied'
    BY <1>3, <1>c, <1>d DEF Verified
  <2>4. FitsSpec(manifest, inst.spec.custom)'
    BY <1>c, <2>1 DEF FitsSpec
  <2>5. WantsAsCached'
    BY <1>b, <2>1 DEF PassFits, WantsAsCached
  <2> QED
    BY <2>1, <2>2, <2>3, <2>4, <2>5 DEF PassFits, ManifestPlaced, AddonPlaced, EndsWell, AddonPcs,
       DisablePcs, EndPcs
<1> QED
  BY <1>1, <1>2, <1>3

\* The pass and the installation path.
LEMMA InstallFits ==
  ASSUME TypeInv, PathFits, PassFits, InstallStep, pc # "Idle", pc' # "Idle"
  PROVE  PassFits'
<1>a. inst \in Keda
  BY HeldType
<1>b. ASSUME NEW out, out # "none", NEW st, StopWith(out, st), UNCHANGED <<cache, key>>
      PROVE  PassFits'
  BY <1>a, <1>b, StopOffPath
<1> USE DEF clusterVars, crVars, heldVars
<1>1. ASSUME NEW k \in Kedas, ReconcileNotFound(k) \/ Reconcile(k) PROVE FALSE
  BY <1>1 DEF ReconcileNotFound, Reconcile
<1>2. ~(UpdateStatusFails \/ Return \/ InitializeGone)
  BY DEF UpdateStatusFails, Return, InitializeGone, EndPass, DropPass
<1>3. CASE ServedFilter \/ AddFinalizer \/ AddFinalizerFails
  BY <1>3, <1>b DEF ServedFilter, AddFinalizer, AddFinalizerFails
<1>4. CASE ValidationFails \/ VerifyNotReady
  BY <1>4, <1>b DEF ValidationFails, VerifyNotReady
<1>5. CASE TakeSnapshot \/ InitializeDone
  BY <1>5, OffPath DEF TakeSnapshot, InitializeDone, SwitchState, SameWishes, InstallPcs, EndPcs
<1> QED
  BY <1>1, <1>2, <1>3, <1>4, <1>5, EndFits, VerifyFits, UpdateObjectsFits, ApplyFits DEF InstallStep

\* Every step of the add-on path leaves KEDA alone, may raise an event, and does not
\* count as tampering.
LEMMA AddonLeaves ==
  ASSUME TypeInv, TamperLeft, AddonStep
  PROVE  /\ pc \in AddonPcs \cup DisablePcs
         /\ UNCHANGED <<cache, key, cluster, manifest, addonVersion>>
         /\ objEvents \subseteq objEvents' /\ budget'["tamper"] = budget["tamper"]
<1>1. /\ pc \in AddonPcs \cup DisablePcs /\ AddonFrame
      /\ UNCHANGED budget \/ Spend("failure")
  <2>1. CASE EnsureNamespace \/ FetchOld \/ CleanupOld \/ FetchNew \/ ApplyAddonObj
    BY <2>1 DEF EnsureNamespace, FetchOld, CleanupOld, FetchNew, ApplyAddonObj, AddonPcs
  <2>2. CASE ApplyAddonDone \/ DropPeerAuthentication \/ PersistInstalled
    BY <2>2 DEF ApplyAddonDone, DropPeerAuthentication, PersistInstalled, PersistAnnotations, AddonPcs
  <2>3. CASE GuardAddon \/ DeleteAddonNothing \/ DeleteAddonFetch \/ DeleteAddonObj
    BY <2>3 DEF GuardAddon, DeleteAddonNothing, DeleteAddonFetch, DeleteAddonObj, DisablePcs
  <2>4. CASE DeleteAddonDone \/ PersistDeleted
    BY <2>4 DEF DeleteAddonDone, PersistDeleted, PersistAnnotations, DisablePcs
  <2> QED
    BY <2>1, <2>2, <2>3, <2>4 DEF AddonStep
<1>2. budget'["tamper"] = budget["tamper"]
  BY <1>1, SpendTamper DEF Interference
<1> QED
  BY <1>1, <1>2 DEF AddonFrame, AddonEvents, heldVars

\* Fetching puts everything that is wanted before the loop.
LEMMA FetchedAll ==
  ASSUME NEW a \in AddonTypes, NEW s,
         s = FetchAddonObjs(addonVersion, EffectiveNamespace(a), a.istio), addonVersion \in Versions
  PROVE  \A x \in WantedFor(a) : \E i \in 1 .. Len(s) : s[i] = x
<1>1. EffectiveNamespace(a) \in Namespaces /\ a.istio \in BOOLEAN
  BY AddonAssumption DEF EffectiveNamespace, AddonTypes
<1>2. s \in Seq(AddonObjTypes)
  BY <1>1, FetchType
<1>3. WantedFor(a) = {s[i] : i \in DOMAIN s} /\ DOMAIN s = 1 .. Len(s)
  BY <1>2 DEF WantedFor, Range
<1> QED
  BY <1>3

\* The loop of sFnApplyAddon.
LEMMA AddonLoopFits ==
  ASSUME TypeInv, TamperLeft, ApplyAddonObj, AddonThere(inst.addon)
  PROVE  AddonThere(inst.addon)' \/ failed'
<1>a. /\ pc = "ApplyAddonObjs" /\ pc' = pc /\ todo # <<>> /\ todo' = Tail(todo) /\ UNCHANGED inst
      /\ todo \in Seq(AddonObjTypes)
      /\ \/ failed'
         \/ addonObjs' = addonObjs \cup {Head(todo)}
  BY DEF ApplyAddonObj, TypeInv, TypeOK, FsmTypeOK, AddonLoops
<1>b. /\ UNCHANGED addonVersion /\ objEvents \subseteq objEvents'
      /\ budget'["tamper"] = budget["tamper"]
  BY AddonLeaves DEF AddonStep
<1>1. ASSUME NEW x, addonObjs' = addonObjs \cup {Head(todo)}, x \in addonObjs \/ InTodo(x)
      PROVE  x \in addonObjs' \/ InTodo(x)'
  <2>1. InTodo(x) => x = Head(todo) \/ \E j \in 1 .. Len(Tail(todo)) : Tail(todo)[j] = x
    BY <1>a, TailKeeps DEF InTodo
  <2> QED
    BY <1>1, <1>a, <2>1 DEF InTodo
<1>2. WantedFor(inst.addon)' = WantedFor(inst.addon)
  BY <1>a, <1>b DEF WantedFor
<1> QED
  BY <1>a, <1>b, <1>1, <1>2 DEF AddonThere

\* Without Istio there is no PeerAuthentication to miss.
LEMMA DropFits ==
  ASSUME TypeInv, TamperLeft, AddonThere(inst.addon), ~inst.addon.istio, inst \in Keda,
         DropPeerAuthentication, RemoveAddonObj(PeerAuthentication(TargetNS)), UNCHANGED inst
  PROVE  AddonThere(inst.addon)'
<1>1. /\ UNCHANGED addonVersion /\ objEvents \subseteq objEvents'
      /\ budget'["tamper"] = budget["tamper"]
  BY AddonLeaves DEF AddonStep
<1>2. addonObjs' = addonObjs \ {PeerAuthentication(TargetNS)}
  BY DEF RemoveAddonObj
<1>3. inst.addon.istio = FALSE
  BY DEF Keda, AddonTypes
<1>4. \A x \in WantedFor(inst.addon) : x # PeerAuthentication(TargetNS)
  BY <1>3, PlainManifest DEF WantedFor
<1>5. WantedFor(inst.addon)' = WantedFor(inst.addon) /\ pc = "DropPeerAuthentication"
  BY <1>1 DEF WantedFor, DropPeerAuthentication
<1> QED
  BY <1>1, <1>2, <1>4, <1>5 DEF AddonThere

\* The add-on path.
LEMMA AddonFits ==
  ASSUME TypeInv, PathFits, PassFits, TamperLeft, AddonStep
  PROVE  PassFits'
<1>a. /\ pc \in AddonPcs \cup DisablePcs
      /\ UNCHANGED <<cache, key, cluster, manifest, addonVersion>>
      /\ objEvents \subseteq objEvents' /\ budget'["tamper"] = budget["tamper"]
  BY AddonLeaves
<1>b. /\ inst \in Keda /\ inst.status \in Statuses /\ inst.addon \in AddonTypes
      /\ todo \in Seq(Objs \cup AddonObjTypes) /\ addonVersion \in Versions
  BY <1>a, HeldType DEF AddonPcs, DisablePcs, Keda, TypeInv, TypeOK, FsmTypeOK
<1>c. /\ inst.fin /\ ~inst.del /\ inst.status.state = "Ready"
      /\ pc \in AddonPcs => inst.addon.enabled
      /\ FitsSpec(manifest, inst.spec.custom) /\ Applied
  BY <1>a DEF PassFits, PathFits, ManifestPlaced, AddonPlaced, AddonPcs, DisablePcs, InstallPcs
<1>d. Applied' /\ manifest' = manifest
  BY <1>a, <1>b, <1>c, AppliedKept DEF AddonPcs, DisablePcs
<1>e. ASSUME SameWishes, inst'.fin = inst.fin, NEW s, NEW r,
             inst'.status = SetAddonCondition(inst.status, s, r), pc' = "UpdateStatus",
             r = "HTTPAddonInstalled" => AddonThere(inst.addon)'
      PROVE  PassFits'
  <2>1. WantsAsCached'
    BY <1>e DEF PassFits, WantsAsCached, SameWishes
  <2>2. inst'.status.state = "Ready" /\ inst'.status.conditions["AddonInstalled"].reason = r
    BY <1>b, <1>c, <1>e, StatusFacts
  <2>3. FitsSpec(manifest, inst.spec.custom)'
    BY <1>c, <1>d, <1>e DEF FitsSpec, SameWishes
  <2>4. InPlace(inst, inst.status)'
    BY <1>d, <1>e, <2>2, <2>3 DEF InPlace, SaysInstalled
  <2> QED
    BY <1>c, <1>e, <2>1, <2>4 DEF PassFits, ManifestPlaced, AddonPlaced, EndsWell, SameWishes,
       InstallPcs, AddonPcs, DisablePcs
<1>f. ASSUME NEW r, AddonStop(r), r # "HTTPAddonInstalled" PROVE PassFits'
  BY <1>a, <1>b, <1>e, <1>f, StopWishes DEF AddonStop
<1>g. ASSUME UNCHANGED inst, pc' \in AddonPcs \cup DisablePcs, pc' \in AddonPcs => pc \in AddonPcs,
             pc' \in {"ApplyAddonObjs", "DropPeerAuthentication", "PersistInstalled"}
               => AddonThere(inst.addon)' \/ (pc' = "ApplyAddonObjs" /\ failed'),
             pc' = "DropPeerAuthentication" => ~inst.addon.istio
      PROVE  PassFits'
  <2>1. WantsAsCached' /\ FitsSpec(manifest, inst.spec.custom)'
    BY <1>a, <1>c, <1>g DEF PassFits, WantsAsCached, FitsSpec
  <2>2. AddonPlaced'
    BY <1>c, <1>g DEF AddonPlaced
  <2> QED
    BY <1>d, <1>g, <2>1, <2>2 DEF PassFits, ManifestPlaced, EndsWell, EndPcs, AddonPcs, DisablePcs
<1>h. ASSUME NEW next \in (AddonPcs \cup DisablePcs)
                     \ {"ApplyAddonObjs", "DropPeerAuthentication", "PersistInstalled"},
             SwitchState(next), next \in AddonPcs => pc \in AddonPcs
      PROVE  PassFits'
  BY <1>g, <1>h DEF SwitchState
<1>i. pc \in {"ApplyAddonObjs", "DropPeerAuthentication", "PersistInstalled"}
        => AddonThere(inst.addon) \/ (pc = "ApplyAddonObjs" /\ failed)
  BY DEF PassFits, AddonPlaced
<1>j. ASSUME NEW installed, NEW s, NEW r, PersistAnnotations(installed, s, r),
             r = "HTTPAddonInstalled" => AddonThere(inst.addon)'
      PROVE  PassFits'
  <2>1. /\ SameWishes /\ inst'.fin = inst.fin /\ pc' = "UpdateStatus"
        /\ inst'.status = SetAddonCondition(inst.status, s, r)
    BY <1>a, <1>b, <1>j DEF PersistAnnotations, SameWishes, Keda
  <2> QED
    BY <1>e, <1>j, <2>1
<1>1. CASE EnsureNamespace \/ FetchOld \/ CleanupOld
  BY <1>1, <1>f, <1>h DEF EnsureNamespace, FetchOld, CleanupOld, AddonPcs, DisablePcs
<1>2. CASE FetchNew
  <2>1. CASE todo' = FetchAddonObjs(addonVersion, TargetNS, inst.addon.istio)
             /\ SwitchState("ApplyAddonObjs")
    <3>1. \A x \in WantedFor(inst.addon) : \E i \in 1 .. Len(todo') : todo'[i] = x
      BY <1>b, <2>1, FetchedAll DEF TargetNS
    <3>2. WantedFor(inst.addon)' = WantedFor(inst.addon) /\ pc' = "ApplyAddonObjs" /\ UNCHANGED inst
      BY <1>a, <2>1 DEF WantedFor, SwitchState
    <3>3. AddonThere(inst.addon)'
      BY <1>2, <1>c, <3>1, <3>2 DEF AddonThere, InTodo, FetchNew, AddonPcs
    <3> QED
      BY <1>2, <1>g, <3>2, <3>3 DEF FetchNew, AddonPcs
  <2> QED
    BY <1>2, <1>f, <2>1 DEF FetchNew
<1>3. CASE ApplyAddonObj
  <2>1. pc = "ApplyAddonObjs" /\ pc' = pc /\ UNCHANGED inst /\ (failed => failed')
    BY <1>3 DEF ApplyAddonObj
  <2>2. AddonThere(inst.addon)' \/ failed'
    BY <1>3, <1>i, <2>1, AddonLoopFits
  <2> QED
    BY <1>g, <2>1, <2>2 DEF AddonPcs
<1>4. CASE ApplyAddonDone
  <2>1. CASE failed
    BY <1>4, <1>f, <2>1 DEF ApplyAddonDone
  <2>2. CASE ~failed
    <3>1. /\ UNCHANGED inst /\ pc = "ApplyAddonObjs" /\ todo = <<>> /\ UNCHANGED addonObjs
          /\ pc' = IF inst.addon.istio THEN "PersistInstalled" ELSE "DropPeerAuthentication"
      BY <1>4, <2>2 DEF ApplyAddonDone, SwitchState, addonVars
    <3>2. AddonThere(inst.addon)
      BY <1>i, <2>2, <3>1
    <3>3. AddonThere(inst.addon)'
      BY <1>a, <1>b, <3>1, <3>2, ThereKept
    <3> QED
      BY <1>g, <3>1, <3>3 DEF AddonPcs
  <2> QED
    BY <2>1, <2>2
<1>5. CASE DropPeerAuthentication
  <2>1. CASE RemoveAddonObj(PeerAuthentication(TargetNS)) /\ SwitchState("PersistInstalled")
    <3>1. pc = "DropPeerAuthentication" /\ UNCHANGED inst /\ pc' = "PersistInstalled"
      BY <1>5, <2>1 DEF DropPeerAuthentication, SwitchState
    <3>2. AddonThere(inst.addon) /\ ~inst.addon.istio
      BY <1>i, <3>1 DEF PassFits, AddonPlaced
    <3>3. AddonThere(inst.addon)'
      BY <1>5, <1>b, <2>1, <3>1, <3>2, DropFits
    <3> QED
      BY <1>g, <3>1, <3>3 DEF AddonPcs
  <2> QED
    BY <1>5, <1>f, <2>1 DEF DropPeerAuthentication
<1>6. CASE PersistInstalled
  <2>1. pc = "PersistInstalled" /\ UNCHANGED addonObjs /\ inst'.addon = inst.addon
    BY <1>6, <1>b DEF PersistInstalled, PersistAnnotations, addonVars, Keda
  <2>2. AddonThere(inst.addon)'
    <3>1. AddonThere(inst.addon)
      BY <1>i, <2>1
    <3> QED
      BY <1>a, <2>1, <3>1 DEF AddonThere, WantedFor
  <2> QED
    BY <1>6, <1>j, <2>2 DEF PersistInstalled
<1>7. CASE GuardAddon
  <2>1. CASE AddonInUse
    BY <2>1, <1>a, <1>b, StopOffPath DEF AddonInUse
  <2> QED
    BY <1>7, <1>h, <2>1 DEF GuardAddon, AddonPcs, DisablePcs
<1>8. CASE DeleteAddonNothing \/ DeleteAddonFetch
  BY <1>8, <1>f, <1>h DEF DeleteAddonNothing, DeleteAddonFetch, AddonPcs, DisablePcs
<1>9. CASE DeleteAddonObj
  BY <1>9, <1>g DEF DeleteAddonObj, AddonPcs, DisablePcs
<1>10. CASE DeleteAddonDone
  BY <1>10, <1>f, <1>h DEF DeleteAddonDone, AddonPcs, DisablePcs
<1>11. CASE PersistDeleted
  <2>1. PICK none : PersistAnnotations(none, "False", "HTTPAddonDeleted")
    BY <1>11 DEF PersistDeleted
  <2>2. "HTTPAddonDeleted" # "HTTPAddonInstalled"
    OBVIOUS
  <2> QED
    BY <1>j, <2>1, <2>2
<1> QED
  BY <1>1, <1>2, <1>3, <1>4, <1>5, <1>6, <1>7, <1>8, <1>9, <1>10, <1>11 DEF AddonStep

\* The deletion path: no pass on it ends for good before the finalizer is off.
LEMMA DeleteFits ==
  ASSUME TypeInv, PassFits, DeleteStep, pc' # "Idle"
  PROVE  PassFits'
<1> USE DEF clusterVars, crVars, heldVars
<1>a. inst \in Keda
  <2>1. pc # "Idle"
    BY DEF DeleteStep, DeleteResources, CheckCrd, CheckCrdBlocks, DeleteAddonLeftovers, DeleteObj,
       DeleteObjFails, DeleteDone, RemoveFinalizer, RemoveFinalizerFails
  <2> QED
    BY <2>1, HeldType
<1>b. ASSUME NEW st, NEW out \in {"error", "requeue"}, StopWith(out, st), UNCHANGED <<cache, key>>
      PROVE  PassFits'
  BY <1>a, <1>b, StopOffPath
<1>c. ASSUME NEW next \in DeletePcs, SwitchState(next), UNCHANGED <<cache, key>>
      PROVE  PassFits'
  BY <1>c, OffPath DEF SwitchState, SameWishes, DeletePcs, InstallPcs, EndPcs
<1>1. CASE DeleteResources
  BY <1>1, <1>b, <1>c DEF DeleteResources, DeletionStop, DeletePcs
<1>2. CASE CheckCrd \/ DeleteObj \/ DeleteObjFails
  BY <1>2, OffPath DEF CheckCrd, CheckFrame, DeleteObj, DeleteObjFails, SameWishes, InstallPcs, EndPcs
<1>3. CASE CheckCrdBlocks
  BY <1>3, <1>b DEF CheckCrdBlocks, CheckFrame, DeletionStop
<1>4. CASE DeleteAddonLeftovers
  BY <1>4, <1>b, <1>c DEF DeleteAddonLeftovers, DeletionStop, DeletePcs
<1>5. CASE DeleteDone
  BY <1>5, <1>b, <1>c DEF DeleteDone, DeletionStop, DeletePcs
<1>6. ~(RemoveFinalizer \/ RemoveFinalizerFails)
  BY DEF RemoveFinalizer, RemoveFinalizerFails, EndPass, DropPass
<1> QED
  BY <1>1, <1>2, <1>3, <1>4, <1>5, <1>6 DEF DeleteStep

\* Within a pass.
LEMMA PassGoesOn ==
  ASSUME TypeInv, TypeInv', PathFits, CopyAgrees, PassInv, TamperLeft, WorkerStep,
         pc # "Idle", pc' # "Idle"
  PROVE  PassInv' /\ RestInv'
<1>1. UNCHANGED <<key, queue>>
  <2>1. CASE InstallStep
    <3> USE DEF clusterVars, crVars, heldVars
    <3>1. CASE UpdateStatus \/ EmitEvent \/ ServedFilter \/ TakeSnapshot \/ AddFinalizer
      BY <3>1 DEF UpdateStatus, EmitEvent, ServedFilter, TakeSnapshot, AddFinalizer
    <3>2. CASE AddFinalizerFails \/ InitializeDone \/ ValidationFails \/ UpdateObjects
      BY <3>2 DEF AddFinalizerFails, InitializeDone, ValidationFails, UpdateObjects
    <3>3. CASE ApplyObject \/ ApplyObjectFails \/ ApplyDone \/ VerifyNotReady \/ Verified
      BY <3>3 DEF ApplyObject, ApplyObjectFails, ApplyDone, VerifyNotReady, Verified
    <3>4. ~(UpdateStatusFails \/ Return \/ InitializeGone)
      BY DEF UpdateStatusFails, Return, InitializeGone, EndPass, DropPass
    <3>5. ASSUME NEW k \in Kedas, ReconcileNotFound(k) \/ Reconcile(k) PROVE FALSE
      BY <3>5 DEF ReconcileNotFound, Reconcile
    <3> QED
      BY <2>1, <3>1, <3>2, <3>3, <3>4, <3>5 DEF InstallStep
  <2>2. CASE AddonStep
    <3>1. AddonFrame
      BY <2>2 DEF AddonStep, EnsureNamespace, FetchOld, CleanupOld, FetchNew, ApplyAddonObj,
         ApplyAddonDone, DropPeerAuthentication, PersistInstalled, GuardAddon,
         DeleteAddonNothing, DeleteAddonFetch, DeleteAddonObj, DeleteAddonDone, PersistDeleted
    <3> QED
      BY <3>1 DEF AddonFrame, heldVars
  <2>3. CASE DeleteStep
    <3>1. ~(RemoveFinalizer \/ RemoveFinalizerFails)
      BY DEF RemoveFinalizer, RemoveFinalizerFails, EndPass, DropPass
    <3> QED
      BY <2>3, <3>1 DEF DeleteStep, DeleteResources, CheckCrd, CheckCrdBlocks, CheckFrame,
         DeleteAddonLeftovers, DeleteObj, DeleteObjFails, DeleteDone, clusterVars, crVars, heldVars
  <2> QED
    BY <2>1, <2>2, <2>3 DEF WorkerStep
<1>2. PassFits => PassFits'
  BY InstallFits, AddonFits, DeleteFits DEF WorkerStep
<1>3. PassInv'
  BY <1>1, <1>2 DEF PassInv
<1>4. RestInv'
  BY DEF RestInv
<1> QED
  BY <1>3, <1>4

-----------------------------------------------------------------------------
(* The worker, from pass to pass.                                          *)

\* A pass starts from the cached CR.
LEMMA PassStarts ==
  ASSUME NEW k \in Kedas, Reconcile(k)
  PROVE  PassInv' /\ RestInv'
<1>1. /\ cache' = cache /\ key' = k /\ inst' = cache[k] /\ cache[k] # NoKeda
      /\ pc' = "ServedFilter"
  BY DEF Reconcile
<1> QED
  BY <1>1 DEF PassInv, RestInv, PassFits, WantsAsCached, ManifestPlaced, AddonPlaced, EndsWell,
     InstallPcs, AddonPcs, DisablePcs, EndPcs

\* A pass that went through leaves its CR at rest.
LEMMA ReturnRests ==
  ASSUME TypeInv, CopyHeld, PassFits, Return, outcome = "none",
         NEW k \in Kedas, k = key, server[k] # NoKeda
  PROVE  /\ ~cache'[k].del
         /\ \/ SaysFailed(server'[k].status)
            \/ server'[k].fin /\ InPlace(cache[k], server[k].status)'
<1>a. /\ pc = "Return" /\ pc' = "Idle" /\ inst \in Keda
      /\ UNCHANGED <<server, cache, cluster, addonObjs, objEvents, budget, manifest, addonVersion>>
      /\ todo \in Seq(Objs \cup AddonObjTypes)
  BY HeldType DEF Return, EndPass, DropPass, objVars, addonVars, TypeInv, TypeOK, FsmTypeOK
<1>1. /\ ~inst.del /\ server[k].status = inst.status
      /\ SaysFailed(inst.status) \/ (inst.fin /\ InPlace(inst, inst.status))
  BY <1>a DEF PassFits, EndsWell, EndPcs
<1>2. ~cache[k].del /\ inst.addon = cache[k].addon
  BY <1>1 DEF PassFits, WantsAsCached
<1>3. ASSUME inst.fin, InPlace(inst, inst.status)
      PROVE  server[k].fin /\ InPlace(cache[k], server[k].status)'
  <2>1. server[k].fin
    BY <1>3, <1>1, <1>a DEF CopyHeld, Held
  <2>2. FitsSpec(manifest, cache[k].spec.custom)
    BY <1>3, <1>a, FitsCached DEF PassFits, InPlace
  <2>3. \A a : (Applied => Applied') /\ (AddonThere(a) => AddonThere(a)')
    <3>1. Steady
      BY <1>a DEF Steady
    <3> QED
      BY <1>a, <3>1, PlacedKept
  <2>4. AddonThere(inst.addon) => AddonThere(cache[k].addon)'
    <3>1. AddonThere(inst.addon) => AddonThere(cache[k].addon)
      BY <1>2
    <3>2. AddonThere(cache[k].addon) => AddonThere(cache[k].addon)'
      BY <1>a DEF AddonThere, WantedFor
    <3> QED
      BY <3>1, <3>2
  <2>5. FitsSpec(manifest, cache[k].spec.custom)' /\ Applied' /\ server'[k].status = inst.status
    BY <1>1, <1>3, <1>a, <2>2, <2>3 DEF InPlace, FitsSpec
  <2> QED
    BY <1>3, <1>1, <1>a, <2>1, <2>4, <2>5 DEF InPlace, SaysInstalled
<1> QED
  BY <1>a, <1>1, <1>2, <1>3

\* The end of a pass.
LEMMA PassEnds ==
  ASSUME TypeInv, CopyHeld, PathFits, DeletionInv, PassInv, \A i, j \in Kedas : i = j, WorkerStep,
         pc # "Idle", pc' = "Idle"
  PROVE  PassInv' /\ RestInv'
<1>a. key \in Kedas /\ inst \in Keda
  BY HeldType
<1>b. UpdateStatusFails \/ Return \/ InitializeGone \/ RemoveFinalizer \/ RemoveFinalizerFails
  <2>1. CASE InstallStep
    <3>1. ~(\/ UpdateStatus \/ EmitEvent \/ ServedFilter \/ TakeSnapshot \/ AddFinalizer
            \/ AddFinalizerFails)
      BY DEF UpdateStatus, EmitEvent, ServedFilter, TakeSnapshot, AddFinalizer, AddFinalizerFails,
         SwitchState, StopWith
    <3>2. ~(\/ InitializeDone \/ ValidationFails \/ UpdateObjects \/ ApplyObject \/ ApplyObjectFails
            \/ ApplyDone \/ VerifyNotReady \/ Verified)
      BY DEF InitializeDone, ValidationFails, UpdateObjects, ApplyObject, ApplyObjectFails,
         ApplyDone, VerifyNotReady, Verified, SwitchState, StopWith
    <3>3. ASSUME NEW k \in Kedas, ReconcileNotFound(k) \/ Reconcile(k) PROVE FALSE
      BY <3>3 DEF ReconcileNotFound, Reconcile
    <3> QED
      BY <2>1, <3>1, <3>2, <3>3 DEF InstallStep
  <2>2. ~AddonStep
    <3>1. ~(\/ EnsureNamespace \/ FetchOld \/ CleanupOld \/ FetchNew \/ ApplyAddonObj \/ ApplyAddonDone
            \/ DropPeerAuthentication \/ PersistInstalled)
      BY DEF EnsureNamespace, FetchOld, CleanupOld, FetchNew, ApplyAddonObj, ApplyAddonDone,
         DropPeerAuthentication, PersistInstalled, PersistAnnotations, AddonStop, SwitchState, StopWith
    <3>2. ~(\/ GuardAddon \/ DeleteAddonNothing \/ DeleteAddonFetch \/ DeleteAddonObj
            \/ DeleteAddonDone \/ PersistDeleted)
      BY DEF GuardAddon, DeleteAddonNothing, DeleteAddonFetch, DeleteAddonObj, DeleteAddonDone,
         PersistDeleted, PersistAnnotations, AddonInUse, AddonStop, SwitchState, StopWith
    <3> QED
      BY <3>1, <3>2 DEF AddonStep
  <2>3. CASE DeleteStep
    <3>1. ~(\/ DeleteResources \/ CheckCrd \/ CheckCrdBlocks \/ DeleteAddonLeftovers \/ DeleteObj
            \/ DeleteObjFails \/ DeleteDone)
      BY DEF DeleteResources, CheckCrd, CheckCrdBlocks, DeleteAddonLeftovers, DeleteObj,
         DeleteObjFails, DeleteDone, DeletionStop, SwitchState, StopWith
    <3> QED
      BY <2>3, <3>1 DEF DeleteStep
  <2> QED
    BY <2>1, <2>2, <2>3 DEF WorkerStep
<1>c. PassInv'
  BY DEF PassInv
<1> SUFFICES ASSUME NEW k \in Kedas, k \notin queue', cache'[k] # NoKeda, server'[k] # NoKeda
             PROVE  IF cache'[k].del THEN ~server'[k].fin
                    ELSE \/ SaysFailed(server'[k].status)
                         \/ server'[k].fin /\ InPlace(cache[k], server[k].status)'
  BY <1>c DEF RestInv
<1>d. k = key /\ queue \subseteq queue'
  BY <1>a, <1>b DEF UpdateStatusFails, Return, InitializeGone, RemoveFinalizer,
     RemoveFinalizerFails, EndPass
<1>e. PassFits
  BY <1>d DEF PassInv
<1>1. ASSUME NEW out, EndPass(out) PROVE out = "none"
  BY <1>1, <1>d DEF EndPass
<1>2. ~UpdateStatusFails
  BY <1>1 DEF UpdateStatusFails
<1>3. CASE Return
  <2>1. outcome = "none" /\ server[k] # NoKeda
    BY <1>1, <1>3 DEF Return
  <2> QED
    BY <1>3, <1>d, <1>e, <2>1, ReturnRests
<1>4. CASE InitializeGone
  <2>1. UNCHANGED <<server, cache>> /\ inst.del /\ ~inst.fin
    BY <1>4 DEF InitializeGone
  <2>2. ~server[k].fin /\ cache[k].del
    BY <1>d, <1>e, <2>1 DEF DeletionInv, Held, PassFits, WantsAsCached
  <2> QED
    BY <2>1, <2>2
<1>5. CASE RemoveFinalizer
  <2> DEFINE cr == [[inst EXCEPT !.fin = FALSE] EXCEPT !.status = server[key].status]
  <2>1. /\ server' = [server EXCEPT ![key] = Stored(cr)] /\ cache' = cache
        /\ server \in [Kedas -> Keda \cup {NoKeda}] /\ inst.del
    BY <1>5 DEF RemoveFinalizer, Update, Write, PathFits, DeletePcs, TypeInv, TypeOK, ClusterTypeOK
  <2>2. ~cr.fin
    BY <1>a DEF Keda
  <2> HIDE DEF cr
  <2>3. ~server'[k].fin
    BY <1>a, <1>d, <2>1, <2>2 DEF Stored
  <2> QED
    BY <1>d, <1>e, <2>1, <2>3 DEF PassFits, WantsAsCached
<1>6. ~RemoveFinalizerFails
  <2>1. ASSUME RemoveFinalizerFails PROVE server[key] = NoKeda /\ server' = server
    BY <1>1, <2>1 DEF RemoveFinalizerFails
  <2> QED
    BY <1>d, <2>1
<1> QED
  BY <1>b, <1>2, <1>3, <1>4, <1>5, <1>6

\* All interference is paid for.
LEMMA BudgetSpent ==
  ASSUME [Next]_vars
  PROVE  UNCHANGED budget \/ \E what \in Interference : Spend(what)
<1> USE DEF vars, clusterVars, Interference
<1>1. CASE InstallStep
  BY <1>1 DEF InstallStep, ReconcileNotFound, Reconcile, UpdateStatus, UpdateStatusFails, EmitEvent,
     Return, ServedFilter, TakeSnapshot, AddFinalizer, AddFinalizerFails, InitializeGone,
     InitializeDone, ValidationFails, UpdateObjects, ApplyObject, ApplyObjectFails, ApplyDone,
     VerifyNotReady, Verified
<1>2. CASE AddonStep
  BY <1>2 DEF AddonStep, EnsureNamespace, FetchOld, CleanupOld, FetchNew, ApplyAddonObj,
     ApplyAddonDone, DropPeerAuthentication, PersistInstalled, PersistAnnotations, GuardAddon,
     DeleteAddonNothing, DeleteAddonFetch, DeleteAddonObj, DeleteAddonDone, PersistDeleted
<1>3. CASE DeleteStep
  BY <1>3 DEF DeleteStep, DeleteResources, CheckCrd, CheckCrdBlocks, DeleteAddonLeftovers,
     DeleteObj, DeleteObjFails, DeleteDone, RemoveFinalizer, RemoveFinalizerFails
<1>4. ASSUME NEW k, \/ CreateKeda(k) \/ EditSpec(k) \/ EditAddon(k) \/ DeleteKeda(k)
                    \/ DropExtFinalizer(k)
      PROVE  Spend("edit")
  BY <1>4 DEF CreateKeda, EditSpec, EditAddon, DeleteKeda, DropExtFinalizer, UserWrite
<1>5. ASSUME NEW o, \/ CacheSync(o) \/ MapFunction(o) \/ DeploymentReady(o) \/ Tamper(o)
                    \/ TamperAddon(o) \/ DeploymentDegrades(o) \/ AcquireLease
                    \/ CreateScaled(o) \/ DeleteScaled(o) \/ CreateHso \/ DeleteHso
      PROVE  UNCHANGED budget \/ \E what \in Interference : Spend(what)
  BY <1>5 DEF CacheSync, MapFunction, DeploymentReady, Tamper, TamperAddon, DeploymentDegrades,
     AcquireLease, CreateScaled, DeleteScaled, CreateHso, DeleteHso
<1>6. CASE Restart
  BY <1>6 DEF Restart
<1> QED
  BY <1>1, <1>2, <1>3, <1>4, <1>5, <1>6 DEF Next, WorkerStep, SystemStep, OutsideStep

\* An idle worker starts a pass or finds nothing.
LEMMA IdleStarts ==
  ASSUME WorkerStep, pc = "Idle"
  PROVE  (\E k \in Kedas : Reconcile(k)) \/ UNCHANGED vars
<1>1. ~AddonStep
  BY DEF AddonStep, EnsureNamespace, FetchOld, CleanupOld, FetchNew, ApplyAddonObj,
     ApplyAddonDone, DropPeerAuthentication, PersistInstalled, GuardAddon,
     DeleteAddonNothing, DeleteAddonFetch, DeleteAddonObj, DeleteAddonDone, PersistDeleted
<1>2. ~DeleteStep
  BY DEF DeleteStep, DeleteResources, CheckCrd, CheckCrdBlocks, DeleteAddonLeftovers,
     DeleteObj, DeleteObjFails, DeleteDone, RemoveFinalizer, RemoveFinalizerFails
<1>3. InstallStep => \E k \in Kedas : ReconcileNotFound(k) \/ Reconcile(k)
  BY DEF InstallStep, UpdateStatus, UpdateStatusFails, EmitEvent, Return, ServedFilter,
     TakeSnapshot, AddFinalizer, AddFinalizerFails, InitializeGone, InitializeDone,
     ValidationFails, UpdateObjects, ApplyObject, ApplyObjectFails, ApplyDone, VerifyNotReady,
     Verified
<1> QED
  BY <1>1, <1>2, <1>3 DEF WorkerStep, ReconcileNotFound, vars

\* A step that changes nothing.
LEMMA UnchangedSettled ==
  ASSUME UNCHANGED vars, PassInv, RestInv
  PROVE  PassInv' /\ RestInv'
<1>1. /\ UNCHANGED <<server, cache, queue, key, cluster, objEvents, addonObjs, budget>>
      /\ UNCHANGED <<pc, inst, outcome, todo, failed, manifest, addonVersion>>
  BY DEF vars, clusterVars, crVars, heldVars, objVars, addonVars, fsmVars, loopVars, cfgVars
<1>2. Applied' = Applied /\ \A a : AddonThere(a)' = AddonThere(a)
  BY <1>1 DEF Applied, Desired, AddonThere, WantedFor, InTodo
<1>3. /\ InPlace(inst, inst.status)' = InPlace(inst, inst.status)
      /\ \A k \in Kedas : InPlace(cache[k], server[k].status)' = InPlace(cache[k], server[k].status)
      /\ AddonThere(inst.addon)' = AddonThere(inst.addon)
  BY <1>1 DEF InPlace, FitsSpec, SaysInstalled, Applied, Desired, AddonThere, WantedFor, InTodo
<1>4. PassFits => PassFits'
  BY <1>1, <1>2, <1>3 DEF PassFits, WantsAsCached, ManifestPlaced, AddonPlaced, EndsWell, FitsSpec
<1> QED
  BY <1>1, <1>3, <1>4 DEF PassInv, RestInv

\* Every step keeps SettledInv.
LEMMA SettledInvStep ==
  ASSUME TypeInv, TypeInv', CopyAgrees, FinalizerInv, DeletionInv, SettledInv,
         \A i, j \in Kedas : i = j, [Next]_vars
  PROVE  SettledInv'
<1> USE DEF SettledInv, FinalizerInv
<1>1. TamperLeft'
  <2>1. UNCHANGED budget \/ \E what \in Interference : Spend(what)
    BY BudgetSpent
  <2> QED
    BY <2>1, SpendTamper DEF TamperLeft
<1>2. CASE WorkerStep
  <2>1. ASSUME pc = "Idle" PROVE PassInv' /\ RestInv'
    <3>1. \/ \E k \in Kedas : Reconcile(k)
          \/ UNCHANGED vars
      BY <1>2, <2>1, IdleStarts
    <3> QED
      BY <3>1, PassStarts, UnchangedSettled
  <2> QED
    BY <1>1, <1>2, <2>1, PassGoesOn, PassEnds
<1>3. CASE OutsideStep \/ SystemStep
  BY <1>1, <1>3, OutsideSettled
<1>4. CASE Restart
  <2>1. /\ cache' = server /\ server' = server /\ queue' = Present(server) /\ pc' = "Idle"
    BY <1>4 DEF Restart, DropPass
  <2> QED
    BY <1>1, <2>1 DEF PassInv, RestInv, Present
<1>5. CASE UNCHANGED vars
  BY <1>1, <1>5, UnchangedSettled
<1> QED
  BY <1>1, <1>2, <1>3, <1>4, <1>5 DEF Next

-----------------------------------------------------------------------------
(* A CR that is released does not say Ready.                               *)

\* Ready is said of a CR with the finalizer, and no more once its deletion is on record.
StatusFits(cr) ==
  /\ cr.status.state = "Ready" => cr.fin
  /\ IsKedaDeleting(cr.status) => cr.del /\ cr.status.state # "Ready"

\* Up to here a pass has not touched the status of its copy.
EarlyPcs == {"ServedFilter", "Initialize"} \cup DeletePcs

StoresFit ==
  \A k \in Kedas : /\ server[k] # NoKeda => StatusFits(server[k])
                   /\ cache[k] # NoKeda => StatusFits(cache[k])
CopyFits ==
  /\ pc # "Idle" => StatusFits(inst)
  /\ fresh /\ inst.fin => server[key].fin
  /\ fresh /\ pc \in EarlyPcs => server[key].status = inst.status
  /\ pc \in DeletePcs \ {"DeleteResources"} => IsKedaDeleting(inst.status)

ReadyInv == StoresFit /\ CopyFits

\* What a step of a pass does to the status of its copy.
StatusMoves ==
  /\ inst'.status.state = "Ready" => inst.status.state = "Ready" \/ pc = "Verify"
  /\ IsKedaDeleting(inst'.status) =>
       IsKedaDeleting(inst.status) \/ (pc \in DeletePcs /\ inst'.status.state # "Ready")
  /\ pc' \in EarlyPcs => pc \in EarlyPcs /\ UNCHANGED <<inst, server>>
  /\ pc' \in DeletePcs \ {"DeleteResources"} =>
       pc \in DeletePcs \ {"DeleteResources"} \/ IsKedaDeleting(inst.status)

\* What the helpers do to the state and to the condition of the deletion.
LEMMA HelperFacts ==
  ASSUME NEW st \in Statuses
  PROVE  /\ \A x, t, s, r : t \in CondTypes =>
              /\ WithState(st, x, t, s, r).state = x
              /\ t # "Deleted" =>
                   WithState(st, x, t, s, r).conditions["Deleted"] = st.conditions["Deleted"]
         /\ \A s, r : /\ SetAddonCondition(st, s, r).state = st.state
                      /\ SetAddonCondition(st, s, r).conditions["Deleted"] = st.conditions["Deleted"]
         /\ \A m : /\ UpdateServed(st, m).state = st.state
                   /\ UpdateServed(st, m).conditions = st.conditions
         /\ VerifiedStatus(st).conditions["Deleted"] = st.conditions["Deleted"]
<1>1. \A x, t, s, r : t \in CondTypes =>
        /\ WithState(st, x, t, s, r).state = x
        /\ t # "Deleted" =>
             WithState(st, x, t, s, r).conditions["Deleted"] = st.conditions["Deleted"]
  BY DEF WithState, SetCondition, Statuses, CondTypes
<1>2. \A s, r : /\ SetAddonCondition(st, s, r).state = st.state
                /\ SetAddonCondition(st, s, r).conditions["Deleted"] = st.conditions["Deleted"]
  BY DEF SetAddonCondition, SetCondition, Statuses, CondTypes
<1>3. \A m : /\ UpdateServed(st, m).state = st.state
             /\ UpdateServed(st, m).conditions = st.conditions
  BY DEF UpdateServed, Statuses
<1>4. VerifiedStatus(st).conditions["Deleted"] = st.conditions["Deleted"]
  BY DEF VerifiedStatus, UpdateStateReady, RemoveCondition, WithState, SetCondition, Statuses, CondTypes
<1> QED
  BY <1>1, <1>2, <1>3, <1>4

\* The pass and the installation path.
LEMMA InstallMoves ==
  ASSUME TypeInv, InstallStep, pc # "Idle", pc' # "Idle"
  PROVE  StatusMoves
<1> USE DEF EarlyPcs, DeletePcs, IsKedaDeleting
<1>a. inst \in Keda /\ inst.status \in Statuses
  BY HeldType DEF Keda
<1>b. ASSUME NEW out, NEW st, StopWith(out, st),
             st.state = "Ready" => inst.status.state = "Ready",
             st.conditions["Deleted"] = inst.status.conditions["Deleted"]
      PROVE  StatusMoves
  <2>1. inst'.status = st /\ pc' = "UpdateStatus"
    BY <1>a, <1>b DEF StopWith, Keda
  <2> QED
    BY <1>b, <2>1 DEF StatusMoves
<1>c. ASSUME NEW out, NEW x, x # "Ready", NEW t \in CondTypes \ {"Deleted"}, NEW s, NEW r,
             StopWith(out, WithState(inst.status, x, t, s, r))
      PROVE  StatusMoves
  BY <1>a, <1>b, <1>c, HelperFacts
<1>d. "Installed" \in CondTypes \ {"Deleted"} /\ "DeploymentFailure" \in CondTypes \ {"Deleted"}
  BY DEF CondTypes
<1>1. ASSUME NEW k \in Kedas, ReconcileNotFound(k) \/ Reconcile(k) PROVE FALSE
  BY <1>1 DEF ReconcileNotFound, Reconcile
<1>2. ~(UpdateStatusFails \/ Return \/ InitializeGone)
  BY DEF UpdateStatusFails, Return, InitializeGone, EndPass, DropPass
<1>3. CASE UpdateStatus \/ EmitEvent \/ ApplyObject \/ ApplyObjectFails
  BY <1>3 DEF UpdateStatus, EmitEvent, ApplyObject, ApplyObjectFails, SwitchState, StatusMoves
<1>4. CASE ServedFilter
  <2>1. CASE StopWith("requeue", FilteredStatus(inst.status))
    <3>1. \A m : UpdateServed(inst.status, m).conditions = inst.status.conditions
                 /\ UpdateServed(inst.status, m).state = inst.status.state
      BY <1>a, HelperFacts
    <3>2. UpdateServed(inst.status, "False") \in Statuses
      BY <1>a DEF UpdateServed, Statuses, ServedMarks
    <3>3. /\ FilteredStatus(inst.status).conditions["Deleted"] = inst.status.conditions["Deleted"]
          /\ FilteredStatus(inst.status).state = "Ready" => inst.status.state = "Ready"
      BY <1>d, <3>1, <3>2, HelperFacts DEF FilteredStatus, UpdateStateFromErr
    <3> QED
      BY <1>b, <2>1, <3>3
  <2> QED
    BY <1>4, <1>b, <2>1 DEF ServedFilter
<1>5. CASE TakeSnapshot \/ InitializeDone
  BY <1>5 DEF TakeSnapshot, InitializeDone, SwitchState, StatusMoves, clusterVars, crVars
<1>6. CASE AddFinalizer
  BY <1>6, <1>c, <1>d DEF AddFinalizer, UpdateStateProcessing
<1>7. CASE AddFinalizerFails
  BY <1>7, <1>b DEF AddFinalizerFails
<1>8. CASE ValidationFails
  BY <1>8, <1>c, <1>d DEF ValidationFails, UpdateStateFromErr
<1>9. CASE UpdateObjects
  <2>1. inst'.status = inst.status /\ pc' = "Apply"
    BY <1>9, <1>a DEF UpdateObjects, Keda
  <2> QED
    BY <2>1 DEF StatusMoves
<1>10. CASE ApplyDone
  <2>1. CASE failed
    BY <1>10, <1>c, <1>d, <2>1 DEF ApplyDone, UpdateStateFromErr
  <2>2. CASE ~failed
    BY <1>10, <2>2 DEF ApplyDone, SwitchState, StatusMoves
  <2> QED
    BY <2>1, <2>2
<1>11. CASE VerifyNotReady
  BY <1>11, <1>c, <1>d DEF VerifyNotReady, UpdateStateReplicaFailure, UpdateStateProcessing
<1>12. CASE Verified
  <2>1. /\ inst'.status = VerifiedStatus(inst.status) /\ pc = "Verify"
        /\ pc' \in {"EnsureNamespace", "GuardAddon"}
    BY <1>12, <1>a DEF Verified, Keda
  <2>2. VerifiedStatus(inst.status).conditions["Deleted"] = inst.status.conditions["Deleted"]
    BY <1>a, HelperFacts
  <2> QED
    BY <2>1, <2>2 DEF StatusMoves
<1> QED
  BY <1>1, <1>2, <1>3, <1>4, <1>5, <1>6, <1>7, <1>8, <1>9, <1>10, <1>11, <1>12 DEF InstallStep

\* The add-on path sets its own condition, and the state to Warning at most.
LEMMA AddonMoves ==
  ASSUME TypeInv, AddonStep
  PROVE  StatusMoves
<1> USE DEF EarlyPcs, DeletePcs, IsKedaDeleting
<1>a. inst \in Keda /\ inst.status \in Statuses
  <2>1. pc # "Idle"
    BY DEF AddonStep, EnsureNamespace, FetchOld, CleanupOld, FetchNew, ApplyAddonObj,
       ApplyAddonDone, DropPeerAuthentication, PersistInstalled, GuardAddon,
       DeleteAddonNothing, DeleteAddonFetch, DeleteAddonObj, DeleteAddonDone, PersistDeleted
  <2> QED
    BY <2>1, HeldType DEF Keda
<1>b. ASSUME NEW s, NEW r, inst'.status = SetAddonCondition(inst.status, s, r), pc' = "UpdateStatus"
      PROVE  StatusMoves
  BY <1>a, <1>b, HelperFacts DEF StatusMoves
<1>c. ASSUME NEW r, AddonStop(r) PROVE StatusMoves
  <2>1. inst'.status = SetAddonCondition(inst.status, "False", r) /\ pc' = "UpdateStatus"
    BY <1>a, <1>c DEF AddonStop, StopWith, Keda
  <2> QED
    BY <1>b, <2>1
<1>d. ASSUME AddonInUse PROVE StatusMoves
  <2> DEFINE st == SetAddonCondition(inst.status, "False", "HTTPAddonInUse")
  <2>1. inst'.status = [st EXCEPT !.state = "Warning"] /\ pc' = "UpdateStatus"
    BY <1>a, <1>d DEF AddonInUse, StopWith, Keda
  <2>2. st.conditions["Deleted"] = inst.status.conditions["Deleted"]
    BY <1>a, HelperFacts
  <2>3. st \in Statuses
    BY <1>a, SetConditionType DEF SetAddonCondition, CondTypes, Reasons
  <2> HIDE DEF st
  <2>4. inst'.status.state = "Warning" /\ inst'.status.conditions = st.conditions
    BY <2>1, <2>3 DEF Statuses
  <2> QED
    BY <2>1, <2>2, <2>4 DEF StatusMoves
<1>e. ASSUME NEW next \in AddonPcs \cup DisablePcs, SwitchState(next) PROVE StatusMoves
  BY <1>e DEF SwitchState, StatusMoves, AddonPcs, DisablePcs
<1>f. ASSUME NEW i, NEW s, NEW r, PersistAnnotations(i, s, r) PROVE StatusMoves
  <2>1. inst'.status = SetAddonCondition(inst.status, s, r) /\ pc' = "UpdateStatus"
    BY <1>a, <1>f DEF PersistAnnotations, Keda
  <2> QED
    BY <1>b, <2>1
<1>1. CASE EnsureNamespace \/ FetchOld \/ CleanupOld \/ FetchNew
  BY <1>1, <1>c, <1>e DEF EnsureNamespace, FetchOld, CleanupOld, FetchNew, AddonPcs
<1>2. CASE ApplyAddonObj \/ DeleteAddonObj
  BY <1>2 DEF ApplyAddonObj, DeleteAddonObj, StatusMoves
<1>3. CASE ApplyAddonDone \/ DropPeerAuthentication
  BY <1>3, <1>c, <1>e DEF ApplyAddonDone, DropPeerAuthentication, AddonPcs
<1>4. CASE PersistInstalled
  BY <1>4, <1>f DEF PersistInstalled
<1>5. CASE PersistDeleted
  BY <1>5, <1>f DEF PersistDeleted
<1>6. CASE GuardAddon
  BY <1>6, <1>d, <1>e DEF GuardAddon, DisablePcs
<1>7. CASE DeleteAddonNothing \/ DeleteAddonFetch \/ DeleteAddonDone
  BY <1>7, <1>c, <1>e DEF DeleteAddonNothing, DeleteAddonFetch, DeleteAddonDone, DisablePcs
<1> QED
  BY <1>1, <1>2, <1>3, <1>4, <1>5, <1>6, <1>7 DEF AddonStep

\* The deletion path puts the deletion on record first.
LEMMA DeleteMoves ==
  ASSUME TypeInv, DeleteStep, pc' # "Idle"
  PROVE  StatusMoves
<1> USE DEF EarlyPcs, DeletePcs, clusterVars, crVars
<1>a. inst \in Keda /\ inst.status \in Statuses /\ pc \in DeletePcs
  <2>1. pc \in DeletePcs
    BY DEF DeleteStep, DeleteResources, CheckCrd, CheckCrdBlocks, DeleteAddonLeftovers,
       DeleteObj, DeleteObjFails, DeleteDone, RemoveFinalizer, RemoveFinalizerFails
  <2> QED
    BY <2>1, HeldType DEF Keda
<1>b. ASSUME NEW out, NEW x, x # "Ready", NEW s, NEW r,
             StopWith(out, WithState(inst.status, x, "Deleted", s, r))
      PROVE  StatusMoves
  <2>1. /\ inst'.status = WithState(inst.status, x, "Deleted", s, r) /\ pc' = "UpdateStatus"
    BY <1>a, <1>b DEF StopWith, Keda
  <2>2. inst'.status.state = x
    BY <1>a, <2>1, HelperFacts DEF CondTypes
  <2> QED
    BY <1>a, <1>b, <2>1, <2>2 DEF StatusMoves
<1> USE DEF UpdateStateDeletion, UpdateStateFromWarning, UpdateStateFromErr, UpdateStateDeletionTrue,
            DeletionStop
<1>1. CASE DeleteResources
  <2>1. CASE SwitchState("CheckCrds")
    BY <1>1, <2>1, <1>a DEF DeleteResources, SwitchState, StatusMoves, StopWith
  <2> QED
    BY <1>1, <1>b, <2>1 DEF DeleteResources
<1>2. CASE CheckCrd \/ DeleteObj \/ DeleteObjFails
  BY <1>2, <1>a DEF CheckCrd, CheckFrame, DeleteObj, DeleteObjFails, StatusMoves
<1>3. CASE CheckCrdBlocks
  BY <1>3, <1>b DEF CheckCrdBlocks
<1>4. CASE DeleteAddonLeftovers
  <2>1. CASE SwitchState("DeleteObjs")
    BY <1>4, <2>1, <1>a DEF DeleteAddonLeftovers, SwitchState, StatusMoves
  <2> QED
    BY <1>4, <1>b, <2>1 DEF DeleteAddonLeftovers
<1>5. CASE DeleteDone
  <2>1. CASE SwitchState("RemoveFinalizer")
    BY <1>5, <2>1, <1>a DEF DeleteDone, SwitchState, StatusMoves
  <2> QED
    BY <1>5, <1>b, <2>1 DEF DeleteDone
<1>6. ~(RemoveFinalizer \/ RemoveFinalizerFails)
  BY DEF RemoveFinalizer, RemoveFinalizerFails, EndPass, DropPass
<1> QED
  BY <1>1, <1>2, <1>3, <1>4, <1>5, <1>6 DEF DeleteStep

\* A store with one CR replaced.
LEMMA StoreFits ==
  ASSUME TypeInv, StoresFit, NEW k \in Kedas, NEW cr, server' = [server EXCEPT ![k] = cr],
         cr = NoKeda \/ StatusFits(cr)
  PROVE  \A j \in Kedas : server'[j] # NoKeda => StatusFits(server'[j])
<1>1. \A j \in Kedas : server'[j] = IF j = k THEN cr ELSE server[j]
  BY DEF TypeInv, TypeOK, ClusterTypeOK
<1> QED
  BY <1>1 DEF StoresFit

\* Every write leaves a CR whose status fits it.
LEMMA WritesFit ==
  ASSUME TypeInv, CopyAgrees, PathFits, ReadyInv, [Next]_vars
  PROVE  \A j \in Kedas : server'[j] # NoKeda => StatusFits(server'[j])
<1> USE DEF ReadyInv
<1> DEFINE Fit == \A j \in Kedas : server'[j] # NoKeda => StatusFits(server'[j])
<1>a. \A k \in Kedas : server[k] # NoKeda => server[k] \in Keda /\ StatusFits(server[k])
  BY DEF TypeInv, TypeOK, ClusterTypeOK, StoresFit
<1>b. /\ pc # "Idle" => key \in Kedas /\ inst \in Keda
      /\ fresh => key \in Kedas /\ server[key] \in Keda /\ server[key] # NoKeda
      /\ fresh => inst.del = server[key].del
  BY HeldType DEF TypeInv, HeldExists, CopyAgrees, AsWritten
<1>1. CASE UNCHANGED server
  BY <1>1 DEF StoresFit
<1>2. CASE UpdateStatus
  <2> DEFINE cr == [server[key] EXCEPT !.status = inst.status]
  <2>1. server' = [server EXCEPT ![key] = cr] /\ fresh /\ pc # "Idle"
    BY <1>2 DEF UpdateStatus, Write
  <2>2. cr.status = inst.status /\ cr.fin = server[key].fin /\ cr.del = server[key].del
    BY <1>b, <2>1 DEF Keda
  <2>3. StatusFits(inst) /\ (inst.fin => server[key].fin)
    BY <2>1 DEF CopyFits
  <2> HIDE DEF cr
  <2>4. StatusFits(cr)
    BY <1>b, <2>1, <2>2, <2>3 DEF StatusFits
  <2> QED
    BY <1>b, <2>1, <2>4, StoreFits
<1>3. ASSUME NEW cr \in Keda, cr.fin, cr.del = inst.del, Update(cr), cache' = cache PROVE Fit
  <2> DEFINE new == [cr EXCEPT !.status = server[key].status]
  <2>1. server' = [server EXCEPT ![key] = new] /\ fresh /\ key \in Kedas
    BY <1>3, UpdateType
  <2>2. new.status = server[key].status /\ new.fin /\ new.del = server[key].del
    BY <1>3, <1>b, <2>1 DEF Keda
  <2>3. StatusFits(server[key])
    BY <1>a, <1>b, <2>1
  <2> HIDE DEF new
  <2>4. StatusFits(new)
    BY <2>2, <2>3 DEF StatusFits
  <2> QED
    BY <2>1, <2>4, StoreFits
<1>4. CASE AddFinalizer
  <2>1. /\ [inst EXCEPT !.fin = TRUE] \in Keda /\ [inst EXCEPT !.fin = TRUE].fin
        /\ [inst EXCEPT !.fin = TRUE].del = inst.del
    BY <1>4, <1>b DEF AddFinalizer, Keda
  <2> QED
    BY <1>3, <1>4, <2>1 DEF AddFinalizer
<1>5. ASSUME NEW i \in InstalledTypes, NEW s, NEW r, PersistAnnotations(i, s, r), cache' = cache,
             pc \in {"PersistInstalled", "PersistDeleted"}
      PROVE  Fit
  <2>1. /\ [inst EXCEPT !.installed = i] \in Keda
        /\ [inst EXCEPT !.installed = i].fin
        /\ [inst EXCEPT !.installed = i].del = inst.del
    BY <1>5, <1>b DEF Keda, PathFits, InstallPcs
  <2> QED
    BY <1>1, <1>3, <1>5, <2>1 DEF PersistAnnotations
<1>6. CASE PersistInstalled \/ PersistDeleted
  <2>1. /\ [version |-> addonVersion, namespace |-> TargetNS] \in InstalledTypes
        /\ [version |-> "", namespace |-> ""] \in InstalledTypes
    BY <1>6, <1>b, NamespaceType DEF PersistInstalled, PersistDeleted, InstalledTypes, TypeInv,
       TypeOK, FsmTypeOK
  <2> QED
    BY <1>5, <1>6, <2>1 DEF PersistInstalled, PersistDeleted, AddonFrame
<1>7. CASE RemoveFinalizer
  <2> DEFINE cr == [[inst EXCEPT !.fin = FALSE] EXCEPT !.status = server[key].status]
  <2>1. server' = [server EXCEPT ![key] = Stored(cr)] /\ fresh /\ pc = "RemoveFinalizer"
    BY <1>7 DEF RemoveFinalizer, Update, Write
  <2>2. cr.status = inst.status /\ cr.del
    BY <1>b, <2>1 DEF CopyFits, EarlyPcs, DeletePcs, Keda, PathFits
  <2>3. inst.status.state # "Ready"
    BY <2>1 DEF CopyFits, StatusFits, DeletePcs
  <2> HIDE DEF cr
  <2>4. StatusFits(cr)
    BY <2>2, <2>3 DEF StatusFits
  <2> QED
    BY <1>b, <2>1, <2>4, StoreFits DEF Stored
<1>8. ASSUME NEW k \in Kedas, CreateKeda(k) PROVE Fit
  <2>1. PICK cr : cr.status = EmptyStatus /\ UserWrite(k, cr)
    <3>1. PICK s \in Specs, a \in AddonCfgs, e \in ExtFinalizers :
            UserWrite(k, [del |-> FALSE, fin |-> FALSE, ext |-> e, spec |-> s, addon |-> a,
                          installed |-> [version |-> "", namespace |-> ""],
                          status |-> EmptyStatus])
      BY <1>8, Zenon DEF CreateKeda
    <3> DEFINE new == [del |-> FALSE, fin |-> FALSE, ext |-> e, spec |-> s, addon |-> a,
                       installed |-> [version |-> "", namespace |-> ""], status |-> EmptyStatus]
    <3>2. new.status = EmptyStatus
      OBVIOUS
    <3> HIDE DEF new
    <3> QED
      BY <3>1, <3>2, Zenon DEF new
  <2>2. EmptyStatus.state = "" /\ ~IsKedaDeleting(EmptyStatus)
    BY DEF EmptyStatus, IsKedaDeleting, CondTypes
  <2>3. StatusFits(cr)
    BY <2>1, <2>2 DEF StatusFits
  <2> QED
    BY <2>1, <2>3, StoreFits DEF UserWrite
<1>9. ASSUME NEW k \in Kedas, NEW cr, server' = [server EXCEPT ![k] = cr], server[k] # NoKeda,
             \/ cr = NoKeda
             \/ cr.status = server[k].status /\ cr.fin = server[k].fin /\ (server[k].del => cr.del)
      PROVE  Fit
  <2>1. cr = NoKeda \/ StatusFits(cr)
    BY <1>9, <1>a DEF StatusFits
  <2> QED
    BY <1>9, <2>1, StoreFits
<1>10. ASSUME NEW k \in Kedas, EditSpec(k) \/ EditAddon(k) PROVE Fit
  <2>1. PICK x : \/ server' = [server EXCEPT ![k] = [server[k] EXCEPT !.spec = x]]
                 \/ server' = [server EXCEPT ![k] = [server[k] EXCEPT !.addon = x]]
    BY <1>10 DEF EditSpec, EditAddon, UserWrite
  <2>2. server[k] # NoKeda /\ server[k] \in Keda
    BY <1>10, <1>a DEF EditSpec, EditAddon
  <2>3. /\ [server[k] EXCEPT !.spec = x].status = server[k].status
        /\ [server[k] EXCEPT !.spec = x].fin = server[k].fin
        /\ [server[k] EXCEPT !.spec = x].del = server[k].del
        /\ [server[k] EXCEPT !.addon = x].status = server[k].status
        /\ [server[k] EXCEPT !.addon = x].fin = server[k].fin
        /\ [server[k] EXCEPT !.addon = x].del = server[k].del
    BY <2>2 DEF Keda
  <2> QED
    BY <1>9, <2>1, <2>2, <2>3
<1>11. ASSUME NEW k \in Kedas, DeleteKeda(k) \/ DropExtFinalizer(k) PROVE Fit
  <2>1. \/ server' = [server EXCEPT ![k] = Stored([server[k] EXCEPT !.del = TRUE])]
        \/ server' = [server EXCEPT ![k] = Stored([server[k] EXCEPT !.ext = FALSE])]
    BY <1>11 DEF DeleteKeda, DropExtFinalizer, UserWrite
  <2>2. server[k] # NoKeda /\ server[k] \in Keda
    BY <1>11, <1>a DEF DeleteKeda, DropExtFinalizer
  <2>3. /\ [server[k] EXCEPT !.del = TRUE].status = server[k].status
        /\ [server[k] EXCEPT !.del = TRUE].fin = server[k].fin
        /\ [server[k] EXCEPT !.del = TRUE].del
        /\ [server[k] EXCEPT !.ext = FALSE].status = server[k].status
        /\ [server[k] EXCEPT !.ext = FALSE].fin = server[k].fin
        /\ [server[k] EXCEPT !.ext = FALSE].del = server[k].del
    BY <2>2 DEF Keda
  <2>4. \A cr : Stored(cr) = NoKeda \/ Stored(cr) = cr
    BY DEF Stored
  <2> QED
    BY <1>9, <2>1, <2>2, <2>3, <2>4
<1> QED
  BY <1>1, <1>2, <1>4, <1>6, <1>7, <1>8, <1>10, <1>11, ServerWriters

\* Every step keeps ReadyInv.
LEMMA ReadyInvStep ==
  ASSUME TypeInv, TypeInv', CopyAgrees, FinalizerInv, ReadyInv, [Next]_vars
  PROVE  ReadyInv'
<1> USE DEF FinalizerInv
<1>a. \A j \in Kedas : server'[j] # NoKeda => StatusFits(server'[j])
  BY WritesFit
<1>b. /\ pc # "Idle" => key \in Kedas /\ inst \in Keda
      /\ fresh => key \in Kedas /\ server[key] # NoKeda /\ pc # "Idle"
  BY KedasAssumption DEF TypeInv, TypeOK, ClusterTypeOK, FsmTypeOK, HeldExists
<1>1. ASSUME UNCHANGED cache PROVE StoresFit'
  BY <1>1, <1>a DEF ReadyInv, StoresFit
<1>2. ASSUME NEW k \in Kedas, Reconcile(k) PROVE ReadyInv'
  <2>1. /\ UNCHANGED <<server, cache>> /\ key' = k /\ inst' = cache[k] /\ cache[k] # NoKeda
        /\ pc' = "ServedFilter" /\ (fresh' => cache[k] = server[k])
    BY <1>2 DEF Reconcile, TypeInv, CacheAgrees
  <2> QED
    BY <1>1, <2>1 DEF ReadyInv, StoresFit, CopyFits, DeletePcs
<1>3. ASSUME pc' = "Idle", fresh' = FALSE PROVE CopyFits'
  BY <1>3 DEF CopyFits, DeletePcs
<1>4. CASE RemoveFinalizer
  <2>1. pc' = "Idle" /\ fresh' = FALSE /\ UNCHANGED cache
    BY <1>4 DEF RemoveFinalizer, EndPass, DropPass
  <2> QED
    BY <1>1, <1>3, <2>1 DEF ReadyInv
<1>5. CASE Restart
  <2>1. pc' = "Idle" /\ fresh' = FALSE /\ cache' = server /\ server' = server
    BY <1>5 DEF Restart, DropPass
  <2> QED
    BY <1>3, <1>a, <2>1 DEF ReadyInv, StoresFit
<1>6. CASE WorkerStep /\ GoesOn
  <2>1. CASE pc' = "Idle" /\ fresh' = FALSE
    BY <1>1, <1>3, <1>6, <2>1 DEF ReadyInv, GoesOn
  <2>2. CASE ~(pc' = "Idle" /\ fresh' = FALSE)
    <3>1. /\ pc # "Idle" /\ UNCHANGED <<key, fresh, cache>> /\ HeldStep /\ pc' # "Idle"
          /\ inst'.fin = inst.fin /\ inst'.del = inst.del
      BY <1>6, <2>2, <1>b DEF GoesOn, TypeInv, TypeOK, FsmTypeOK
    <3>2. StatusMoves
      BY <1>6, <3>1, InstallMoves, AddonMoves, DeleteMoves DEF WorkerStep
    <3>3. StatusFits(inst) /\ (fresh /\ inst.fin => server[key].fin)
      BY <3>1 DEF ReadyInv, CopyFits
    <3>4. StatusFits(inst')
      BY <3>1, <3>2, <3>3 DEF StatusMoves, StatusFits, PathFits, InstallPcs, DeletePcs
    <3>5. fresh' /\ inst'.fin => server'[key'].fin
      BY <1>b, <3>1, <3>3 DEF HeldStep, Held
    <3>6. fresh' /\ pc' \in EarlyPcs => server'[key'].status = inst'.status
      BY <3>1, <3>2 DEF StatusMoves, ReadyInv, CopyFits
    <3>7. pc' \in DeletePcs \ {"DeleteResources"} => IsKedaDeleting(inst'.status)
      BY <3>1, <3>2 DEF StatusMoves, ReadyInv, CopyFits, EarlyPcs
    <3> QED
      BY <1>1, <3>1, <3>4, <3>5, <3>6, <3>7 DEF ReadyInv, CopyFits, StatusFits
  <2> QED
    BY <2>1, <2>2
<1>7. CASE Aside
  <2>1. /\ UNCHANGED <<pc, inst, key>> /\ (fresh' => fresh /\ server'[key] = server[key])
        /\ \A j \in Kedas : cache'[j] = cache[j] \/ cache'[j] = server[j]
    BY <1>7 DEF Aside
  <2>2. StoresFit'
    BY <1>a, <2>1 DEF ReadyInv, StoresFit
  <2>3. CopyFits'
    BY <2>1 DEF ReadyInv, CopyFits, StatusFits
  <2> QED
    BY <2>2, <2>3 DEF ReadyInv
<1>8. CASE UNCHANGED vars
  <2>1. UNCHANGED <<server, cache, key, fresh, pc, inst>>
    BY <1>8 DEF vars, clusterVars, crVars, heldVars, fsmVars
  <2>2. CopyFits'
    BY <2>1 DEF ReadyInv, CopyFits, StatusFits
  <2> QED
    BY <1>1, <2>1, <2>2 DEF ReadyInv
<1>9. CASE WorkerStep
  BY <1>2, <1>4, <1>6, <1>8, <1>9, InstallGoesOn, AddonGoesOn, DeleteGoesOn DEF WorkerStep
<1> QED
  BY <1>5, <1>7, <1>8, <1>9, OutsideAside DEF Next

-----------------------------------------------------------------------------
(* The theorems.                                                           *)

\* With one CR, SettledInv holds throughout.
THEOREM SettledInvariant ==
  ASSUME \A i, j \in Kedas : i = j
  PROVE  Spec => []SettledInv
<1>1. Init => SettledInv
  BY BudgetAssumption DEF Init, ClusterInit, FsmInit, SettledInv, PassInv, RestInv, TamperLeft,
     Interference
<1>2. TypeInv /\ TypeInv' /\ CopyAgrees /\ WorkloadInv /\ DeletionInv /\ SettledInv /\ [Next]_vars
        => SettledInv'
  BY SettledInvStep DEF WorkloadInv
<1> QED
  BY <1>1, <1>2, TypeInvariant, CopyInvariant, WorkloadInvariant, DeletionInvariant, PTL DEF Spec

\* What rests, rests as its status says.
LEMMA RestsWell ==
  ASSUME TypeInv, RestInv, NEW k \in Kedas, SettledFor(k)
  PROVE  IF server[k].del THEN ~server[k].fin
         ELSE \/ SaysFailed(server[k].status)
              \/ server[k].fin /\ InPlace(server[k], server[k].status)
<1>1. cache[k] = server[k]
  BY DEF SettledFor, TypeInv, CacheAgrees
<1> QED
  BY <1>1 DEF SettledFor, RestInv

\* KEDA follows its CR: for one CR, any manifest, any specs, stale reads, tampering,
\* failing calls and restarts, a CR that nothing is on its way to is Ready with every
\* watched object as the manifest and the spec want it, or says that it is not.
THEOREM SettledIsInstalled ==
  ASSUME \A i, j \in Kedas : i = j
  PROVE  Spec => []SettledInstalled
<1>1. ASSUME TypeInv, SettledInv, NEW k \in Kedas, SettledFor(k)
      PROVE  \/ server[k].del /\ ~server[k].fin
             \/ ~server[k].del /\ SaysFailed(server[k].status)
             \/ /\ ~server[k].del /\ server[k].fin
                /\ server[k].status.state = "Ready"
                /\ \A o \in Generational :
                     /\ cluster[o] \notin {Absent, Tampered}
                     /\ o \in Deployments => FitsSpec(cluster[o], server[k].spec.custom)
  <2>1. CASE server[k].del \/ SaysFailed(server[k].status)
    BY <1>1, <2>1, RestsWell DEF SettledInv
  <2>2. CASE ~server[k].del /\ ~SaysFailed(server[k].status)
    <3>1. server[k].fin /\ InPlace(server[k], server[k].status)
      BY <1>1, <2>2, RestsWell DEF SettledInv
    <3>2. \A o \in Generational : cluster[o] = Desired(o)
      BY <1>1, <3>1 DEF InPlace, Applied, SettledFor
    <3>3. manifest \in Customs /\ Shipped \in Customs
      BY <1>1 DEF TypeInv, TypeOK, FsmTypeOK, Shipped, Customs
    <3>4. \A o : Desired(o) \notin {Absent, Tampered}
      BY <3>3, ManifestAssumption DEF Desired
    <3>5. \A o \in Deployments : Desired(o) = manifest
      BY DEF Desired
    <3> QED
      BY <2>2, <3>1, <3>2, <3>4, <3>5 DEF InPlace
  <2> QED
    BY <2>1, <2>2
<1>2. TypeInv /\ SettledInv => SettledInstalled
  BY <1>1 DEF SettledInstalled, SaysFailed
<1> QED
  BY <1>2, TypeInvariant, SettledInvariant, PTL

\* ReadyInv holds throughout, for any number of CRs.
THEOREM ReadyInvariant == Spec => []ReadyInv
<1>1. Init => ReadyInv
  BY DEF Init, ClusterInit, FsmInit, ReadyInv, StoresFit, CopyFits, DeletePcs
<1>2. TypeInv /\ TypeInv' /\ CopyAgrees /\ WorkloadInv /\ ReadyInv /\ [Next]_vars => ReadyInv'
  BY ReadyInvStep DEF WorkloadInv
<1> QED
  BY <1>1, <1>2, TypeInvariant, CopyInvariant, WorkloadInvariant, PTL DEF Spec

\* The add-on follows the annotations: with one CR, all of what the annotations ask for
\* is there when the CR rests as Ready and reports the add-on as installed; only the
\* removal of a PeerAuthentication by somebody else goes unnoticed.
THEOREM AddonIsComplete ==
  ASSUME \A i, j \in Kedas : i = j
  PROVE  Spec => []AddonComplete
<1>1. ASSUME TypeInv, SettledInv, ReadyInv, NEW k \in Kedas, SettledFor(k),
             server[k].status.state = "Ready", AddonCond(k).reason = "HTTPAddonInstalled"
      PROVE  /\ server[k].addon.enabled
             /\ WantedAddon(k) \ PeerAuthentications \subseteq addonObjs
             /\ budget["tamper"] = Budget["tamper"] => WantedAddon(k) \subseteq addonObjs
  <2>1. server[k].fin
    BY <1>1 DEF ReadyInv, StoresFit, StatusFits, SettledFor
  <2>2. InPlace(server[k], server[k].status)
    BY <1>1, <2>1, RestsWell DEF SettledInv, SaysFailed
  <2>3. AddonThere(server[k].addon) /\ WantedAddon(k) = WantedFor(server[k].addon)
    BY <1>1, <2>2 DEF InPlace, SaysInstalled, AddonCond, WantedAddon, WantedFor
  <2> QED
    BY <1>1, <2>3 DEF AddonThere, SettledFor
<1>2. TypeInv /\ SettledInv /\ ReadyInv => AddonComplete
  BY <1>1 DEF AddonComplete
<1> QED
  BY <1>2, TypeInvariant, SettledInvariant, ReadyInvariant, PTL

=============================================================================
