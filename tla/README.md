# keda-manager in TLA+

A model of keda-manager, the Kyma operator that installs, configures and removes
KEDA and, on request, the KEDA HTTP add-on. The modules are checked with TLC on
small instances; the central results are proved with TLAPS for every number of
custom resources (CRs), every manifest and every amount of interference. An
abstract specification, `KedaLifecycle`, says what the manager promises, and the
model of the code is shown to implement it.
`PROJECT.json` lists the runs, the mutants each property is tested with, the
source lines of every definition, the findings, the hazards and the theorems.

## 1. Inventory of the system

| Part | Source | State | Operations |
|---|---|---|---|
| Keda CR and status | `api/v1alpha1/keda_types.go` | spec, finalizers, annotations; `status.state`, `status.served`, one condition per type | `UpdateState…`, `UpdateServed`, `SetAddonCondition`, … |
| Controller | `controllers/keda_controller.go`, `watch.go` | informer cache, work queue, watches | `Reconcile`, `ommitStatusChanged`, `mapFunction`, `retriggerAllKedaCRs` |
| State machine | `pkg/reconciler/fsm.go`, `common.go`, `take_snapshot.go`, `update_status.go`, `emmit_event.go` | one `systemState` per pass; `Cfg`, partly shared by passes | `fsm.Run`, `stopWith…`, `sFnUpdateStatus`, `sFnTakeSnapshot`, `sFnEmitEventfunc` |
| Served filter | `served_filter.go` | – | `sFnServedFilter`, `findServedKeda` |
| Installation | `initialize.go`, `validate.go`, `apply.go`, `verify.go` | – | finalizer, validation, one server-side apply per object, verification |
| Customisation | `update_objects.go`, update functions of `fsm.go`, `keda_types.go`, images of `apply.go` | `Cfg.Objs`, the manifest in memory | arguments, environment, labels, annotations, resources, network policy, images |
| HTTP add-on | `addon.go`, `pkg/addon` | two annotations of the CR; `Cfg.AddonObjs` | install, move, upgrade, guard, remove |
| Uninstallation | `delete_resources.go`, `remove_finalizer.go` | the `Deleted` condition | refuse while in use, delete, delete again, drop the finalizer |
| Process | `main.go` | everything above that is in memory, and the leader lease | start, leader election, crash, restart, upgrade |
| Manifest loading and watches | `pkg/resources`, `pkg/yaml`, `pkg/crypto`, `controllers/watch.go` | order of `Cfg.Objs`, registered watches | read at start, order, pick distinct kinds |
| Disclaimer, logging | `pkg/annotation`, `pkg/logging` | none | format |

How they interact. Users write Keda CRs in the API server. Informers bring the
changes into a cache and, through predicates, put names on a work queue. One
worker takes a name and runs one *pass*: it reads the CR from the cache and walks
the state functions. A pass either goes on to the next state function or stops by
writing the status, emitting events and returning a result, which may requeue the
name. Every write of the CR is compared with the server's `resourceVersion`; the
managed objects are written by server-side apply with force and by plain deletes,
which are not. Managed objects are watched too, and their events are sent to a CR.

What is hard here:

- the cache lags behind the server, and a pass goes on with what it has read
  while users and other controllers act between any two API calls;
- a pass is a loop of API calls each of which may fail, and the process may end
  anywhere;
- what has to happen next is known only from what was persisted (served mark,
  finalizer, conditions, two annotations), and what has to happen *at all* only
  from the queue;
- state with the wrong lifetime: `Cfg.AddonObjs` lasts for one pass and is read
  as if it lasted, `Cfg.Objs` lasts for the whole process and is read as if it
  were the shipped manifest;
- uninstallation deletes the lease by which the manager itself leads, so for a
  while two processes may reconcile, each with its own `Cfg.Objs`.

What makes each part correct:

- *Served filter*: one CR owns KEDA, ownership is for life, only the owner's
  pass touches workloads, and someone takes over when the owner goes.
- *Installation*: what comes to rest fits the spec, or says it failed; a valid
  CR gets Ready.
- *Uninstallation*: nothing is left when the finalizer is gone, no user resource
  is lost, and it ends.
- *HTTP add-on*: reported as installed means complete and only where wanted;
  reported as removed means gone; its CRD is not removed while in use; the
  report comes to match the annotations.
- *State machine*: events announce changes only, so they end; no write takes back
  what a user wrote.
- *Customisation*: repeated with changing specs it converges and stays consistent.
- *Process*: it starts with the whole manifest in the right order, and two of them
  lead together only briefly, without fighting for ever.

## 2. Modules

There are two specifications. `KedaStatus` to `KedaManager`, each extending the one
before it, model one worker, call by call. `Customisation` and `ManagerProcess` model
several processes with their memories, with a pass reduced to what it does to the
Deployments.

| Module | Models | Main definitions |
|---|---|---|
| `KedaStatus` | the status of a CR and its helpers | `UpdateState…`, `IsNotServed` |
| `KedaCluster` | API server, cache, predicates, queue, users, Deployments, lease, instances of CRDs | `UserWrite`, `CacheSync`, `Enqueued`, `MapFunction`, `Tamper`, … |
| `KedaFsm` | the pass and the installation path | `Reconcile`, `ServedFilter`, `AddFinalizer`, `UpdateObjects`, `ApplyObject`, `Verified`, `UpdateStatus`, `EmitEvent`, `Return` |
| `HttpAddon` | the add-on part of a pass | `CleanupNS`, `FetchOld`, `ApplyAddonObj`, `PersistAnnotations`, `GuardAddon`, `DeleteAddonObj` |
| `KedaDelete` | the deletion part of a pass | `DeleteResources`, `CheckCrd`, `DeleteObj`, `DeleteDone`, `RemoveFinalizer` |
| `KedaManager` | the whole system around one worker, restarts, fairness and its properties | `Next`, `Spec`, `FairSpec`, `Lifecycle` |
| `KedaLifecycle` | the abstract specification: CRs, their owner, KEDA installed or not | `Acquire`, `Take`, `Install`, `Release` |
| `Customisation` | what a pass makes of the Deployments, as operators | `UpdateDeployment`, `UpdatedArgs`, `SanitizedEnv`, `MergeAnnotations`, `Image` |
| `ManagerProcess` | processes, manifests, watches, the lease, and passes of leaders | `Load`, `SetupWithManager`, `Lead`, `LoseLease`, `UpdateObjects`, `ApplyObject`, `ApplyObjectFails`, `Uninstall` |
| `MCKedaManager`, `MCManagerProcess` | values of the constants for TLC | |
| `KedaManagerProofs` | the type invariant and users' edits, proved | `TypeInvariant`, `CopyInvariant`, `EditsSurvive` |
| `KedaWorkloadProofs` | what the finalizer stands for, proved | `WorkloadInvariant`, `NothingOrphaned`, `DeletionInvariant` |
| `KedaServedProofs` | ownership, proved | `ServedForLife`, `HoldersServed`, `OneServed`, `OwnerIsExclusive` |
| `KedaSettledProofs` | what a CR at rest has, proved | `SettledInvariant`, `SettledIsInstalled`, `ReadyInvariant`, `AddonIsComplete` |
| `KedaResourceProofs` | resources of the users, proved | `HsoLosses`, `UserResourcesKept` |
| `KedaLifecycleProofs` | the refinement, proved | `LifecycleImplemented` |
| `KedaPromiseProofs` | what the abstract specification promises, proved | `PromiseKept` |
| `ManagerProcessProofs` | leaders, start, the memory of a process and what it comes to in the cluster, proved | `LeadersOverlap`, `StartStaysComplete`, `LoggingStaysConsistent`, `PassesRepeat`, `LeadersRestOnFit` |

The variable `pc` names the state function that runs next and the place in it. An
action is one state function, or the part of one between two API calls, with the
condition under which the code takes that branch as its guard. An action that
calls the API server has a failing form, which spends from the budget `failure`,
or is forced when the copy of the CR is outdated.

Correspondence of state in `KedaManager`:

- `server`, `cache`: the CRs in the API server and in the informer cache. Only
  whether a copy is *at the server's version* matters, so `resourceVersion` is
  two flags, `current[k]` for the cached copy and `fresh` for the worker's. A write
  that changes nothing keeps the version, as the API server does.
- `queue`: the work queue with its delayed entries. `RequeueAfter` and the back-off
  of errors differ only in when the name comes back.
- `inst`, `snap`, `outcome`, `todo`, `failed`, `ready`, `failing`: the
  `systemState` of the pass and the local variables of its loops.
- `manifest`: the customisable fields of the Deployments in `Cfg.Objs`. The
  copies of `Cfg` share that array, so it survives passes; `cfgAddonObjs`
  (`Cfg.AddonObjs`) is a field of the copy and does not.
- `known`: the CRDs whose kind the client's RESTMapper has met since the process
  started. A kind it has met is listed even when its CRD is gone, which gives the
  NotFound that `checkCRDOrphanResources` ignores; one it has not met is looked up
  first (`Discover`), and when its CRD is gone that gives a NoKindMatchError, which is
  not ignored (`CheckCrdBlocks`). A restart empties it.
- `cluster`, `depStatus`, `addonObjs`: managed objects by content, Deployments by
  status, add-on objects by presence. `scaled` and `hso` say whether instances
  of KEDA's CRDs and HTTPScaledObjects exist; they go with their CRD.
- `objEvents`: managed objects, and the add-on, with a watch event not yet handled.
- `budget`: how often users edit, objects are tampered with, workloads are created
  and calls fail.

In `ManagerProcess`, `objs`, `held` and `watched` are the memory of each process
(`Cfg.Objs` in order, its contents, the registered watches), `dirty` is its work
queue, `todo` the rest of `sFnApply`'s loop and `failed` the objects whose Patch
failed in it. `lease` and `age` are the lease
object; `renewed` and `tried` are what a leader's renewal loop knows. Time is counted
in retry periods. `phase` follows `main`: down, loaded, standby, leading. An exit
loses the memory and keeps the lease, since the manager does not release it on exit.
`cluster` has the contents of the managed objects that are there. The loops of the
code (`LoadData`, `LoadFromPaths`, `registerWatchDistinct`, `EnvVars.Sanitize`) are
recursive functions from the number of turns to the state of the loop
(`ResultsSoFar`, `ObjsSoFar`, `WatchesSoFar`, `RequiredSoFar`), with one turn as an
operator of its own, which is the form in which they can be reasoned about.

Data is abstracted to what the properties tell apart. In `KedaManager` a spec is a
flag for "restricted pod annotations", which validation rejects, and a value per
customisable field. A field is *sticky* if its getter may return nil, which skips its
update (logging, resources, pod annotations), and is written on every pass otherwise
(environment, Istio labels, priority class). `Sanitized` is what a pass makes of a
value: it turns the log format `text` into `console`, in the CR in memory too. The
add-on manifest of a version is the CRD, the workload in a namespace and one object
only that version has. `Customisation` has the same fields with their contents.

### The abstract specification

`KedaLifecycle` has three variables: how far each CR is in its life, the set of
owners, and whether anything of KEDA is in the cluster. The mapping reads them off the
API server alone: finalizer and deletion of each CR, the served marks, and the
managed objects. A pass of dozens of calls is a few abstract steps; every read, status
update that changes no mark, conflict, failure and restart is a stutter. It says:
ownership is taken only when nobody has it, the finalizer only by the owner, workloads
appear only for an owner with the finalizer, and the finalizer goes only when nothing
is left. `Promise` is what follows from that.

## 3. What is checked

Deadlock is not checked: with no CR, or with all budgets spent and everything at
rest, the system may stop.

### Runs that pass

| Run | Instance | Shows |
|---|---|---|
| `ownership` | 2 CRs with or without a foreign finalizer, caught-up reads, fairness, 3 edits, 1 failure | `TypeOK`, `AtMostOneServed`, `ExclusiveOwner`, `SomeKedaServed`, `ImplementsLifecycle` |
| `lag` | 2 CRs, lagging reads, 3 edits, 1 failure | `ServedSticky`, `NoOrphanedWorkloads` |
| `install` | 1 CR, lagging reads, three specs (plain, tuned, restricted), a Deployment and a ConfigMap-like object, 2 edits, 1 tampering, 1 failure | `SettledInstalled` |
| `addon` | 1 CR, caught-up reads, 2 namespaces, 2 versions, 2 edits, 1 tampering, 1 failure | `AddonComplete` |
| `progress` | 1 CR, a CRD with instances, fairness, lagging reads, 2 edits, 1 failure | `InstallCompletes`, `DeletionCompletes`, `EventsQuiesce`, `UserResourcesSurvive` |
| `addon_progress` | 1 CR with log format `text`, lagging reads, fairness, 3 edits, 1 HTTPScaledObject | `AddonConverges`, `HttpScaledObjectsSurvive`, `UserEditsSurvive` |
| `process` | 2 processes, lease of 3 periods with deadline 2, two manifest files, 2 specs, fairness, 2 edits, 1 crash, failed Patch, failed renewal or failed uninstallation | `LeadersOverlapBriefly`, `StartIsComplete`, `LoggingConsistent`, `RestMeansFit`, `PassRepeats`, `WorkloadsConverge`, `PassesQuiesce` |

`RestMeansFit` is the safety half of `WorkloadsConverge`: whenever a leader has the
spec taken in and nothing left to do, the Deployments are as the spec says, except for
those whose Patch failed in its last pass. That exception is the code's: after a
failed Patch `sFnApply` applies the rest, reports `ApplyObjError` and stops without a
requeue, so the Deployment stays as it is until some event causes another pass.
`WorkloadsConverge` makes it too, when the Patch failed for every process that leads.
`SettledInstalled` and `InstallCompletes` say the same of `KedaManager`, where the
failure has to be in the status. `DeletionCompletes` has an exception of this kind as
well: the CR stays when the process meets a CRD that is gone and whose kind it does not
know (`UnknownKind`, see the smaller disagreements below). `PassRepeats` is why
the passes come to an end: with the spec taken in, a further pass changes nothing in
memory, hence sends what it sent before.

A "failure" is any one of: a failing API call, a restart (perhaps as another
release of the manager), a degrading Deployment.

Why the bounds are enough to mean something. Two CRs are the fewest for which
ownership is a question, and three edits allow to create both and to delete one,
or to create one, delete it and drop its foreign finalizer. The symmetry of the
two CRs is used in `lag`, where only safety is checked. Two edits allow to create
a CR and to change or delete it. One failure lets a single call of a loop, or the
process, fail anywhere, and in `addon` lets a move fail halfway or the manager be
upgraded. The third edit of `addon_progress` lets a user change the annotations while a
pass that enables or disables the add-on is under way. In `process` two edits are a
deletion and a new CR, which is what it takes for two leaders to work on a CR, or two
changes of the spec, by which its values come, go and come back; the metrics server
and the webhooks are the two Deployments treated in a way of their own, and the
operator is the plain case. The network policy, to which a pass writes the same
address every time, is not in this instance, which would be half as large again with
it (284,820 states, all properties hold); the theorems are about any manifest. 2 < 3 periods are the smallest durations of a lease with
a deadline of more than one attempt. Each property is broken by a mutant of the modelled code
under the same bounds, so the cases that matter are reached.

Conditions some runs make, and why:

- `ReadsCatchUp = TRUE` (`ownership`, `addon`): a pass starts only when the cache
  has caught up. The code does not enforce this; it holds whenever passes are
  further apart than the informer's delay. `stale_list` shows what happens without
  it. No theorem of ownership assumes it: they hold with stale reads, up to the stale
  list itself (section 4).
- `CarefulUsers = TRUE` (`progress`, `addon_progress`): nobody creates instances of
  a CRD that is about to go: while a CR is being deleted, while the add-on is disabled,
  or while a pass that read it as disabled is removing it. Without it the code loses an
  instance created between its check and the deletion of the CRD, since the two are
  separate API calls. `addon_progress` has moreover one version, one namespace and no
  failures, so its `HttpScaledObjectsSurvive` is about the guard with stale reads; what
  can be said without these conditions is the theorem `HsoLosses`.
- `ManagerProcess` has one CR, and its leaders read it without delay. What stale reads
  and conflicts do is the subject of `KedaManager`. `Uninstall` is one step, where the
  code deletes object by object in two passes: that a leader's deletions overlap with
  what another applies for a new CR is not in this model. Nor is the delayed requeue of
  `sFnVerify` while a Deployment is not ready: `PassesQuiesce` is about the passes that
  leaders cause by the changes they make.

Larger instances, checked once and too slow to keep as runs: `addon_progress` with a
failure on top (5.7 million states), where `HttpScaledObjectsSurvive` and
`UserEditsSurvive` hold, and `process` with 3 edits and no failure, where all its
properties hold.

### Fairness

`FairSpec` adds: weak fairness of the worker (it goes on with a pass it has
begun); strong fairness of `Reconcile(k)`, since the work queue is first in,
first out, so a name that keeps returning to the queue is served although others
return as well; weak fairness of the informers (`CacheSync`), of the
event handlers (`MapFunction`) and of the Deployment controller
(`DeploymentReady`). Users and failures promise nothing and run out of budget.

In `ManagerProcess`, `FairSpec` adds weak fairness of each process (start, attempts at
the lease, its passes), of its renewal loop, and of time. `Tick` waits for every
leader to have tried to renew in the period and to have ended if its deadline has
passed: these are timers inside the process, which client-go runs in the goroutine of
the election.

### Disagreements between the code and what is said about it

Each of these runs checks one statement of a document, a comment or a test and
ends with a counterexample; `findings` in `PROJECT.json` quotes the statement.

| Run | What the code does |
|---|---|
| `stale_list` | two CRs reconciled before the cache shows the first mark are both served |
| `misrouted_event` | the event of a changed managed object goes to the first CR of a list; with a duplicate around, the change is not reverted |
| `addon_move_in_use` | moving or upgrading the add-on deletes the HTTPScaledObject CRD unguarded |
| `uninstall_in_use` | a CR is uninstalled while HTTPScaledObjects exist |
| `addon_disable_conflict` | a conflict on the annotations is ignored; a later disabling forgets the installation and leaves it behind |

Smaller ones, seen in the code and visible in the model, without a run of their own:

- `main.go` says of leader election that it "will ensure there is only one active
  controller manager"; uninstallation deletes the lease `4123c01c...`, which is the
  manager's own, and until the leader has noticed, a second process (of a rolling
  update, say) may lead as well. `LeadersOverlapBriefly` bounds it. If a CR is created
  and deleted again within that time, the first leader may still be applying objects
  when the second uninstalls, and what it applies is left behind. `KedaManager` and its
  proofs assume one worker;
- uninstallation may stay blocked for ever. `checkCRDOrphanResources` ignores only
  NotFound (`delete_resources.go:193`), while the add-on's `httpScaledObjectsInUse`
  also ignores NoKindMatchError (`addon.go:265`). When the CRDs are gone and the process
  has not met their kinds, every pass ends with `DeletionErr`: after a restart between
  the passes of an uninstallation, and when a CR is deleted before anything was
  installed for it, for instance because validation rejected its spec;
- a sticky field taken out of the spec keeps its last value in `Cfg.Objs` until the
  manager restarts, and the annotation `excludeInboundPorts` stays when Istio is
  switched off, since annotations are merged;
- the documentation on logging has `json` as the default format; a logging
  configuration that sets the level only makes the encoder `console`. As shipped, the
  metrics server has `zap-encoder=json` together with `logtostderr=true`;
- the environment of the operator and the metrics server is replaced by the user's and
  the required variables, so shipped ones such as `KEDA_SERVICE_MIN_TLS_VERSION` are
  dropped; the user's environment does not reach the webhooks;
- "CRDs first" holds within a manifest file only; the network policies are a file of
  their own, applied before the CRDs, which does no harm;
- uninstallation leaves the add-on in the cluster, for the reason that
  `uninstall_in_use` shows (`Cfg.AddonObjs` is empty in a deleting pass);
- a move of the add-on after a conflict on the annotations leaves the old one;
- a duplicate CR never reaches `sFnTakeSnapshot`, so its unchanged condition is
  announced again in every requeued pass; `EventsQuiesce` is about one CR;
- the add-on guard turns a verified CR to Warning, although a comment in
  `verify.go` says that the add-on does not affect the state of the CR;
- a blocked uninstallation reports `DeletionErr` with Warning, where the table of
  conditions in the user documentation has Error;
- the documentation has the add-on namespace created with `istio-injection=enabled`,
  the code creates a plain one.

## 4. What is proved

`tlapm` on the eight `…Proofs` modules checks the proofs. They use only the named
assumptions on the constants in `KedaCluster`, `KedaFsm` and `ManagerProcess`, which
TLC evaluates in every run, and the conditions that a theorem itself states.

- `TypeInvariant`, `TypeCorrect`. `TypeOK` is not inductive alone: a write of the
  CR through `Write` is well-typed only if the CR exists, so it is strengthened to
  `TypeInv` with `CacheAgrees` (a cached copy at the server's version *is* the
  server's CR), `HeldExists` (a worker's copy at that version is of a CR that
  exists), `CleanupKnown` (an old add-on manifest is fetched only for a known
  namespace) and `Finalized` (beyond `sFnInitialize` the copy has the finalizer). One lemma for each group of actions, one step for each action.
- `ServedForLife`: `Spec => ServedSticky`, with reads as stale as can be. The
  invariant behind it is `MarkKept`: a worker's copy at the server's version
  carries the mark the server has. Every action is shown to be *quiet* (the lemmas
  `InstallQuiet`, `AddonQuiet`, `DeleteQuiet`, `OutsideQuiet`: it marks no CR and
  unmarks none), except the start of a pass, the filter and the status update,
  which are treated one by one.
- `HoldersServed`: `Spec => []HeldServed`, whoever has the manager's finalizer is served,
  with reads as stale as can be. A pass adds the finalizer only beyond the filter, with
  a copy at the server's version that carries the mark (`MarkInv`, which adds `CopySeen`
  and `PassMarked` to `MarkKept`), and the mark is for life.
- `OneServed` and `OwnerIsExclusive`: `Spec => []AtMostOneServed \/ <>StaleList` and
  `Spec => []ExclusiveOwner \/ <>StaleList`, with no condition on the reads. `StaleList`
  is the one state in which the filter goes wrong: it is about to decide on a list
  without any served CR while another CR is served in the API server. `Spec` is
  a safety property, so every finite behaviour may go on without a further step; hence
  a behaviour that breaks ownership has had its stale list before that, and the formula
  does not promise less than "until then". `stale_list` shows that it happens;
  `CaughtUpListsAll` proves that with `ReadsCatchUp`, as in the run `ownership`, it does
  not, so that the run checks the two properties proper. `AtMostOneServed` is not
  inductive: a status update in flight may be about to add a mark, and a mark in
  the cache may be of a CR that is gone. The invariant is `OneMark`: of all marks in the
  server, the cache and the worker's copy there is only one CR's. `ExclusiveOwner`
  follows from it with `MarkInv`, `HeldServed` and the invariant of the finalizer
  (`WorkloadInv`): a pass beyond `sFnInitialize` runs for a CR that has the finalizer, or,
  when it is a deletion with an old copy, for one that is gone with all of KEDA.
- `NothingOrphaned`: `Spec => []NoOrphanedWorkloads`, with reads as stale as can be.
  Two things could go wrong. A pass with an old copy could apply objects after the
  finalizer is gone; `FinalizerInv` excludes it: the finalizer is taken off only by a
  pass that has seen the deletion, the cache is at least as new as that pass's copy
  (`DeletionSeen`), so no copy without deletionTimestamp outlives the finalizer
  (`CacheHeld`, `CopyHeld`). And the finalizer could be taken off too early;
  `RemovalInv` excludes that: as long as nothing failed, every object that is there
  is still on the list (`Remaining`), and the lease, which keda-operator may take
  again until its Deployment is gone, is last (`LeaseLast`). Each step is put into
  one of a few kinds first (`HeldStepKinds`, `WorkerKinds`, `OutsideKinds`).
- `EditsSurvive`: `Spec => UserEditsSurvive`, with reads as stale as can be. The
  invariant is `CopyAgrees`: the worker's copy, if it is at the server's version, has
  the spec, annotations, foreign finalizer and deletion the users wrote, up to the
  sanitized log format. It is kept because every user's write makes a copy outdated,
  and because sanitizing twice is sanitizing once.
- `LifecycleImplemented`: `Spec => ImplementsLifecycle \/ <>StaleList`. The steps
  that change nothing of what the mapping reads are stutters; each of the others is
  one abstract action. Its guard is where the invariants come in: `OneMark` says that
  nobody owns KEDA when a mark is set; `HeldServed` that a pass that applies objects runs
  for the owner; `WorkloadInv` that nothing is left when the finalizer goes;
  `CopyAgrees` that a finalizer write changes no more than the finalizer. After a stale
  list the guard of `Acquire` fails, and nothing else does before that.
- `PromiseKept`: `KedaLifecycle!Spec => []Promise`, from its type invariant. With the
  refinement, everything proved of the small specification holds of the large one.
- `DeletionInvariant`: `Spec => []DeletionInv`, with reads as stale as can be. A copy
  marked for deletion may be of a CR that has gone and come again under its name;
  `DeletionInv` says that a CR with the finalizer under that name is then marked
  itself, and that the copy knows of the finalizer. It holds because a name is used
  again only once the cache has seen the old CR go, and because the finalizer is added
  only by a pass with a current copy that is not marked. `SettledInvariant` needs it
  for passes that stop without doing anything.
- `SettledInvariant`, `SettledIsInstalled`: for one CR, `[]SettledInv` and from it
  `[]SettledInstalled`. `SettledInstalled` speaks of moments of rest only, so its
  invariant has to say what holds at every other moment. `PassInv` follows the wishes
  of the user through a pass that the queue will not repeat: the copy wants what the
  cached CR wants (`WantsAsCached`); from `sFnApply` on the manifest in memory fits
  it and each watched object fits the manifest, is still to be applied or has an event
  on its way (`ManifestPlaced`); the same of the add-on (`AddonPlaced`); and a pass
  that ends without a requeue leaves a status that is true and is the stored one
  (`EndsWell`). `RestInv` says it of the time between passes. Whatever disturbs one of
  these, an edit that reaches the cache, a conflict, a failed call, a restart,
  puts the CR into the queue or an event on its way; the steps are sorted by that
  (`Undisturbed`, `ObjectsAlone`, `LeftInPlace`, `Steady`). One CR is a real
  condition: the event of an object may be sent to another CR, and `misrouted_event`
  is then a counterexample.
- `ReadyInvariant`, `AddonIsComplete`: for any number of CRs `[]ReadyInv`, and for one
  CR `[]AddonComplete`. `SettledInv` alone does not give `AddonComplete`: it says
  nothing of a CR that is deleted, has lost the manager's finalizer and is kept by
  another one. `ReadyInv` closes that case: Ready is never said of a CR without the
  finalizer, nor of one with the `Deleted` condition, in the server, the cache and
  the copy of the pass.
- `UserResourcesKept`: for `CarefulUsers`, `Spec => UserResourcesSurvive \/ <>StaleList`,
  and `SoleUserResourcesKept`: with one CR, `Spec => UserResourcesSurvive`. `CheckedInv`
  says that while the CRDs are looked at, those with
  instances are still on the list, and that there are no instances when the objects are
  deleted. It is kept because no careful user creates one while a CR with the finalizer
  is being deleted, and the pass runs for such a CR or nobody has the finalizer
  (`SoleHolder`). After a stale list it does not hold, and TLC
  finds how, with three CRs and five edits: two of them are served, as in `stale_list`;
  one of the two is uninstalled and gone, but still in the cache; the other has KEDA
  applied again; the third CR goes, which retriggers all CRs of the cache, and the
  outdated pass of the first deletes the CRD under a new instance. With two CRs and
  four edits there is no such behaviour.
- `HsoLosses`: `Spec => [][HsoLost /\ HsoLate]_vars`, without any condition: moves,
  upgrades, failures, stale reads and users who create HTTPScaledObjects at any time.
  `HsoLost` says that a step of the manager takes HTTPScaledObjects away only in the
  cleanup of a previous installation, after a move or an upgrade, or in a removal of the
  add-on; `HsoLate` that during a removal there are any only if somebody created them in
  it, after the guard had found none. The first is what `addon_move_in_use` shows, the
  second what `CarefulUsers` excludes; there is no third way. In particular a failing
  list of the guard never lets a removal begin, and the deletion of a CR leaves the CRD
  of the add-on alone. `GuardInv` says that an old installation is cleaned up only if
  one is known, and that `Cfg.AddonObjs` is empty before the end of a pass.
- `LeadersOverlap`: `Spec => []LeadersOverlapBriefly` of `ManagerProcess`, for any
  number of processes, any durations with `RenewDeadline < LeaseDuration`, any
  manifest. `LeaseInv` says of every leader that the lease, if it is still its own, was
  renewed when the leader believes it was; that, if it is not, an uninstallation
  deleted it since then; and that nobody else's lease is older than the leader's last
  renewal. So a lease that has run out belongs to nobody who still leads
  (`FreeForAll`), and of two leaders at least one has lost the lease to an uninstallation
  not longer ago than its own deadline.
- `LoggingStaysConsistent`: `Spec => []LoggingConsistent` of `ManagerProcess`, for any
  number of processes, any specs and any manifest that has each logging flag once, as
  `keda.yaml` does (`ShippedAssumption`). `LoggingConsistent` is inductive together with
  the types of the arguments and of the spec (`MemoryInv`); the work is in the lemmas on
  the operators: `AppendMissingArgs` adds nothing to a list that has the flags
  (`NoneMissing`), so `UpdateArgs` writes in place (`UpdateArgsInPlace`);
  `updateMetricsServerLogToStderr` leaves its argument there exactly once
  (`LogToStderrWritten`); and what it writes agrees with the encoder also when the user
  left the format out (`EncoderAgrees`).

- `StartStaysComplete`: `Spec => []StartIsComplete`, for any manifest that has no object
  twice (`PathsAssumption`). `StartInv` reduces it to what the loaders compute, and that
  is induction over the turns of their loops. The library's induction theorems cannot be
  used, but its least element of a set of numbers can (`WFMin`): `CountUp` says that a set
  with 0 and, with each number below the bound, the next one has all of them. With it
  `LoopRuns` shows that a loop has its sequence of states, so that the recursive functions
  satisfy their own equations (`ResultsTurn`, `FilesTurn`, `WatchesTurn`,
  `RequiredTurn`). The loop invariants are `LoadedSoFar` (the objects of the first
  documents of a file, each once, in the order of `Precedes`), `FilesSoFar` (the same of
  the first files) and `WatchedSoFar` (one watch for each kind among the first objects).
- `PassesRepeat`: `Spec => []PassRepeats`. The chain of update functions is idempotent
  (`UpdateDeploymentTwice`), but not on any template: `AppendMissingArgs` and
  `--logtostderr` need the flags to be there once, so it is shown for the memories that
  passes can leave (`MemoryInv`, `TemplateOK`).
- `ProcessInvariant`, `LeadersRestOnFit`: `Spec => []RestMeansFit`. `RestMeansFit` speaks
  of leaders at rest; `RestInv` says of every leader that has taken the spec in
  (`Current`) that its memory is what a pass with that spec leaves, and that each
  Deployment is in the cluster as in that memory, still on its list, or among those
  whose Patch failed in this pass (`ApplyObjectFailsRests`); the loop goes on after a
  failure, so the others are not affected by it. After an edit no
  leader is current; a Patch of another leader, with whatever it has in memory, either
  changes nothing or is noticed, because every kind of the manifest is watched
  (`StartIsComplete` is used here); uninstallation ends with no CR or with one being
  deleted. What a pass with the spec leaves fits the spec by the lemmas on the
  operators: each flag has the one value the user means (`UpdatedArgsMeant`), the
  environment has all the user wrote and all that is required, no name twice unless the
  user wrote it twice (`SanitizedEnvFits`, again an induction over a loop), the user's
  annotations win over merged ones, and the image is the override or the shipped one
  (`UpdateDeploymentFits`).

All of these inductive invariants hold on the TLC instances too.

Only model-checked is liveness (`SomeKedaServed`, `InstallCompletes`,
`DeletionCompletes`, `AddonConverges`, `EventsQuiesce`, `WorkloadsConverge`,
`PassesQuiesce`): fairness and `ENABLED` are beyond the prover. Every invariant and every
action property of a passing run is a theorem, with the conditions given above;
`HttpScaledObjectsSurvive` is not one, and `HsoLosses` is what holds instead.

## 5. What is left out

- Status messages, transition times, logs, metrics, probes, flags and RBAC.
- Labels that are the same in every pass, and the do-not-edit annotation.
- The order of a list from the cache is arbitrary; watch events of one object that
  were not handled yet are merged; a CR name is used again only once the informer
  has seen the old CR go.
- Changes of a CR's labels only enqueue it and are not made. Errors of the list
  calls inside `mapFunction` and `retriggerAllKedaCRs`, which read the cache, are
  not modelled.
- Conversion errors in the update chain and in `sFnVerify` cannot occur with the
  manifest as shipped. A failing list in `checkAddonOrphanResources` cannot occur
  because the function returns before it.
- What the RESTMapper learns from other calls than the lists of
  `checkCRDOrphanResources`: the manager makes no other call with the kinds of KEDA's
  CRDs. Its lookup finds the kind asked for and may find others of its API group.
- Pods of keda-operator linger for their grace period when the Deployment is
  deleted; in the model the operator stops at once and cannot take its lease again
  afterwards.
- The namespace that `ensureNamespace` creates is not tracked, only that the call
  may fail. What `overrideNamespace` writes into the add-on's objects besides their
  namespace is part of their identity in the model.
- Labels of managed objects are not tampered with: an object that loses
  `app.kubernetes.io/part-of` would not be noticed.
- `LatestVersion` in `pkg/addon` is not called by the manager. The generated deep
  copies, RBAC markers and mocks have no behaviour of their own.
- Run-time changes of the manager's own log level.
- The cascade and upstream deletion strategies: nothing selects them.

## 6. Plan

Done: both specifications, the runs of section 3, the refinement and the proofs of
section 4. What could follow:

1. `SettledInstalled` for several CRs under a condition on where events are sent
   weaker than "one CR".
2. The safety half of `PassesQuiesce`: how many passes leaders with different memories
   can cause each other at most.
