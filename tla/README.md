# Verification of livellm-browser-operator

TLA+ models of the operator, the TLC runs that check them, and TLAPS proofs
about them. The repository's code is the reference. It is quoted here by file
name: `browser_controller.go`, `controller_controller.go`, `resources.go` and
`controller_resources.go` are in `internal/controller`, `browser_types.go` and
`controller_types.go` in `api/v1alpha1`.

## 1. Inventory

The operator is one process (`main.go`, one replica, `--leader-elect=false` in
`deploy/operator.yaml:25`) with two reconcilers on one manager. It has no tests.

| Part | State | Operations | Talks to |
| --- | --- | --- | --- |
| Browser reconciler (`browser_controller.go`) | none of its own: the local variables of one `Reconcile` | add finalizer, clean up and remove it, ensure claim / Deployment / Service, find the ready pod, read cookies, list / create launcher browsers, list / add extensions, write the status | API server through a cache, launcher over HTTP |
| Browser resources (`resources.go`) | the claim, Deployment and Service of each Browser | `buildPVC`, `applyDeploymentSpec`, `applyServiceSpec`, `isPodReady` | |
| Browser API (`browser_types.go`) | spec and status of a Browser | | users write the spec; the Controller reconciler reads the status |
| Controller reconciler (`controller_controller.go`) | `status.registeredBrowsers` of the Controller | ensure Deployment / Service, find readiness, register and deregister browsers, write the status, remove the finalizer on deletion (nothing is deregistered then) | API server, controller process over HTTP, statuses of all Browsers |
| Controller resources (`controller_resources.go`) | the Deployment and Service of each Controller | `applyControllerDeploymentSpec`, `applyControllerServiceSpec` | |
| Work queue, watches (controller-runtime) | one set of names per reconciler, delayed requeues | watch events, requeue after 30 s / 10 s / 5 s, back-off on errors | |
| Outside the code | API server, informer cache, garbage collector, claim protection, pods, launcher, controller process, users | | |

**Browser -> Deployment -> pod -> launcher -> Chrome.** A Browser's Deployment
has 0 or 1 replicas. Its pod runs a launcher that starts a default Chrome and
further ones on `POST /browsers`. The reconciler asks the launcher which Chromes
it runs and copies one address into `status`. The Controller reconciler reads
those addresses and registers them with its controller process. Nothing watches
pods, launchers or controller processes: what changes there is noticed by
requeues only. The two reconcilers also meet where a Browser and a Controller
have one name: both name their Deployment and Service after their object.

**What is hard.** Reads come from a cache that may be behind by edits, a
deletion or a re-creation under the same name. A reconcile makes up to ten
calls, up to three of them over HTTP with a timeout of 60 s, and everything may change
between two of them. Every call may fail, also after it took effect. The
operator may die between two calls. Correctness rests on three mechanisms: the
conflict on `resourceVersion` for writes to the Browser itself, requeues, and
the finalizer.

**What makes each part correct.**

- *Browser reconciler.* A Browser is never forgotten; a status is published
  only for the spec it was computed from; children and finalizer agree, so that
  nothing outlives the clean-up; the claim is deleted exactly on request; a
  Chrome that is up is not restarted without need; in the end status and
  cluster are what the spec asks for.
- *Controller reconciler.* In the end the controller process knows exactly the
  running browsers it should, at their current addresses; the status says what
  it knows.
- *Both together.* Of a Browser and a Controller of one name, one is served,
  and the other one neither disturbs it nor is shut out after it.
- *Resource builders.* A selector finds the pods of its own object and no
  others; Service, container and probe agree on the ports; requests stay below
  limits, or the Deployment is refused.

## 2. Modules

| Module | Models | Extends |
| --- | --- | --- |
| `ObjectStore` | API server and informer for one Browser name: `api`, `cache`, and `unseen`, the versions in between | |
| `BrowserWorkload` | claim, Deployment, Service, pods and launcher of that name, and the cluster's steps on them | `ObjectStore` |
| `BrowserReconciler` | `Reconcile` call by call, work queue, users, restarts; the properties | `BrowserWorkload` |
| `ObjectStore_proof` | facts about the store both reconcilers' proofs use | `ObjectStore`, `TLAPS` |
| `BrowserInvariant` | inductive invariants in named parts: `IInv`, `ChildrenInPlace`, `ClaimInv` | `BrowserReconciler` |
| `BrowserReconciler_proof` | theorems about status, children, restarts, wake-ups | `BrowserInvariant`, `ObjectStore_proof` |
| `BrowserClaims_proof` | theorems about the volume claim | `BrowserReconciler_proof` |
| `BrowserProgress` | liveness: a budget of mishaps, fairness, `Converges` | `BrowserReconciler` |
| `BrowserProtocol` | the life of a Browser as users and Controllers see it: which versions may follow which | |
| `BrowserContract` | what the reconciler promises: the protocol, and when its claim is made and deleted | `BrowserProtocol` |
| `BrowserRefinement` | what of the reconciler's state the contract sees | `BrowserReconciler` |
| `BrowserRefinement_proof` | that the reconciler implements the contract | `BrowserRefinement`, `BrowserClaims_proof`, `BrowserProgress` |
| `BrowserPromises` | what comments about Browsers say and the code does not do | `BrowserReconciler` |
| `ControllerWorkload` | Deployment, Service and pods of one Controller, what each pod knows, and the cached Browsers | `ObjectStore` |
| `ControllerReconciler` | `Reconcile` of a Controller with the registration sync, call by call; the properties | `ControllerWorkload` |
| `ControllerInvariant` | inductive invariants: `IInv`, `ChildrenInPlace`, `SyncInv`, `RecordInv` | `ControllerReconciler` |
| `ControllerReconciler_proof` | theorems about the Controller reconciler with any Browsers | `ControllerInvariant`, `ObjectStore_proof` |
| `ControllerProgress` | the sync against Browsers that follow `BrowserProtocol`, under a budget of changes and failures | `ControllerInvariant` |
| `ControllerProgress_proof` | theorems about the sync and the status as a record of it | `ControllerProgress`, `ControllerReconciler_proof` |
| `SharedName` | both reconcilers over one Deployment and one Service | instances of both |
| `SharedName_proof` | theorems about it | `SharedName`, instances of both proof modules |
| `Resources` | labels, selectors, overrides and the objects built from them, as operators | |
| `Resources_proof` | the theorems about them | `Resources`, `TLAPS` |
| `MCBrowser`, `MCProgress`, `MCPromises`, `MCController`, `MCControllerProgress`, `MCSharedName` | constants for TLC | |

### How state corresponds to the code

| Model | Code |
| --- | --- |
| `api`, `cache` | the Browser in the API server, and what `r.Get` returns (`browser_controller.go:86`) |
| `task.step` | the next call `Reconcile` will make |
| `task.browser` | the local variable `browser`, fetched once and carried through every function |
| `task.fresh` | the `resourceVersion` in `task.browser` is still the API server's; `Update` and `Status().Update` succeed exactly then |
| `task.pod`, `task.cookies`, `task.target`, `task.missing` | `readyPod`, `cookies`, the `launcherBrowser` found, `missing` in `syncExtensionsIfNeeded` |
| `task.outcome` | the status about to be written |
| `queued`, `timer` | the name is in the work queue; a `RequeueAfter` or a back-off is pending |
| `deploy`, `svc`, `pvc`, `pvcSeen` | owner and replicas, owner, state of the claim, and whether the cache has it |
| `pods`, `launcher` | pods of the Deployment and the Chromes their launchers run, by profile |

A target `[pod, profile, endpoint]` stands for the five address fields of the
status (`podName`, `podIP`, `cdpPort`, `wsEndpoint`, `wsUrl`), which the code
always writes together, and for the `wsUrl` that a Running Browser's status is
compared by (`browser_controller.go:273`). Message texts are one value per case;
all launcher errors are one, so that a second one in a row may or may not cause
a status update, as its text decides in the code (`:330`).

One action is one call with the code that runs up to the next one. An action
that ends in `Report` includes the comparison with the in-memory status that
decides whether there is a status update at all; `Reported` is that comparison,
of different fields for each phase. `EnsureDeployment` and `EnsureService` are
`CreateOrUpdate`, a read from the cache and a write, in one step; the conflict
in between, which an old cached child causes, is `EnsureFails` with the fault
`api`. `Return(TRUE)` is any return
with an error, `Requeue` or `RequeueAfter`. `Return(FALSE)` occurs only where
`Reconcile` returns an empty result: not found, and after the finalizer.

Four points of the environment that matter:

- *Ownership is by name.* `SetControllerReference` compares group, kind and name
  of an existing controller reference, not its uid. A re-created Browser
  therefore adopts its predecessor's Deployment and Service, unless the garbage
  collector is faster. The collector goes by uid.
- *The claim has no owner.* It survives its Browser unless `handleDeletion`
  deletes it, and a deleted claim stays, terminating, as long as a pod uses it.
- *Pods are slots.* A slot used again is a pod that got the same IP again.
- *The cache is never older after a restart.* A start lists the objects anew.

For the Controller, `task`, `queued`, `timer`, `deploy` and `svc` are the same,
and in addition:

| Model | Code |
| --- | --- |
| `browsers` | what `r.List(&browsers)` returns (`controller_controller.go:244`): per name profile, Running or not, `wsUrl`, labels |
| `task.register`, `task.deregister` | the POSTs and DELETEs the sync still has to make, the POSTs as entries by their place in the list; the loops are planned from one list and one copy of the status |
| `api.status.registered` | `currentMap` as the next sync builds it from `status.registeredBrowsers` |
| `known` | per controller pod, the address it was given for each `browser_id`; it has no volume, so a pod starts with none |

The sync's calls are steps of their own, so Browsers may change, the pod may
disappear and the operator may die between any two of them. Their results are
ignored by the code and so by the model: `RegisterFails` goes on exactly like
`RegisterBrowser`. A status update that changes nothing makes no new version
(`Put`), or the reconciler would wake itself up for ever.

### How the modules compose

*The contract.* `BrowserContract` has two variables, the Browser as others see
it and the claim, and none of the operator's. `BrowserRefinement` maps `api` and
`pvc` to them: finalizer and deletion timestamp become one life (`absent`,
`new`, `managed`, `deleting`), a spec the part of it others depend on, a status
its phase and address. `ImplementsContract` says that no lag, no failure and no
crash of the operator shows: a status fits the spec of the moment it is
written, nothing happens to an object nobody manages, a claim is made only for
a managed Browser and gone before a Browser with policy Delete is.

*The Controller's Browsers.* `ControllerProgress` lets each of its Browsers
take the steps of `BrowserProtocol` that the contract allows, instead of
arbitrary ones, and shows the versions to the cache one after the other
(`BrowserMoves`). What `browser_progress` checks of the Browser reconciler is
thus what `controller_delivery` assumes. One assumption is added: an address
that was replaced does not come back, since it holds the random id of a Chrome.
A Browser that falls back to Creating keeps its address and may be Running at it
again.

*One name.* `SharedName` instantiates both reconcilers without pods. There is
one Deployment and one Service of the name; `bdeploy` and `bsvc` hold them while
a Browser owns them, `cdeploy` and `csvc` while a Controller does. An ensure
step that comes upon a child of the other kind is `AlreadyOwnedError`: it ends
the reconcile with a retry, as `Reconcile` does with every error of an ensure
function. Events of the Browser wake the Controller too
(`controller_controller.go:61`), and a restart hits both.

*Builders.* The state machines keep owner and replicas of a Deployment.
`Resources` has the rest of what `resources.go` and `controller_resources.go`
compute from a spec. `OwnPodsOnly` is why the state machines may treat each
name by itself and keep the pods of the two kinds apart.

### Properties and runs

Passing runs, with the instances they use:

| Run | Checks | Instance |
| --- | --- | --- |
| `browser_lifecycle` | `TypeOK`, `IInv`, `NoLostWakeup`, `ChildrenOfLiveBrowser`, `VolumeDeletedOnRequest`, `DeleteReclaims`, `ImplementsContract`, `ClaimInv` | 1 pod, 2 incarnations, both policies, lag 2, faults `api` and `http` |
| `browser_discovery` | `NoNeedlessRestart`, `StatusFollowsSpec` | two profiles, cookies, an extension, two endpoints (symmetric), lost replies, Chrome restarts, evictions |
| `browser_progress` | `Converges`, `ImplementsContract` | running and stopped, 2 endpoints, an extension, 2 incarnations, lag 1, three user writes, failures, disruptions or children deleted by hand |
| `controller_lifecycle` | `TypeOK`, `IInv`, `NoLostWakeup`, `ChildrenOfLiveController` | 1 pod, 2 incarnations, with and without a selector, lag 2, every fault but `child` |
| `controller_delivery` | `EarnedUnlessLost`, `TrueUnlessLost`, `StatusConverges`, `KnownUnlessLost`, `RecordsUnlessLost`, `ForgetsUnlessLost` | 2 running Browsers, one with three addresses in two profiles, with and without a selector, 2 incarnations of the Controller, three changes or failures of every kind, the creation of the Controller included |
| `shared_name` | `SharedInv`, `NeverSplit`, `StatusOfHolder`, `OneServed` | two incarnations of each, lag 1, four user writes or restarts |

Two incarnations are what it takes to confuse an object with its successor, a
lag of two writes puts a whole deletion between the cache and the API server,
and two endpoints tell a Chrome from the one that replaced it. Creating an
object is one of the mishaps of its run. `controller_delivery` starts with
running Browsers, so its three are the Controller and two more, at any moment: a
change of a Browser and a call that fails or a restart, two changes (of profile
and address, say) in the middle of a sync, or a deletion of the Controller and a
second one. `browser_progress` likewise has a Browser and two more, and the four
of `shared_name` are enough to create both, delete one and either create it
again or restart the operator.
`MaxUid` and `MaxLag` bound the users only; no action of the operator or of the
cluster is bounded. `CHECK_DEADLOCK FALSE` is set since the system may stop:
with no object left and no name to create, nothing has to happen.

`VolumeDeletedOnRequest` and `DeleteReclaims` are checked without the fault
`reclaim`. A failed delete of the claim is logged and the finalizer goes
(`browser_controller.go:142`), so then the claim stays for good; and a second
clean-up from a stale cache may then delete what the first one left, which is
what the user asked for, but after the Browser is gone. What the policy has to do
with it is checked in one direction: if it is Delete at the end, the claim has
been deleted. A claim that was deleted under Delete stays so when the policy
becomes Retain before the finalizer goes.
`VolumeDeletedOnRequest` also lets a clean-up go by the policy of its own copy
when that copy misses an edit, whether made during the call or just not cached at
the fetch.

The code keeps `status.registeredBrowsers` as the only memory of what the
controller process was told, and four things break it: a call that fails, a pod
that restarts, a sync that is not recorded, and the removal of a Controller
whose status lists something. A call counts as lost only if its effect is not
there without it, and a pod that stops only if it knew something; a repeated POST
of what the process knows already, as after a refused update, is no loss when it
fails. The last of the four shows only with two incarnations: the
finalizer goes without a deregistration (`controller_controller.go:117`), and a
successor created at once adopts the Deployment with its running pod, whose
registrations its own empty status does not have. `lost` notes which of them have
happened. `KnownUnlessLost` says that nothing else breaks the record, so that
with none of them the process ends up with exactly the addresses it should have;
`TrueUnlessLost` is the reason, a statement about every state: the process knows
what the status lists, in a sync as far as the sync leaves it alone.
`EarnedUnlessLost` is the other half, which needs only the calls: what a sync is
about to record it has done, or still has to do. `RecordsUnlessLost` and
`ForgetsUnlessLost` say of each step that the status only records calls that were
made, as long as no call and no pod's knowledge is lost. `StatusConverges` holds whatever is
lost.

Children deleted by hand (`DeleteChild`; for the Controller the fault `child`)
are in `browser_progress` and `controller_delivery`, since what matters about
them is that they come back. The runs that end in a counterexample leave out all
faults but the one they are about, if any. A claim deleted by hand is not
modelled. Nor is a hand-made deletion in `shared_name`: there it splits the
children between the two owners, and neither ever gets out of it.

The runs that end in a counterexample check what a comment of the repository
says and the code does not do:

| Run | Property | What happens |
| --- | --- | --- |
| `doomed_volume` | `RunsOnKeptVolume` | deleted under Delete and created again under Retain: `ensurePVC` finds the terminating claim, and the new Browser runs on it |
| `install_fails` | `FailedInstallIsNonFatal` | the comment calls a failed install non-fatal, the caller turns it into phase Creating |
| `failed_register` | `RecordsOnlyRegistered` | a failed POST is recorded like a successful one, and not retried |
| `controller_restart` | `AddressesArrive` | the controller pod is lost, its successor has no registrations, the status still has them, nothing is registered again |
| `cut_off_sync` | `AddressesArrive` | a Browser falls back to Creating and is deregistered, the status update conflicts since the copy was old, the Browser runs again at its address: the status still lists it, and it is never registered again |
| `lost_record` | `RemovedAreDeregistered` | without any failure: a sync from an old copy registers a Browser, its update conflicts, the Browser goes, and the process keeps it |

What else the models show, without a run of its own: a failed DELETE is dropped
from the status (`controller_controller.go:296`); a Controller created again at
once takes over a pod that still knows its predecessor's browsers (`:117`); with two replicas a
registration reaches one pod (`:186`); two Browsers with one `profileUid` are
registered over each other for ever (`:279`); an ensure function that fails
ends the reconcile, and a status that says Running stays as it is
(`browser_controller.go:109`); cookies are injected only when a
browser is created, so a failed read of them is final
(`browser_controller.go:258`) and the default profile, which is never created,
gets none (`:370`); a status that falls back to Creating keeps the address of
the pod that is gone (`:330`).

### Fairness

`BrowserProgress`, `ControllerProgress` and `SharedName` assume weak fairness
of: each step of a worker, without failures; delivery of watch events; the delayed requeue; the claim, garbage
collector and kubelet steps. The worker's goroutine never waits on anything but
a call, and every call has a timeout; delayed requeues are timers; the rest is
the cluster's own control loops. Users, faults, restarts and disruptions are
not fair and happen at most `MaxMishaps` times. `ChildEvent` is not fair either:
convergence does not depend on the watch of children. In `SharedName` each
reconciler has its own worker, and each is fair by itself.

## 3. Proofs

Every theorem holds for all constants that satisfy the modules' assumptions: any
set of pods, profiles, endpoints, extensions, labels, specs and faults, any lag
and any number of incarnations and restarts. What a theorem supposes beyond that
is in its statement and in the tables.

### The Browser reconciler

| Theorem | Says | Supposes |
| --- | --- | --- |
| `TypeCorrect` | `Spec => []TypeOK` | |
| `Invariance` | `Spec => []IInv` | |
| `Wakeups` | `Spec => []NoLostWakeup` | |
| `PublishedForSpec` | `Spec => StatusFollowsSpec` | |
| `ChildrenAreOwned` | `Spec => ChildrenOfLiveBrowser` | |
| `RestartsAreNeeded` | `Spec => NoNeedlessRestart` | |
| `ClaimInvariance` | `Spec => []ClaimInv` | |
| `ClaimsGoOnRequest` | `Spec => VolumeDeletedOnRequest` | deletes of the claim do not fail |
| `PolicyIsHonoured` | `Spec => DeleteReclaims` | deletes of the claim do not fail |
| `Implementation` | `Spec => ImplementsContract` | deletes of the claim do not fail |
| `BoundedImplementation` | `ProgressSpec => ImplementsContract` | deletes of the claim do not fail |

The last four suppose `"reclaim" \notin Faults`. The code makes no promise
without that: it logs the error and drops the finalizer
(`browser_controller.go:142`), and the three properties are false then.

The argument:

- *Status.* `task.outcome` was computed from `task.browser`
  (`OutcomeFitsCopy`), and `task.fresh` says that this copy is the API server's
  object (`FreshIsCurrent`). The write happens only if it still is.
  `FreshIsCurrent` has to survive every step that writes the object, which
  needs `CacheFollows`: the versions in `unseen` lead from `cache` to `api`, so
  a cache that is caught up equals the API server.
- *Children.* They are written from copies that may be arbitrarily old, so
  freshness does not help. `GuardedIsAlive` does: if any version that is around
  (cached, on its way, or in the worker's hands) of an incarnation has the
  finalizer and is not being deleted, that incarnation still exists and still
  has the finalizer. Only `RemoveFinalizer` takes it away, and it needs a fresh
  copy that is being deleted, taken when the cache was caught up: then no such
  older version is left anywhere.
- *Restarts.* A Chrome is created only for a profile that was not listed and
  extensions are added only if they were missing, but in an earlier call.
  `LauncherAsRead` says what is still true of the launcher at the later call:
  it could lose Chromes in between, never gain them, since only this worker
  creates any.
- *Wake-ups.* `NoLostWakeup` is inductive together with the types.
- *The claim.* `DeletePVC` looks at neither uid nor `resourceVersion`, so a late
  clean-up might take a successor's claim. What keeps it from that is `ClaimInv`:
  uids never fall from the worker's copy to the cache, along the watch and to the
  API server (`UidsGrow`); a deletion is never taken back (`DeletionIsFinal`);
  and while there is a claim to delete, every version that asks for it is of the
  Browser that exists and is being deleted (`ClaimIsOwn`). The two steps that
  could break the last one are `EnsurePVC`, which makes a claim: its copy is
  guarded, hence of the current incarnation, and nothing older is left to be
  read; and the creation of a successor: it needs the predecessor to be gone,
  which its finalizer allowed only with no claim left or no one asking.
- *The contract.* Steps that write the Browser are each one of the protocol's:
  creation, edit, adoption (`AddFinalizer`), deletion, publication
  (`UpdateStatus`) and removal (`RemoveFinalizer`); `EnsurePVC`, `DeletePVC` and
  `ClaimRemoved` move the claim; no other step shows. That a publication is
  suitable for the spec is `OutcomeFitsCopy` with `FreshIsCurrent`; that the
  claim moves at the right time is `ClaimInv`. `BoundedImplementation` adds what
  `Spec` leaves out, Deployment and Service deleted by hand: the invariants say
  nothing of either but its type.

### The Controller reconciler

| Theorem | Says | Supposes |
| --- | --- | --- |
| `TypeCorrect` | `Spec => []TypeOK` | |
| `Invariance` | `Spec => []IInv` | |
| `Wakeups` | `Spec => []NoLostWakeup` | |
| `ChildrenAreOwned` | `Spec => ChildrenOfLiveController` | |
| `OutcomesAreEarned` | `ProgressSpec => []EarnedUnlessLost` | one pod |
| `RecordsAreTrue` | `ProgressSpec => RecordsUnlessLost` | one pod |
| `ForgettingIsTrue` | `ProgressSpec => ForgetsUnlessLost` | one pod |
| `StatusIsTrue` | `ProgressSpec => []TrueUnlessLost` | one pod, no two Browsers with one profile |

`IInv` is the counterpart of the Browser's, with the same argument for children
and wake-ups. `NoLostWakeup` matters more here: the watch that maps Browsers to
Controllers misses a Controller that is not cached yet.

*What a sync records* (`SyncInv`). The plan is made from one list and one copy,
so its calls and the status it will write fit each other: every entry to be added
or moved has a call left, and among several calls for one profile the one at the
last place decides (`Decides`), which is the address the status will list. A call
that gets through turns "left to do" into "done" for the only pod. A copy too old
does not hurt: the status is written only over the version it was compared with
(`FreshIsCurrent`). That a largest place exists is proved from the
well-foundedness of the naturals, for lists of any length.

*Why the status is a memory* (`RecordInv`). Between two syncs the process knows
exactly what the status lists. A sync whose update is refused, or that dies with
the operator, keeps this only if it had nothing to change; that is what
`LosesRecords` says, and the invariant shows that nothing more is needed. In a
sync the same holds of all profiles it leaves alone (`Untouched`), and its calls
are for the others. With two Browsers of one profile this is false: the first
of the two is registered at each sync although the status will be as before.

*One pod* (`SinglePod`). The code sends each call through the Service, to one
pod, and records it for the Controller. With `spec.replicas` above its default
of 1 the other pods are not told, and nothing of the kind holds.
`ProfilesApart` is not enforced by the code either; what happens without it is
listed above.

### Both under one name

| Theorem | Says |
| --- | --- |
| `SharedInvariance` | `Spec => []SharedInv` |
| `NobodyIsSplit` | `Spec => []NeverSplit` |
| `OnlyTheHolderReports` | `Spec => StatusOfHolder` |

`SharedName_proof` instantiates the proof modules of both sides and cites their
lemmas. Each step is, for either side, one of its own or the end of a refused
reconcile, `Return(TRUE)`, and both invariants survive that. `ChildrenInPlace`
gives the rest: whoever exists and has the Service has the Deployment, because
the Deployment is ensured first and the collector takes either only after the
owner is gone. A side takes a child only where the other has none, so the one
that has the Service cannot meet another's Deployment. Hand-made deletions break
`ChildrenInPlace`, and with it `NeverSplit`.

### Builders

`Resources_proof` proves, for all names and specs:

| Theorem | Says |
| --- | --- |
| `OwnPodsOnly` | a selector matches the labels of its own object's pods and of no others |
| `ServiceReachesPods` | a Service selects the pods of its Deployment, its target ports are ports of the container, and the probed port is one of them |
| `ValidExactly` | a Deployment is valid exactly if each request is within its limit, where a default stands in for whichever of the two is missing |

No run reaches `Resources`: these are facts about single objects, and the
proofs leave no case to try. `ValidExactly` shows a trap: a spec that asks for
more memory than the default limit, and gives no limit, is refused by the API
server on every retry.

### Model-checked only

`Converges`, `StatusConverges`, `KnownUnlessLost` and `OneServed`: liveness under
fairness is out of the prover's reach. `StatusIsTrue` proves the part of
`KnownUnlessLost` that is an invariant. The counterexamples are runs only. Every
other property that a passing run checks is a theorem.

## 4. Not modelled

- Other names of the same kind (the Controller model has several Browsers, as
  the cache shows them): they share the worker's time with this one and nothing
  else. Real time is not modelled; a timeout is a call that fails.
- The proxy of a spec, environment, mounts, probe intervals and security context
  of pods: they are passed on or fixed, and steer nothing.
- A panic on a malformed quantity (`ClaimPanics` and `DeploymentPanics` in
  `Resources`) is, to the state machines, an ensure call that fails.
- A claim deleted by hand, and children deleted by hand where two owners share a
  name.
- Leader election, probes, flags, RBAC, CRD schema.
- Generated deep copies and the scheme registration.

## 5. Plan

1. Done: Browser reconciler, its environment, liveness, first theorems.
2. Done: Controller reconciler, its sync and liveness, over two Browsers.
3. Done: the contract of a Browser, the reconciler shown to implement it, the
   Controller model built on it; both reconcilers under one name; the builders.
4. Done, theorems: the claim, the contract as a refinement, the Controller
   reconciler with its sync and its record, both under one name.
5. Next: the sync with several pods (what still holds is that each entry was
   given to at least one pod); that, with the record true and the status as
   wanted, the process knows exactly the wanted addresses, as the last step of
   `KnownUnlessLost` without liveness.
