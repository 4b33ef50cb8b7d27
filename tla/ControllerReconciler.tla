------------------------- MODULE ControllerReconciler -------------------------
(***************************************************************************)
(* ControllerReconciler.Reconcile of controller_controller.go for one      *)
(* Controller name: its Deployment and Service, its status, and the sync   *)
(* that tells the controller process which browsers there are.             *)
(*                                                                         *)
(* One worker, one call per step, as in BrowserReconciler.  The sync plans *)
(* all its calls from one read of the cache and from the registrations in  *)
(* the copy's status, then makes them one by one and ignores their results.*)
(***************************************************************************)
EXTENDS ControllerWorkload

CONSTANTS
    SpecChoices,   \* the specs users apply
    MaxUid,        \* bound: incarnations of the name
    MaxLag,        \* bound: users write only while the cache lags by less
    Faults         \* the failures that may happen: of calls to the API server, of the
                   \* status update, of POST and DELETE, of pods, of readiness probes,
                   \* of the operator, and (ControllerProgress) children deleted by hand

ASSUME ReconcilerAssumption ==
    /\ SpecChoices \subseteq Specs
    /\ MaxUid \in Nat /\ MaxLag \in Nat
    /\ Faults \subseteq {"api", "status", "register", "deregister", "pod", "probe",
                  "operator", "child"}

VARIABLES
    queued,   \* the name is in the work queue, or dirty while being processed
    timer,    \* a delayed requeue (RequeueAfter or rate-limited) is pending
    task      \* the worker: the next call to make and the variables of Reconcile

queue == <<queued, timer>>
vars  == <<store, browsers, children, runtime, queue, task>>

\* controller is the in-memory copy; fresh says that its resourceVersion is the
\* API server's; register and deregister are the calls the sync has left, and
\* outcome is the status about to be written.
Idle == [step |-> "idle", controller |-> Gone(NewController(0, CHOOSE s \in Specs : TRUE)),
         fresh |-> FALSE, register |-> {}, deregister |-> {}, outcome |-> NoStatus]

Steps == {"idle", "addFinalizer", "removeFinalizer", "deployment", "service",
          "pods", "sync", "status"}

At(step) == task.step = step

Goto(step) == task' = [task EXCEPT !.step = step]

\* Reconcile returns: requeue unless it returned an empty result and no error.
Return(requeue) ==
    /\ task' = Idle
    /\ timer' = (timer \/ requeue)

\* The API server takes a write that changes nothing without a new version.
Put(obj) == IF obj = api THEN UNCHANGED store ELSE Write(obj)

------------------------------------------------------------------------------
(* Fetch, finalizer, child resources. *)

\* Mutant: the finalizer is never added.
NoFinalizerStep(obj) == IF obj.deleting THEN "removeFinalizer" ELSE "deployment"

FirstStep(obj) ==
    CASE obj.deleting -> "removeFinalizer"
      [] ~obj.deleting /\ ~obj.finalizer -> "addFinalizer"
      [] OTHER -> "deployment"

Reconcile ==
    /\ At("idle") /\ queued
    /\ queued' = FALSE
    /\ \/ /\ ~cache.exists \/ (cache.deleting /\ ~cache.finalizer)
          /\ Return(FALSE)
       \/ /\ cache.exists /\ (cache.deleting => cache.finalizer)
          /\ task' = [Idle EXCEPT !.step = FirstStep(cache), !.controller = cache,
                                  !.fresh = CaughtUp]
          /\ UNCHANGED timer
    /\ UNCHANGED <<store, browsers, children, runtime>>

AddFinalizer ==
    /\ At("addFinalizer") /\ task.fresh
    /\ LET obj == [api EXCEPT !.finalizer = TRUE] IN
         /\ Write(obj)
         /\ task' = [task EXCEPT !.step = "deployment", !.controller = obj]
    /\ UNCHANGED <<queue, browsers, children, runtime>>

RemoveFinalizer ==
    /\ At("removeFinalizer") /\ task.fresh
    /\ Write(Gone(api))
    /\ Return(FALSE)
    /\ UNCHANGED <<queued, browsers, children, runtime>>

\* A Deployment of an earlier Controller of the same name is taken over.
EnsureDeployment ==
    /\ At("deployment")
    /\ deploy' = [owner |-> task.controller.uid,
                  replicas |-> task.controller.spec.replicas]
    /\ Goto("service")
    /\ UNCHANGED <<store, browsers, svc, runtime, queue>>

EnsureService ==
    /\ At("service")
    /\ svc' = task.controller.uid
    /\ Goto("pods")
    /\ UNCHANGED <<store, browsers, deploy, runtime, queue>>

\* A failed call before the sync ends the reconcile with a retry.
EnsureFails ==
    /\ task.step \in {"deployment", "service", "pods"} /\ "api" \in Faults
    /\ Return(TRUE)
    /\ UNCHANGED <<queued, store, browsers, children, runtime>>

------------------------------------------------------------------------------
(* Browser registration sync. *)

\* Mutant: a nil list is stored like any other.
NilStored(phase, registered) ==
    task' = [task EXCEPT !.step = "status",
                         !.outcome = [phase |-> phase, registered |-> None]]

\* The status about to be written; a nil list leaves the registrations alone.
Outcome(phase, registered) ==
    task' = [task EXCEPT !.step = "status",
                         !.outcome = [phase |-> phase, registered |-> registered]]

\* The Browsers to register: the selected ones that run and have an address.
Desired ==
    {n \in Names : /\ browsers[n] # None
                   /\ task.controller.spec.browserSelector \subseteq browsers[n].labels
                   /\ browsers[n].running /\ browsers[n].wsUrl # 0}

\* The cache lists Browsers in any order, which sort.Slice keeps among (up to
\* twelve) entries of one profile.
Orders(S) ==
    {order \in [1 .. Cardinality(S) -> S] :
        \A i, j \in DOMAIN order : i # j => order[i] # order[j]}

\* What the sync takes from the list: for each place the profile and the address.
Entries == [at: Nat, profile: Profiles, wsUrl: Nat]

EntriesOf(listed) ==
    {[at |-> i, profile |-> browsers[listed[i]].profile, wsUrl |-> browsers[listed[i]].wsUrl] :
        i \in DOMAIN listed}

\* Of several entries for one profile the last one counts.
LastOf(entries) ==
    [q \in Profiles |->
        LET mine == {e \in entries : e.profile = q} IN
        IF mine = {} THEN None
        ELSE (CHOOSE e \in mine : \A f \in mine : f.at <= e.at).wsUrl]

\* The sync goes on with the calls it has left, POSTs first, or ends.
Sync(outcome, register, deregister) ==
    task' = [task EXCEPT
        !.outcome = outcome,
        !.step = IF register = {} /\ deregister = {} THEN "status" ELSE "sync",
        !.register = register, !.deregister = deregister]

\* Mutant: an empty result is nil, so that the last Browser stays listed.
NilForEmpty(listed) ==
    LET current == task.controller.status.registered
        entries == EntriesOf(listed)
        result  == IF entries = {} THEN current ELSE LastOf(entries)
    IN Sync([phase |-> "Running", registered |-> result],
            {e \in entries : current[e.profile] # e.wsUrl},
            {q \in Profiles : current[q] # None /\ result[q] = None})

\* Mutant: a profile that is registered is skipped whatever its address.
SkipRegistered(listed) ==
    LET current == task.controller.status.registered
        entries == EntriesOf(listed)
        result  == LastOf(entries)
    IN Sync([phase |-> "Running", registered |-> result],
            {e \in entries : current[e.profile] = None},
            {q \in Profiles : current[q] # None /\ result[q] = None})

\* The calls for one list of Browsers, given what the status says is registered.
Plan(listed) ==
    LET current == task.controller.status.registered
        entries == EntriesOf(listed)
        result  == LastOf(entries)
    IN Sync([phase |-> "Running", registered |-> result],
            {e \in entries : current[e.profile] # e.wsUrl},
            {q \in Profiles : current[q] # None /\ result[q] = None})

\* List the pods and, if one is ready, the Browsers.  A failed list of Browsers
\* is reported as Running with the registrations of before.
FindReadyPod ==
    /\ At("pods")
    /\ LET registered == task.controller.status.registered IN
         \/ /\ \A p \in Pods : ~PodReady(p)
            /\ Outcome("Creating", registered)
         \/ /\ \E p \in Pods : PodReady(p)
            /\ \/ \E listed \in Orders(Desired) : Plan(listed)
               \/ "api" \in Faults /\ Outcome("Running", registered)
    /\ UNCHANGED <<store, browsers, children, runtime, queue>>

\* The loop is at this entry.
First(e) == At("sync") /\ e \in task.register /\ \A f \in task.register : e.at <= f.at

\* Mutant: the loop ends with the first registration.
RegisterOnlyFirst ==
    /\ \E e \in task.register, p \in Reachable :
         /\ First(e)
         /\ known' = [known EXCEPT ![p][e.profile] = e.wsUrl]
         /\ Sync(task.outcome, {}, task.deregister)
    /\ UNCHANGED <<store, browsers, children, pods, queue>>

\* POST /browsers for the next entry; a reply that is lost changes nothing.
RegisterBrowser ==
    /\ \E e \in task.register, p \in Reachable :
         /\ First(e)
         /\ known' = [known EXCEPT ![p][e.profile] = e.wsUrl]
         /\ Sync(task.outcome, task.register \ {e}, task.deregister)
    /\ UNCHANGED <<store, browsers, children, pods, queue>>

\* A failed registration is logged; status and sync go on as if it had succeeded.
RegisterFails ==
    /\ "register" \in Faults \/ Reachable = {}
    /\ \E e \in task.register :
         First(e) /\ Sync(task.outcome, task.register \ {e}, task.deregister)
    /\ UNCHANGED <<store, browsers, children, runtime, queue>>

\* Mutant: the loop ends with the first deregistration.
DeregisterOnlyOne ==
    /\ At("sync") /\ task.register = {}
    /\ \E q \in task.deregister, p \in Reachable :
         /\ known' = [known EXCEPT ![p][q] = None]
         /\ Sync(task.outcome, {}, {})
    /\ UNCHANGED <<store, browsers, children, pods, queue>>

\* DELETE /browsers/{id}; an id that is not known is fine.
DeregisterBrowser ==
    /\ At("sync") /\ task.register = {}
    /\ \E q \in task.deregister, p \in Reachable :
         /\ known' = [known EXCEPT ![p][q] = None]
         /\ Sync(task.outcome, {}, task.deregister \ {q})
    /\ UNCHANGED <<store, browsers, children, pods, queue>>

\* A failed deregistration is logged, and the id is dropped all the same.
DeregisterFails ==
    /\ At("sync") /\ task.register = {}
    /\ "deregister" \in Faults \/ Reachable = {}
    /\ \E q \in task.deregister : Sync(task.outcome, {}, task.deregister \ {q})
    /\ UNCHANGED <<store, browsers, children, runtime, queue>>

\* Mutant: the status is written whatever the resourceVersion.
ForceStatus ==
    /\ At("status") /\ api.exists
    /\ Put([api EXCEPT !.status = task.outcome])
    /\ Return(TRUE)
    /\ UNCHANGED <<queued, browsers, children, runtime>>

\* Status().Update under the copy's resourceVersion.
UpdateStatus ==
    /\ At("status") /\ task.fresh
    /\ Put([api EXCEPT !.status = task.outcome])
    /\ Return(TRUE)
    /\ UNCHANGED <<queued, browsers, children, runtime>>

\* Mutant: a refused write is dropped without a retry.
UpdateDropped ==
    /\ \/ task.step \in {"addFinalizer", "removeFinalizer"} /\ (~task.fresh \/ "api" \in Faults)
       \/ At("status") /\ (~task.fresh \/ "status" \in Faults)
    /\ Return(FALSE)
    /\ UNCHANGED <<queued, store, browsers, children, runtime>>

\* r.Update or Status().Update answers Conflict, NotFound or an error.
UpdateRefused ==
    /\ \/ task.step \in {"addFinalizer", "removeFinalizer"} /\ (~task.fresh \/ "api" \in Faults)
       \/ At("status") /\ (~task.fresh \/ "status" \in Faults)
    /\ Return(TRUE)
    /\ UNCHANGED <<queued, store, browsers, children, runtime>>

------------------------------------------------------------------------------
(* Work queue, watch and process. *)

ControllerEvent ==
    /\ Deliver
    /\ queued' = TRUE
    /\ UNCHANGED <<timer, task, browsers, children, runtime>>

TimerFires ==
    /\ timer
    /\ queued' = TRUE /\ timer' = FALSE
    /\ UNCHANGED <<task, store, browsers, children, runtime>>

\* An event of the owned Deployment or Service enqueues its owner.
ChildEvent ==
    /\ ~queued /\ (deploy # None \/ svc # None)
    /\ queued' = TRUE
    /\ UNCHANGED <<timer, task, store, browsers, children, runtime>>

\* The cache learns of a Browser's change, and mapBrowserToControllers enqueues
\* every Controller the cache knows.
BrowserSeen(n, view) ==
    /\ browsers' = [browsers EXCEPT ![n] = view]
    /\ queued' = (queued \/ cache.exists)
    /\ UNCHANGED <<timer, task, store, children, runtime>>

BrowserChanges(n) ==
    \E view \in (Views[n] \cup {None}) \ {browsers[n]} : BrowserSeen(n, view)

\* The operator dies at any point and comes up with a new queue and cache.
OperatorRestart ==
    /\ "operator" \in Faults
    /\ Relist
    /\ task' = Idle
    /\ queued' = api.exists /\ timer' = FALSE
    /\ UNCHANGED <<browsers, children, runtime>>

------------------------------------------------------------------------------
(* Users. *)

UserWrite(obj) ==
    /\ Len(unseen) < MaxLag
    /\ Write(obj)
    /\ task' = [task EXCEPT !.fresh = FALSE]
    /\ UNCHANGED <<queue, browsers, children, runtime>>

CreateController ==
    /\ ~api.exists /\ api.uid < MaxUid
    /\ \E s \in SpecChoices : UserWrite(NewController(api.uid + 1, s))

EditSpec ==
    /\ api.exists
    /\ \E s \in SpecChoices \ {api.spec} : UserWrite([api EXCEPT !.spec = s])

DeleteController ==
    /\ api.exists /\ ~api.deleting
    /\ UserWrite(IF api.finalizer THEN [api EXCEPT !.deleting = TRUE] ELSE Gone(api))

------------------------------------------------------------------------------
\* The Browsers may be there before the Controller is.
NoController ==
    /\ api = Idle.controller /\ cache = api /\ unseen = <<>>
    /\ deploy = None /\ svc = None
    /\ pods = [p \in Pods |-> "absent"]
    /\ known = [p \in Pods |-> Nobody]
    /\ queued = FALSE /\ timer = FALSE
    /\ task = Idle

Init == NoController /\ browsers = [n \in Names |-> None]

Worker ==
    \/ Reconcile \/ AddFinalizer \/ RemoveFinalizer
    \/ EnsureDeployment \/ EnsureService \/ EnsureFails
    \/ FindReadyPod \/ RegisterBrowser \/ RegisterFails
    \/ DeregisterBrowser \/ DeregisterFails
    \/ UpdateStatus \/ UpdateRefused

Outside(A) == A /\ UNCHANGED <<queue, task>>

GarbageStep == Outside(CollectDeployment \/ CollectService)

KubeletStep(p) == Outside(StartPod(p) \/ PodBecomesReady(p) \/ ScaleDown(p))

Calm ==
    \/ Worker \/ ControllerEvent \/ TimerFires \/ ChildEvent
    \/ GarbageStep \/ \E p \in Pods : KubeletStep(p)

User == CreateController \/ EditSpec \/ DeleteController

Change == User \/ \E n \in Names : BrowserChanges(n)

Mishap ==
    \/ OperatorRestart
    \/ "pod" \in Faults /\ \E p \in Pods : Outside(PodLost(p))
    \/ "probe" \in Faults /\ \E p \in Pods : Outside(PodBecomesUnready(p))

Next == Calm \/ Change \/ Mishap

Spec == Init /\ [][Next]_vars

------------------------------------------------------------------------------
(* Properties. *)

TaskRecords == [step: Steps, controller: Controllers, fresh: BOOLEAN,
                register: SUBSET Entries, deregister: SUBSET Profiles,
                outcome: Statuses]

TypeOK ==
    /\ api \in Controllers /\ cache \in Controllers /\ unseen \in Seq(Controllers)
    /\ browsers \in [Names -> BrowserViews \cup {None}]
    /\ deploy \in [owner: Nat, replicas: 0 .. Cardinality(Pods)] \cup {None}
    /\ svc \in Nat \cup {None}
    /\ pods \in [Pods -> {"absent", "starting", "ready"}]
    /\ known \in [Pods -> Registrations]
    /\ queued \in BOOLEAN /\ timer \in BOOLEAN
    /\ task \in TaskRecords

\* A Controller the cache knows and is up to date about is being reconciled, in
\* the queue, or due for a delayed requeue.  Browsers' changes rely on it: the
\* watch that maps them to Controllers misses a Controller not cached yet.
NoLostWakeup ==
    cache.exists /\ CaughtUp /\ At("idle") => queued \/ timer

\* Deployment and Service are only created, taken over or rewritten for a
\* Controller that still exists and carries the finalizer, however stale the
\* copy the reconcile works on.
ChildrenOfLiveController ==
    [][/\ deploy' \notin {deploy, None} => OwnerLives(deploy'.owner) /\ api.finalizer
       /\ svc' \notin {svc, None} => OwnerLives(svc') /\ api.finalizer]_vars

Publishes == api.exists /\ api'.exists /\ api'.uid = api.uid /\ api'.status # api.status

\* An entry is only added or moved to an address when the process has been given
\* it.
RegisteredBeforeRecorded ==
    Publishes =>
        \A q \in Profiles, p \in Pods :
            LET listed == api'.status.registered[q] IN
            listed \notin {None, api.status.registered[q]} /\ PodReady(p) =>
                known[p][q] = listed

\* An entry is only dropped when the process no longer knows the browser.
DeregisteredBeforeForgotten ==
    Publishes =>
        \A q \in Profiles, p \in Pods :
            api'.status.registered[q] = None /\ api.status.registered[q] # None =>
                known[p][q] = None

\* The status lists "browsers currently registered with the controller"
\* (controller_types.go:65): it is a record of the calls that were made, also if
\* some of them fail.
RecordsOnlyRegistered == [][RegisteredBeforeRecorded]_vars
==============================================================================
