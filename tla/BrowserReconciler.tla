-------------------------- MODULE BrowserReconciler --------------------------
(***************************************************************************)
(* BrowserReconciler.Reconcile of internal/controller/browser_controller.go*)
(* for one Browser name, with the work queue that drives it and the users, *)
(* Kubernetes and launcher it works against.                               *)
(*                                                                         *)
(* The work queue hands one key to one worker at a time, so reconciles of  *)
(* one name never overlap; reconciles of other names share no state with   *)
(* them.  One reconcile is a sequence of calls to the API server and to    *)
(* the launcher.  Each call is a step, so anything may happen between two  *)
(* of them; code between two calls belongs to the step before it.          *)
(***************************************************************************)
EXTENDS BrowserWorkload

CONSTANTS
    SpecChoices,   \* the specs users apply
    MaxUid,        \* bound: incarnations of the name
    MaxLag,        \* bound: users write only while the cache lags by less
    Faults         \* the failures that may happen: "api", "reclaim", "http", "cookies"

ASSUME ReconcilerAssumption ==
    /\ SpecChoices \subseteq Specs
    /\ MaxUid \in Nat /\ MaxLag \in Nat
    /\ Faults \subseteq {"api", "reclaim", "http", "cookies"}

VARIABLES
    queued,   \* the name is in the work queue, or dirty while being processed
    timer,    \* a delayed requeue (RequeueAfter or rate-limited) is pending
    task      \* the worker: the next call to make and the variables of Reconcile

queue == <<queued, timer>>
vars  == <<store, children, runtime, queue, task>>

\* browser is the in-memory copy; fresh says that its resourceVersion is the
\* API server's; outcome is the status about to be written.
Idle == [step |-> "idle", browser |-> Gone(NewBrowser(0, CHOOSE s \in Specs : TRUE)),
         fresh |-> FALSE, pod |-> None, cookies |-> FALSE, target |-> None,
         missing |-> {}, outcome |-> NoStatus]

Steps == {"idle", "addFinalizer", "deletePVC", "removeFinalizer", "pvc",
          "deployment", "service", "pods", "list", "create", "extensions",
          "addExtensions", "status"}

At(step) == task.step = step

Goto(step) == task' = [task EXCEPT !.step = step]

\* Reconcile returns: requeue unless it returned an empty result and no error.
Return(requeue) ==
    /\ task' = Idle
    /\ timer' = (timer \/ requeue)

------------------------------------------------------------------------------
(* Status results.  The API call is made only if the in-memory status differs. *)

\* Mutant: another phase constant.
PendingInstead(message) ==
    [task.browser.status EXCEPT !.phase = "Pending", !.message = message]

Creating(message) ==
    [task.browser.status EXCEPT !.phase = "Creating", !.message = message]

Running(target) == [phase |-> "Running", message |-> "ready", target |-> target]

Stopped == [phase |-> "Stopped", message |-> "stopped", target |-> None]

\* Mutant: only the phase is compared.
ReportPhase(status) ==
    IF status.phase = task.browser.status.phase
    THEN Return(TRUE)
    ELSE /\ task' = [task EXCEPT !.step = "status", !.outcome = status]
         /\ UNCHANGED timer

\* Nothing of what the caller compares has changed: the address of a Running
\* Browser, the message of one that is Creating, everything of a Stopped one.
Reported(status) ==
    LET old == task.browser.status IN
    /\ status.phase = old.phase
    /\ status.phase # "Running" => status.message = old.message
    /\ status.phase # "Creating" => status.target = old.target

\* All errors of the launcher are one message here, so two of them may differ.
Report(status) ==
    \/ Reported(status) /\ Return(TRUE)
    \/ /\ ~Reported(status) \/ status.message = "launcher"
       /\ task' = [task EXCEPT !.step = "status", !.outcome = status]
       /\ UNCHANGED timer

\* Mutant: the status is written whatever the resourceVersion.
ForceStatus ==
    /\ At("status") /\ api.exists
    /\ Write([api EXCEPT !.status = task.outcome])
    /\ Return(TRUE)
    /\ UNCHANGED <<queued, children, runtime>>

\* Status().Update under the copy's resourceVersion.
UpdateStatus ==
    /\ At("status") /\ task.fresh
    /\ Write([api EXCEPT !.status = task.outcome])
    /\ Return(TRUE)
    /\ UNCHANGED <<queued, children, runtime>>

\* Mutant: a refused write is dropped without a retry.
UpdateDropped ==
    /\ task.step \in {"addFinalizer", "removeFinalizer", "status"}
    /\ ~task.fresh \/ "api" \in Faults
    /\ Return(FALSE)
    /\ UNCHANGED <<queued, store, children, runtime>>

\* r.Update or Status().Update answers Conflict, NotFound or an error: every
\* such return of Reconcile asks for a retry.
UpdateRefused ==
    /\ task.step \in {"addFinalizer", "removeFinalizer", "status"}
    /\ ~task.fresh \/ "api" \in Faults
    /\ Return(TRUE)
    /\ UNCHANGED <<queued, store, children, runtime>>

------------------------------------------------------------------------------
(* Fetch, deletion, finalizer. *)

\* Mutant: the finalizer is never added.
NoFinalizerStep(obj) == IF obj.deleting THEN "deletePVC" ELSE "pvc"

FirstStep(obj) ==
    CASE obj.deleting -> "deletePVC"
      [] ~obj.deleting /\ ~obj.finalizer -> "addFinalizer"
      [] OTHER -> "pvc"

Reconcile ==
    /\ At("idle") /\ queued
    /\ queued' = FALSE
    /\ \/ /\ ~cache.exists \/ (cache.deleting /\ ~cache.finalizer)
          /\ Return(FALSE)
       \/ /\ cache.exists /\ (cache.deleting => cache.finalizer)
          /\ task' = [Idle EXCEPT !.step = FirstStep(cache), !.browser = cache,
                                  !.fresh = CaughtUp]
          /\ UNCHANGED timer
    /\ UNCHANGED <<store, children, runtime>>

\* Mutant: the finalizer is added whatever the resourceVersion.
ForceFinalizer ==
    /\ At("addFinalizer")
    /\ LET obj == [api EXCEPT !.finalizer = TRUE] IN
         /\ Write(obj)
         /\ task' = [task EXCEPT !.step = "pvc", !.browser = obj]
    /\ UNCHANGED <<queue, children, runtime>>

AddFinalizer ==
    /\ At("addFinalizer") /\ task.fresh
    /\ LET obj == [api EXCEPT !.finalizer = TRUE] IN
         /\ Write(obj)
         /\ task' = [task EXCEPT !.step = "pvc", !.browser = obj]
    /\ UNCHANGED <<queue, children, runtime>>

\* Mutant: the policy is not looked at.
AlwaysDeletePVC ==
    /\ At("deletePVC")
    /\ pvc' = IF pvc = "bound" THEN "terminating" ELSE pvc
    /\ Goto("removeFinalizer")
    /\ UNCHANGED <<store, pvcSeen, deploy, svc, runtime, queue>>

\* A failed Delete is logged, and the finalizer goes all the same.
DeletePVC ==
    /\ At("deletePVC")
    /\ \/ /\ task.browser.spec.reclaimPolicy = "Delete"
          /\ pvc' = IF pvc = "bound" THEN "terminating" ELSE pvc
       \/ /\ task.browser.spec.reclaimPolicy # "Delete" \/ "reclaim" \in Faults
          /\ UNCHANGED pvc
    /\ Goto("removeFinalizer")
    /\ UNCHANGED <<store, pvcSeen, deploy, svc, runtime, queue>>

\* Mutant: the finalizer goes whatever the resourceVersion.
ForceRemoval ==
    /\ At("removeFinalizer")
    /\ Write(Gone(api))
    /\ Return(FALSE)
    /\ UNCHANGED <<queued, children, runtime>>

\* Without its only finalizer the deleted object disappears.
RemoveFinalizer ==
    /\ At("removeFinalizer") /\ task.fresh
    /\ Write(Gone(api))
    /\ Return(FALSE)
    /\ UNCHANGED <<queued, children, runtime>>

------------------------------------------------------------------------------
(* Child resources. *)

EnsurePVC ==
    /\ At("pvc")
    /\ \/ pvcSeen /\ UNCHANGED pvc
       \/ ~pvcSeen /\ pvc = "absent" /\ pvc' = "bound"
    /\ Goto("deployment")
    /\ UNCHANGED <<store, pvcSeen, deploy, svc, runtime, queue>>

\* The owner reference is replaced when the Deployment belonged to an earlier
\* Browser of the same name: SetControllerReference compares kind and name.
EnsureDeployment ==
    /\ At("deployment")
    /\ deploy' = [owner |-> task.browser.uid,
                  replicas |-> IF task.browser.spec.running THEN 1 ELSE 0]
    /\ Goto("service")
    /\ UNCHANGED <<store, pvc, pvcSeen, svc, runtime, queue>>

EnsureService ==
    /\ At("service")
    /\ svc' = task.browser.uid
    /\ IF task.browser.spec.running
       THEN Goto("pods") /\ UNCHANGED timer
       ELSE Report(Stopped)
    /\ UNCHANGED <<store, pvc, pvcSeen, deploy, runtime, queued>>

\* A call fails (the claim is there but not in the cache, a stale Deployment
\* conflicts, the API server errs): retry in requeueRetry.
EnsureFails ==
    /\ \/ At("pvc") /\ ~pvcSeen /\ pvc # "absent"
       \/ task.step \in {"pvc", "deployment", "service", "pods"} /\ "api" \in Faults
    /\ Return(TRUE)
    /\ UNCHANGED <<queued, store, children, runtime>>

------------------------------------------------------------------------------
(* Pod and launcher discovery. *)

\* Whether the cookies source yields cookies.  A failed read is logged and the
\* browser is created without them.
ReadCookies(loaded) ==
    IF task.browser.spec.cookies THEN loaded \/ "cookies" \in Faults ELSE ~loaded

\* List the pods, take the first ready one, then read the cookies.
FindReadyPod ==
    /\ At("pods")
    /\ \/ /\ \A p \in Pods : ~PodReady(p)
          /\ Report(Creating("pod"))
       \/ \E p \in Pods, loaded \in BOOLEAN :
            /\ PodReady(p) /\ ReadCookies(loaded)
            /\ task' = [task EXCEPT !.step = "list", !.pod = p, !.cookies = loaded]
            /\ UNCHANGED timer
    /\ UNCHANGED <<queued, store, children, runtime>>

\* syncExtensionsIfNeeded up to its first call.
Discovered(q) ==
    LET target == [pod |-> task.pod, profile |-> q,
                   endpoint |-> launcher[task.pod][q].endpoint]
    IN IF task.browser.spec.extensions = {}
       THEN Report(Running(target))
       ELSE /\ task' = [task EXCEPT !.step = "extensions", !.target = target]
            /\ UNCHANGED timer

\* GET /browsers: the exact profile, or for "default" the first one listed.
ListLauncherBrowsers ==
    LET uid == ProfileUID(task.browser.spec)
        listed == Served(task.pod)
    IN
    /\ At("list") /\ Serving(task.pod)
    /\ \/ uid \in listed /\ Discovered(uid)
       \/ /\ uid \notin listed /\ uid = "default"
          /\ \/ \E q \in listed : Discovered(q)
             \/ listed = {} /\ Report(Creating("launcher"))
       \/ /\ uid \notin listed /\ uid # "default"
          /\ Goto("create") /\ UNCHANGED timer
    /\ UNCHANGED <<queued, store, children, runtime>>

\* POST /browsers; the launcher may have acted although the reply is lost.
CreateLauncherBrowser ==
    LET uid == ProfileUID(task.browser.spec) IN
    /\ At("create") /\ Serving(task.pod)
    /\ \E e \in Endpoints :
         /\ launcher' = [launcher EXCEPT ![task.pod][uid] =
                [endpoint |-> e, extensions |-> task.browser.spec.extensions,
                 cookies |-> task.cookies]]
         /\ \/ Report(Running([pod |-> task.pod, profile |-> uid, endpoint |-> e]))
            \/ "http" \in Faults /\ Report(Creating("launcher"))
    /\ UNCHANGED <<queued, store, children, pods>>

\* The Chrome instance the sync works on.
Synced == launcher[task.pod][task.target.profile]

\* Mutant: all desired extensions count as missing.
InstallAgain ==
    /\ At("extensions") /\ Serving(task.pod) /\ Synced # None
    /\ task' = [task EXCEPT !.step = "addExtensions",
                            !.missing = task.browser.spec.extensions]
    /\ UNCHANGED <<queue, store, children, runtime>>

\* GET /browsers/{id}/extensions.
GetInstalledExtensions ==
    /\ At("extensions") /\ Serving(task.pod) /\ Synced # None
    /\ LET missing == task.browser.spec.extensions \ Synced.extensions IN
         IF missing = {}
         THEN Report(Running(task.target))
         ELSE /\ task' = [task EXCEPT !.step = "addExtensions", !.missing = missing]
              /\ UNCHANGED timer
    /\ UNCHANGED <<queued, store, children, runtime>>

\* The extensions cannot be read: the listed endpoint is reported as it is.
InstalledExtensionsUnknown ==
    /\ At("extensions")
    /\ "http" \in Faults \/ ~Serving(task.pod) \/ Synced = None
    /\ Report(Running(task.target))
    /\ UNCHANGED <<queued, store, children, runtime>>

\* POST /browsers/{id}/extensions injects them and restarts Chrome.
AddExtensions ==
    /\ At("addExtensions") /\ Serving(task.pod) /\ Synced # None
    /\ \E e \in Endpoints :
         /\ launcher' = [launcher EXCEPT ![task.pod][task.target.profile] =
                [Synced EXCEPT !.endpoint = e,
                               !.extensions = Synced.extensions \cup task.missing]]
         /\ \/ Report(Running([task.target EXCEPT !.endpoint = e]))
            \/ "http" \in Faults /\ Report(Creating("launcher"))
    /\ UNCHANGED <<queued, store, children, pods>>

\* A launcher call that had no effect: connection refused, timeout, non-200.
LauncherCallFails ==
    /\ \/ task.step \in {"list", "create"} /\ ("http" \in Faults \/ ~Serving(task.pod))
       \/ At("addExtensions") /\ ("http" \in Faults \/ Synced = None)
    /\ Report(Creating("launcher"))
    /\ UNCHANGED <<queued, store, children, runtime>>

------------------------------------------------------------------------------
(* Work queue, watch and process. *)

BrowserEvent ==
    /\ Deliver
    /\ queued' = TRUE
    /\ UNCHANGED <<timer, task, children, runtime>>

TimerFires ==
    /\ timer
    /\ queued' = TRUE /\ timer' = FALSE
    /\ UNCHANGED <<task, store, children, runtime>>

\* An event of an owned Deployment or Service enqueues its owner.
ChildEvent ==
    /\ ~queued /\ (deploy # None \/ svc # None)
    /\ queued' = TRUE
    /\ UNCHANGED <<timer, task, store, children, runtime>>

\* The operator dies at any point and comes up with a new queue and cache.
OperatorRestart ==
    /\ Relist
    /\ pvcSeen' = (pvc # "absent")
    /\ task' = Idle
    /\ queued' = api.exists /\ timer' = FALSE
    /\ UNCHANGED <<pvc, deploy, svc, runtime>>

------------------------------------------------------------------------------
(* Users. *)

UserWrite(obj) ==
    /\ Len(unseen) < MaxLag
    /\ Write(obj)
    /\ task' = [task EXCEPT !.fresh = FALSE]
    /\ UNCHANGED <<queue, children, runtime>>

CreateBrowser ==
    /\ ~api.exists /\ api.uid < MaxUid
    /\ \E s \in SpecChoices : UserWrite(NewBrowser(api.uid + 1, s))

EditSpec ==
    /\ api.exists
    /\ \E s \in SpecChoices \ {api.spec} : UserWrite([api EXCEPT !.spec = s])

DeleteBrowser ==
    /\ api.exists /\ ~api.deleting
    /\ UserWrite(IF api.finalizer THEN [api EXCEPT !.deleting = TRUE] ELSE Gone(api))

------------------------------------------------------------------------------
Init ==
    /\ api = Idle.browser /\ cache = api /\ unseen = <<>>
    /\ pvc = "absent" /\ pvcSeen = FALSE /\ deploy = None /\ svc = None
    /\ pods = [p \in Pods |-> "absent"]
    /\ launcher = [p \in Pods |-> Off]
    /\ queued = FALSE /\ timer = FALSE
    /\ task = Idle

Worker ==
    \/ Reconcile \/ AddFinalizer \/ DeletePVC \/ RemoveFinalizer
    \/ EnsurePVC \/ EnsureDeployment \/ EnsureService \/ EnsureFails
    \/ FindReadyPod \/ ListLauncherBrowsers \/ CreateLauncherBrowser
    \/ GetInstalledExtensions \/ InstalledExtensionsUnknown \/ AddExtensions
    \/ LauncherCallFails \/ UpdateStatus \/ UpdateRefused

Outside(A) == A /\ UNCHANGED <<queue, task>>

ClaimStep == Outside(ClaimRemoved \/ ClaimDelivered)

GarbageStep == Outside(CollectDeployment \/ CollectService)

KubeletStep(p) ==
    Outside(StartPod(p) \/ StartDefault(p) \/ PodBecomesReady(p) \/ ScaleDown(p) \/ PodGone(p))

Cluster == ClaimStep \/ GarbageStep \/ \E p \in Pods : KubeletStep(p)

Mishap ==
    \E p \in Pods :
       Outside(\/ Evict(p) \/ PodBecomesUnready(p)
               \/ \E q \in Profiles : ChromeRestarts(p, q))

User == CreateBrowser \/ EditSpec \/ DeleteBrowser

Calm == Worker \/ BrowserEvent \/ TimerFires \/ ChildEvent \/ Cluster

Disruption == User \/ Mishap \/ OperatorRestart

Next == Calm \/ Disruption

Spec == Init /\ [][Next]_vars

------------------------------------------------------------------------------
(* Properties. *)

TaskRecords == [step: Steps, browser: Browsers, fresh: BOOLEAN,
                pod: Pods \cup {None}, cookies: BOOLEAN,
                target: Targets \cup {None}, missing: SUBSET Extensions,
                outcome: Statuses]

TypeOK ==
    /\ api \in Browsers /\ cache \in Browsers /\ unseen \in Seq(Browsers)
    /\ pvc \in {"absent", "bound", "terminating"} /\ pvcSeen \in BOOLEAN
    /\ deploy \in [owner: Nat, replicas: {0, 1}] \cup {None}
    /\ svc \in Nat \cup {None}
    /\ pods \in [Pods -> {"absent", "starting", "ready", "terminating"}]
    /\ launcher \in [Pods -> [Profiles -> Instances \cup {None}]]
    /\ queued \in BOOLEAN /\ timer \in BOOLEAN
    /\ task \in TaskRecords

\* A Browser the cache knows and is up to date about is never forgotten: it is
\* being reconciled, in the queue, or due for a delayed requeue.  Every return
\* of Reconcile has to ask for a retry unless a later event will bring one.
NoLostWakeup ==
    cache.exists /\ CaughtUp /\ At("idle") => queued \/ timer

\* A status is only ever published for the spec the API server holds at that
\* moment: Stopped exactly when running is false, Running with a Chrome of the
\* resolved profile ("default" may be served by another one), and nothing once
\* deletion has been asked for.  Edits and deletions that overtake a reconcile
\* reach it only through the conflict on the resourceVersion.
StatusFollowsSpec ==
    [][api'.exists /\ api'.uid = api.uid /\ api'.status # api.status =>
         /\ ~api.deleting
         /\ (api'.status.phase = "Stopped") = ~api.spec.running
         /\ api'.status.phase = "Running" =>
              ProfileUID(api.spec) \in {api'.status.target.profile, "default"}]_vars

\* Volume claim, Deployment and Service are only created, taken over or
\* rewritten for a Browser that still exists and carries the finalizer, however
\* stale the copy the reconcile works on: no child outlives its clean-up.
ChildrenOfLiveBrowser ==
    [][/\ deploy' \notin {deploy, None} => OwnerLives(deploy'.owner) /\ api.finalizer
       /\ svc' \notin {svc, None} => OwnerLives(svc') /\ api.finalizer
       /\ pvc = "absent" /\ pvc' = "bound" =>
            OwnerLives(task.browser.uid) /\ api.finalizer]_vars

\* A live claim is deleted only while the very Browser that asked for it is
\* being deleted, and under the policy it has then, unless the copy misses a change
\* of the user's: one the cache had not seen at the fetch, or made since.  No copy,
\* however stale, deletes the claim of a successor.
VolumeDeletedOnRequest ==
    [][pvc = "bound" /\ pvc' = "terminating" =>
         /\ OwnerLives(task.browser.uid) /\ api.deleting
         /\ task.fresh => api.spec.reclaimPolicy = "Delete"]_vars

\* When a Browser that was being managed disappears and its last policy is
\* Delete, its claim has been deleted ("Delete" removes it, browser_types.go:54).
DeleteReclaims ==
    [][OwnerLives(api.uid) /\ api.finalizer /\ ~api'.exists =>
         (api.spec.reclaimPolicy = "Delete" => pvc # "bound")]_vars

\* The operator replaces a Chrome that is up only to install an extension it
\* lacks, and never takes one or its cookies away: creating a browser and
\* syncing extensions are no-ops on every later reconcile, although the launcher
\* is read in one call and changed in another.
NoNeedlessRestart ==
    [][task' # task =>
         \A p \in Pods, q \in Profiles :
            LET old == launcher[p][q]
                new == launcher'[p][q]
            IN old # None /\ new # None /\ new # old =>
                 /\ old.extensions \subseteq new.extensions
                 /\ new.extensions # old.extensions
                 /\ new.cookies = old.cookies]_vars
==============================================================================
