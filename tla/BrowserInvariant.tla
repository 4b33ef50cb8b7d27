--------------------------- MODULE BrowserInvariant ---------------------------
(***************************************************************************)
(* The inductive invariant of BrowserReconciler: why a reconcile that works*)
(* on a copy of any age does no harm.                                      *)
(***************************************************************************)
EXTENDS BrowserReconciler

DeletionSteps  == {"deletePVC", "removeFinalizer"}
LauncherSteps  == {"list", "create", "extensions", "addExtensions"}
ExtensionSteps == {"extensions", "addExtensions"}

\* A copy whose resourceVersion is current is the current version.
FreshIsCurrent ==
    task.fresh /\ ~At("idle") => task.browser = api

\* The variables of a step are those the steps before it have set.
TaskTyped ==
    /\ task.step \in LauncherSteps => task.pod \in Pods
    /\ task.step \in ExtensionSteps => task.target \in Targets

\* A reconcile past its fetch works on an existing Browser: one being deleted in
\* the deletion steps, and in the others one that is not; past AddFinalizer it
\* has the finalizer.  The deletion steps start from the current version only if
\* the cache was up to date, and nobody has written since.
CopyFitsStep ==
    ~At("idle") =>
        /\ task.browser.exists
        /\ task.browser.deleting = (task.step \in DeletionSteps)
        /\ ~At("addFinalizer") => task.browser.finalizer
        /\ task.fresh /\ task.step \in DeletionSteps => CaughtUp

\* The statuses there are for the spec of the copy.
Reportable ==
    LET spec == task.browser.spec IN
    IF ~spec.running
    THEN {Stopped}
    ELSE {Creating(m) : m \in {"pod", "launcher"}}
         \cup {Running(t) : t \in {c \in Targets :
                                   ProfileUID(spec) \in {c.profile, "default"}}}

\* The status about to be written is one of them, and what leads to it is known.
OutcomeFitsCopy ==
    /\ task.step \in LauncherSteps \cup {"pods"} => task.browser.spec.running
    /\ task.step \in ExtensionSteps =>
           ProfileUID(task.browser.spec) \in {task.target.profile, "default"}
    /\ At("status") => task.outcome \in Reportable

\* What the worker has read of the launcher and is about to act on still holds:
\* the profile it creates is not served, and the extensions it adds are missing.
LauncherAsRead ==
    /\ At("create") =>
           /\ ProfileUID(task.browser.spec) # "default"
           /\ launcher[task.pod][ProfileUID(task.browser.spec)] = None
    /\ At("addExtensions") =>
           /\ task.missing # {}
           /\ Synced = None \/ task.missing \cap Synced.extensions = {}

\* However old a version that has the finalizer and is not being deleted, the object is still there with the finalizer.
GuardedIsAlive ==
    \A v \in Versions \cup (IF At("idle") THEN {} ELSE {task.browser}) :
        Guarded(v) => OwnerLives(v.uid) /\ api.finalizer

IInv ==
    /\ TypeOK
    /\ TaskTyped
    /\ DeletedHasFinalizer
    /\ CacheFollows
    /\ FreshIsCurrent
    /\ CopyFitsStep
    /\ OutcomeFitsCopy
    /\ LauncherAsRead
    /\ GuardedIsAlive
    /\ NoLostWakeup

------------------------------------------------------------------------------
(* Deployment and Service, as long as nobody deletes them by hand. *)

AfterService == LauncherSteps \cup {"pods", "status"}

\* What the reconcile has ensured is still there.  Whoever exists and has the
\* Service has the Deployment, which came first and is collected no earlier.
\* No child belongs to a Browser that is still to come.
ChildrenInPlace ==
    /\ task.step \in AfterService \cup {"service"} =>
           deploy # None /\ deploy.owner = task.browser.uid
    /\ task.step \in AfterService => svc = task.browser.uid
    /\ svc # None /\ OwnerLives(svc) => deploy # None /\ deploy.owner = svc
    /\ deploy # None => deploy.owner <= api.uid
    /\ svc # None => svc <= api.uid

------------------------------------------------------------------------------
(* The volume claim.  DeletePVC looks at neither resourceVersion nor uid:  *)
(* what keeps it from the claim of a successor is the order in which the   *)
(* versions of the object reach the worker.                                *)

\* Uids never fall from the copy of the worker to the cache, along what the
\* watch still has to deliver, and on to the API server.
UidsGrow ==
    /\ \A v \in Versions : cache.uid <= v.uid /\ v.uid <= api.uid
    /\ \A i, j \in 1 .. Len(unseen) : i <= j => unseen[i].uid <= unseen[j].uid
    /\ ~At("idle") => task.browser.uid <= cache.uid

\* The versions somebody may still act on, the copy of the worker among them.
Copies == Versions \cup (IF At("idle") THEN {} ELSE {task.browser})

\* A deletion is never taken back.
DeletionIsFinal ==
    \A v \in Copies : v.exists /\ v.deleting /\ OwnerLives(v.uid) => api.deleting

\* A version that asks for the claim to be deleted.
Reclaiming(v) == v.exists /\ v.deleting /\ v.spec.reclaimPolicy = "Delete"

\* As long as there is a claim to delete, whoever asks for it is still there and
\* being deleted; past the call, there is none.
ClaimIsOwn ==
    pvc = "bound" =>
        /\ \A v \in Copies : Reclaiming(v) => OwnerLives(v.uid) /\ api.deleting
        /\ At("removeFinalizer") => ~Reclaiming(task.browser)

\* Without failing deletes of the claim ("reclaim"), that is: after one the
\* finalizer goes and the claim stays.
ClaimInv ==
    /\ UidsGrow
    /\ DeletionIsFinal
    /\ "reclaim" \notin Faults => ClaimIsOwn
==============================================================================
