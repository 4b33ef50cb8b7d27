-------------------------- MODULE ControllerInvariant --------------------------
(***************************************************************************)
(* The inductive invariants of the Controller reconciler: why a reconcile  *)
(* that works on a copy of any age does no harm, and why a sync that loses *)
(* no call writes nothing into the status but what it has done.            *)
(***************************************************************************)
EXTENDS ControllerReconciler

\* A copy whose resourceVersion is current is the current version.
FreshIsCurrent ==
    task.fresh /\ ~At("idle") => task.controller = api

\* A reconcile past its fetch works on an existing Controller: one being deleted
\* when it is about to remove the finalizer, and otherwise one that is not; past
\* AddFinalizer it has the finalizer.  The removal starts from the current version
\* only if the cache was up to date, and nobody has written since.
CopyFitsStep ==
    ~At("idle") =>
        /\ task.controller.exists
        /\ task.controller.deleting = At("removeFinalizer")
        /\ ~At("addFinalizer") => task.controller.finalizer
        /\ task.fresh /\ At("removeFinalizer") => CaughtUp

\* However old a version that has the finalizer and is not being deleted, the
\* object is still there with the finalizer.
GuardedIsAlive ==
    \A v \in Versions \cup (IF At("idle") THEN {} ELSE {task.controller}) :
        Guarded(v) => OwnerLives(v.uid) /\ api.finalizer

IInv ==
    /\ TypeOK
    /\ DeletedHasFinalizer
    /\ CacheFollows
    /\ FreshIsCurrent
    /\ CopyFitsStep
    /\ GuardedIsAlive
    /\ NoLostWakeup

------------------------------------------------------------------------------
(* Deployment and Service, as long as nobody deletes them by hand: as for Browsers. *)

AfterService == {"pods", "sync", "status"}

ChildrenInPlace ==
    /\ task.step \in AfterService \cup {"service"} =>
           deploy # None /\ deploy.owner = task.controller.uid
    /\ task.step \in AfterService => svc = task.controller.uid
    /\ svc # None /\ OwnerLives(svc) => deploy # None /\ deploy.owner = svc
    /\ deploy # None => deploy.owner <= api.uid
    /\ svc # None => svc <= api.uid

------------------------------------------------------------------------------
(* The sync. *)

\* Outside the sync no call is left over.
CallsLeft ==
    /\ ~At("sync") => task.register = {} /\ task.deregister = {}
    /\ \A e, f \in task.register : e.at = f.at => e = f

\* The calls that are left fit the status that will be written.
CallsFitOutcome ==
    /\ \A e \in task.register : task.outcome.registered[e.profile] # None
    /\ \A q \in task.deregister : task.outcome.registered[q] = None

\* The calls left for one profile, and the one that decides.
LeftFor(q) == {e \in task.register : e.profile = q}

Decides(e, q) == e \in LeftFor(q) /\ \A f \in LeftFor(q) : f.at <= e.at

\* What is about to be recorded and was not before has been done, or is what the
\* calls that are left come to.
OutcomeIsEarned ==
    task.step \in {"sync", "status"} =>
        \A q \in Profiles :
            LET listed == task.outcome.registered[q]
                before == task.controller.status.registered[q]
            IN /\ listed \notin {None, before} =>
                     IF LeftFor(q) = {} THEN \A p \in Pods : known[p][q] = listed
                                        ELSE \E e \in LeftFor(q) : Decides(e, q) /\ e.wsUrl = listed
               /\ listed = None /\ before # None =>
                     q \in task.deregister \/ \A p \in Pods : known[p][q] = None

\* One pod, or none: a call through the Service reaches only one of them.
SinglePod == \A p, r \in Pods : p = r

SyncInv == CallsLeft /\ CallsFitOutcome /\ OutcomeIsEarned

------------------------------------------------------------------------------
(* The record the status is of what the process knows. *)

\* What the sync leaves as it was in the copy it works on.
Untouched(q) == task.outcome.registered[q] = task.controller.status.registered[q]

\* The process knows what the status lists, in a sync as far as that leaves it
\* alone; the calls of the sync are for the rest.  Only a Controller with the
\* finalizer has a record.
RecordInv ==
    /\ api.status # NoStatus => api.exists /\ api.finalizer
    /\ \A p \in Pods, q \in Profiles :
         task.step \notin {"sync", "status"} \/ Untouched(q) =>
             known[p][q] = api.status.registered[q]
    /\ \A e \in task.register : ~Untouched(e.profile)
    /\ \A q \in task.deregister : ~Untouched(q)
==============================================================================
