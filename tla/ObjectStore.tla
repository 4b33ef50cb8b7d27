----------------------------- MODULE ObjectStore -----------------------------
(***************************************************************************)
(* One custom resource of one name, as two parties see it: the Kubernetes  *)
(* API server, which holds the current version, and the informer cache of  *)
(* the operator's manager, which follows it with a delay.  Every r.Get and *)
(* r.List of the reconcilers reads the cache (main.go hands them           *)
(* mgr.GetClient()); every r.Update and r.Status().Update goes to the API  *)
(* server and carries the resourceVersion of the copy it started from.     *)
(*                                                                         *)
(* External: modelled from how the reconcilers use the client.             *)
(*                                                                         *)
(* Versions carry no number.  A copy taken from the cache has the current  *)
(* resourceVersion exactly when nothing is undelivered at that moment      *)
(* (CaughtUp) and nothing has been written since, so an optimistic write   *)
(* needs one Boolean, which the copy's owner keeps.                        *)
(***************************************************************************)
EXTENDS Naturals, Sequences

VARIABLES
    api,      \* the version the API server holds
    cache,    \* the version the informer cache holds
    unseen    \* versions written and not yet delivered to the cache, oldest first

store == <<api, cache, unseen>>

\* The API server accepts a write and queues a watch event for the cache.
Write(obj) ==
    /\ api' = obj
    /\ unseen' = Append(unseen, obj)
    /\ UNCHANGED cache

\* The cache applies the oldest watch event.
Deliver ==
    /\ unseen # <<>>
    /\ cache' = Head(unseen)
    /\ unseen' = Tail(unseen)
    /\ UNCHANGED api

\* A starting manager fills its cache with a list of the current version.
Relist ==
    /\ cache' = api
    /\ unseen' = <<>>
    /\ UNCHANGED api

CaughtUp == unseen = <<>>

------------------------------------------------------------------------------
(* What the invariants of the reconcilers say of the store. *)

\* Every version of the object somebody may still read.
Versions == {api, cache} \cup {unseen[i] : i \in 1 .. Len(unseen)}

\* The API server keeps a deleted object only for its finalizer.
DeletedHasFinalizer ==
    \A v \in Versions : v.exists /\ v.deleting => v.finalizer

\* What the watch has not delivered ends in the current version.
CacheFollows ==
    IF CaughtUp THEN cache = api ELSE unseen[Len(unseen)] = api

\* A version that has the finalizer and is not being deleted.
Guarded(v) == v.exists /\ v.finalizer /\ ~v.deleting
==============================================================================
