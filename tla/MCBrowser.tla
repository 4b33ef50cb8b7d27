------------------------------ MODULE MCBrowser ------------------------------
(* Instances of BrowserReconciler for TLC. *)
EXTENDS BrowserInvariant, BrowserRefinement, TLC

Base == [running |-> TRUE, profileUid |-> "default", reclaimPolicy |-> "Retain",
         extensions |-> {}, cookies |-> FALSE]

\* Deletion, re-creation and reclaim policy.
LifecycleSpecs == {Base, [Base EXCEPT !.reclaimPolicy = "Delete"]}

\* A profile of its own with cookies and extensions, created with both, and the
\* default profile, into which extensions are injected.
DiscoverySpecs ==
    {[Base EXCEPT !.profileUid = "shop", !.extensions = Extensions, !.cookies = TRUE],
     [Base EXCEPT !.extensions = Extensions]}

\* No action tells one endpoint from another.
EndpointSymmetry == Permutations(Endpoints)
==============================================================================
