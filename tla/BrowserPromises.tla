--------------------------- MODULE BrowserPromises ---------------------------
(***************************************************************************)
(* Sentences of the repository about Browsers that its code does not keep. *)
(* Each is refuted by a run of its own.                                    *)
(***************************************************************************)
EXTENDS BrowserReconciler

\* "Retain" (default) keeps profile data (browser_types.go:54): a Browser with
\* that policy never runs on a claim that disappears as soon as its pod stops.
RunsOnKeptVolume ==
    api.exists /\ ~api.deleting /\ api.spec.reclaimPolicy = "Retain"
        /\ api.status.phase = "Running" => pvc # "terminating"

\* A failed extension install is non-fatal, the old info is returned "so status
\* is still updated" (browser_controller.go:561): the reconcile reports Running.
FailedInstallIsNonFatal ==
    [][At("addExtensions") /\ task'.step = "status" =>
         task'.outcome.phase = "Running"]_vars
==============================================================================
