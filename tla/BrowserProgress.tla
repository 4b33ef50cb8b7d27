--------------------------- MODULE BrowserProgress ---------------------------
(***************************************************************************)
(* Progress of the Browser reconciler: users, failures and disruptions act *)
(* a bounded number of times at moments of their choice, and from then on  *)
(* calls succeed.  Whatever they left behind, the requeues have to lead the*)
(* cluster and the reported status to what the spec asks for.              *)
(*                                                                         *)
(* Next is that of BrowserReconciler, with a budget paid by every step that*)
(* may be a failure or a disruption; Quiet is the same reconciler when no  *)
(* call fails, and only its steps are fair.                                *)
(***************************************************************************)
EXTENDS BrowserReconciler

CONSTANT MaxMishaps    \* bound: user writes, failures and disruptions

ASSUME ProgressAssumption == MaxMishaps \in Nat

VARIABLE mishaps       \* how many of them have happened

Quiet == INSTANCE BrowserReconciler WITH Faults <- {}

allVars == <<vars, mishaps>>

BoundedInit == Init /\ mishaps = 0

Smooth(A) == A /\ UNCHANGED mishaps

Disturbed ==
    /\ mishaps < MaxMishaps
    /\ mishaps' = mishaps + 1
    /\ Disruption \/ Outside(DeleteChild) \/ (Worker /\ ~Quiet!Worker)

BoundedNext == Smooth(Quiet!Calm) \/ Disturbed

\* The worker goroutine runs, the watch delivers, the delaying queue hands out
\* due keys, and the Deployment controller, the kubelet, the garbage collector
\* and the launcher do their work.  Child events are not owed to anyone.
Fairness ==
    /\ WF_allVars(Smooth(Quiet!Worker))
    /\ WF_allVars(Smooth(Quiet!BrowserEvent))
    /\ WF_allVars(Smooth(Quiet!TimerFires))
    /\ WF_allVars(Smooth(Quiet!ClaimStep))
    /\ WF_allVars(Smooth(Quiet!GarbageStep))
    /\ \A p \in Pods : WF_allVars(Smooth(Quiet!KubeletStep(p)))

ProgressSpec == BoundedInit /\ [][BoundedNext]_allVars /\ Fairness

------------------------------------------------------------------------------
\* The Chrome a status points to is up at that address in a ready pod.
Live(target) ==
    /\ target # None /\ pods[target.pod] = "ready"
    /\ launcher[target.pod][target.profile] # None
    /\ launcher[target.pod][target.profile].endpoint = target.endpoint
    /\ api.spec.extensions \subseteq launcher[target.pod][target.profile].extensions

NothingLeft ==
    /\ deploy = None /\ svc = None /\ \A p \in Pods : pods[p] = "absent"
    /\ api.spec.reclaimPolicy = "Delete" => pvc = "absent"

Up ==
    /\ api.status.phase = "Running" /\ Live(api.status.target)
    /\ deploy # None /\ svc # None
    /\ ProfileUID(api.spec) \in {api.status.target.profile, "default"}

Down ==
    /\ api.status = Stopped
    /\ deploy # None /\ deploy.replicas = 0 /\ \A p \in Pods : pods[p] = "absent"

\* Once disturbances end, the cluster comes to rest as the spec asks: a Browser
\* being deleted is gone with its children (and its claim, if so asked), a
\* stopped one has its Deployment but runs no pod and advertises no address, a
\* running one advertises a Chrome of its profile that is up at that address
\* with all its extensions; children deleted by hand are back.
Converges ==
    <>[](IF ~api.exists THEN NothingLeft
         ELSE IF api.spec.running THEN Up ELSE Down)
==============================================================================
