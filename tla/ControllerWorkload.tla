-------------------------- MODULE ControllerWorkload --------------------------
(***************************************************************************)
(* What a Controller resource stands for inside the cluster: its Deployment*)
(* and Service, the pods of the controller process with the browsers each  *)
(* has been told about, and the Browsers of the namespace as the operator's*)
(* cache shows them.                                                       *)
(*                                                                         *)
(* The shapes come from api/v1alpha1 and controller_resources.go.  The     *)
(* Deployment mounts no volume, so a pod that starts knows no browser.     *)
(***************************************************************************)
EXTENDS ObjectStore, FiniteSets

CONSTANTS
    Pods,        \* controller pods
    Names,       \* names of the Browsers
    Profiles,    \* profile ids, the controller's browser_ids
    Labels,      \* label pairs Browsers carry and selectors ask for
    Views,       \* what the cache may show of each Browser
    None         \* a value that is nothing of the above

\* A Browser as the sync reads it: profileUid (or the name), status.phase
\* Running or not, status.wsUrl and the labels.  Addresses are numbered in the
\* order they come into use, 0 is the empty one.
BrowserViews == [profile: Profiles, running: BOOLEAN, wsUrl: Nat, labels: SUBSET Labels]

ASSUME WorkloadAssumption ==
    /\ IsFiniteSet(Names)
    /\ IsFiniteSet(Pods)
    /\ Views \in [Names -> SUBSET BrowserViews]
    /\ None \notin BrowserViews
    /\ None \notin Nat /\ None \notin [owner: Nat, replicas: Nat]

VARIABLES
    browsers,   \* the cached Browser of each name, or None
    deploy,     \* the Deployment [owner, replicas], or None
    svc,        \* the uid of the Controller owning the Service, or None
    pods,       \* state of each controller pod
    known       \* per pod and profile id, the address it was given, or None

children == <<deploy, svc>>
runtime  == <<pods, known>>

------------------------------------------------------------------------------
(* The Controller resource. *)

Specs == [replicas: 0 .. Cardinality(Pods), browserSelector: SUBSET Labels]

\* What is registered, by profile id: an address, or None.
Registrations == [Profiles -> Nat \cup {None}]

Nobody == [q \in Profiles |-> None]

\* url and message follow from the phase; registered is the map the next sync
\* builds from status.registeredBrowsers.
Statuses == [phase: {"", "Creating", "Running"}, registered: Registrations]

NoStatus == [phase |-> "", registered |-> Nobody]

Controllers == [uid: Nat, exists: BOOLEAN, deleting: BOOLEAN, finalizer: BOOLEAN,
                spec: Specs, status: Statuses]

NewController(uid, spec) ==
    [uid |-> uid, exists |-> TRUE, deleting |-> FALSE, finalizer |-> FALSE,
     spec |-> spec, status |-> NoStatus]

\* A removed object leaves its uid and its last spec behind.
Gone(obj) == [obj EXCEPT !.exists = FALSE, !.finalizer = FALSE, !.status = NoStatus]

OwnerLives(owner) == api.exists /\ api.uid = owner

------------------------------------------------------------------------------
(* Kubernetes. *)

PodReady(p) == pods[p] = "ready"

\* The Service sends a call to any ready pod.
Reachable == IF svc = None THEN {} ELSE {p \in Pods : PodReady(p)}

CollectDeployment ==
    /\ deploy # None /\ ~OwnerLives(deploy.owner)
    /\ deploy' = None
    /\ UNCHANGED <<store, browsers, svc, runtime>>

CollectService ==
    /\ svc # None /\ ~OwnerLives(svc)
    /\ svc' = None
    /\ UNCHANGED <<store, browsers, deploy, runtime>>

\* A user deletes the Deployment or the Service by hand.
DeleteChild ==
    /\ \/ deploy # None /\ deploy' = None /\ UNCHANGED svc
       \/ svc # None /\ svc' = None /\ UNCHANGED deploy
    /\ UNCHANGED <<store, browsers, runtime>>

PodsUp == {p \in Pods : pods[p] # "absent"}

Replicas == IF deploy = None THEN 0 ELSE deploy.replicas

LaunchPod(p) ==
    /\ pods[p] = "absent"
    /\ pods' = [pods EXCEPT ![p] = "starting"]
    /\ UNCHANGED <<store, browsers, children, known>>

StopPod(p) ==
    /\ pods[p] # "absent"
    /\ pods' = [pods EXCEPT ![p] = "absent"]
    /\ known' = [known EXCEPT ![p] = Nobody]
    /\ UNCHANGED <<store, browsers, children>>

StartPod(p) == Cardinality(PodsUp) < Replicas /\ LaunchPod(p)

PodBecomesReady(p) ==
    /\ pods[p] = "starting"
    /\ pods' = [pods EXCEPT ![p] = "ready"]
    /\ UNCHANGED <<store, browsers, children, known>>

PodBecomesUnready(p) ==
    /\ PodReady(p)
    /\ pods' = [pods EXCEPT ![p] = "starting"]
    /\ UNCHANGED <<store, browsers, children, known>>

ScaleDown(p) == Cardinality(PodsUp) > Replicas /\ StopPod(p)

\* A pod is evicted, or its process crashes and starts again in its place.
PodLost(p) == Cardinality(PodsUp) <= Replicas /\ StopPod(p)
==============================================================================
