--------------------------- MODULE BrowserWorkload ---------------------------
(***************************************************************************)
(* What a Browser resource stands for inside the cluster: its volume claim,*)
(* its Deployment and Service, the pods the Deployment controller runs and *)
(* the launcher (launch.py) that serves Chrome instances in each pod.      *)
(*                                                                         *)
(* The shapes come from api/v1alpha1 and internal/controller/resources.go. *)
(* The behaviour of Kubernetes and of the launcher is external: it is      *)
(* modelled from what the reconciler expects of it.                        *)
(***************************************************************************)
EXTENDS ObjectStore

CONSTANTS
    Pods,          \* pod identities; a pod has one name and one IP
    Profiles,      \* profile ids the launcher can serve, "default" among them
    BrowserName,   \* metadata.name of the Browser, a profile id when profileUid is empty
    Endpoints,     \* (CDP port, WebSocket path) pairs Chrome can come up with
    Extensions,    \* Chrome Web Store extension ids
    None           \* a value that is nothing of the above

ASSUME WorkloadAssumption ==
    /\ {"default", BrowserName} \subseteq Profiles
    /\ Endpoints # {}
    /\ None \notin Pods
    /\ None \notin Nat /\ None \notin [owner: Nat, replicas: Nat]

VARIABLES
    pvc,        \* the claim <name>-profile: "absent", "bound" or "terminating"
    pvcSeen,    \* whether the informer cache holds the claim
    deploy,     \* the Deployment [owner, replicas], or None
    svc,        \* the uid of the Browser owning the Service, or None
    pods,       \* state of each pod of the Deployment
    launcher    \* per pod and profile id, the Chrome instance it runs, or None

children == <<pvc, pvcSeen, deploy, svc>>
runtime  == <<pods, launcher>>

------------------------------------------------------------------------------
(* The Browser resource. *)

Specs == [running: BOOLEAN, profileUid: Profiles \cup {""},
          reclaimPolicy: {"Retain", "Delete"},
          extensions: SUBSET Extensions, cookies: BOOLEAN]

\* podName, podIP, cdpPort, wsEndpoint and wsUrl are always written together:
\* one target stands for the five of them, None for five empty fields.
Targets == [pod: Pods, profile: Profiles, endpoint: Endpoints]

Statuses == [phase: {"", "Creating", "Running", "Stopped"},
             message: {"", "pod", "launcher", "ready", "stopped"},
             target: Targets \cup {None}]

NoStatus == [phase |-> "", message |-> "", target |-> None]

Browsers == [uid: Nat, exists: BOOLEAN, deleting: BOOLEAN, finalizer: BOOLEAN,
             spec: Specs, status: Statuses]

\* A Chrome instance in the launcher's list.
Instances == [endpoint: Endpoints, extensions: SUBSET Extensions, cookies: BOOLEAN]

ProfileUID(spec) == IF spec.profileUid = "" THEN BrowserName ELSE spec.profileUid

NewBrowser(uid, spec) ==
    [uid |-> uid, exists |-> TRUE, deleting |-> FALSE, finalizer |-> FALSE,
     spec |-> spec, status |-> NoStatus]

\* A removed object leaves its uid and its last spec behind.
Gone(obj) == [obj EXCEPT !.exists = FALSE, !.finalizer = FALSE, !.status = NoStatus]

------------------------------------------------------------------------------
(* Pods and launchers. *)

Off == [q \in Profiles |-> None]

\* A pod the readiness scan accepts: Running, Ready, with an IP.  A pod being
\* terminated keeps its Ready condition until its containers stop.
PodReady(p) == pods[p] \in {"ready", "terminating"}

\* The launcher's port answers while the pod's containers run.
Serving(p) == pods[p] # "absent"

Served(p) == {q \in Profiles : launcher[p][q] # None}

OwnerLives(owner) == api.exists /\ api.uid = owner

------------------------------------------------------------------------------
(* Steps of Kubernetes and of the launcher, none of them a failure. *)

\* The volume protection finalizer holds a deleted claim until no pod uses it.
ClaimRemoved ==
    /\ pvc = "terminating" /\ \A p \in Pods : pods[p] = "absent"
    /\ pvc' = "absent"
    /\ UNCHANGED <<store, pvcSeen, deploy, svc, runtime>>

ClaimDelivered ==
    /\ pvcSeen # (pvc # "absent")
    /\ pvcSeen' = (pvc # "absent")
    /\ UNCHANGED <<store, pvc, deploy, svc, runtime>>

\* Garbage collection of children whose owner uid is gone.
CollectDeployment ==
    /\ deploy # None /\ ~OwnerLives(deploy.owner)
    /\ deploy' = None
    /\ UNCHANGED <<store, pvc, pvcSeen, svc, runtime>>

CollectService ==
    /\ svc # None /\ ~OwnerLives(svc)
    /\ svc' = None
    /\ UNCHANGED <<store, pvc, pvcSeen, deploy, runtime>>

PodWanted == deploy # None /\ deploy.replicas > 0

\* A pod starts once the claim it mounts can be attached; a replacement does
\* not wait for a terminating pod.
StartPod(p) ==
    /\ PodWanted /\ pvc = "bound"
    /\ pods[p] = "absent" /\ \A q \in Pods : pods[q] \in {"absent", "terminating"}
    /\ pods' = [pods EXCEPT ![p] = "starting"]
    /\ UNCHANGED <<store, children, launcher>>

\* The launcher brings up the "default" Chrome by itself.
StartDefault(p) ==
    /\ pods[p] \in {"starting", "ready"} /\ launcher[p]["default"] = None
    /\ \E e \in Endpoints :
         launcher' = [launcher EXCEPT ![p]["default"] =
             [endpoint |-> e, extensions |-> {}, cookies |-> FALSE]]
    /\ UNCHANGED <<store, children, pods>>

PodBecomesReady(p) ==
    /\ pods[p] = "starting"
    /\ pods' = [pods EXCEPT ![p] = "ready"]
    /\ UNCHANGED <<store, children, launcher>>

\* A ready pod drains and still reports Ready; one that never was is just gone.
StopPod(p) ==
    /\ \/ /\ pods[p] = "ready"
          /\ pods' = [pods EXCEPT ![p] = "terminating"]
          /\ UNCHANGED launcher
       \/ /\ pods[p] = "starting"
          /\ pods' = [pods EXCEPT ![p] = "absent"]
          /\ launcher' = [launcher EXCEPT ![p] = Off]
    /\ UNCHANGED <<store, children>>

ScaleDown(p) == ~PodWanted /\ StopPod(p)

PodGone(p) ==
    /\ pods[p] = "terminating"
    /\ pods' = [pods EXCEPT ![p] = "absent"]
    /\ launcher' = [launcher EXCEPT ![p] = Off]
    /\ UNCHANGED <<store, children>>

------------------------------------------------------------------------------
(* Disruptions: they may happen, nothing makes them happen. *)

\* A user deletes the Deployment or the Service by hand.  The pods are stopped by
\* ScaleDown, or by Evict if a new Deployment is there before.
DeleteChild ==
    /\ \/ deploy # None /\ deploy' = None /\ UNCHANGED svc
       \/ svc # None /\ svc' = None /\ UNCHANGED deploy
    /\ UNCHANGED <<store, pvc, pvcSeen, runtime>>

Evict(p) == PodWanted /\ StopPod(p)

PodBecomesUnready(p) ==
    /\ pods[p] = "ready"
    /\ pods' = [pods EXCEPT ![p] = "starting"]
    /\ UNCHANGED <<store, children, launcher>>

\* Chrome crashes and the launcher brings it up on another endpoint.
ChromeRestarts(p, q) ==
    /\ launcher[p][q] # None
    /\ \E e \in Endpoints \ {launcher[p][q].endpoint} :
         launcher' = [launcher EXCEPT ![p][q].endpoint = e]
    /\ UNCHANGED <<store, children, pods>>
==============================================================================
