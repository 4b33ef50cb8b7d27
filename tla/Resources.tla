------------------------------- MODULE Resources -------------------------------
(***************************************************************************)
(* The objects the two reconcilers build: resources.go for Browsers,       *)
(* controller_resources.go for Controllers.  The state machines keep only  *)
(* the owner and the replicas of a Deployment; here is what makes that     *)
(* enough, and what the API server says to the rest.                       *)
(*                                                                         *)
(* A spec is a record with a field for each optional one of the CRD, None  *)
(* when it is left out.  Quantities are numbers of milli-CPUs and of MiB,  *)
(* or Malformed.                                                           *)
(***************************************************************************)
EXTENDS Naturals

CONSTANTS
    None,        \* a field that is left out
    Malformed    \* a quantity resource.MustParse panics on

Kinds == {"browser", "controller"}

Units == {"cpu", "memory"}

------------------------------------------------------------------------------
(* Labels. *)

OwnKey(kind) == IF kind = "browser" THEN "livellm.io/browser" ELSE "livellm.io/controller"

\* Pods, Deployment, Service and claim carry them all.
Labels(kind, name) ==
    [key \in {"name", "instance", "managed-by", OwnKey(kind)} |->
        CASE key = "name"       -> IF kind = "browser" THEN "livellm-browser"
                                                       ELSE "livellm-controller"
          [] key = "managed-by" -> "livellm-operator"
          [] OTHER              -> name]

\* What Deployment and Service select by, and what the reconcilers list pods by.
SelectorLabels(kind, name) == [key \in {OwnKey(kind)} |-> name]

Matches(selector, lbls) ==
    \A key \in DOMAIN selector : key \in DOMAIN lbls /\ lbls[key] = selector[key]

------------------------------------------------------------------------------
(* Quantities. *)

DefaultRequests(kind) ==
    IF kind = "browser" THEN [cpu |-> 500, memory |-> 2048] ELSE [cpu |-> 250, memory |-> 512]

DefaultLimits(kind) ==
    IF kind = "browser" THEN [cpu |-> 1000, memory |-> 4096] ELSE [cpu |-> 500, memory |-> 1024]

\* Each value given replaces its default, whatever becomes of the others.
Override(defaults, given) ==
    [u \in Units |-> IF given[u] = None THEN defaults[u] ELSE given[u]]

Requests(kind, spec) == Override(DefaultRequests(kind), spec.requests)

Limits(kind, spec) == Override(DefaultLimits(kind), spec.limits)

OrElse(value, default) == IF value = None THEN default ELSE value

\* Building the claim panics, and the reconcile with it: each one until there is a
\* claim, which is then never built again.
ClaimPanics(spec) == spec.storage = Malformed

\* Building the Deployment panics, in every reconcile.
DeploymentPanics(kind, spec) ==
    \/ \E u \in Units : Malformed \in {spec.requests[u], spec.limits[u]}
    \/ kind = "browser" /\ spec.shmSize = Malformed

------------------------------------------------------------------------------
(* The objects. *)

WorkloadWanted(spec) == OrElse(spec.running, TRUE)

ClaimName(name) == <<name, "profile">>

Claim(name, spec) ==
    [name |-> ClaimName(name), labels |-> Labels("browser", name), owner |-> None,
     storage |-> OrElse(spec.storage, 1024)]

LauncherPort   == 9000
ControllerPort == 8000

DefaultBrowserImage    == "kamasalyamov/livellm-browser:2.0.1"
DefaultControllerImage == "kamasalyamov/livellm-browser:controller-2.0.1"

BrowserDeployment(name, spec, defaultImage) ==
    [replicas |-> IF WorkloadWanted(spec) THEN 1 ELSE 0,
     strategy |-> "Recreate",
     selector |-> SelectorLabels("browser", name),
     labels   |-> Labels("browser", name),
     image    |-> OrElse(spec.image, OrElse(defaultImage, DefaultBrowserImage)),
     requests |-> Requests("browser", spec),
     limits   |-> Limits("browser", spec),
     ports    |-> {LauncherPort, 5901, 6901},
     probe    |-> [path |-> "/browsers", port |-> LauncherPort],
     claims   |-> {ClaimName(name)},
     shm      |-> OrElse(spec.shmSize, 4096)]

ControllerDeployment(name, spec, defaultImage) ==
    [replicas |-> OrElse(spec.replicas, 1),
     strategy |-> "RollingUpdate",
     selector |-> SelectorLabels("controller", name),
     labels   |-> Labels("controller", name),
     image    |-> OrElse(spec.image, OrElse(defaultImage, DefaultControllerImage)),
     requests |-> Requests("controller", spec),
     limits   |-> Limits("controller", spec),
     ports    |-> {ControllerPort},
     probe    |-> [path |-> "/parser/ping", port |-> ControllerPort],
     claims   |-> {},
     shm      |-> None]

BrowserService(name) ==
    [selector |-> SelectorLabels("browser", name), targets |-> {LauncherPort, 5901, 6901}]

ControllerService(name) ==
    [selector |-> SelectorLabels("controller", name), targets |-> {ControllerPort}]

Deployment(kind, name, spec, defaultImage) ==
    IF kind = "browser" THEN BrowserDeployment(name, spec, defaultImage)
                        ELSE ControllerDeployment(name, spec, defaultImage)

Service(kind, name) ==
    IF kind = "browser" THEN BrowserService(name) ELSE ControllerService(name)

\* The API server takes a Deployment that selects its own pods and asks for no
\* more than it allows.
Valid(deployment) ==
    /\ Matches(deployment.selector, deployment.labels)
    /\ \A u \in Units : deployment.requests[u] <= deployment.limits[u]
==============================================================================
