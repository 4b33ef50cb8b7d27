------------------------------ MODULE SharedName ------------------------------
(***************************************************************************)
(* A Browser and a Controller of one name and namespace.  Each reconciler  *)
(* names its Deployment and its Service after its own object, so the two   *)
(* compete: SetControllerReference refuses a child that an object of the   *)
(* other kind owns, and the reconcile ends with a retry.                   *)
(*                                                                         *)
(* Both reconcilers are here as they are, one worker each, in one operator *)
(* process, and with the theorems about each, which say what holds of one  *)
(* alone.  There is one Deployment and one Service of the name: bdeploy,   *)
(* bsvc and cdeploy, csvc are these, split by the kind of their owner.     *)
(* Pods and addresses are left out; calls only fail by being refused.      *)
(***************************************************************************)
EXTENDS Naturals, Sequences

CONSTANTS
    BrowserSpecs,      \* the specs users apply to the Browser
    ControllerSpecs,   \* and to the Controller
    MaxUid, MaxLag,    \* bounds, for each of the two
    MaxMishaps,        \* bound: writes of users, restarts of the operator
    None

VARIABLES
    bapi, bcache, bunseen, pvc, pvcSeen, bdeploy, bsvc, bpods, launcher,
    bqueued, btimer, btask,
    capi, ccache, cunseen, browsers, cdeploy, csvc, cpods, known,
    cqueued, ctimer, ctask,
    mishaps

B == INSTANCE BrowserReconciler_proof WITH
    Pods <- {}, Profiles <- {"default", "x"}, BrowserName <- "x", Endpoints <- {0},
    Extensions <- {}, SpecChoices <- BrowserSpecs, Faults <- {},
    api <- bapi, cache <- bcache, unseen <- bunseen, deploy <- bdeploy, svc <- bsvc,
    pods <- bpods, queued <- bqueued, timer <- btimer, task <- btask

C == INSTANCE ControllerReconciler_proof WITH
    Pods <- {}, Names <- {}, Profiles <- {}, Labels <- {}, Views <- [n \in {} |-> {}],
    SpecChoices <- ControllerSpecs, Faults <- {"operator"},
    api <- capi, cache <- ccache, unseen <- cunseen, deploy <- cdeploy, svc <- csvc,
    pods <- cpods, queued <- cqueued, timer <- ctimer, task <- ctask

ASSUME SharedAssumption ==
    /\ MaxUid \in Nat /\ MaxLag \in Nat /\ MaxMishaps \in Nat
    /\ None \notin Nat /\ None \notin [owner: Nat, replicas: Nat]
    /\ BrowserSpecs \subseteq B!Specs /\ ControllerSpecs \subseteq C!Specs

browserRest    == <<bapi, bcache, bunseen, pvc, pvcSeen, bdeploy, bsvc, bpods, launcher, bqueued>>
controllerRest == <<capi, ccache, cunseen, browsers, cdeploy, csvc, cpods, known>>

browserVars    == <<browserRest, btimer, btask>>
controllerVars == <<controllerRest, cqueued, ctimer, ctask>>
allVars        == <<browserVars, controllerVars, mishaps>>

Init == B!Init /\ C!Init /\ mishaps = 0

\* A step of one side, and of nothing else.
OfBrowser(A)    == A /\ UNCHANGED <<controllerVars, mishaps>>
OfController(A) == A /\ UNCHANGED <<browserVars, mishaps>>

------------------------------------------------------------------------------
(* AlreadyOwnedError. *)

Refused(step, deploy, svc) ==
    \/ step = "deployment" /\ deploy # None
    \/ step = "service" /\ svc # None

BrowserRefused == Refused(btask.step, cdeploy, csvc)

ControllerRefused == Refused(ctask.step, bdeploy, bsvc)

\* Mutant: the error of the Deployment is dropped.
BrowserGoesOn ==
    IF BrowserRefused /\ B!At("deployment")
    THEN /\ B!Goto("service")
         /\ UNCHANGED <<browserRest, btimer>>
    ELSE ~BrowserRefused /\ B!Worker

\* Mutant: the error is swallowed, and nothing comes back to the name.
BrowserGivesUp ==
    IF BrowserRefused
    THEN B!Return(FALSE) /\ UNCHANGED browserRest
    ELSE B!Worker

\* Reconcile, where an ensure function may come upon the other one's child.
BrowserWorker ==
    IF BrowserRefused
    THEN B!Return(TRUE) /\ UNCHANGED browserRest
    ELSE B!Worker

\* Mutant: the error of the Service is dropped.
ControllerGoesOn ==
    IF ControllerRefused /\ C!At("service")
    THEN /\ C!Goto("pods")
         /\ UNCHANGED <<controllerRest, cqueued, ctimer>>
    ELSE ~ControllerRefused /\ C!Worker

ControllerWorker ==
    IF ControllerRefused
    THEN C!Return(TRUE) /\ UNCHANGED <<controllerRest, cqueued>>
    ELSE C!Worker

------------------------------------------------------------------------------
\* The watch on Browsers also wakes the Controllers of the namespace.
BrowserEvent ==
    /\ B!BrowserEvent
    /\ cqueued' = (cqueued \/ ccache.exists)
    /\ UNCHANGED <<controllerRest, ctimer, ctask, mishaps>>

BrowserCluster    == B!ClaimStep \/ B!GarbageStep
ControllerCluster == C!GarbageStep

Calm ==
    \/ OfBrowser(BrowserWorker) \/ OfController(ControllerWorker)
    \/ BrowserEvent \/ OfController(C!ControllerEvent)
    \/ OfBrowser(B!TimerFires) \/ OfController(C!TimerFires)
    \/ OfBrowser(B!ChildEvent) \/ OfController(C!ChildEvent)
    \/ OfBrowser(BrowserCluster) \/ OfController(ControllerCluster)

Disturbed ==
    /\ mishaps < MaxMishaps
    /\ mishaps' = mishaps + 1
    /\ \/ B!User /\ UNCHANGED controllerVars
       \/ C!User /\ UNCHANGED browserVars
       \/ B!OperatorRestart /\ C!OperatorRestart

Next == Calm \/ Disturbed

Fairness ==
    /\ WF_allVars(OfBrowser(BrowserWorker)) /\ WF_allVars(OfController(ControllerWorker))
    /\ WF_allVars(BrowserEvent) /\ WF_allVars(OfController(C!ControllerEvent))
    /\ WF_allVars(OfBrowser(B!TimerFires)) /\ WF_allVars(OfController(C!TimerFires))
    /\ WF_allVars(OfBrowser(B!ClaimStep)) /\ WF_allVars(OfBrowser(B!GarbageStep))
    /\ WF_allVars(OfController(ControllerCluster))

Spec == Init /\ [][Next]_allVars /\ Fairness

------------------------------------------------------------------------------
BrowserHas    == [deploy |-> bdeploy # None /\ B!OwnerLives(bdeploy.owner),
                  svc    |-> bsvc # None /\ B!OwnerLives(bsvc)]
ControllerHas == [deploy |-> cdeploy # None /\ C!OwnerLives(cdeploy.owner),
                  svc    |-> csvc # None /\ C!OwnerLives(csvc)]

\* There is one Deployment and one Service, and a Browser and a Controller that
\* exist never hold one of them each, which neither could ever get out of: the
\* one that gets the Deployment gets the Service, however deletions, garbage
\* collection and restarts interleave.
NeverSplit ==
    /\ bdeploy = None \/ cdeploy = None
    /\ bsvc = None \/ csvc = None
    /\ ~(BrowserHas.deploy /\ ControllerHas.svc)
    /\ ~(ControllerHas.deploy /\ BrowserHas.svc)

\* Only the one that holds both children publishes a status: the other never
\* reports, for itself, on a workload that is not its own.
StatusOfHolder ==
    [][/\ bapi'.exists /\ bapi'.status # bapi.status /\ bapi'.uid = bapi.uid =>
            BrowserHas.deploy /\ BrowserHas.svc
       /\ capi'.exists /\ capi'.status # capi.status /\ capi'.uid = capi.uid =>
            ControllerHas.deploy /\ ControllerHas.svc]_allVars

\* One Deployment and one Service: of one kind of owner at a time.
Exclusive == (bdeploy = None \/ cdeploy = None) /\ (bsvc = None \/ csvc = None)

\* What keeps each side in order survives the refusals, and the two keep out of
\* each other's way.
SharedInv ==
    /\ B!IInv /\ B!ChildrenInPlace
    /\ C!IInv /\ C!ChildrenInPlace
    /\ Exclusive

\* Once users stop, one of those that exist holds both children, a successor
\* after the other one is gone included: a refused reconcile is retried, and
\* what garbage collection has not removed yet does not shut it out.
OneServed ==
    <>[](bapi.exists \/ capi.exists =>
            \/ BrowserHas.deploy /\ BrowserHas.svc
            \/ ControllerHas.deploy /\ ControllerHas.svc)
==============================================================================
