--------------------------- MODULE SharedName_proof ---------------------------
(***************************************************************************)
(* A Browser and a Controller of one name: each keeps its own in order     *)
(* although the other one refuses it at any time, and they never hold one  *)
(* child each.  What holds of one side alone is cited from its own proofs. *)
(***************************************************************************)
EXTENDS SharedName, FiniteSetTheorems, TLAPS

------------------------------------------------------------------------------
(* What the proofs about each side assume. *)

LEMMA BrowserAssumptions == B!WorkloadAssumption /\ B!ReconcilerAssumption
BY SharedAssumption DEF B!WorkloadAssumption, B!ReconcilerAssumption

LEMMA ControllerAssumptions == C!WorkloadAssumption /\ C!ReconcilerAssumption
<1>1. C!IsFiniteSet({})
  <2>1. IsFiniteSet({})
    BY FS_EmptySet
  <2>2. \A S : C!IsFiniteSet(S) <=> IsFiniteSet(S)
    BY Zenon DEF C!IsFiniteSet, IsFiniteSet
  <2> QED  BY <2>1, <2>2
<1>2. C!BrowserViews = {}
  BY DEF C!BrowserViews
<1>3. [n \in {} |-> {}] \in [{} -> SUBSET {}]
  OBVIOUS
<1>4. C!WorkloadAssumption
  BY <1>1, <1>2, <1>3, SharedAssumption DEF C!WorkloadAssumption
<1>5. C!ReconcilerAssumption
  BY SharedAssumption DEF C!ReconcilerAssumption
<1> QED  BY <1>4, <1>5

------------------------------------------------------------------------------
(* Each step, as either side sees it. *)

\* A step is one of the Browser's own, or ends a reconcile that was refused.
LEMMA BrowserSide ==
    ASSUME [Next]_allVars
    PROVE  \/ [B!Next]_(B!vars)
           \/ B!Return(TRUE) /\ UNCHANGED browserRest
<1> USE DEF browserVars, browserRest, B!vars, B!store, B!children, B!runtime, B!queue
<1>1. CASE OfBrowser(BrowserWorker)
  BY <1>1 DEF OfBrowser, BrowserWorker, B!Next, B!Calm
<1>2. CASE \/ BrowserEvent \/ OfBrowser(B!TimerFires) \/ OfBrowser(B!ChildEvent)
           \/ OfBrowser(BrowserCluster)
  BY <1>2 DEF OfBrowser, BrowserEvent, BrowserCluster, B!Next, B!Calm, B!Cluster
<1>3. CASE UNCHANGED browserVars
  BY <1>3
<1>4. CASE Disturbed
  BY <1>3, <1>4 DEF Disturbed, B!Next, B!Disruption
<1>5. CASE UNCHANGED allVars
  BY <1>3, <1>5 DEF allVars
<1> QED  BY <1>1, <1>2, <1>3, <1>4, <1>5 DEF Next, Calm, OfController

\* So it is for the Controller, which the changes of the Browser wake besides.
LEMMA ControllerSide ==
    ASSUME [Next]_allVars
    PROVE  \/ [C!Next]_(C!vars)
           \/ C!Return(TRUE) /\ UNCHANGED <<controllerRest, cqueued>>
           \/ /\ cqueued' = (cqueued \/ ccache.exists)
              /\ UNCHANGED <<controllerRest, ctimer, ctask>>
<1> USE DEF controllerVars, controllerRest, C!vars, C!store, C!children, C!runtime, C!queue
<1>1. CASE OfController(ControllerWorker)
  BY <1>1 DEF OfController, ControllerWorker, C!Next, C!Calm
<1>2. CASE \/ OfController(C!ControllerEvent) \/ OfController(C!TimerFires)
           \/ OfController(C!ChildEvent) \/ OfController(ControllerCluster)
  BY <1>2 DEF OfController, ControllerCluster, C!Next, C!Calm
<1>3. CASE UNCHANGED controllerVars
  BY <1>3
<1>4. CASE Disturbed
  BY <1>3, <1>4 DEF Disturbed, C!Next, C!Change, C!Mishap
<1>5. CASE UNCHANGED allVars
  BY <1>3, <1>5 DEF allVars
<1>6. CASE BrowserEvent
  BY <1>6 DEF BrowserEvent
<1> QED  BY <1>1, <1>2, <1>3, <1>4, <1>5, <1>6 DEF Next, Calm, OfBrowser

------------------------------------------------------------------------------
(* Both invariants outlast the refusals. *)

LEMMA BrowserKept ==
    ASSUME SharedInv, [Next]_allVars
    PROVE  B!IInv' /\ B!ChildrenInPlace'
<1>1. CASE [B!Next]_(B!vars)
  BY <1>1, BrowserAssumptions, B!IInvPreserved, B!PlacesPreserved DEF SharedInv
<1>2. CASE B!Return(TRUE) /\ UNCHANGED browserRest
  <2>1. UNCHANGED <<bqueued, B!store, B!children, B!runtime>>
    BY <1>2 DEF browserRest, B!store, B!children, B!runtime
  <2> QED  BY <1>2, <2>1, BrowserAssumptions, B!ReturnsInPlace DEF SharedInv
<1> QED  BY <1>1, <1>2, BrowserSide

LEMMA ControllerKept ==
    ASSUME SharedInv, [Next]_allVars
    PROVE  C!IInv' /\ C!ChildrenInPlace'
<1>1. CASE [C!Next]_(C!vars)
  BY <1>1, ControllerAssumptions, C!IInvNext, C!PlacesPreserved DEF SharedInv
<1>2. CASE C!Return(TRUE) /\ UNCHANGED <<controllerRest, cqueued>>
  <2>1. UNCHANGED <<cqueued, C!store, browsers, C!children, C!runtime>>
    BY <1>2 DEF controllerRest, C!store, C!children, C!runtime
  <2> QED  BY <1>2, <2>1, ControllerAssumptions, C!ReturnsInPlace DEF SharedInv
<1>3. CASE /\ cqueued' = (cqueued \/ ccache.exists)
           /\ UNCHANGED <<controllerRest, ctimer, ctask>>
  <2>1. ccache.exists \in BOOLEAN
    BY DEF SharedInv, C!IInv, C!TypeOK, C!Controllers
  <2>2. UNCHANGED <<ctimer, ctask, C!store, browsers, C!children, C!runtime>>
    BY <1>3 DEF controllerRest, C!store, C!children, C!runtime
  <2> QED  BY <1>3, <2>1, <2>2, ControllerAssumptions, C!WokenInPlace DEF SharedInv
<1> QED  BY <1>1, <1>2, <1>3, ControllerSide
------------------------------------------------------------------------------
(* One owner at a time. *)

\* The Browser takes a child only where the Controller has none.
LEMMA BrowserTakes ==
    ASSUME SharedInv, [Next]_allVars
    PROVE  /\ bdeploy' \in {bdeploy, None} \/ (cdeploy = None /\ cdeploy' = None)
           /\ bsvc' \in {bsvc, None} \/ (csvc = None /\ csvc' = None)
<1>1. CASE OfBrowser(BrowserWorker)
  <2>1. UNCHANGED <<cdeploy, csvc>>
    BY <1>1 DEF OfBrowser, controllerVars, controllerRest
  <2>2. CASE BrowserRefused
    BY <1>1, <2>2 DEF OfBrowser, BrowserWorker, browserRest
  <2>3. CASE ~BrowserRefused /\ B!EnsureDeployment
    <3>1. cdeploy = None /\ UNCHANGED bsvc
      BY <2>3 DEF BrowserRefused, Refused, B!EnsureDeployment, B!At
    <3> QED  BY <2>1, <3>1
  <2>4. CASE ~BrowserRefused /\ B!EnsureService
    <3>1. csvc = None /\ UNCHANGED bdeploy
      BY <2>4 DEF BrowserRefused, Refused, B!EnsureService, B!At
    <3> QED  BY <2>1, <3>1
  <2>5. CASE B!Worker /\ ~B!EnsureDeployment /\ ~B!EnsureService
    BY <2>5, BrowserAssumptions, B!WorkerPlaces DEF SharedInv, B!IInv
  <2> QED  BY <1>1, <2>2, <2>3, <2>4, <2>5 DEF OfBrowser, BrowserWorker
<1>2. CASE \/ BrowserEvent \/ OfBrowser(B!TimerFires) \/ OfBrowser(B!ChildEvent)
           \/ OfBrowser(BrowserCluster) \/ Disturbed \/ UNCHANGED browserVars
  BY <1>2 DEF OfBrowser, BrowserEvent, B!BrowserEvent, B!TimerFires, B!ChildEvent,
              BrowserCluster, B!ClaimStep, B!GarbageStep, B!Outside, B!ClaimRemoved,
              B!ClaimDelivered, B!CollectDeployment, B!CollectService, Disturbed, B!User,
              B!CreateBrowser, B!EditSpec, B!DeleteBrowser, B!UserWrite,
              B!OperatorRestart, B!children, browserVars, browserRest
<1> QED  BY <1>1, <1>2 DEF Next, Calm, OfController, allVars

\* And the Controller only where the Browser has none.
LEMMA ControllerTakes ==
    ASSUME SharedInv, [Next]_allVars
    PROVE  /\ cdeploy' \in {cdeploy, None} \/ (bdeploy = None /\ bdeploy' = None)
           /\ csvc' \in {csvc, None} \/ (bsvc = None /\ bsvc' = None)
<1>1. CASE OfController(ControllerWorker)
  <2>1. UNCHANGED <<bdeploy, bsvc>>
    BY <1>1 DEF OfController, browserVars, browserRest
  <2>2. CASE ControllerRefused
    BY <1>1, <2>2 DEF OfController, ControllerWorker, controllerRest
  <2>3. CASE ~ControllerRefused /\ C!EnsureDeployment
    <3>1. bdeploy = None /\ UNCHANGED csvc
      BY <2>3 DEF ControllerRefused, Refused, C!EnsureDeployment, C!At
    <3> QED  BY <2>1, <3>1
  <2>4. CASE ~ControllerRefused /\ C!EnsureService
    <3>1. bsvc = None /\ UNCHANGED cdeploy
      BY <2>4 DEF ControllerRefused, Refused, C!EnsureService, C!At
    <3> QED  BY <2>1, <3>1
  <2>5. CASE C!Worker /\ ~C!EnsureDeployment /\ ~C!EnsureService
    BY <2>5, ControllerAssumptions, C!WorkerPlaces DEF SharedInv, C!IInv
  <2> QED  BY <1>1, <2>2, <2>3, <2>4, <2>5 DEF OfController, ControllerWorker
<1>2. CASE \/ OfController(C!ControllerEvent) \/ OfController(C!TimerFires)
           \/ OfController(C!ChildEvent) \/ OfController(ControllerCluster)
           \/ Disturbed \/ BrowserEvent \/ UNCHANGED controllerVars
  BY <1>2 DEF OfController, C!ControllerEvent, C!TimerFires, C!ChildEvent, BrowserEvent,
              ControllerCluster, C!GarbageStep, C!Outside, C!CollectDeployment,
              C!CollectService, Disturbed, C!User, C!CreateController, C!EditSpec,
              C!DeleteController, C!UserWrite, C!OperatorRestart, C!children,
              controllerVars, controllerRest
<1> QED  BY <1>1, <1>2 DEF Next, Calm, OfBrowser, allVars

------------------------------------------------------------------------------
(* Theorems. *)

\* The inductive invariant: each side keeps its own invariant and its children in
\* place, and neither takes a child of the other one.
THEOREM SharedInvariance == Spec => []SharedInv
<1>1. Init => SharedInv
  <2> SUFFICES ASSUME Init PROVE SharedInv
    OBVIOUS
  <2>1. B!IInv /\ B!ChildrenInPlace
    BY BrowserAssumptions, B!InitInPlace DEF Init
  <2>2. C!IInv /\ C!ChildrenInPlace
    BY ControllerAssumptions, C!InitInPlace DEF Init
  <2>3. Exclusive
    BY DEF Init, B!Init, Exclusive
  <2> QED  BY <2>1, <2>2, <2>3 DEF SharedInv
<1>2. SharedInv /\ [Next]_allVars => SharedInv'
  <2> SUFFICES ASSUME SharedInv, [Next]_allVars PROVE SharedInv'
    OBVIOUS
  <2>1. Exclusive'
    BY BrowserTakes, ControllerTakes DEF SharedInv, Exclusive
  <2> QED  BY <2>1, BrowserKept, ControllerKept DEF SharedInv
<1> QED  BY <1>1, <1>2, PTL DEF Spec

\* The two never share the children out between them, which would leave both
\* refused for ever: whoever exists and has the Service has the Deployment, too.
THEOREM NobodyIsSplit == Spec => []NeverSplit
<1>1. SharedInv => NeverSplit
  BY DEF SharedInv, Exclusive, NeverSplit, BrowserHas, ControllerHas,
         B!ChildrenInPlace, C!ChildrenInPlace
<1> QED  BY <1>1, SharedInvariance, PTL

\* The one that is refused publishes nothing: a status is written, under the
\* current resourceVersion, by who has come past both ensure functions.
THEOREM OnlyTheHolderReports == Spec => StatusOfHolder
<1>1. SharedInv /\ [Next]_allVars =>
        [/\ bapi'.exists /\ bapi'.status # bapi.status /\ bapi'.uid = bapi.uid =>
              BrowserHas.deploy /\ BrowserHas.svc
         /\ capi'.exists /\ capi'.status # capi.status /\ capi'.uid = capi.uid =>
              ControllerHas.deploy /\ ControllerHas.svc]_allVars
  <2> SUFFICES ASSUME SharedInv, [Next]_allVars
               PROVE  /\ bapi'.exists /\ bapi'.status # bapi.status /\ bapi'.uid = bapi.uid =>
                           BrowserHas.deploy /\ BrowserHas.svc
                      /\ capi'.exists /\ capi'.status # capi.status /\ capi'.uid = capi.uid =>
                           ControllerHas.deploy /\ ControllerHas.svc
    OBVIOUS
  <2>1. bapi'.exists /\ bapi'.status # bapi.status /\ bapi'.uid = bapi.uid =>
          BrowserHas.deploy /\ BrowserHas.svc
    <3>1. UNCHANGED browserRest => bapi' = bapi
      BY DEF browserRest
    <3> QED  BY <3>1, BrowserSide, BrowserAssumptions, B!PublisherHolds
             DEF SharedInv, BrowserHas
  <2>2. capi'.exists /\ capi'.status # capi.status /\ capi'.uid = capi.uid =>
          ControllerHas.deploy /\ ControllerHas.svc
    <3>1. UNCHANGED controllerRest => capi' = capi
      BY DEF controllerRest
    <3> QED  BY <3>1, ControllerSide, ControllerAssumptions, C!PublisherHolds
             DEF SharedInv, ControllerHas
  <2> QED  BY <2>1, <2>2
<1> QED  BY <1>1, SharedInvariance, PTL DEF StatusOfHolder, Spec
==============================================================================
