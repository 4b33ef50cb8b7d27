----------------------- MODULE ControllerProgress_proof -----------------------
(***************************************************************************)
(* Proofs about the sync of the Controller reconciler with Browsers that go*)
(* through their protocol.                                                 *)
(***************************************************************************)
EXTENDS ControllerProgress, ControllerReconciler_proof

------------------------------------------------------------------------------
(* The Browsers. *)

ObjectsTyped == DOMAIN objects = Names /\ \A n \in Names : objects[n] \in ObjectsOf(n)

LEMMA ViewType ==
    ASSUME NEW n \in Names, NEW b \in ObjectsOf(n)
    PROVE  View(n, b) \in BrowserViews \cup {None}
<1>1. CASE b.life = "absent"
  BY <1>1 DEF View
<1>2. CASE b.life # "absent"
  <2>1. b.wants \in WantsOf[n] /\ b.address \in Addresses \cup {None}
    BY <1>2 DEF ObjectsOf, Protocol!Objects
  <2>2. b.wants.profile \in Profiles /\ LabelsOf[n] \subseteq Labels
    BY <2>1, ProgressAssumption
  <2>3. (IF b.address = None THEN 0 ELSE b.address) \in Nat
    BY <2>1, ProgressAssumption
  <2> QED  BY <1>2, <2>2, <2>3 DEF View, BrowserViews
<1> QED  BY <1>1, <1>2

LEMMA AbsentType ==
    ASSUME NEW n \in Names
    PROVE  Protocol(n)!Absent \in ObjectsOf(n) /\ Protocol(n)!Absent \in Protocol(n)!Objects
<1>1. Protocol(n)!Absent \in Protocol(n)!Objects
  BY DEF Protocol!Objects, Protocol!Lives, Protocol!Phases, Protocol!Absent
<1>2. Protocol(n)!Absent.life = "absent"
  BY DEF Protocol!Absent
<1> QED  BY <1>1, <1>2 DEF ObjectsOf

\* The protocol keeps to the specs a Browser may have.
LEMMA ProtocolTyped ==
    ASSUME NEW n \in Names, NEW b \in ObjectsOf(n), NEW c \in Protocol(n)!Steps(b)
    PROVE  c \in ObjectsOf(n)
<1> USE DEF Protocol!Lives, Protocol!Phases
<1>1. b \in Protocol(n)!Objects /\ (b.life # "absent" => b.wants # None)
  BY DEF ObjectsOf
<1>2. \A w \in WantsOf[n] : w # None
  BY ProgressAssumption
<1>3. CASE c \in Protocol(n)!Created(b)
  <2>1. PICK w \in WantsOf[n] : c = [Protocol(n)!Absent EXCEPT !.life = "new", !.wants = w]
    BY <1>3 DEF Protocol!Created
  <2>2. c \in Protocol(n)!Objects /\ c.wants = w
    BY <2>1, AbsentType DEF Protocol!Objects
  <2> QED  BY <1>2, <2>2 DEF ObjectsOf
<1>4. CASE c \in Protocol(n)!Edited(b)
  <2>1. PICK w \in WantsOf[n] : c = [b EXCEPT !.wants = w]
    BY <1>4 DEF Protocol!Edited
  <2>2. c \in Protocol(n)!Objects /\ c.wants = w
    BY <1>1, <2>1 DEF Protocol!Objects
  <2> QED  BY <1>2, <2>2 DEF ObjectsOf
<1>5. CASE c \in Protocol(n)!Adopted(b)
  BY <1>1, <1>5 DEF Protocol!Adopted, ObjectsOf, Protocol!Objects
<1>6. CASE c \in Protocol(n)!DeletionAsked(b)
  <2>1. CASE b.life = "new"
    BY <1>6, <2>1, AbsentType DEF Protocol!DeletionAsked
  <2>2. CASE b.life = "managed"
    <3>1. c = [b EXCEPT !.life = "deleting"]
      BY <1>6, <2>2 DEF Protocol!DeletionAsked
    <3>2. c \in Protocol(n)!Objects /\ c.wants = b.wants
      BY <1>1, <3>1 DEF Protocol!Objects
    <3> QED  BY <1>1, <2>2, <3>2 DEF ObjectsOf
  <2> QED  BY <1>6, <2>1, <2>2 DEF Protocol!DeletionAsked
<1>7. CASE c \in Protocol(n)!Published(b)
  <2>1. b.life = "managed"
    BY <1>7 DEF Protocol!Published
  <2>2. PICK phase \in Protocol(n)!Phases, a \in Addresses \cup {None} :
          c = [b EXCEPT !.phase = phase, !.address = a]
    <3>1. CASE c = [b EXCEPT !.phase = "Creating"]
      <4>1. c = [b EXCEPT !.phase = "Creating", !.address = b.address]
        BY <1>1, <3>1 DEF Protocol!Objects
      <4> QED  BY <1>1, <4>1 DEF Protocol!Objects
    <3>2. CASE c = [b EXCEPT !.phase = "Stopped", !.address = None]
      BY <3>2
    <3>3. CASE \E a \in Addresses : c = [b EXCEPT !.phase = "Running", !.address = a]
      BY <3>3
    <3> QED  BY <1>7, <3>1, <3>2, <3>3 DEF Protocol!Published, Protocol!Suitable
  <2>3. c \in Protocol(n)!Objects /\ c.wants = b.wants
    BY <1>1, <2>2 DEF Protocol!Objects
  <2> QED  BY <1>1, <2>1, <2>3 DEF ObjectsOf
<1>8. CASE c \in Protocol(n)!Removed(b)
  BY <1>8, AbsentType DEF Protocol!Removed
<1> QED  BY <1>3, <1>4, <1>5, <1>6, <1>7, <1>8 DEF Protocol!Steps

------------------------------------------------------------------------------
(* The steps of the bounded system are steps of the reconciler and of what *)
(* surrounds it.                                                           *)

LEMMA QuietCardinality == \A S : Quiet!Cardinality(S) = Cardinality(S)
BY Zenon DEF Quiet!Cardinality, Cardinality

\* Only the failures differ: the rest of the reconciler is the same.
LEMMA QuietParts ==
    /\ Quiet!Idle = Idle /\ Quiet!Desired = Desired /\ Quiet!Reachable = Reachable
    /\ \A requeue : Quiet!Return(requeue) <=> Return(requeue)
    /\ \A phase, registered : Quiet!Outcome(phase, registered) <=> Outcome(phase, registered)
    /\ \A obj : Quiet!Gone(obj) = Gone(obj)
    /\ \A obj : (Quiet!Write(obj) <=> Write(obj)) /\ (Quiet!Put(obj) <=> Put(obj))
    /\ \A S : Quiet!Orders(S) = Orders(S)
    /\ \A listed : Quiet!Plan(listed) <=> Plan(listed)
<1>1. Quiet!Idle = Idle
  <2>1. Quiet!Specs = Specs
    BY QuietCardinality, Zenon DEF Quiet!Specs, Specs
  <2>2. Quiet!NoStatus = NoStatus
    BY Zenon DEF Quiet!NoStatus, NoStatus, Quiet!Nobody, Nobody
  <2>3. \A uid, spec : Quiet!NewController(uid, spec) = NewController(uid, spec)
    BY <2>2, Zenon DEF Quiet!NewController, NewController
  <2>4. \A obj : Quiet!Gone(obj) = Gone(obj)
    BY <2>2, Zenon DEF Quiet!Gone, Gone
  <2> QED  BY <2>1, <2>2, <2>3, <2>4, Zenon DEF Quiet!Idle, Idle
<1>2. Quiet!Desired = Desired /\ Quiet!Reachable = Reachable
  BY DEF Quiet!Desired, Desired, Quiet!Reachable, Reachable, Quiet!PodReady, PodReady
<1>3. \A requeue : Quiet!Return(requeue) <=> Return(requeue)
  BY <1>1 DEF Quiet!Return, Return
<1>4. \A phase, registered : Quiet!Outcome(phase, registered) <=> Outcome(phase, registered)
  BY DEF Quiet!Outcome, Outcome
<1>5. \A obj : Quiet!Gone(obj) = Gone(obj)
  BY DEF Quiet!Gone, Gone, Quiet!NoStatus, NoStatus, Quiet!Nobody, Nobody
<1>6. \A obj : (Quiet!Write(obj) <=> Write(obj)) /\ (Quiet!Put(obj) <=> Put(obj))
  BY DEF Quiet!Write, Write, Quiet!Put, Put, Quiet!store, store
<1>7. \A S : Quiet!Orders(S) = Orders(S)
  BY QuietCardinality, Zenon DEF Quiet!Orders, Orders
<1>8. \A listed : Quiet!Plan(listed) <=> Plan(listed)
  BY DEF Quiet!Plan, Plan, Quiet!Sync, Sync, Quiet!EntriesOf, EntriesOf,
         Quiet!LastOf, LastOf
<1> QED  BY <1>1, <1>2, <1>3, <1>4, <1>5, <1>6, <1>7, <1>8

\* Without failures there is less a call can do.
LEMMA QuietWorker == Quiet!Worker => Worker
<1> USE DEF Quiet!store, store, Quiet!children, children, Quiet!runtime, runtime,
            Quiet!queue, queue, Quiet!At, At
<1>1. Quiet!Reconcile => Reconcile
  BY QuietParts DEF Quiet!Reconcile, Reconcile, Quiet!FirstStep, FirstStep,
                    Quiet!CaughtUp, CaughtUp
<1>2. Quiet!AddFinalizer => AddFinalizer
  BY QuietParts DEF Quiet!AddFinalizer, AddFinalizer
<1>3. Quiet!RemoveFinalizer => RemoveFinalizer
  BY QuietParts DEF Quiet!RemoveFinalizer, RemoveFinalizer
<1>4. Quiet!EnsureDeployment => EnsureDeployment
  BY DEF Quiet!EnsureDeployment, EnsureDeployment, Quiet!Goto, Goto
<1>5. Quiet!EnsureService => EnsureService
  BY DEF Quiet!EnsureService, EnsureService, Quiet!Goto, Goto
<1>6. ~Quiet!EnsureFails
  BY DEF Quiet!EnsureFails
<1>7. Quiet!FindReadyPod => FindReadyPod
  BY QuietParts DEF Quiet!FindReadyPod, FindReadyPod, Quiet!PodReady, PodReady
<1>8. Quiet!RegisterBrowser => RegisterBrowser
  BY QuietParts DEF Quiet!RegisterBrowser, RegisterBrowser, Quiet!Sync, Sync,
                    Quiet!First, First
<1>9. Quiet!RegisterFails => RegisterFails
  BY QuietParts DEF Quiet!RegisterFails, RegisterFails, Quiet!Sync, Sync, Quiet!First, First
<1>10. Quiet!DeregisterBrowser => DeregisterBrowser
  BY QuietParts DEF Quiet!DeregisterBrowser, DeregisterBrowser, Quiet!Sync, Sync
<1>11. Quiet!DeregisterFails => DeregisterFails
  BY QuietParts DEF Quiet!DeregisterFails, DeregisterFails, Quiet!Sync, Sync
<1>12. Quiet!UpdateStatus => UpdateStatus
  BY QuietParts DEF Quiet!UpdateStatus, UpdateStatus
<1>13. Quiet!UpdateRefused => UpdateRefused
  BY QuietParts DEF Quiet!UpdateRefused, UpdateRefused
<1> QED  BY <1>1, <1>2, <1>3, <1>4, <1>5, <1>6, <1>7, <1>8, <1>9, <1>10, <1>11, <1>12,
            <1>13 DEF Quiet!Worker, Worker

\* The steps of the reconciler and of Kubernetes, which leave the Browsers alone.
Own ==
    \/ Worker \/ ControllerEvent \/ TimerFires \/ ChildEvent \/ Outside(Surroundings)

LEMMA OwnKeepsBrowsers == Own => UNCHANGED browsers
<1>1. Worker => UNCHANGED browsers
  BY DEF Worker, Reconcile, AddFinalizer, RemoveFinalizer, EnsureDeployment, EnsureService,
         EnsureFails, FindReadyPod, RegisterBrowser, RegisterFails, DeregisterBrowser,
         DeregisterFails, UpdateStatus, UpdateRefused
<1>2. ControllerEvent \/ TimerFires \/ ChildEvent => UNCHANGED browsers
  BY DEF ControllerEvent, TimerFires, ChildEvent
<1>3. Outside(Surroundings) => UNCHANGED browsers
  BY DEF Outside, Surroundings, CollectDeployment, CollectService, DeleteChild, StartPod,
         LaunchPod, PodBecomesReady, ScaleDown, PodLost, StopPod, PodBecomesUnready
<1> QED  BY <1>1, <1>2, <1>3 DEF Own

LEMMA QuietCalm == Quiet!Calm => Own
<1> USE DEF Quiet!store, store, Quiet!children, children, Quiet!runtime, runtime,
            Quiet!queue, queue
<1>1. Quiet!ControllerEvent => ControllerEvent
  BY DEF Quiet!ControllerEvent, ControllerEvent, Quiet!Deliver, Deliver
<1>2. Quiet!TimerFires => TimerFires
  BY DEF Quiet!TimerFires, TimerFires
<1>3. Quiet!ChildEvent => ChildEvent
  BY DEF Quiet!ChildEvent, ChildEvent
<1>4. Quiet!GarbageStep => Outside(Surroundings)
  BY DEF Quiet!GarbageStep, Quiet!Outside, Outside, Surroundings, Quiet!CollectDeployment,
         Quiet!CollectService, CollectDeployment, CollectService, Quiet!OwnerLives, OwnerLives
<1>5. ASSUME NEW p \in Pods, Quiet!KubeletStep(p) PROVE Outside(Surroundings)
  <2>1. Quiet!PodsUp = PodsUp /\ Quiet!Replicas = Replicas /\ Quiet!Nobody = Nobody
    BY Zenon DEF Quiet!PodsUp, PodsUp, Quiet!Replicas, Replicas, Quiet!Nobody, Nobody
  <2>2. StartPod(p) \/ PodBecomesReady(p) \/ ScaleDown(p)
    <3>1. Quiet!StartPod(p) => StartPod(p)
      BY <2>1, QuietCardinality DEF Quiet!StartPod, StartPod, Quiet!LaunchPod, LaunchPod
    <3>2. Quiet!PodBecomesReady(p) => PodBecomesReady(p)
      BY DEF Quiet!PodBecomesReady, PodBecomesReady
    <3>3. Quiet!ScaleDown(p) => ScaleDown(p)
      BY <2>1, QuietCardinality DEF Quiet!ScaleDown, ScaleDown, Quiet!StopPod, StopPod
    <3> QED  BY <1>5, <3>1, <3>2, <3>3 DEF Quiet!KubeletStep, Quiet!Outside
  <2> QED  BY <1>5, <2>2 DEF Quiet!KubeletStep, Quiet!Outside, Outside, Surroundings
<1> QED  BY <1>1, <1>2, <1>3, <1>4, <1>5, QuietWorker DEF Quiet!Calm, Own

LEMMA BoundedSteps ==
    ASSUME ObjectsTyped, BoundedNext
    PROVE  Step /\ ObjectsTyped'
<1>1. CASE Smooth(Quiet!Calm)
  BY <1>1, QuietCalm DEF Smooth, ObjectsTyped, Own, Step
<1>2. ASSUME NEW n \in Names, BrowserMoves(n) PROVE Step /\ ObjectsTyped'
  <2>1. PICK b \in Protocol(n)!Steps(objects[n]) \ {objects[n]} :
          /\ objects' = [objects EXCEPT ![n] = b]
          /\ BrowserSeen(n, View(n, b))
    BY <1>2 DEF BrowserMoves
  <2>2. b \in ObjectsOf(n)
    BY <2>1, ProtocolTyped DEF ObjectsTyped
  <2>3. ObjectsTyped'
    BY <2>1, <2>2 DEF ObjectsTyped
  <2>4. View(n, b) \in BrowserViews \cup {None}
    BY <2>2, ViewType
  <2> QED  BY <2>1, <2>3, <2>4 DEF Step
<1>3. ASSUME User \/ Mishap \/ Outside(DeleteChild) \/ Worker PROVE Step
  BY <1>3 DEF Step, Mishap, Outside, Surroundings
<1> QED  BY <1>1, <1>2, <1>3 DEF BoundedNext, Disturbed, ObjectsTyped

------------------------------------------------------------------------------
(* The sync, as long as no call is lost. *)

\* Steps that leave the worker's plan and what the pods know alone.
LEMMA SyncFramed ==
    ASSUME SyncInv, UNCHANGED known,
           task'.step = task.step, task'.controller = task.controller,
           task'.register = task.register, task'.deregister = task.deregister,
           task'.outcome = task.outcome
    PROVE  SyncInv'
BY DEF SyncInv, CallsLeft, CallsFitOutcome, OutcomeIsEarned, LeftFor, Decides, At

\* A step that leaves no sync and no outcome behind.
LEMMA SyncAway ==
    ASSUME task'.step \notin {"sync", "status"}, task'.register = {}, task'.deregister = {}
    PROVE  SyncInv'
BY DEF SyncInv, CallsLeft, CallsFitOutcome, OutcomeIsEarned, At

LEMMA SyncEffect ==
    ASSUME task \in TaskRecords, NEW outcome, NEW register, NEW deregister,
           Sync(outcome, register, deregister)
    PROVE  /\ task'.outcome = outcome /\ task'.controller = task.controller
           /\ task'.register = register /\ task'.deregister = deregister
           /\ task'.step = IF register = {} /\ deregister = {} THEN "status" ELSE "sync"
BY DEF Sync, TaskRecords

\* The plan accounts for every entry that is to be added, moved or dropped.
LEMMA PlanEarns ==
    ASSUME TypeOK, NEW listed \in Orders(Desired), Plan(listed)
    PROVE  SyncInv'
<1> DEFINE entries == EntriesOf(listed)
           current == task.controller.status.registered
           result  == LastOf(entries)
           left    == {e \in entries : current[e.profile] # e.wsUrl}
           dropped == {q \in Profiles : current[q] # None /\ result[q] = None}
<1>1. /\ entries \subseteq Entries /\ \E n \in Nat : \A e \in entries : e.at <= n
      /\ \A e, f \in entries : e.at = f.at => e = f
  BY EntriesType DEF TypeOK
<1>2. \A q \in Profiles :
        IF \A e \in entries : e.profile # q
        THEN result[q] = None
        ELSE \E e \in entries : /\ e.profile = q /\ result[q] = e.wsUrl
                                /\ \A f \in entries : f.profile = q => f.at <= e.at
  <2> HIDE DEF entries
  <2> QED  BY <1>1, LastOfType
<1>3. \A e \in entries : e.profile \in Profiles /\ e.wsUrl # None
  BY <1>1, WorkloadAssumption DEF Entries
<1>4. Sync([phase |-> "Running", registered |-> result], left, dropped)
  BY DEF Plan
<1>5. /\ task'.outcome.registered = result /\ task'.controller = task.controller
      /\ task'.register = left /\ task'.deregister = dropped
      /\ task'.step = IF left = {} /\ dropped = {} THEN "status" ELSE "sync"
  <2> HIDE DEF result, left, dropped
  <2> QED  BY <1>4, SyncEffect DEF TypeOK
<1> HIDE DEF entries, result
<1>6. CallsLeft'
  BY <1>1, <1>5 DEF CallsLeft, At
<1>7. CallsFitOutcome'
  BY <1>2, <1>3, <1>5 DEF CallsFitOutcome
<1>8. OutcomeIsEarned'
  <2> SUFFICES ASSUME NEW q \in Profiles
               PROVE  /\ result[q] \notin {None, current[q]} =>
                           \E e \in LeftFor(q)' : Decides(e, q)' /\ e.wsUrl = result[q]
                      /\ result[q] = None /\ current[q] # None => q \in dropped
    BY <1>5 DEF OutcomeIsEarned
  <2>1. ASSUME result[q] \notin {None, current[q]}
        PROVE  \E e \in LeftFor(q)' : Decides(e, q)' /\ e.wsUrl = result[q]
    <3>1. PICK e \in entries : /\ e.profile = q /\ result[q] = e.wsUrl
                               /\ \A f \in entries : f.profile = q => f.at <= e.at
      BY <1>2, <2>1
    <3>2. e \in LeftFor(q)' /\ \A f \in LeftFor(q)' : f \in entries /\ f.profile = q
      BY <1>5, <2>1, <3>1 DEF LeftFor
    <3> QED  BY <3>1, <3>2 DEF Decides
  <2> QED  BY <2>1
<1> QED  BY <1>6, <1>7, <1>8 DEF SyncInv

\* A registration that gets through does what it stands for: the only pod knows
\* the address, unless another entry for the profile comes later.
LEMMA RegisterEarns ==
    ASSUME SinglePod, TypeOK, SyncInv, RegisterBrowser
    PROVE  SyncInv'
<1>1. PICK e \in task.register, p \in Reachable :
        /\ First(e)
        /\ known' = [known EXCEPT ![p][e.profile] = e.wsUrl]
        /\ Sync(task.outcome, task.register \ {e}, task.deregister)
  BY DEF RegisterBrowser
<1>2. /\ task'.outcome = task.outcome /\ task'.controller = task.controller
      /\ task'.register = task.register \ {e} /\ task'.deregister = task.deregister
      /\ task'.step = IF task.register \ {e} = {} /\ task.deregister = {}
                      THEN "status" ELSE "sync"
  BY <1>1, SyncEffect DEF TypeOK
<1>3. /\ task.register \subseteq Entries /\ e \in Entries /\ e.profile \in Profiles
      /\ \A f \in task.register : f.at \in Nat /\ e.at <= f.at
  BY <1>1 DEF TypeOK, TaskRecords, Entries, First
<1>4. p \in Pods /\ \A r \in Pods : r = p
  BY DEF Reachable, SinglePod
<1>5. /\ \A r \in Pods : known'[r][e.profile] = e.wsUrl
      /\ \A r \in Pods, q \in Profiles : q # e.profile => known'[r][q] = known[r][q]
  BY <1>1, <1>3, <1>4 DEF TypeOK, Registrations
<1>6. CallsLeft'
  BY <1>2 DEF SyncInv, CallsLeft, At
<1>7. CallsFitOutcome'
  BY <1>2 DEF SyncInv, CallsFitOutcome
<1>8. OutcomeIsEarned'
  <2>1. At("sync")
    BY <1>1 DEF First
  <2>2. ASSUME NEW q \in Profiles, q # e.profile PROVE LeftFor(q)' = LeftFor(q)
    BY <1>2, <2>2 DEF LeftFor
  <2> SUFFICES ASSUME NEW q \in Profiles, NEW listed, NEW before,
                      listed = task.outcome.registered[q],
                      before = task.controller.status.registered[q]
               PROVE  /\ listed \notin {None, before} =>
                           IF LeftFor(q)' = {} THEN \A r \in Pods : known'[r][q] = listed
                           ELSE \E d \in LeftFor(q)' : Decides(d, q)' /\ d.wsUrl = listed
                      /\ listed = None /\ before # None =>
                           q \in task.deregister \/ \A r \in Pods : known'[r][q] = None
    BY <1>2 DEF OutcomeIsEarned
  <2>3. /\ listed \notin {None, before} =>
             IF LeftFor(q) = {} THEN \A r \in Pods : known[r][q] = listed
             ELSE \E d \in LeftFor(q) : Decides(d, q) /\ d.wsUrl = listed
        /\ listed = None /\ before # None =>
             q \in task.deregister \/ \A r \in Pods : known[r][q] = None
    BY <2>1 DEF SyncInv, OutcomeIsEarned, At
  <2>4. CASE q # e.profile
    BY <1>5, <2>2, <2>3, <2>4 DEF Decides
  <2>5. CASE q = e.profile
    <3>1. listed # None
      BY <2>5, <1>1 DEF SyncInv, CallsFitOutcome
    <3>2. ASSUME listed # before
          PROVE  IF LeftFor(q)' = {} THEN \A r \in Pods : known'[r][q] = listed
                 ELSE \E d \in LeftFor(q)' : Decides(d, q)' /\ d.wsUrl = listed
      <4>1. e \in LeftFor(q)
        BY <1>1, <2>5 DEF LeftFor
      <4>2. PICK d \in LeftFor(q) : Decides(d, q) /\ d.wsUrl = listed
        BY <2>3, <3>1, <3>2, <4>1
      <4>3. LeftFor(q)' = LeftFor(q) \ {e}
        BY <1>2 DEF LeftFor
      <4>4. CASE d = e
        <5>1. \A f \in LeftFor(q) : f = e
          <6> TAKE f \in LeftFor(q)
          <6>1. f \in task.register /\ f.at <= e.at
            BY <4>2, <4>4 DEF Decides, LeftFor
          <6>2. f.at = e.at
            BY <1>3, <6>1
          <6> QED  BY <6>1, <6>2, <1>1 DEF SyncInv, CallsLeft
        <5>2. LeftFor(q)' = {}
          BY <4>3, <5>1
        <5> QED  BY <1>5, <2>5, <4>2, <4>4, <5>2
      <4>5. CASE d # e
        BY <4>2, <4>3, <4>5 DEF Decides
      <4> QED  BY <4>4, <4>5
    <3> QED  BY <3>1, <3>2
  <2> QED  BY <2>4, <2>5
<1> QED  BY <1>6, <1>7, <1>8 DEF SyncInv

\* A deregistration that gets through leaves the only pod without the browser.
LEMMA DeregisterEarns ==
    ASSUME SinglePod, TypeOK, SyncInv, DeregisterBrowser
    PROVE  SyncInv'
<1>1. PICK d \in task.deregister, p \in Reachable :
        /\ known' = [known EXCEPT ![p][d] = None]
        /\ Sync(task.outcome, {}, task.deregister \ {d})
  BY DEF DeregisterBrowser
<1>2. /\ task'.outcome = task.outcome /\ task'.controller = task.controller
      /\ task'.register = {} /\ task'.deregister = task.deregister \ {d}
      /\ task'.step = IF task.deregister \ {d} = {} THEN "status" ELSE "sync"
  BY <1>1, SyncEffect DEF TypeOK
<1>3. d \in Profiles
  BY DEF TypeOK, TaskRecords
<1>4. p \in Pods /\ \A r \in Pods : r = p
  BY DEF Reachable, SinglePod
<1>5. /\ \A r \in Pods : known'[r][d] = None
      /\ \A r \in Pods, q \in Profiles : q # d => known'[r][q] = known[r][q]
  BY <1>1, <1>3, <1>4 DEF TypeOK, Registrations
<1>6. CallsLeft' /\ CallsFitOutcome'
  BY <1>2 DEF SyncInv, CallsLeft, CallsFitOutcome, At
<1>7. task.outcome.registered[d] = None
  BY DEF SyncInv, CallsFitOutcome
<1>8. OutcomeIsEarned'
  <2> SUFFICES ASSUME NEW q \in Profiles, NEW listed, NEW before,
                      listed = task.outcome.registered[q],
                      before = task.controller.status.registered[q]
               PROVE  /\ listed \notin {None, before} => \A r \in Pods : known'[r][q] = listed
                      /\ listed = None /\ before # None =>
                           q \in task'.deregister \/ \A r \in Pods : known'[r][q] = None
    BY <1>2 DEF OutcomeIsEarned, LeftFor
  <2>1. /\ listed \notin {None, before} => \A r \in Pods : known[r][q] = listed
        /\ listed = None /\ before # None =>
             q \in task.deregister \/ \A r \in Pods : known[r][q] = None
    BY DEF DeregisterBrowser, SyncInv, OutcomeIsEarned, LeftFor, At
  <2> QED  BY <1>2, <1>5, <1>7, <2>1
<1> QED  BY <1>6, <1>8 DEF SyncInv

\* The worker, from the fetch to the update.
LEMMA WorkerEarns ==
    ASSUME SinglePod, TypeOK, SyncInv, Worker, ~LosesCalls
    PROVE  SyncInv'
<1> USE DEF At
<1>1. task \in TaskRecords
  BY DEF TypeOK
<1>2. task.step # "sync" => task.register = {} /\ task.deregister = {}
  BY DEF SyncInv, CallsLeft
<1>3. ASSUME NEW requeue, Return(requeue) PROVE SyncInv'
  BY <1>3, IdleType, SyncAway DEF Return
<1>4. CASE RemoveFinalizer \/ EnsureFails \/ UpdateStatus \/ UpdateRefused
  BY <1>3, <1>4 DEF RemoveFinalizer, EnsureFails, UpdateStatus, UpdateRefused
<1>5. CASE Reconcile
  <2>1. CASE Return(FALSE)
    BY <1>3, <2>1
  <2>2. CASE task' = [Idle EXCEPT !.step = FirstStep(cache), !.controller = cache,
                                  !.fresh = CaughtUp]
    <3>1. /\ task'.step = FirstStep(cache) /\ task'.register = {} /\ task'.deregister = {}
      BY <2>2, IdleType DEF TaskRecords
    <3>2. FirstStep(cache) \in {"removeFinalizer", "addFinalizer", "deployment"}
      BY DEF FirstStep, TypeOK, Controllers
    <3> QED  BY <3>1, <3>2, SyncAway
  <2> QED  BY <1>5, <2>1, <2>2 DEF Reconcile
<1>6. CASE AddFinalizer \/ EnsureDeployment \/ EnsureService
  <2>1. /\ task'.step \in {"deployment", "service", "pods"}
        /\ task'.register = task.register /\ task'.deregister = task.deregister
    BY <1>1, <1>6 DEF AddFinalizer, EnsureDeployment, EnsureService, Goto, TaskRecords
  <2>2. task.step # "sync"
    BY <1>6 DEF AddFinalizer, EnsureDeployment, EnsureService
  <2> QED  BY <1>2, <2>1, <2>2, SyncAway
<1>7. CASE FindReadyPod
  <2>1. ASSUME NEW phase, Outcome(phase, task.controller.status.registered) PROVE SyncInv'
    <3>1. /\ task'.step = "status" /\ task'.controller = task.controller
          /\ task'.outcome.registered = task.controller.status.registered
          /\ task'.register = task.register /\ task'.deregister = task.deregister
      BY <1>1, <2>1 DEF Outcome, TaskRecords
    <3>2. task.register = {} /\ task.deregister = {}
      BY <1>2, <1>7 DEF FindReadyPod
    <3> QED  BY <3>1, <3>2 DEF SyncInv, CallsLeft, CallsFitOutcome, OutcomeIsEarned
  <2> QED  BY <1>7, <2>1, PlanEarns DEF FindReadyPod
<1>8. (RegisterFails => RegisterBrowser) /\ (DeregisterFails => DeregisterBrowser)
  BY DEF LosesCalls
<1> QED  BY <1>4, <1>5, <1>6, <1>7, <1>8, RegisterEarns, DeregisterEarns DEF Worker

\* What happens around the reconciler costs no record, and what pods know only where
\* that is a loss.
LEMMA SurroundingsLoseNothing ==
    ASSUME Outside(Surroundings), ~LosesCalls
    PROVE  UNCHANGED <<api, known, task>>
<1>1. UNCHANGED task
  BY DEF Outside
<1>2. CASE CollectDeployment \/ CollectService \/ DeleteChild
  BY <1>1, <1>2 DEF CollectDeployment, CollectService, DeleteChild, runtime, store
<1>3. ASSUME NEW p \in Pods, LaunchPod(p) \/ PodBecomesReady(p) \/ PodBecomesUnready(p)
      PROVE  UNCHANGED <<api, known>>
  BY <1>3 DEF LaunchPod, PodBecomesReady, PodBecomesUnready, store
<1>4. ASSUME NEW p \in Pods, StopPod(p) PROVE UNCHANGED <<api, known>>
  <2>1. UNCHANGED known
    BY <1>4 DEF LosesCalls
  <2> QED  BY <1>4, <2>1 DEF StopPod, store
<1> QED  BY <1>1, <1>2, <1>3, <1>4 DEF Outside, Surroundings, StartPod, ScaleDown, PodLost

LEMMA SyncPreserved ==
    ASSUME SinglePod, TypeOK, SyncInv, Step, ~LosesCalls
    PROVE  SyncInv'
<1>1. CASE Worker
  BY <1>1, WorkerEarns
<1>2. CASE User
  <2>1. UNCHANGED known /\ task' = [task EXCEPT !.fresh = FALSE]
    BY <1>2 DEF User, CreateController, EditSpec, DeleteController, UserWrite, runtime
  <2> QED  BY <2>1, SyncFramed DEF TypeOK, TaskRecords
<1>3. CASE OperatorRestart
  BY <1>3, IdleType, SyncAway DEF OperatorRestart
<1>4. CASE ControllerEvent \/ TimerFires \/ ChildEvent
  BY <1>4, SyncFramed DEF ControllerEvent, TimerFires, ChildEvent, runtime
<1>5. CASE Outside(Surroundings)
  BY <1>5, SurroundingsLoseNothing, SyncFramed
<1>6. CASE \E n \in Names, view \in BrowserViews \cup {None} : BrowserSeen(n, view)
  BY <1>6, SyncFramed DEF BrowserSeen, runtime
<1> QED  BY <1>1, <1>2, <1>3, <1>4, <1>5, <1>6 DEF Step

------------------------------------------------------------------------------
(* The record, as long as nothing is lost. *)

\* The cache's Browsers are those that go through the protocol.
Shown == \A n \in Names : browsers[n] = View(n, objects[n])

LEMMA ShownPreserved ==
    ASSUME ObjectsTyped, Shown, BoundedNext, browsers \in [Names -> BrowserViews \cup {None}]
    PROVE  Shown'
<1>1. CASE UNCHANGED <<browsers, objects>>
  BY <1>1 DEF Shown, View
<1>2. CASE Smooth(Quiet!Calm)
  BY <1>1, <1>2, QuietCalm, OwnKeepsBrowsers DEF Smooth
<1>3. ASSUME NEW n \in Names, BrowserMoves(n) PROVE Shown'
  <2>1. PICK b \in Protocol(n)!Steps(objects[n]) \ {objects[n]} :
          /\ objects' = [objects EXCEPT ![n] = b]
          /\ BrowserSeen(n, View(n, b))
    BY <1>3 DEF BrowserMoves
  <2>2. browsers' = [browsers EXCEPT ![n] = View(n, b)]
    BY <2>1 DEF BrowserSeen
  <2>3. objects'[n] = b /\ \A m \in Names \ {n} : objects'[m] = objects[m]
    BY <2>1 DEF ObjectsTyped
  <2>4. browsers'[n] = View(n, b) /\ \A m \in Names \ {n} : browsers'[m] = browsers[m]
    BY <2>2
  <2> QED  BY <2>3, <2>4 DEF Shown, View
<1>4. CASE UNCHANGED objects /\ (User \/ Mishap \/ Outside(DeleteChild) \/ Worker)
  <2>1. User \/ Mishap => UNCHANGED browsers
    BY DEF User, CreateController, EditSpec, DeleteController, UserWrite, Mishap,
           OperatorRestart, Outside, PodLost, StopPod, PodBecomesUnready
  <2>2. Outside(DeleteChild) => UNCHANGED browsers
    BY DEF Outside, DeleteChild
  <2> QED  BY <1>1, <1>4, <2>1, <2>2, OwnKeepsBrowsers DEF Own
<1> QED  BY <1>2, <1>3, <1>4 DEF BoundedNext, Disturbed

\* No two Browsers the cache shows have one profile.
ViewsApart ==
    \A m, n \in Names :
        m # n /\ browsers[m] # None /\ browsers[n] # None =>
            browsers[m].profile # browsers[n].profile

LEMMA ShownApart ==
    ASSUME ProfilesApart, ObjectsTyped, Shown
    PROVE  ViewsApart
<1>1. ASSUME NEW n \in Names, browsers[n] # None
      PROVE  \E w \in WantsOf[n] : browsers[n].profile = w.profile
  <2>1. browsers[n] = View(n, objects[n]) /\ objects[n].life # "absent"
    BY <1>1 DEF Shown, View
  <2>2. browsers[n].profile = objects[n].wants.profile
    BY <2>1 DEF View
  <2>3. objects[n].wants \in WantsOf[n]
    BY <2>1 DEF ObjectsTyped, ObjectsOf, Protocol!Objects
  <2> QED  BY <2>2, <2>3
<1> QED  BY <1>1 DEF ProfilesApart, ViewsApart

\* Nothing forgets a loss.
LEMMA AllLossesAreKept ==
    ASSUME BoundedNext, lost' = {}
    PROVE  lost = {} /\ ~LosesCalls /\ ~LosesRecords
BY DEF BoundedNext, Smooth, Disturbed, KeepTrack

\* Steps that leave the worker's plan, the status and what the pods know alone.
LEMMA RecordFramed ==
    ASSUME RecordInv, UNCHANGED known, api'.status = api.status,
           api.status # NoStatus => api'.exists /\ api'.finalizer,
           task'.step = task.step, task'.controller = task.controller,
           task'.register = task.register, task'.deregister = task.deregister,
           task'.outcome = task.outcome
    PROVE  RecordInv'
<1>1. \A q : Untouched(q)' <=> Untouched(q)
  BY DEF Untouched
<1>2. \A p \in Pods, q \in Profiles :
        task'.step \notin {"sync", "status"} \/ Untouched(q)' =>
            known'[p][q] = api'.status.registered[q]
  BY <1>1 DEF RecordInv
<1>3. /\ \A e \in task'.register : ~Untouched(e.profile)'
      /\ \A q \in task'.deregister : ~Untouched(q)'
  BY <1>1 DEF RecordInv
<1>4. api'.status # NoStatus => api'.exists /\ api'.finalizer
  OBVIOUS
<1> QED  BY <1>2, <1>3, <1>4 DEF RecordInv, NoStatus, Nobody

\* A step that ends with no sync under way, and the pods knowing what is listed.
LEMMA RecordAway ==
    ASSUME task'.register = {}, task'.deregister = {},
           api'.status # NoStatus => api'.exists /\ api'.finalizer,
           \A p \in Pods, q \in Profiles : known'[p][q] = api'.status.registered[q]
    PROVE  RecordInv'
BY DEF RecordInv, NoStatus, Nobody

\* A sync that would change nothing, or none at all: all is as listed.
LEMMA RecordKnown ==
    ASSUME RecordInv,
           \/ task.step \notin {"sync", "status"}
           \/ task.outcome.registered = task.controller.status.registered
    PROVE  \A p \in Pods, q \in Profiles : known[p][q] = api.status.registered[q]
BY DEF RecordInv, Untouched

\* The plan has calls only for what it changes: with one entry per profile, an
\* address to register is the one that will be listed.
LEMMA PlanRecords ==
    ASSUME TypeOK, ViewsApart, RecordInv, At("pods"), UNCHANGED <<store, known>>,
           NEW listed \in Orders(Desired), Plan(listed)
    PROVE  RecordInv'
<1> DEFINE entries == EntriesOf(listed)
           current == task.controller.status.registered
           result  == LastOf(entries)
           left    == {e \in entries : current[e.profile] # e.wsUrl}
           dropped == {q \in Profiles : current[q] # None /\ result[q] = None}
<1>1. entries \subseteq Entries /\ \E n \in Nat : \A e \in entries : e.at <= n
  BY EntriesType DEF TypeOK
<1>2. \A q \in Profiles :
        IF \A e \in entries : e.profile # q
        THEN result[q] = None
        ELSE \E e \in entries : e.profile = q /\ result[q] = e.wsUrl
  <2> HIDE DEF entries
  <2> QED  BY <1>1, LastOfType
<1>3. ASSUME NEW e \in entries, NEW f \in entries, e.profile = f.profile PROVE e = f
  <2>1. PICK i \in DOMAIN listed, j \in DOMAIN listed :
          /\ e = [at |-> i, profile |-> browsers[listed[i]].profile,
                  wsUrl |-> browsers[listed[i]].wsUrl]
          /\ f = [at |-> j, profile |-> browsers[listed[j]].profile,
                  wsUrl |-> browsers[listed[j]].wsUrl]
    BY DEF EntriesOf
  <2>2. /\ listed[i] \in Desired /\ listed[j] \in Desired
        /\ i # j => listed[i] # listed[j]
    BY DEF Orders
  <2>3. listed[i] = listed[j]
    BY <1>3, <2>1, <2>2 DEF ViewsApart, Desired
  <2> QED  BY <2>1, <2>2, <2>3
<1>4. Sync([phase |-> "Running", registered |-> result], left, dropped)
  BY DEF Plan
<1>5. /\ task'.outcome.registered = result /\ task'.controller = task.controller
      /\ task'.register = left /\ task'.deregister = dropped
  <2> HIDE DEF result, left, dropped
  <2> QED  BY <1>4, SyncEffect DEF TypeOK
<1>6. ASSUME NEW e \in left PROVE result[e.profile] # current[e.profile]
  <2>1. e \in entries /\ e.profile \in Profiles /\ current[e.profile] # e.wsUrl
    BY <1>1 DEF Entries
  <2>2. result[e.profile] = e.wsUrl
    <3> HIDE DEF entries, result
    <3> QED  BY <1>2, <1>3, <2>1
  <2> QED  BY <2>1, <2>2
<1>7. \A p \in Pods, q \in Profiles : known'[p][q] = api'.status.registered[q]
  BY RecordKnown DEF At, store
<1>8. api'.status # NoStatus => api'.exists /\ api'.finalizer
  BY DEF RecordInv, store
<1> HIDE DEF entries, result
<1> QED  BY <1>5, <1>6, <1>7, <1>8 DEF RecordInv, Untouched, NoStatus, Nobody

\* The worker, from the fetch to the update.
LEMMA WorkerRecords ==
    ASSUME IInv, SyncInv, ViewsApart, RecordInv, Worker, ~LosesCalls, ~LosesRecords
    PROVE  RecordInv'
<1> USE DEF At
<1>1. /\ TypeOK /\ task \in TaskRecords /\ api \in Controllers
      /\ api.status # NoStatus => api.exists /\ api.finalizer
  BY DEF IInv, TypeOK, RecordInv
<1>2. task.step # "sync" => task.register = {} /\ task.deregister = {}
  BY DEF SyncInv, CallsLeft
<1>3. ASSUME NEW requeue, Return(requeue), UNCHANGED <<store, known>>,
             \/ task.step \notin {"sync", "status"}
             \/ task.outcome.registered = task.controller.status.registered
      PROVE  RecordInv'
  <2>1. task'.register = {} /\ task'.deregister = {}
    BY <1>3, IdleType DEF Return
  <2>2. \A p \in Pods, q \in Profiles : known'[p][q] = api'.status.registered[q]
    BY <1>3, RecordKnown DEF store
  <2> QED  BY <1>1, <1>3, <2>1, <2>2, RecordAway DEF store
<1>4. CASE Reconcile
  <2>1. UNCHANGED <<store, known>> /\ task.step = "idle"
    BY <1>4 DEF Reconcile, runtime
  <2>2. task'.register = {} /\ task'.deregister = {}
    BY <1>4, IdleType DEF Reconcile, Return, TaskRecords
  <2>3. \A p \in Pods, q \in Profiles : known'[p][q] = api'.status.registered[q]
    BY <2>1, RecordKnown DEF store
  <2> QED  BY <1>1, <2>1, <2>2, <2>3, RecordAway DEF store
<1>5. CASE AddFinalizer
  <2>1. /\ api' = [api EXCEPT !.finalizer = TRUE] /\ UNCHANGED known
        /\ task'.register = {} /\ task'.deregister = {} /\ task.step = "addFinalizer"
    BY <1>1, <1>2, <1>5 DEF AddFinalizer, Write, TaskRecords, runtime
  <2>2. api'.status = api.status /\ api'.exists = api.exists /\ api'.finalizer
    BY <1>1, <2>1 DEF Controllers
  <2>3. \A p \in Pods, q \in Profiles : known'[p][q] = api'.status.registered[q]
    BY <2>1, <2>2, RecordKnown
  <2> QED  BY <1>1, <2>1, <2>2, <2>3, RecordAway
<1>6. CASE RemoveFinalizer
  <2>1. /\ api' = Gone(api) /\ UNCHANGED known /\ task' = Idle
        /\ task.step = "removeFinalizer" /\ api.status.registered = Nobody
    BY <1>6 DEF RemoveFinalizer, Write, Return, LosesRecords, runtime
  <2>2. api'.status = NoStatus /\ NoStatus.registered = Nobody
    BY <1>1, <2>1 DEF Gone, Controllers, NoStatus
  <2>3. \A p \in Pods, q \in Profiles : known'[p][q] = api'.status.registered[q]
    BY <2>1, <2>2, RecordKnown
  <2> QED  BY <2>1, <2>2, <2>3, IdleType, RecordAway
<1>7. CASE EnsureDeployment \/ EnsureService
  <2>1. /\ UNCHANGED <<store, known>> /\ task.step \notin {"sync", "status"}
        /\ task'.register = task.register /\ task'.deregister = task.deregister
    BY <1>1, <1>7 DEF EnsureDeployment, EnsureService, Goto, TaskRecords, runtime
  <2>2. \A p \in Pods, q \in Profiles : known'[p][q] = api'.status.registered[q]
    BY <2>1, RecordKnown DEF store
  <2> QED  BY <1>1, <1>2, <2>1, <2>2, RecordAway DEF store
<1>8. CASE EnsureFails
  BY <1>3, <1>8 DEF EnsureFails, runtime
<1>9. CASE FindReadyPod
  <2>1. At("pods") /\ UNCHANGED <<store, known>>
    BY <1>9 DEF FindReadyPod, runtime
  <2>2. ASSUME NEW phase, NEW registered, Outcome(phase, registered) PROVE RecordInv'
    <3>1. task'.register = {} /\ task'.deregister = {}
      BY <1>1, <1>2, <2>1, <2>2 DEF Outcome, TaskRecords
    <3>2. \A p \in Pods, q \in Profiles : known'[p][q] = api'.status.registered[q]
      BY <2>1, RecordKnown DEF store
    <3> QED  BY <1>1, <2>1, <3>1, <3>2, RecordAway DEF store
  <2> QED  BY <1>1, <1>9, <2>1, <2>2, PlanRecords DEF FindReadyPod
<1>10. CASE RegisterBrowser
  <2>1. PICK e \in task.register, p \in Reachable :
          /\ First(e) /\ UNCHANGED store
          /\ known' = [known EXCEPT ![p][e.profile] = e.wsUrl]
          /\ Sync(task.outcome, task.register \ {e}, task.deregister)
    BY <1>10 DEF RegisterBrowser
  <2>2. /\ task'.outcome = task.outcome /\ task'.controller = task.controller
        /\ task'.register = task.register \ {e} /\ task'.deregister = task.deregister
    BY <1>1, <2>1, SyncEffect
  <2>3. e.profile \in Profiles /\ ~Untouched(e.profile) /\ task.step = "sync"
    BY <1>1, <2>1 DEF TaskRecords, Entries, RecordInv, First
  <2>4. \A r \in Pods, q \in Profiles : q # e.profile => known'[r][q] = known[r][q]
    BY <1>1, <2>1 DEF TypeOK, Registrations
  <2>5. \A q : Untouched(q)' <=> Untouched(q)
    BY <2>2 DEF Untouched
  <2>6. \A r \in Pods, q \in Profiles :
          Untouched(q)' => known'[r][q] = api'.status.registered[q]
    BY <2>1, <2>3, <2>4, <2>5 DEF RecordInv, store
  <2>7. task'.step \in {"sync", "status"}
    BY <1>1, <2>1, SyncEffect
  <2> QED  BY <1>1, <2>1, <2>2, <2>5, <2>6, <2>7 DEF RecordInv, store, NoStatus, Nobody
<1>11. CASE DeregisterBrowser
  <2>1. PICK d \in task.deregister, p \in Reachable :
          /\ UNCHANGED store /\ task.step = "sync"
          /\ known' = [known EXCEPT ![p][d] = None]
          /\ Sync(task.outcome, {}, task.deregister \ {d})
    BY <1>11 DEF DeregisterBrowser
  <2>2. /\ task'.outcome = task.outcome /\ task'.controller = task.controller
        /\ task'.register = {} /\ task'.deregister = task.deregister \ {d}
    BY <1>1, <2>1, SyncEffect
  <2>3. d \in Profiles /\ ~Untouched(d)
    BY <1>1 DEF TaskRecords, RecordInv
  <2>4. \A r \in Pods, q \in Profiles : q # d => known'[r][q] = known[r][q]
    BY <1>1, <2>1 DEF TypeOK, Registrations
  <2>5. \A q : Untouched(q)' <=> Untouched(q)
    BY <2>2 DEF Untouched
  <2>6. \A r \in Pods, q \in Profiles :
          Untouched(q)' => known'[r][q] = api'.status.registered[q]
    BY <2>1, <2>3, <2>4, <2>5 DEF RecordInv, store
  <2>7. task'.step \in {"sync", "status"}
    BY <1>1, <2>1, SyncEffect
  <2> QED  BY <1>1, <2>1, <2>2, <2>5, <2>6, <2>7 DEF RecordInv, store, NoStatus, Nobody
<1>12. CASE UpdateStatus
  <2>1. /\ task.controller = api /\ task.step = "status"
        /\ api.exists /\ api.finalizer
    BY <1>12 DEF UpdateStatus, IInv, FreshIsCurrent, CopyFitsStep
  <2>2. api' = [api EXCEPT !.status = task.outcome] /\ UNCHANGED known /\ task' = Idle
    BY <1>1, <1>12 DEF UpdateStatus, Put, Write, store, runtime, Return, Controllers
  <2>3. api'.status = task.outcome /\ api'.exists /\ api'.finalizer
    BY <1>1, <2>1, <2>2 DEF Controllers
  <2>4. ASSUME NEW p \in Pods, NEW q \in Profiles
        PROVE  known[p][q] = task.outcome.registered[q]
    <3>1. CASE Untouched(q)
      BY <2>1, <3>1 DEF Untouched, RecordInv
    <3>2. CASE ~Untouched(q)
      BY <1>2, <2>1, <3>2 DEF Untouched, SyncInv, OutcomeIsEarned, LeftFor
    <3> QED  BY <3>1, <3>2
  <2> QED  BY <2>2, <2>3, <2>4, IdleType, RecordAway
<1>13. CASE UpdateRefused
  BY <1>3, <1>13 DEF UpdateRefused, LosesRecords, runtime
<1>14. (RegisterFails => RegisterBrowser) /\ (DeregisterFails => DeregisterBrowser)
  BY DEF LosesCalls
<1> QED  BY <1>4, <1>5, <1>6, <1>7, <1>8, <1>9, <1>10, <1>11, <1>12, <1>13, <1>14 DEF Worker

LEMMA UserRecords ==
    ASSUME IInv, RecordInv, User
    PROVE  RecordInv'
<1>1. /\ api \in Controllers /\ task \in TaskRecords
      /\ api.status # NoStatus => api.exists /\ api.finalizer
  BY DEF IInv, TypeOK, RecordInv
<1>2. UNCHANGED known /\ task' = [task EXCEPT !.fresh = FALSE]
  BY DEF User, CreateController, EditSpec, DeleteController, UserWrite, runtime
<1>3. api'.status = api.status /\ (api.status # NoStatus => api'.exists /\ api'.finalizer)
  <2>1. CASE CreateController
    BY <1>1, <2>1 DEF CreateController, UserWrite, Write, NewController
  <2>2. CASE EditSpec
    <3>1. PICK s \in SpecChoices : api' = [api EXCEPT !.spec = s]
      BY <2>2 DEF EditSpec, UserWrite, Write
    <3> QED  BY <1>1, <3>1 DEF Controllers
  <2>3. CASE DeleteController /\ api.finalizer
    <3>1. api' = [api EXCEPT !.deleting = TRUE]
      BY <2>3 DEF DeleteController, UserWrite, Write
    <3> QED  BY <1>1, <3>1 DEF Controllers
  <2>4. CASE DeleteController /\ ~api.finalizer
    <3>1. api' = Gone(api)
      BY <2>4 DEF DeleteController, UserWrite, Write
    <3> QED  BY <1>1, <2>4, <3>1 DEF Controllers, Gone
  <2> QED  BY <2>1, <2>2, <2>3, <2>4 DEF User
<1>4. /\ task'.step = task.step /\ task'.controller = task.controller
      /\ task'.register = task.register /\ task'.deregister = task.deregister
      /\ task'.outcome = task.outcome
  BY <1>1, <1>2 DEF TaskRecords
<1> QED  BY <1>2, <1>3, <1>4, RecordFramed

LEMMA RecordPreserved ==
    ASSUME IInv, SyncInv, ViewsApart, RecordInv, Step, ~LosesCalls, ~LosesRecords
    PROVE  RecordInv'
<1>1. api.status # NoStatus => api.exists /\ api.finalizer
  BY DEF RecordInv
<1>2. CASE OperatorRestart
  <2>1. UNCHANGED <<api, known>> /\ task' = Idle
    BY <1>2 DEF OperatorRestart, Relist, runtime
  <2>2. \A p \in Pods, q \in Profiles : known[p][q] = api.status.registered[q]
    BY <1>2, RecordKnown DEF LosesRecords
  <2> QED  BY <1>1, <2>1, <2>2, IdleType, RecordAway
<1>3. CASE ControllerEvent \/ TimerFires \/ ChildEvent
  <2>1. UNCHANGED <<api, known, task>>
    BY <1>3 DEF ControllerEvent, Deliver, TimerFires, ChildEvent, runtime, store
  <2> QED  BY <1>1, <2>1, RecordFramed
<1>4. CASE Outside(Surroundings)
  BY <1>1, <1>4, SurroundingsLoseNothing, RecordFramed
<1>5. CASE \E n \in Names, view \in BrowserViews \cup {None} : BrowserSeen(n, view)
  <2>1. UNCHANGED <<api, known, task>>
    BY <1>5 DEF BrowserSeen, runtime, store
  <2> QED  BY <1>1, <2>1, RecordFramed
<1> QED  BY <1>2, <1>3, <1>4, <1>5, WorkerRecords, UserRecords DEF Step

------------------------------------------------------------------------------
(* The bounded system. *)

\* Nothing forgets that a call was lost.
LEMMA LossesAreKept ==
    ASSUME BoundedNext, "calls" \notin lost'
    PROVE  "calls" \notin lost /\ ~LosesCalls
BY DEF BoundedNext, Smooth, Disturbed, KeepTrack

ProgressInv == ObjectsTyped /\ IInv /\ EarnedUnlessLost

LEMMA ProgressInit == BoundedInit => ProgressInv
<1> SUFFICES ASSUME BoundedInit PROVE ProgressInv
  OBVIOUS
<1>1. ObjectsTyped
  BY ProgressAssumption DEF BoundedInit, ObjectsTyped
<1>2. browsers \in [Names -> BrowserViews \cup {None}]
  BY <1>1, ViewType DEF BoundedInit, ObjectsTyped
<1>3. IInv
  BY <1>2, InitTypes, InitSafe, IInvParts DEF BoundedInit
<1>4. SyncInv
  BY IdleType DEF BoundedInit, NoController, SyncInv, CallsLeft, CallsFitOutcome,
                  OutcomeIsEarned, At
<1> QED  BY <1>1, <1>3, <1>4 DEF ProgressInv, EarnedUnlessLost

LEMMA ProgressStep ==
    ASSUME SinglePod, ProgressInv, BoundedNext
    PROVE  ProgressInv'
<1>1. Step /\ ObjectsTyped'
  BY BoundedSteps DEF ProgressInv
<1>2. IInv'
  BY <1>1, IInvPreserved DEF ProgressInv
<1>3. EarnedUnlessLost'
  BY <1>1, LossesAreKept, SyncPreserved DEF ProgressInv, EarnedUnlessLost, IInv
<1> QED  BY <1>1, <1>2, <1>3 DEF ProgressInv

LEMMA ProgressStutter ==
    ASSUME ProgressInv, UNCHANGED allVars
    PROVE  ProgressInv'
<1> USE DEF allVars, vars, store, children, runtime, queue
<1>1. ObjectsTyped'
  BY DEF ProgressInv, ObjectsTyped
<1>2. IInv'
  BY DEF ProgressInv, IInv, TypeOK, At, DeletedHasFinalizer, CacheFollows, Versions,
         CaughtUp, FreshIsCurrent, CopyFitsStep, GuardedIsAlive, Guarded, OwnerLives,
         NoLostWakeup
<1>3. EarnedUnlessLost'
  BY SyncFramed DEF ProgressInv, EarnedUnlessLost
<1> QED  BY <1>1, <1>2, <1>3 DEF ProgressInv

\* What the record relies on, besides what the sync does.
TruthInv == ProgressInv /\ Shown /\ TrueUnlessLost

LEMMA TruthInit == BoundedInit => TruthInv
<1> SUFFICES ASSUME BoundedInit PROVE TruthInv
  OBVIOUS
<1>1. ProgressInv
  BY ProgressInit
<1>2. Shown
  BY DEF BoundedInit, Shown
<1>3. RecordInv
  <2>1. /\ api = Idle.controller /\ task = Idle
        /\ \A p \in Pods, q \in Profiles : known[p][q] = None
    BY DEF BoundedInit, NoController, Nobody
  <2>2. Idle.controller.status = NoStatus
    BY DEF Idle, Gone, NewController
  <2>3. \A q \in Profiles : NoStatus.registered[q] = None
    BY DEF NoStatus, Nobody
  <2> QED  BY <2>1, <2>2, <2>3, IdleType DEF RecordInv
<1> QED  BY <1>1, <1>2, <1>3 DEF TruthInv, TrueUnlessLost

LEMMA TruthStep ==
    ASSUME SinglePod, ProfilesApart, TruthInv, BoundedNext
    PROVE  TruthInv'
<1>1. ProgressInv' /\ Step
  BY ProgressStep, BoundedSteps DEF TruthInv, ProgressInv
<1>2. ObjectsTyped /\ Shown /\ IInv /\ browsers \in [Names -> BrowserViews \cup {None}]
  BY DEF TruthInv, ProgressInv, IInv, TypeOK
<1>3. Shown'
  BY <1>2, ShownPreserved
<1>4. TrueUnlessLost'
  <2> SUFFICES ASSUME lost' = {} PROVE RecordInv'
    BY DEF TrueUnlessLost
  <2>1. lost = {} /\ ~LosesCalls /\ ~LosesRecords
    BY AllLossesAreKept
  <2>2. SyncInv /\ RecordInv
    BY <2>1 DEF TruthInv, ProgressInv, EarnedUnlessLost, TrueUnlessLost
  <2> QED  BY <1>1, <1>2, <2>1, <2>2, ShownApart, RecordPreserved
<1> QED  BY <1>1, <1>3, <1>4 DEF TruthInv

LEMMA TruthStutter ==
    ASSUME TruthInv, UNCHANGED allVars
    PROVE  TruthInv'
<1>1. ProgressInv'
  BY ProgressStutter DEF TruthInv
<1>2. UNCHANGED <<browsers, objects, api, known, task, lost>>
  BY DEF allVars, vars, store, runtime
<1>3. Shown'
  BY <1>2 DEF TruthInv, Shown, View
<1>4. TrueUnlessLost'
  BY <1>2, RecordFramed DEF TruthInv, TrueUnlessLost, RecordInv
<1> QED  BY <1>1, <1>3, <1>4 DEF TruthInv

\* Of the steps that leave the Controller in place only the worker's update
\* changes its status, and it writes what the current version led to.
LEMMA OnlyTheWorkerPublishes ==
    ASSUME IInv, Step, Publishes
    PROVE  At("status") /\ task.controller = api /\ api'.status = task.outcome
<1> USE DEF At
<1>1. api \in Controllers /\ api' # api /\ api.exists /\ api'.exists /\ api'.status # api.status
  BY DEF IInv, TypeOK, Publishes
<1>2. UpdateStatus
  <2>1. CASE Worker
    <3>1. ~AddFinalizer
      BY <1>1 DEF AddFinalizer, Write, Controllers
    <3>2. ~RemoveFinalizer
      BY <1>1 DEF RemoveFinalizer, Write, Gone, Controllers
    <3> QED  BY <1>1, <2>1, <3>1, <3>2
             DEF Worker, Reconcile, EnsureDeployment, EnsureService, EnsureFails,
                 FindReadyPod, RegisterBrowser, RegisterFails, DeregisterBrowser,
                 DeregisterFails, UpdateRefused, store
  <2>2. CASE User
    <3>1. ~CreateController
      BY <1>1 DEF CreateController
    <3>2. ~EditSpec
      BY <1>1 DEF EditSpec, UserWrite, Write, Controllers
    <3>3. ~DeleteController
      BY <1>1 DEF DeleteController, UserWrite, Write, Gone, Controllers
    <3> QED  BY <2>2, <3>1, <3>2, <3>3 DEF User
  <2>3. CASE ControllerEvent \/ TimerFires \/ ChildEvent \/ OperatorRestart
    BY <1>1, <2>3 DEF ControllerEvent, Deliver, TimerFires, ChildEvent, OperatorRestart,
                      Relist, store
  <2>4. CASE Outside(Surroundings)
    BY <1>1, <2>4 DEF Outside, Surroundings, CollectDeployment, CollectService, DeleteChild,
                      StartPod, LaunchPod, PodBecomesReady, ScaleDown, PodLost, StopPod,
                      PodBecomesUnready, store
  <2>5. CASE \E n \in Names, view \in BrowserViews \cup {None} : BrowserSeen(n, view)
    BY <1>1, <2>5 DEF BrowserSeen, store
  <2> QED  BY <2>1, <2>2, <2>3, <2>4, <2>5 DEF Step
<1>3. task.step = "status" /\ task.controller = api
  BY <1>2 DEF UpdateStatus, IInv, FreshIsCurrent
<1>4. api' = [api EXCEPT !.status = task.outcome]
  BY <1>1, <1>2 DEF UpdateStatus, Put, Write, store
<1> QED  BY <1>1, <1>3, <1>4 DEF Controllers

\* What is published has been done.
LEMMA PublishedIsEarned ==
    ASSUME IInv, SyncInv, Step
    PROVE  RegisteredBeforeRecorded /\ DeregisteredBeforeForgotten
<1> SUFFICES ASSUME Publishes
             PROVE  RegisteredBeforeRecorded /\ DeregisteredBeforeForgotten
  BY DEF RegisteredBeforeRecorded, DeregisteredBeforeForgotten
<1>1. At("status") /\ task.controller = api /\ api'.status = task.outcome
  BY OnlyTheWorkerPublishes
<1>2. task.register = {} /\ task.deregister = {}
  BY <1>1 DEF SyncInv, CallsLeft, At
<1>3. ASSUME NEW q \in Profiles, NEW p \in Pods
      PROVE  /\ api'.status.registered[q] \notin {None, api.status.registered[q]} =>
                    known[p][q] = api'.status.registered[q]
             /\ api'.status.registered[q] = None /\ api.status.registered[q] # None =>
                    known[p][q] = None
  BY <1>1, <1>2 DEF SyncInv, OutcomeIsEarned, LeftFor, At
<1> QED  BY <1>3 DEF RegisteredBeforeRecorded, DeregisteredBeforeForgotten

------------------------------------------------------------------------------
(* Theorems.  The sync sends each call to the Service, which passes it on to *)
(* one pod: what follows is said of Controllers with one.                   *)

\* Whatever the Browsers do, the reconciler's own invariant holds as well, and with
\* it the one of the sync: each step of the bounded system is one of the two.
THEOREM Earned ==
    ASSUME SinglePod PROVE ProgressSpec => []ProgressInv
<1>1. ProgressInv /\ [BoundedNext]_allVars => ProgressInv'
  BY ProgressStep, ProgressStutter
<1> QED  BY <1>1, ProgressInit, PTL DEF ProgressSpec

\* While no call is lost, what a sync is about to record it has done or has left
\* to do, whatever Browsers, users and the operator's process do meanwhile.
THEOREM OutcomesAreEarned ==
    ASSUME SinglePod PROVE ProgressSpec => []EarnedUnlessLost
<1>1. ProgressInv => EarnedUnlessLost
  BY DEF ProgressInv
<1> QED  BY <1>1, Earned, PTL

\* The status is a true record of the calls, unless some are lost.
THEOREM RecordsAreTrue ==
    ASSUME SinglePod PROVE ProgressSpec => RecordsUnlessLost
<1>1. ProgressInv /\ [BoundedNext]_allVars =>
        ["calls" \notin lost' => RegisteredBeforeRecorded]_allVars
  BY BoundedSteps, LossesAreKept, PublishedIsEarned DEF ProgressInv, EarnedUnlessLost
<1> QED  BY <1>1, Earned, PTL DEF RecordsUnlessLost, ProgressSpec

\* No browser drops out of the status while the process still knows it, unless a
\* call is lost.
THEOREM ForgettingIsTrue ==
    ASSUME SinglePod PROVE ProgressSpec => ForgetsUnlessLost
<1>1. ProgressInv /\ [BoundedNext]_allVars =>
        ["calls" \notin lost' => DeregisteredBeforeForgotten]_allVars
  BY BoundedSteps, LossesAreKept, PublishedIsEarned DEF ProgressInv, EarnedUnlessLost
<1> QED  BY <1>1, Earned, PTL DEF ForgetsUnlessLost, ProgressSpec

\* As long as nothing is lost, the status is all the memory a sync needs: between
\* two syncs the process knows exactly what the status lists, if no two Browsers
\* have one profile.
THEOREM StatusIsTrue ==
    ASSUME SinglePod, ProfilesApart PROVE ProgressSpec => []TrueUnlessLost
<1>1. TruthInv /\ [BoundedNext]_allVars => TruthInv'
  BY TruthStep, TruthStutter
<1>2. TruthInv => TrueUnlessLost
  BY DEF TruthInv
<1> QED  BY <1>1, <1>2, TruthInit, PTL DEF ProgressSpec
==============================================================================
