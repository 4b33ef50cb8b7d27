---------------------- MODULE ControllerReconciler_proof ----------------------
(***************************************************************************)
(* Proofs about the Controller reconciler, for any number of pods, Browsers*)
(* and profiles, any specs and any of the failures.                        *)
(***************************************************************************)
EXTENDS ControllerInvariant, ObjectStore_proof, WellFoundedInduction, FiniteSetTheorems

------------------------------------------------------------------------------
(* Numbers: a set of naturals has a least element. *)

LEMMA LeastExists ==
    ASSUME NEW T, T \subseteq Nat, T # {}
    PROVE  \E m \in T : \A n \in T : m <= n
<1> DEFINE R == OpToRel(<, Nat)
<1>1. IsWellFoundedOn(R, Nat)
  BY NatLessThanWellFounded
<1>2. PICK m \in T : \A n \in T : ~ (<<n, m>> \in R)
  <2> HIDE DEF R
  <2> QED  BY <1>1, WFMin
<1>3. ASSUME NEW n \in T, n < m PROVE FALSE
  <2>1. n \in Nat /\ m \in Nat
    OBVIOUS
  <2>2. <<n, m>> \in R
    BY <1>3, <2>1 DEF OpToRel
  <2> QED  BY <1>2, <2>2
<1>4. \A n \in T : m <= n
  <2> HIDE DEF R
  <2> QED  BY <1>3
<1> QED  BY <1>4

\* A list of at most n places has a last one among any of its entries.
LEMMA LastExists ==
    ASSUME NEW n \in Nat, NEW S, S \subseteq Entries, S # {}, \A e \in S : e.at <= n
    PROVE  \E e \in S : \A f \in S : f.at <= e.at
<1> DEFINE T == {n - e.at : e \in S}
<1>1. \A e \in S : e.at \in Nat /\ n - e.at \in Nat
  BY DEF Entries
<1>2. T \subseteq Nat /\ T # {}
  BY <1>1
<1>3. PICK m \in T : \A k \in T : m <= k
  <2> HIDE DEF T
  <2> QED  BY <1>2, LeastExists
<1>4. PICK e \in S : m = n - e.at
  OBVIOUS
<1>5. ASSUME NEW f \in S PROVE f.at <= e.at
  <2>1. n - e.at <= n - f.at
    BY <1>3, <1>4
  <2> QED  BY <1>1, <2>1
<1> QED  BY <1>5

------------------------------------------------------------------------------
(* Types. *)

LEMMA NoStatusType == NoStatus \in Statuses
BY DEF NoStatus, Statuses, Nobody, Registrations

LEMMA ControllerTypes ==
    ASSUME NEW obj \in Controllers
    PROVE  /\ \A s \in Specs : [obj EXCEPT !.spec = s] \in Controllers
           /\ \A s \in Statuses : [obj EXCEPT !.status = s] \in Controllers
           /\ [obj EXCEPT !.finalizer = TRUE] \in Controllers
           /\ [obj EXCEPT !.deleting = TRUE] \in Controllers
           /\ Gone(obj) \in Controllers
BY NoStatusType DEF Controllers, Gone

LEMMA NewControllerType ==
    ASSUME NEW uid \in Nat, NEW s \in Specs
    PROVE  NewController(uid, s) \in Controllers
BY NoStatusType DEF NewController, Controllers

\* The in-memory copy of an idle worker is a Controller like any other.
LEMMA IdleType == Idle \in TaskRecords /\ Idle.step = "idle" /\ ~Idle.fresh
                  /\ Idle.register = {} /\ Idle.deregister = {}
<1>1. Cardinality(Pods) \in Nat
  BY WorkloadAssumption, FS_CardinalityType
<1>2. [replicas |-> 0, browserSelector |-> {}] \in Specs
  BY <1>1 DEF Specs
<1>3. (CHOOSE s \in Specs : TRUE) \in Specs
  BY <1>2
<1>4. Gone(NewController(0, CHOOSE s \in Specs : TRUE)) \in Controllers
  BY <1>3, NewControllerType, ControllerTypes
<1> QED  BY <1>4, NoStatusType DEF Idle, TaskRecords, Steps

LEMMA WriteEffect ==
    ASSUME api \in Controllers, cache \in Controllers, unseen \in Seq(Controllers),
           NEW obj \in Controllers, Write(obj) \/ Put(obj)
    PROVE  api' \in Controllers /\ cache' \in Controllers /\ unseen' \in Seq(Controllers)
BY DEF Write, Put, store

LEMMA ReturnTyped ==
    ASSUME TypeOK, NEW requeue \in BOOLEAN, Return(requeue)
    PROVE  task' \in TaskRecords /\ timer' \in BOOLEAN
BY IdleType DEF TypeOK, Return

LEMMA GotoTyped ==
    ASSUME task \in TaskRecords, NEW step \in Steps, Goto(step)
    PROVE  task' \in TaskRecords
BY DEF Goto, TaskRecords

LEMMA OutcomeTyped ==
    ASSUME task \in TaskRecords, NEW phase \in {"", "Creating", "Running"},
           NEW registered \in Registrations, Outcome(phase, registered)
    PROVE  task' \in TaskRecords
BY DEF Outcome, TaskRecords, Statuses, Steps

LEMMA SyncTyped ==
    ASSUME task \in TaskRecords, NEW outcome \in Statuses,
           NEW register \in SUBSET Entries, NEW deregister \in SUBSET Profiles,
           Sync(outcome, register, deregister)
    PROVE  task' \in TaskRecords
BY DEF Sync, TaskRecords, Steps

\* A list of Browsers to register has entries at places 1 up to its length.
LEMMA EntriesType ==
    ASSUME browsers \in [Names -> BrowserViews \cup {None}],
           NEW listed \in Orders(Desired)
    PROVE  /\ EntriesOf(listed) \subseteq Entries
           /\ \E n \in Nat : \A e \in EntriesOf(listed) : e.at <= n
           /\ \A e, f \in EntriesOf(listed) : e.at = f.at => e = f
<1> DEFINE n == Cardinality(Desired)
<1>1. n \in Nat
  BY WorkloadAssumption, FS_Subset, FS_CardinalityType DEF Desired
<1>2. listed \in [1 .. n -> Desired]
  BY DEF Orders
<1>3. \A m \in Desired : browsers[m] \in BrowserViews
  BY DEF Desired
<1>4. \A i \in 1 .. n : browsers[listed[i]] \in BrowserViews
  BY <1>2, <1>3
<1> HIDE DEF n
<1>5. EntriesOf(listed) \subseteq Entries
  BY <1>1, <1>2, <1>4 DEF EntriesOf, Entries, BrowserViews
<1>6. \A e \in EntriesOf(listed) : e.at <= n
  BY <1>1, <1>2 DEF EntriesOf
<1>7. \A e, f \in EntriesOf(listed) : e.at = f.at => e = f
  BY DEF EntriesOf
<1> QED  BY <1>1, <1>5, <1>6, <1>7

\* What the status will list: for each profile the address of a last entry.
LEMMA LastOfType ==
    ASSUME NEW entries, entries \subseteq Entries,
           NEW n \in Nat, \A e \in entries : e.at <= n
    PROVE  /\ LastOf(entries) \in Registrations
           /\ \A q \in Profiles :
                IF \A e \in entries : e.profile # q
                THEN LastOf(entries)[q] = None
                ELSE \E e \in entries :
                        /\ e.profile = q /\ LastOf(entries)[q] = e.wsUrl
                        /\ \A f \in entries : f.profile = q => f.at <= e.at
<1> DEFINE Mine(q) == {e \in entries : e.profile = q}
           Last(q) == CHOOSE e \in Mine(q) : \A f \in Mine(q) : f.at <= e.at
<1>1. ASSUME NEW q \in Profiles, Mine(q) # {}
      PROVE  Last(q) \in Mine(q) /\ \A f \in Mine(q) : f.at <= Last(q).at
  <2>1. Mine(q) \subseteq Entries /\ \A e \in Mine(q) : e.at <= n
    OBVIOUS
  <2>2. \E e \in Mine(q) : \A f \in Mine(q) : f.at <= e.at
    <3> HIDE DEF Mine
    <3> QED  BY <1>1, <2>1, LastExists
  <2> QED  BY <2>2
<1>2. LastOf(entries) = [q \in Profiles |-> IF Mine(q) = {} THEN None ELSE Last(q).wsUrl]
  BY DEF LastOf
<1>3. ASSUME NEW q \in Profiles, Mine(q) # {} PROVE Last(q).wsUrl \in Nat
  BY <1>1, <1>3 DEF Entries
<1>4. LastOf(entries) \in Registrations
  <2> HIDE DEF Last, Mine
  <2> QED  BY <1>2, <1>3 DEF Registrations
<1>5. ASSUME NEW q \in Profiles, Mine(q) # {}
      PROVE  /\ LastOf(entries)[q] = Last(q).wsUrl
             /\ Last(q) \in entries /\ Last(q).profile = q
             /\ \A f \in entries : f.profile = q => f.at <= Last(q).at
  <2>1. LastOf(entries)[q] = Last(q).wsUrl
    <3> HIDE DEF Last, Mine
    <3> QED  BY <1>2, <1>5
  <2>2. Last(q) \in Mine(q) /\ \A f \in Mine(q) : f.at <= Last(q).at
    BY <1>1, <1>5
  <2> HIDE DEF Last
  <2> QED  BY <2>1, <2>2
<1>6. ASSUME NEW q \in Profiles, Mine(q) = {}
      PROVE  LastOf(entries)[q] = None /\ \A e \in entries : e.profile # q
  <2>1. LastOf(entries)[q] = None
    <3> HIDE DEF Last, Mine
    <3> QED  BY <1>2, <1>6
  <2> QED  BY <1>6, <2>1
<1> HIDE DEF Last
<1> QED  BY <1>4, <1>5, <1>6

LEMMA PlanTyped ==
    ASSUME TypeOK, NEW listed \in Orders(Desired), Plan(listed)
    PROVE  task' \in TaskRecords
<1> DEFINE entries == EntriesOf(listed)
           current == task.controller.status.registered
           result  == LastOf(entries)
           left    == {e \in entries : current[e.profile] # e.wsUrl}
           dropped == {q \in Profiles : current[q] # None /\ result[q] = None}
<1>1. entries \subseteq Entries /\ \E n \in Nat : \A e \in entries : e.at <= n
  BY EntriesType DEF TypeOK
<1>2. result \in Registrations
  <2> HIDE DEF entries
  <2> QED  BY <1>1, LastOfType
<1>3. Sync([phase |-> "Running", registered |-> result], left, dropped)
  BY DEF Plan
<1>4. [phase |-> "Running", registered |-> result] \in Statuses
  <2> HIDE DEF result
  <2> QED  BY <1>2 DEF Statuses
<1>5. left \in SUBSET Entries /\ dropped \in SUBSET Profiles
  BY <1>1
<1> HIDE DEF result, left, dropped
<1> QED  BY <1>3, <1>4, <1>5, SyncTyped DEF TypeOK

LEMMA WorkerTypes ==
    ASSUME TypeOK, Worker
    PROVE  TypeOK'
<1> USE DEF vars, store, children, runtime, queue, At
<1>1. /\ task \in TaskRecords /\ api \in Controllers /\ cache \in Controllers
      /\ unseen \in Seq(Controllers) /\ timer \in BOOLEAN /\ queued \in BOOLEAN
      /\ task.controller \in Controllers /\ task.controller.uid \in Nat
      /\ task.controller.spec.replicas \in 0 .. Cardinality(Pods)
      /\ task.controller.status.registered \in Registrations
      /\ task.outcome \in Statuses
      /\ task.register \subseteq Entries /\ task.deregister \subseteq Profiles
  BY DEF TypeOK, TaskRecords, Controllers, Specs, Statuses
<1>2. ASSUME Reconcile PROVE TypeOK'
  <2>1. CASE Return(FALSE)
    BY <1>2, <2>1, ReturnTyped DEF Reconcile, TypeOK
  <2>2. CASE /\ task' = [Idle EXCEPT !.step = FirstStep(cache), !.controller = cache,
                                     !.fresh = CaughtUp]
             /\ UNCHANGED timer
    <3>1. FirstStep(cache) \in {"removeFinalizer", "addFinalizer", "deployment"}
      BY <1>1 DEF FirstStep, Controllers
    <3>2. task' \in TaskRecords
      BY <1>1, <2>2, <3>1, IdleType DEF TaskRecords, Steps, CaughtUp
    <3> QED  BY <1>2, <2>2, <3>2 DEF Reconcile, TypeOK
  <2> QED  BY <1>2, <2>1, <2>2 DEF Reconcile
<1>3. ASSUME AddFinalizer PROVE TypeOK'
  <2> DEFINE obj == [api EXCEPT !.finalizer = TRUE]
  <2>1. obj \in Controllers
    BY <1>1, ControllerTypes
  <2>2. api' \in Controllers /\ cache' \in Controllers /\ unseen' \in Seq(Controllers)
    BY <1>1, <1>3, <2>1, WriteEffect DEF AddFinalizer
  <2>3. task' \in TaskRecords
    BY <1>1, <1>3, <2>1 DEF AddFinalizer, TaskRecords, Steps
  <2> QED  BY <1>3, <2>2, <2>3 DEF AddFinalizer, TypeOK
<1>4. ASSUME RemoveFinalizer PROVE TypeOK'
  BY <1>1, <1>4, ControllerTypes, WriteEffect, ReturnTyped DEF RemoveFinalizer, TypeOK
<1>5. ASSUME EnsureDeployment PROVE TypeOK'
  <2>1. deploy' \in [owner: Nat, replicas: 0 .. Cardinality(Pods)]
    BY <1>1, <1>5 DEF EnsureDeployment
  <2>2. task' \in TaskRecords
    BY <1>1, <1>5, GotoTyped DEF EnsureDeployment, Steps
  <2> QED  BY <1>5, <2>1, <2>2 DEF EnsureDeployment, TypeOK
<1>6. ASSUME EnsureService PROVE TypeOK'
  <2>1. task' \in TaskRecords
    BY <1>1, <1>6, GotoTyped DEF EnsureService, Steps
  <2> QED  BY <1>1, <1>6, <2>1 DEF EnsureService, TypeOK
<1>7. ASSUME EnsureFails \/ UpdateRefused PROVE TypeOK'
  BY <1>7, ReturnTyped DEF EnsureFails, UpdateRefused, TypeOK
<1>8. ASSUME FindReadyPod PROVE TypeOK'
  <2>1. task' \in TaskRecords
    BY <1>1, <1>8, OutcomeTyped, PlanTyped DEF FindReadyPod
  <2> QED  BY <1>8, <2>1 DEF FindReadyPod, TypeOK
<1>9. ASSUME RegisterBrowser PROVE TypeOK'
  <2>1. PICK e \in task.register, p \in Reachable :
          /\ known' = [known EXCEPT ![p][e.profile] = e.wsUrl]
          /\ Sync(task.outcome, task.register \ {e}, task.deregister)
    BY <1>9 DEF RegisterBrowser
  <2>2. e.profile \in Profiles /\ e.wsUrl \in Nat
    BY <1>1 DEF Entries
  <2>3. known' \in [Pods -> Registrations]
    BY <2>1, <2>2 DEF TypeOK, Registrations
  <2>4. task' \in TaskRecords
    BY <1>1, <2>1, SyncTyped
  <2> QED  BY <1>9, <2>3, <2>4 DEF RegisterBrowser, TypeOK
<1>10. ASSUME DeregisterBrowser PROVE TypeOK'
  <2>1. PICK q \in task.deregister, p \in Reachable :
          /\ known' = [known EXCEPT ![p][q] = None]
          /\ Sync(task.outcome, {}, task.deregister \ {q})
    BY <1>10 DEF DeregisterBrowser
  <2>2. known' \in [Pods -> Registrations]
    BY <1>1, <2>1 DEF TypeOK, Registrations
  <2>3. task' \in TaskRecords
    BY <1>1, <2>1, SyncTyped
  <2> QED  BY <1>10, <2>2, <2>3 DEF DeregisterBrowser, TypeOK
<1>11. ASSUME RegisterFails \/ DeregisterFails PROVE TypeOK'
  <2>1. \E left \in SUBSET Entries, rest \in SUBSET Profiles :
            Sync(task.outcome, left, rest)
    <3>1. CASE RegisterFails
      BY <1>1, <3>1 DEF RegisterFails
    <3>2. CASE DeregisterFails
      BY <1>1, <3>2 DEF DeregisterFails
    <3> QED  BY <1>11, <3>1, <3>2
  <2>2. task' \in TaskRecords
    BY <1>1, <2>1, SyncTyped
  <2> QED  BY <1>11, <2>2 DEF RegisterFails, DeregisterFails, TypeOK
<1>12. ASSUME UpdateStatus PROVE TypeOK'
  <2>1. [api EXCEPT !.status = task.outcome] \in Controllers
    BY <1>1, ControllerTypes
  <2> QED  BY <1>1, <1>12, <2>1, WriteEffect, ReturnTyped DEF UpdateStatus, TypeOK
<1> QED  BY <1>2, <1>3, <1>4, <1>5, <1>6, <1>7, <1>8, <1>9, <1>10, <1>11, <1>12 DEF Worker

LEMMA UserTypes ==
    ASSUME TypeOK, User
    PROVE  TypeOK'
<1>1. api \in Controllers /\ api.uid \in Nat /\ api.finalizer \in BOOLEAN
  BY DEF TypeOK, Controllers
<1>2. ASSUME NEW obj \in Controllers, UserWrite(obj) PROVE TypeOK'
  <2>1. api' \in Controllers /\ cache' \in Controllers /\ unseen' \in Seq(Controllers)
    BY <1>2, WriteEffect DEF UserWrite, TypeOK
  <2>2. task' \in TaskRecords
    BY <1>2 DEF UserWrite, TypeOK, TaskRecords
  <2> QED  BY <1>2, <2>1, <2>2 DEF UserWrite, TypeOK, queue, children, runtime
<1>3. CASE CreateController
  BY <1>1, <1>2, <1>3, NewControllerType, ReconcilerAssumption DEF CreateController
<1>4. CASE EditSpec
  BY <1>1, <1>2, <1>4, ControllerTypes, ReconcilerAssumption DEF EditSpec
<1>5. CASE DeleteController
  BY <1>1, <1>2, <1>5, ControllerTypes DEF DeleteController
<1> QED  BY <1>3, <1>4, <1>5 DEF User

\* What the cache may show of a Browser.
LEMMA BrowserSeenTypes ==
    ASSUME TypeOK, NEW n \in Names, NEW view \in BrowserViews \cup {None},
           BrowserSeen(n, view)
    PROVE  TypeOK'
<1>1. browsers' \in [Names -> BrowserViews \cup {None}]
  BY DEF BrowserSeen, TypeOK
<1>2. queued' \in BOOLEAN
  BY DEF BrowserSeen, TypeOK, Controllers
<1> QED  BY <1>1, <1>2 DEF BrowserSeen, TypeOK, store, children, runtime

LEMMA OperatorTypes ==
    ASSUME TypeOK, ControllerEvent \/ TimerFires \/ ChildEvent \/ OperatorRestart
    PROVE  TypeOK'
<1> USE DEF store, children, runtime
<1>1. ASSUME ControllerEvent PROVE TypeOK'
  <2>1. cache' \in Controllers /\ unseen' \in Seq(Controllers) /\ api' = api
    BY <1>1 DEF ControllerEvent, Deliver, TypeOK
  <2> QED  BY <1>1, <2>1 DEF ControllerEvent, TypeOK
<1>2. ASSUME TimerFires \/ ChildEvent PROVE TypeOK'
  BY <1>2 DEF TimerFires, ChildEvent, TypeOK
<1>3. ASSUME OperatorRestart PROVE TypeOK'
  <2>1. cache' \in Controllers /\ unseen' \in Seq(Controllers) /\ api' \in Controllers
    BY <1>3 DEF OperatorRestart, Relist, TypeOK
  <2>2. queued' \in BOOLEAN /\ timer' \in BOOLEAN
    BY <1>3 DEF OperatorRestart, TypeOK, Controllers
  <2> QED  BY <1>3, <2>1, <2>2, IdleType DEF OperatorRestart, TypeOK
<1> QED  BY <1>1, <1>2, <1>3

\* The garbage collector, whoever deletes a child, and the kubelet.
Surroundings ==
    \/ CollectDeployment \/ CollectService \/ DeleteChild
    \/ \E p \in Pods : \/ StartPod(p) \/ PodBecomesReady(p) \/ ScaleDown(p)
                       \/ PodLost(p) \/ PodBecomesUnready(p)

LEMMA SurroundingTypes ==
    ASSUME TypeOK, Outside(Surroundings)
    PROVE  TypeOK'
<1> USE DEF store, children, runtime, queue, Outside
<1>1. CASE CollectDeployment \/ CollectService \/ DeleteChild
  BY <1>1 DEF CollectDeployment, CollectService, DeleteChild, TypeOK
<1>2. ASSUME NEW p \in Pods, LaunchPod(p) \/ PodBecomesReady(p) \/ PodBecomesUnready(p)
      PROVE  TypeOK'
  BY <1>2 DEF LaunchPod, PodBecomesReady, PodBecomesUnready, TypeOK
<1>3. ASSUME NEW p \in Pods, StopPod(p) PROVE TypeOK'
  BY <1>3, WorkloadAssumption DEF StopPod, TypeOK, Nobody, Registrations
<1> QED  BY <1>1, <1>2, <1>3 DEF Surroundings, StartPod, ScaleDown, PodLost

\* A step of anybody: those of Next, and those ControllerProgress has beside them.
Step ==
    \/ Worker \/ User \/ ControllerEvent \/ TimerFires \/ ChildEvent \/ OperatorRestart
    \/ Outside(Surroundings)
    \/ \E n \in Names, view \in BrowserViews \cup {None} : BrowserSeen(n, view)

LEMMA TypesPreserved ==
    ASSUME TypeOK, Step
    PROVE  TypeOK'
BY WorkerTypes, UserTypes, OperatorTypes, SurroundingTypes, BrowserSeenTypes DEF Step

LEMMA NextIsStep == Next => Step
<1>1. (\E n \in Names : BrowserChanges(n)) =>
        \E n \in Names, view \in BrowserViews \cup {None} : BrowserSeen(n, view)
  BY WorkloadAssumption DEF BrowserChanges
<1>2. GarbageStep \/ (\E p \in Pods : KubeletStep(p)) \/ (Mishap /\ ~OperatorRestart)
        => Outside(Surroundings)
  BY DEF GarbageStep, KubeletStep, Mishap, Outside, Surroundings
<1>3. Mishap => OperatorRestart \/ (Mishap /\ ~OperatorRestart)
  OBVIOUS
<1> QED  BY <1>1, <1>2, <1>3 DEF Next, Calm, Change, Step

LEMMA InitTypes == NoController /\ browsers \in [Names -> BrowserViews \cup {None}] => TypeOK
<1> SUFFICES ASSUME NoController, browsers \in [Names -> BrowserViews \cup {None}]
             PROVE  TypeOK
  OBVIOUS
<1>1. Idle.controller \in Controllers
  BY IdleType DEF TaskRecords
<1>2. api \in Controllers /\ cache \in Controllers /\ unseen \in Seq(Controllers)
  BY <1>1 DEF NoController
<1>3. pods \in [Pods -> {"absent", "starting", "ready"}] /\ known \in [Pods -> Registrations]
  BY DEF NoController, Nobody, Registrations
<1>4. task \in TaskRecords
  BY IdleType DEF NoController
<1> QED  BY <1>2, <1>3, <1>4 DEF NoController, TypeOK

------------------------------------------------------------------------------
(* The reconciler and the versions of the Controller, one group of actions at a time. *)

Safe ==
    /\ DeletedHasFinalizer
    /\ CacheFollows
    /\ FreshIsCurrent
    /\ CopyFitsStep
    /\ GuardedIsAlive
    /\ NoLostWakeup

LEMMA IInvParts == IInv <=> TypeOK /\ Safe
BY DEF IInv, Safe

LEMMA WriteStore ==
    ASSUME TypeOK, CacheFollows, NEW obj, Write(obj)
    PROVE  /\ Versions' \subseteq Versions \cup {obj}
           /\ api' = obj /\ CacheFollows' /\ ~CaughtUp'
BY VersionWritten DEF TypeOK

LEMMA DeliverStore ==
    ASSUME TypeOK, CacheFollows, Deliver
    PROVE  Versions' \subseteq Versions /\ api' = api /\ CacheFollows'
BY VersionDelivered DEF TypeOK

\* The copies a reconcile and the next one may work on.
LEMMA GuardedVersions ==
    GuardedIsAlive <=>
        /\ \A v \in Versions : Guarded(v) => OwnerLives(v.uid) /\ api.finalizer
        /\ ~At("idle") /\ Guarded(task.controller) =>
               OwnerLives(task.controller.uid) /\ api.finalizer
BY DEF GuardedIsAlive

\* A step of the worker that does not write the Controller: it returns with a
\* delayed requeue or goes on with the same copy, past the finalizer.
LEMMA QuietWorkerSafe ==
    ASSUME Safe, UNCHANGED store, UNCHANGED queued,
           \/ task' = Idle /\ timer'
           \/ /\ task'.controller = task.controller /\ task'.fresh = task.fresh
              /\ task.step \notin {"idle", "addFinalizer", "removeFinalizer"}
              /\ task'.step \notin {"idle", "addFinalizer", "removeFinalizer"}
    PROVE  Safe'
<1> USE DEF store, At
<1>1. /\ Versions' = Versions /\ CaughtUp' = CaughtUp
      /\ \A u : OwnerLives(u)' = OwnerLives(u)
      /\ DeletedHasFinalizer' /\ CacheFollows'
  BY DEF Safe, DeletedHasFinalizer, CacheFollows, Versions, CaughtUp, OwnerLives
<1>2. CASE task' = Idle /\ timer'
  BY <1>1, <1>2, IdleType, GuardedVersions
     DEF Safe, FreshIsCurrent, CopyFitsStep, GuardedIsAlive, NoLostWakeup, Guarded
<1>3. CASE /\ task'.controller = task.controller /\ task'.fresh = task.fresh
           /\ task.step \notin {"idle", "addFinalizer", "removeFinalizer"}
           /\ task'.step \notin {"idle", "addFinalizer", "removeFinalizer"}
  <2>1. FreshIsCurrent' /\ NoLostWakeup'
    BY <1>1, <1>3 DEF Safe, FreshIsCurrent, NoLostWakeup
  <2>2. CopyFitsStep'
    BY <1>1, <1>3 DEF Safe, CopyFitsStep
  <2>3. GuardedIsAlive'
    BY <1>1, <1>3, GuardedVersions DEF Safe, GuardedIsAlive, Guarded
  <2> QED  BY <1>1, <2>1, <2>2, <2>3 DEF Safe
<1> QED  BY <1>2, <1>3

\* What a step of the worker that goes on does to the copy it works on.
LEMMA GoesOn ==
    ASSUME task \in TaskRecords
    PROVE  /\ \A step : Goto(step) =>
                task' = [task EXCEPT !.step = step] /\ task'.step = step
                /\ task'.controller = task.controller /\ task'.fresh = task.fresh
           /\ \A phase, registered : Outcome(phase, registered) =>
                task'.step = "status"
                /\ task'.controller = task.controller /\ task'.fresh = task.fresh
           /\ \A outcome, register, deregister : Sync(outcome, register, deregister) =>
                task'.step \in {"sync", "status"}
                /\ task'.controller = task.controller /\ task'.fresh = task.fresh
<1>1. ASSUME NEW step, Goto(step)
      PROVE  task' = [task EXCEPT !.step = step] /\ task'.step = step
             /\ task'.controller = task.controller /\ task'.fresh = task.fresh
  BY <1>1 DEF Goto, TaskRecords
<1>2. ASSUME NEW phase, NEW registered, Outcome(phase, registered)
      PROVE  task'.step = "status"
             /\ task'.controller = task.controller /\ task'.fresh = task.fresh
  BY <1>2 DEF Outcome, TaskRecords
<1>3. ASSUME NEW outcome, NEW register, NEW deregister, Sync(outcome, register, deregister)
      PROVE  task'.step \in {"sync", "status"}
             /\ task'.controller = task.controller /\ task'.fresh = task.fresh
  BY <1>3 DEF Sync, TaskRecords
<1> QED  BY <1>1, <1>2, <1>3

\* Worker steps that leave the Controller object alone.
LEMMA CallsSafe ==
    ASSUME TypeOK, Safe, Worker,
           ~Reconcile, ~AddFinalizer, ~RemoveFinalizer, ~UpdateStatus
    PROVE  Safe'
<1> USE DEF At
<1>1. task \in TaskRecords
  BY DEF TypeOK
<1>2. CASE EnsureDeployment \/ EnsureService
  BY <1>1, <1>2, GoesOn, QuietWorkerSafe DEF EnsureDeployment, EnsureService, queue
<1>3. CASE EnsureFails \/ UpdateRefused
  BY <1>3, QuietWorkerSafe DEF EnsureFails, UpdateRefused, Return
<1>4. CASE FindReadyPod
  BY <1>1, <1>4, GoesOn, QuietWorkerSafe DEF FindReadyPod, Plan, queue
<1>5. CASE RegisterBrowser \/ RegisterFails
  <2>1. \E left : Sync(task.outcome, left, task.deregister)
    BY <1>5 DEF RegisterBrowser, RegisterFails
  <2>2. task.step = "sync"
    BY <1>5 DEF RegisterBrowser, RegisterFails, First
  <2> QED  BY <1>1, <1>5, <2>1, <2>2, GoesOn, QuietWorkerSafe
           DEF RegisterBrowser, RegisterFails, queue
<1>6. CASE DeregisterBrowser \/ DeregisterFails
  <2>1. \E rest : Sync(task.outcome, {}, rest)
    BY <1>6 DEF DeregisterBrowser, DeregisterFails
  <2> QED  BY <1>1, <1>6, <2>1, GoesOn, QuietWorkerSafe
           DEF DeregisterBrowser, DeregisterFails, queue
<1> QED  BY <1>2, <1>3, <1>4, <1>5, <1>6 DEF Worker

\* The fetch: a copy taken from a cache that is up to date is the current version.
LEMMA ReconcileSafe ==
    ASSUME TypeOK, Safe, Reconcile
    PROVE  Safe'
<1> USE DEF At, store
<1>1. /\ Versions' = Versions /\ CaughtUp' = CaughtUp
      /\ \A u : OwnerLives(u)' = OwnerLives(u)
      /\ DeletedHasFinalizer' /\ CacheFollows' /\ api' = api /\ cache' = cache
  BY DEF Reconcile, Safe, DeletedHasFinalizer, CacheFollows, Versions, CaughtUp, OwnerLives
<1>2. cache \in Versions /\ cache \in Controllers
  BY DEF Versions, TypeOK
<1>3. CASE /\ ~cache.exists \/ (cache.deleting /\ ~cache.finalizer)
           /\ Return(FALSE)
  <2>1. task' = Idle /\ timer' = timer
    BY <1>3 DEF Return, TypeOK
  <2>2. ~cache.exists
    BY <1>2, <1>3 DEF Safe, DeletedHasFinalizer
  <2> QED  BY <1>1, <2>1, <2>2, IdleType, GuardedVersions
           DEF Safe, FreshIsCurrent, CopyFitsStep, GuardedIsAlive, NoLostWakeup, Guarded
<1>4. CASE /\ cache.exists /\ (cache.deleting => cache.finalizer)
           /\ task' = [Idle EXCEPT !.step = FirstStep(cache), !.controller = cache,
                                   !.fresh = CaughtUp]
  <2>1. task'.step = FirstStep(cache) /\ task'.controller = cache /\ task'.fresh = CaughtUp
    BY <1>4, IdleType DEF TaskRecords
  <2>2. /\ FirstStep(cache) \in {"removeFinalizer", "addFinalizer", "deployment"}
        /\ (FirstStep(cache) = "removeFinalizer") = cache.deleting
        /\ FirstStep(cache) = "deployment" => cache.finalizer
    BY <1>2, <1>4 DEF FirstStep, Controllers
  <2>3. FreshIsCurrent'
    BY <1>1, <2>1 DEF Safe, CacheFollows, FreshIsCurrent
  <2>4. CopyFitsStep'
    BY <1>1, <1>2, <1>4, <2>1, <2>2 DEF CopyFitsStep, Controllers
  <2>5. GuardedIsAlive'
    BY <1>1, <1>2, <2>1 DEF Safe, GuardedIsAlive, Guarded
  <2>6. NoLostWakeup'
    BY <2>1, <2>2 DEF NoLostWakeup
  <2> QED  BY <1>1, <2>3, <2>4, <2>5, <2>6 DEF Safe
<1> QED  BY <1>3, <1>4 DEF Reconcile

\* A new version under the same uid that neither loses the finalizer nor is the
\* first to have it, or an update that changes nothing.
LEMMA UpdateSafe ==
    ASSUME TypeOK, Safe, NEW obj \in Controllers, Write(obj) \/ Put(obj),
           task' = Idle, timer', UNCHANGED queued, api.exists,
           obj.exists = api.exists, obj.finalizer = api.finalizer,
           obj.deleting = api.deleting, obj.uid = api.uid
    PROVE  Safe'
<1> USE DEF At
<1>1. CASE Put(obj) /\ ~Write(obj)
  BY <1>1, QuietWorkerSafe DEF Put
<1>2. CASE Write(obj)
  <2>1. /\ Versions' \subseteq Versions \cup {obj}
        /\ api' = obj /\ CacheFollows' /\ ~CaughtUp'
    BY <1>2, WriteStore DEF Safe
  <2>2. api \in Versions
    BY DEF Versions
  <2>3. DeletedHasFinalizer'
    BY <2>1, <2>2 DEF Safe, DeletedHasFinalizer
  <2>4. GuardedIsAlive'
    BY <2>1, <2>2, IdleType DEF Safe, GuardedIsAlive, Guarded, OwnerLives
  <2>5. FreshIsCurrent' /\ CopyFitsStep' /\ NoLostWakeup'
    BY <2>1, IdleType DEF FreshIsCurrent, CopyFitsStep, NoLostWakeup
  <2> QED  BY <2>1, <2>3, <2>4, <2>5 DEF Safe
<1> QED  BY <1>1, <1>2

\* The three writes of the worker go through only for the current version.
LEMMA WritesSafe ==
    ASSUME TypeOK, Safe, AddFinalizer \/ RemoveFinalizer \/ UpdateStatus
    PROVE  Safe'
<1> USE DEF At
<1>1. /\ task \in TaskRecords /\ api \in Controllers
      /\ task.fresh /\ task.controller = api /\ api.exists
  BY DEF Safe, FreshIsCurrent, CopyFitsStep, AddFinalizer, RemoveFinalizer, UpdateStatus, TypeOK
<1>2. CASE AddFinalizer
  <2> DEFINE obj == [api EXCEPT !.finalizer = TRUE]
  <2>1. /\ Versions' \subseteq Versions \cup {obj}
        /\ api' = obj /\ CacheFollows' /\ ~CaughtUp'
    BY <1>2, WriteStore DEF AddFinalizer, Safe
  <2>2. /\ obj.exists /\ obj.finalizer /\ obj.deleting = api.deleting /\ obj.uid = api.uid
    BY <1>1 DEF Controllers
  <2>3. task'.step = "deployment" /\ task'.controller = obj /\ task'.fresh
    BY <1>1, <1>2 DEF AddFinalizer, TaskRecords
  <2>4. ~api.deleting
    BY <1>1, <1>2 DEF AddFinalizer, Safe, CopyFitsStep, Controllers
  <2>5. DeletedHasFinalizer'
    BY <2>1, <2>2 DEF Safe, DeletedHasFinalizer
  <2>6. ~obj.deleting /\ obj.deleting \in BOOLEAN
    BY <1>1, <2>2, <2>4 DEF Controllers
  <2>7. FreshIsCurrent' /\ CopyFitsStep' /\ NoLostWakeup'
    BY <2>1, <2>2, <2>3, <2>6 DEF FreshIsCurrent, CopyFitsStep, NoLostWakeup
  <2>8. GuardedIsAlive'
    BY <1>1, <2>1, <2>2, <2>3 DEF Safe, GuardedIsAlive, Guarded, OwnerLives
  <2> QED  BY <2>1, <2>5, <2>7, <2>8 DEF Safe
<1>3. CASE RemoveFinalizer
  <2>1. /\ Versions' \subseteq Versions \cup {Gone(api)}
        /\ api' = Gone(api) /\ CacheFollows' /\ ~CaughtUp'
    BY <1>3, WriteStore DEF RemoveFinalizer, Safe
  <2>2. ~Gone(api).exists
    BY <1>1 DEF Gone, Controllers
  <2>3. Versions = {api} /\ api.deleting
    <3>1. CaughtUp /\ cache = api
      BY <1>1, <1>3 DEF RemoveFinalizer, Safe, CopyFitsStep, CacheFollows
    <3>2. task.controller.deleting
      BY <1>3 DEF RemoveFinalizer, Safe, CopyFitsStep
    <3>3. 1 .. Len(unseen) = {}
      BY <3>1 DEF CaughtUp
    <3> QED  BY <1>1, <3>1, <3>2, <3>3 DEF Versions
  <2>4. task' = Idle
    BY <1>3 DEF RemoveFinalizer, Return
  <2>5. DeletedHasFinalizer'
    BY <2>1, <2>2 DEF Safe, DeletedHasFinalizer
  <2>6. GuardedIsAlive'
    BY <2>1, <2>2, <2>3, <2>4, IdleType DEF GuardedIsAlive, Guarded
  <2>7. FreshIsCurrent' /\ CopyFitsStep' /\ NoLostWakeup'
    BY <2>1, <2>4, IdleType DEF FreshIsCurrent, CopyFitsStep, NoLostWakeup
  <2> QED  BY <2>1, <2>5, <2>6, <2>7 DEF Safe
<1>4. CASE UpdateStatus
  <2> DEFINE obj == [api EXCEPT !.status = task.outcome]
  <2>1. obj \in Controllers
    BY <1>1, ControllerTypes DEF TaskRecords
  <2>2. /\ obj.exists = api.exists /\ obj.finalizer = api.finalizer
        /\ obj.deleting = api.deleting /\ obj.uid = api.uid
    BY <1>1 DEF Controllers
  <2>3. Put(obj) /\ task' = Idle /\ timer' /\ UNCHANGED queued
    BY <1>4 DEF UpdateStatus, Return
  <2> HIDE DEF obj
  <2> QED  BY <1>1, <2>1, <2>2, <2>3, UpdateSafe
<1> QED  BY <1>2, <1>3, <1>4

LEMMA UserSafe ==
    ASSUME TypeOK, Safe, User
    PROVE  Safe'
<1> USE DEF At
<1>1. api \in Controllers /\ task \in TaskRecords /\ api \in Versions
  BY DEF TypeOK, Versions
<1>2. ASSUME NEW obj \in Controllers, UserWrite(obj),
             obj.exists /\ obj.deleting => obj.finalizer,
             Guarded(obj) => Guarded(api) /\ obj.uid = api.uid,
             OwnerLives(api.uid) /\ api.finalizer =>
                 obj.exists /\ obj.uid = api.uid /\ obj.finalizer
      PROVE  Safe'
  <2>1. /\ Versions' \subseteq Versions \cup {obj}
        /\ api' = obj /\ CacheFollows' /\ ~CaughtUp'
    BY <1>2, WriteStore DEF UserWrite, Safe
  <2>2. task'.step = task.step /\ task'.controller = task.controller /\ ~task'.fresh
    BY <1>1, <1>2 DEF UserWrite, TaskRecords
  <2>3. \A u : OwnerLives(u) /\ api.finalizer => OwnerLives(u)' /\ api'.finalizer
    BY <1>2, <2>1 DEF OwnerLives
  <2>4. DeletedHasFinalizer'
    BY <1>2, <2>1 DEF Safe, DeletedHasFinalizer
  <2>5. GuardedIsAlive'
    BY <1>1, <1>2, <2>1, <2>2, <2>3 DEF Safe, GuardedIsAlive, Guarded
  <2>6. FreshIsCurrent' /\ CopyFitsStep' /\ NoLostWakeup'
    BY <2>1, <2>2 DEF Safe, FreshIsCurrent, CopyFitsStep, NoLostWakeup
  <2> QED  BY <2>1, <2>4, <2>5, <2>6 DEF Safe
<1>3. CASE CreateController
  <2>1. PICK s \in SpecChoices : UserWrite(NewController(api.uid + 1, s))
    BY <1>3 DEF CreateController
  <2> DEFINE obj == NewController(api.uid + 1, s)
  <2>2. obj \in Controllers
    BY <1>1, NewControllerType, ReconcilerAssumption DEF Controllers
  <2>3. ~obj.deleting /\ ~obj.finalizer
    BY DEF NewController
  <2>4. ~api.exists
    BY <1>3 DEF CreateController
  <2> QED  BY <1>2, <2>1, <2>2, <2>3, <2>4 DEF Guarded, OwnerLives
<1>4. CASE EditSpec
  <2>1. PICK s \in SpecChoices : UserWrite([api EXCEPT !.spec = s])
    BY <1>4 DEF EditSpec
  <2> DEFINE obj == [api EXCEPT !.spec = s]
  <2>2. obj \in Controllers
    BY <1>1, ControllerTypes, ReconcilerAssumption
  <2>3. /\ obj.exists = api.exists /\ obj.finalizer = api.finalizer
        /\ obj.deleting = api.deleting /\ obj.uid = api.uid
    BY <1>1 DEF Controllers
  <2>4. api.exists /\ api.deleting => api.finalizer
    BY <1>1 DEF Safe, DeletedHasFinalizer
  <2> QED  BY <1>2, <2>1, <2>2, <2>3, <2>4 DEF Guarded, OwnerLives
<1>5. CASE DeleteController
  <2>1. CASE api.finalizer
    <3> DEFINE obj == [api EXCEPT !.deleting = TRUE]
    <3>1. obj \in Controllers /\ UserWrite(obj)
      BY <1>1, <1>5, <2>1, ControllerTypes DEF DeleteController
    <3>2. /\ obj.exists = api.exists /\ obj.finalizer = api.finalizer
          /\ obj.deleting /\ obj.uid = api.uid
      BY <1>1 DEF Controllers
    <3> QED  BY <1>2, <2>1, <3>1, <3>2 DEF Guarded, OwnerLives
  <2>2. CASE ~api.finalizer
    <3>1. Gone(api) \in Controllers /\ UserWrite(Gone(api))
      BY <1>1, <1>5, <2>2, ControllerTypes DEF DeleteController
    <3>2. ~Gone(api).exists
      BY <1>1 DEF Gone, Controllers
    <3> QED  BY <1>2, <2>2, <3>1, <3>2 DEF Guarded
  <2> QED  BY <2>1, <2>2
<1> QED  BY <1>3, <1>4, <1>5 DEF User

LEMMA OperatorSafe ==
    ASSUME TypeOK, Safe, ControllerEvent \/ TimerFires \/ ChildEvent \/ OperatorRestart
    PROVE  Safe'
<1> USE DEF At
<1>1. CASE ControllerEvent
  <2>1. Versions' \subseteq Versions /\ api' = api /\ CacheFollows' /\ ~CaughtUp
    BY <1>1, DeliverStore DEF ControllerEvent, Safe, Deliver, CaughtUp
  <2>2. task' = task /\ queued'
    BY <1>1 DEF ControllerEvent
  <2>3. DeletedHasFinalizer' /\ FreshIsCurrent' /\ NoLostWakeup'
    BY <2>1, <2>2 DEF Safe, DeletedHasFinalizer, FreshIsCurrent, NoLostWakeup
  <2>4. CopyFitsStep'
    BY <2>1, <2>2 DEF Safe, CopyFitsStep
  <2>5. GuardedIsAlive'
    BY <2>1, <2>2 DEF Safe, GuardedIsAlive, Guarded, OwnerLives
  <2> QED  BY <2>1, <2>3, <2>4, <2>5 DEF Safe
<1>2. CASE TimerFires \/ ChildEvent
  <2>1. UNCHANGED <<store, task>> /\ queued'
    BY <1>2 DEF TimerFires, ChildEvent
  <2> QED  BY <2>1 DEF Safe, store, DeletedHasFinalizer, CacheFollows, Versions, CaughtUp,
                       FreshIsCurrent, CopyFitsStep, GuardedIsAlive, Guarded, OwnerLives,
                       NoLostWakeup
<1>3. CASE OperatorRestart
  <2>1. Versions' \subseteq Versions /\ api' = api /\ cache' = api /\ CacheFollows'
    BY <1>3, VersionsListed DEF OperatorRestart, Relist
  <2>2. task' = Idle /\ queued' = api.exists
    BY <1>3 DEF OperatorRestart
  <2>3. DeletedHasFinalizer' /\ FreshIsCurrent' /\ CopyFitsStep' /\ NoLostWakeup'
    BY <2>1, <2>2, IdleType
       DEF Safe, DeletedHasFinalizer, FreshIsCurrent, CopyFitsStep, NoLostWakeup
  <2>4. GuardedIsAlive'
    BY <2>1, <2>2, IdleType DEF Safe, GuardedIsAlive, Guarded, OwnerLives
  <2> QED  BY <2>1, <2>3, <2>4 DEF Safe
<1> QED  BY <1>1, <1>2, <1>3

\* Whatever leaves the Controller, the queue and the worker alone.
LEMMA OthersSafe ==
    ASSUME Safe, UNCHANGED <<store, timer, task>>, queued' = queued \/ queued'
    PROVE  Safe'
BY DEF Safe, store, At, DeletedHasFinalizer, CacheFollows, Versions, CaughtUp,
       FreshIsCurrent, CopyFitsStep, GuardedIsAlive, Guarded, OwnerLives, NoLostWakeup

LEMMA SafePreserved ==
    ASSUME TypeOK, Safe, Step
    PROVE  Safe'
<1>1. CASE Worker
  BY <1>1, CallsSafe, ReconcileSafe, WritesSafe
<1>2. CASE User \/ ControllerEvent \/ TimerFires \/ ChildEvent \/ OperatorRestart
  BY <1>2, UserSafe, OperatorSafe
<1>3. CASE Outside(Surroundings)
  <2>1. UNCHANGED <<store, queue, task>>
    BY <1>3 DEF Outside, Surroundings, CollectDeployment, CollectService, DeleteChild,
                StartPod, LaunchPod, PodBecomesReady, ScaleDown, PodLost, StopPod,
                PodBecomesUnready
  <2> QED  BY <2>1, OthersSafe DEF queue
<1>4. CASE \E n \in Names, view \in BrowserViews \cup {None} : BrowserSeen(n, view)
  <2>1. UNCHANGED <<store, timer, task>> /\ queued' = (queued \/ cache.exists)
    BY <1>4 DEF BrowserSeen
  <2>2. queued \in BOOLEAN /\ cache.exists \in BOOLEAN
    BY DEF TypeOK, Controllers
  <2>3. queued' = queued \/ queued'
    BY <2>1, <2>2
  <2> QED  BY <2>1, <2>3, OthersSafe
<1> QED  BY <1>1, <1>2, <1>3, <1>4 DEF Step

------------------------------------------------------------------------------
(* Theorems. *)

LEMMA InitSafe == NoController => Safe
<1> SUFFICES ASSUME NoController PROVE Safe
  OBVIOUS
<1> USE DEF At
<1>1. task.step = "idle" /\ ~task.fresh /\ cache = api /\ unseen = <<>>
  BY IdleType DEF NoController
<1>2. ~api.exists
  BY DEF NoController, Idle, Gone, NewController
<1>3. Versions = {api}
  BY <1>1 DEF Versions
<1>4. DeletedHasFinalizer /\ CacheFollows /\ GuardedIsAlive
  BY <1>1, <1>2, <1>3 DEF DeletedHasFinalizer, CacheFollows, CaughtUp, GuardedIsAlive, Guarded
<1>5. FreshIsCurrent /\ CopyFitsStep /\ NoLostWakeup
  BY <1>1, <1>2 DEF FreshIsCurrent, CopyFitsStep, NoLostWakeup
<1> QED  BY <1>4, <1>5 DEF Safe

LEMMA IInvPreserved ==
    ASSUME IInv, Step
    PROVE  IInv'
BY TypesPreserved, SafePreserved, IInvParts DEF IInv, Safe

LEMMA IInvNext ==
    ASSUME IInv, [Next]_vars
    PROVE  IInv'
<1>1. IInv /\ UNCHANGED vars => IInv'
  BY DEF vars, store, children, runtime, queue, IInv, TypeOK, At, DeletedHasFinalizer,
         CacheFollows, Versions, CaughtUp, FreshIsCurrent, CopyFitsStep, GuardedIsAlive,
         Guarded, OwnerLives, NoLostWakeup
<1> QED  BY <1>1, IInvPreserved, NextIsStep

\* The inductive invariant: it holds at first and every step keeps it.
THEOREM Invariance == Spec => []IInv
<1>1. Init => IInv
  BY InitTypes, InitSafe, IInvParts DEF Init
<1>2. IInv /\ [Next]_vars => IInv'
  BY IInvNext
<1> QED  BY <1>1, <1>2, PTL DEF Spec

\* Every variable keeps its type: whatever is listed, the sync sends and records
\* addresses of Browsers there are, and a nil list is never stored.
THEOREM TypeCorrect == Spec => []TypeOK
<1>1. IInv => TypeOK
  BY DEF IInv
<1> QED  BY <1>1, Invariance, PTL

\* No Controller is forgotten, so that whatever happens to its Browsers while it
\* is not cached yet is made up for.
THEOREM Wakeups == Spec => []NoLostWakeup
<1>1. IInv => NoLostWakeup
  BY DEF IInv
<1> QED  BY <1>1, Invariance, PTL

\* Only two steps of the worker create or rewrite a child.
LEMMA ChildrenWriters ==
    ASSUME Step
    PROVE  \/ EnsureDeployment \/ EnsureService
           \/ deploy' \in {deploy, None} /\ svc' \in {svc, None}
<1>1. CASE Worker
  BY <1>1 DEF Worker, Reconcile, AddFinalizer, RemoveFinalizer, EnsureFails, FindReadyPod,
              RegisterBrowser, RegisterFails, DeregisterBrowser, DeregisterFails,
              UpdateStatus, UpdateRefused, children
<1>2. CASE ControllerEvent \/ TimerFires \/ ChildEvent \/ OperatorRestart
  BY <1>2 DEF ControllerEvent, TimerFires, ChildEvent, OperatorRestart, children
<1>3. CASE User
  BY <1>3 DEF User, CreateController, EditSpec, DeleteController, UserWrite, children
<1>4. CASE Outside(Surroundings)
  BY <1>4 DEF Outside, Surroundings, CollectDeployment, CollectService, DeleteChild,
              StartPod, LaunchPod, PodBecomesReady, ScaleDown, PodLost, StopPod,
              PodBecomesUnready, children
<1>5. CASE \E n \in Names, view \in BrowserViews \cup {None} : BrowserSeen(n, view)
  BY <1>5 DEF BrowserSeen, children
<1> QED  BY <1>1, <1>2, <1>3, <1>4, <1>5 DEF Step

LEMMA ChildrenStep ==
    ASSUME IInv, Step
    PROVE  /\ deploy' \notin {deploy, None} => OwnerLives(deploy'.owner) /\ api.finalizer
           /\ svc' \notin {svc, None} => OwnerLives(svc') /\ api.finalizer
<1> USE DEF At
<1>1. task.step \in {"deployment", "service"} =>
        OwnerLives(task.controller.uid) /\ api.finalizer
  <2> SUFFICES ASSUME task.step \in {"deployment", "service"}
               PROVE  OwnerLives(task.controller.uid) /\ api.finalizer
    OBVIOUS
  <2>1. Guarded(task.controller)
    BY DEF IInv, TypeOK, CopyFitsStep, Guarded, TaskRecords, Controllers
  <2> QED  BY <2>1 DEF IInv, GuardedIsAlive
<1>2. CASE EnsureDeployment
  BY <1>1, <1>2 DEF EnsureDeployment
<1>3. CASE EnsureService
  BY <1>1, <1>3 DEF EnsureService
<1> QED  BY <1>2, <1>3, ChildrenWriters

\* However stale the copy, children are only written for a live, guarded Controller.
THEOREM ChildrenAreOwned == Spec => ChildrenOfLiveController
<1>1. IInv /\ [Next]_vars =>
        [/\ deploy' \notin {deploy, None} => OwnerLives(deploy'.owner) /\ api.finalizer
         /\ svc' \notin {svc, None} => OwnerLives(svc') /\ api.finalizer]_vars
  BY ChildrenStep, NextIsStep
<1> QED  BY <1>1, Invariance, PTL DEF ChildrenOfLiveController, Spec

------------------------------------------------------------------------------
(* Deployment and Service in their order, for whoever competes for them. *)

\* A reconcile that is past the finalizer works for a Controller that is alive.
LEMMA CopyIsAlive ==
    ASSUME IInv, task.step \in AfterService \cup {"deployment", "service"}
    PROVE  OwnerLives(task.controller.uid)
<1>1. Guarded(task.controller)
  BY DEF IInv, TypeOK, CopyFitsStep, Guarded, TaskRecords, Controllers, AfterService, At
<1> QED  BY <1>1 DEF IInv, GuardedIsAlive, AfterService, At

\* Only three steps of the worker and three of the users change the object.
LEMMA ControllerWriters ==
    ASSUME [Next]_vars
    PROVE  \/ AddFinalizer \/ RemoveFinalizer \/ UpdateStatus
           \/ CreateController \/ EditSpec \/ DeleteController
           \/ UNCHANGED api
<1>1. CASE Worker
  BY <1>1 DEF Worker, Reconcile, EnsureDeployment, EnsureService, EnsureFails,
        FindReadyPod, RegisterBrowser, RegisterFails, DeregisterBrowser, DeregisterFails,
        UpdateRefused, store
<1>2. CASE ControllerEvent \/ TimerFires \/ ChildEvent \/ OperatorRestart \/ UNCHANGED vars
  BY <1>2 DEF ControllerEvent, TimerFires, ChildEvent, OperatorRestart, Deliver, Relist,
              store, vars
<1>3. CASE Outside(Surroundings)
  BY <1>3 DEF Outside, Surroundings, CollectDeployment, CollectService, DeleteChild,
              StartPod, LaunchPod, PodBecomesReady, ScaleDown, PodLost, StopPod,
              PodBecomesUnready, store
<1>4. CASE \E n \in Names, view \in BrowserViews \cup {None} : BrowserSeen(n, view)
  BY <1>4 DEF BrowserSeen, store
<1> QED  BY <1>1, <1>2, <1>3, <1>4, NextIsStep DEF Step, User

\* A Controller that exists has just been created, or existed before.
LEMMA UidsRise ==
    ASSUME IInv, [Next]_vars
    PROVE  /\ api.uid \in Nat /\ api'.uid \in Nat /\ api.uid <= api'.uid
           /\ api'.exists => api.uid < api'.uid \/ (api.exists /\ api'.uid = api.uid)
<1>1. api \in Controllers /\ api.uid \in Nat
  BY DEF IInv, TypeOK, Controllers
<1>2. /\ [api EXCEPT !.finalizer = TRUE].uid = api.uid
      /\ [api EXCEPT !.status = task.outcome].uid = api.uid
      /\ [api EXCEPT !.deleting = TRUE].uid = api.uid
      /\ Gone(api).uid = api.uid
  BY <1>1 DEF Gone, Controllers
<1>3. CASE CreateController
  BY <1>1, <1>3 DEF CreateController, UserWrite, Write, NewController
<1>4. CASE EditSpec \/ DeleteController
  <2>1. api.exists
    BY <1>4 DEF EditSpec, DeleteController
  <2>2. ASSUME EditSpec PROVE api'.uid = api.uid
    BY <1>1, <2>2 DEF EditSpec, UserWrite, Write, Controllers
  <2>3. ASSUME DeleteController PROVE api'.uid = api.uid
    <3>1. \/ api' = [api EXCEPT !.deleting = TRUE]
          \/ api' = Gone(api)
      BY <2>3 DEF DeleteController, UserWrite, Write
    <3> QED  BY <1>2, <3>1
  <2> QED  BY <1>1, <1>4, <2>1, <2>2, <2>3
<1>5. CASE AddFinalizer \/ RemoveFinalizer \/ UpdateStatus
  <2>1. api.exists
    BY <1>5 DEF AddFinalizer, RemoveFinalizer, UpdateStatus, IInv, FreshIsCurrent,
                CopyFitsStep, At
  <2>2. \/ api' = api
        \/ api' = [api EXCEPT !.finalizer = TRUE]
        \/ api' = [api EXCEPT !.status = task.outcome]
        \/ api' = Gone(api)
    BY <1>5 DEF AddFinalizer, RemoveFinalizer, UpdateStatus, Put, Write, store
  <2>3. api'.uid = api.uid
    BY <1>2, <2>2
  <2> QED  BY <1>1, <2>1, <2>3
<1>6. CASE UNCHANGED api
  BY <1>1, <1>6
<1> QED  BY <1>3, <1>4, <1>5, <1>6, ControllerWriters

\* A reconcile that ends leaves nothing behind but the children.
LEMMA ReturnsInPlace ==
    ASSUME IInv, ChildrenInPlace, Return(TRUE),
           UNCHANGED <<queued, store, browsers, children, runtime>>
    PROVE  IInv' /\ ChildrenInPlace'
<1>1. task' = Idle /\ task'.step = "idle" /\ timer'
  BY IdleType DEF Return
<1>2. TypeOK'
  BY ReturnTyped DEF IInv, TypeOK, store, children, runtime
<1>3. Safe'
  BY <1>1, QuietWorkerSafe DEF IInv, Safe
<1>4. ChildrenInPlace'
  <2>1. UNCHANGED <<api, deploy, svc>> /\ task'.step \notin AfterService \cup {"service"}
    BY <1>1 DEF AfterService, store, children
  <2> QED  BY <2>1 DEF ChildrenInPlace, OwnerLives
<1> QED  BY <1>2, <1>3, <1>4 DEF IInv, Safe

\* Being woken changes nothing of all this.
LEMMA WokenInPlace ==
    ASSUME IInv, ChildrenInPlace, NEW woken \in BOOLEAN, queued' = (queued \/ woken),
           UNCHANGED <<timer, task, store, browsers, children, runtime>>
    PROVE  IInv' /\ ChildrenInPlace'
<1>1. queued' = queued \/ queued'
  BY DEF IInv, TypeOK
<1>2. Safe'
  BY <1>1, OthersSafe DEF IInv, Safe
<1>3. TypeOK'
  BY DEF IInv, TypeOK, store, children, runtime
<1>4. ChildrenInPlace'
  BY DEF ChildrenInPlace, OwnerLives, store, children
<1> QED  BY <1>2, <1>3, <1>4 DEF IInv, Safe

LEMMA InitInPlace == Init => IInv /\ ChildrenInPlace
<1> SUFFICES ASSUME Init PROVE IInv /\ ChildrenInPlace
  OBVIOUS
<1>1. IInv
  BY InitTypes, InitSafe, IInvParts DEF Init
<1>2. task.step = "idle" /\ deploy = None /\ svc = None
  BY IdleType DEF Init, NoController
<1> QED  BY <1>1, <1>2 DEF ChildrenInPlace, AfterService

\* What the steps of the worker do to the place the reconcile has reached.
LEMMA WorkerPlaces ==
    ASSUME TypeOK, Worker, ~EnsureDeployment, ~EnsureService
    PROVE  /\ UNCHANGED <<deploy, svc>>
           /\ \/ task'.step \notin AfterService \cup {"service"}
              \/ task.step \in AfterService /\ task'.controller = task.controller
<1> USE DEF At, AfterService
<1>1. task \in TaskRecords /\ cache \in Controllers
  BY DEF TypeOK
<1>2. \A requeue : Return(requeue) => task'.step = "idle"
  BY IdleType DEF Return
<1>3. /\ \A phase, registered : Outcome(phase, registered) => task'.controller = task.controller
      /\ \A outcome, register, deregister :
            Sync(outcome, register, deregister) => task'.controller = task.controller
  BY <1>1 DEF Outcome, Sync, TaskRecords
<1>4. CASE Reconcile
  <2>1. CASE Return(FALSE)
    BY <1>2, <1>4, <2>1 DEF Reconcile, children
  <2>2. CASE task' = [Idle EXCEPT !.step = FirstStep(cache), !.controller = cache,
                                  !.fresh = CaughtUp]
    <3>1. task'.step = FirstStep(cache)
      BY <2>2, IdleType DEF TaskRecords
    <3> QED  BY <1>1, <1>4, <3>1 DEF Reconcile, FirstStep, Controllers, children
  <2> QED  BY <1>4, <2>1, <2>2 DEF Reconcile
<1>5. CASE AddFinalizer
  BY <1>1, <1>5 DEF AddFinalizer, TaskRecords, children
<1>6. CASE RemoveFinalizer \/ EnsureFails \/ UpdateStatus \/ UpdateRefused
  BY <1>2, <1>6 DEF RemoveFinalizer, EnsureFails, UpdateStatus, UpdateRefused, children
<1>7. CASE FindReadyPod
  BY <1>3, <1>7 DEF FindReadyPod, Plan, children
<1>8. CASE RegisterBrowser \/ RegisterFails \/ DeregisterBrowser \/ DeregisterFails
  BY <1>3, <1>8 DEF RegisterBrowser, RegisterFails, DeregisterBrowser, DeregisterFails,
                    First, children
<1> QED  BY <1>4, <1>5, <1>6, <1>7, <1>8 DEF Worker

LEMMA PlacesPreserved ==
    ASSUME IInv, ChildrenInPlace, [Next]_vars
    PROVE  ChildrenInPlace'
<1> USE DEF At
<1>1. /\ task \in TaskRecords /\ task.controller \in Controllers
      /\ task.controller.uid \in Nat /\ task.controller.spec.replicas \in Nat
      /\ deploy \in [owner: Nat, replicas: Nat] \cup {None} /\ svc \in Nat \cup {None}
  <2>1. Cardinality(Pods) \in Nat
    BY WorkloadAssumption, FS_CardinalityType
  <2> QED  BY <2>1 DEF IInv, TypeOK, TaskRecords, Controllers, Specs
<1>2. /\ api.uid \in Nat /\ api'.uid \in Nat /\ api.uid <= api'.uid
      /\ api'.exists => api.uid < api'.uid \/ (api.exists /\ api'.uid = api.uid)
  BY UidsRise
<1>3. None \notin Nat /\ None \notin [owner: Nat, replicas: Nat]
  BY WorkloadAssumption
\* Neither child moves.
<1>4. ASSUME UNCHANGED <<deploy, svc>>,
             \/ task'.step \notin AfterService \cup {"service"}
             \/ task.step \in AfterService /\ task'.controller = task.controller
             \/ task'.step = task.step /\ task'.controller = task.controller
      PROVE  ChildrenInPlace'
  <2>1. /\ task'.step \in AfterService \cup {"service"} =>
               deploy' # None /\ deploy'.owner = task'.controller.uid
        /\ task'.step \in AfterService => svc' = task'.controller.uid
    BY <1>4 DEF ChildrenInPlace
  <2>2. svc' # None /\ OwnerLives(svc)' => deploy' # None /\ deploy'.owner = svc'
    BY <1>1, <1>2, <1>3, <1>4 DEF ChildrenInPlace, OwnerLives
  <2>3. deploy' # None => deploy'.owner <= api'.uid
    BY <1>1, <1>2, <1>3, <1>4 DEF ChildrenInPlace
  <2>4. svc' # None => svc' <= api'.uid
    BY <1>1, <1>2, <1>3, <1>4 DEF ChildrenInPlace
  <2> QED  BY <2>1, <2>2, <2>3, <2>4 DEF ChildrenInPlace
<1>5. CASE EnsureDeployment
  <2>1. OwnerLives(task.controller.uid)
    BY <1>5, CopyIsAlive DEF EnsureDeployment
  <2>2. /\ deploy'.owner = task.controller.uid /\ deploy' # None /\ UNCHANGED <<api, svc>>
    <3>1. deploy' \in [owner: Nat, replicas: Nat] /\ deploy'.owner = task.controller.uid
      BY <1>1, <1>5 DEF EnsureDeployment
    <3> QED  BY <1>3, <1>5, <3>1 DEF EnsureDeployment, store
  <2>3. task'.step = "service" /\ task'.controller = task.controller
    BY <1>1, <1>5 DEF EnsureDeployment, Goto, TaskRecords
  <2> QED  BY <1>1, <1>2, <2>1, <2>2, <2>3 DEF ChildrenInPlace, OwnerLives, AfterService
<1>6. CASE EnsureService
  <2>1. OwnerLives(task.controller.uid)
    BY <1>6, CopyIsAlive DEF EnsureService
  <2>2. svc' = task.controller.uid /\ UNCHANGED <<api, deploy>>
    BY <1>6 DEF EnsureService, store
  <2>3. deploy # None /\ deploy.owner = task.controller.uid
    BY <1>6 DEF EnsureService, ChildrenInPlace
  <2>4. task'.step = "pods" /\ task'.controller = task.controller
    BY <1>1, <1>6 DEF EnsureService, Goto, TaskRecords
  <2> QED  BY <1>1, <1>2, <2>1, <2>2, <2>3, <2>4 DEF ChildrenInPlace, OwnerLives, AfterService
<1>7. CASE Worker /\ ~EnsureDeployment /\ ~EnsureService
  BY <1>4, <1>7, WorkerPlaces DEF IInv
<1>8. CASE User
  <2>1. UNCHANGED <<deploy, svc>> /\ task' = [task EXCEPT !.fresh = FALSE]
    BY <1>8 DEF User, CreateController, EditSpec, DeleteController, UserWrite, children
  <2>2. task'.step = task.step /\ task'.controller = task.controller
    BY <1>1, <2>1 DEF TaskRecords
  <2> QED  BY <1>4, <2>1, <2>2
<1>9. CASE OperatorRestart
  BY <1>4, <1>9, IdleType DEF OperatorRestart, AfterService, children
<1>10. CASE Outside(CollectDeployment)
  <2>1. /\ ~OwnerLives(deploy.owner) /\ deploy # None /\ deploy' = None
        /\ UNCHANGED <<api, svc, task>>
    BY <1>10 DEF Outside, CollectDeployment, store
  <2>2. task.step \notin AfterService \cup {"service"}
    BY <2>1, CopyIsAlive DEF ChildrenInPlace
  <2> QED  BY <2>1, <2>2 DEF ChildrenInPlace, OwnerLives
<1>11. CASE Outside(CollectService)
  <2>1. ~OwnerLives(svc) /\ svc' = None /\ UNCHANGED <<api, deploy, task>>
    BY <1>11 DEF Outside, CollectService, store
  <2>2. task.step \notin AfterService
    BY <2>1, CopyIsAlive DEF ChildrenInPlace
  <2> QED  BY <2>1, <2>2 DEF ChildrenInPlace, OwnerLives
<1>12. CASE \/ ControllerEvent \/ TimerFires \/ ChildEvent \/ UNCHANGED vars
            \/ \E p \in Pods :
                 KubeletStep(p) \/ Outside(PodLost(p)) \/ Outside(PodBecomesUnready(p))
            \/ \E n \in Names : BrowserChanges(n)
  <2>1. UNCHANGED <<deploy, svc, task>>
    BY <1>12 DEF ControllerEvent, TimerFires, ChildEvent, KubeletStep, Outside, StartPod,
                 LaunchPod, PodBecomesReady, ScaleDown, PodLost, StopPod, PodBecomesUnready,
                 BrowserChanges, BrowserSeen, children, vars
  <2> QED  BY <1>4, <2>1
<1>13. GarbageStep => Outside(CollectDeployment) \/ Outside(CollectService)
  BY DEF GarbageStep, Outside
<1> QED  BY <1>5, <1>6, <1>7, <1>8, <1>9, <1>10, <1>11, <1>12, <1>13
         DEF Next, Calm, Change, Mishap

\* A status is only ever published by UpdateStatus, and whoever does has both children.
LEMMA PublisherHolds ==
    ASSUME IInv, ChildrenInPlace, [Next]_vars,
           api'.exists, api'.uid = api.uid, api'.status # api.status
    PROVE  /\ deploy # None /\ OwnerLives(deploy.owner)
           /\ svc # None /\ OwnerLives(svc)
<1> USE DEF At
<1>1. api \in Controllers /\ api.uid \in Nat
  BY DEF IInv, TypeOK, Controllers
<1>2. CASE UpdateStatus
  <2>1. At("status") /\ task.controller = api
    BY <1>2 DEF UpdateStatus, IInv, FreshIsCurrent
  <2>2. api.exists
    BY <2>1 DEF IInv, CopyFitsStep
  <2> QED  BY <1>1, <2>1, <2>2, WorkloadAssumption
           DEF ChildrenInPlace, AfterService, OwnerLives
<1>3. CASE AddFinalizer
  BY <1>1, <1>3 DEF AddFinalizer, Write, Controllers
<1>4. CASE RemoveFinalizer
  BY <1>1, <1>4 DEF RemoveFinalizer, Write, Gone, Controllers
<1>5. CASE CreateController
  BY <1>1, <1>5 DEF CreateController, UserWrite, Write, NewController
<1>6. CASE EditSpec \/ DeleteController
  BY <1>1, <1>6 DEF EditSpec, DeleteController, UserWrite, Write, Gone, Controllers
<1>7. CASE UNCHANGED api
  BY <1>7
<1> QED  BY <1>2, <1>3, <1>4, <1>5, <1>6, <1>7, ControllerWriters
==============================================================================
