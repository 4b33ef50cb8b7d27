----------------------- MODULE BrowserReconciler_proof -----------------------
(***************************************************************************)
(* Proofs about the Browser reconciler, for any number of pods, profiles,  *)
(* endpoints and extensions, any specs and any of the failures.            *)
(***************************************************************************)
EXTENDS BrowserInvariant, ObjectStore_proof

------------------------------------------------------------------------------
(* Types. *)

LEMMA BrowserTypes ==
    ASSUME NEW obj \in Browsers
    PROVE  /\ \A s \in Specs : [obj EXCEPT !.spec = s] \in Browsers
           /\ \A s \in Statuses : [obj EXCEPT !.status = s] \in Browsers
           /\ [obj EXCEPT !.finalizer = TRUE] \in Browsers
           /\ [obj EXCEPT !.deleting = TRUE] \in Browsers
           /\ Gone(obj) \in Browsers
<1>1. NoStatus \in Statuses
  BY DEF NoStatus, Statuses
<1> QED  BY <1>1 DEF Browsers, Gone

LEMMA NewBrowserType ==
    ASSUME NEW uid \in Nat, NEW s \in Specs
    PROVE  NewBrowser(uid, s) \in Browsers
<1>1. NoStatus \in Statuses
  BY DEF NoStatus, Statuses
<1> QED  BY <1>1 DEF NewBrowser, Browsers

\* The in-memory copy of an idle worker is a Browser like any other.
LEMMA IdleType == Idle \in TaskRecords /\ Idle.step = "idle" /\ ~Idle.fresh
<1>1. [running |-> TRUE, profileUid |-> "", reclaimPolicy |-> "Retain",
       extensions |-> {}, cookies |-> FALSE] \in Specs
  BY DEF Specs
<1>2. (CHOOSE s \in Specs : TRUE) \in Specs
  BY <1>1
<1>3. Gone(NewBrowser(0, CHOOSE s \in Specs : TRUE)) \in Browsers
  BY <1>2, NewBrowserType, BrowserTypes
<1>4. NoStatus \in Statuses
  BY DEF NoStatus, Statuses
<1> QED  BY <1>3, <1>4 DEF Idle, TaskRecords, Steps

LEMMA ProfileUIDType ==
    ASSUME NEW spec \in Specs
    PROVE  ProfileUID(spec) \in Profiles
BY WorkloadAssumption DEF ProfileUID, Specs

LEMMA StatusTypes ==
    ASSUME task \in TaskRecords
    PROVE  /\ \A m \in {"pod", "launcher"} : Creating(m) \in Statuses
           /\ \A t \in Targets : Running(t) \in Statuses
           /\ Stopped \in Statuses
BY DEF TaskRecords, Browsers, Statuses, Creating, Running, Stopped

\* What a Report leaves behind, whether it returns or goes on to the API call.
LEMMA ReportEffect ==
    ASSUME task \in TaskRecords, timer \in BOOLEAN,
           NEW status \in Statuses, Report(status)
    PROVE  /\ task' \in TaskRecords /\ timer' \in BOOLEAN
           /\ \/ task' = Idle /\ timer'
              \/ /\ task' = [task EXCEPT !.step = "status", !.outcome = status]
                 /\ timer' = timer
BY IdleType DEF Report, Return, TaskRecords, Steps

LEMMA WriteEffect ==
    ASSUME api \in Browsers, cache \in Browsers, unseen \in Seq(Browsers),
           NEW obj \in Browsers, Write(obj)
    PROVE  api' \in Browsers /\ cache' \in Browsers /\ unseen' \in Seq(Browsers)
BY DEF Write

\* The steps of the worker that report a status need little of the action itself.
LEMMA ReportTyped ==
    ASSUME TypeOK, TaskTyped, NEW status \in Statuses, Report(status)
    PROVE  /\ task' \in TaskRecords /\ timer' \in BOOLEAN /\ TaskTyped'
<1>1. task \in TaskRecords /\ timer \in BOOLEAN
  BY DEF TypeOK
<1>2. CASE task' = Idle /\ timer'
  BY <1>1, <1>2, ReportEffect, IdleType DEF TaskTyped, LauncherSteps, ExtensionSteps
<1>3. CASE /\ task' = [task EXCEPT !.step = "status", !.outcome = status]
           /\ timer' = timer
  <2>1. task'.step = "status"
    BY <1>1, <1>3 DEF TaskRecords
  <2> QED  BY <1>1, <1>3, <2>1, ReportEffect DEF TaskTyped, LauncherSteps, ExtensionSteps
<1> QED  BY <1>1, <1>2, <1>3, ReportEffect

LEMMA ReturnTyped ==
    ASSUME TypeOK, NEW requeue \in BOOLEAN, Return(requeue)
    PROVE  task' \in TaskRecords /\ timer' \in BOOLEAN /\ TaskTyped'
BY IdleType DEF TypeOK, Return, TaskTyped, LauncherSteps, ExtensionSteps

LEMMA GotoTyped ==
    ASSUME TypeOK, NEW step \in Steps \ LauncherSteps, Goto(step)
    PROVE  task' \in TaskRecords /\ TaskTyped'
BY DEF TypeOK, Goto, TaskRecords, TaskTyped, LauncherSteps, ExtensionSteps

LEMMA DiscoveredTyped ==
    ASSUME TypeOK, TaskTyped, task.pod \in Pods, NEW q \in Profiles,
           q \in Served(task.pod), Discovered(q)
    PROVE  task' \in TaskRecords /\ timer' \in BOOLEAN /\ TaskTyped'
<1> DEFINE target == [pod |-> task.pod, profile |-> q,
                      endpoint |-> launcher[task.pod][q].endpoint]
<1>1. launcher[task.pod][q] \in Instances
  BY DEF TypeOK, Served
<1>2. target \in Targets
  BY <1>1 DEF Targets, Instances
<1>3. CASE Report(Running(target))
  BY <1>2, <1>3, StatusTypes, ReportTyped DEF TypeOK
<1>4. CASE /\ task' = [task EXCEPT !.step = "extensions", !.target = target]
           /\ UNCHANGED timer
  <2>1. task' \in TaskRecords /\ task'.target = target /\ task'.pod = task.pod
    BY <1>2, <1>4 DEF TypeOK, TaskRecords, Steps
  <2> QED  BY <1>2, <1>4, <2>1 DEF TypeOK, TaskTyped
<1> QED  BY <1>3, <1>4 DEF Discovered

LEMMA WorkerTypes ==
    ASSUME TypeOK, TaskTyped, Worker
    PROVE  TypeOK' /\ TaskTyped'
<1> USE DEF vars, store, children, runtime, queue
<1>1. task \in TaskRecords /\ api \in Browsers /\ cache \in Browsers
      /\ unseen \in Seq(Browsers) /\ timer \in BOOLEAN /\ queued \in BOOLEAN
      /\ task.browser \in Browsers /\ task.browser.spec \in Specs
      /\ task.browser.uid \in Nat
  BY DEF TypeOK, TaskRecords, Browsers
<1>2. ASSUME Reconcile PROVE TypeOK' /\ TaskTyped'
  <2>1. CASE Return(FALSE)
    BY <1>2, <2>1, ReturnTyped DEF Reconcile, TypeOK
  <2>2. CASE /\ task' = [Idle EXCEPT !.step = FirstStep(cache), !.browser = cache,
                                     !.fresh = CaughtUp]
             /\ UNCHANGED timer
    <3>1. FirstStep(cache) \in {"deletePVC", "addFinalizer", "pvc"}
      BY <1>1 DEF FirstStep, Browsers
    <3>2. task' \in TaskRecords
      BY <1>1, <2>2, <3>1, IdleType DEF TaskRecords, Steps, CaughtUp
    <3>3. task'.step = FirstStep(cache)
      BY <2>2, IdleType DEF TaskRecords
    <3> QED  BY <1>2, <2>2, <3>1, <3>2, <3>3
             DEF Reconcile, TypeOK, TaskTyped, LauncherSteps, ExtensionSteps
  <2> QED  BY <1>2, <2>1, <2>2 DEF Reconcile
<1>3. ASSUME AddFinalizer PROVE TypeOK' /\ TaskTyped'
  <2> DEFINE obj == [api EXCEPT !.finalizer = TRUE]
  <2>1. obj \in Browsers
    BY <1>1, BrowserTypes
  <2>2. api' \in Browsers /\ cache' \in Browsers /\ unseen' \in Seq(Browsers)
    BY <1>1, <1>3, <2>1, WriteEffect DEF AddFinalizer
  <2>3. task' \in TaskRecords /\ task'.step = "pvc"
    BY <1>1, <1>3, <2>1 DEF AddFinalizer, TaskRecords, Steps
  <2> QED  BY <1>3, <2>2, <2>3 DEF AddFinalizer, TypeOK, TaskTyped, LauncherSteps, ExtensionSteps
<1>4. ASSUME DeletePVC PROVE TypeOK' /\ TaskTyped'
  BY <1>4, GotoTyped DEF DeletePVC, TypeOK, Steps, LauncherSteps
<1>5. ASSUME RemoveFinalizer PROVE TypeOK' /\ TaskTyped'
  BY <1>1, <1>5, BrowserTypes, WriteEffect, ReturnTyped DEF RemoveFinalizer, TypeOK
<1>6. ASSUME EnsurePVC PROVE TypeOK' /\ TaskTyped'
  BY <1>6, GotoTyped DEF EnsurePVC, TypeOK, Steps, LauncherSteps
<1>7. ASSUME EnsureDeployment PROVE TypeOK' /\ TaskTyped'
  BY <1>1, <1>7, GotoTyped DEF EnsureDeployment, TypeOK, Steps, LauncherSteps
<1>8. ASSUME EnsureService PROVE TypeOK' /\ TaskTyped'
  <2>1. task' \in TaskRecords /\ timer' \in BOOLEAN /\ TaskTyped'
    BY <1>1, <1>8, GotoTyped, StatusTypes, ReportTyped DEF EnsureService, Steps, LauncherSteps
  <2> QED  BY <1>1, <1>8, <2>1 DEF EnsureService, TypeOK
<1>9. ASSUME EnsureFails PROVE TypeOK' /\ TaskTyped'
  BY <1>9, ReturnTyped DEF EnsureFails, TypeOK
<1>10. ASSUME FindReadyPod PROVE TypeOK' /\ TaskTyped'
  <2>1. CASE Report(Creating("pod"))
    BY <1>1, <1>10, <2>1, StatusTypes, ReportTyped DEF FindReadyPod, TypeOK
  <2>2. CASE \E p \in Pods, loaded \in BOOLEAN :
               /\ task' = [task EXCEPT !.step = "list", !.pod = p, !.cookies = loaded]
               /\ UNCHANGED timer
    <3>1. task' \in TaskRecords /\ task'.step = "list" /\ task'.pod \in Pods
      BY <1>1, <2>2 DEF TaskRecords, Steps
    <3> QED  BY <1>10, <2>2, <3>1 DEF FindReadyPod, TypeOK, TaskTyped, ExtensionSteps
  <2> QED  BY <1>10, <2>1, <2>2 DEF FindReadyPod
<1>11. ASSUME ListLauncherBrowsers PROVE TypeOK' /\ TaskTyped'
  <2>1. task.pod \in Pods
    BY <1>11 DEF ListLauncherBrowsers, At, TaskTyped, LauncherSteps
  <2>2. \A q \in Profiles : q \in Served(task.pod) /\ Discovered(q) =>
           task' \in TaskRecords /\ timer' \in BOOLEAN /\ TaskTyped'
    BY <2>1, DiscoveredTyped
  <2>3. ProfileUID(task.browser.spec) \in Profiles
    BY <1>1, ProfileUIDType
  <2>4. CASE Goto("create") /\ UNCHANGED timer
    <3>1. task' \in TaskRecords /\ task'.step = "create" /\ task'.pod = task.pod
      BY <1>1, <2>4 DEF Goto, TaskRecords, Steps
    <3> QED  BY <1>11, <2>1, <2>4, <3>1
             DEF ListLauncherBrowsers, TypeOK, TaskTyped, ExtensionSteps
  <2>5. CASE Report(Creating("launcher"))
    BY <1>1, <1>11, <2>5, StatusTypes, ReportTyped DEF ListLauncherBrowsers, TypeOK
  <2>6. CASE \E q \in Profiles : q \in Served(task.pod) /\ Discovered(q)
    BY <1>11, <2>2, <2>6 DEF ListLauncherBrowsers, TypeOK
  <2> QED  BY <1>11, <2>3, <2>4, <2>5, <2>6 DEF ListLauncherBrowsers, Served
<1>12. ASSUME CreateLauncherBrowser PROVE TypeOK' /\ TaskTyped'
  <2> DEFINE uid == ProfileUID(task.browser.spec)
  <2>1. task.pod \in Pods /\ uid \in Profiles
    BY <1>1, <1>12, ProfileUIDType DEF CreateLauncherBrowser, At, TaskTyped, LauncherSteps
  <2>2. PICK e \in Endpoints :
          /\ launcher' = [launcher EXCEPT ![task.pod][uid] =
                 [endpoint |-> e, extensions |-> task.browser.spec.extensions,
                  cookies |-> task.cookies]]
          /\ \/ Report(Running([pod |-> task.pod, profile |-> uid, endpoint |-> e]))
             \/ Report(Creating("launcher"))
    BY <1>12 DEF CreateLauncherBrowser
  <2>3. [endpoint |-> e, extensions |-> task.browser.spec.extensions,
         cookies |-> task.cookies] \in Instances
    BY <1>1 DEF Instances, Specs, TaskRecords
  <2>4. launcher' \in [Pods -> [Profiles -> Instances \cup {None}]]
    BY <2>1, <2>2, <2>3 DEF TypeOK
  <2>5. [pod |-> task.pod, profile |-> uid, endpoint |-> e] \in Targets
    BY <2>1 DEF Targets
  <2>6. task' \in TaskRecords /\ timer' \in BOOLEAN /\ TaskTyped'
    BY <1>1, <2>2, <2>5, StatusTypes, ReportTyped
  <2> QED  BY <1>12, <2>4, <2>6 DEF CreateLauncherBrowser, TypeOK
<1>13. ASSUME GetInstalledExtensions PROVE TypeOK' /\ TaskTyped'
  <2>1. task.pod \in Pods /\ task.target \in Targets
    BY <1>13 DEF GetInstalledExtensions, At, TaskTyped, LauncherSteps, ExtensionSteps
  <2>2. CASE Report(Running(task.target))
    BY <1>1, <1>13, <2>1, <2>2, StatusTypes, ReportTyped DEF GetInstalledExtensions, TypeOK
  <2>3. CASE \E missing \in SUBSET Extensions :
               /\ task' = [task EXCEPT !.step = "addExtensions", !.missing = missing]
               /\ UNCHANGED timer
    <3>1. /\ task' \in TaskRecords /\ task'.step = "addExtensions"
          /\ task'.pod = task.pod /\ task'.target = task.target
      BY <1>1, <2>3 DEF TaskRecords, Steps
    <3> QED  BY <1>13, <2>1, <2>3, <3>1 DEF GetInstalledExtensions, TypeOK, TaskTyped
  <2>4. task.browser.spec.extensions \ Synced.extensions \in SUBSET Extensions
    BY <1>1 DEF Specs
  <2> QED  BY <1>13, <2>2, <2>3, <2>4 DEF GetInstalledExtensions
<1>14. ASSUME InstalledExtensionsUnknown PROVE TypeOK' /\ TaskTyped'
  <2>1. task.target \in Targets
    BY <1>14 DEF InstalledExtensionsUnknown, At, TaskTyped, ExtensionSteps
  <2> QED  BY <1>1, <1>14, <2>1, StatusTypes, ReportTyped
           DEF InstalledExtensionsUnknown, TypeOK
<1>15. ASSUME AddExtensions PROVE TypeOK' /\ TaskTyped'
  <2>1. task.pod \in Pods /\ task.target \in Targets /\ task.target.profile \in Profiles
    BY <1>15 DEF AddExtensions, At, TaskTyped, LauncherSteps, ExtensionSteps, Targets
  <2>2. Synced \in Instances
    BY <1>15, <2>1 DEF AddExtensions, Synced, TypeOK
  <2>3. PICK e \in Endpoints :
          /\ launcher' = [launcher EXCEPT ![task.pod][task.target.profile] =
                 [Synced EXCEPT !.endpoint = e,
                                !.extensions = Synced.extensions \cup task.missing]]
          /\ \/ Report(Running([task.target EXCEPT !.endpoint = e]))
             \/ Report(Creating("launcher"))
    BY <1>15 DEF AddExtensions
  <2>4. [Synced EXCEPT !.endpoint = e,
                       !.extensions = Synced.extensions \cup task.missing] \in Instances
    BY <1>1, <2>2 DEF Instances, TaskRecords
  <2>5. launcher' \in [Pods -> [Profiles -> Instances \cup {None}]]
    BY <2>1, <2>3, <2>4 DEF TypeOK
  <2>6. [task.target EXCEPT !.endpoint = e] \in Targets
    BY <2>1 DEF Targets
  <2>7. task' \in TaskRecords /\ timer' \in BOOLEAN /\ TaskTyped'
    BY <1>1, <2>3, <2>6, StatusTypes, ReportTyped
  <2> QED  BY <1>15, <2>5, <2>7 DEF AddExtensions, TypeOK
<1>16. ASSUME LauncherCallFails PROVE TypeOK' /\ TaskTyped'
  BY <1>1, <1>16, StatusTypes, ReportTyped DEF LauncherCallFails, TypeOK
<1>17. ASSUME UpdateStatus PROVE TypeOK' /\ TaskTyped'
  <2>1. [api EXCEPT !.status = task.outcome] \in Browsers
    BY <1>1, BrowserTypes DEF TaskRecords
  <2> QED  BY <1>1, <1>17, <2>1, WriteEffect, ReturnTyped DEF UpdateStatus, TypeOK
<1>18. ASSUME UpdateRefused PROVE TypeOK' /\ TaskTyped'
  BY <1>18, ReturnTyped DEF UpdateRefused, TypeOK
<1> QED  BY <1>2, <1>3, <1>4, <1>5, <1>6, <1>7, <1>8, <1>9, <1>10, <1>11, <1>12,
            <1>13, <1>14, <1>15, <1>16, <1>17, <1>18 DEF Worker

LEMMA UserTypes ==
    ASSUME TypeOK, TaskTyped, User
    PROVE  TypeOK' /\ TaskTyped'
<1>1. api \in Browsers /\ api.uid \in Nat /\ api.finalizer \in BOOLEAN
  BY DEF TypeOK, Browsers
<1>2. ASSUME NEW obj \in Browsers, UserWrite(obj) PROVE TypeOK' /\ TaskTyped'
  <2>1. api' \in Browsers /\ cache' \in Browsers /\ unseen' \in Seq(Browsers)
    BY <1>2, WriteEffect DEF UserWrite, TypeOK
  <2>2. task' = [task EXCEPT !.fresh = FALSE] /\ task \in TaskRecords
    BY <1>2 DEF UserWrite, TypeOK
  <2>3. /\ task' \in TaskRecords /\ task'.step = task.step
        /\ task'.pod = task.pod /\ task'.target = task.target
    BY <2>2 DEF TaskRecords
  <2> QED  BY <1>2, <2>1, <2>3
           DEF UserWrite, TypeOK, TaskTyped, queue, children, runtime
<1>3. ASSUME CreateBrowser PROVE TypeOK' /\ TaskTyped'
  <2>1. PICK s \in SpecChoices : UserWrite(NewBrowser(api.uid + 1, s))
    BY <1>3 DEF CreateBrowser
  <2>2. NewBrowser(api.uid + 1, s) \in Browsers
    BY <1>1, NewBrowserType, ReconcilerAssumption
  <2> QED  BY <1>2, <2>1, <2>2
<1>4. ASSUME EditSpec PROVE TypeOK' /\ TaskTyped'
  <2>1. PICK s \in SpecChoices : UserWrite([api EXCEPT !.spec = s])
    BY <1>4 DEF EditSpec
  <2>2. [api EXCEPT !.spec = s] \in Browsers
    BY <1>1, BrowserTypes, ReconcilerAssumption
  <2> QED  BY <1>2, <2>1, <2>2
<1>5. ASSUME DeleteBrowser PROVE TypeOK' /\ TaskTyped'
  BY <1>1, <1>2, <1>5, BrowserTypes DEF DeleteBrowser
<1> QED  BY <1>3, <1>4, <1>5 DEF User

LEMMA OperatorTypes ==
    ASSUME TypeOK, TaskTyped, BrowserEvent \/ TimerFires \/ ChildEvent \/ OperatorRestart
    PROVE  TypeOK' /\ TaskTyped'
<1> USE DEF store, children, runtime
<1>1. ASSUME BrowserEvent PROVE TypeOK' /\ TaskTyped'
  <2>1. cache' \in Browsers /\ unseen' \in Seq(Browsers) /\ api' = api
    BY <1>1 DEF BrowserEvent, Deliver, TypeOK
  <2> QED  BY <1>1, <2>1 DEF BrowserEvent, TypeOK, TaskTyped
<1>2. ASSUME TimerFires \/ ChildEvent PROVE TypeOK' /\ TaskTyped'
  BY <1>2 DEF TimerFires, ChildEvent, TypeOK, TaskTyped
<1>3. ASSUME OperatorRestart PROVE TypeOK' /\ TaskTyped'
  <2>1. cache' \in Browsers /\ unseen' \in Seq(Browsers) /\ api' \in Browsers
    BY <1>3 DEF OperatorRestart, Relist, TypeOK
  <2>2. queued' \in BOOLEAN /\ timer' \in BOOLEAN /\ pvcSeen' \in BOOLEAN
    BY <1>3 DEF OperatorRestart, TypeOK, Browsers
  <2> QED  BY <1>3, <2>1, <2>2, IdleType
           DEF OperatorRestart, TypeOK, TaskTyped, LauncherSteps, ExtensionSteps
<1> QED  BY <1>1, <1>2, <1>3

LEMMA ClusterTypes ==
    ASSUME TypeOK, Cluster \/ Mishap
    PROVE  TypeOK'
<1> USE DEF store, children, runtime, queue, Outside
<1>1. ASSUME ClaimStep \/ GarbageStep PROVE TypeOK'
  BY <1>1 DEF ClaimStep, GarbageStep, ClaimRemoved, ClaimDelivered, CollectDeployment,
              CollectService, TypeOK
<1>2. Off \in [Profiles -> Instances \cup {None}]
  BY DEF Off
<1>3. ASSUME NEW p \in Pods, StopPod(p), UNCHANGED <<queue, task>> PROVE TypeOK'
  BY <1>2, <1>3 DEF StopPod, TypeOK
<1>4. ASSUME NEW p \in Pods, StartDefault(p), UNCHANGED <<queue, task>> PROVE TypeOK'
  <2>1. PICK e \in Endpoints :
          launcher' = [launcher EXCEPT ![p]["default"] =
                           [endpoint |-> e, extensions |-> {}, cookies |-> FALSE]]
    BY <1>4 DEF StartDefault
  <2>2. [endpoint |-> e, extensions |-> {}, cookies |-> FALSE] \in Instances
    BY DEF Instances
  <2>3. launcher' \in [Pods -> [Profiles -> Instances \cup {None}]]
    BY <2>1, <2>2 DEF TypeOK
  <2> QED  BY <1>4, <2>3 DEF StartDefault, TypeOK
<1>5. ASSUME NEW p \in Pods, KubeletStep(p) PROVE TypeOK'
  BY <1>2, <1>3, <1>4, <1>5 DEF KubeletStep, StartPod, PodBecomesReady, ScaleDown, PodGone, TypeOK
<1>6. ASSUME NEW p \in Pods, NEW q \in Profiles, ChromeRestarts(p, q),
             UNCHANGED <<queue, task>>
      PROVE  TypeOK'
  <2>1. PICK e \in Endpoints : launcher' = [launcher EXCEPT ![p][q].endpoint = e]
    BY <1>6 DEF ChromeRestarts
  <2>2. launcher[p][q] \in Instances
    BY <1>6 DEF ChromeRestarts, TypeOK
  <2>3. launcher' \in [Pods -> [Profiles -> Instances \cup {None}]]
    BY <2>1, <2>2 DEF TypeOK, Instances
  <2> QED  BY <1>6, <2>3 DEF ChromeRestarts, TypeOK
<1>7. ASSUME Mishap PROVE TypeOK'
  BY <1>3, <1>6, <1>7 DEF Mishap, Evict, PodBecomesUnready, TypeOK
<1> QED  BY <1>1, <1>5, <1>7 DEF Cluster

LEMMA TypesPreserved ==
    ASSUME TypeOK, TaskTyped, [Next]_vars
    PROVE  TypeOK' /\ TaskTyped'
<1>1. CASE Worker
  BY <1>1, WorkerTypes
<1>2. CASE User
  BY <1>2, UserTypes
<1>3. CASE BrowserEvent \/ TimerFires \/ ChildEvent \/ OperatorRestart
  BY <1>3, OperatorTypes
<1>4. CASE Cluster \/ Mishap
  <2>1. UNCHANGED task
    BY <1>4 DEF Cluster, Mishap, ClaimStep, GarbageStep, KubeletStep, Outside
  <2> QED  BY <1>4, <2>1, ClusterTypes DEF TaskTyped
<1>5. CASE UNCHANGED vars
  BY <1>5 DEF vars, store, children, runtime, queue, TypeOK, TaskTyped
<1> QED  BY <1>1, <1>2, <1>3, <1>4, <1>5 DEF Next, Calm, Disruption

LEMMA InitTypes == Init => TypeOK /\ TaskTyped
<1> SUFFICES ASSUME Init PROVE TypeOK /\ TaskTyped
  OBVIOUS
<1>1. Idle.browser \in Browsers
  BY IdleType DEF TaskRecords
<1>2. Off \in [Profiles -> Instances \cup {None}]
  BY DEF Off
<1>3. TaskTyped
  BY IdleType DEF Init, TaskTyped, LauncherSteps, ExtensionSteps
<1>4. api \in Browsers /\ cache \in Browsers /\ unseen \in Seq(Browsers)
  BY <1>1 DEF Init
<1>5. launcher \in [Pods -> [Profiles -> Instances \cup {None}]]
  BY <1>2 DEF Init
<1>6. task \in TaskRecords
  BY IdleType DEF Init
<1> QED  BY <1>3, <1>4, <1>5, <1>6 DEF Init, TypeOK

\* Every variable keeps its type, and a worker at a step that talks to the
\* launcher has a pod and, when it syncs extensions, a target to talk about.
THEOREM TypeCorrect == Spec => []TypeOK
<1>1. TypeOK /\ TaskTyped /\ [Next]_vars => (TypeOK /\ TaskTyped)'
  BY TypesPreserved
<1> QED  BY InitTypes, <1>1, PTL DEF Spec

------------------------------------------------------------------------------
(* The API server and the cache. *)

LEMMA WriteStore ==
    ASSUME TypeOK, CacheFollows, NEW obj, Write(obj)
    PROVE  /\ Versions' \subseteq Versions \cup {obj}
           /\ api' = obj /\ CacheFollows' /\ ~CaughtUp'
BY VersionWritten DEF TypeOK

LEMMA DeliverStore ==
    ASSUME TypeOK, CacheFollows, Deliver
    PROVE  Versions' \subseteq Versions /\ api' = api /\ CacheFollows'
BY VersionDelivered DEF TypeOK

------------------------------------------------------------------------------
(* The invariant, one group of actions at a time.                          *)

Safe ==
    /\ DeletedHasFinalizer
    /\ CacheFollows
    /\ FreshIsCurrent
    /\ CopyFitsStep
    /\ GuardedIsAlive
    /\ NoLostWakeup

\* The copies a reconcile and the next one may work on.
LEMMA GuardedVersions ==
    GuardedIsAlive <=>
        /\ \A v \in Versions : Guarded(v) => OwnerLives(v.uid) /\ api.finalizer
        /\ ~At("idle") /\ Guarded(task.browser) =>
               OwnerLives(task.browser.uid) /\ api.finalizer
BY DEF GuardedIsAlive

\* A step of the worker that does not write the Browser: it returns with a
\* delayed requeue or goes on with the same copy to a step of the same kind.
LEMMA QuietWorkerSafe ==
    ASSUME Safe, UNCHANGED store, UNCHANGED queued,
           \/ task' = Idle /\ timer'
           \/ /\ task'.browser = task.browser /\ task'.fresh = task.fresh
              /\ task.step \notin {"idle", "addFinalizer"}
              /\ task'.step \notin {"idle", "addFinalizer"}
              /\ (task'.step \in DeletionSteps) = (task.step \in DeletionSteps)
    PROVE  Safe'
<1> USE DEF store, At
<1>1. /\ Versions' = Versions /\ CaughtUp' = CaughtUp
      /\ \A u : OwnerLives(u)' = OwnerLives(u)
      /\ DeletedHasFinalizer' /\ CacheFollows'
  BY DEF Safe, DeletedHasFinalizer, CacheFollows, Versions, CaughtUp, OwnerLives
<1>2. CASE task' = Idle /\ timer'
  BY <1>1, <1>2, IdleType, GuardedVersions
     DEF Safe, FreshIsCurrent, CopyFitsStep, GuardedIsAlive, NoLostWakeup, Guarded
<1>3. CASE /\ task'.browser = task.browser /\ task'.fresh = task.fresh
           /\ task.step \notin {"idle", "addFinalizer"}
           /\ task'.step \notin {"idle", "addFinalizer"}
           /\ (task'.step \in DeletionSteps) = (task.step \in DeletionSteps)
  <2>1. FreshIsCurrent' /\ NoLostWakeup'
    BY <1>1, <1>3 DEF Safe, FreshIsCurrent, NoLostWakeup
  <2>2. CopyFitsStep'
    BY <1>1, <1>3 DEF Safe, CopyFitsStep
  <2>3. GuardedIsAlive'
    BY <1>1, <1>3, GuardedVersions DEF Safe, GuardedIsAlive, Guarded
  <2> QED  BY <1>1, <2>1, <2>2, <2>3 DEF Safe
<1> QED  BY <1>2, <1>3

\* What a Report does to the copy, wherever it is called.
LEMMA ReportSafe ==
    ASSUME TypeOK, Safe, UNCHANGED store, UNCHANGED queued,
           task.step \notin {"idle", "addFinalizer"} \cup DeletionSteps,
           NEW status \in Statuses, Report(status)
    PROVE  Safe'
<1>1. task \in TaskRecords /\ timer \in BOOLEAN
  BY DEF TypeOK
<1>2. task' = [task EXCEPT !.step = "status", !.outcome = status] =>
        task'.browser = task.browser /\ task'.fresh = task.fresh /\ task'.step = "status"
  BY <1>1 DEF TaskRecords
<1>3. CASE task' = Idle /\ timer'
  BY <1>3, QuietWorkerSafe
<1>4. CASE task' = [task EXCEPT !.step = "status", !.outcome = status]
  BY <1>2, <1>4, QuietWorkerSafe DEF DeletionSteps
<1> QED  BY <1>1, <1>3, <1>4, ReportEffect

LEMMA GotoSafe ==
    ASSUME TypeOK, Safe, UNCHANGED store, UNCHANGED queued,
           NEW step, Goto(step),
           task.step \notin {"idle", "addFinalizer"}, step \notin {"idle", "addFinalizer"},
           (step \in DeletionSteps) = (task.step \in DeletionSteps)
    PROVE  Safe'
<1>1. task'.browser = task.browser /\ task'.fresh = task.fresh /\ task'.step = step
  BY DEF Goto, TypeOK, TaskRecords
<1> QED  BY <1>1, QuietWorkerSafe

LEMMA ReturnSafe ==
    ASSUME Safe, UNCHANGED store, UNCHANGED queued, Return(TRUE)
    PROVE  Safe'
BY QuietWorkerSafe DEF Return

\* Worker steps that leave the Browser object alone.
LEMMA CallsSafe ==
    ASSUME TypeOK, TaskTyped, Safe, Worker,
           ~Reconcile, ~AddFinalizer, ~RemoveFinalizer, ~UpdateStatus
    PROVE  Safe'
<1> USE DEF At, DeletionSteps
<1>1. task \in TaskRecords /\ task.browser \in Browsers
  BY DEF TypeOK, TaskRecords
<1>2. ASSUME NEW p \in Pods, NEW q \in Profiles, NEW e \in Endpoints
      PROVE  Running([pod |-> p, profile |-> q, endpoint |-> e]) \in Statuses
  BY <1>1, StatusTypes DEF Targets
<1>3. CASE DeletePVC
  BY <1>3, GotoSafe DEF DeletePVC, queue
<1>4. CASE EnsurePVC \/ EnsureDeployment
  BY <1>4, GotoSafe DEF EnsurePVC, EnsureDeployment, queue
<1>5. CASE EnsureService
  BY <1>1, <1>5, GotoSafe, ReportSafe, StatusTypes DEF EnsureService
<1>6. CASE EnsureFails \/ UpdateRefused
  BY <1>6, ReturnSafe DEF EnsureFails, UpdateRefused
<1>7. CASE FindReadyPod
  <2>1. CASE Report(Creating("pod"))
    BY <1>1, <1>7, <2>1, ReportSafe, StatusTypes DEF FindReadyPod
  <2>2. CASE \E p \in Pods, loaded \in BOOLEAN :
               task' = [task EXCEPT !.step = "list", !.pod = p, !.cookies = loaded]
    <3>1. task'.browser = task.browser /\ task'.fresh = task.fresh /\ task'.step = "list"
      BY <1>1, <2>2 DEF TaskRecords
    <3>2. task.step = "pods" /\ UNCHANGED store /\ UNCHANGED queued
      BY <1>7 DEF FindReadyPod
    <3> QED  BY <3>1, <3>2, QuietWorkerSafe
  <2> QED  BY <1>7, <2>1, <2>2 DEF FindReadyPod
<1>8. CASE ListLauncherBrowsers
  <2>1. task.pod \in Pods
    BY <1>8 DEF ListLauncherBrowsers, TaskTyped, LauncherSteps
  <2>2. ASSUME NEW q \in Profiles, q \in Served(task.pod), Discovered(q) PROVE Safe'
    <3> DEFINE target == [pod |-> task.pod, profile |-> q,
                          endpoint |-> launcher[task.pod][q].endpoint]
    <3>1. launcher[task.pod][q] \in Instances
      BY <2>1, <2>2 DEF TypeOK, Served
    <3>2. Running(target) \in Statuses
      BY <1>2, <2>1, <3>1 DEF Instances
    <3>3. CASE Report(Running(target))
      BY <1>8, <3>2, <3>3, ReportSafe DEF ListLauncherBrowsers
    <3>4. CASE task' = [task EXCEPT !.step = "extensions", !.target = target]
      <4>1. task'.browser = task.browser /\ task'.fresh = task.fresh
            /\ task'.step = "extensions"
        BY <1>1, <3>4 DEF TaskRecords
      <4> QED  BY <1>8, <4>1, QuietWorkerSafe DEF ListLauncherBrowsers
    <3> QED  BY <2>2, <3>3, <3>4 DEF Discovered
  <2>3. CASE Report(Creating("launcher"))
    BY <1>1, <1>8, <2>3, ReportSafe, StatusTypes DEF ListLauncherBrowsers
  <2>4. CASE Goto("create")
    BY <1>8, <2>4, GotoSafe DEF ListLauncherBrowsers
  <2> QED  BY <1>1, <1>8, <2>2, <2>3, <2>4, ProfileUIDType
           DEF ListLauncherBrowsers, Browsers, Served
<1>9. CASE CreateLauncherBrowser
  <2>1. task.pod \in Pods /\ ProfileUID(task.browser.spec) \in Profiles
    BY <1>1, <1>9, ProfileUIDType DEF CreateLauncherBrowser, TaskTyped, LauncherSteps, Browsers
  <2> QED  BY <1>1, <1>2, <1>9, <2>1, ReportSafe, StatusTypes DEF CreateLauncherBrowser
<1>10. CASE GetInstalledExtensions
  <2>1. task.target \in Targets
    BY <1>10 DEF GetInstalledExtensions, TaskTyped, ExtensionSteps
  <2>2. CASE \E m : task' = [task EXCEPT !.step = "addExtensions", !.missing = m]
    <3>1. task'.browser = task.browser /\ task'.fresh = task.fresh
          /\ task'.step = "addExtensions"
      BY <1>1, <2>2 DEF TaskRecords
    <3> QED  BY <1>10, <3>1, QuietWorkerSafe DEF GetInstalledExtensions
  <2> QED  BY <1>1, <1>10, <2>1, <2>2, ReportSafe, StatusTypes DEF GetInstalledExtensions
<1>11. CASE InstalledExtensionsUnknown
  <2>1. task.target \in Targets
    BY <1>11 DEF InstalledExtensionsUnknown, TaskTyped, ExtensionSteps
  <2> QED  BY <1>1, <1>11, <2>1, ReportSafe, StatusTypes DEF InstalledExtensionsUnknown
<1>12. CASE AddExtensions
  <2>1. task.target \in Targets
    BY <1>12 DEF AddExtensions, TaskTyped, ExtensionSteps
  <2>2. \A e \in Endpoints : [task.target EXCEPT !.endpoint = e] \in Targets
    BY <2>1 DEF Targets
  <2> QED  BY <1>1, <1>12, <2>2, ReportSafe, StatusTypes DEF AddExtensions
<1>13. CASE LauncherCallFails
  BY <1>1, <1>13, ReportSafe, StatusTypes DEF LauncherCallFails
<1> QED  BY <1>3, <1>4, <1>5, <1>6, <1>7, <1>8, <1>9, <1>10, <1>11, <1>12, <1>13 DEF Worker

\* The fetch: a copy taken from a cache that is up to date is the current version.
LEMMA ReconcileSafe ==
    ASSUME TypeOK, Safe, Reconcile
    PROVE  Safe'
<1> USE DEF At, store
<1>1. /\ Versions' = Versions /\ CaughtUp' = CaughtUp
      /\ \A u : OwnerLives(u)' = OwnerLives(u)
      /\ DeletedHasFinalizer' /\ CacheFollows' /\ api' = api /\ cache' = cache
  BY DEF Reconcile, Safe, DeletedHasFinalizer, CacheFollows, Versions, CaughtUp, OwnerLives
<1>2. cache \in Versions /\ cache \in Browsers
  BY DEF Versions, TypeOK
<1>3. CASE /\ ~cache.exists \/ (cache.deleting /\ ~cache.finalizer)
           /\ Return(FALSE)
  <2>1. task' = Idle /\ timer' = timer
    BY <1>3 DEF Return, TypeOK
  <2>2. ~cache.exists
    BY <1>2, <1>3 DEF Safe, DeletedHasFinalizer
  <2> QED  BY <1>1, <2>1, <2>2, IdleType, GuardedVersions
           DEF Safe, FreshIsCurrent, CopyFitsStep, GuardedIsAlive, NoLostWakeup, Guarded
<1>4. CASE /\ cache.exists /\ (cache.deleting => cache.finalizer)
           /\ task' = [Idle EXCEPT !.step = FirstStep(cache), !.browser = cache,
                                   !.fresh = CaughtUp]
  <2>1. task'.step = FirstStep(cache) /\ task'.browser = cache /\ task'.fresh = CaughtUp
    BY <1>4, IdleType DEF TaskRecords
  <2>2. /\ FirstStep(cache) \in {"deletePVC", "addFinalizer", "pvc"}
        /\ FirstStep(cache) = "deletePVC" <=> cache.deleting
        /\ FirstStep(cache) = "pvc" => cache.finalizer
    BY <1>2 DEF FirstStep, Browsers
  <2>3. FreshIsCurrent'
    BY <1>1, <2>1 DEF Safe, CacheFollows, FreshIsCurrent
  <2>4. CopyFitsStep'
    <3>1. CASE cache.deleting
      BY <1>1, <1>2, <1>4, <2>1, <2>2, <3>1 DEF CopyFitsStep, DeletionSteps, Browsers
    <3>2. CASE ~cache.deleting
      BY <1>2, <1>4, <2>1, <2>2, <3>2 DEF CopyFitsStep, DeletionSteps, Browsers
    <3> QED  BY <3>1, <3>2
  <2>5. GuardedIsAlive'
    BY <1>1, <1>2, <2>1 DEF Safe, GuardedIsAlive, Guarded
  <2>6. NoLostWakeup'
    BY <2>1, <2>2 DEF NoLostWakeup
  <2> QED  BY <1>1, <2>3, <2>4, <2>5, <2>6 DEF Safe
<1> QED  BY <1>3, <1>4 DEF Reconcile

\* The three writes of the worker go through only for the current version.
LEMMA WritesSafe ==
    ASSUME TypeOK, Safe, AddFinalizer \/ RemoveFinalizer \/ UpdateStatus
    PROVE  Safe'
<1> USE DEF At
<1>1. /\ task \in TaskRecords /\ api \in Browsers
      /\ task.fresh /\ task.browser = api /\ api.exists
  BY DEF Safe, FreshIsCurrent, CopyFitsStep, AddFinalizer, RemoveFinalizer, UpdateStatus, TypeOK
<1>2. CASE AddFinalizer
  <2> DEFINE obj == [api EXCEPT !.finalizer = TRUE]
  <2>1. /\ Versions' \subseteq Versions \cup {obj}
        /\ api' = obj /\ CacheFollows' /\ ~CaughtUp'
    BY <1>2, WriteStore DEF AddFinalizer, Safe
  <2>2. /\ obj.exists /\ obj.finalizer /\ obj.deleting = api.deleting /\ obj.uid = api.uid
    BY <1>1 DEF Browsers
  <2>3. task'.step = "pvc" /\ task'.browser = obj /\ task'.fresh
    BY <1>1, <1>2 DEF AddFinalizer, TaskRecords
  <2>4. ~api.deleting
    BY <1>1, <1>2 DEF AddFinalizer, Safe, CopyFitsStep, DeletionSteps
  <2>5. DeletedHasFinalizer'
    BY <2>1, <2>2 DEF Safe, DeletedHasFinalizer
  <2>6. FreshIsCurrent' /\ CopyFitsStep' /\ NoLostWakeup'
    <3>1. ~obj.deleting /\ obj.deleting \in BOOLEAN
      BY <1>1, <2>2, <2>4 DEF Browsers
    <3>2. CopyFitsStep'
      BY <2>2, <2>3, <3>1 DEF CopyFitsStep, DeletionSteps
    <3> QED  BY <2>1, <2>3, <3>2 DEF FreshIsCurrent, NoLostWakeup
  <2>7. GuardedIsAlive'
    BY <1>1, <2>1, <2>2, <2>3 DEF Safe, GuardedIsAlive, Guarded, OwnerLives
  <2> QED  BY <2>1, <2>5, <2>6, <2>7 DEF Safe
<1>3. CASE RemoveFinalizer
  <2>1. /\ Versions' \subseteq Versions \cup {Gone(api)}
        /\ api' = Gone(api) /\ CacheFollows' /\ ~CaughtUp'
    BY <1>3, WriteStore DEF RemoveFinalizer, Safe
  <2>2. ~Gone(api).exists
    BY <1>1 DEF Gone, Browsers
  <2>3. Versions = {api} /\ api.deleting
    <3>1. CaughtUp /\ cache = api
      BY <1>1, <1>3 DEF RemoveFinalizer, Safe, CopyFitsStep, CacheFollows, DeletionSteps
    <3>2. task.browser.deleting
      BY <1>3 DEF RemoveFinalizer, Safe, CopyFitsStep, DeletionSteps
    <3>3. 1 .. Len(unseen) = {}
      BY <3>1 DEF CaughtUp
    <3> QED  BY <1>1, <3>1, <3>2, <3>3 DEF Versions
  <2>4. task' = Idle
    BY <1>3 DEF RemoveFinalizer, Return
  <2>5. DeletedHasFinalizer'
    BY <2>1, <2>2 DEF Safe, DeletedHasFinalizer
  <2>6. GuardedIsAlive'
    BY <2>1, <2>2, <2>3, <2>4, IdleType DEF GuardedIsAlive, Guarded
  <2>7. FreshIsCurrent' /\ CopyFitsStep' /\ NoLostWakeup'
    BY <2>1, <2>4, IdleType DEF FreshIsCurrent, CopyFitsStep, NoLostWakeup
  <2> QED  BY <2>1, <2>5, <2>6, <2>7 DEF Safe
<1>4. CASE UpdateStatus
  <2> DEFINE obj == [api EXCEPT !.status = task.outcome]
  <2>1. /\ Versions' \subseteq Versions \cup {obj}
        /\ api' = obj /\ CacheFollows' /\ ~CaughtUp'
    BY <1>4, WriteStore DEF UpdateStatus, Safe
  <2>2. /\ obj.exists = api.exists /\ obj.finalizer = api.finalizer
        /\ obj.deleting = api.deleting /\ obj.uid = api.uid
    BY <1>1 DEF Browsers
  <2>3. task' = Idle
    BY <1>4 DEF UpdateStatus, Return
  <2>4. api \in Versions
    BY DEF Versions
  <2>5. DeletedHasFinalizer'
    BY <2>1, <2>2, <2>4 DEF Safe, DeletedHasFinalizer
  <2>6. GuardedIsAlive'
    BY <1>1, <2>1, <2>2, <2>3, <2>4, IdleType DEF Safe, GuardedIsAlive, Guarded, OwnerLives
  <2>7. FreshIsCurrent' /\ CopyFitsStep' /\ NoLostWakeup'
    BY <2>1, <2>3, IdleType DEF FreshIsCurrent, CopyFitsStep, NoLostWakeup
  <2> QED  BY <2>1, <2>5, <2>6, <2>7 DEF Safe
<1> QED  BY <1>2, <1>3, <1>4

LEMMA UserSafe ==
    ASSUME TypeOK, Safe, User
    PROVE  Safe'
<1> USE DEF At
<1>1. api \in Browsers /\ task \in TaskRecords /\ api \in Versions
  BY DEF TypeOK, Versions
<1>2. ASSUME NEW obj \in Browsers, UserWrite(obj),
             obj.exists /\ obj.deleting => obj.finalizer,
             Guarded(obj) => Guarded(api) /\ obj.uid = api.uid,
             Guarded(api) => obj.exists /\ obj.uid = api.uid /\ obj.finalizer,
             OwnerLives(api.uid) /\ api.finalizer =>
                 obj.exists /\ obj.uid = api.uid /\ obj.finalizer
      PROVE  Safe'
  <2>1. /\ Versions' \subseteq Versions \cup {obj}
        /\ api' = obj /\ CacheFollows' /\ ~CaughtUp'
    BY <1>2, WriteStore DEF UserWrite, Safe
  <2>2. task'.step = task.step /\ task'.browser = task.browser /\ ~task'.fresh
    BY <1>1, <1>2 DEF UserWrite, TaskRecords
  <2>3. \A u : OwnerLives(u) /\ api.finalizer => OwnerLives(u)' /\ api'.finalizer
    BY <1>2, <2>1 DEF OwnerLives
  <2>4. DeletedHasFinalizer'
    BY <1>2, <2>1 DEF Safe, DeletedHasFinalizer
  <2>5. GuardedIsAlive'
    BY <1>1, <1>2, <2>1, <2>2, <2>3 DEF Safe, GuardedIsAlive, Guarded
  <2>6. FreshIsCurrent' /\ CopyFitsStep' /\ NoLostWakeup'
    BY <2>1, <2>2 DEF Safe, FreshIsCurrent, CopyFitsStep, NoLostWakeup
  <2> QED  BY <2>1, <2>4, <2>5, <2>6 DEF Safe
<1>3. CASE CreateBrowser
  <2>1. PICK s \in SpecChoices : UserWrite(NewBrowser(api.uid + 1, s))
    BY <1>3 DEF CreateBrowser
  <2> DEFINE obj == NewBrowser(api.uid + 1, s)
  <2>2. obj \in Browsers
    BY <1>1, NewBrowserType, ReconcilerAssumption DEF Browsers
  <2>3. ~obj.deleting /\ ~obj.finalizer
    BY DEF NewBrowser
  <2>4. ~api.exists
    BY <1>3 DEF CreateBrowser
  <2> QED  BY <1>2, <2>1, <2>2, <2>3, <2>4 DEF Guarded, OwnerLives
<1>4. CASE EditSpec
  <2>1. PICK s \in SpecChoices : UserWrite([api EXCEPT !.spec = s])
    BY <1>4 DEF EditSpec
  <2> DEFINE obj == [api EXCEPT !.spec = s]
  <2>2. obj \in Browsers
    BY <1>1, BrowserTypes, ReconcilerAssumption
  <2>3. /\ obj.exists = api.exists /\ obj.finalizer = api.finalizer
        /\ obj.deleting = api.deleting /\ obj.uid = api.uid
    BY <1>1 DEF Browsers
  <2>4. api.exists /\ api.deleting => api.finalizer
    BY <1>1 DEF Safe, DeletedHasFinalizer
  <2> QED  BY <1>2, <2>1, <2>2, <2>3, <2>4 DEF Guarded, OwnerLives
<1>5. CASE DeleteBrowser
  <2>1. CASE api.finalizer
    <3> DEFINE obj == [api EXCEPT !.deleting = TRUE]
    <3>1. obj \in Browsers /\ UserWrite(obj)
      BY <1>1, <1>5, <2>1, BrowserTypes DEF DeleteBrowser
    <3>2. /\ obj.exists = api.exists /\ obj.finalizer = api.finalizer
          /\ obj.deleting /\ obj.uid = api.uid
      BY <1>1 DEF Browsers
    <3> QED  BY <1>2, <2>1, <3>1, <3>2 DEF Guarded, OwnerLives
  <2>2. CASE ~api.finalizer
    <3>1. Gone(api) \in Browsers /\ UserWrite(Gone(api))
      BY <1>1, <1>5, <2>2, BrowserTypes DEF DeleteBrowser
    <3>2. ~Gone(api).exists
      BY <1>1 DEF Gone, Browsers
    <3> QED  BY <1>2, <2>2, <3>1, <3>2 DEF Guarded
  <2> QED  BY <2>1, <2>2
<1> QED  BY <1>3, <1>4, <1>5 DEF User

LEMMA OperatorSafe ==
    ASSUME TypeOK, Safe, BrowserEvent \/ TimerFires \/ ChildEvent \/ OperatorRestart
    PROVE  Safe'
<1> USE DEF At
<1>1. CASE BrowserEvent
  <2>1. Versions' \subseteq Versions /\ api' = api /\ CacheFollows' /\ ~CaughtUp
    BY <1>1, DeliverStore DEF BrowserEvent, Safe, Deliver, CaughtUp
  <2>2. task' = task /\ queued'
    BY <1>1 DEF BrowserEvent
  <2>3. DeletedHasFinalizer' /\ FreshIsCurrent' /\ NoLostWakeup'
    BY <2>1, <2>2 DEF Safe, DeletedHasFinalizer, FreshIsCurrent, NoLostWakeup
  <2>4. CopyFitsStep'
    BY <2>1, <2>2 DEF Safe, CopyFitsStep
  <2>5. GuardedIsAlive'
    BY <2>1, <2>2 DEF Safe, GuardedIsAlive, Guarded, OwnerLives
  <2> QED  BY <2>1, <2>3, <2>4, <2>5 DEF Safe
<1>2. CASE TimerFires \/ ChildEvent
  <2>1. UNCHANGED <<store, task>> /\ queued'
    BY <1>2 DEF TimerFires, ChildEvent
  <2> QED  BY <2>1 DEF Safe, store, DeletedHasFinalizer, CacheFollows, Versions, CaughtUp,
                       FreshIsCurrent, CopyFitsStep, GuardedIsAlive, Guarded, OwnerLives,
                       NoLostWakeup
<1>3. CASE OperatorRestart
  <2>1. Versions' \subseteq Versions /\ api' = api /\ cache' = api /\ CacheFollows'
    BY <1>3, VersionsListed DEF OperatorRestart, Relist
  <2>2. task' = Idle /\ queued' = api.exists
    BY <1>3 DEF OperatorRestart
  <2>3. DeletedHasFinalizer' /\ FreshIsCurrent' /\ CopyFitsStep' /\ NoLostWakeup'
    BY <2>1, <2>2, IdleType
       DEF Safe, DeletedHasFinalizer, FreshIsCurrent, CopyFitsStep, NoLostWakeup
  <2>4. GuardedIsAlive'
    BY <2>1, <2>2, IdleType DEF Safe, GuardedIsAlive, Guarded, OwnerLives
  <2> QED  BY <2>1, <2>3, <2>4 DEF Safe
<1> QED  BY <1>1, <1>2, <1>3

LEMMA SafePreserved ==
    ASSUME TypeOK, TaskTyped, Safe, [Next]_vars
    PROVE  Safe'
<1>1. CASE Worker
  BY <1>1, CallsSafe, ReconcileSafe, WritesSafe
<1>2. CASE User \/ BrowserEvent \/ TimerFires \/ ChildEvent \/ OperatorRestart
  BY <1>2, UserSafe, OperatorSafe
<1>3. CASE Cluster \/ Mishap \/ UNCHANGED vars
  <2>1. UNCHANGED <<store, queue, task>>
    BY <1>3 DEF Cluster, Mishap, ClaimStep, GarbageStep, KubeletStep, Outside, vars,
                ClaimRemoved, ClaimDelivered, CollectDeployment, CollectService,
                StartPod, StartDefault, PodBecomesReady, ScaleDown, PodGone,
                Evict, StopPod, PodBecomesUnready, ChromeRestarts
  <2> QED  BY <2>1 DEF Safe, store, queue, At, DeletedHasFinalizer, CacheFollows, Versions,
                       CaughtUp, FreshIsCurrent, CopyFitsStep, GuardedIsAlive, Guarded,
                       OwnerLives, NoLostWakeup
<1> QED  BY <1>1, <1>2, <1>3 DEF Next, Calm, Disruption

------------------------------------------------------------------------------
(* The status on its way to the API server. *)

LEMMA ReportFits ==
    ASSUME TypeOK, NEW status \in Statuses, Report(status), status \in Reportable
    PROVE  OutcomeFitsCopy'
<1>1. task \in TaskRecords /\ timer \in BOOLEAN
  BY DEF TypeOK
<1>2. CASE task' = Idle
  BY <1>2, IdleType DEF OutcomeFitsCopy, LauncherSteps, ExtensionSteps, At
<1>3. CASE task' = [task EXCEPT !.step = "status", !.outcome = status]
  <2>1. task'.step = "status" /\ task'.browser = task.browser /\ task'.outcome = status
    BY <1>1, <1>3 DEF TaskRecords
  <2>2. Reportable' = Reportable
    BY <2>1 DEF Reportable, Creating, Running, Stopped
  <2> QED  BY <2>1, <2>2 DEF OutcomeFitsCopy, LauncherSteps, ExtensionSteps, At
<1> QED  BY <1>1, <1>2, <1>3, ReportEffect

LEMMA CreatingFits ==
    ASSUME TypeOK, task.browser.spec.running, NEW m \in {"pod", "launcher"},
           Report(Creating(m))
    PROVE  OutcomeFitsCopy'
<1>1. Creating(m) \in Statuses /\ Creating(m) \in Reportable
  BY StatusTypes DEF TypeOK, Reportable
<1> QED  BY <1>1, ReportFits

LEMMA RunningFits ==
    ASSUME TypeOK, task.browser.spec.running, NEW t \in Targets,
           ProfileUID(task.browser.spec) \in {t.profile, "default"}, Report(Running(t))
    PROVE  OutcomeFitsCopy'
<1>1. Running(t) \in Statuses /\ Running(t) \in Reportable
  BY StatusTypes DEF TypeOK, Reportable
<1> QED  BY <1>1, ReportFits

\* A step before the readiness scan, or an idle worker, promises nothing yet.
LEMMA EarlyFits ==
    ASSUME task'.step \notin LauncherSteps \cup {"pods", "status"}
    PROVE  OutcomeFitsCopy'
BY DEF OutcomeFitsCopy, LauncherSteps, ExtensionSteps, At

LEMMA WorkerFits ==
    ASSUME TypeOK, TaskTyped, OutcomeFitsCopy, Worker
    PROVE  OutcomeFitsCopy'
<1> USE DEF At
<1>1. task \in TaskRecords /\ task.browser \in Browsers /\ task.browser.spec \in Specs
      /\ timer \in BOOLEAN /\ cache \in Browsers
  BY DEF TypeOK, TaskRecords, Browsers
<1>2. task.step \in LauncherSteps \cup {"pods"} => task.browser.spec.running
  BY DEF OutcomeFitsCopy
<1>3. ASSUME task' = Idle PROVE OutcomeFitsCopy'
  BY <1>3, IdleType, EarlyFits DEF LauncherSteps
<1>4. ASSUME NEW step, Goto(step) PROVE task'.step = step /\ task'.browser = task.browser
  BY <1>1, <1>4 DEF Goto, TaskRecords
<1>5. CASE Reconcile
  <2>1. FirstStep(cache) \in {"deletePVC", "addFinalizer", "pvc"}
    BY <1>1 DEF FirstStep, Browsers
  <2>2. CASE task' = [Idle EXCEPT !.step = FirstStep(cache), !.browser = cache,
                                  !.fresh = CaughtUp]
    <3>1. task'.step = FirstStep(cache)
      BY <2>2, IdleType DEF TaskRecords
    <3> QED  BY <2>1, <3>1, EarlyFits DEF LauncherSteps
  <2> QED  BY <1>3, <1>5, <2>2 DEF Reconcile, Return
<1>6. CASE AddFinalizer
  <2>1. task'.step = "pvc"
    BY <1>1, <1>6 DEF AddFinalizer, TaskRecords
  <2> QED  BY <2>1, EarlyFits DEF LauncherSteps
<1>7. CASE DeletePVC \/ EnsurePVC \/ EnsureDeployment
  <2>1. task'.step \in {"removeFinalizer", "deployment", "service"}
    BY <1>4, <1>7 DEF DeletePVC, EnsurePVC, EnsureDeployment
  <2> QED  BY <2>1, EarlyFits DEF LauncherSteps
<1>8. CASE RemoveFinalizer \/ EnsureFails \/ UpdateStatus \/ UpdateRefused
  BY <1>3, <1>8 DEF RemoveFinalizer, EnsureFails, UpdateStatus, UpdateRefused, Return
<1>9. CASE EnsureService
  <2>1. CASE task.browser.spec.running
    <3>1. task'.step = "pods" /\ task'.browser = task.browser
      BY <1>4, <1>9, <2>1 DEF EnsureService
    <3> QED  BY <2>1, <3>1 DEF OutcomeFitsCopy, LauncherSteps, ExtensionSteps
  <2>2. CASE ~task.browser.spec.running
    <3>1. Stopped \in Statuses /\ Stopped \in Reportable
      BY <1>1, <2>2, StatusTypes DEF Reportable
    <3> QED  BY <1>9, <2>2, <3>1, ReportFits DEF EnsureService
  <2> QED  BY <2>1, <2>2
<1>10. CASE FindReadyPod
  <2>1. CASE Report(Creating("pod"))
    BY <1>2, <1>10, <2>1, CreatingFits DEF FindReadyPod
  <2>2. CASE \E p \in Pods, loaded \in BOOLEAN :
               task' = [task EXCEPT !.step = "list", !.pod = p, !.cookies = loaded]
    <3>1. task'.browser = task.browser /\ task'.step = "list"
      BY <1>1, <2>2 DEF TaskRecords
    <3> QED  BY <1>2, <1>10, <3>1 DEF FindReadyPod, OutcomeFitsCopy, ExtensionSteps
  <2> QED  BY <1>10, <2>1, <2>2 DEF FindReadyPod
<1>11. CASE ListLauncherBrowsers
  <2>1. task.pod \in Pods /\ task.browser.spec.running
    BY <1>2, <1>11 DEF ListLauncherBrowsers, TaskTyped, LauncherSteps
  <2>2. ASSUME NEW q \in Profiles, q \in Served(task.pod), Discovered(q),
               ProfileUID(task.browser.spec) \in {q, "default"}
        PROVE  OutcomeFitsCopy'
    <3> DEFINE target == [pod |-> task.pod, profile |-> q,
                          endpoint |-> launcher[task.pod][q].endpoint]
    <3>1. launcher[task.pod][q] \in Instances
      BY <2>1, <2>2 DEF TypeOK, Served
    <3>2. target \in Targets /\ target.profile = q
      BY <2>1, <3>1 DEF Instances, Targets
    <3>3. CASE Report(Running(target))
      BY <2>1, <2>2, <3>2, <3>3, RunningFits
    <3>4. CASE task' = [task EXCEPT !.step = "extensions", !.target = target]
      <4>1. task'.browser = task.browser /\ task'.step = "extensions" /\ task'.target = target
        BY <1>1, <3>4 DEF TaskRecords
      <4> QED  BY <2>1, <2>2, <3>2, <4>1 DEF OutcomeFitsCopy
    <3> QED  BY <2>2, <3>3, <3>4 DEF Discovered
  <2>3. CASE Report(Creating("launcher"))
    BY <2>1, <2>3, CreatingFits
  <2>4. CASE Goto("create")
    BY <1>4, <2>1, <2>4 DEF OutcomeFitsCopy, ExtensionSteps
  <2> QED  BY <1>1, <1>11, <2>2, <2>3, <2>4, ProfileUIDType DEF ListLauncherBrowsers, Served
<1>12. CASE CreateLauncherBrowser
  <2> DEFINE uid == ProfileUID(task.browser.spec)
  <2>1. task.pod \in Pods /\ uid \in Profiles /\ task.browser.spec.running
    BY <1>1, <1>2, <1>12, ProfileUIDType DEF CreateLauncherBrowser, TaskTyped, LauncherSteps
  <2>2. ASSUME NEW e \in Endpoints,
               Report(Running([pod |-> task.pod, profile |-> uid, endpoint |-> e]))
        PROVE  OutcomeFitsCopy'
    <3>1. [pod |-> task.pod, profile |-> uid, endpoint |-> e] \in Targets
      BY <2>1 DEF Targets
    <3> QED  BY <2>1, <2>2, <3>1, RunningFits
  <2> QED  BY <1>12, <2>1, <2>2, CreatingFits DEF CreateLauncherBrowser
<1>13. CASE GetInstalledExtensions \/ InstalledExtensionsUnknown \/ AddExtensions
  <2>1. /\ task.target \in Targets /\ task.browser.spec.running
        /\ ProfileUID(task.browser.spec) \in {task.target.profile, "default"}
    BY <1>2, <1>13 DEF GetInstalledExtensions, InstalledExtensionsUnknown, AddExtensions,
                       TaskTyped, OutcomeFitsCopy, ExtensionSteps, LauncherSteps
  <2>2. CASE Report(Running(task.target))
    BY <2>1, <2>2, RunningFits
  <2>3. CASE \E m : task' = [task EXCEPT !.step = "addExtensions", !.missing = m]
    <3>1. task'.browser = task.browser /\ task'.step = "addExtensions"
          /\ task'.target = task.target
      BY <1>1, <2>3 DEF TaskRecords
    <3> QED  BY <2>1, <3>1 DEF OutcomeFitsCopy
  <2>4. ASSUME NEW e \in Endpoints, Report(Running([task.target EXCEPT !.endpoint = e]))
        PROVE  OutcomeFitsCopy'
    <3>1. /\ [task.target EXCEPT !.endpoint = e] \in Targets
          /\ [task.target EXCEPT !.endpoint = e].profile = task.target.profile
      BY <2>1 DEF Targets
    <3> QED  BY <2>1, <2>4, <3>1, RunningFits
  <2> QED  BY <1>13, <2>1, <2>2, <2>3, <2>4, CreatingFits
           DEF GetInstalledExtensions, InstalledExtensionsUnknown, AddExtensions
<1>14. CASE LauncherCallFails
  BY <1>2, <1>14, CreatingFits DEF LauncherCallFails, LauncherSteps
<1> QED  BY <1>5, <1>6, <1>7, <1>8, <1>9, <1>10, <1>11, <1>12, <1>13, <1>14 DEF Worker

LEMMA FitsPreserved ==
    ASSUME TypeOK, TaskTyped, OutcomeFitsCopy, [Next]_vars
    PROVE  OutcomeFitsCopy'
<1> USE DEF At
<1>1. CASE Worker
  BY <1>1, WorkerFits
<1>2. CASE User
  <2>1. task' = [task EXCEPT !.fresh = FALSE] /\ task \in TaskRecords
    BY <1>2 DEF User, CreateBrowser, EditSpec, DeleteBrowser, UserWrite, TypeOK
  <2>2. /\ task'.step = task.step /\ task'.browser = task.browser
        /\ task'.target = task.target /\ task'.outcome = task.outcome
    BY <2>1 DEF TaskRecords
  <2>3. Reportable' = Reportable
    BY <2>2 DEF Reportable, Creating, Running, Stopped
  <2> QED  BY <2>2, <2>3 DEF OutcomeFitsCopy
<1>3. CASE OperatorRestart
  BY <1>3, IdleType, EarlyFits DEF OperatorRestart, LauncherSteps
<1>4. CASE BrowserEvent \/ TimerFires \/ ChildEvent \/ Cluster \/ Mishap \/ UNCHANGED vars
  <2>1. UNCHANGED task
    BY <1>4 DEF BrowserEvent, TimerFires, ChildEvent, Cluster, Mishap, ClaimStep,
                GarbageStep, KubeletStep, Outside, vars
  <2>2. Reportable' = Reportable
    BY <2>1 DEF Reportable, Creating, Running, Stopped
  <2> QED  BY <2>1, <2>2 DEF OutcomeFitsCopy
<1> QED  BY <1>1, <1>2, <1>3, <1>4 DEF Next, Calm, Disruption

------------------------------------------------------------------------------
(* The launcher between a read and the call that acts on it. *)

\* A Report leaves the steps that rely on what was read.
LEMMA ReportForgets ==
    ASSUME TypeOK, NEW status \in Statuses, Report(status)
    PROVE  LauncherAsRead'
<1>1. task \in TaskRecords /\ timer \in BOOLEAN
  BY DEF TypeOK
<1>2. task'.step \in {"idle", "status"}
  BY <1>1, ReportEffect, IdleType DEF TaskRecords
<1> QED  BY <1>2 DEF LauncherAsRead, At

LEMMA WorkerReads ==
    ASSUME TypeOK, TaskTyped, Worker
    PROVE  LauncherAsRead'
<1> USE DEF At
<1>1. task \in TaskRecords /\ task.browser \in Browsers /\ task.browser.spec \in Specs
      /\ cache \in Browsers
  BY DEF TypeOK, TaskRecords, Browsers
<1>2. ASSUME task'.step \notin {"create", "addExtensions"} PROVE LauncherAsRead'
  BY <1>2 DEF LauncherAsRead
<1>3. ASSUME NEW step, Goto(step)
      PROVE  /\ task'.step = step /\ task'.browser = task.browser /\ task'.pod = task.pod
  BY <1>1, <1>3 DEF Goto, TaskRecords
<1>4. CASE Reconcile
  <2>1. FirstStep(cache) \in {"deletePVC", "addFinalizer", "pvc"}
    BY <1>1 DEF FirstStep, Browsers
  <2>2. CASE task' = [Idle EXCEPT !.step = FirstStep(cache), !.browser = cache,
                                  !.fresh = CaughtUp]
    <3>1. task'.step = FirstStep(cache)
      BY <2>2, IdleType DEF TaskRecords
    <3> QED  BY <1>2, <2>1, <3>1
  <2> QED  BY <1>2, <1>4, <2>2, IdleType DEF Reconcile, Return
<1>5. CASE AddFinalizer
  <2>1. task'.step = "pvc"
    BY <1>1, <1>5 DEF AddFinalizer, TaskRecords
  <2> QED  BY <1>2, <2>1
<1>6. CASE DeletePVC \/ EnsurePVC \/ EnsureDeployment
  BY <1>2, <1>3, <1>6 DEF DeletePVC, EnsurePVC, EnsureDeployment
<1>7. CASE RemoveFinalizer \/ EnsureFails \/ UpdateStatus \/ UpdateRefused
  BY <1>2, <1>7, IdleType DEF RemoveFinalizer, EnsureFails, UpdateStatus, UpdateRefused, Return
<1>8. CASE EnsureService
  BY <1>1, <1>2, <1>3, <1>8, StatusTypes, ReportForgets DEF EnsureService
<1>9. CASE FindReadyPod
  <2>1. CASE \E p \in Pods, loaded \in BOOLEAN :
               task' = [task EXCEPT !.step = "list", !.pod = p, !.cookies = loaded]
    <3>1. task'.step = "list"
      BY <1>1, <2>1 DEF TaskRecords
    <3> QED  BY <1>2, <3>1
  <2> QED  BY <1>1, <1>9, <2>1, StatusTypes, ReportForgets DEF FindReadyPod
<1>10. CASE ListLauncherBrowsers
  <2> DEFINE uid == ProfileUID(task.browser.spec)
  <2>1. task.pod \in Pods /\ uid \in Profiles
    BY <1>1, <1>10, ProfileUIDType DEF ListLauncherBrowsers, TaskTyped, LauncherSteps
  <2>2. ASSUME NEW q \in Profiles, q \in Served(task.pod), Discovered(q)
        PROVE  LauncherAsRead'
    <3> DEFINE target == [pod |-> task.pod, profile |-> q,
                          endpoint |-> launcher[task.pod][q].endpoint]
    <3>1. launcher[task.pod][q] \in Instances
      BY <2>1, <2>2 DEF TypeOK, Served
    <3>2. Running(target) \in Statuses
      BY <1>1, <2>1, <3>1, StatusTypes DEF Instances, Targets
    <3>3. CASE Report(Running(target))
      BY <3>2, <3>3, ReportForgets
    <3>4. CASE task' = [task EXCEPT !.step = "extensions", !.target = target]
      <4>1. task'.step = "extensions"
        BY <1>1, <3>4 DEF TaskRecords
      <4> QED  BY <1>2, <4>1
    <3> QED  BY <2>2, <3>3, <3>4 DEF Discovered
  <2>3. CASE Report(Creating("launcher"))
    BY <1>1, <2>3, StatusTypes, ReportForgets
  <2>4. CASE uid \notin Served(task.pod) /\ uid # "default" /\ Goto("create")
    <3>1. launcher' = launcher /\ launcher[task.pod][uid] = None
      BY <1>10, <2>1, <2>4 DEF ListLauncherBrowsers, Served, runtime
    <3> QED  BY <1>3, <2>4, <3>1 DEF LauncherAsRead
  <2> QED  BY <1>10, <2>1, <2>2, <2>3, <2>4 DEF ListLauncherBrowsers, Served
<1>11. CASE CreateLauncherBrowser
  <2>1. task.pod \in Pods /\ ProfileUID(task.browser.spec) \in Profiles
    BY <1>1, <1>11, ProfileUIDType DEF CreateLauncherBrowser, TaskTyped, LauncherSteps
  <2>2. \A e \in Endpoints :
          [pod |-> task.pod, profile |-> ProfileUID(task.browser.spec), endpoint |-> e]
              \in Targets
    BY <2>1 DEF Targets
  <2> QED  BY <1>1, <1>11, <2>2, StatusTypes, ReportForgets DEF CreateLauncherBrowser
<1>12. CASE GetInstalledExtensions
  <2> DEFINE missing == task.browser.spec.extensions \ Synced.extensions
  <2>1. task.target \in Targets
    BY <1>12 DEF GetInstalledExtensions, TaskTyped, ExtensionSteps
  <2>2. CASE missing # {} /\ task' = [task EXCEPT !.step = "addExtensions",
                                                  !.missing = missing]
    <3>1. /\ task'.step = "addExtensions" /\ task'.missing = missing
          /\ task'.pod = task.pod /\ task'.target = task.target
      BY <1>1, <2>2 DEF TaskRecords
    <3>2. Synced' = Synced
      BY <1>12, <3>1 DEF GetInstalledExtensions, Synced, runtime
    <3>3. missing \cap Synced.extensions = {}
      OBVIOUS
    <3> QED  BY <2>2, <3>1, <3>2, <3>3 DEF LauncherAsRead
  <2> QED  BY <1>1, <1>12, <2>1, <2>2, StatusTypes, ReportForgets DEF GetInstalledExtensions
<1>13. CASE InstalledExtensionsUnknown \/ AddExtensions
  <2>1. task.target \in Targets
    BY <1>13 DEF InstalledExtensionsUnknown, AddExtensions, TaskTyped, ExtensionSteps
  <2>2. \A e \in Endpoints : [task.target EXCEPT !.endpoint = e] \in Targets
    BY <2>1 DEF Targets
  <2> QED  BY <1>1, <1>13, <2>1, <2>2, StatusTypes, ReportForgets
           DEF InstalledExtensionsUnknown, AddExtensions
<1>14. CASE LauncherCallFails
  BY <1>1, <1>14, StatusTypes, ReportForgets DEF LauncherCallFails
<1> QED  BY <1>4, <1>5, <1>6, <1>7, <1>8, <1>9, <1>10, <1>11, <1>12, <1>13, <1>14 DEF Worker

\* Between two steps of the worker a Chrome may go, move, or come up as the
\* default one without extensions; nothing else appears in a launcher.
LEMMA OthersReads ==
    ASSUME TypeOK, TaskTyped, LauncherAsRead, [Next]_vars, ~Worker
    PROVE  LauncherAsRead'
<1> USE DEF At
<1>1. /\ task \in TaskRecords /\ task.browser \in Browsers /\ task.browser.spec \in Specs
      /\ launcher \in [Pods -> [Profiles -> Instances \cup {None}]]
  BY DEF TypeOK, TaskRecords, Browsers
<1>2. CASE OperatorRestart
  BY <1>2, IdleType DEF OperatorRestart, LauncherAsRead
<1>3. ASSUME /\ task'.step = task.step /\ task'.browser = task.browser
             /\ task'.pod = task.pod /\ task'.target = task.target
             /\ task'.missing = task.missing,
             \A p \in Pods, q \in Profiles :
                \/ launcher'[p][q] = None
                \/ q = "default" /\ launcher'[p][q].extensions = {}
                \/ /\ launcher[p][q] # None
                   /\ launcher'[p][q].extensions = launcher[p][q].extensions
      PROVE  LauncherAsRead'
  <2>1. CASE task.step = "create"
    <3>1. task.pod \in Pods /\ ProfileUID(task.browser.spec) \in Profiles
      BY <1>1, <2>1, ProfileUIDType DEF TaskTyped, LauncherSteps
    <3> QED  BY <1>3, <2>1, <3>1 DEF LauncherAsRead
  <2>2. CASE task.step = "addExtensions"
    <3>1. task.pod \in Pods /\ task.target.profile \in Profiles
      BY <2>2 DEF TaskTyped, LauncherSteps, ExtensionSteps, Targets
    <3>2. Synced' = launcher'[task.pod][task.target.profile]
      BY <1>3 DEF Synced
    <3> QED  BY <1>3, <2>2, <3>1, <3>2 DEF LauncherAsRead, Synced
  <2>3. CASE task.step \notin {"create", "addExtensions"}
    BY <1>3, <2>3 DEF LauncherAsRead
  <2> QED  BY <2>1, <2>2, <2>3
<1>4. CASE User
  <2>1. task' = [task EXCEPT !.fresh = FALSE] /\ launcher' = launcher
    BY <1>4 DEF User, CreateBrowser, EditSpec, DeleteBrowser, UserWrite, runtime
  <2> QED  BY <1>1, <1>3, <2>1 DEF TaskRecords
<1>5. CASE BrowserEvent \/ TimerFires \/ ChildEvent \/ UNCHANGED vars
  <2>1. UNCHANGED <<task, launcher>>
    BY <1>5 DEF BrowserEvent, TimerFires, ChildEvent, runtime, vars
  <2> QED  BY <1>1, <1>3, <2>1
<1>6. CASE Cluster \/ Mishap
  <2>1. UNCHANGED task
    BY <1>6 DEF Cluster, Mishap, ClaimStep, GarbageStep, KubeletStep, Outside
  <2>2. ASSUME NEW p \in Pods, StartDefault(p) PROVE LauncherAsRead'
    <3>1. PICK e \in Endpoints :
            launcher' = [launcher EXCEPT ![p]["default"] =
                             [endpoint |-> e, extensions |-> {}, cookies |-> FALSE]]
      BY <2>2 DEF StartDefault
    <3> QED  BY <1>1, <1>3, <2>1, <3>1
  <2>3. ASSUME NEW p \in Pods, StopPod(p) \/ PodGone(p) PROVE LauncherAsRead'
    <3>1. launcher' = launcher \/ launcher' = [launcher EXCEPT ![p] = Off]
      BY <2>3 DEF StopPod, PodGone
    <3> QED  BY <1>1, <1>3, <2>1, <3>1 DEF Off
  <2>4. ASSUME NEW p \in Pods, NEW q \in Profiles, ChromeRestarts(p, q) PROVE LauncherAsRead'
    <3>1. /\ launcher[p][q] # None
          /\ \E e \in Endpoints : launcher' = [launcher EXCEPT ![p][q].endpoint = e]
      BY <2>4 DEF ChromeRestarts
    <3> QED  BY <1>1, <1>3, <2>1, <3>1 DEF Instances
  <2>5. CASE launcher' = launcher
    BY <1>1, <1>3, <2>1, <2>5
  <2> QED  BY <1>6, <2>2, <2>3, <2>4, <2>5
           DEF Cluster, Mishap, ClaimStep, GarbageStep, KubeletStep, Outside, runtime,
               ClaimRemoved, ClaimDelivered, CollectDeployment, CollectService,
               StartPod, PodBecomesReady, ScaleDown, Evict, PodBecomesUnready
<1> QED  BY <1>2, <1>4, <1>5, <1>6 DEF Next, Calm, Disruption

------------------------------------------------------------------------------
(* Theorems. *)

LEMMA InitSafe == Init => Safe /\ OutcomeFitsCopy /\ LauncherAsRead
<1> SUFFICES ASSUME Init PROVE Safe /\ OutcomeFitsCopy /\ LauncherAsRead
  OBVIOUS
<1> USE DEF At
<1>1. task.step = "idle" /\ ~task.fresh /\ cache = api /\ unseen = <<>>
  BY IdleType DEF Init
<1>2. ~api.exists
  BY DEF Init, Idle, Gone, NewBrowser
<1>3. Versions = {api}
  BY <1>1 DEF Versions
<1>4. DeletedHasFinalizer /\ CacheFollows /\ GuardedIsAlive
  BY <1>1, <1>2, <1>3 DEF DeletedHasFinalizer, CacheFollows, CaughtUp, GuardedIsAlive, Guarded
<1>5. FreshIsCurrent /\ CopyFitsStep /\ NoLostWakeup /\ OutcomeFitsCopy /\ LauncherAsRead
  BY <1>1, <1>2 DEF FreshIsCurrent, CopyFitsStep, NoLostWakeup, OutcomeFitsCopy,
                    LauncherSteps, ExtensionSteps, LauncherAsRead
<1> QED  BY <1>4, <1>5 DEF Safe

LEMMA IInvParts == IInv <=> TypeOK /\ TaskTyped /\ Safe /\ OutcomeFitsCopy /\ LauncherAsRead
BY DEF IInv, Safe

LEMMA IInvPreserved ==
    ASSUME IInv, [Next]_vars
    PROVE  IInv'
BY TypesPreserved, SafePreserved, FitsPreserved, WorkerReads, OthersReads, IInvParts
   DEF Safe, IInv


\* The inductive invariant: it holds at first and every step keeps it.
THEOREM Invariance == Spec => []IInv
<1>1. Init => IInv
  BY InitTypes, InitSafe, IInvParts
<1>2. IInv /\ [Next]_vars => IInv'
  BY IInvPreserved
<1> QED  BY <1>1, <1>2, PTL DEF Spec

\* No Browser is forgotten: every way out of Reconcile leaves a requeue behind
\* unless the object is gone from an up-to-date cache.
THEOREM Wakeups == Spec => []NoLostWakeup
<1>1. IInv => NoLostWakeup
  BY DEF IInv
<1> QED  BY <1>1, Invariance, PTL

\* Who writes the Browser, and who writes its children.
LEMMA BrowserWriters ==
    ASSUME [Next]_vars
    PROVE  \/ AddFinalizer \/ RemoveFinalizer \/ UpdateStatus
           \/ CreateBrowser \/ EditSpec \/ DeleteBrowser
           \/ UNCHANGED api
<1>1. CASE Worker
  BY <1>1 DEF Worker, Reconcile, DeletePVC, EnsurePVC, EnsureDeployment, EnsureService,
              EnsureFails, FindReadyPod, ListLauncherBrowsers, CreateLauncherBrowser,
              GetInstalledExtensions, InstalledExtensionsUnknown, AddExtensions,
              LauncherCallFails, UpdateRefused, store
<1>2. CASE BrowserEvent \/ TimerFires \/ ChildEvent \/ OperatorRestart \/ UNCHANGED vars
  BY <1>2 DEF BrowserEvent, Deliver, TimerFires, ChildEvent, OperatorRestart, Relist,
              store, vars
<1>3. CASE Cluster \/ Mishap
  BY <1>3 DEF Cluster, Mishap, ClaimStep, GarbageStep, KubeletStep, Outside, store,
              ClaimRemoved, ClaimDelivered, CollectDeployment, CollectService,
              StartPod, StartDefault, PodBecomesReady, ScaleDown, PodGone,
              Evict, StopPod, PodBecomesUnready, ChromeRestarts
<1> QED  BY <1>1, <1>2, <1>3 DEF Next, Calm, Disruption, User

LEMMA ChildrenWriters ==
    ASSUME [Next]_vars
    PROVE  \/ EnsurePVC \/ EnsureDeployment \/ EnsureService \/ DeletePVC
           \/ Cluster \/ UNCHANGED <<pvc, deploy, svc>>
<1>1. CASE Worker
  BY <1>1 DEF Worker, Reconcile, AddFinalizer, RemoveFinalizer, EnsureFails, FindReadyPod,
              ListLauncherBrowsers, CreateLauncherBrowser, GetInstalledExtensions,
              InstalledExtensionsUnknown, AddExtensions, LauncherCallFails, UpdateStatus,
              UpdateRefused, children
<1>2. CASE BrowserEvent \/ TimerFires \/ ChildEvent \/ OperatorRestart \/ UNCHANGED vars
  BY <1>2 DEF BrowserEvent, TimerFires, ChildEvent, OperatorRestart, children, vars
<1>3. CASE User
  BY <1>3 DEF User, CreateBrowser, EditSpec, DeleteBrowser, UserWrite, children
<1>4. CASE Mishap
  BY <1>4 DEF Mishap, Outside, Evict, StopPod, PodBecomesUnready, ChromeRestarts, children
<1> QED  BY <1>1, <1>2, <1>3, <1>4 DEF Next, Calm, Disruption

LEMMA LauncherWriters ==
    ASSUME [Next]_vars, task' # task
    PROVE  CreateLauncherBrowser \/ AddExtensions \/ UNCHANGED launcher
<1>1. CASE Worker
  BY <1>1 DEF Worker, Reconcile, AddFinalizer, DeletePVC, RemoveFinalizer, EnsurePVC,
              EnsureDeployment, EnsureService, EnsureFails, FindReadyPod,
              ListLauncherBrowsers, GetInstalledExtensions, InstalledExtensionsUnknown,
              LauncherCallFails, UpdateStatus, UpdateRefused, runtime
<1>2. CASE User \/ OperatorRestart
  BY <1>2 DEF User, CreateBrowser, EditSpec, DeleteBrowser, UserWrite, OperatorRestart, runtime
<1>3. CASE BrowserEvent \/ TimerFires \/ ChildEvent \/ Cluster \/ Mishap \/ UNCHANGED vars
  BY <1>3 DEF BrowserEvent, TimerFires, ChildEvent, Cluster, Mishap, ClaimStep,
              GarbageStep, KubeletStep, Outside, vars
<1> QED  BY <1>1, <1>2, <1>3 DEF Next, Calm, Disruption

\* A status is only ever published by UpdateStatus.
LEMMA PublishedByUpdate ==
    ASSUME IInv, [Next]_vars,
           api'.exists, api'.uid = api.uid, api'.status # api.status
    PROVE  UpdateStatus
<1>1. api \in Browsers /\ api.uid \in Nat
  BY DEF IInv, TypeOK, Browsers
<1>2. CASE AddFinalizer
  BY <1>1, <1>2 DEF AddFinalizer, Write, Browsers
<1>3. CASE RemoveFinalizer
  BY <1>1, <1>3 DEF RemoveFinalizer, Write, Gone, Browsers
<1>4. CASE CreateBrowser
  BY <1>1, <1>4 DEF CreateBrowser, UserWrite, Write, NewBrowser
<1>5. CASE EditSpec \/ DeleteBrowser
  BY <1>1, <1>5 DEF EditSpec, DeleteBrowser, UserWrite, Write, Gone, Browsers
<1>6. CASE UNCHANGED api
  BY <1>6
<1> QED  BY <1>2, <1>3, <1>4, <1>5, <1>6, BrowserWriters

\* The step form of StatusFollowsSpec.
LEMMA StatusStep ==
    ASSUME IInv, [Next]_vars,
           api'.exists, api'.uid = api.uid, api'.status # api.status
    PROVE  /\ ~api.deleting
           /\ (api'.status.phase = "Stopped") = ~api.spec.running
           /\ api'.status.phase = "Running" =>
                ProfileUID(api.spec) \in {api'.status.target.profile, "default"}
<1> USE DEF At
<1>1. api \in Browsers /\ api.uid \in Nat /\ task \in TaskRecords
  BY DEF IInv, TypeOK, Browsers
<1>2. CASE UpdateStatus
  <2>1. task.browser = api /\ api' = [api EXCEPT !.status = task.outcome]
    BY <1>2 DEF UpdateStatus, Write, IInv, FreshIsCurrent
  <2>2. api'.status = task.outcome
    BY <1>1, <2>1 DEF Browsers
  <2>3. ~api.deleting
    BY <1>1, <1>2, <2>1 DEF UpdateStatus, IInv, CopyFitsStep, DeletionSteps, Browsers
  <2>4. task.outcome \in Reportable
    BY <1>2 DEF UpdateStatus, IInv, OutcomeFitsCopy
  <2>5. api.spec.running \in BOOLEAN
    BY <1>1 DEF Browsers, Specs
  <2>6. /\ (task.outcome.phase = "Stopped") = ~api.spec.running
        /\ task.outcome.phase = "Running" =>
             ProfileUID(api.spec) \in {task.outcome.target.profile, "default"}
    <3>1. \A m : Creating(m).phase = "Creating"
      BY <1>1, <2>1 DEF Creating, Browsers, Statuses
    <3>2. \A t : Running(t).phase = "Running" /\ Running(t).target = t
      BY DEF Running
    <3>3. Stopped.phase = "Stopped"
      BY DEF Stopped
    <3>4. CASE api.spec.running
      BY <2>1, <2>4, <3>1, <3>2, <3>4 DEF Reportable
    <3>5. CASE ~api.spec.running
      BY <2>1, <2>4, <3>3, <3>5 DEF Reportable
    <3> QED  BY <2>5, <3>4, <3>5
  <2> QED  BY <2>2, <2>3, <2>6
<1> QED  BY <1>2, PublishedByUpdate

\* A published status is one for the spec the API server holds at that moment.
THEOREM PublishedForSpec == Spec => StatusFollowsSpec
<1>1. IInv /\ [Next]_vars =>
        [api'.exists /\ api'.uid = api.uid /\ api'.status # api.status =>
           /\ ~api.deleting
           /\ (api'.status.phase = "Stopped") = ~api.spec.running
           /\ api'.status.phase = "Running" =>
                ProfileUID(api.spec) \in {api'.status.target.profile, "default"}]_vars
  BY StatusStep
<1> QED  BY <1>1, Invariance, PTL DEF StatusFollowsSpec, Spec

\* Only these steps of the worker touch the child resources.
LEMMA ChildrenStep ==
    ASSUME IInv, [Next]_vars
    PROVE  /\ deploy' \notin {deploy, None} => OwnerLives(deploy'.owner) /\ api.finalizer
           /\ svc' \notin {svc, None} => OwnerLives(svc') /\ api.finalizer
           /\ pvc = "absent" /\ pvc' = "bound" =>
                OwnerLives(task.browser.uid) /\ api.finalizer
<1> USE DEF At
<1>1. task.step \in {"pvc", "deployment", "service"} =>
        OwnerLives(task.browser.uid) /\ api.finalizer
  <2> SUFFICES ASSUME task.step \in {"pvc", "deployment", "service"}
               PROVE  OwnerLives(task.browser.uid) /\ api.finalizer
    OBVIOUS
  <2>1. Guarded(task.browser)
    BY DEF IInv, TypeOK, CopyFitsStep, DeletionSteps, Guarded, TaskRecords, Browsers
  <2> QED  BY <2>1 DEF IInv, GuardedIsAlive
<1>2. CASE EnsurePVC
  BY <1>1, <1>2 DEF EnsurePVC
<1>3. CASE EnsureDeployment
  BY <1>1, <1>3 DEF EnsureDeployment
<1>4. CASE EnsureService
  BY <1>1, <1>4 DEF EnsureService
<1>5. CASE DeletePVC
  BY <1>5 DEF DeletePVC
<1>6. CASE Cluster
  BY <1>6 DEF Cluster, ClaimStep, GarbageStep, KubeletStep, Outside, children,
              ClaimRemoved, ClaimDelivered, CollectDeployment, CollectService,
              StartPod, StartDefault, PodBecomesReady, ScaleDown, PodGone, StopPod
<1>7. CASE UNCHANGED <<pvc, deploy, svc>>
  BY <1>7
<1> QED  BY <1>2, <1>3, <1>4, <1>5, <1>6, <1>7, ChildrenWriters

\* However stale the copy, children are only written for a live, guarded Browser.
THEOREM ChildrenAreOwned == Spec => ChildrenOfLiveBrowser
<1>1. IInv /\ [Next]_vars =>
        [/\ deploy' \notin {deploy, None} => OwnerLives(deploy'.owner) /\ api.finalizer
         /\ svc' \notin {svc, None} => OwnerLives(svc') /\ api.finalizer
         /\ pvc = "absent" /\ pvc' = "bound" =>
              OwnerLives(task.browser.uid) /\ api.finalizer]_vars
  BY ChildrenStep
<1> QED  BY <1>1, Invariance, PTL DEF ChildrenOfLiveBrowser, Spec

\* Only two calls change a launcher, and both do what was read to be needed.
LEMMA RestartStep ==
    ASSUME IInv, [Next]_vars, task' # task, NEW p \in Pods, NEW q \in Profiles,
           launcher[p][q] # None, launcher'[p][q] # None, launcher'[p][q] # launcher[p][q]
    PROVE  /\ launcher[p][q].extensions \subseteq launcher'[p][q].extensions
           /\ launcher'[p][q].extensions # launcher[p][q].extensions
           /\ launcher'[p][q].cookies = launcher[p][q].cookies
<1> USE DEF At
<1>1. /\ launcher \in [Pods -> [Profiles -> Instances \cup {None}]]
      /\ task \in TaskRecords /\ task.browser \in Browsers /\ task.browser.spec \in Specs
  BY DEF IInv, TypeOK, TaskRecords, Browsers
<1>2. CASE CreateLauncherBrowser
  <2> DEFINE uid == ProfileUID(task.browser.spec)
  <2>1. task.pod \in Pods /\ uid \in Profiles /\ launcher[task.pod][uid] = None
    BY <1>1, <1>2, ProfileUIDType
       DEF CreateLauncherBrowser, IInv, LauncherAsRead, TaskTyped, LauncherSteps
  <2>2. \E c : launcher' = [launcher EXCEPT ![task.pod][uid] = c]
    BY <1>2 DEF CreateLauncherBrowser
  <2> QED  BY <1>1, <2>1, <2>2
<1>3. CASE AddExtensions
  <2>1. task.pod \in Pods /\ task.target.profile \in Profiles /\ Synced \in Instances
    BY <1>1, <1>3 DEF AddExtensions, IInv, TaskTyped, LauncherSteps, ExtensionSteps,
                      Targets, Synced
  <2>2. task.missing # {} /\ task.missing \cap Synced.extensions = {}
    BY <1>3 DEF AddExtensions, IInv, LauncherAsRead
  <2>3. PICK e \in Endpoints :
          launcher' = [launcher EXCEPT ![task.pod][task.target.profile] =
              [Synced EXCEPT !.endpoint = e,
                             !.extensions = Synced.extensions \cup task.missing]]
    BY <1>3 DEF AddExtensions
  <2>4. p = task.pod /\ q = task.target.profile /\ launcher[p][q] = Synced
    BY <1>1, <2>1, <2>3 DEF Synced
  <2>5. launcher'[p][q] = [Synced EXCEPT !.endpoint = e,
                              !.extensions = Synced.extensions \cup task.missing]
    BY <1>1, <2>1, <2>3, <2>4
  <2>6. /\ launcher'[p][q].extensions = Synced.extensions \cup task.missing
        /\ launcher'[p][q].cookies = Synced.cookies
    BY <2>1, <2>5 DEF Instances
  <2> QED  BY <2>2, <2>4, <2>6
<1>4. CASE UNCHANGED launcher
  BY <1>4
<1> QED  BY <1>2, <1>3, <1>4, LauncherWriters

\* A Chrome that is up is only ever replaced to install what it lacks.
THEOREM RestartsAreNeeded == Spec => NoNeedlessRestart
<1>1. IInv /\ [Next]_vars =>
        [task' # task =>
           \A p \in Pods, q \in Profiles :
              LET old == launcher[p][q]
                  new == launcher'[p][q]
              IN old # None /\ new # None /\ new # old =>
                   /\ old.extensions \subseteq new.extensions
                   /\ new.extensions # old.extensions
                   /\ new.cookies = old.cookies]_vars
  BY RestartStep
<1> QED  BY <1>1, Invariance, PTL DEF NoNeedlessRestart, Spec

------------------------------------------------------------------------------
(* Deployment and Service in their order, for whoever competes for them. *)

\* A reconcile that is past the finalizer works for a Browser that is alive.
LEMMA CopyIsAlive ==
    ASSUME IInv, task.step \in AfterService \cup {"deployment", "service"}
    PROVE  OwnerLives(task.browser.uid)
<1>1. Guarded(task.browser)
  BY DEF IInv, TypeOK, CopyFitsStep, Guarded, TaskRecords, Browsers, DeletionSteps,
         AfterService, LauncherSteps, At
<1> QED  BY <1>1 DEF IInv, GuardedIsAlive, AfterService, LauncherSteps, At

\* A Browser that exists has just been created, or existed before.
LEMMA UidsRise ==
    ASSUME IInv, [Next]_vars
    PROVE  /\ api.uid \in Nat /\ api'.uid \in Nat /\ api.uid <= api'.uid
           /\ api'.exists => api.uid < api'.uid \/ (api.exists /\ api'.uid = api.uid)
<1>1. api \in Browsers /\ api.uid \in Nat
  BY DEF IInv, TypeOK, Browsers
<1>2. CASE CreateBrowser
  BY <1>1, <1>2 DEF CreateBrowser, UserWrite, Write, NewBrowser
<1>3. CASE EditSpec \/ DeleteBrowser
  <2>1. PICK obj : /\ api' = obj
                   /\ obj.uid = api.uid
    <3>1. CASE EditSpec
      BY <1>1, <3>1 DEF EditSpec, UserWrite, Write, Browsers
    <3>2. CASE DeleteBrowser
      <4>1. /\ [api EXCEPT !.deleting = TRUE].uid = api.uid
            /\ Gone(api).uid = api.uid
        BY <1>1 DEF Gone, Browsers
      <4>2. \/ api' = [api EXCEPT !.deleting = TRUE]
            \/ api' = Gone(api)
        BY <3>2 DEF DeleteBrowser, UserWrite, Write
      <4> QED  BY <4>1, <4>2
    <3> QED  BY <1>3, <3>1, <3>2
  <2>2. api.exists
    BY <1>3 DEF EditSpec, DeleteBrowser
  <2> QED  BY <1>1, <2>1, <2>2
<1>4. CASE AddFinalizer \/ RemoveFinalizer \/ UpdateStatus
  <2>1. api.exists
    BY <1>4 DEF AddFinalizer, RemoveFinalizer, UpdateStatus, IInv, FreshIsCurrent,
                CopyFitsStep, At
  <2>2. api'.uid = api.uid
    BY <1>1, <1>4 DEF AddFinalizer, RemoveFinalizer, UpdateStatus, Write, Gone, Browsers
  <2> QED  BY <1>1, <2>1, <2>2
<1>5. CASE UNCHANGED api
  BY <1>1, <1>5
<1> QED  BY <1>2, <1>3, <1>4, <1>5, BrowserWriters

\* A reconcile that ends leaves nothing behind but the children.
LEMMA ReturnsInPlace ==
    ASSUME IInv, ChildrenInPlace, Return(TRUE), UNCHANGED <<queued, store, children, runtime>>
    PROVE  IInv' /\ ChildrenInPlace'
<1> USE DEF store, children, runtime
<1>1. task' = Idle /\ task'.step = "idle"
  BY IdleType DEF Return
<1>2. TypeOK' /\ TaskTyped'
  BY ReturnTyped DEF IInv, TypeOK
<1>3. Safe'
  BY ReturnSafe DEF IInv, Safe
<1>4. OutcomeFitsCopy' /\ LauncherAsRead'
  BY <1>1 DEF OutcomeFitsCopy, LauncherAsRead, LauncherSteps, ExtensionSteps, At
<1>5. ChildrenInPlace'
  <2>1. UNCHANGED <<api, deploy, svc>> /\ task'.step \notin AfterService \cup {"service"}
    BY <1>1 DEF AfterService, LauncherSteps
  <2> QED  BY <2>1 DEF ChildrenInPlace, OwnerLives
<1> QED  BY <1>2, <1>3, <1>4, <1>5 DEF IInv, Safe

LEMMA InitInPlace == Init => IInv /\ ChildrenInPlace
<1> SUFFICES ASSUME Init PROVE IInv /\ ChildrenInPlace
  OBVIOUS
<1>1. IInv
  BY InitTypes, InitSafe, IInvParts
<1>2. task.step = "idle" /\ deploy = None /\ svc = None
  BY IdleType DEF Init
<1> QED  BY <1>1, <1>2 DEF ChildrenInPlace, AfterService, LauncherSteps

\* What the steps of the worker do to the place the reconcile has reached.
LEMMA WorkerPlaces ==
    ASSUME TypeOK, Worker, ~EnsureDeployment, ~EnsureService
    PROVE  /\ UNCHANGED <<deploy, svc>>
           /\ \/ task'.step \notin AfterService \cup {"service"}
              \/ task.step \in AfterService /\ task'.browser = task.browser
<1> USE DEF At, AfterService, LauncherSteps
<1>1. task \in TaskRecords /\ cache \in Browsers
  BY DEF TypeOK
<1>2. \A requeue : Return(requeue) => task'.step = "idle"
  BY IdleType DEF Return
<1>3. \A status : Report(status) => task'.step = "idle" \/ task'.browser = task.browser
  BY <1>1, <1>2 DEF Report, TaskRecords
<1>4. \A step : Goto(step) => task'.step = step /\ task'.browser = task.browser
  BY <1>1 DEF Goto, TaskRecords
<1>5. CASE Reconcile
  <2>1. CASE Return(FALSE)
    BY <1>2, <1>5, <2>1 DEF Reconcile, children
  <2>2. CASE task' = [Idle EXCEPT !.step = FirstStep(cache), !.browser = cache,
                                  !.fresh = CaughtUp]
    <3>1. task'.step = FirstStep(cache)
      BY <2>2, IdleType DEF TaskRecords
    <3> QED  BY <1>1, <1>5, <3>1 DEF Reconcile, FirstStep, Browsers, children
  <2> QED  BY <1>5, <2>1, <2>2 DEF Reconcile
<1>6. CASE AddFinalizer
  BY <1>1, <1>6 DEF AddFinalizer, TaskRecords, children
<1>7. CASE DeletePVC \/ EnsurePVC
  BY <1>4, <1>7 DEF DeletePVC, EnsurePVC
<1>8. CASE RemoveFinalizer \/ EnsureFails \/ UpdateStatus \/ UpdateRefused
  BY <1>2, <1>8 DEF RemoveFinalizer, EnsureFails, UpdateStatus, UpdateRefused, children
<1>9. CASE FindReadyPod
  BY <1>1, <1>3, <1>9 DEF FindReadyPod, TaskRecords, children
<1>10. CASE ListLauncherBrowsers
  <2>1. \A q : Discovered(q) => task'.step = "idle" \/ task'.browser = task.browser
    BY <1>1, <1>3 DEF Discovered, TaskRecords
  <2> QED  BY <1>3, <1>4, <1>10, <2>1 DEF ListLauncherBrowsers, children
<1>11. CASE CreateLauncherBrowser \/ AddExtensions
  BY <1>3, <1>11 DEF CreateLauncherBrowser, AddExtensions, children
<1>12. CASE GetInstalledExtensions
  BY <1>1, <1>3, <1>12 DEF GetInstalledExtensions, TaskRecords, children
<1>13. CASE InstalledExtensionsUnknown \/ LauncherCallFails
  BY <1>3, <1>13 DEF InstalledExtensionsUnknown, LauncherCallFails, children
<1> QED  BY <1>5, <1>6, <1>7, <1>8, <1>9, <1>10, <1>11, <1>12, <1>13 DEF Worker

LEMMA PlacesPreserved ==
    ASSUME IInv, ChildrenInPlace, [Next]_vars
    PROVE  ChildrenInPlace'
<1> USE DEF At
<1>1. /\ task \in TaskRecords /\ task.browser \in Browsers /\ task.browser.uid \in Nat
      /\ deploy \in [owner: Nat, replicas: {0, 1}] \cup {None} /\ svc \in Nat \cup {None}
  BY DEF IInv, TypeOK, TaskRecords, Browsers
<1>2. /\ api.uid \in Nat /\ api'.uid \in Nat /\ api.uid <= api'.uid
      /\ api'.exists => api.uid < api'.uid \/ (api.exists /\ api'.uid = api.uid)
  BY UidsRise
<1>3. None \notin Nat /\ None \notin [owner: Nat, replicas: Nat]
  BY WorkloadAssumption
\* Neither child moves.
<1>4. ASSUME UNCHANGED <<deploy, svc>>,
             \/ task'.step \notin AfterService \cup {"service"}
             \/ task.step \in AfterService /\ task'.browser = task.browser
             \/ task'.step = task.step /\ task'.browser = task.browser
      PROVE  ChildrenInPlace'
  <2>1. /\ task'.step \in AfterService \cup {"service"} =>
               deploy' # None /\ deploy'.owner = task'.browser.uid
        /\ task'.step \in AfterService => svc' = task'.browser.uid
    BY <1>4 DEF ChildrenInPlace
  <2>2. svc' # None /\ OwnerLives(svc)' => deploy' # None /\ deploy'.owner = svc'
    BY <1>1, <1>2, <1>3, <1>4 DEF ChildrenInPlace, OwnerLives
  <2>3. deploy' # None => deploy'.owner <= api'.uid
    BY <1>1, <1>2, <1>3, <1>4 DEF ChildrenInPlace
  <2>4. svc' # None => svc' <= api'.uid
    BY <1>1, <1>2, <1>3, <1>4 DEF ChildrenInPlace
  <2> QED  BY <2>1, <2>2, <2>3, <2>4 DEF ChildrenInPlace
<1>5. CASE EnsureDeployment
  <2>1. OwnerLives(task.browser.uid)
    BY <1>5, CopyIsAlive DEF EnsureDeployment
  <2>2. /\ deploy'.owner = task.browser.uid /\ deploy' # None /\ UNCHANGED <<api, svc>>
    <3>1. deploy' \in [owner: Nat, replicas: Nat] /\ deploy'.owner = task.browser.uid
      BY <1>1, <1>5 DEF EnsureDeployment
    <3> QED  BY <1>3, <1>5, <3>1 DEF EnsureDeployment, store
  <2>3. task'.step = "service" /\ task'.browser = task.browser
    BY <1>1, <1>5 DEF EnsureDeployment, Goto, TaskRecords
  <2> QED  BY <1>1, <1>2, <2>1, <2>2, <2>3
           DEF ChildrenInPlace, OwnerLives, AfterService, LauncherSteps
<1>6. CASE EnsureService
  <2>1. OwnerLives(task.browser.uid)
    BY <1>6, CopyIsAlive DEF EnsureService
  <2>2. svc' = task.browser.uid /\ UNCHANGED <<api, deploy>>
    BY <1>6 DEF EnsureService, store
  <2>3. deploy # None /\ deploy.owner = task.browser.uid
    BY <1>6 DEF EnsureService, ChildrenInPlace
  <2>4. task'.step \in {"idle", "pods", "status"}
        /\ (task'.step # "idle" => task'.browser = task.browser)
    BY <1>1, <1>6, IdleType DEF EnsureService, Goto, Report, Return, TaskRecords
  <2> QED  BY <1>1, <1>2, <2>1, <2>2, <2>3, <2>4
           DEF ChildrenInPlace, OwnerLives, AfterService, LauncherSteps
<1>7. CASE Worker /\ ~EnsureDeployment /\ ~EnsureService
  BY <1>4, <1>7, WorkerPlaces DEF IInv
<1>8. CASE User
  <2>1. UNCHANGED <<deploy, svc>> /\ task' = [task EXCEPT !.fresh = FALSE]
    BY <1>8 DEF User, CreateBrowser, EditSpec, DeleteBrowser, UserWrite, children
  <2>2. task'.step = task.step /\ task'.browser = task.browser
    BY <1>1, <2>1 DEF TaskRecords
  <2> QED  BY <1>4, <2>1, <2>2
<1>9. CASE OperatorRestart
  BY <1>4, <1>9, IdleType DEF OperatorRestart, AfterService, LauncherSteps
<1>10. CASE BrowserEvent \/ TimerFires \/ ChildEvent \/ Mishap \/ UNCHANGED vars
  <2>1. UNCHANGED <<deploy, svc, task>>
    BY <1>10 DEF BrowserEvent, TimerFires, ChildEvent, Mishap, Outside, Evict, StopPod,
                 PodBecomesUnready, ChromeRestarts, children, vars
  <2> QED  BY <1>4, <2>1
<1>11. CASE Outside(CollectDeployment)
  <2>1. /\ ~OwnerLives(deploy.owner) /\ deploy # None /\ deploy' = None
        /\ UNCHANGED <<api, svc, task>>
    BY <1>11 DEF Outside, CollectDeployment, store
  <2>2. task.step \notin AfterService \cup {"service"}
    BY <2>1, CopyIsAlive DEF ChildrenInPlace
  <2> QED  BY <2>1, <2>2 DEF ChildrenInPlace, OwnerLives
<1>12. CASE Outside(CollectService)
  <2>1. ~OwnerLives(svc) /\ svc' = None /\ UNCHANGED <<api, deploy, task>>
    BY <1>12 DEF Outside, CollectService, store
  <2>2. task.step \notin AfterService
    BY <2>1, CopyIsAlive DEF ChildrenInPlace
  <2> QED  BY <2>1, <2>2 DEF ChildrenInPlace, OwnerLives
<1>13. CASE Cluster /\ ~Outside(CollectDeployment) /\ ~Outside(CollectService)
  <2>1. UNCHANGED <<deploy, svc, task>>
    BY <1>13 DEF Cluster, ClaimStep, GarbageStep, KubeletStep, Outside, ClaimRemoved,
                 ClaimDelivered, StartPod, StartDefault, PodBecomesReady, ScaleDown,
                 StopPod, PodGone, children
  <2> QED  BY <1>4, <2>1
<1> QED  BY <1>5, <1>6, <1>7, <1>8, <1>9, <1>10, <1>11, <1>12, <1>13
         DEF Next, Calm, Disruption

\* Whoever publishes a status has both children.
LEMMA PublisherHolds ==
    ASSUME IInv, ChildrenInPlace, [Next]_vars,
           api'.exists, api'.uid = api.uid, api'.status # api.status
    PROVE  /\ deploy # None /\ OwnerLives(deploy.owner)
           /\ svc # None /\ OwnerLives(svc)
<1> USE DEF At
<1>1. At("status") /\ task.browser = api
  BY PublishedByUpdate DEF UpdateStatus, IInv, FreshIsCurrent
<1>2. api.exists /\ api.uid \in Nat
  BY <1>1 DEF IInv, TypeOK, CopyFitsStep, Browsers
<1> QED  BY <1>1, <1>2, WorkloadAssumption
         DEF ChildrenInPlace, AfterService, OwnerLives
==============================================================================
