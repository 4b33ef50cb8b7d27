----------------------- MODULE BrowserRefinement_proof -----------------------
(***************************************************************************)
(* Proof that the Browser reconciler implements BrowserContract: each of   *)
(* the steps that write the Browser or its claim is a step of the contract *)
(* or shows nothing, and no other step shows anything.                     *)
(***************************************************************************)
EXTENDS BrowserRefinement, BrowserClaims_proof, BrowserProgress

------------------------------------------------------------------------------
(* What others see of the versions the API server may hold. *)

Wants == [profile: Profiles, running: BOOLEAN, reclaimPolicy: {"Retain", "Delete"}]

SeenWants(spec) == [profile |-> ProfileUID(spec), running |-> spec.running,
                    reclaimPolicy |-> spec.reclaimPolicy]

LEMMA WantsType ==
    ASSUME NEW spec \in Specs
    PROVE  SeenWants(spec) \in Wants
BY ProfileUIDType DEF SeenWants, Wants, Specs

Life(obj) ==
    IF obj.deleting THEN "deleting" ELSE IF obj.finalizer THEN "managed" ELSE "new"

\* An object that exists, seen field by field.
LEMMA SeenFields ==
    ASSUME NEW obj \in Browsers, obj.exists
    PROVE  Seen(obj) = [life |-> Life(obj), wants |-> SeenWants(obj.spec),
                        phase |-> obj.status.phase, address |-> obj.status.target]
BY DEF Seen, SeenWants, Life, Browsers

LEMMA SeenGone ==
    ASSUME NEW obj, ~obj.exists
    PROVE  Seen(obj) = Contract!Absent
BY DEF Seen, Contract!Absent

LEMMA AbsentType == Contract!Absent \in Contract!Objects
BY DEF Contract!Absent, Contract!Objects, Contract!Lives, Contract!Phases

LEMMA SeenType ==
    ASSUME NEW obj \in Browsers
    PROVE  Seen(obj) \in Contract!Objects
<1>1. CASE obj.exists
  <2>1. Life(obj) \in Contract!Lives /\ SeenWants(obj.spec) \in Wants
    BY WantsType DEF Life, Contract!Lives, Browsers
  <2>2. /\ obj.status.phase \in Contract!Phases
        /\ obj.status.target \in Targets \cup {None}
    BY DEF Browsers, Statuses, Contract!Phases
  <2> QED  BY <1>1, <2>1, <2>2, SeenFields DEF Contract!Objects, Wants
<1>2. CASE ~obj.exists
  BY <1>2, SeenGone, AbsentType
<1> QED  BY <1>1, <1>2

\* Objects of the contract that agree on every field are equal.
LEMMA SameObject ==
    ASSUME NEW b \in Contract!Objects, NEW c \in Contract!Objects,
           b.life = c.life, b.wants = c.wants, b.phase = c.phase, b.address = c.address
    PROVE  b = c
BY DEF Contract!Objects

------------------------------------------------------------------------------
(* Each way of writing the Browser is one of the protocol. *)

LEMMA CreatedSeen ==
    ASSUME NEW uid \in Nat, NEW spec \in Specs
    PROVE  Seen(NewBrowser(uid, spec)) \in Contract!Created(Contract!Absent)
<1> DEFINE new == NewBrowser(uid, spec)
<1>1. /\ new \in Browsers /\ new.exists /\ ~new.deleting /\ ~new.finalizer
      /\ new.spec = spec /\ new.status = NoStatus
  BY NewBrowserType DEF NewBrowser
<1> HIDE DEF new
<1>2. Life(new) = "new"
  BY <1>1 DEF Life
<1>3. NoStatus.phase = "" /\ NoStatus.target = None
  BY DEF NoStatus
<1> DEFINE c == [Contract!Absent EXCEPT !.life = "new", !.wants = SeenWants(spec)]
<1>4. c \in Contract!Objects /\ SeenWants(spec) \in Wants
  BY AbsentType, WantsType DEF Contract!Objects, Contract!Lives, Wants
<1>5. /\ c.life = "new" /\ c.wants = SeenWants(spec) /\ c.phase = "" /\ c.address = None
      /\ Contract!Absent.life = "absent"
  <2>1. /\ Contract!Absent.life = "absent" /\ Contract!Absent.phase = ""
        /\ Contract!Absent.address = None
    BY DEF Contract!Absent
  <2> QED  BY <2>1, AbsentType DEF Contract!Objects
<1>6. c \in Contract!Created(Contract!Absent)
  BY <1>4, <1>5 DEF Contract!Created, Wants
<1> HIDE DEF c
<1>7. Seen(new) = c
  BY <1>1, <1>2, <1>3, <1>4, <1>5, SeenFields, SeenType, SameObject
<1> QED  BY <1>6, <1>7 DEF new

LEMMA EditedSeen ==
    ASSUME NEW obj \in Browsers, obj.exists, NEW spec \in Specs
    PROVE  Seen([obj EXCEPT !.spec = spec]) \in Contract!Edited(Seen(obj))
<1> DEFINE new == [obj EXCEPT !.spec = spec]
<1>1. /\ new \in Browsers /\ new.exists /\ new.spec = spec
      /\ new.deleting = obj.deleting /\ new.finalizer = obj.finalizer
      /\ new.status = obj.status
  BY BrowserTypes DEF Browsers
<1> HIDE DEF new
<1>2. SeenWants(spec) \in Wants
  BY WantsType
<1>3. Life(new) = Life(obj)
  BY <1>1 DEF Life
<1>4. Seen(new) = [Seen(obj) EXCEPT !.wants = SeenWants(spec)]
  BY <1>1, <1>3, SeenFields
<1> QED  BY <1>2, <1>4, SeenFields DEF new, Contract!Edited, Wants, Life

LEMMA AdoptedSeen ==
    ASSUME NEW obj \in Browsers, obj.exists, ~obj.deleting, ~obj.finalizer
    PROVE  Seen([obj EXCEPT !.finalizer = TRUE]) \in Contract!Adopted(Seen(obj))
<1> DEFINE new == [obj EXCEPT !.finalizer = TRUE]
<1>1. /\ new \in Browsers /\ new.exists /\ ~new.deleting /\ new.finalizer
      /\ new.spec = obj.spec /\ new.status = obj.status
  BY BrowserTypes DEF Browsers
<1> HIDE DEF new
<1>2. Seen(new) = [Seen(obj) EXCEPT !.life = "managed"] /\ Seen(obj).life = "new"
  BY <1>1, SeenFields DEF Life
<1> QED  BY <1>2 DEF new, Contract!Adopted

LEMMA DeletionSeen ==
    ASSUME NEW obj \in Browsers, obj.exists, ~obj.deleting
    PROVE  /\ obj.finalizer =>
                Seen([obj EXCEPT !.deleting = TRUE]) \in Contract!DeletionAsked(Seen(obj))
           /\ ~obj.finalizer => Contract!Absent \in Contract!DeletionAsked(Seen(obj))
<1>1. CASE obj.finalizer
  <2> DEFINE new == [obj EXCEPT !.deleting = TRUE]
  <2>1. /\ new \in Browsers /\ new.exists /\ new.deleting
        /\ new.spec = obj.spec /\ new.status = obj.status
    BY BrowserTypes DEF Browsers
  <2> HIDE DEF new
  <2>2. Seen(new) = [Seen(obj) EXCEPT !.life = "deleting"] /\ Seen(obj).life = "managed"
    BY <1>1, <2>1, SeenFields DEF Life
  <2> QED  BY <1>1, <2>2 DEF new, Contract!DeletionAsked
<1>2. CASE ~obj.finalizer
  BY <1>2, SeenFields DEF Contract!DeletionAsked, Life
<1> QED  BY <1>1, <1>2

LEMMA PublishedSeen ==
    ASSUME NEW obj \in Browsers, obj.exists, ~obj.deleting, obj.finalizer,
           task.browser = obj, NEW status \in Statuses, status \in Reportable
    PROVE  Seen([obj EXCEPT !.status = status]) \in Contract!Published(Seen(obj))
<1> DEFINE new == [obj EXCEPT !.status = status]
<1>1. /\ new \in Browsers /\ new.exists /\ new.spec = obj.spec /\ new.status = status
      /\ new.deleting = obj.deleting /\ new.finalizer = obj.finalizer
  BY BrowserTypes DEF Browsers
<1> HIDE DEF new
<1>2. Life(new) = Life(obj)
  BY <1>1 DEF Life
<1>3. /\ Seen(obj) \in Contract!Objects /\ Seen(new) \in Contract!Objects
      /\ Seen(new).life = Seen(obj).life /\ Seen(new).wants = Seen(obj).wants
      /\ Seen(new).phase = status.phase /\ Seen(new).address = status.target
      /\ Seen(obj).address = obj.status.target
  BY <1>1, <1>2, SeenFields, SeenType
<1>4. /\ Seen(obj).life = "managed" /\ Seen(obj).wants.running = obj.spec.running
      /\ Seen(obj).wants.profile = ProfileUID(obj.spec)
  BY SeenFields DEF SeenWants, Life
<1>5. CASE ~obj.spec.running
  <2> DEFINE c == [Seen(obj) EXCEPT !.phase = "Stopped", !.address = None]
  <2>1. status.phase = "Stopped" /\ status.target = None
    BY <1>5 DEF Reportable, Stopped
  <2>2. /\ c \in Contract!Objects /\ c.life = Seen(obj).life /\ c.wants = Seen(obj).wants
        /\ c.phase = "Stopped" /\ c.address = None
    BY <1>3 DEF Contract!Objects, Contract!Phases
  <2>3. c \in Contract!Published(Seen(obj))
    BY <1>4, <1>5 DEF Contract!Published
  <2> HIDE DEF c
  <2>4. Seen(new) = c
    BY <1>3, <2>1, <2>2, SameObject
  <2> QED  BY <2>3, <2>4 DEF new
<1>6. CASE obj.spec.running /\ \E m \in {"pod", "launcher"} : status = Creating(m)
  <2> DEFINE c == [Seen(obj) EXCEPT !.phase = "Creating"]
  <2>1. status.phase = "Creating" /\ status.target = obj.status.target
    BY <1>6 DEF Creating, Browsers, Statuses
  <2>2. /\ c \in Contract!Objects /\ c.life = Seen(obj).life /\ c.wants = Seen(obj).wants
        /\ c.phase = "Creating" /\ c.address = Seen(obj).address
    BY <1>3 DEF Contract!Objects, Contract!Phases
  <2>3. c \in Contract!Published(Seen(obj))
    BY <1>4, <1>6 DEF Contract!Published
  <2> HIDE DEF c
  <2>4. Seen(new) = c
    BY <1>3, <2>1, <2>2, SameObject
  <2> QED  BY <2>3, <2>4 DEF new
<1>7. CASE obj.spec.running /\ \E t \in Targets :
             status = Running(t) /\ ProfileUID(obj.spec) \in {t.profile, "default"}
  <2>1. PICK t \in Targets :
          status = Running(t) /\ ProfileUID(obj.spec) \in {t.profile, "default"}
    BY <1>7
  <2> DEFINE c == [Seen(obj) EXCEPT !.phase = "Running", !.address = t]
  <2>2. status.phase = "Running" /\ status.target = t
    BY <2>1 DEF Running
  <2>3. /\ c \in Contract!Objects /\ c.life = Seen(obj).life /\ c.wants = Seen(obj).wants
        /\ c.phase = "Running" /\ c.address = t
    BY <1>3 DEF Contract!Objects, Contract!Phases
  <2>4. t \in Contract!Suitable(Seen(obj).wants)
    BY <1>4, <2>1 DEF Contract!Suitable
  <2>5. c \in Contract!Published(Seen(obj))
    BY <1>4, <1>7, <2>4 DEF Contract!Published
  <2> HIDE DEF c
  <2>6. Seen(new) = c
    BY <1>3, <2>2, <2>3, SameObject
  <2> QED  BY <2>5, <2>6 DEF new
<1> QED  BY <1>5, <1>6, <1>7 DEF Reportable

LEMMA RemovedSeen ==
    ASSUME NEW obj \in Browsers, obj.exists, obj.deleting
    PROVE  Contract!Absent \in Contract!Removed(Seen(obj))
BY SeenFields DEF Contract!Removed, Life

------------------------------------------------------------------------------
(* Every step of the reconciler and its environment is one of the contract. *)

\* What a write of the Browser shows, if it shows anything.
LEMMA ObjectSeen ==
    ASSUME "reclaim" \notin Faults, IInv, ClaimInv, ObjectWrites
    PROVE  \/ Seen(api)' = Seen(api)
           \/ Seen(api)' \in Contract!Created(Seen(api)) \cup Contract!Edited(Seen(api))
                             \cup Contract!Adopted(Seen(api))
           \/ Seen(api)' \in Contract!DeletionAsked(Seen(api))
                             \cup Contract!Published(Seen(api))
           \/ /\ Seen(api)' \in Contract!Removed(Seen(api))
              /\ Seen(api).wants.reclaimPolicy = "Delete" => pvc # "bound"
<1> USE DEF At
<1>1. /\ api \in Browsers /\ api.uid \in Nat /\ task \in TaskRecords
      /\ api.deleting \in BOOLEAN /\ api.finalizer \in BOOLEAN
      /\ TypeOK /\ Safe /\ OutcomeFitsCopy /\ ClaimIsOwn
  BY IInvParts DEF TypeOK, Browsers, ClaimInv
<1>2. ASSUME NEW obj \in Browsers, api' = obj PROVE Seen(api)' = Seen(obj)
  BY <1>2 DEF Seen, ProfileUID
<1>3. task.fresh /\ task.step # "idle" =>
        task.browser = api /\ api.exists /\ (api.deleting <=> task.step \in DeletionSteps)
        /\ (task.step # "addFinalizer" => api.finalizer)
  BY <1>1 DEF Safe, FreshIsCurrent, CopyFitsStep
<1>4. CASE AddFinalizer
  <2>1. api.exists /\ ~api.deleting
    BY <1>3, <1>4 DEF AddFinalizer, DeletionSteps
  <2>2. api' = [api EXCEPT !.finalizer = TRUE] /\ [api EXCEPT !.finalizer = TRUE] \in Browsers
    BY <1>1, <1>4, BrowserTypes DEF AddFinalizer, Write
  <2>3. CASE api.finalizer
    <3>1. [api EXCEPT !.finalizer = TRUE] = api
      BY <1>1, <2>3 DEF Browsers
    <3> QED  BY <1>1, <1>2, <2>2, <3>1
  <2>4. CASE ~api.finalizer
    BY <1>1, <1>2, <2>1, <2>2, <2>4, AdoptedSeen
  <2> QED  BY <2>3, <2>4
<1>5. CASE UpdateStatus
  <2>1. task.browser = api /\ api.exists /\ ~api.deleting /\ api.finalizer
    BY <1>3, <1>5 DEF UpdateStatus, DeletionSteps
  <2>2. task.outcome \in Statuses /\ task.outcome \in Reportable
    BY <1>1, <1>5 DEF UpdateStatus, OutcomeFitsCopy, TaskRecords
  <2>3. /\ api' = [api EXCEPT !.status = task.outcome]
        /\ [api EXCEPT !.status = task.outcome] \in Browsers
    BY <1>1, <1>5, <2>2, BrowserTypes DEF UpdateStatus, Write
  <2>4. Seen([api EXCEPT !.status = task.outcome]) \in Contract!Published(Seen(api))
    BY <1>1, <2>1, <2>2, PublishedSeen
  <2> QED  BY <1>2, <2>3, <2>4
<1>6. CASE RemoveFinalizer
  <2>1. /\ task.step = "removeFinalizer" /\ task.browser = api /\ api.exists /\ api.deleting
        /\ api' = Gone(api) /\ Gone(api) \in Browsers /\ ~Gone(api).exists
    BY <1>1, <1>6, LastVersion, BrowserTypes DEF RemoveFinalizer, Write, Gone, Browsers
  <2>2. Seen(api)' \in Contract!Removed(Seen(api))
    BY <1>1, <1>2, <2>1, SeenGone, RemovedSeen
  <2>3. Seen(api).wants.reclaimPolicy = "Delete" => pvc # "bound"
    <3>1. Seen(api).wants.reclaimPolicy = api.spec.reclaimPolicy
      BY <1>1, <2>1, SeenFields DEF SeenWants
    <3> QED  BY <1>1, <2>1, <3>1 DEF ClaimIsOwn, Reclaiming
  <2> QED  BY <2>2, <2>3
<1>7. CASE CreateBrowser
  <2>1. PICK s \in SpecChoices : UserWrite(NewBrowser(api.uid + 1, s))
    BY <1>7 DEF CreateBrowser
  <2>2. s \in Specs /\ api.uid + 1 \in Nat
    BY <1>1, ReconcilerAssumption
  <2>3. Seen(api)' = Seen(NewBrowser(api.uid + 1, s))
    BY <1>2, <2>1, <2>2, NewBrowserType DEF UserWrite, Write
  <2>4. Seen(api) = Contract!Absent
    BY <1>7, SeenGone DEF CreateBrowser
  <2> QED  BY <2>2, <2>3, <2>4, CreatedSeen
<1>8. CASE EditSpec
  <2>1. PICK s \in SpecChoices : UserWrite([api EXCEPT !.spec = s])
    BY <1>8 DEF EditSpec
  <2>2. s \in Specs /\ api.exists /\ [api EXCEPT !.spec = s] \in Browsers
    BY <1>1, <1>8, ReconcilerAssumption, BrowserTypes DEF EditSpec
  <2>3. Seen(api)' = Seen([api EXCEPT !.spec = s])
    BY <1>2, <2>1, <2>2 DEF UserWrite, Write
  <2> QED  BY <1>1, <2>2, <2>3, EditedSeen
<1>9. CASE DeleteBrowser
  <2>1. api.exists /\ ~api.deleting
    BY <1>9 DEF DeleteBrowser
  <2>2. CASE api.finalizer
    <3>1. Seen(api)' = Seen([api EXCEPT !.deleting = TRUE])
      BY <1>1, <1>2, <1>9, <2>2, BrowserTypes DEF DeleteBrowser, UserWrite, Write
    <3> QED  BY <1>1, <2>1, <2>2, <3>1, DeletionSeen
  <2>3. CASE ~api.finalizer
    <3>1. Seen(api)' = Seen(Gone(api)) /\ ~Gone(api).exists
      BY <1>1, <1>2, <1>9, <2>3, BrowserTypes
         DEF DeleteBrowser, UserWrite, Write, Gone, Browsers
    <3> QED  BY <1>1, <2>1, <2>3, <3>1, DeletionSeen, SeenGone
  <2> QED  BY <2>2, <2>3
<1> QED  BY <1>4, <1>5, <1>6, <1>7, <1>8, <1>9 DEF ObjectWrites, User

\* The claim goes from one state to the next at the times the contract allows.
LEMMA ClaimSeen ==
    ASSUME "reclaim" \notin Faults, IInv, ClaimInv, [Next]_vars
    PROVE  \/ pvc' = pvc
           \/ pvc = "absent" /\ pvc' = "bound" /\ Seen(api).life \in {"managed", "deleting"}
           \/ pvc = "bound" /\ pvc' = "terminating" /\ Seen(api).life = "deleting"
           \/ pvc = "terminating" /\ pvc' = "absent"
<1> USE DEF At
<1>1. api \in Browsers /\ TypeOK /\ task \in TaskRecords /\ task.browser \in Browsers
  BY DEF IInv, TypeOK, TaskRecords
<1>2. CASE EnsurePVC
  <2>1. CASE pvc = "absent" /\ pvc' = "bound"
    <3>1. OwnerLives(task.browser.uid) /\ api.finalizer
      BY <2>1, ChildrenStep
    <3> QED  BY <1>1, <2>1, <3>1, SeenFields DEF OwnerLives, Life
  <2> QED  BY <1>2, <2>1 DEF EnsurePVC
<1>3. CASE DeletePVC
  <2>1. CASE pvc = "bound" /\ pvc' = "terminating"
    <3>1. Reclaiming(task.browser)
      BY <1>1, <1>3, <2>1
         DEF DeletePVC, Reclaiming, IInv, CopyFitsStep, DeletionSteps, Browsers
    <3>2. OwnerLives(task.browser.uid) /\ api.deleting
      BY <1>3, <2>1, <3>1 DEF DeletePVC, ClaimInv, ClaimIsOwn, Copies
    <3> QED  BY <1>1, <2>1, <3>2, SeenFields DEF OwnerLives, Life
  <2> QED  BY <1>3, <2>1 DEF DeletePVC
<1>4. CASE EnsureDeployment \/ EnsureService
  BY <1>4 DEF EnsureDeployment, EnsureService
<1>5. CASE Cluster
  BY <1>5 DEF Cluster, ClaimStep, GarbageStep, KubeletStep, Outside, children,
              ClaimRemoved, ClaimDelivered, CollectDeployment, CollectService,
              StartPod, StartDefault, PodBecomesReady, ScaleDown, PodGone, StopPod
<1>6. CASE UNCHANGED pvc
  BY <1>6
<1> QED  BY <1>2, <1>3, <1>4, <1>5, <1>6, ChildrenWriters

LEMMA ContractStep ==
    ASSUME "reclaim" \notin Faults, IInv, ClaimInv, [Next]_vars
    PROVE  [Contract!Next]_(Contract!vars)
<1>1. CASE ObjectWrites
  <2>1. UNCHANGED pvc
    BY <1>1, IInvParts, WritesAdd
  <2> QED  BY <1>1, <2>1, ObjectSeen DEF Contract!Next, Contract!ObjectStep, Contract!vars
<1>2. CASE ~ObjectWrites
  <2>1. api' = api
    BY <1>2, IInvParts, CopiesShrink DEF Safe
  <2>2. Seen(api)' = Seen(api)
    BY <2>1 DEF Seen, ProfileUID
  <2> QED  BY <2>2, ClaimSeen DEF Contract!Next, Contract!ClaimStep, Contract!vars
<1> QED  BY <1>1, <1>2

\* With a cache that lags, reconciles on old copies and operators that die, users
\* and the Controller reconciler see nothing but the contract: the reconciler
\* implements it, for any specs, profiles, pods and failures but a failed delete
\* of the claim, after which the finalizer goes and the claim stays.
THEOREM Implementation ==
    ASSUME "reclaim" \notin Faults
    PROVE  Spec => ImplementsContract
<1>1. Init => Contract!Init
  <2>1. Init => ~api.exists /\ pvc = "absent"
    BY DEF Init, Idle, Gone, NewBrowser
  <2> QED  BY <2>1, SeenGone DEF Contract!Init
<1>2. IInv /\ ClaimInv /\ [Next]_vars => [Contract!Next]_(Contract!vars)
  BY ContractStep
<1> QED  BY <1>1, <1>2, Invariance, ClaimInvariance, PTL
         DEF Spec, ImplementsContract, Contract!Spec

------------------------------------------------------------------------------
(* The bounded system of BrowserProgress, where users delete Deployment and   *)
(* Service by hand, takes the same steps and that one more.                   *)

\* Only the failures differ: the rest of the reconciler is the same.
LEMMA QuietParts ==
    /\ Quiet!Idle = Idle
    /\ \A requeue : Quiet!Return(requeue) <=> Return(requeue)
    /\ \A status : Quiet!Report(status) <=> Report(status)
    /\ \A m : Quiet!Creating(m) = Creating(m)
    /\ \A t : Quiet!Running(t) = Running(t)
    /\ Quiet!Stopped = Stopped
    /\ \A step : (Quiet!Goto(step) <=> Goto(step)) /\ (Quiet!At(step) <=> At(step))
    /\ \A obj : (Quiet!Write(obj) <=> Write(obj)) /\ Quiet!Gone(obj) = Gone(obj)
    /\ \A spec : Quiet!ProfileUID(spec) = ProfileUID(spec)
    /\ \A q : Quiet!Discovered(q) <=> Discovered(q)
    /\ \A p : /\ Quiet!PodReady(p) <=> PodReady(p)
              /\ Quiet!Serving(p) <=> Serving(p)
              /\ Quiet!Served(p) = Served(p)
    /\ Quiet!Synced = Synced
<1>1. Quiet!Idle = Idle
  <2>1. Quiet!Specs = Specs
    BY DEF Quiet!Specs, Specs
  <2>2. Quiet!NoStatus = NoStatus
    BY DEF Quiet!NoStatus, NoStatus
  <2>3. \A uid, spec : Quiet!NewBrowser(uid, spec) = NewBrowser(uid, spec)
    BY <2>2 DEF Quiet!NewBrowser, NewBrowser
  <2>4. \A obj : Quiet!Gone(obj) = Gone(obj)
    BY <2>2 DEF Quiet!Gone, Gone
  <2> QED  BY <2>1, <2>2, <2>3, <2>4, Zenon DEF Quiet!Idle, Idle
<1>2. \A requeue : Quiet!Return(requeue) <=> Return(requeue)
  BY <1>1 DEF Quiet!Return, Return
<1>3. \A status : Quiet!Report(status) <=> Report(status)
  BY <1>2 DEF Quiet!Report, Report, Quiet!Reported, Reported
<1>4. /\ \A m : Quiet!Creating(m) = Creating(m)
      /\ \A t : Quiet!Running(t) = Running(t)
      /\ Quiet!Stopped = Stopped
  BY DEF Quiet!Creating, Creating, Quiet!Running, Running, Quiet!Stopped, Stopped
<1>5. \A step : (Quiet!Goto(step) <=> Goto(step)) /\ (Quiet!At(step) <=> At(step))
  BY DEF Quiet!Goto, Goto, Quiet!At, At
<1>6. \A obj : (Quiet!Write(obj) <=> Write(obj)) /\ Quiet!Gone(obj) = Gone(obj)
  BY DEF Quiet!Write, Write, Quiet!Gone, Gone, Quiet!NoStatus, NoStatus
<1>7. \A spec : Quiet!ProfileUID(spec) = ProfileUID(spec)
  BY DEF Quiet!ProfileUID, ProfileUID
<1>8. \A q : Quiet!Discovered(q) <=> Discovered(q)
  BY <1>3, <1>4 DEF Quiet!Discovered, Discovered
<1>9. /\ \A p : /\ Quiet!PodReady(p) <=> PodReady(p)
                /\ Quiet!Serving(p) <=> Serving(p)
                /\ Quiet!Served(p) = Served(p)
      /\ Quiet!Synced = Synced
  BY DEF Quiet!PodReady, PodReady, Quiet!Serving, Serving, Quiet!Served, Served,
         Quiet!Synced, Synced
<1> QED  BY <1>1, <1>2, <1>3, <1>4, <1>5, <1>6, <1>7, <1>8, <1>9

\* Without failures there is less a call can do.
LEMMA CallsWithoutFailures == Quiet!Worker => Worker
<1> USE DEF Quiet!store, store, Quiet!children, children, Quiet!runtime, runtime,
            Quiet!queue, queue
<1>1. Quiet!Reconcile => Reconcile
  BY QuietParts DEF Quiet!Reconcile, Reconcile, Quiet!FirstStep, FirstStep,
                    Quiet!CaughtUp, CaughtUp
<1>2. /\ Quiet!AddFinalizer => AddFinalizer
      /\ Quiet!RemoveFinalizer => RemoveFinalizer
      /\ Quiet!UpdateStatus => UpdateStatus
      /\ Quiet!UpdateRefused => UpdateRefused
  BY QuietParts DEF Quiet!AddFinalizer, AddFinalizer, Quiet!RemoveFinalizer, RemoveFinalizer,
                    Quiet!UpdateStatus, UpdateStatus, Quiet!UpdateRefused, UpdateRefused
<1>3. /\ Quiet!DeletePVC => DeletePVC
      /\ Quiet!EnsurePVC => EnsurePVC
      /\ Quiet!EnsureDeployment => EnsureDeployment
      /\ Quiet!EnsureService => EnsureService
      /\ Quiet!EnsureFails => EnsureFails
  BY QuietParts DEF Quiet!DeletePVC, DeletePVC, Quiet!EnsurePVC, EnsurePVC,
                    Quiet!EnsureDeployment, EnsureDeployment, Quiet!EnsureService,
                    EnsureService, Quiet!EnsureFails, EnsureFails
<1>4. Quiet!FindReadyPod => FindReadyPod
  BY QuietParts DEF Quiet!FindReadyPod, FindReadyPod, Quiet!ReadCookies, ReadCookies
<1>5. Quiet!ListLauncherBrowsers => ListLauncherBrowsers
  BY QuietParts DEF Quiet!ListLauncherBrowsers, ListLauncherBrowsers
<1>6. Quiet!CreateLauncherBrowser => CreateLauncherBrowser
  BY QuietParts DEF Quiet!CreateLauncherBrowser, CreateLauncherBrowser
<1>7. Quiet!GetInstalledExtensions => GetInstalledExtensions
  BY QuietParts DEF Quiet!GetInstalledExtensions, GetInstalledExtensions
<1>8. Quiet!InstalledExtensionsUnknown => InstalledExtensionsUnknown
  BY QuietParts DEF Quiet!InstalledExtensionsUnknown, InstalledExtensionsUnknown
<1>9. Quiet!AddExtensions => AddExtensions
  BY QuietParts DEF Quiet!AddExtensions, AddExtensions
<1>10. Quiet!LauncherCallFails => LauncherCallFails
  BY QuietParts DEF Quiet!LauncherCallFails, LauncherCallFails
<1> QED  BY <1>1, <1>2, <1>3, <1>4, <1>5, <1>6, <1>7, <1>8, <1>9, <1>10
         DEF Quiet!Worker, Worker

LEMMA CalmWithoutFailures == Quiet!Calm => Calm
<1> USE DEF Quiet!store, store, Quiet!children, children, Quiet!runtime, runtime,
            Quiet!queue, queue
<1>1. Quiet!BrowserEvent \/ Quiet!TimerFires \/ Quiet!ChildEvent =>
        BrowserEvent \/ TimerFires \/ ChildEvent
  BY DEF Quiet!BrowserEvent, BrowserEvent, Quiet!Deliver, Deliver, Quiet!TimerFires,
         TimerFires, Quiet!ChildEvent, ChildEvent
<1>2. Quiet!ClaimStep => ClaimStep
  BY DEF Quiet!ClaimStep, ClaimStep, Quiet!Outside, Outside, Quiet!ClaimRemoved,
         ClaimRemoved, Quiet!ClaimDelivered, ClaimDelivered
<1>3. Quiet!GarbageStep => GarbageStep
  BY DEF Quiet!GarbageStep, GarbageStep, Quiet!Outside, Outside, Quiet!CollectDeployment,
         CollectDeployment, Quiet!CollectService, CollectService, Quiet!OwnerLives, OwnerLives
<1>4. ASSUME NEW p \in Pods, Quiet!KubeletStep(p) PROVE KubeletStep(p)
  <2>1. Quiet!StartPod(p) => StartPod(p)
    BY DEF Quiet!StartPod, StartPod, Quiet!PodWanted, PodWanted
  <2>2. Quiet!StartDefault(p) => StartDefault(p)
    BY DEF Quiet!StartDefault, StartDefault
  <2>3. Quiet!PodBecomesReady(p) => PodBecomesReady(p)
    BY DEF Quiet!PodBecomesReady, PodBecomesReady
  <2>4. (Quiet!ScaleDown(p) => ScaleDown(p)) /\ (Quiet!PodGone(p) => PodGone(p))
    BY DEF Quiet!ScaleDown, ScaleDown, Quiet!PodWanted, PodWanted, Quiet!StopPod, StopPod,
           Quiet!PodGone, PodGone, Quiet!Off, Off
  <2> QED  BY <1>4, <2>1, <2>2, <2>3, <2>4 DEF Quiet!KubeletStep, KubeletStep,
                                               Quiet!Outside, Outside
<1> QED  BY <1>1, <1>2, <1>3, <1>4, CallsWithoutFailures
         DEF Quiet!Calm, Calm, Quiet!Cluster, Cluster

LEMMA BoundedSteps == BoundedNext => Next \/ Outside(DeleteChild)
BY CalmWithoutFailures DEF BoundedNext, Smooth, Disturbed, Next, Calm

\* What the invariants say of the Deployment and the Service is their type.
LEMMA ByHand ==
    ASSUME IInv, ClaimInv, Outside(DeleteChild)
    PROVE  IInv' /\ ClaimInv' /\ UNCHANGED Contract!vars
<1>1. /\ UNCHANGED <<api, cache, unseen, pvc, pvcSeen, pods, launcher, queued, timer, task>>
      /\ deploy' \in {deploy, None} /\ svc' \in {svc, None}
  BY DEF Outside, DeleteChild, store, runtime, queue
<1>2. TypeOK'
  BY <1>1 DEF IInv, TypeOK
<1>3. /\ TaskTyped' /\ DeletedHasFinalizer' /\ CacheFollows' /\ FreshIsCurrent'
      /\ CopyFitsStep' /\ GuardedIsAlive' /\ NoLostWakeup'
  BY <1>1 DEF IInv, TaskTyped, DeletedHasFinalizer, CacheFollows, FreshIsCurrent,
              CopyFitsStep, GuardedIsAlive, Guarded, NoLostWakeup, Versions, OwnerLives,
              CaughtUp, At
<1>4. OutcomeFitsCopy' /\ LauncherAsRead'
  BY <1>1 DEF IInv, OutcomeFitsCopy, LauncherAsRead, Reportable, Stopped, Creating, Running,
              ProfileUID, Synced, At
<1>5. ClaimInv'
  BY <1>1 DEF ClaimInv, UidsGrow, DeletionIsFinal, ClaimIsOwn, Copies, Reclaiming, Versions,
              OwnerLives, At
<1>6. UNCHANGED Contract!vars
  BY <1>1 DEF Contract!vars, Seen, ProfileUID
<1> QED  BY <1>2, <1>3, <1>4, <1>5, <1>6 DEF IInv

\* Nor does anybody see more when Deployment or Service are deleted by hand and
\* failures come and go.
THEOREM BoundedImplementation ==
    ASSUME "reclaim" \notin Faults
    PROVE  ProgressSpec => ImplementsContract
<1>1. BoundedInit => IInv /\ ClaimInv /\ Contract!Init
  <2>1. Init => ~api.exists /\ pvc = "absent"
    BY DEF Init, Idle, Gone, NewBrowser
  <2> QED  BY <2>1, InitTypes, InitSafe, IInvParts, InitClaims, SeenGone
           DEF BoundedInit, Contract!Init
<1>2. IInv /\ ClaimInv /\ [BoundedNext]_allVars => IInv' /\ ClaimInv'
  <2>1. [BoundedNext]_allVars => [Next]_vars \/ Outside(DeleteChild)
    BY BoundedSteps DEF allVars
  <2> QED  BY <2>1, ByHand, IInvPreserved, UidsPreserved, FinalPreserved, ClaimPreserved
           DEF ClaimInv, IInv, Safe
<1>3. IInv /\ ClaimInv /\ [BoundedNext]_allVars => [Contract!Next]_(Contract!vars)
  <2>1. [BoundedNext]_allVars => [Next]_vars \/ Outside(DeleteChild)
    BY BoundedSteps DEF allVars
  <2> QED  BY <2>1, ByHand, ContractStep
<1> QED  BY <1>1, <1>2, <1>3, PTL DEF ProgressSpec, ImplementsContract, Contract!Spec
==============================================================================
