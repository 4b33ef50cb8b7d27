------------------------- MODULE BrowserClaims_proof -------------------------
(***************************************************************************)
(* Proofs about the volume claim of a Browser: it goes only at the request *)
(* of the Browser there is, and it does go when the policy is Delete.      *)
(*                                                                         *)
(* The argument has two sides.  Versions reach the worker in the order they*)
(* were written and deletions are final, so a worker that deletes a claim  *)
(* is late at most about the spec, not about who is being deleted.  And the*)
(* finalizer goes only under the current resourceVersion, when no older    *)
(* version is left to be acted on.                                         *)
(***************************************************************************)
EXTENDS BrowserReconciler_proof

------------------------------------------------------------------------------
(* The steps that write the Browser, and all the others. *)

ObjectWrites == AddFinalizer \/ RemoveFinalizer \/ UpdateStatus \/ User

\* A call of the worker that does not write the Browser keeps the copy or ends
\* the reconcile.
LEMMA QuietWorker ==
    ASSUME TypeOK, Worker, ~Reconcile, ~ObjectWrites
    PROVE  /\ UNCHANGED store /\ task.step # "idle"
           /\ task' = Idle \/ task'.browser = task.browser
           /\ task'.step = "removeFinalizer" => DeletePVC
           /\ DeletePVC \/ EnsurePVC \/ UNCHANGED pvc
<1> USE DEF At, children, ObjectWrites
<1>1. task \in TaskRecords
  BY DEF TypeOK
<1>2. ASSUME NEW step, Goto(step) PROVE task'.step = step /\ task'.browser = task.browser
  BY <1>1, <1>2 DEF Goto, TaskRecords
<1>3. ASSUME NEW status, Report(status)
      PROVE  /\ task' = Idle \/ task'.browser = task.browser
             /\ task'.step # "removeFinalizer"
  <2>1. CASE task' = Idle
    BY <2>1, IdleType
  <2>2. CASE task' = [task EXCEPT !.step = "status", !.outcome = status]
    BY <1>1, <2>2 DEF TaskRecords
  <2> QED  BY <1>3, <2>1, <2>2 DEF Report, Return
<1>4. CASE DeletePVC
  BY <1>2, <1>4 DEF DeletePVC
<1>5. CASE EnsurePVC \/ EnsureDeployment
  BY <1>2, <1>5 DEF EnsurePVC, EnsureDeployment
<1>6. CASE EnsureService
  BY <1>2, <1>3, <1>6 DEF EnsureService
<1>7. CASE EnsureFails \/ UpdateRefused
  BY <1>7, IdleType DEF EnsureFails, UpdateRefused, Return
<1>8. CASE FindReadyPod
  <2>1. CASE \E p \in Pods, loaded \in BOOLEAN :
               task' = [task EXCEPT !.step = "list", !.pod = p, !.cookies = loaded]
    <3>1. task'.browser = task.browser /\ task'.step = "list"
      BY <1>1, <2>1 DEF TaskRecords
    <3> QED  BY <1>8, <3>1 DEF FindReadyPod
  <2> QED  BY <1>3, <1>8, <2>1 DEF FindReadyPod
<1>9. CASE ListLauncherBrowsers
  <2>1. ASSUME NEW q, Discovered(q)
        PROVE  /\ task' = Idle \/ task'.browser = task.browser
               /\ task'.step # "removeFinalizer"
    <3>1. CASE \E t : task' = [task EXCEPT !.step = "extensions", !.target = t]
      BY <1>1, <3>1 DEF TaskRecords
    <3> QED  BY <1>3, <2>1, <3>1 DEF Discovered
  <2> QED  BY <1>2, <1>3, <1>9, <2>1 DEF ListLauncherBrowsers
<1>10. CASE CreateLauncherBrowser
  BY <1>3, <1>10 DEF CreateLauncherBrowser
<1>11. CASE GetInstalledExtensions
  <2>1. CASE \E m : task' = [task EXCEPT !.step = "addExtensions", !.missing = m]
    <3>1. task'.browser = task.browser /\ task'.step = "addExtensions"
      BY <1>1, <2>1 DEF TaskRecords
    <3> QED  BY <1>11, <3>1 DEF GetInstalledExtensions
  <2> QED  BY <1>3, <1>11, <2>1 DEF GetInstalledExtensions
<1>12. CASE InstalledExtensionsUnknown \/ AddExtensions \/ LauncherCallFails
  BY <1>3, <1>12 DEF InstalledExtensionsUnknown, AddExtensions, LauncherCallFails
<1> QED  BY <1>4, <1>5, <1>6, <1>7, <1>8, <1>9, <1>10, <1>11, <1>12 DEF Worker

\* Whatever does not write the Browser moves copies along: from the API server
\* to the cache, and from the cache to the worker.
LEMMA CopiesMove ==
    ASSUME TypeOK, [Next]_vars, ~ObjectWrites
    PROVE  /\ \/ /\ UNCHANGED store
                 /\ \/ task'.step = "idle" \/ task'.browser = cache
                    \/ task.step # "idle" /\ task'.browser = task.browser
              \/ Deliver /\ UNCHANGED task
              \/ Relist /\ task'.step = "idle"
           /\ task'.step = "removeFinalizer" =>
                  DeletePVC \/ (task.step = "removeFinalizer" /\ task'.browser = task.browser)
           /\ DeletePVC \/ EnsurePVC \/ (pvc' = "bound" => pvc = "bound")
<1> USE DEF At
<1>1. CASE Reconcile
  <2>1. UNCHANGED <<store, pvc>>
    BY <1>1 DEF Reconcile, children
  <2>2. CASE task' = Idle
    BY <2>1, <2>2, IdleType
  <2>3. CASE task' = [Idle EXCEPT !.step = FirstStep(cache), !.browser = cache,
                                  !.fresh = CaughtUp]
    <3>1. task'.browser = cache /\ task'.step = FirstStep(cache)
      BY <2>3, IdleType DEF TaskRecords
    <3>2. FirstStep(cache) # "removeFinalizer"
      BY DEF FirstStep, TypeOK, Browsers
    <3> QED  BY <2>1, <3>1, <3>2
  <2> QED  BY <1>1, <2>2, <2>3 DEF Reconcile, Return
<1>2. CASE Worker /\ ~Reconcile
  BY <1>2, QuietWorker, IdleType
<1>3. CASE BrowserEvent
  BY <1>3 DEF BrowserEvent, children
<1>4. CASE OperatorRestart
  BY <1>4, IdleType DEF OperatorRestart
<1>5. CASE TimerFires \/ ChildEvent \/ Cluster \/ Mishap \/ UNCHANGED vars
  <2>1. UNCHANGED <<store, task>> /\ (pvc' = "bound" => pvc = "bound")
    BY <1>5 DEF TimerFires, ChildEvent, Cluster, Mishap, ClaimStep, GarbageStep,
                KubeletStep, Outside, vars, children,
                ClaimRemoved, ClaimDelivered, CollectDeployment, CollectService,
                StartPod, StartDefault, PodBecomesReady, ScaleDown, PodGone,
                Evict, StopPod, PodBecomesUnready, ChromeRestarts
  <2> QED  BY <2>1
<1> QED  BY <1>1, <1>2, <1>3, <1>4, <1>5 DEF Next, Calm, Disruption, ObjectWrites

------------------------------------------------------------------------------
(* Versions come in the order of their uids. *)

LEMMA UnseenVersions ==
    ASSUME TypeOK
    PROVE  /\ \A i \in 1 .. Len(unseen) : unseen[i] \in Versions /\ unseen[i].uid \in Nat
           /\ \A v \in Versions : v.uid \in Nat
<1>1. unseen \in Seq(Browsers)
  BY DEF TypeOK
<1>2. \A i \in 1 .. Len(unseen) : unseen[i] \in Browsers
  BY <1>1
<1>3. api \in Browsers /\ cache \in Browsers
  BY DEF TypeOK
<1> QED  BY <1>2, <1>3 DEF Versions, Browsers

LEMMA WriteUids ==
    ASSUME TypeOK, CacheFollows, UidsGrow, NEW obj \in Browsers, Write(obj), api.uid <= obj.uid,
           task'.step = "idle" \/ (task.step # "idle" /\ task'.browser.uid = task.browser.uid)
    PROVE  UidsGrow'
<1>1. unseen \in Seq(Browsers) /\ api.uid \in Nat /\ obj.uid \in Nat
  BY DEF TypeOK, Browsers
<1>2. api' = obj /\ cache' = cache /\ unseen' = Append(unseen, obj)
  BY DEF Write
<1>3. /\ Len(unseen) \in Nat /\ Len(unseen') = Len(unseen) + 1
      /\ unseen'[Len(unseen')] = obj
      /\ \A i \in 1 .. Len(unseen) : unseen'[i] = unseen[i]
      /\ \A i \in 1 .. Len(unseen) : unseen[i] \in Versions /\ unseen[i].uid \in Nat
  BY <1>1, <1>2, UnseenVersions
<1>4. \A i \in 1 .. Len(unseen') : i \in 1 .. Len(unseen) \/ i = Len(unseen')
  BY <1>3
<1>5. /\ cache.uid \in Nat /\ cache.uid <= api.uid
      /\ \A i \in 1 .. Len(unseen) : cache.uid <= unseen[i].uid /\ unseen[i].uid <= api.uid
  <2>1. cache.uid \in Nat /\ cache \in Versions
    BY DEF TypeOK, Browsers, Versions
  <2> QED  BY <1>3, <2>1 DEF UidsGrow
<1>6. \A v \in Versions' : cache'.uid <= v.uid /\ v.uid <= api'.uid
  <2>1. Versions' \subseteq Versions \cup {obj}
    BY WriteStore
  <2>2. \A v \in Versions : v.uid \in Nat /\ cache.uid <= v.uid /\ v.uid <= api.uid
    BY UnseenVersions DEF UidsGrow
  <2> QED  BY <1>1, <1>2, <1>5, <2>1, <2>2
<1>7. \A i, j \in 1 .. Len(unseen') : i <= j => unseen'[i].uid <= unseen'[j].uid
  <2> SUFFICES ASSUME NEW i \in 1 .. Len(unseen'), NEW j \in 1 .. Len(unseen'), i <= j
               PROVE  unseen'[i].uid <= unseen'[j].uid
    OBVIOUS
  <2>1. CASE j \in 1 .. Len(unseen)
    <3>1. i \in 1 .. Len(unseen)
      BY <1>3, <2>1
    <3> QED  BY <1>3, <2>1, <3>1 DEF UidsGrow
  <2>2. CASE j = Len(unseen')
    <3>1. unseen'[j] = obj
      BY <1>3, <2>2
    <3>2. CASE i \in 1 .. Len(unseen)
      BY <1>1, <1>3, <1>5, <3>1, <3>2
    <3>3. CASE i = Len(unseen')
      BY <1>1, <2>2, <3>1, <3>3
    <3> QED  BY <1>4, <3>2, <3>3
  <2> QED  BY <1>4, <2>1, <2>2
<1>8. task'.step # "idle" => task'.browser.uid <= cache'.uid
  BY <1>2 DEF UidsGrow, At
<1> QED  BY <1>6, <1>7, <1>8 DEF UidsGrow, At

LEMMA DeliverUids ==
    ASSUME TypeOK, UidsGrow, Deliver, UNCHANGED task
    PROVE  UidsGrow'
<1>1. unseen \in Seq(Browsers) /\ unseen # <<>>
  BY DEF TypeOK, Deliver
<1>2. /\ Len(unseen) \in Nat \ {0} /\ Len(unseen') = Len(unseen) - 1
      /\ api' = api /\ cache' = unseen[1]
      /\ \A i \in 1 .. Len(unseen') : i + 1 \in 1 .. Len(unseen) /\ unseen'[i] = unseen[i + 1]
  BY <1>1 DEF Deliver
<1>3. \A i \in 1 .. Len(unseen) :
         /\ unseen[i].uid \in Nat
         /\ cache.uid <= unseen[i].uid /\ unseen[i].uid <= api.uid
         /\ unseen[1].uid <= unseen[i].uid
  BY <1>1, <1>2, UnseenVersions DEF UidsGrow
<1>4. 1 \in 1 .. Len(unseen)
  BY <1>2
<1>5. \A v \in Versions' : cache'.uid <= v.uid /\ v.uid <= api'.uid
  <2> SUFFICES ASSUME NEW v \in Versions' PROVE cache'.uid <= v.uid /\ v.uid <= api'.uid
    OBVIOUS
  <2>1. CASE v = api' \/ v = cache'
    BY <1>2, <1>3, <1>4, <2>1 DEF TypeOK, Browsers
  <2>2. CASE \E i \in 1 .. Len(unseen') : v = unseen'[i]
    BY <1>2, <1>3, <2>2
  <2> QED  BY <2>1, <2>2 DEF Versions
<1>6. \A i, j \in 1 .. Len(unseen') : i <= j => unseen'[i].uid <= unseen'[j].uid
  BY <1>2 DEF UidsGrow
<1>7. task'.step # "idle" => task'.browser.uid <= cache'.uid
  <2>1. cache.uid \in Nat /\ task.browser.uid \in Nat
    BY DEF TypeOK, TaskRecords, Browsers
  <2> QED  BY <1>2, <1>3, <1>4, <2>1 DEF UidsGrow, At
<1> QED  BY <1>5, <1>6, <1>7 DEF UidsGrow, At

\* The uid of what the API server is given.
LEMMA UidsPreserved ==
    ASSUME TypeOK, Safe, UidsGrow, [Next]_vars
    PROVE  UidsGrow'
<1> USE DEF At
<1>1. /\ api \in Browsers /\ api.uid \in Nat /\ cache \in Browsers /\ cache.uid \in Nat
      /\ task \in TaskRecords /\ CacheFollows
  BY DEF TypeOK, Browsers, Safe
<1>2. ASSUME NEW obj \in Browsers, UserWrite(obj), api.uid <= obj.uid PROVE UidsGrow'
  <2>1. task'.browser = task.browser /\ task'.step = task.step
    BY <1>1, <1>2 DEF UserWrite, TaskRecords
  <2> QED  BY <1>1, <1>2, <2>1, WriteUids DEF UserWrite
<1>3. CASE AddFinalizer
  <2> DEFINE obj == [api EXCEPT !.finalizer = TRUE]
  <2>1. obj \in Browsers /\ obj.uid = api.uid
    BY <1>1, BrowserTypes DEF Browsers
  <2>2. task.step # "idle" /\ task.browser = api /\ task'.browser = obj
    BY <1>1, <1>3 DEF AddFinalizer, Safe, FreshIsCurrent, TaskRecords
  <2>3. Write(obj) /\ api.uid <= obj.uid
    BY <1>1, <1>3, <2>1 DEF AddFinalizer
  <2> QED  BY <1>1, <2>1, <2>2, <2>3, WriteUids
<1>4. CASE RemoveFinalizer
  <2>1. Gone(api) \in Browsers /\ Gone(api).uid = api.uid
    BY <1>1, BrowserTypes DEF Gone, Browsers
  <2> QED  BY <1>1, <1>4, <2>1, IdleType, WriteUids DEF RemoveFinalizer, Return
<1>5. CASE UpdateStatus
  <2> DEFINE obj == [api EXCEPT !.status = task.outcome]
  <2>1. obj \in Browsers /\ obj.uid = api.uid
    BY <1>1, BrowserTypes DEF TaskRecords, Browsers
  <2>2. Write(obj) /\ api.uid <= obj.uid /\ task' = Idle
    BY <1>1, <1>5, <2>1 DEF UpdateStatus, Return
  <2> QED  BY <1>1, <2>1, <2>2, IdleType, WriteUids
<1>6. CASE CreateBrowser
  <2>1. PICK s \in SpecChoices : UserWrite(NewBrowser(api.uid + 1, s))
    BY <1>6 DEF CreateBrowser
  <2>2. /\ NewBrowser(api.uid + 1, s) \in Browsers
        /\ NewBrowser(api.uid + 1, s).uid = api.uid + 1
    BY <1>1, NewBrowserType, ReconcilerAssumption DEF NewBrowser
  <2>3. api.uid <= NewBrowser(api.uid + 1, s).uid
    BY <1>1, <2>2
  <2> QED  BY <1>2, <2>1, <2>2, <2>3
<1>7. CASE EditSpec
  <2>1. PICK s \in SpecChoices : UserWrite([api EXCEPT !.spec = s])
    BY <1>7 DEF EditSpec
  <2>2. [api EXCEPT !.spec = s] \in Browsers /\ [api EXCEPT !.spec = s].uid = api.uid
    BY <1>1, BrowserTypes, ReconcilerAssumption DEF Browsers
  <2>3. api.uid <= [api EXCEPT !.spec = s].uid
    BY <1>1, <2>2
  <2> QED  BY <1>2, <2>1, <2>2, <2>3
<1>8. CASE DeleteBrowser
  <2>1. PICK obj \in {[api EXCEPT !.deleting = TRUE], Gone(api)} : UserWrite(obj)
    BY <1>8 DEF DeleteBrowser
  <2>2. obj \in Browsers /\ obj.uid = api.uid
    <3>1. [api EXCEPT !.deleting = TRUE].uid = api.uid /\ Gone(api).uid = api.uid
      BY <1>1 DEF Gone, Browsers
    <3> QED  BY <1>1, <3>1, BrowserTypes
  <2>3. api.uid <= obj.uid
    BY <1>1, <2>2
  <2> QED  BY <1>2, <2>1, <2>2, <2>3
<1>9. CASE ~ObjectWrites
  <2>1. CASE UNCHANGED store
    <3>1. task'.step # "idle" => task'.browser.uid <= cache'.uid
      <4>1. CASE task'.step = "idle" \/ task'.browser = cache
        BY <1>1, <2>1, <4>1 DEF store
      <4>2. CASE task.step # "idle" /\ task'.browser = task.browser
        BY <2>1, <4>2 DEF store, UidsGrow
      <4> QED  BY <1>9, <2>1, <4>1, <4>2, CopiesMove DEF Deliver, store, UidsGrow
    <3> QED  BY <2>1, <3>1 DEF UidsGrow, Versions, store
  <2>2. CASE Deliver /\ UNCHANGED task
    BY <2>2, DeliverUids
  <2>3. CASE Relist /\ task'.step = "idle"
    <3>1. Versions' = {api} /\ Len(unseen') = 0 /\ cache' = api /\ api' = api
      BY <2>3 DEF Relist, Versions
    <3> QED  BY <1>1, <2>3, <3>1 DEF UidsGrow
  <2> QED  BY <1>9, <2>1, <2>2, <2>3, CopiesMove
<1> QED  BY <1>3, <1>4, <1>5, <1>6, <1>7, <1>8, <1>9 DEF ObjectWrites, User

------------------------------------------------------------------------------
(* Deletions are final, and claims are deleted by those who own them. *)

\* A step that does not write the Browser brings no new version.
LEMMA CopiesShrink ==
    ASSUME TypeOK, CacheFollows, [Next]_vars, ~ObjectWrites
    PROVE  Copies' \subseteq Copies /\ api' = api
<1> USE DEF At
<1>1. CASE UNCHANGED store
  <2>1. Versions' = Versions /\ cache \in Versions /\ api' = api
    BY <1>1 DEF Versions, store
  <2>2. \/ task'.step = "idle" \/ task'.browser = cache
        \/ task.step # "idle" /\ task'.browser = task.browser
    BY <1>1, CopiesMove DEF Deliver, Relist, store
  <2> QED  BY <2>1, <2>2 DEF Copies
<1>2. CASE Deliver /\ UNCHANGED task
  BY <1>2, DeliverStore DEF Copies
<1>3. CASE Relist /\ task'.step = "idle"
  BY <1>3, VersionsListed DEF Copies
<1> QED  BY <1>1, <1>2, <1>3, CopiesMove

\* The others bring one, the version they write; and only a user who creates a
\* Browser changes the uid or takes a deletion back.
LEMMA WritesAdd ==
    ASSUME TypeOK, Safe, ObjectWrites
    PROVE  /\ Copies' \subseteq Copies \cup {api'} /\ UNCHANGED pvc
           /\ \/ CreateBrowser /\ api'.uid = api.uid + 1
              \/ /\ api'.uid = api.uid /\ (api'.exists => api.exists)
                 /\ (api.deleting => api'.deleting)
<1> USE DEF At
<1>1. /\ api \in Browsers /\ api.uid \in Nat /\ task \in TaskRecords /\ CacheFollows
      /\ api.deleting \in BOOLEAN
  BY DEF TypeOK, Browsers, Safe
<1>2. ASSUME NEW obj, Write(obj),
             task'.step # "idle" =>
                 task'.browser = obj \/ (task.step # "idle" /\ task'.browser = task.browser)
      PROVE  Copies' \subseteq Copies \cup {api'} /\ api' = obj
  BY <1>1, <1>2, WriteStore DEF Copies
<1>3. ASSUME NEW obj, UserWrite(obj)
      PROVE  Copies' \subseteq Copies \cup {api'} /\ api' = obj /\ UNCHANGED pvc
  <2>1. task'.browser = task.browser /\ task'.step = task.step
    BY <1>1, <1>3 DEF UserWrite, TaskRecords
  <2> QED  BY <1>2, <1>3, <2>1 DEF UserWrite, children
<1>4. Gone(api).uid = api.uid /\ ~Gone(api).exists /\ Gone(api).deleting = api.deleting
  BY <1>1 DEF Gone, Browsers
<1>5. CASE AddFinalizer
  <2>1. PICK obj : /\ obj = [api EXCEPT !.finalizer = TRUE]
                   /\ Write(obj) /\ task'.browser = obj /\ UNCHANGED pvc
    BY <1>1, <1>5 DEF AddFinalizer, TaskRecords, children
  <2>2. obj.uid = api.uid /\ obj.exists = api.exists /\ obj.deleting = api.deleting
    BY <1>1, <2>1 DEF Browsers
  <2>3. Copies' \subseteq Copies \cup {api'} /\ api' = obj
    BY <1>2, <2>1
  <2> QED  BY <2>1, <2>2, <2>3
<1>6. CASE RemoveFinalizer
  <2>1. Write(Gone(api)) /\ task'.step = "idle" /\ UNCHANGED pvc
    BY <1>6, IdleType DEF RemoveFinalizer, Return, children
  <2> QED  BY <1>2, <1>4, <2>1
<1>7. CASE UpdateStatus
  <2>1. /\ Write([api EXCEPT !.status = task.outcome])
        /\ task'.step = "idle" /\ UNCHANGED pvc
    BY <1>7, IdleType DEF UpdateStatus, Return, children
  <2> QED  BY <1>1, <1>2, <2>1 DEF Browsers
<1>8. CASE CreateBrowser
  <2>1. PICK s \in SpecChoices : UserWrite(NewBrowser(api.uid + 1, s))
    BY <1>8 DEF CreateBrowser
  <2> QED  BY <1>3, <1>8, <2>1 DEF NewBrowser
<1>9. CASE EditSpec
  <2>1. PICK s \in SpecChoices : UserWrite([api EXCEPT !.spec = s])
    BY <1>9 DEF EditSpec
  <2> QED  BY <1>1, <1>3, <2>1 DEF Browsers
<1>10. CASE DeleteBrowser
  <2>1. CASE UserWrite([api EXCEPT !.deleting = TRUE])
    BY <1>1, <1>3, <1>10, <2>1 DEF Browsers, DeleteBrowser
  <2>2. CASE UserWrite(Gone(api))
    BY <1>3, <1>4, <2>2
  <2> QED  BY <1>10, <2>1, <2>2 DEF DeleteBrowser
<1> QED  BY <1>5, <1>6, <1>7, <1>8, <1>9, <1>10 DEF ObjectWrites, User

\* No copy is of a later incarnation than the API server's.
LEMMA CopiesAreOlder ==
    ASSUME TypeOK, UidsGrow, NEW v \in Copies
    PROVE  v.uid \in Nat /\ v.uid <= api.uid
<1> USE DEF At
<1>1. CASE v \in Versions
  BY <1>1, UnseenVersions DEF UidsGrow
<1>2. CASE v = task.browser /\ task.step # "idle"
  <2>1. v.uid \in Nat /\ cache.uid \in Nat /\ api.uid \in Nat /\ cache.uid <= api.uid
    BY <1>2 DEF TypeOK, TaskRecords, Browsers, UidsGrow, Versions
  <2> QED  BY <1>2, <2>1 DEF UidsGrow
<1> QED  BY <1>1, <1>2 DEF Copies

LEMMA FinalPreserved ==
    ASSUME TypeOK, Safe, UidsGrow, DeletionIsFinal, [Next]_vars
    PROVE  DeletionIsFinal'
<1>1. CASE ~ObjectWrites
  BY <1>1, CopiesShrink DEF DeletionIsFinal, OwnerLives, Safe
<1>2. CASE ObjectWrites
  <2> SUFFICES ASSUME NEW v \in Copies', v.exists, v.deleting, OwnerLives(v.uid)'
               PROVE  api'.deleting
    BY DEF DeletionIsFinal
  <2>1. CASE v = api'
    BY <2>1
  <2>2. CASE v \in Copies /\ CreateBrowser /\ api'.uid = api.uid + 1
    <3>1. v.uid \in Nat /\ v.uid <= api.uid /\ api.uid \in Nat
      BY <2>2, CopiesAreOlder DEF TypeOK, Browsers
    <3> QED  BY <2>2, <3>1 DEF OwnerLives
  <2>3. CASE /\ v \in Copies /\ api'.uid = api.uid /\ (api'.exists => api.exists)
             /\ (api.deleting => api'.deleting)
    BY <2>3 DEF DeletionIsFinal, OwnerLives
  <2> QED  BY <1>2, <2>1, <2>2, <2>3, WritesAdd
<1> QED  BY <1>1, <1>2

\* EnsurePVC makes the claim for a copy that is guarded: its Browser is there and
\* no version is of an earlier one, so who asks for a deletion is this Browser.
LEMMA MadeForOwner ==
    ASSUME TypeOK, Safe, UidsGrow, DeletionIsFinal, EnsurePVC
    PROVE  \A v \in Copies : Reclaiming(v) => OwnerLives(v.uid) /\ api.deleting
<1> USE DEF At
<1>1. task.step = "pvc" /\ task.browser.deleting \in BOOLEAN
  BY DEF EnsurePVC, TypeOK, TaskRecords, Browsers
<1>2. Guarded(task.browser)
  BY <1>1 DEF Safe, CopyFitsStep, DeletionSteps, Guarded
<1>3. OwnerLives(task.browser.uid)
  BY <1>1, <1>2, GuardedVersions DEF Safe
<1>4. \A v \in Copies : v.uid = api.uid
  <2> SUFFICES ASSUME NEW v \in Copies PROVE v.uid = api.uid
    OBVIOUS
  <2>1. v.uid \in Nat /\ v.uid <= api.uid /\ api.uid \in Nat
    BY CopiesAreOlder DEF TypeOK, Browsers
  <2>2. cache.uid \in Nat /\ api.uid <= cache.uid
    BY <1>1, <1>3 DEF OwnerLives, UidsGrow, TypeOK, Browsers
  <2>3. CASE v \in Versions
    BY <2>1, <2>2, <2>3 DEF UidsGrow
  <2>4. CASE v = task.browser
    BY <1>3, <2>4 DEF OwnerLives
  <2> QED  BY <2>3, <2>4 DEF Copies
<1> QED  BY <1>3, <1>4 DEF OwnerLives, Reclaiming, DeletionIsFinal

\* When the finalizer goes, the current version is the only one there is.
LEMMA LastVersion ==
    ASSUME TypeOK, Safe, RemoveFinalizer
    PROVE  Versions = {api} /\ task.browser = api /\ api.exists /\ api.deleting
<1> USE DEF At
<1>1. /\ task.step = "removeFinalizer" /\ task.fresh
      /\ task.browser = api /\ task.browser.exists /\ task.browser.deleting
  BY DEF RemoveFinalizer, Safe, FreshIsCurrent, CopyFitsStep, DeletionSteps, TypeOK, TaskRecords, Browsers
<1>2. unseen = <<>> /\ cache = api
  BY <1>1 DEF Safe, CopyFitsStep, CacheFollows, CaughtUp, DeletionSteps
<1>3. 1 .. Len(unseen) = {}
  BY <1>2
<1> QED  BY <1>1, <1>2, <1>3 DEF Versions

LEMMA ClaimPreserved ==
    ASSUME "reclaim" \notin Faults,
           TypeOK, Safe, UidsGrow, DeletionIsFinal, ClaimIsOwn, [Next]_vars
    PROVE  ClaimIsOwn'
<1> USE DEF At
<1> SUFFICES ASSUME pvc' = "bound"
             PROVE  /\ \A v \in Copies' : Reclaiming(v) => OwnerLives(v.uid)' /\ api'.deleting
                    /\ task'.step = "removeFinalizer" => ~Reclaiming(task'.browser)
  BY DEF ClaimIsOwn, Reclaiming
<1>1. /\ api \in Browsers /\ api.uid \in Nat /\ task \in TaskRecords
      /\ api.deleting \in BOOLEAN /\ api.exists \in BOOLEAN /\ CacheFollows
  BY DEF TypeOK, Browsers, Safe
<1>2. CASE ~ObjectWrites
  <2>1. /\ Copies' \subseteq Copies /\ api' = api
        /\ \A u : OwnerLives(u)' = OwnerLives(u)
    BY <1>1, <1>2, CopiesShrink DEF OwnerLives
  <2>2. CASE DeletePVC
    <3>1. /\ pvc = "bound" /\ task'.browser = task.browser
          /\ task.browser.spec.reclaimPolicy # "Delete"
      BY <1>1, <2>2 DEF DeletePVC, Goto, TaskRecords
    <3> QED  BY <2>1, <3>1 DEF ClaimIsOwn, Reclaiming
  <2>3. CASE EnsurePVC
    <3>1. task'.step = "deployment"
      BY <1>1, <2>3 DEF EnsurePVC, Goto, TaskRecords
    <3> QED  BY <2>1, <2>3, <3>1, MadeForOwner
  <2>4. CASE ~DeletePVC /\ ~EnsurePVC
    <3>1. /\ pvc = "bound"
          /\ task'.step = "removeFinalizer" =>
                 task.step = "removeFinalizer" /\ task'.browser = task.browser
      BY <1>2, <2>4, CopiesMove
    <3> QED  BY <2>1, <3>1 DEF ClaimIsOwn
  <2> QED  BY <2>2, <2>3, <2>4
<1>3. CASE ObjectWrites
  <2>1. /\ pvc = "bound" /\ Copies' \subseteq Copies \cup {api'}
        /\ \A v \in Copies : Reclaiming(v) => OwnerLives(v.uid) /\ api.deleting
    BY <1>3, WritesAdd DEF ClaimIsOwn
  <2>2. task'.step = "removeFinalizer" =>
          task.step = "removeFinalizer" /\ task'.browser = task.browser
    BY <1>1, <1>3, IdleType
       DEF ObjectWrites, AddFinalizer, RemoveFinalizer, UpdateStatus, Return,
           User, CreateBrowser, EditSpec, DeleteBrowser, UserWrite, TaskRecords
  <2>3. task'.step = "removeFinalizer" => ~Reclaiming(task'.browser)
    BY <2>1, <2>2 DEF ClaimIsOwn
  <2>4. CASE AddFinalizer \/ UpdateStatus
    <3>1. ~api.deleting
      BY <1>1, <2>4 DEF AddFinalizer, UpdateStatus, Safe, FreshIsCurrent, CopyFitsStep, DeletionSteps
    <3>2. api'.deleting = api.deleting
      BY <1>1, <2>4 DEF AddFinalizer, UpdateStatus, Write, Browsers
    <3> QED  BY <2>1, <2>3, <3>1, <3>2 DEF Reclaiming
  <2>5. CASE RemoveFinalizer
    <3>1. Versions' \subseteq {api, api'} /\ task'.step = "idle" /\ ~api'.exists
      <4>1. Versions' \subseteq Versions \cup {Gone(api)} /\ api' = Gone(api)
        BY <1>1, <2>5, WriteStore DEF RemoveFinalizer
      <4>2. ~Gone(api).exists
        BY <1>1 DEF Gone, Browsers
      <4> QED  BY <2>5, <4>1, <4>2, LastVersion, IdleType DEF RemoveFinalizer, Return
    <3>2. ~Reclaiming(api)
      BY <2>1, <2>5, LastVersion DEF RemoveFinalizer, ClaimIsOwn
    <3> QED  BY <2>3, <3>1, <3>2 DEF Copies, Reclaiming
  <2>6. CASE CreateBrowser
    <3>1. ~api.exists /\ ~api'.deleting
      BY <2>6 DEF CreateBrowser, UserWrite, Write, NewBrowser
    <3> QED  BY <2>1, <2>3, <3>1 DEF Reclaiming, OwnerLives
  <2>7. CASE EditSpec
    <3>1. api.exists /\ api'.exists /\ api'.uid = api.uid /\ api'.deleting = api.deleting
      BY <1>1, <2>7 DEF EditSpec, UserWrite, Write, Browsers
    <3> QED  BY <2>1, <2>3, <3>1 DEF Reclaiming, OwnerLives
  <2>8. CASE DeleteBrowser
    <3>1. ~api.deleting
      BY <2>8 DEF DeleteBrowser
    <3>2. api' = [api EXCEPT !.deleting = TRUE] \/ api' = Gone(api)
      BY <2>8 DEF DeleteBrowser, UserWrite, Write
    <3>3. api'.exists => api'.deleting
      BY <1>1, <3>2 DEF Gone, Browsers
    <3> QED  BY <2>1, <2>3, <3>1, <3>3 DEF Reclaiming, OwnerLives
  <2> QED  BY <1>3, <2>4, <2>5, <2>6, <2>7, <2>8 DEF ObjectWrites, User
<1> QED  BY <1>2, <1>3

LEMMA InitClaims == Init => ClaimInv
<1> SUFFICES ASSUME Init PROVE ClaimInv
  OBVIOUS
<1> USE DEF At
<1>1. /\ task.step = "idle" /\ cache = api /\ unseen = <<>> /\ pvc = "absent"
      /\ api \in Browsers /\ api.uid \in Nat /\ ~api.exists
  BY IdleType, InitTypes DEF Init, TypeOK, Browsers, Idle, Gone, NewBrowser
<1>2. Versions = {api} /\ Len(unseen) = 0
  BY <1>1 DEF Versions
<1>3. UidsGrow
  BY <1>1, <1>2 DEF UidsGrow
<1>4. DeletionIsFinal /\ ClaimIsOwn
  BY <1>1, <1>2 DEF DeletionIsFinal, ClaimIsOwn, Copies
<1> QED  BY <1>3, <1>4 DEF ClaimInv

\* The order of versions, the finality of deletions and, where deletes of the
\* claim do not fail, who may ask for one: in every reachable state.
THEOREM ClaimInvariance == Spec => []ClaimInv
<1>1. Init => ClaimInv
  BY InitClaims
<1>2. IInv /\ ClaimInv /\ [Next]_vars => ClaimInv'
  BY UidsPreserved, FinalPreserved, ClaimPreserved DEF ClaimInv, IInv, Safe
<1> QED  BY <1>1, <1>2, Invariance, PTL DEF Spec

\* A live claim is deleted only while the Browser that asks for it is the one in
\* the API server and is being deleted: handleDeletion never takes the claim of a
\* successor, however late it runs.  It supposes what the code takes for granted
\* when it drops the finalizer after a failed delete: that the delete did not fail.
THEOREM ClaimsGoOnRequest ==
    ASSUME "reclaim" \notin Faults
    PROVE  Spec => VolumeDeletedOnRequest
<1>1. IInv /\ ClaimInv /\ [Next]_vars =>
        [pvc = "bound" /\ pvc' = "terminating" =>
           /\ OwnerLives(task.browser.uid) /\ api.deleting
           /\ task.fresh => api.spec.reclaimPolicy = "Delete"]_vars
  <2> SUFFICES ASSUME IInv, ClaimInv, [Next]_vars, pvc = "bound", pvc' = "terminating"
               PROVE  /\ OwnerLives(task.browser.uid) /\ api.deleting
                      /\ task.fresh => api.spec.reclaimPolicy = "Delete"
    OBVIOUS
  <2> USE DEF At
  <2>1. CASE DeletePVC
    <3>1. task.step = "deletePVC" /\ Reclaiming(task.browser)
      BY <2>1 DEF DeletePVC, Reclaiming, IInv, CopyFitsStep, DeletionSteps, TypeOK,
                  TaskRecords, Browsers
    <3>2. task.fresh => task.browser = api
      BY <3>1 DEF IInv, FreshIsCurrent
    <3> QED  BY <3>1, <3>2 DEF ClaimInv, ClaimIsOwn, Copies, Reclaiming
  <2>2. CASE EnsurePVC \/ EnsureDeployment \/ EnsureService \/ UNCHANGED pvc
    BY <2>2 DEF EnsurePVC, EnsureDeployment, EnsureService
  <2>3. CASE Cluster
    BY <2>3 DEF Cluster, ClaimStep, GarbageStep, KubeletStep, Outside, children,
                ClaimRemoved, ClaimDelivered, CollectDeployment, CollectService,
                StartPod, StartDefault, PodBecomesReady, ScaleDown, PodGone, StopPod
  <2> QED  BY <2>1, <2>2, <2>3, ChildrenWriters
<1> QED  BY <1>1, Invariance, ClaimInvariance, PTL DEF VolumeDeletedOnRequest, Spec

\* A managed Browser whose last policy is Delete does not disappear before its
\* claim has been deleted, a change of policy during the deletion included.
THEOREM PolicyIsHonoured ==
    ASSUME "reclaim" \notin Faults
    PROVE  Spec => DeleteReclaims
<1>1. IInv /\ ClaimInv /\ [Next]_vars =>
        [OwnerLives(api.uid) /\ api.finalizer /\ ~api'.exists =>
           (api.spec.reclaimPolicy = "Delete" => pvc # "bound")]_vars
  <2> SUFFICES ASSUME IInv, ClaimInv, [Next]_vars, OwnerLives(api.uid), api.finalizer,
                      ~api'.exists, api.spec.reclaimPolicy = "Delete"
               PROVE  pvc # "bound"
    OBVIOUS
  <2>1. api \in Browsers /\ api.exists /\ TypeOK /\ Safe
    BY IInvParts DEF OwnerLives, TypeOK
  <2>2. CASE RemoveFinalizer
    <3>1. Reclaiming(task.browser) /\ At("removeFinalizer")
      BY <2>1, <2>2, LastVersion DEF Reclaiming, RemoveFinalizer
    <3> QED  BY <3>1 DEF ClaimInv, ClaimIsOwn
  <2>3. CASE AddFinalizer \/ UpdateStatus \/ EditSpec
    BY <2>1, <2>3 DEF AddFinalizer, UpdateStatus, EditSpec, UserWrite, Write, Browsers
  <2>4. CASE DeleteBrowser
    BY <2>1, <2>4 DEF DeleteBrowser, UserWrite, Write, Browsers
  <2>5. CASE CreateBrowser \/ UNCHANGED api
    BY <2>1, <2>5 DEF CreateBrowser
  <2> QED  BY <2>2, <2>3, <2>4, <2>5, BrowserWriters
<1> QED  BY <1>1, Invariance, ClaimInvariance, PTL DEF DeleteReclaims, Spec
==============================================================================
