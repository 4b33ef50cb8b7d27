-------------------------- MODULE ControllerProgress --------------------------
(***************************************************************************)
(* The Controller reconciler and the Browsers of its namespace.  A Browser *)
(* goes through BrowserProtocol, which BrowserReconciler implements, and   *)
(* the operator's cache shows its versions one after the other.            *)
(*                                                                         *)
(* Changes, failures and disruptions happen a bounded number of times at   *)
(* moments of their choice; from then on calls succeed, as in              *)
(* BrowserProgress.  An address that was replaced does not come back: it   *)
(* holds the random id of a Chrome that is gone.                           *)
(***************************************************************************)
EXTENDS ControllerInvariant

CONSTANTS
    WantsOf,         \* the specs each Browser may have: [profile, running, reclaimPolicy]
    Addresses,       \* addresses of Chromes, numbered as they come into use
    ChromeProfile,   \* the profile each of these Chromes runs
    LabelsOf,        \* the labels of each Browser
    Early,           \* the Browsers there are before the Controller
    MaxMishaps       \* bound: writes of users, changes of Browsers, failures

Protocol(n) == INSTANCE BrowserProtocol WITH Wants <- WantsOf[n]

\* A Browser that goes through its protocol has a spec as long as it exists.
ObjectsOf(n) == {b \in Protocol(n)!Objects : b.life # "absent" => b.wants # None}

ASSUME ProgressAssumption ==
    /\ MaxMishaps \in Nat
    /\ Addresses \subseteq Nat \ {0}
    /\ \A n \in Names :
         /\ \A w \in WantsOf[n] : w # None /\ w.profile \in Profiles
         /\ LabelsOf[n] \subseteq Labels
         /\ Early[n] \in ObjectsOf(n)
    /\ DOMAIN Early = Names

\* No two Browsers ever have one profile: the code registers those over each other.
ProfilesApart ==
    \A m, n \in Names : m # n =>
        \A w \in WantsOf[m], v \in WantsOf[n] : w.profile # v.profile

VARIABLES
    objects,    \* the Browser of each name
    newest,     \* the last address of each that came into use
    mishaps,    \* how many changes and failures there have been
    lost        \* what has been lost: "calls" or a pod with their effect, "records"

Quiet == INSTANCE ControllerReconciler WITH Faults <- {}

allVars == <<vars, objects, newest, mishaps, lost>>

\* What the sync makes of a Browser.
View(n, b) ==
    IF b.life = "absent" THEN None
    ELSE [profile |-> b.wants.profile, running |-> b.phase = "Running",
          wsUrl |-> IF b.address = None THEN 0 ELSE b.address, labels |-> LabelsOf[n]]

BoundedInit ==
    /\ NoController
    /\ objects = Early
    /\ browsers = [n \in Names |-> View(n, objects[n])]
    /\ newest = [n \in Names |-> IF browsers[n] = None THEN 0 ELSE browsers[n].wsUrl]
    /\ mishaps = 0 /\ lost = {}

\* A call fails that would have changed what the process knows, or a pod takes what
\* it knows with it.  One whose effect is there already, as when a call is repeated
\* after a refused update, is no loss.
LosesCalls ==
    \/ RegisterFails /\ ~RegisterBrowser
    \/ DeregisterFails /\ ~DeregisterBrowser
    \/ \E p \in Pods : StopPod(p) /\ known' # known

\* A sync with something to change ends before it is on record, or the record goes
\* with the Controller, whose pods a successor may take over.
LosesRecords ==
    \/ /\ task.step \in {"sync", "status"}
       /\ task.outcome.registered # task.controller.status.registered
       /\ UpdateRefused \/ OperatorRestart
    \/ RemoveFinalizer /\ api.status.registered # Nobody

KeepTrack ==
    lost' = lost \cup (IF LosesCalls THEN {"calls"} ELSE {})
                 \cup (IF LosesRecords THEN {"records"} ELSE {})

Smooth(A) == A /\ KeepTrack /\ UNCHANGED <<objects, newest, mishaps>>

BrowserMoves(n) ==
    \E b \in Protocol(n)!Steps(objects[n]) \ {objects[n]} :
        /\ \/ b.address \in {None, objects[n].address} /\ UNCHANGED newest
           \/ /\ b.address # None /\ b.address > newest[n]
              /\ newest' = [newest EXCEPT ![n] = b.address]
        /\ objects' = [objects EXCEPT ![n] = b]
        /\ BrowserSeen(n, View(n, b))

Disturbed ==
    /\ mishaps < MaxMishaps
    /\ mishaps' = mishaps + 1
    /\ \/ \E n \in Names : BrowserMoves(n)
       \/ /\ \/ User \/ Mishap
             \/ "child" \in Faults /\ Outside(DeleteChild)
             \/ Worker /\ ~Quiet!Worker
          /\ UNCHANGED <<objects, newest>>
    /\ KeepTrack

BoundedNext == Smooth(Quiet!Calm) \/ Disturbed

\* As for Browsers: the worker runs, the watch delivers, due keys are handed out,
\* and Kubernetes does its work.
Fairness ==
    /\ WF_allVars(Smooth(Quiet!Worker))
    /\ WF_allVars(Smooth(Quiet!ControllerEvent))
    /\ WF_allVars(Smooth(Quiet!TimerFires))
    /\ WF_allVars(Smooth(Quiet!GarbageStep))
    /\ \A p \in Pods : WF_allVars(Smooth(Quiet!KubeletStep(p)))

ProgressSpec == BoundedInit /\ [][BoundedNext]_allVars /\ Fairness

------------------------------------------------------------------------------
\* The address each profile should have: that of the selected running Browser.
Wanted ==
    [q \in Profiles |->
        LET mine == {n \in Names :
                /\ browsers[n] # None /\ browsers[n].profile = q
                /\ api.spec.browserSelector \subseteq browsers[n].labels
                /\ browsers[n].running /\ browsers[n].wsUrl # 0}
        IN IF mine = {} THEN None ELSE browsers[CHOOSE n \in mine : TRUE].wsUrl]

\* A Controller that exists, is not being deleted, and is to run.
Managed == api.exists /\ ~api.deleting /\ api.spec.replicas > 0

\* Every controller pod has been given the current address of each selected
\* running Browser.
AllKnown ==
    Managed => \A p \in Pods, q \in Profiles :
        Wanted[q] # None => PodReady(p) /\ known[p][q] = Wanted[q]

\* No controller pod knows anything else.
NothingElseKnown ==
    Managed => \A p \in Pods, q \in Profiles : known[p][q] \in {Wanted[q], None}

\* Once disturbances end, the status lists exactly the selected running Browsers
\* with their current addresses, children deleted by hand are back, and a removed
\* Controller leaves nothing behind.
StatusConverges ==
    <>[](/\ Managed => api.status = [phase |-> "Running", registered |-> Wanted]
         /\ Managed => deploy # None /\ svc # None
         /\ ~api.exists => deploy = None /\ svc = None /\ PodsUp = {})

\* Once disturbances end, every controller pod knows the selected running
\* Browsers at their current addresses and no others, unless something was lost:
\* a call, a pod, or the record of a sync.  Whatever else is edited, delayed,
\* refused or restarted, no address is taken for registered that is not, and
\* none stays under a profile its Browser no longer has.
KnownUnlessLost == <>[](lost = {} => AllKnown /\ NothingElseKnown)

\* Unless calls are lost, the status is a true record of them: an entry is added
\* or moved only after the process was given the address, also if the operator
\* dies in between, an earlier update was refused, or the copy synced from was
\* old.
RecordsUnlessLost == []["calls" \notin lost' => RegisteredBeforeRecorded]_allVars

\* The other way round: an entry is dropped only after the process has forgotten
\* the browser, for no later sync will deregister it.
ForgetsUnlessLost == []["calls" \notin lost' => DeregisteredBeforeForgotten]_allVars

\* While no call is lost, what a sync is about to record it has done, or has left
\* to do.
EarnedUnlessLost == "calls" \notin lost => SyncInv

\* As long as nothing is lost, the status is all the memory a sync needs: between
\* two syncs the process knows exactly what it lists, although syncs start from
\* old copies and end in updates that are refused.
TrueUnlessLost == lost = {} => RecordInv

------------------------------------------------------------------------------
(* Sentences of the repository that the code does not keep. *)

\* The operator "syncs each running browser's status.wsUrl" to the controller
\* (README.md:113), without any condition.
AddressesArrive == <>[]AllKnown

\* Once disturbances end, no controller pod knows a browser that is not to be
\* registered: "Deregister removed browsers" (controller_controller.go:293).
RemovedAreDeregistered == <>[]NothingElseKnown
==============================================================================
