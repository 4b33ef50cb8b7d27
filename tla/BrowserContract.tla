--------------------------- MODULE BrowserContract ---------------------------
(***************************************************************************)
(* What the Browser reconciler promises about one name: the Browser goes   *)
(* through BrowserProtocol, and its volume claim is made only for a Browser*)
(* under management, deleted only while one is being deleted, and not left *)
(* behind where the policy says Delete.                                    *)
(***************************************************************************)
EXTENDS BrowserProtocol

VARIABLES
    object,   \* the Browser
    claim     \* the claim <name>-profile: "absent", "bound" or "terminating"

vars == <<object, claim>>

Init == object = Absent /\ claim = "absent"

ObjectStep ==
    /\ object' # object
    /\ \/ object' \in Created(object) \cup Edited(object) \cup Adopted(object)
       \/ object' \in DeletionAsked(object) \cup Published(object)
       \/ /\ object' \in Removed(object)
          /\ object.wants.reclaimPolicy = "Delete" => claim # "bound"
    /\ UNCHANGED claim

ClaimStep ==
    /\ \/ claim = "absent" /\ claim' = "bound" /\ object.life \in {"managed", "deleting"}
       \/ claim = "bound" /\ claim' = "terminating" /\ object.life = "deleting"
       \/ claim = "terminating" /\ claim' = "absent"
    /\ UNCHANGED object

Next == ObjectStep \/ ClaimStep

Spec == Init /\ [][Next]_vars
==============================================================================
