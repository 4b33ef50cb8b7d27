--------------------------- MODULE BrowserProtocol ---------------------------
(***************************************************************************)
(* The life of a Browser as the other parties see it: users, who write its *)
(* spec, and the Controller reconciler, which reads spec and status.  It   *)
(* hides how the operator gets there.                                      *)
(*                                                                         *)
(* A status follows the spec of the moment it is written, and stays as it  *)
(* is when the spec is edited afterwards.                                  *)
(***************************************************************************)
CONSTANTS
    Profiles,        \* profile ids, "default" among them
    Wants,           \* the specs there may be: [profile, running, reclaimPolicy]
    Addresses,       \* addresses of Chromes
    ChromeProfile,   \* the profile each of these Chromes runs
    None             \* no address, no spec

Lives == {"absent", "new", "managed", "deleting"}

Phases == {"", "Creating", "Running", "Stopped"}

Absent == [life |-> "absent", wants |-> None, phase |-> "", address |-> None]

Objects == [life: Lives, wants: Wants \cup {None}, phase: Phases,
            address: Addresses \cup {None}]

Created(b) ==
    IF b.life = "absent"
    THEN {[Absent EXCEPT !.life = "new", !.wants = w] : w \in Wants}
    ELSE {}

Edited(b) ==
    IF b.life # "absent" THEN {[b EXCEPT !.wants = w] : w \in Wants} ELSE {}

\* The operator puts its finalizer on the object.
Adopted(b) ==
    IF b.life = "new" THEN {[b EXCEPT !.life = "managed"]} ELSE {}

\* Nothing holds an object the operator has not adopted.
DeletionAsked(b) ==
    CASE b.life = "new"     -> {Absent}
      [] b.life = "managed" -> {[b EXCEPT !.life = "deleting"]}
      [] OTHER              -> {}

\* The addresses a running Browser with this spec may be given: a Chrome of its
\* profile, or any for "default".
Suitable(wants) ==
    {a \in Addresses : wants.profile \in {ChromeProfile[a], "default"}}

\* The status a managed Browser may be given: Creating keeps the last address.
Published(b) ==
    IF b.life # "managed" THEN {}
    ELSE IF ~b.wants.running THEN {[b EXCEPT !.phase = "Stopped", !.address = None]}
    ELSE {[b EXCEPT !.phase = "Creating"]}
         \cup {[b EXCEPT !.phase = "Running", !.address = a] : a \in Suitable(b.wants)}

Removed(b) == IF b.life = "deleting" THEN {Absent} ELSE {}

\* What may follow, the volume claim aside.
Steps(b) ==
    Created(b) \cup Edited(b) \cup Adopted(b) \cup DeletionAsked(b)
    \cup Published(b) \cup Removed(b)
==============================================================================
