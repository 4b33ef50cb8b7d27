------------------------- MODULE MCControllerProgress -------------------------
(* Instances of ControllerProgress for TLC. *)
EXTENDS MCController, ControllerProgress

Want(q) == [profile |-> q, running |-> TRUE, reclaimPolicy |-> "Retain"]

\* The first Browser changes its profile, the second keeps its own.
Renamed == [n \in Names |-> IF n = "a" THEN {Want("shop"), Want("mail")} ELSE {Want("news")}]

Kept == [n \in Names |-> IF n = "a" THEN {Want("shop")} ELSE {Want("news")}]

\* A Chrome for each profile, and a second one for the first Browser.
Chromes == 1 :> "shop" @@ 2 :> "news" @@ 3 :> "shop" @@ 4 :> "mail"

NoLabels == [n \in Names |-> {}]

\* Both Browsers run.
Started ==
    [n \in Names |-> [life |-> "managed", wants |-> Want(IF n = "a" THEN "shop" ELSE "news"),
                      phase |-> "Running", address |-> IF n = "a" THEN 1 ELSE 2]]
==============================================================================
