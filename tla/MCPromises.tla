------------------------------ MODULE MCPromises ------------------------------
(* Instances of BrowserPromises for TLC. *)
EXTENDS BrowserPromises

Base == [running |-> TRUE, profileUid |-> "default", reclaimPolicy |-> "Retain",
         extensions |-> {}, cookies |-> FALSE]

PolicySpecs  == {Base, [Base EXCEPT !.reclaimPolicy = "Delete"]}
ExtendedSpec == {[Base EXCEPT !.extensions = Extensions]}
==============================================================================
