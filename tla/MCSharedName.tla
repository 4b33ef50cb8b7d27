---------------------------- MODULE MCSharedName ----------------------------
(* An instance of SharedName for TLC. *)
EXTENDS SharedName

OneBrowser ==
    {[running |-> TRUE, profileUid |-> "", reclaimPolicy |-> "Retain",
      extensions |-> {}, cookies |-> FALSE]}

OneController == {[replicas |-> 0, browserSelector |-> {}]}
==============================================================================
