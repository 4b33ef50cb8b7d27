------------------------------ MODULE MCProgress ------------------------------
(* Instances of BrowserProgress for TLC. *)
EXTENDS BrowserProgress, BrowserRefinement

\* A Browser with a profile and an extension of its own, switched on and off.
ProgressSpecs ==
    LET on == [running |-> TRUE, profileUid |-> "", reclaimPolicy |-> "Delete",
               extensions |-> Extensions, cookies |-> FALSE]
    IN {on, [on EXCEPT !.running = FALSE]}
==============================================================================
