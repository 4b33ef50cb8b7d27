----------------------------- MODULE MCController -----------------------------
(* Instances of ControllerReconciler for TLC. *)
EXTENDS ControllerInvariant, TLC

One == [replicas |-> 1, browserSelector |-> {}]

JustOne == {One}

\* With and without a selector.
Selections == {One, [One EXCEPT !.browserSelector = {"team"}]}

\* One Browser at one address, which carries no label.
Steady ==
    [n \in Names |-> {[profile |-> "shop", running |-> TRUE, wsUrl |-> 1, labels |-> {}]}]
==============================================================================
