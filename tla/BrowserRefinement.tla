-------------------------- MODULE BrowserRefinement --------------------------
(***************************************************************************)
(* BrowserReconciler implements BrowserContract: with a cache that lags,   *)
(* reconciles that work on old copies, and operators that die, nobody else *)
(* sees anything but the protocol.                                         *)
(***************************************************************************)
EXTENDS BrowserReconciler

\* What others see of an object in the API server.
Seen(obj) ==
    IF ~obj.exists
    THEN [life |-> "absent", wants |-> None, phase |-> "", address |-> None]
    ELSE [life    |-> CASE obj.deleting                   -> "deleting"
                        [] ~obj.deleting /\ obj.finalizer -> "managed"
                        [] OTHER                          -> "new",
          wants   |-> [profile |-> ProfileUID(obj.spec), running |-> obj.spec.running,
                       reclaimPolicy |-> obj.spec.reclaimPolicy],
          phase   |-> obj.status.phase,
          address |-> obj.status.target]

Contract == INSTANCE BrowserContract WITH
    Wants         <- [profile: Profiles, running: BOOLEAN,
                      reclaimPolicy: {"Retain", "Delete"}],
    Addresses     <- Targets,
    ChromeProfile <- [t \in Targets |-> t.profile],
    object        <- Seen(api),
    claim         <- pvc

\* Every behaviour of the reconciler, its environment included, is one of the
\* contract.
ImplementsContract == Contract!Spec
==============================================================================
