---------------------------- MODULE Resources_proof ----------------------------
(***************************************************************************)
(* What holds of the objects for every name and spec.                      *)
(***************************************************************************)
EXTENDS Resources, TLAPS

\* A selector only finds pods of its own object: a Browser and a Controller of
\* one name share the label "instance" but never a pod, and neither do two
\* objects of one kind.  So the reconcilers may be modelled name by name, and
\* bpods and cpods are apart in SharedName.
THEOREM OwnPodsOnly ==
    ASSUME NEW k1 \in Kinds, NEW k2 \in Kinds, NEW n1, NEW n2
    PROVE  Matches(SelectorLabels(k1, n1), Labels(k2, n2)) <=> k1 = k2 /\ n1 = n2
<1>1. DOMAIN SelectorLabels(k1, n1) = {OwnKey(k1)}
  BY DEF SelectorLabels
<1>2. SelectorLabels(k1, n1)[OwnKey(k1)] = n1
  BY DEF SelectorLabels
<1>3. OwnKey(k1) \in DOMAIN Labels(k2, n2) <=> k1 = k2
  BY DEF Labels, OwnKey, Kinds
<1>4. Labels(k2, n2)[OwnKey(k2)] = n2
  BY DEF Labels, OwnKey, Kinds
<1> QED
  BY <1>1, <1>2, <1>3, <1>4 DEF Matches

\* The Service of an object reaches the pods of its Deployment, on a port their
\* container listens on, and the port the reconciler calls is one of them.
THEOREM ServiceReachesPods ==
    ASSUME NEW kind \in Kinds, NEW name, NEW spec, NEW image
    PROVE  LET deployment == Deployment(kind, name, spec, image)
           IN /\ Matches(Service(kind, name).selector, deployment.labels)
              /\ Service(kind, name).targets \subseteq deployment.ports
              /\ deployment.probe.port \in Service(kind, name).targets
<1>1. Matches(SelectorLabels(kind, name), Labels(kind, name))
  BY OwnPodsOnly
<1>2. CASE kind = "browser"
  BY <1>1, <1>2 DEF Service, Deployment, BrowserService, BrowserDeployment
<1>3. CASE kind = "controller"
  BY <1>1, <1>3 DEF Service, Deployment, ControllerService, ControllerDeployment
<1> QED
  BY <1>2, <1>3 DEF Kinds

\* Requests and limits are overridden one by one, so a spec that gives only one
\* of a pair is measured against the default of the other: a memory request
\* above 4Gi without a limit, say, makes a Deployment the API server refuses on
\* every retry.  A spec that gives both, or neither, is taken as it is meant.
THEOREM ValidExactly ==
    ASSUME NEW kind \in Kinds, NEW name, NEW spec, NEW image,
           None \notin Nat,
           \A u \in Units : /\ spec.requests[u] \in Nat \cup {None, Malformed}
                           /\ spec.limits[u] \in Nat \cup {None, Malformed},
           ~DeploymentPanics(kind, spec)
    PROVE  Valid(Deployment(kind, name, spec, image)) <=>
             \A u \in Units :
               CASE spec.requests[u] # None /\ spec.limits[u] # None ->
                      spec.requests[u] <= spec.limits[u]
                 [] spec.requests[u] # None /\ spec.limits[u] = None ->
                      spec.requests[u] <= DefaultLimits(kind)[u]
                 [] spec.requests[u] = None /\ spec.limits[u] # None ->
                      DefaultRequests(kind)[u] <= spec.limits[u]
                 [] OTHER -> TRUE
<1> DEFINE deployment == Deployment(kind, name, spec, image)
<1>1. Matches(deployment.selector, deployment.labels)
  BY OwnPodsOnly DEF Deployment, BrowserDeployment, ControllerDeployment, Kinds
<1>2. /\ deployment.requests = Override(DefaultRequests(kind), spec.requests)
      /\ deployment.limits = Override(DefaultLimits(kind), spec.limits)
  BY DEF Deployment, BrowserDeployment, ControllerDeployment, Requests, Limits, Kinds
<1>3. \A u \in Units : /\ DefaultRequests(kind)[u] \in Nat
                       /\ DefaultLimits(kind)[u] \in Nat
                       /\ DefaultRequests(kind)[u] <= DefaultLimits(kind)[u]
  BY DEF DefaultRequests, DefaultLimits, Units
<1>4. \A u \in Units :
        /\ deployment.requests[u] = IF spec.requests[u] = None THEN DefaultRequests(kind)[u]
                                    ELSE spec.requests[u]
        /\ deployment.limits[u] = IF spec.limits[u] = None THEN DefaultLimits(kind)[u]
                                  ELSE spec.limits[u]
  BY <1>2 DEF Override
<1>5. Valid(deployment) <=>
        \A u \in Units : deployment.requests[u] <= deployment.limits[u]
  BY <1>1 DEF Valid
<1> HIDE DEF deployment
<1>6. ASSUME NEW u \in Units
      PROVE  deployment.requests[u] <= deployment.limits[u] <=>
               CASE spec.requests[u] # None /\ spec.limits[u] # None ->
                      spec.requests[u] <= spec.limits[u]
                 [] spec.requests[u] # None /\ spec.limits[u] = None ->
                      spec.requests[u] <= DefaultLimits(kind)[u]
                 [] spec.requests[u] = None /\ spec.limits[u] # None ->
                      DefaultRequests(kind)[u] <= spec.limits[u]
                 [] OTHER -> TRUE
  BY <1>3, <1>4
<1> QED
  BY <1>5, <1>6 DEF deployment
==============================================================================
