------------------------------ MODULE MCManager ------------------------------
(***************************************************************************)
(* Model-checking instance of Manager and the properties it is checked    *)
(* against.                                                                *)
(***************************************************************************)
EXTENDS Manager

CONSTANTS main, c1, g1, l1, la1, w1

MCComponents == {main, c1}
MCRouted == {c1}
MCAddrs == 1..3
\* pids are distinct from addresses so that a mismatched pair shows
MCPidOf == [a \in MCAddrs |-> a + 10]
MCWeaveletGroup == (w1 :> g1)

-----------------------------------------------------------------------------
\* The manager's state has the shapes the handlers give it.
TypeOK ==
    /\ appVersion \in Nat /\ routingVersion \in [Groups -> Nat]
    /\ \A g \in Groups :
         LET grp == appState.groups[g] IN
         /\ DOMAIN grp.components \subseteq Components
         /\ DOMAIN grp.assignments \subseteq RoutedComponents
         /\ grp.replicas \in Seq(Addrs) /\ Len(grp.replicaPids) = Len(grp.replicas)
    /\ started \subseteq Groups
    /\ launches \in [Groups \X Locations -> Nat]
    /\ \A n \in Listeners : proxies[n].addr \in LocalAddrs \cup {NoAddr}
    /\ \A w \in Weavelets : routingSeen[w] \in Nat \cup {-1} /\ compSeen[w] \in Nat \cup {-1}

(***************************************************************************)
(* The routing info stored for a group is the one mayGenerateNewRoutingInfo *)
(* would build from the group's state in the app state: the sorted         *)
(* replicas, and for every routed component the assignment routingAlgo     *)
(* computes from them.  Both records are written under m.mu by             *)
(* registerReplica and startComponent; a handler that changes the replica *)
(* set or the assignments without publishing them, or a store write that  *)
(* is skipped as "equal", breaks it.                                       *)
(***************************************************************************)
RoutingStateMatchesGroups ==
    \A g \in Groups :
        LET grp == appState.groups[g] IN
        /\ routingState[g] = RoutingInfoOf(grp)
        /\ \A c \in DOMAIN grp.assignments :
              grp.assignments[c].slices = R!RoutingAlgo(InitialAssignment, grp.replicas).slices

(***************************************************************************)
(* Every request a proxy routed went to a worker address that was exported *)
(* under that listener's name (exportListener), and never hit a proxy with *)
(* no backends (the director's "no backends" error path).                  *)
(***************************************************************************)
RequestsReachExportedWorkers ==
    \A n \in Listeners :
        lastRoute[n] # NoRoute =>
            \E i \in DOMAIN appState.listeners :
                appState.listeners[i] = [name |-> n, addr |-> lastRoute[n]]

(***************************************************************************)
(* Long-poll delivery: every replica registered in a weavelet's group is  *)
(* eventually in the routing info that weavelet has read from             *)
(* getRoutingInfo, through the registration, the recompute, the           *)
(* equality-checked routing write and the long poll's wake-up.            *)
(***************************************************************************)
ReplicasEventuallyRouted ==
    \A w \in Weavelets, a \in Addrs :
        LET g == WeaveletGroup[w] IN
        (\E i \in DOMAIN appState.groups[g].replicas : appState.groups[g].replicas[i] = a)
            ~> (\E i \in DOMAIN routingView[w].replicas : routingView[w].replicas[i] = a)

-----------------------------------------------------------------------------
(***************************************************************************)
(* The design's data model: replicas and replicaPids are parallel lists,  *)
(* the pid at position i being the pid of the replica at position i.       *)
(***************************************************************************)
ReplicaPidsParallel ==
    \A g \in Groups :
        LET grp == appState.groups[g] IN
        \A i \in DOMAIN grp.replicas : grp.replicaPids[i] = PidOf[grp.replicas[i]]

(***************************************************************************)
(* The design (startComponent): a group's worker processes are started    *)
(* exactly once, so no location ever runs two babysitters of one group.   *)
(***************************************************************************)
BabysitterLaunchedAtMostOnce ==
    \A g \in Groups, l \in Locations : launches[g, l] <= 1

(***************************************************************************)
(* The design (RecomputeRouting): routing info is written, waking every    *)
(* long-poll reader, only when it differs other than by the version bump   *)
(* every recompute gives the assignments.                                  *)
(***************************************************************************)
Content(info) ==
    [replicas |-> info.replicas,
     slices   |-> [c \in DOMAIN info.assignments |-> info.assignments[c].slices]]

NoSpuriousRoutingWrite ==
    [][\A g \in Groups :
         routingVersion'[g] # routingVersion[g] =>
            Content(routingState'[g]) # Content(routingState[g])
      ]_vars
=============================================================================
