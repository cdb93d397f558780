------------------------------- MODULE Manager -------------------------------
(***************************************************************************)
(* The SSH deployment manager (src/unnamed/part_003) with the proxies it  *)
(* creates (src/unnamed/part_000).  Every handler that changes state runs *)
(* under m.mu from its first to its last line, so each is one atomic      *)
(* action.  The two long-poll readers, getComponentsToStart and           *)
(* getRoutingInfo, read the versioned maps without m.mu and are actions   *)
(* of the weavelets that call them.                                       *)
(*                                                                         *)
(* The versioned maps (appState, routingState) are a value and a version  *)
(* each: Update stores the value and increments the version whether or   *)
(* not the value changed; Read with a version other than the current one *)
(* returns at once and otherwise blocks until the next Update.  Version 0 *)
(* is "never written"; a reader that has seen nothing holds -1 (the empty *)
(* version string).                                                        *)
(***************************************************************************)
EXTENDS Integers, Sequences, FiniteSets, TLC

CONSTANTS Groups,            \* colocation group names
          Main,              \* the group "main" that run() starts
          Components,        \* component names
          MainComponent,     \* the component "main"
          RoutedComponents,  \* components whose requests say IsRouted
          Addrs,             \* replica addresses, ordered as sort.Strings orders them
          PidOf,             \* the pid of the replica at each address
          NumLocations,      \* len(m.locations)
          Listeners,         \* listener names
          LocalAddrs,        \* addresses a proxy may be asked to listen on
          NoAddr,            \* no proxy for a listener
          NoRoute,           \* no request routed yet through a proxy
          NoBackend,         \* director found no backend
          Weavelets,         \* the weavelets that long-poll the manager
          WeaveletGroup,     \* the group each weavelet belongs to
          KeyBits, MantissaBits,
          MaxRequests        \* bound: number of mutating RPCs served

ASSUME /\ Main \in Groups /\ MainComponent \in Components \ RoutedComponents
       /\ RoutedComponents \subseteq Components
       /\ Addrs \subseteq Nat /\ PidOf \in [Addrs -> Nat]
       /\ NumLocations \in Nat \ {0}
       /\ WeaveletGroup \in [Weavelets -> Groups]
       /\ MaxRequests \in Nat

R == INSTANCE RoutingAlgo

Locations == 1..NumLocations

VARIABLES appState,        \* value of key app_version_state
          appVersion,      \* its version
          routingState,    \* value of routing_entries/<group>, per group
          routingVersion,  \* its version, per group
          started,         \* m.started
          launches,        \* babysitters launched, per group and location
          proxies,         \* m.proxies: address and backends per listener
          lastRoute,       \* backend the last proxied request went to
          ran,             \* run() has started the main group
          routingSeen,     \* version each weavelet last read from getRoutingInfo
          routingView,     \* routing info it read
          compSeen,        \* version it last read from getComponentsToStart
          compView,        \* components it read
          served           \* mutating RPCs served so far (bounded by MaxRequests)

vars == <<appState, appVersion, routingState, routingVersion, started, launches,
          proxies, lastRoute, ran, routingSeen, routingView, compSeen, compView, served>>

EmptyFn == [x \in {} |-> TRUE]

\* A ColocationGroupState as findOrAddGroup creates it.
EmptyGroup == [components |-> EmptyFn, replicas |-> << >>,
               replicaPids |-> << >>, assignments |-> EmptyFn]

\* &protos.RoutingInfo{} as loadRoutingState returns it for an unwritten key.
EmptyRouting == [replicas |-> << >>, assignments |-> EmptyFn]

\* An initial assignment (startComponent) has version 0 and no slices.
InitialAssignment == [version |-> 0, slices |-> << >>]

Init ==
    /\ appState = [groups |-> [g \in Groups |-> EmptyGroup], listeners |-> << >>]
    /\ appVersion = 0
    /\ routingState = [g \in Groups |-> EmptyRouting]
    /\ routingVersion = [g \in Groups |-> 0]
    /\ started = {}
    /\ launches = [g \in Groups, l \in Locations |-> 0]
    /\ proxies = [n \in Listeners |-> [addr |-> NoAddr, backends |-> << >>]]
    /\ lastRoute = [n \in Listeners |-> NoRoute]
    /\ ran = FALSE
    /\ routingSeen = [w \in Weavelets |-> -1]
    /\ routingView = [w \in Weavelets |-> EmptyRouting]
    /\ compSeen = [w \in Weavelets |-> -1]
    /\ compView = [w \in Weavelets |-> {}]
    /\ served = 0

-----------------------------------------------------------------------------
(***************************************************************************)
(* mayGenerateNewRoutingInfo: every assignment is recomputed by           *)
(* routingAlgo from the replica list, and the replica list is sorted.     *)
(***************************************************************************)
Regenerate(grp) ==
    [grp EXCEPT !.assignments = [c \in DOMAIN @ |-> R!RoutingAlgo(@[c], grp.replicas)],
                !.replicas    = SortSeq(@, <)]

\* The RoutingInfo built from a group: its replicas and its assignments.
RoutingInfoOf(grp) == [replicas |-> grp.replicas, assignments |-> grp.assignments]

\* A plausible bug: routing info compared by its assignments alone.
UpdateRoutingInfoAssignmentsOnly(g, info) ==
    IF routingState[g].assignments = info.assignments
    THEN UNCHANGED <<routingState, routingVersion>>
    ELSE /\ routingState' = [routingState EXCEPT ![g] = info]
         /\ routingVersion' = [routingVersion EXCEPT ![g] = @ + 1]

(***************************************************************************)
(* updateRoutingInfo: write the routing info of group g unless it is      *)
(* gproto.Equal to the stored one; Update bumps the version.              *)
(***************************************************************************)
UpdateRoutingInfo(g, info) ==
    IF routingState[g] = info
    THEN UNCHANGED <<routingState, routingVersion>>
    ELSE /\ routingState' = [routingState EXCEPT ![g] = info]
         /\ routingVersion' = [routingVersion EXCEPT ![g] = @ + 1]

\* The group state after mayGenerateNewRoutingInfo, and its store write.
MayGenerateNewRoutingInfo(g, grp) ==
    UpdateRoutingInfo(g, RoutingInfoOf(Regenerate(grp)))

\* m.appState.Update(appVersionStateKey, state)
StoreAppState(state) ==
    /\ appState' = state
    /\ appVersion' = appVersion + 1

\* Every mutating handler serves one request of the budget.
Budget == /\ served < MaxRequests
          /\ served' = served + 1

-----------------------------------------------------------------------------
(***************************************************************************)
(* startColocationGroup: nothing if the group has started; otherwise one *)
(* babysitter per location, in order, stopping at the first that fails   *)
(* to start; the group is marked started only if all of them started.    *)
(* k is the number of locations whose babysitter started.                 *)
(***************************************************************************)
StartColocationGroup(g) ==
    IF g \in started
    THEN UNCHANGED <<started, launches>>
    ELSE \E k \in 0..NumLocations :
            /\ launches' = [p \in DOMAIN launches |->
                              IF p[1] = g /\ p[2] <= k THEN launches[p] + 1
                                                       ELSE launches[p]]
            /\ started' = IF k = NumLocations THEN started \cup {g} ELSE started

(***************************************************************************)
(* startComponent(group, component, isRouted): record the component, give *)
(* a routed one an initial assignment if it has none, regenerate and      *)
(* store the routing info, store the app state, start the group.          *)
(***************************************************************************)
StartComponentOp(g, c) ==
    LET isRouted == c \in RoutedComponents
        grp0 == appState.groups[g]
        grp1 == [grp0 EXCEPT
                   !.components  = (c :> isRouted) @@ @,
                   !.assignments = IF isRouted /\ c \notin DOMAIN @
                                   THEN (c :> InitialAssignment) @@ @ ELSE @]
        grp  == Regenerate(grp1)
    IN  /\ MayGenerateNewRoutingInfo(g, grp1)
        /\ StoreAppState([appState EXCEPT !.groups[g] = grp])
        /\ StartColocationGroup(g)

StartComponent(g, c) ==
    /\ Budget
    /\ StartComponentOp(g, c)
    /\ UNCHANGED <<proxies, lastRoute, ran, routingSeen, routingView, compSeen, compView>>

(***************************************************************************)
(* run(): startComponent(main, "main"), then startColocationGroup(main),  *)
(* which does nothing after a successful startComponent and is not        *)
(* reached after a failed one (run returns the error).                     *)
(***************************************************************************)
Run ==
    /\ ~ran /\ Budget
    /\ ran' = TRUE
    /\ StartComponentOp(Main, MainComponent)
    /\ UNCHANGED <<proxies, lastRoute, routingSeen, routingView, compSeen, compView>>

(***************************************************************************)
(* registerReplica(group, address, pid): append the replica unless its    *)
(* address is already listed, regenerate and store the routing info,      *)
(* store the app state.  A replica registers from a process its group's   *)
(* babysitter started.                                                     *)
(***************************************************************************)
\* A plausible bug: the pid appended even when the address was already listed.
RegisterReplicaPidAlways(g, a) ==
    LET grp0 == appState.groups[g]
        grp1 == IF \E i \in DOMAIN grp0.replicas : grp0.replicas[i] = a
                THEN [grp0 EXCEPT !.replicaPids = Append(@, PidOf[a])]
                ELSE [grp0 EXCEPT !.replicas    = Append(@, a),
                                  !.replicaPids = Append(@, PidOf[a])]
    IN  /\ Budget
        /\ \E l \in Locations : launches[g, l] > 0
        /\ MayGenerateNewRoutingInfo(g, grp1)
        /\ StoreAppState([appState EXCEPT !.groups[g] = Regenerate(grp1)])
        /\ UNCHANGED <<started, launches, proxies, lastRoute, ran,
                       routingSeen, routingView, compSeen, compView>>

\* A plausible bug: routing info regenerated only for a group with routed components.
RegisterReplicaRoutedOnly(g, a) ==
    LET grp0 == appState.groups[g]
        grp1 == IF \E i \in DOMAIN grp0.replicas : grp0.replicas[i] = a
                THEN grp0
                ELSE [grp0 EXCEPT !.replicas    = Append(@, a),
                                  !.replicaPids = Append(@, PidOf[a])]
    IN  /\ Budget
        /\ \E l \in Locations : launches[g, l] > 0
        /\ IF DOMAIN grp1.assignments # {}
           THEN MayGenerateNewRoutingInfo(g, grp1)
           ELSE UNCHANGED <<routingState, routingVersion>>
        /\ StoreAppState([appState EXCEPT !.groups[g] = Regenerate(grp1)])
        /\ UNCHANGED <<started, launches, proxies, lastRoute, ran,
                       routingSeen, routingView, compSeen, compView>>

RegisterReplica(g, a) ==
    LET grp0 == appState.groups[g]
        grp1 == IF \E i \in DOMAIN grp0.replicas : grp0.replicas[i] = a
                THEN grp0
                ELSE [grp0 EXCEPT !.replicas    = Append(@, a),
                                  !.replicaPids = Append(@, PidOf[a])]
    IN  /\ Budget
        /\ \E l \in Locations : launches[g, l] > 0
        /\ MayGenerateNewRoutingInfo(g, grp1)
        /\ StoreAppState([appState EXCEPT !.groups[g] = Regenerate(grp1)])
        /\ UNCHANGED <<started, launches, proxies, lastRoute, ran,
                       routingSeen, routingView, compSeen, compView>>

(***************************************************************************)
(* exportListener(listener, localAddress): record the listener in the app *)
(* state and store it; then add the backend to the listener's proxy if it *)
(* has one, else listen on localAddress.  Listening fails with EADDRINUSE *)
(* when a proxy of ours, or another process, holds the address, or with   *)
(* another error; either way no proxy is created.                          *)
(***************************************************************************)
BoundAddrs == {proxies[n].addr : n \in Listeners} \ {NoAddr}

\* A plausible bug: a new proxy created without its first backend.
ExportListenerNoBackend(n, la, wa) ==
    /\ Budget
    /\ StoreAppState([appState EXCEPT !.listeners = Append(@, [name |-> n, addr |-> wa])])
    /\ IF proxies[n].addr # NoAddr
       THEN proxies' = [proxies EXCEPT ![n].backends = Append(@, wa)]
       ELSE \E listened \in IF la \in BoundAddrs THEN {FALSE} ELSE BOOLEAN :
              proxies' = IF listened
                         THEN [proxies EXCEPT ![n] = [addr |-> la, backends |-> << >>]]
                         ELSE proxies
    /\ UNCHANGED <<routingState, routingVersion, started, launches, lastRoute, ran,
                   routingSeen, routingView, compSeen, compView>>

ExportListener(n, la, wa) ==
    /\ Budget
    /\ StoreAppState([appState EXCEPT !.listeners = Append(@, [name |-> n, addr |-> wa])])
    /\ IF proxies[n].addr # NoAddr
       THEN proxies' = [proxies EXCEPT ![n].backends = Append(@, wa)]
       ELSE \E listened \in IF la \in BoundAddrs THEN {FALSE} ELSE BOOLEAN :
              proxies' = IF listened
                         THEN [proxies EXCEPT ![n] = [addr |-> la, backends |-> <<wa>>]]
                         ELSE proxies
    /\ UNCHANGED <<routingState, routingVersion, started, launches, lastRoute, ran,
                   routingSeen, routingView, compSeen, compView>>

(***************************************************************************)
(* Proxy.director, run by the proxy's HTTP server for each request: pick  *)
(* a backend at random, or log "no backends" when there is none.          *)
(***************************************************************************)
RouteRequest(n) ==
    /\ proxies[n].addr # NoAddr
    /\ LET bs == proxies[n].backends
       IN  IF bs = << >>
           THEN lastRoute' = [lastRoute EXCEPT ![n] = NoBackend]
           ELSE \E i \in DOMAIN bs : lastRoute' = [lastRoute EXCEPT ![n] = bs[i]]
    /\ UNCHANGED <<appState, appVersion, routingState, routingVersion, started,
                   launches, proxies, ran, routingSeen, routingView, compSeen, compView, served>>

(***************************************************************************)
(* getRoutingInfo(group, version): returns once the stored version        *)
(* differs from the caller's, with the routing info at that version.      *)
(***************************************************************************)
GetRoutingInfo(w) ==
    LET g == WeaveletGroup[w]
    IN  /\ routingSeen[w] # routingVersion[g]
        /\ routingSeen' = [routingSeen EXCEPT ![w] = routingVersion[g]]
        /\ routingView' = [routingView EXCEPT ![w] = routingState[g]]
        /\ UNCHANGED <<appState, appVersion, routingState, routingVersion, started,
                       launches, proxies, lastRoute, ran, compSeen, compView, served>>

\* getComponentsToStart(group, version): the group's components once the
\* app state version differs from the caller's.
GetComponentsToStart(w) ==
    LET g == WeaveletGroup[w]
    IN  /\ compSeen[w] # appVersion
        /\ compSeen' = [compSeen EXCEPT ![w] = appVersion]
        /\ compView' = [compView EXCEPT ![w] = DOMAIN appState.groups[g].components]
        /\ UNCHANGED <<appState, appVersion, routingState, routingVersion, started,
                       launches, proxies, lastRoute, ran, routingSeen, routingView, served>>

Next ==
    \/ Run
    \/ \E g \in Groups, c \in Components : StartComponent(g, c)
    \/ \E g \in Groups, a \in Addrs : RegisterReplica(g, a)
    \/ \E n \in Listeners, la \in LocalAddrs, wa \in Addrs : ExportListener(n, la, wa)
    \/ \E n \in Listeners : RouteRequest(n)
    \/ \E w \in Weavelets : GetRoutingInfo(w) \/ GetComponentsToStart(w)

(***************************************************************************)
(* A blocked Read is woken by the Update that changes the version, and    *)
(* the babysitter and weavelet call the two readers again in a loop:      *)
(* weak fairness of each reader.                                           *)
(***************************************************************************)
Fairness == \A w \in Weavelets : WF_vars(GetRoutingInfo(w)) /\ WF_vars(GetComponentsToStart(w))

Spec == Init /\ [][Next]_vars /\ Fairness
=============================================================================
