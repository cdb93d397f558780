# TLA+ models of the greatestworks SSH deployment manager

This directory holds TLA+ models of the parts of the repository that have
concurrent or algorithmic behaviour: the SSH deployment manager
(`src/unnamed/part_003`), its reverse proxy (`src/unnamed/part_000`), the
slice-assignment algorithm, the metrics library, the status dashboard, and the
game server's rank, player and client modules. It also has the TLC configurations that check the
models. `PROJECT.json` lists:
- every component;
- every run and what it is expected to show;
- the mutants that show each checked property can fail;
- the source lines each definition translates;
- the findings;
- the hazards of the code.

## The system

The repository is a game server skeleton built on a Service Weaver-style
runtime. Most of the logic is in the SSH deployment manager:

- **manager** (`part_003`). One process per deployment, reached over HTTP by the
  weavelets (worker processes). All its state changes run under `m.mu`:
  - `startComponent` records that a component must run in a colocation group.
    For a routed component it adds an initial assignment, regenerates routing,
    stores the app state and starts the group.
  - `startColocationGroup` launches one babysitter per location. It marks the
    group started only after every launch has succeeded.
  - `registerReplica` records a new replica address and pid. It regenerates the
    routing info and stores the app state.
  - `exportListener` records a listener. It then adds the worker as a backend
    of the existing proxy, or listens on the local address and starts a new
    proxy.
  - `mayGenerateNewRoutingInfo` / `routingAlgo` recompute every assignment of a
    group and sort its replicas. `updateRoutingInfo` writes the routing state
    unless it is `gproto.Equal` to the stored value.

  Weavelets read with two long-poll handlers, `getComponentsToStart` and
  `getRoutingInfo`. Each blocks on the versioned store until the stored version
  differs from the one the caller last saw.
- **versioned store** (`versioned_map`, not in the repository). It maps a key to
  a value and a version. Writing bumps the version, and a read with the current
  version blocks.
- **proxy** (`part_000`). It holds an append-only backend list. `director` picks
  a random backend, or leaves the request unrouted when there is none.
- **metrics library** (`aop/bootstrap.go`, `part_002`). Counters, gauges and
  histograms. Each is a `Metric` whose value, version and bucket counts are
  separate atomics. The process-wide registry (`RegisterMap`, `MetricMap.Get`,
  `newMetric`, `Snapshot`) holds them. An exporter uses `Version()` to decide
  whether a metric changed.
- **bootstrap** (`aop/bootstrap.go`). `GetBootstrap` reads the two pipe
  descriptors from a test context or the environment. `HasPipes` and
  `MakePipes` then open the pipes; they are not modelled (see below).
- **dashboard** (`aop/status/dashboard.go`). It renders a deployment's status.
  `computeTraffic` turns the method-count metrics into a traffic graph.
- **game modules** (`business/module/rank/module.go`, which holds the rank
  module and two versions of the player package, and
  `gre/client/msg_handler_register.go`). The rank package's `init()` registers
  the package variable `Mod` with `module.MManager`, which later calls the
  module's `Init`, queries and event hooks. A player's `Start` loops over its
  `HandlerParamCh`. The client fills its handler table once. The module manager,
  the session and `Player.Handler` are not in the repository.

How they interact:
- A deployment starts in `run()`, which calls `startComponent(main)` and
  `startColocationGroup(main)`.
- The babysitters start weavelets, and each weavelet calls `registerReplica`.
- Weavelets long-poll for components to start and for routing info, which
  change whenever the manager handlers store new state.
- Weavelets that export a listener cause the manager to route external HTTP
  through a proxy to them.

## Modules

| module | models | source |
|---|---|---|
| `RoutingAlgo` | `routingAlgo`, `nextPowerOfTwo`, the uint64→float64 midpoint | part_003 610-677, 746-753 |
| `MCRoutingAlgo` | harness: replicas join in every order, the algorithm runs after each join | — |
| `Manager` | the manager's state and every locked handler, the two long-poll readers, the proxy director | part_003 161-175, 198-228, 358-608, 701-719; part_000 35-53 |
| `MCManager` | model values and the properties checked of `Manager` | — |
| `Metric` | one `Metric` under concurrent `Add/Sub/Set/Put`, plus `Version`, `Snapshot` and a version-based exporter | bootstrap.go 138-157, 248-336; part_002 wrappers |
| `MCMetric` | two goroutines and the exporter; the metric type, bounds and values come from the .cfg | — |
| `MetricRegistry` | `RegisterMap`, `Register`, `MetricMap.Get`, `newMetric`, `Metric.Init`, package `Snapshot` | bootstrap.go 115-123, 240-264, 298-306, 379-446 |
| `MCMetricRegistry` | any sequence of registry calls | — |
| `Bootstrap` | `GetBootstrap`, `strconv.Atoi` on short strings | bootstrap.go 26-69 |
| `MCBootstrap` | every pair of short environment values, outside a test context | — |
| `MCPureOperators` | `MCRoutingAlgo` and `MCBootstrap` checked in one run | — |
| `GameModules` | the rank package's `init`, `Module.Init` and its other methods; both players' `NewPlayer`, `Start`, `OnLogin`, `Stop`, `OnLogout`; `MessageHandlerRegister` | module.go 12-186; msg_handler_register.go 5-11 |
| `MCGameModules` | the rank package as it is (`Mod` never assigned), two players, two messages | — |
| `Dashboard` | `computeTraffic` | dashboard.go 238-266 |
| `StatusPages` | `handleRecvMetrics`, `Metrics`, `Status` and the stats collector's callback of the manager; `DashboardCommand`'s `Fn`, `handleIndex`, `handleDeployment` and `handleMetrics` of the dashboard | part_003 174-192, 276-351, 517-522; dashboard.go 103-129, 141-228, 289-296 |
| `MCStatusPages` | two reporting replicas, one dashboard request goroutine and the collector | — |

### RoutingAlgo

`RoutingAlgo` is a set of pure operators; `RoutingAlgo(curr, candidates)` returns
`[version, slices]`.

The key space is scaled from 64 bits to `KeyBits`. The float64 significand is
scaled from 53 bits to `MantissaBits`. `ToFloat` rounds to the nearest value
with that many significant bits, ties to even, as Go's uint64→float64
conversion does. A scaled model therefore rounds at the same bisection depths
as the real code does, relative to the key width.

`Bisect` is the code's do-while loop, written with `RECURSIVE`. The splits are
then sorted by start and dealt round robin to the sorted candidates.

### Manager

Variables and what they model:

- `appState`, `appVersion`: the app state stored under `appStateKey`. It is a
  record of groups and listeners. A group has:
  - `components` (component → isRouted);
  - `replicas` and `replicaPids`;
  - `assignments` (component → assignment).
- `routingState`, `routingVersion`: the per-group RoutingInfo in `routingState`.
- `started`: `m.started`.
- `launches`: the multiset of babysitters launched, as (group, location) → count.
- `proxies`: `m.proxies`, each proxy with its address and backend list.
- `lastRoute`: the backend the last routed request went to.
- `ran`: whether `run()` has begun.
- `routingSeen`, `routingView`, `compSeen`, `compView`: each weavelet's last
  version and value from the two long polls.
- `served`: the number of mutating RPCs so far. This is a bound, not program
  state.

Each handler is one action, because it holds `m.mu` for its whole body. The
action includes every call the handler makes: the recompute, the sort, the
routing write and the app-state store. `StartComponent` is
`startComponent` followed by `startColocationGroup` in the same locked call.

Error paths are nondeterministic choices:
- `StartColocationGroup` chooses how many locations launch before the first
  failure.
- `ExportListener` chooses whether `net.Listen` fails. It always fails with
  EADDRINUSE when another proxy already holds the address.

The readers are enabled only when the stored version differs from the caller's
version, which is how the long poll blocks.

### The properties checked by the `manager` run

- `RoutingStateMatchesGroups`: the published routing info of every group equals
  what `mayGenerateNewRoutingInfo` would derive from the stored group. The
  replicas must be sorted, and every assignment's slices must be the algorithm's
  slices for the current replicas. A write skipped or based on a stale group
  breaks it.
- `RequestsReachExportedWorkers`: a routed request only ever goes to a worker
  whose listener was exported.
- `ReplicasEventuallyRouted`: liveness of the routing long poll. Every
  registered replica eventually appears in the weavelet's routing view. This
  runs through the registration, the recompute, the equality-checked routing
  write and the long poll's wake-up.

Three earlier properties were dropped because each only restated a single
step of the model:
- that a started group has a babysitter at every location restated the one
  assignment of `started`;
- that routing reads advance assignment versions restated `Version++`;
- that stored components reach the weavelets followed from the store write
  alone.

The refinement of a separate versioned-store contract went for the same
reason. `versioned_map` is not in the repository, so the store write is taken
from the design (value stored, version + 1). Checking the manager against that
contract only restated the write.

### Metric

A goroutine's call is `Invoke`, followed by one `Step` per field it writes, in
program order:
- `Put` writes the bucket count, then the sum, then the version;
- `Add`, `Sub` and `Set` write the value, then the version.

Each field is an atomic, and `expvar.Float.Add` is a compare-and-swap loop, so
each write is atomic. Other goroutines interleave between the writes.

The exporter is `ExportCheck`, then one `SnapshotCount` per bucket, then
`SnapshotValue`. `Snapshot` loads the counts one by one and then the value. The
exporter itself is not in the repository: `ExportCheck` is modelled from the
comment on `version` ("incremented on every update, for change detection").

Floats are integers here, because the properties are about which writes a
reader sees.

Properties:
- `CallsAccounted`: once no call is in flight, the metric reflects every call
  exactly once:
  - the version counts the calls;
  - the value of a counter or histogram is the sum of the arguments;
  - each bucket holds the Puts whose value lies in the bucket's documented
    range.
- `ExportEventuallyCurrent`: the exported snapshot eventually equals the
  metric, for every interleaving of writes and reads. This depends on writing
  the value before the version.

### MetricRegistry

Each registry call holds the mutex guarding what it touches, so each call is one
action. A panic during registration ends the process.

Properties:
- `OneMetricPerLabels`: the global list has one metric per (name, labels), and
  the map's cache points at it.

The check that histogram bounds strictly increase was dropped. It was the
contrapositive of `RegisterMap`'s single `>=` test (bootstrap.go:395).

### Bootstrap and Dashboard

Both are pure operators.
- `BootstrapFromEnvironment` checks `GetBootstrap` against its comments, using
  a positional reference for the integers the variables spell. Every pair of
  inputs is enumerated, and each pair is one initial state. The test-context
  branch is not checked: no comment states what it must return. The
  `pure_operators` run checks this beside `RoutingAlgo`, as the product of the
  two harnesses.
- `computeTraffic` is checked inside `StatusPages`, below. In the model a
  value `v` stands for the float `v/2`, so that `int()` truncation is
  exercised.

### GameModules

The module manager, the sessions and the client are the environment:
- `RegisterModule` is the package `init()`. It stores `Mod` as it is at that
  moment.
- `ModuleInit` is the manager's `Init` call on what it holds. `Init` first
  sets the package globals `startTime` and `finalTime`. Its two error returns
  cannot happen, because it parses fixed, well-formed strings. It then writes
  `m.blackList`; on a nil receiver, this write panics.
- `GetRank`, `GetZCard`, `Clear` and `Save` touch no field. They would not
  panic even on a nil receiver, and they change nothing.
- `OnEvent` and `SetEventCategoryActive` panic ("implement me").

An unrecovered panic ends the process, so every action requires `crashed =
"none"`.

A player has these actions:
- `NewPlayer`. The player's `HandlerParamCh` stays nil.
- `Start`, the `for` loop.
- `Send`, a session that begins a channel send.
- `Receive`, one turn of the `select`, which passes the message to `Handler`.
- `OnLogin`, which loads task data in the GamePlay package only.

Go blocks forever on a nil channel, so `Receive` is never enabled after
`NewPlayer`: the player never handles a message.

`MessageHandlerRegister` adds the response ids to the client's table.

`InitDoesNotPanic` states what registration is for: the manager can run the
module's `Init`, which reports failure as its error result. TLC breaks it in
two steps, because nothing assigns `Mod`.

### StatusPages

This module composes the manager's metrics store with its readers:
- `handleRecvMetrics` stores a replica's report wholesale under `m.mu`.
- `Metrics` and the stats collector's callback copy every stored report under
  `m.mu`.
- The dashboard's three handlers are goroutines. Each makes its registry,
  `Status` and `Metrics` calls in turn and answers with an HTTP error or a
  page.

`DashboardCommand`'s `Fn` is three startup steps. Each of `spec.Registry` and
`net.Listen` may fail, and the command then returns. The `perfetto.Open` step
never stops startup, because its error is only printed. Requests are served
only once `http.Serve` runs. When a handler or a collector callback returns,
its local copy and window are cleared. A finished request therefore leaves
no state behind.

A reader's copy loop takes one step per replica, so the model can show what
the lock excludes. The ghost variable `window` records every state of
`m.metrics` during a reader's copy.

Properties:
- `ConsistentMetricsReads`: every read returns one state from that window,
  never one replica's old report beside another's new one. The spec requires
  the projections to "reflect the latest registry state at call time".
- `TrafficMatchesMethodCounts`: each traffic graph about to be rendered
  matches a per-pair sum of the method counts that read returned.
  `TrafficMatchesMethodCounts` replaces the earlier check of `computeTraffic`
  over every list of up to three snapshots. The reports in `MCStatusPages` are
  chosen so that their concatenations cover the same cases:
  - truncation of 1/2 and -1/2;
  - a second pair;
  - a metric of another name.

`StartComponent` adds a component to the app state under `m.mu`. `Status`
returns the components stored at that moment. Replicas report method counts
only for components already started, because a weavelet runs only the
components the manager tells it to start. This is an assumption about the
weavelets, which are not in the repository.

`RequestsAnswered` (liveness): every request that arrives is eventually
answered, with a page or an HTTP error. It needs the collector, which takes
`m.mu` on every tick and holds it across its copies, to let a dashboard
`Metrics` call through. With weak fairness on taking the lock, TLC finds a
cycle in which the collector re-locks forever. See Fairness below for why
strong fairness is justified. A `RegistryGet` that swaps the two handlers'
continuations sends a metrics request down the deployment path, where it
never finishes, and violates the property.

## Runs

| run | cfg | expect | shows |
|---|---|---|---|
| pure_operators | MCPureOperators.cfg | pass | all join orders of up to 5 replicas give the sorted, equal-width, round-robin slicing, and GetBootstrap matches its documented contract on all 961 pairs of environment values (313,286 states) |
| routing_algo_widths | MCRoutingAlgoWidths.cfg | violation | past the float rounding depth slice widths differ by 2 |
| manager | MCManager.cfg | pass | the safety and liveness properties above, (584,604 states, about 1 min) |
| manager_pids | MCManager_ReplicaPidsParallel.cfg | violation | `sort.Strings(g.Replicas)` leaves `ReplicaPids` in registration order |
| manager_double_launch | MCManager_BabysitterLaunchedAtMostOnce.cfg | violation | retry after a partial start failure launches a second babysitter |
| manager_spurious_write | MCManager_NoSpuriousRoutingWrite.cfg | violation | version bumps defeat the `gproto.Equal` check, so identical routing is rewritten |
| metric_histogram | MCMetricHistogram.cfg | pass | concurrent Puts are all accounted for, and the exporter converges (30,916 states) |
| metric_counter_negative | MCMetricCounterNegative.cfg | violation | `Counter.Add(-1)` lowers the counter instead of panicking |
| metric_registry | MCMetricRegistry.cfg | pass | registry calls keep one metric per labels, with the cache pointing at it (6,035 states) |
| status_pages | MCStatusPages.cfg | pass | every Metrics read is one moment's reports, every page's traffic graph matches its method counts, and every request is answered (135,400 states, about 50 s) |
| game_modules_init | MCGameModules.cfg | violation | `init()` registers the nil `Mod`, and the manager's `Init` on it panics |

Findings (details in `PROJECT.json`):
1. `ReplicaPids` loses its correspondence with `Replicas` (part_003:574).
2. A partial babysitter start followed by a retry launches twice (part_003:496-501).
3. `updateRoutingInfo` never suppresses a write for a group with a routed
   component, because every recompute bumps the assignment version
   (part_003:592, 620).
4. Slice widths are only equal up to 2048 replicas (part_003:652).
5. `Counter.Add` does not panic on a negative delta, although its comment says
   it does (part_002:32).
6. The rank package registers a nil `*Module`, and `Init` on it panics after
   setting the time globals (module.go:17, 57).

Two further points came up while modelling. Neither has a violation run of
its own:
- NewHistogram's worked example puts 0 in bucket 0. The code, and the range
  list above the example, put it in bucket 1 (bootstrap.go:291).
  `CallsAccounted` checks the code against the range list.
- `GetBootstrap` accepts a zero or negative descriptor next to a valid one,
  for example `0` and `7`. `HasPipes` then reports no pipes, or `MakePipes`
  fails (bootstrap.go:55-97). No comment says `GetBootstrap` should reject
  these values.

## Bounds and why they are enough

### MCPureOperators.cfg (routing part)

`KeyBits = 8, MantissaBits = 5, MaxCandidates = 5`:
- 1, 2, 3, 4 and 5 candidates cover `n = 0`, `n = 1`, a power of two, and
  non-powers. With 5 candidates `numSlices = 8` and the owners wrap round robin.
- Every join order (5! orders) is explored.
- With 8 slices of 256 keys the bisection stays above the rounding depth, which
  matches the code up to 2048 replicas.

### MCRoutingAlgoWidths.cfg

`KeyBits = 4, MantissaBits = 3` puts the rounding depth within reach of 3
replicas. This reproduces what 4096 slices do at 64 bits.

### MCPureOperators.cfg (bootstrap part) and MCGameModules.cfg

The environment values are the strings of up to two characters over `+`,
`-`, `0`, `7` and `x`. This covers:
- unset values;
- a sign alone;
- a signed and an unsigned number;
- leading zeros;
- a non-digit.

`MCGameModules.cfg` gives `Mod` the nil value, as in the repository. The
player and client constants are model values; the violation needs none of
them.

### MCManager.cfg

The model values are:
- two groups: `main`, and `g1` holding the routed component `c1`;
- two locations;
- three replica addresses;
- one listener and one local address;
- one weavelet in `g1`;
- `MaxRequests = 4` mutating RPCs.

Four RPCs are enough for each of these sequences:
- `run`, `startComponent(c1)`, then two registrations in either order, which
  makes the sort permute them;
- a failed start followed by a retry;
- two exports of the same listener, which exercises the existing-proxy branch
  and the EADDRINUSE branch.

### MCMetric and MCMetricRegistry

MCMetric uses two goroutines and at most 3 calls. The passing run uses a
histogram, whose `Put` has the longest write sequence. `Add`, `Sub` and `Set`
are exercised only by the counter run, which is a violation run. This is enough for two calls
to interleave field by field while the exporter is mid-snapshot. The histogram
values -1, 0 and 10 hit the underflow bucket and both bounds exactly.

MCMetricRegistry allows 5 calls. These cover registering a name twice, an empty
name, an invalid type, equal and descending bounds, and two Gets of the same
labels.

The readers are not counted against the budget. A weavelet of `main` would only
repeat the `g1` weavelet's behaviour on another key, so the model has none.

## Fairness

`Fairness` is weak fairness on each weavelet's two reader actions. A weavelet
loops on its long polls forever, and a blocked `Read` returns once the version
changes.

In `Metric`, each goroutine's `Step` is weakly fair, because a goroutine inside
`Add` or `Put` runs to the end of the call. The exporter's three actions are
weakly fair, because it runs on a periodic loop. Nobody is obliged to call
`Add`. `Invoke` is therefore not fair, and at most `MaxOps` calls are made.

In `StatusPages`, taking `m.mu` (`MetricsLock`), and the dashboard's `Status`
call, which also takes `m.mu`, are strongly fair. Go's `sync.Mutex` enters
starvation mode when a waiter has waited more than 1 ms, and then hands the
lock to the longest waiter. So a goroutine that keeps waiting gets the lock,
even though the collector releases it and takes it again. Every other step
of a handler or a reader is weakly fair, because a goroutine that has begun a
call runs it to the end. The collector's tick is weakly fair, because it is
a periodic loop. Request arrivals, replica reports, component starts and
startup are not fair: clients, replicas and the operator may stop. The
answer on the path where `Metrics` is unreachable is not fair either; it is
only one of the call's outcomes.

Handlers get no fairness, because clients may stop calling. The liveness
properties only claim that what has been stored reaches the readers.

`CHECK_DEADLOCK FALSE` is used for two reasons:
- every configuration stops mutating RPCs at a bound;
- the real manager legitimately idles with all weavelets blocked;
- in `MCGameModules`, the panic ends the process, so no step follows it.

## What is not modelled, and why

- **The babysitters' reporting loop and the stats processor**: neither is in
  the repository. `StatusPages` therefore lets any replica report at any time
  and does not model what the collector's result feeds. Whether a replica can
  have two reports in flight, so that an older one overwrites a newer one, is
  open (part_003:520).
- **`MetricSnapshot` conversions** (`MetricDef`, `MetricValue`, `ToProto`,
  `UnProto`, `Clone`): field copies with no state.
- **The module manager, the player session, `Player.Handler` and the
  client's dispatch**: they are not in the repository. `GameModules` makes
  their calls environment actions. Nothing in the repository makes a player's
  channel, so no property states what a session should see (module.go:120).
- **Logs, traces, the status server, `Profile`**: they forward data to external
  savers, with no state.
- **`HasPipes`, `MakePipes`, `openFileDescriptor`**: one or two checks on the
  descriptors `GetBootstrap` parsed. A property about them would only restate
  those checks.
- **The deployment registry, SSH and process start**: external. Only the success
  or failure of a babysitter start is modelled.
- **The multi deploy CLI, the dashboard's templates, and the configs**:
  sequential I/O, HTML, or declarations. The dashboard command's control
  flow is modelled. `traceDB.Serve`, which starts on a nil database when
  `perfetto.Open` fails (dashboard.go:125), is not in the repository.
- **Aliasing between the stored objects and the handlers' local variables**
  (part_003:365, 552, 576): this depends on whether `versioned_map` copies, and
  its code is not in the repository. The model stores values.

## Plan for the next sittings

Done so far:
- `Metric`, `MetricRegistry`, `Bootstrap` and `computeTraffic`;
- `GameModules`: the rank module's registration and methods, the players and
  the client's handler table;
- `StatusPages`: the metrics store, its readers, the dashboard command and
  handlers, the components started between a page's two calls, and the
  liveness of requests under the mutex's fairness;
- properties that only restated one step of the model removed.

Next:
1. A second `MCManager` configuration with two weavelets and two listeners.
2. Compose `Metric` with the registry: `Snapshot()` taken during concurrent
   `Get` and `Put`.
