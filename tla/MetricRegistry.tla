--------------------------- MODULE MetricRegistry ---------------------------
(***************************************************************************)
(* The process-wide metric registry of the metrics library                *)
(* (src/aop/bootstrap.go): RegisterMap, MetricMap.Get, newMetric, Init    *)
(* and the package-level Snapshot.                                        *)
(*                                                                         *)
(* RegisterMap holds metricNamesMu, Get holds the map's mu and, inside    *)
(* it, newMetric holds metricsMu; Snapshot holds metricsMu for reading.   *)
(* Every call therefore runs as one atomic step with respect to the       *)
(* others that touch the same state, and is one action here.  A panic    *)
(* during registration (package initialisation) ends the process.         *)
(***************************************************************************)
EXTENDS Integers, Sequences, FiniteSets, TLC

CONSTANTS Names,       \* metric names a program may register, "" included
          Types,       \* protos.MetricType values, "INVALID" included
          BoundSeqs,   \* histogram bounds a program may pass
          Labels,      \* label values passed to Get
          Unit,        \* struct{}{}, the only label of a map made by Register
          MaxCalls     \* bound: number of calls in a behaviour

VARIABLES metricNames, \* the names registered so far (metricNames)
          maps,        \* name -> the MetricMap: its config and its cache
          metrics,     \* the global list of metrics (metrics), in order
          snapshot,    \* the result of the last Snapshot()
          panicked,    \* a registration panicked and the process ended
          calls        \* calls made so far (bounded by MaxCalls)

vars == <<metricNames, maps, metrics, snapshot, panicked, calls>>

NoMetric == 0   \* a cache entry of a label not obtained yet

Init ==
    /\ metricNames = {}
    /\ maps = [n \in {} |-> 0]
    /\ metrics = << >>
    /\ snapshot = << >>
    /\ panicked = FALSE
    /\ calls = 0

Call == /\ ~panicked
        /\ calls < MaxCalls
        /\ calls' = calls + 1

\* for i := 0; i < len(bounds)-1; i++ { if bounds[i] >= bounds[i+1] { panic } }
Ascending(bounds) ==
    \A i \in 1..Len(bounds) - 1 : ~(bounds[i] >= bounds[i + 1])

\* The arguments RegisterMap panics on, in the order it checks them.
RegisterMapPanics(name, typ, bounds) ==
    \/ name = ""
    \/ typ = "INVALID"
    \/ ~Ascending(bounds)
    \/ name \in metricNames

\* A new MetricMap's config and its empty cache over the label values ls.
NewMap(typ, bounds, ls) ==
    [typ |-> typ, bounds |-> bounds, cache |-> [l \in ls |-> NoMetric]]

\* A plausible bug: the name not recorded in metricNames.
RegisterMapNoName(name, typ, bounds) ==
    /\ Call
    /\ IF RegisterMapPanics(name, typ, bounds)
       THEN /\ panicked' = TRUE
            /\ UNCHANGED <<metricNames, maps>>
       ELSE /\ maps' = maps @@ (name :> NewMap(typ, bounds, Labels))
            /\ UNCHANGED <<metricNames, panicked>>
    /\ UNCHANGED <<metrics, snapshot>>

(***************************************************************************)
(* RegisterMap[L](typ, name, help, bounds): a new MetricMap with an empty *)
(* cache, or a panic.  NaN bounds and label-type errors are not           *)
(* represented (bounds are integers, labels one comparable type).         *)
(***************************************************************************)
RegisterMap(name, typ, bounds) ==
    /\ Call
    /\ IF RegisterMapPanics(name, typ, bounds)
       THEN /\ panicked' = TRUE
            /\ UNCHANGED <<metricNames, maps>>
       ELSE /\ metricNames' = metricNames \cup {name}
            /\ maps' = maps @@ (name :> NewMap(typ, bounds, Labels))
            /\ UNCHANGED panicked
    /\ UNCHANGED <<metrics, snapshot>>

\* newMetric(config): the global list with the new metric appended.
NewMetric(config, name, l) ==
    Append(metrics, [name   |-> name,
                     labels |-> l,
                     typ    |-> config.typ,
                     counts |-> IF config.typ = "HISTOGRAM"
                                THEN Len(config.bounds) + 1 ELSE 0,
                     inited |-> FALSE])

\* A plausible bug: the new metric never stored in the map's cache.
GetNoCache(name, l) ==
    /\ Call
    /\ name \in DOMAIN maps
    /\ l \in DOMAIN maps[name].cache
    /\ IF maps[name].cache[l] # NoMetric
       THEN UNCHANGED <<maps, metrics>>
       ELSE /\ metrics' = NewMetric(maps[name], name, l)
            /\ UNCHANGED maps
    /\ UNCHANGED <<metricNames, snapshot, panicked>>

\* mm.Get(labels): the cached metric, or a new one stored in the cache.
Get(name, l) ==
    /\ Call
    /\ name \in DOMAIN maps
    /\ l \in DOMAIN maps[name].cache
    /\ IF maps[name].cache[l] # NoMetric
       THEN UNCHANGED <<maps, metrics>>
       ELSE /\ metrics' = NewMetric(maps[name], name, l)
            /\ maps' = [maps EXCEPT ![name].cache[l] = Len(metrics')]
    /\ UNCHANGED <<metricNames, snapshot, panicked>>

(***************************************************************************)
(* Register(typ, name, help, bounds): RegisterMap[struct{}] and then Get  *)
(* of struct{}{} on the new map.  No other goroutine holds that map, so   *)
(* the two calls are one step.                                            *)
(***************************************************************************)
Register(name, typ, bounds) ==
    /\ Call
    /\ IF RegisterMapPanics(name, typ, bounds)
       THEN /\ panicked' = TRUE
            /\ UNCHANGED <<metricNames, maps, metrics>>
       ELSE LET mm == NewMap(typ, bounds, {Unit})
            IN  /\ metricNames' = metricNames \cup {name}
                /\ metrics' = NewMetric(mm, name, Unit)
                /\ maps' = maps @@ (name :> [mm EXCEPT !.cache[Unit] = Len(metrics')])
                /\ UNCHANGED panicked
    /\ UNCHANGED snapshot

\* m.Init(): once.Do sets the labels and the id the first time only.
InitMetric(m) == [m EXCEPT !.inited = TRUE]

\* Snapshot(): Init (once) and snapshot every metric of the global list.
Snapshot ==
    /\ Call
    /\ metrics' = [i \in DOMAIN metrics |-> InitMetric(metrics[i])]
    /\ snapshot' = [i \in DOMAIN metrics |->
                      [name |-> metrics[i].name, labels |-> metrics[i].labels]]
    /\ UNCHANGED <<metricNames, maps, panicked>>

Next ==
    \/ \E n \in Names, t \in Types, b \in BoundSeqs : RegisterMap(n, t, b)
    \/ \E n \in Names, t \in Types, b \in BoundSeqs : Register(n, t, b)
    \/ \E n \in Names, l \in Labels : Get(n, l)
    \/ Snapshot

Spec == Init /\ [][Next]_vars

=============================================================================
