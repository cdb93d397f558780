-------------------------- MODULE MCMetricRegistry --------------------------
(***************************************************************************)
(* Model-checking harness for MetricRegistry: a program registers metric  *)
(* maps, gets labelled metrics from them and snapshots the registry, in   *)
(* any order.                                                             *)
(***************************************************************************)
EXTENDS MetricRegistry

CONSTANTS l1, l2

MCLabels == {l1, l2}

\* Ascending, equal and descending bounds, and none.
MCBoundSeqs == {<< >>, <<0, 10>>, <<10, 10>>, <<10, 0>>}

TypeOK ==
    /\ metricNames \subseteq Names
    /\ DOMAIN maps = metricNames
    /\ metrics \in Seq([name : Names, labels : Labels \cup {Unit}, typ : Types,
                        counts : Nat, inited : BOOLEAN])
    /\ \A n \in DOMAIN maps :
          \/ maps[n].cache \in [Labels -> 0..Len(metrics)]
          \/ maps[n].cache \in [{Unit} -> 1..Len(metrics)]
    /\ panicked \in BOOLEAN

(***************************************************************************)
(* Get's contract ("Multiple calls to Get with the same labels will       *)
(* return the same metric"), stated over the global list every Snapshot  *)
(* reads: each (name, labels) pair has at most one metric in the list,    *)
(* and the map's cache points at it.                                      *)
(***************************************************************************)
OneMetricPerLabels ==
    /\ \A i, j \in DOMAIN metrics :
          i # j => <<metrics[i].name, metrics[i].labels>>
                   # <<metrics[j].name, metrics[j].labels>>
    /\ \A i \in DOMAIN metrics :
          maps[metrics[i].name].cache[metrics[i].labels] = i

=============================================================================
