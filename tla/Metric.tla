------------------------------- MODULE Metric -------------------------------
(***************************************************************************)
(* One metric of the metrics library (src/aop/bootstrap.go, the Metric    *)
(* type) updated by concurrent goroutines and read by an exporter.        *)
(*                                                                         *)
(* The fields of a Metric are separate atomics: version (atomic.Uint64),  *)
(* value (expvar.Float, an atomic compare-and-swap loop) and one          *)
(* atomic.Uint64 per histogram bucket.  Add, Sub, Set and Put therefore   *)
(* take one atomic step per field they touch, in the order the code       *)
(* writes them, and other goroutines may run between the steps.  A       *)
(* goroutine's remaining steps are the sequence pc[w].                    *)
(*                                                                         *)
(* Float values are abstracted to integers: the properties are about      *)
(* which updates a reader sees, not about rounding.                       *)
(***************************************************************************)
EXTENDS Integers, Sequences, FiniteSets, Bags, BagsExt

CONSTANTS Writers,     \* goroutines updating the metric
          Typ,         \* "COUNTER", "GAUGE" or "HISTOGRAM"
          Bounds,      \* histogram bounds, a strictly ascending sequence
          Values,      \* the deltas and values the goroutines pass
          MaxOps       \* bound: number of updates issued in a behaviour

ASSUME Typ \in {"COUNTER", "GAUGE", "HISTOGRAM"}
ASSUME \A i \in 1..Len(Bounds) - 1 : Bounds[i] < Bounds[i + 1]

VARIABLES value,       \* m.value: the value, or the sum for a histogram
          version,     \* m.version
          counts,      \* m.counts: bucket index (0-based) -> count
          pc,          \* goroutine -> the atomic steps its call has left
          arg,         \* goroutine -> the call it is executing
          invoked,     \* bag of the calls issued so far (history)
          epc,         \* exporter: "idle", "counts" or "value"
          readVersion, \* exporter: the version it read before snapshotting
          snapCounts,  \* exporter: the counts loaded so far by Snapshot
          exported,    \* exporter: the last snapshot it exported
          lastVersion  \* exporter: the version of the last export

vars == <<value, version, counts, pc, arg, invoked,
          epc, readVersion, snapCounts, exported, lastVersion>>

\* The number of histogram buckets: len(bounds)+1 for a histogram, no
\* counts otherwise (newMetric).
NumCounts == IF Typ = "HISTOGRAM" THEN Len(Bounds) + 1 ELSE 0

Buckets == 0..NumCounts - 1

\* The calls the user-facing wrapper of each metric type offers.
OpsOf(t) == CASE t = "COUNTER"   -> {"Add"}
              [] t = "GAUGE"     -> {"Set", "Add", "Sub"}
              [] t = "HISTOGRAM" -> {"Put"}

-----------------------------------------------------------------------------
(***************************************************************************)
(* sort.SearchFloat64s(bounds, val): the smallest 0-based index i with    *)
(* bounds[i] >= val, or len(bounds) if there is none.                     *)
(***************************************************************************)
SearchBounds(v) ==
    LET n == Len(Bounds)
    IN  CHOOSE i \in 0..n : /\ i = n \/ Bounds[i + 1] >= v
                            /\ \A j \in 0..i - 1 : Bounds[j + 1] < v

\* A plausible bug: a value equal to a bound left in the lower bucket.
BucketOfNoEqualBump(v) == SearchBounds(v)

\* Put's bucket: the search index, moved up by one when val == bounds[idx].
BucketOf(v) ==
    LET idx == SearchBounds(v)
    IN  IF idx < Len(Bounds) /\ v = Bounds[idx + 1] THEN idx + 1 ELSE idx

\* A plausible bug: the version bumped before the value is written.
PutStepsVersionFirst == <<"count", "version", "value">>

\* The field writes of each call, in program order: Put writes the bucket
\* count, then the sum, then the version; Add, Sub and Set write the value
\* and then the version.
PutSteps == <<"count", "value", "version">>
AddSteps == <<"value", "version">>

StepsOf(kind) == IF kind = "Put" THEN PutSteps ELSE AddSteps

\* The effect of the value step of each call on m.value.
NewValue(call, v) ==
    CASE call.kind \in {"Add", "Put"} -> v + call.arg
      [] call.kind = "Sub"            -> v - call.arg
      [] call.kind = "Set"            -> call.arg

-----------------------------------------------------------------------------
Init ==
    /\ value = 0
    /\ version = 0
    /\ counts = [i \in Buckets |-> 0]
    /\ pc = [w \in Writers |-> << >>]
    /\ arg = [w \in Writers |-> [kind |-> "Add", arg |-> 0]]
    /\ invoked = EmptyBag
    /\ epc = "idle"
    /\ readVersion = 0
    /\ snapCounts = << >>
    /\ exported = [value |-> 0, counts |-> [i \in Buckets |-> 0]]
    /\ lastVersion = 0

\* A goroutine calls Add, Sub, Set or Put (whichever its wrapper offers).
Invoke(w, kind, v) ==
    /\ pc[w] = << >>
    /\ BagCardinality(invoked) < MaxOps
    /\ pc' = [pc EXCEPT ![w] = StepsOf(kind)]
    /\ arg' = [arg EXCEPT ![w] = [kind |-> kind, arg |-> v]]
    /\ invoked' = BagAdd(invoked, [kind |-> kind, arg |-> v])
    /\ UNCHANGED <<value, version, counts, epc, readVersion, snapCounts,
                   exported, lastVersion>>

\* The next atomic field write of goroutine w's call.
Step(w) ==
    /\ pc[w] # << >>
    /\ LET s    == Head(pc[w])
           call == arg[w]
       IN  /\ value' = IF s = "value" THEN NewValue(call, value) ELSE value
           /\ version' = IF s = "version" THEN version + 1 ELSE version
           /\ counts' = IF s = "count"
                        THEN [counts EXCEPT ![BucketOf(call.arg)] = @ + 1]
                        ELSE counts
    /\ pc' = [pc EXCEPT ![w] = Tail(@)]
    /\ UNCHANGED <<arg, invoked, epc, readVersion, snapCounts, exported,
                   lastVersion>>

\* m.Version()
Version == version

(***************************************************************************)
(* The exporter's change detection: it snapshots the metric only when     *)
(* Version() differs from the version of its last export, and remembers   *)
(* the version it read before the snapshot.                               *)
(***************************************************************************)
ExportCheck ==
    /\ epc = "idle"
    /\ Version # lastVersion
    /\ readVersion' = Version
    /\ snapCounts' = << >>
    /\ epc' = IF NumCounts > 0 THEN "counts" ELSE "value"
    /\ UNCHANGED <<value, version, counts, pc, arg, invoked, exported,
                   lastVersion>>

\* Snapshot: counts[i] = m.counts[i].Load(), one bucket per step.
SnapshotCount ==
    /\ epc = "counts"
    /\ snapCounts' = Append(snapCounts, counts[Len(snapCounts)])
    /\ epc' = IF Len(snapCounts') = NumCounts THEN "value" ELSE "counts"
    /\ UNCHANGED <<value, version, counts, pc, arg, invoked, readVersion,
                   exported, lastVersion>>

\* A plausible bug: the loaded counts exported with their positions
\* shifted by one (counts[i+1] taken for bucket i).
SnapshotValueShifted ==
    /\ epc = "value"
    /\ exported' = [value |-> value, counts |-> snapCounts]
    /\ lastVersion' = readVersion
    /\ epc' = "idle"
    /\ UNCHANGED <<value, version, counts, pc, arg, invoked, readVersion,
                   snapCounts>>

\* Snapshot: Value: m.value.Value(); the snapshot is then exported.
SnapshotValue ==
    /\ epc = "value"
    /\ exported' = [value  |-> value,
                    counts |-> [i \in Buckets |-> snapCounts[i + 1]]]
    /\ lastVersion' = readVersion
    /\ epc' = "idle"
    /\ UNCHANGED <<value, version, counts, pc, arg, invoked, readVersion,
                   snapCounts>>

Next ==
    \/ \E w \in Writers, kind \in OpsOf(Typ), v \in Values : Invoke(w, kind, v)
    \/ \E w \in Writers : Step(w)
    \/ ExportCheck
    \/ SnapshotCount
    \/ SnapshotValue

(***************************************************************************)
(* A goroutine inside Add or Put keeps running until the call returns, and *)
(* the exporter runs on a periodic loop; nobody is obliged to call Add.    *)
(***************************************************************************)
Fairness ==
    /\ \A w \in Writers : WF_vars(Step(w))
    /\ WF_vars(ExportCheck)
    /\ WF_vars(SnapshotCount)
    /\ WF_vars(SnapshotValue)

Spec == Init /\ [][Next]_vars /\ Fairness

=============================================================================
