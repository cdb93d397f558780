------------------------------ MODULE MCMetric ------------------------------
(***************************************************************************)
(* Model-checking harness for Metric: two goroutines update one metric    *)
(* while the exporter snapshots it.  The metric type, bounds and values   *)
(* are chosen in the .cfg files.                                          *)
(***************************************************************************)
EXTENDS Metric

CONSTANTS w1, w2

MCWriters == {w1, w2}

\* Bounds and values of the configurations.
NoBounds == << >>
TwoBounds == <<0, 10>>
HistogramValues == {-1, 0, 10}
CounterValues == {-1, 1}

\* No goroutine is inside Add, Sub, Set or Put.
Quiescent == \A w \in Writers : pc[w] = << >>

\* The calls of a given kind issued so far, as a bag.
CallsOf(kinds) == [c \in {d \in DOMAIN invoked : d.kind \in kinds} |-> invoked[c]]

\* The sum of the arguments of a bag of calls.
SumArgs(B) == MapThenFoldBag(LAMBDA x, y : x + y, 0, LAMBDA c : c.arg,
                             LAMBDA S : CHOOSE x \in S : TRUE, B)

(***************************************************************************)
(* The bucket NewHistogram's documentation gives a value: bucket 0 is     *)
(* [-inf, bounds[0]), bucket n is [bounds[n-1], +inf), bucket i is        *)
(* [bounds[i-1], bounds[i]) (0-based bounds, as in the Go comment).       *)
(***************************************************************************)
DocumentedBucket(v) ==
    LET n == Len(Bounds)
    IN  CHOOSE i \in 0..n : /\ i = 0 \/ Bounds[i] <= v
                            /\ i = n \/ v < Bounds[i + 1]

-----------------------------------------------------------------------------
TypeOK ==
    /\ value \in Int
    /\ version \in Nat
    /\ counts \in [Buckets -> Nat]
    /\ pc \in [Writers -> Seq({"count", "value", "version"})]
    /\ epc \in {"idle", "counts", "value"}
    /\ exported \in [value : Int, counts : [Buckets -> Nat]]
    /\ lastVersion <= version

(***************************************************************************)
(* Once no Add, Sub, Set or Put is in progress, the metric accounts for   *)
(* every call exactly once: the version counts the calls (change          *)
(* detection relies on it), a counter's or histogram's value is the sum   *)
(* of what was added, and every Put is in the bucket the documented       *)
(* ranges give its value (sort.SearchFloat64s plus the equality bump).    *)
(***************************************************************************)
CallsAccounted ==
    Quiescent =>
        /\ version = BagCardinality(invoked)
        /\ Typ # "GAUGE" => value = SumArgs(CallsOf({"Add", "Put"}))
        /\ \A i \in Buckets :
              counts[i] = BagCardinality(
                  [c \in {d \in DOMAIN invoked : DocumentedBucket(d.arg) = i}
                      |-> invoked[c]])

(***************************************************************************)
(* Version-based change detection loses no update: however the field     *)
(* writes of concurrent calls interleave with the exporter's reads, the   *)
(* exported snapshot eventually equals the metric and stays equal.  It    *)
(* relies on Add and Put writing the value before bumping the version.    *)
(***************************************************************************)
ExportEventuallyCurrent ==
    <>[](exported.value = value /\ exported.counts = counts)

(***************************************************************************)
(* Counter's documentation: a Counter is monotonically increasing, and    *)
(* Counter.Add panics if the delta is negative.  So no step may lower a   *)
(* counter's value.                                                       *)
(***************************************************************************)
CounterNeverDecreases == [][Typ = "COUNTER" => value' >= value]_value

=============================================================================
