--------------------------- MODULE MCStatusPages ---------------------------
(***************************************************************************)
(* Two replicas report metrics while a dashboard request and the stats    *)
(* collector read them.  Replica r1 may report a method count of 1/2, or  *)
(* one of 3/2 next to another metric; r2 one of 1/2 for the same pair, or *)
(* two of -1/2 for the reverse pair; the float v/2 is written v.          *)
(***************************************************************************)
EXTENDS StatusPages, SequencesExt

CONSTANTS r1, r2, q1, ca, cb, other

MCReplicas == {r1, r2}

Snap(n, s, t, v) == [name |-> n, caller |-> s, component |-> t, value |-> v]

MCReports ==
    [r \in MCReplicas |->
        IF r = r1
        THEN {<< >>, <<Snap(MethodCountsName, ca, cb, 1)>>,
              <<Snap(MethodCountsName, ca, cb, 3), Snap(other, ca, cb, 3)>>}
        ELSE {<< >>, <<Snap(MethodCountsName, ca, cb, 1)>>,
              <<Snap(MethodCountsName, cb, ca, -1), Snap(MethodCountsName, cb, ca, -1)>>}]

\* The copied reports as a function of the replica, to compare with m.metrics.
CopiedState(q) == [r \in {copied[q][i][1] : i \in DOMAIN copied[q]} |->
                      (CHOOSE p \in Range(copied[q]) : p[1] = r)[2]]

-----------------------------------------------------------------------------
TypeOK ==
    /\ metrics \in [Replicas -> UNION {Reports[r] : r \in Replicas}]
    /\ mu \in Readers \cup {NoHolder}
    /\ pc \in [Readers -> {"idle", "registry", "status", "metrics", "copy",
                           "render", "prometheus"}]
    /\ \A q \in Readers : pc[q] = "copy" <=> mu = q

(***************************************************************************)
(* Metrics and the collector's callback return the reports of every       *)
(* replica as they stood at one moment of the call ("the latest registry  *)
(* state at call time"), never one replica's old report beside another's *)
(* new one.  handleRecvMetrics and the copy loops both hold m.mu for it.  *)
(***************************************************************************)
ConsistentMetricsReads ==
    \A q \in Readers :
        Len(copied[q]) = Cardinality(Replicas) => CopiedState(q) \in window[q]

(***************************************************************************)
(* The traffic graph handleDeployment renders: one edge from s to t for   *)
(* every pair with a method-count metric in the reports Metrics returned, *)
(* weighted by the sum of the truncated counts of those metrics, and no   *)
(* other edge.                                                            *)
(***************************************************************************)
TrafficMatchesMethodCounts ==
    \A q \in Requests :
        pc[q] = "render" =>
            LET ms == Result(q)
                calls(s, t) == {i \in DOMAIN ms :
                                  /\ ms[i].name = MethodCountsName
                                  /\ ms[i].caller = s /\ ms[i].component = t}
            IN  ComputeTraffic(ms) =
                  {[source |-> s, target |-> t,
                    value  |-> MapThenSumSet(LAMBDA i : IntOf(ms[i].value),
                                             calls(s, t))] :
                     <<s, t>> \in {<<s, t>> \in {ca, cb} \X {ca, cb} :
                                     calls(s, t) # {}}}

(***************************************************************************)
(* Every dashboard request, once the handler has it, returns: with an     *)
(* error page or with its page.  Its Metrics call waits for m.mu while    *)
(* the collector and the replicas keep taking it, so this rests on the    *)
(* mutex's fairness.                                                      *)
(***************************************************************************)
RequestsAnswered == \A q \in Requests : pc[q] # "idle" ~> pc[q] = "idle"

=============================================================================
