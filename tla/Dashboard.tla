------------------------------ MODULE Dashboard ------------------------------
(***************************************************************************)
(* computeTraffic of the deployment dashboard                             *)
(* (src/aop/status/dashboard.go): the cross-component traffic graph built *)
(* from the method-count metrics a deployment reports.  A metric snapshot *)
(* is [name, caller, component, value], the two labels it reads included; *)
(* a value v stands for the float v/2, so that int() truncation matters.  *)
(***************************************************************************)
EXTENDS Integers, Sequences, TLC

CONSTANT MethodCountsName   \* codegen.MethodCounts.Name()

\* int(f) for the float v/2: truncation toward zero.
IntOf(v) == IF v >= 0 THEN v \div 2 ELSE -((-v) \div 2)

\* A plausible bug: every metric counted, whatever its name.
IsMethodCountAny(m) == TRUE

\* if metric.Name != codegen.MethodCounts.Name() { continue }
IsMethodCount(m) == m.name = MethodCountsName

(***************************************************************************)
(* The loop over the metrics: byPair[call] += int(metric.Value) for every *)
(* method-count metric, call being its (caller, component) labels.        *)
(***************************************************************************)
RECURSIVE ByPair(_, _)
ByPair(metrics, acc) ==
    IF metrics = << >> THEN acc
    ELSE LET m    == Head(metrics)
             call == <<m.caller, m.component>>
             next == IF ~IsMethodCount(m) THEN acc
                     ELSE IF call \in DOMAIN acc
                          THEN [acc EXCEPT ![call] = @ + IntOf(m.value)]
                          ELSE acc @@ (call :> IntOf(m.value))
         IN  ByPair(Tail(metrics), next)

\* The edges, one per pair; their order is Go's map iteration order, which
\* the dashboard does not fix, so they are a set here.
ComputeTraffic(metrics) ==
    LET byPair == ByPair(metrics, [p \in {} |-> 0])
    IN  {[source |-> p[1], target |-> p[2], value |-> byPair[p]] : p \in DOMAIN byPair}

=============================================================================
