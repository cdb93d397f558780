----------------------------- MODULE StatusPages -----------------------------
(***************************************************************************)
(* The manager's metrics store and the status pages built from it:        *)
(*                                                                         *)
(*   manager (src/unnamed/part_003): handleRecvMetrics stores a replica's *)
(*   report under m.mu; Metrics and the stats collector's callback copy   *)
(*   every stored report under m.mu; Status reads the app state and then  *)
(*   the proxies under m.mu; startComponent adds to the app state.        *)
(*                                                                         *)
(*   dashboard (src/aop/status/dashboard.go): handleIndex,                *)
(*   handleDeployment and handleMetrics, each a goroutine that makes its  *)
(*   registry, Status and Metrics calls one after the other and answers   *)
(*   with an error or a page.                                             *)
(*                                                                         *)
(* A reader's copy loop runs one replica per step with m.mu held, so the  *)
(* model shows what the lock excludes.  A report is a sequence of metric  *)
(* snapshots as in Dashboard; the replicas not reported yet hold << >>,   *)
(* which the copy loop appends as nothing.                                *)
(***************************************************************************)
EXTENDS Dashboard, FiniteSets
LOCAL INSTANCE SequencesExt

CONSTANTS Replicas,    \* (group, replica id) keys of m.metrics
          Reports,     \* replica -> the reports it may send
          Components,  \* the components the app has
          Main,        \* the main component, started by run()
          Requests,    \* dashboard request goroutines
          Collector,   \* the statsProcessor.CollectMetrics goroutine
          NoHolder     \* m.mu is free

VARIABLES appComponents, \* the components in the stored app state
          metrics,     \* m.metrics: replica -> its last report
          mu,          \* the holder of m.mu, or NoHolder
          pc,          \* reader -> where it is in its handler
          kind,        \* request -> "index", "deployment" or "metrics"
          copied,      \* reader -> <<replica, report>> pairs copied so far
          window,      \* reader -> the m.metrics states during its copy (ghost)
          status,      \* request -> the components its Status call returned
          page,        \* request -> its last answer
          server       \* where the dashboard command's Fn is

dashVars == <<server>>

stateVars == <<appComponents, metrics, mu, pc, kind, copied, window, status, page>>

vars == <<stateVars, dashVars>>

Readers == Requests \cup {Collector}

NoPage == [code |-> 0]

\* The copy loop's result: the reports appended in the order visited.
Result(q) == FlattenSeq([i \in DOMAIN copied[q] |-> copied[q][i][2]])

Init ==
    /\ appComponents = {Main}
    /\ metrics = [r \in Replicas |-> << >>]
    /\ mu = NoHolder
    /\ pc = [q \in Readers |-> "idle"]
    /\ kind = [q \in Requests |-> "index"]
    /\ copied = [q \in Readers |-> << >>]
    /\ window = [q \in Readers |-> {}]
    /\ status = [q \in Requests |-> {}]
    /\ page = [q \in Requests |-> NoPage]
    /\ server = "registry"

-----------------------------------------------------------------------------
(* The manager.                                                            *)

\* A plausible bug: the report stored without taking m.mu.
HandleRecvMetricsNoLock(r, rep) ==
    /\ metrics' = [metrics EXCEPT ![r] = rep]
    /\ window' = [q \in Readers |-> IF pc[q] = "copy"
                                    THEN window[q] \cup {metrics'}
                                    ELSE window[q]]
    /\ UNCHANGED <<dashVars, appComponents, mu, pc, kind, copied, status, page>>

\* handleRecvMetrics: m.metrics[replica] = report, wholesale, under m.mu.
HandleRecvMetrics(r, rep) ==
    /\ mu = NoHolder
    /\ metrics' = [metrics EXCEPT ![r] = rep]
    /\ window' = [q \in Readers |-> IF pc[q] = "copy"
                                    THEN window[q] \cup {metrics'}
                                    ELSE window[q]]
    /\ UNCHANGED <<dashVars, appComponents, mu, pc, kind, copied, status, page>>

(***************************************************************************)
(* startComponent, as far as the status pages see it: under m.mu, the     *)
(* component is added to the stored app state.                            *)
(***************************************************************************)
StartComponent(c) ==
    /\ mu = NoHolder
    /\ c \notin appComponents
    /\ appComponents' = appComponents \cup {c}
    /\ UNCHANGED <<dashVars, metrics, mu, pc, kind, copied, window, status, page>>

\* Metrics / the collector callback: m.mu.Lock(), then the copy loop.
MetricsLock(q) ==
    /\ pc[q] = "metrics"
    /\ mu = NoHolder
    /\ mu' = q
    /\ pc' = [pc EXCEPT ![q] = "copy"]
    /\ copied' = [copied EXCEPT ![q] = << >>]
    /\ window' = [window EXCEPT ![q] = {metrics}]
    /\ UNCHANGED <<dashVars, appComponents, metrics, kind, status, page>>

\* One iteration of `for _, snap := range m.metrics`, in map order.
Copy(q, r) ==
    /\ pc[q] = "copy"
    /\ r \notin {copied[q][i][1] : i \in DOMAIN copied[q]}
    /\ copied' = [copied EXCEPT ![q] = Append(@, <<r, metrics[r]>>)]
    /\ UNCHANGED <<dashVars, appComponents, metrics, mu, pc, kind, window, status, page>>

(***************************************************************************)
(* The collector's callback hands its copy to the stats processor, which  *)
(* is not modelled, and its locals end with the call; a request keeps its *)
(* copy for its page.                                                     *)
(***************************************************************************)
ReturnCollector(q) ==
    /\ copied' = IF q = Collector THEN [copied EXCEPT ![q] = << >>] ELSE copied
    /\ window' = IF q = Collector THEN [window EXCEPT ![q] = {}] ELSE window

\* A handler's locals end when it returns its page.
EndRequest(q) ==
    /\ copied' = [copied EXCEPT ![q] = << >>]
    /\ window' = [window EXCEPT ![q] = {}]

\* A plausible bug: the return without the deferred m.mu.Unlock().
MetricsUnlockNoRelease(q) ==
    /\ pc[q] = "copy"
    /\ Len(copied[q]) = Cardinality(Replicas)
    /\ pc' = [pc EXCEPT ![q] = IF q = Collector THEN "idle"
                               ELSE IF kind[q] = "deployment" THEN "render"
                               ELSE "prometheus"]
    /\ ReturnCollector(q)
    /\ UNCHANGED <<dashVars, appComponents, metrics, mu, kind, status, page>>

\* The deferred m.mu.Unlock() once every entry is copied, and the return.
MetricsUnlock(q) ==
    /\ pc[q] = "copy"
    /\ Len(copied[q]) = Cardinality(Replicas)
    /\ mu' = NoHolder
    /\ pc' = [pc EXCEPT ![q] = IF q = Collector THEN "idle"
                               ELSE IF kind[q] = "deployment" THEN "render"
                               ELSE "prometheus"]
    /\ ReturnCollector(q)
    /\ UNCHANGED <<dashVars, appComponents, metrics, kind, status, page>>

-----------------------------------------------------------------------------
(* The dashboard.                                                          *)

\* The handler answers with an HTTP error and returns.
Fail(q, code) ==
    /\ page' = [page EXCEPT ![q] = [code |-> code]]
    /\ pc' = [pc EXCEPT ![q] = "idle"]

(***************************************************************************)
(* DashboardCommand's Fn: spec.Registry, the handlers registered, then    *)
(* net.Listen; an error from either is returned and the command ends.     *)
(* An error from perfetto.Open is only printed: Fn still starts           *)
(* traceDB.Serve, on the nil database, and then http.Serve.               *)
(***************************************************************************)
DashboardRegistry ==
    /\ server = "registry"
    /\ server' \in {"listen", "exited"}
    /\ UNCHANGED stateVars

DashboardListen ==
    /\ server = "listen"
    /\ server' \in {"perfetto", "exited"}
    /\ UNCHANGED stateVars

DashboardServe ==
    /\ server = "perfetto"
    /\ server' = "serving"
    /\ UNCHANGED stateVars

\* A request arrives; handleDeployment and handleMetrics reject an empty id.
Request(q, k, id) ==
    /\ server = "serving"
    /\ pc[q] = "idle"
    /\ kind' = [kind EXCEPT ![q] = k]
    /\ IF k # "index" /\ id = ""
       THEN Fail(q, 400)
       ELSE pc' = [pc EXCEPT ![q] = "registry"] /\ UNCHANGED page
    /\ UNCHANGED <<dashVars, appComponents, metrics, mu, copied, window, status>>

\* A plausible bug: the two handlers' continuations swapped.
RegistryGetSwapped(q) ==
    /\ pc[q] = "registry"
    /\ kind[q] # "index"
    /\ \/ Fail(q, 400)
       \/ /\ pc' = [pc EXCEPT ![q] = IF kind[q] = "metrics" THEN "status"
                                                             ELSE "metrics"]
          /\ UNCHANGED page
    /\ UNCHANGED <<dashVars, appComponents, metrics, mu, kind, copied, window, status>>

\* handleDeployment, handleMetrics: registry.Get(id); an unknown id is a 400.
RegistryGet(q) ==
    /\ pc[q] = "registry"
    /\ kind[q] # "index"
    /\ \/ Fail(q, 400)
       \/ /\ pc' = [pc EXCEPT ![q] = IF kind[q] = "metrics" THEN "metrics"
                                                             ELSE "status"]
          /\ UNCHANGED page
    /\ UNCHANGED <<dashVars, appComponents, metrics, mu, kind, copied, window, status>>

\* handleIndex: registry.List; an error is a 500.
RegistryList(q) ==
    /\ pc[q] = "registry"
    /\ kind[q] = "index"
    /\ \/ Fail(q, 500)
       \/ /\ pc' = [pc EXCEPT ![q] = "status"]
          /\ UNCHANGED page
    /\ UNCHANGED <<dashVars, appComponents, metrics, mu, kind, copied, window, status>>

(***************************************************************************)
(* The manager's Status, as a caller sees it: an error (unreachable       *)
(* manager, loadAppState failing), or the app's components and, read      *)
(* under m.mu, its proxies.                                               *)
(***************************************************************************)
StatusCall(q, ok) ==
    \/ /\ Fail(q, 500)
       /\ UNCHANGED status
    \/ /\ mu = NoHolder
       /\ status' = [status EXCEPT ![q] = appComponents]
       /\ ok

\* handleDeployment: client.Status, then the components sorted in place.
CallStatus(q) ==
    /\ pc[q] = "status"
    /\ kind[q] = "deployment"
    /\ StatusCall(q, /\ pc' = [pc EXCEPT ![q] = "metrics"]
                     /\ UNCHANGED page)
    /\ UNCHANGED <<dashVars, appComponents, metrics, mu, kind, copied, window>>

\* handleIndex: the Status of the registered deployment, then the page.
IndexStatus(q) ==
    /\ pc[q] = "status"
    /\ kind[q] = "index"
    /\ StatusCall(q, /\ page' = [page EXCEPT ![q] = [code |-> 200,
                                                      components |-> appComponents]]
                     /\ pc' = [pc EXCEPT ![q] = "idle"])
    /\ UNCHANGED <<dashVars, appComponents, metrics, mu, kind, copied, window>>

\* client.Metrics fails before reaching the manager: a 500.
MetricsUnreachable(q) ==
    /\ pc[q] = "metrics"
    /\ Fail(q, 500)
    /\ UNCHANGED <<dashVars, appComponents, metrics, mu, kind, copied, window, status>>

\* handleDeployment: the page of the status and computeTraffic's edges.
Render(q) ==
    /\ pc[q] = "render"
    /\ page' = [page EXCEPT ![q] = [code       |-> 200,
                                    components |-> status[q],
                                    traffic    |-> ComputeTraffic(Result(q))]]
    /\ pc' = [pc EXCEPT ![q] = "idle"]
    /\ EndRequest(q)
    /\ UNCHANGED <<dashVars, appComponents, metrics, mu, kind, status>>

\* handleMetrics: UnProto every snapshot and write them in text format.
Prometheus(q) ==
    /\ pc[q] = "prometheus"
    /\ page' = [page EXCEPT ![q] = [code |-> 200, snapshots |-> Result(q)]]
    /\ pc' = [pc EXCEPT ![q] = "idle"]
    /\ EndRequest(q)
    /\ UNCHANGED <<dashVars, appComponents, metrics, mu, kind, status>>

\* The collector's ticker fires: it calls the callback.
CollectTick ==
    /\ pc[Collector] = "idle"
    /\ pc' = [pc EXCEPT ![Collector] = "metrics"]
    /\ UNCHANGED <<dashVars, appComponents, metrics, mu, kind, copied, window, status, page>>

(***************************************************************************)
(* What a replica reports: a weavelet runs only components the manager    *)
(* has started, so its method counts name started components only.        *)
(***************************************************************************)
Reportable(rep) ==
    \A i \in DOMAIN rep : {rep[i].caller, rep[i].component} \subseteq appComponents

-----------------------------------------------------------------------------
Next ==
    \/ \E c \in Components : StartComponent(c)
    \/ \E r \in Replicas : \E rep \in Reports[r] :
          Reportable(rep) /\ HandleRecvMetrics(r, rep)
    \/ \E q \in Requests, k \in {"index", "deployment", "metrics"},
          id \in {"", "d"} : Request(q, k, id)
    \/ \E q \in Requests : \/ RegistryGet(q) \/ RegistryList(q)
                           \/ CallStatus(q) \/ IndexStatus(q)
                           \/ MetricsUnreachable(q) \/ Render(q) \/ Prometheus(q)
    \/ DashboardRegistry \/ DashboardListen \/ DashboardServe
    \/ CollectTick
    \/ \E q \in Readers : MetricsLock(q) \/ MetricsUnlock(q)
                          \/ \E r \in Replicas : Copy(q, r)

(***************************************************************************)
(* A handler goroutine and the collector keep running once started, and   *)
(* every step of theirs that does not wait for m.mu stays enabled, so     *)
(* each is weakly fair.  Taking m.mu is strongly fair: the lock is free   *)
(* only between the collector's and the replicas' critical sections, and *)
(* Go's sync.Mutex hands it to a waiter blocked for over 1ms (starvation  *)
(* mode).  Nothing is fair about requests arriving, replicas reporting,   *)
(* components starting, or calls failing: MetricsUnreachable is not      *)
(* fair, so a request is not answered by forcing its call to fail.        *)
(***************************************************************************)
Fairness ==
    /\ \A q \in Readers : /\ SF_vars(MetricsLock(q))
                         /\ WF_vars(\E r \in Replicas : Copy(q, r))
                         /\ WF_vars(MetricsUnlock(q))
    /\ \A q \in Requests : /\ WF_vars(RegistryGet(q)) /\ WF_vars(RegistryList(q))
                          /\ SF_vars(CallStatus(q)) /\ SF_vars(IndexStatus(q))
                          /\ WF_vars(Render(q)) /\ WF_vars(Prometheus(q))
    /\ WF_vars(CollectTick)

Spec == Init /\ [][Next]_vars /\ Fairness

=============================================================================
