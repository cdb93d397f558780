\* Two replicas reporting, one dashboard request goroutine and the collector.
CONSTANTS
    r1 = r1
    r2 = r2
    q1 = q1
    ca = ca
    cb = cb
    other = other
    Collector = Collector
    NoHolder = NoHolder
    MethodCountsName = method_counts
    Components = {ca, cb}
    Main = ca
    Requests = {q1}
    Replicas <- MCReplicas
    Reports <- MCReports
SPECIFICATION Spec
INVARIANT TypeOK
INVARIANT ConsistentMetricsReads
INVARIANT TrafficMatchesMethodCounts
PROPERTY RequestsAnswered
