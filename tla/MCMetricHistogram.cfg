\* Two goroutines Put into a histogram with bounds [0, 10] while the
\* exporter snapshots it.  The values hit the underflow bucket and both
\* bounds exactly.
CONSTANTS
    w1 = w1
    w2 = w2
    Writers <- MCWriters
    Typ = "HISTOGRAM"
    Bounds <- TwoBounds
    Values <- HistogramValues
    MaxOps = 3
SPECIFICATION Spec
INVARIANT TypeOK
INVARIANT CallsAccounted
PROPERTY ExportEventuallyCurrent
\* The goroutines stop after MaxOps calls; the exporter then idles.
CHECK_DEADLOCK FALSE
