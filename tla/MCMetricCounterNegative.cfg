\* A goroutine passes a negative delta to Counter.Add.
CONSTANTS
    w1 = w1
    w2 = w2
    Writers <- MCWriters
    Typ = "COUNTER"
    Bounds <- NoBounds
    Values <- CounterValues
    MaxOps = 2
SPECIFICATION Spec
PROPERTY CounterNeverDecreases
CHECK_DEADLOCK FALSE
