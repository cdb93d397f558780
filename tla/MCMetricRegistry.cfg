\* Two names (and the empty name), three types (one invalid), bounds that
\* are ascending, equal or descending, and two label values, or the unit label of Register.
CONSTANTS
    l1 = l1
    l2 = l2
    Unit = Unit
    Names = {"", "a", "b"}
    Types = {"COUNTER", "HISTOGRAM", "INVALID"}
    BoundSeqs <- MCBoundSeqs
    Labels <- MCLabels
    MaxCalls = 5
SPECIFICATION Spec
INVARIANT TypeOK
INVARIANT OneMetricPerLabels
\* A panic ends the process, and calls stop at MaxCalls.
CHECK_DEADLOCK FALSE
