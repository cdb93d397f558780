\* Up to 5 replicas, so up to 8 slices: inside the range where, as with
\* 64-bit keys and up to 2048 replicas, every bisection rounds through the
\* float64 conversion (KeyBits - MantissaBits = 3 levels).
CONSTANTS
    KeyBits = 8
    MantissaBits = 5
    MaxCandidates = 5
SPECIFICATION PureSpec
INVARIANT TypeOK
INVARIANT MatchesReference
INVARIANT BootstrapFromEnvironment
\* The harness stops once every replica has joined.
CHECK_DEADLOCK FALSE
