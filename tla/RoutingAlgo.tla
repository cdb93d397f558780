----------------------------- MODULE RoutingAlgo -----------------------------
(***************************************************************************)
(* The slice-assignment algorithm of the SSH deployment manager:          *)
(* routingAlgo and nextPowerOfTwo (src/unnamed/part_003, lines 610-677    *)
(* and 746-753).  The key space [0, 2^64) is scaled to [0, 2^KeyBits) and *)
(* the float64 significand (53 bits) to MantissaBits bits, so that the    *)
(* conversion uint64 -> float64 used to compute midpoints rounds at the   *)
(* same bisection depths, relative to the key width, as the real code     *)
(* does when KeyBits - MantissaBits = 64 - 53.                            *)
(***************************************************************************)
EXTENDS Integers, Sequences, TLC

CONSTANTS KeyBits,        \* width of a slice key (64 in the code)
          MantissaBits    \* significand width of float64 (53 in the code)

ASSUME KeyBits \in Nat \ {0} /\ MantissaBits \in 1..KeyBits

\* const minSliceKey = 0; const maxSliceKey = math.MaxUint64
MinSliceKey == 0
MaxSliceKey == 2^KeyBits - 1

RECURSIVE BitLength(_)
BitLength(x) == IF x = 0 THEN 0 ELSE 1 + BitLength(x \div 2)

(***************************************************************************)
(* float64(x) for an unsigned integer x: round to the nearest value with  *)
(* MantissaBits significant bits, ties to even (IEEE 754 default).        *)
(***************************************************************************)
ToFloat(x) ==
    LET e == BitLength(x) - MantissaBits
    IN  IF e <= 0 THEN x
        ELSE LET q == x \div 2^e
                 r == x % 2^e
                 h == 2^(e - 1)
             IN  IF r > h \/ (r = h /\ q % 2 = 1) THEN (q + 1) * 2^e
                                                   ELSE q * 2^e

\* A plausible bug: the midpoint computed without the factor 0.5.
MidPointNoHalf(lo, hi) == lo + ToFloat(hi - lo)
\* A plausible bug: exact integer halving instead of the float64 round trip.
MidPointExact(lo, hi) == lo + (hi - lo) \div 2

\* midPoint := curr[0] + uint64(math.Floor(0.5*float64(curr[1]-curr[0])))
\* Halving a float is exact and Floor then truncates, so this is \div 2.
MidPoint(lo, hi) == lo + ToFloat(hi - lo) \div 2

\* nextPowerOfTwo(x): x itself when x&(x-1) == 0, else 2^ceil(log2(x)).
NextPowerOfTwo(x) ==
    IF x = 0 \/ \E k \in 0..x : 2^k = x
    THEN x
    ELSE CHOOSE p \in {2^k : k \in 0..x} : p >= x /\ p < 2 * x

(***************************************************************************)
(* The do-while loop that pops the first split of the queue and appends   *)
(* its two halves, until the queue holds numSlices splits.  A split is    *)
(* <<lo, hi>>.                                                            *)
(***************************************************************************)
RECURSIVE Bisect(_, _)
Bisect(splits, numSlices) ==
    LET curr == Head(splits)
        mid  == MidPoint(curr[1], curr[2])
        next == Tail(splits) \o << <<curr[1], mid>>, <<mid, curr[2]>> >>
    IN  IF Len(next) # numSlices THEN Bisect(next, numSlices) ELSE next

\* A plausible bug: the candidates used in the order they registered.
SortedCandidatesUnsorted(candidates) == candidates
\* sort.Strings(candidates)
SortedCandidates(candidates) == SortSeq(candidates, <)

(***************************************************************************)
(* The slices routingAlgo computes for a candidate list: none for no      *)
(* candidate, the whole key space for one, otherwise numSlices splits     *)
(* sorted by start and dealt round robin to the sorted candidates.        *)
(***************************************************************************)
RoutingSlices(candidates) ==
    LET cands     == SortedCandidates(candidates)
        n         == Len(cands)
        numSlices == NextPowerOfTwo(n)
        splits    == SortSeq(Bisect(<< <<MinSliceKey, MaxSliceKey>> >>, numSlices),
                             LAMBDA a, b : a[1] < b[1])
    IN  CASE n = 0 -> << >>
          [] n = 1 -> << [start |-> MinSliceKey, replicas |-> cands] >>
          [] OTHER -> [i \in 1..Len(splits) |->
                          [start    |-> splits[i][1],
                           replicas |-> << cands[((i - 1) % n) + 1] >>]]

(***************************************************************************)
(* routingAlgo(currAssignment, candidates): a copy of the assignment with *)
(* its version incremented and its slices recomputed.  An assignment is   *)
(* [version, slices]; a slice is [start, replicas].  App, deployment id   *)
(* and component name are copied unchanged and are left out.              *)
(***************************************************************************)
RoutingAlgo(currAssignment, candidates) ==
    [version |-> currAssignment.version + 1, slices |-> RoutingSlices(candidates)]

=============================================================================
