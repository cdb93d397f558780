---------------------------- MODULE MCRoutingAlgo ----------------------------
(***************************************************************************)
(* Checks RoutingAlgo over every order in which up to MaxCandidates       *)
(* replicas can register: each step a new replica joins the (unsorted)    *)
(* candidate list and the assignment is recomputed from the previous one, *)
(* as mayGenerateNewRoutingInfo does after registerReplica.               *)
(***************************************************************************)
EXTENDS RoutingAlgo, FiniteSets

CONSTANT MaxCandidates   \* number of distinct replica addresses

Candidates == 1..MaxCandidates

VARIABLES candidates,    \* g.Replicas in registration order
          assignment     \* the assignment last returned by routingAlgo

vars == <<candidates, assignment>>

Init == /\ candidates = << >>
        /\ assignment = [version |-> 0, slices |-> << >>]

\* A replica joins and the assignment is recomputed.
Join(c) == /\ \A i \in DOMAIN candidates : candidates[i] # c
           /\ candidates' = Append(candidates, c)
           /\ assignment' = RoutingAlgo(assignment, candidates')

Next == \E c \in Candidates : Join(c)

Spec == Init /\ [][Next]_vars

-----------------------------------------------------------------------------
\* Every slice starts inside the key space and is owned by one candidate.
TypeOK ==
    /\ assignment.version \in Nat
    /\ assignment.slices \in Seq([start : MinSliceKey..MaxSliceKey,
                                  replicas : Seq(Candidates)])

(***************************************************************************)
(* The reference the manager's design states: for N candidates the key    *)
(* space is cut into numSlices = max(1, next power of two >= N) slices of *)
(* equal width starting at 0, and slice i is owned by the i-th candidate  *)
(* in sorted order, round robin.  Compared with what routingAlgo returns  *)
(* for the candidates in the order they registered.                        *)
(***************************************************************************)
ReferenceSlices(cands) ==
    LET sorted == SortSeq(cands, <)
        n      == Len(sorted)
        num    == IF n = 1 THEN 1 ELSE CHOOSE p \in {2^k : k \in 0..n} :
                                              p >= n /\ p < 2 * n
    IN  IF n = 0 THEN << >>
        ELSE [i \in 1..num |->
                [start    |-> (i - 1) * (2^KeyBits \div num),
                 replicas |-> IF n = 1 THEN sorted
                                       ELSE << sorted[((i - 1) % n) + 1] >>]]

MatchesReference == assignment.slices = ReferenceSlices(candidates)

\* The number of keys slice i of a slice list owns; the last slice owns
\* every key from its start up to and including MaxSliceKey.
SliceWidth(slices, i) ==
    IF i < Len(slices) THEN slices[i + 1].start - slices[i].start
                       ELSE MaxSliceKey - slices[i].start + 1

=============================================================================
