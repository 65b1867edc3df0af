------------------------------ MODULE Strategy ------------------------------
(***************************************************************************)
(* The ranking strategy of strategy.py.  wrap_subgraphs turns the check   *)
(* subgraphs into CheckNodes once; a caller then calls rank_nodes or      *)
(* select_redundant_keys on that same dict, as often as it likes.  Each   *)
(* call runs compute_overlap_counts, which adds the pairwise overlaps     *)
(* into the CheckNode objects it is given, and then sorts by score.       *)
(***************************************************************************)
EXTENDS Integers, SequencesExt, FiniteSetsExt

CONSTANTS
    Inputs,    \* the dicts of CheckSubgraph a caller may hand in
    MaxCalls   \* how many times the caller ranks or selects

ASSUME MaxCalls \in Nat

VARIABLES
    subgraphs, \* the CheckSubgraphs, in dict order: [callee, details]
    nodes,     \* the CheckNodes' mutable fields: [cost, overlap_count]
    pc,        \* "start", "idle" between calls, "overlap" inside a call
    kind,      \* the call in progress: "rank" or "select"
    cand,      \* the keys the call ranks, in dict order
    ci, cj,    \* compute_overlap_counts's loop indices into cand
    calls,     \* calls made so far
    results    \* the rankings returned, as <<kind, keys>>

vars == <<subgraphs, nodes, pc, kind, cand, ci, cj, calls, results>>

Keys == DOMAIN subgraphs

(***************************************************************************)
(* wrap_subgraphs's cost by the sanitizer fragment the callee contains,   *)
(* tested in the code's order; the callee is written as that fragment.    *)
(***************************************************************************)
Cost(callee) ==
    CASE callee = "__msan"                 -> 3
      [] callee = "__asan"                 -> 2
      [] callee = "__ubsan"                -> 1
      [] callee \in {"__tsan", "__lsan"}   -> 2
      [] OTHER                             -> 0

Wrap ==
    /\ pc = "start"
    /\ nodes' = [k \in Keys |-> [cost |-> Cost(subgraphs[k].callee), overlap_count |-> 0]]
    /\ pc' = "idle"
    /\ UNCHANGED <<subgraphs, kind, cand, ci, cj, calls, results>>

(* The number of operand pairs of a and b whose alias sets intersect.    *)
PairOverlaps(a, b) ==
    Cardinality({ab \in (DOMAIN subgraphs[a].details) \X (DOMAIN subgraphs[b].details) :
                    subgraphs[a].details[ab[1]].alias_set
                        \cap subgraphs[b].details[ab[2]].alias_set # {}})

Written(k) == \E op \in DOMAIN subgraphs[k].details : subgraphs[k].details[op].is_write

StartCall(k, c) ==
    /\ pc = "idle"
    /\ calls < MaxCalls
    /\ kind' = k
    /\ cand' = c
    /\ ci' = 1
    /\ cj' = 2
    /\ pc' = "overlap"
    /\ calls' = calls + 1
    /\ UNCHANGED <<subgraphs, nodes, results>>

(* rank_nodes(nodes): every key, in dict order.                          *)
CallRank == StartCall("rank", [i \in 1..Len(subgraphs) |-> i])

(* select_redundant_keys(nodes): the keys with no written operand, handed *)
(* to rank_nodes as a new dict that holds the same CheckNode objects.     *)
CallSelect == StartCall("select", SelectSeq([i \in 1..Len(subgraphs) |-> i],
                                            LAMBDA k : ~Written(k)))

(* A slip: only the first node of the pair is credited.                  *)
AddOverlapOneSide(a, b, n) ==
    [nodes EXCEPT ![a].overlap_count = @ + n]

(* a.overlap_count += overlaps; b.overlap_count += overlaps              *)
AddOverlap(a, b, n) ==
    [nodes EXCEPT ![a].overlap_count = @ + n, ![b].overlap_count = @ + n]

(* A slip: the inner loop restarts at range(i, ...) instead of i + 1.    *)
NextPairFromI ==
    /\ ci' = IF cj < Len(cand) THEN ci ELSE ci + 1
    /\ cj' = IF cj < Len(cand) THEN cj + 1 ELSE ci + 1

(* The order of the loops for i in range(n): for j in range(i + 1, n).   *)
NextPair ==
    /\ ci' = IF cj < Len(cand) THEN ci ELSE ci + 1
    /\ cj' = IF cj < Len(cand) THEN cj + 1 ELSE ci + 2

(* One iteration of compute_overlap_counts's double loop over pairs.     *)
OverlapPair ==
    /\ pc = "overlap"
    /\ cj <= Len(cand)
    /\ nodes' = AddOverlap(cand[ci], cand[cj], PairOverlaps(cand[ci], cand[cj]))
    /\ NextPair
    /\ UNCHANGED <<subgraphs, pc, kind, cand, calls, results>>

(* compute_score without a distance: cost + overlap_count.               *)
Score(k) == nodes[k].cost + nodes[k].overlap_count

(***************************************************************************)
(* scores.sort(key=score, reverse=True): descending score, and, the sort  *)
(* being stable, dict order among equal scores.                           *)
(***************************************************************************)
RankedBy(c, score) ==
    SortSeq(c, LAMBDA a, b : score[a] > score[b]
                             \/ (score[a] = score[b] /\ a < b))

SortAndReturn ==
    /\ pc = "overlap"
    /\ cj > Len(cand)
    /\ results' = Append(results, <<kind, RankedBy(cand, [k \in Keys |-> Score(k)])>>)
    /\ pc' = "idle"
    /\ UNCHANGED <<subgraphs, nodes, kind, cand, ci, cj, calls>>

(* The caller is done with the ranking.                                  *)
Finished ==
    /\ pc = "idle"
    /\ calls = MaxCalls
    /\ UNCHANGED vars

Init ==
    /\ subgraphs \in Inputs
    /\ nodes = [k \in Keys |-> [cost |-> 0, overlap_count |-> 0]]
    /\ pc = "start"
    /\ kind = "rank"
    /\ cand = <<>>
    /\ ci = 1
    /\ cj = 2
    /\ calls = 0
    /\ results = <<>>

Next ==
    \/ Wrap \/ CallRank \/ CallSelect \/ OverlapPair \/ SortAndReturn
    \/ Finished

Spec == Init /\ [][Next]_vars

-----------------------------------------------------------------------------
(* Properties *)

TypeOK ==
    /\ pc \in {"start", "idle", "overlap"}
    /\ kind \in {"rank", "select"}
    /\ nodes \in [Keys -> [cost : 0..3, overlap_count : Nat]]
    /\ cand \in Seq(Keys)
    /\ 1 <= ci /\ ci < cj
    /\ calls \in 0..MaxCalls
    /\ results \in Seq({"rank", "select"} \X Seq(Keys))
    /\ Len(results) <= calls

(* The keys a call of the given kind ranks, as a fresh dict would hold.  *)
RefCandidates(k) ==
    IF k = "rank" THEN [i \in 1..Len(subgraphs) |-> i]
    ELSE SelectSeq([i \in 1..Len(subgraphs) |-> i], LAMBDA x : ~Written(x))

(* Cost plus the overlaps with every other candidate.                    *)
RefScore(key, c) ==
    Cost(subgraphs[key].callee)
    + MapThenSumSet(LAMBDA o : PairOverlaps(key, o), Range(c) \ {key})

(***************************************************************************)
(* The first ranking a caller gets from rank_nodes or select_redundant_keys*)
(* lists its candidates by decreasing cost plus number of overlapping      *)
(* operand pairs with the other candidates, ties in dict order: the       *)
(* double loop of compute_overlap_counts credits every pair to both of    *)
(* its nodes exactly once, and the stable reverse sort keeps dict order.  *)
(***************************************************************************)
FirstRankingMatchesReference ==
    Len(results) >= 1 =>
        LET c == RefCandidates(results[1][1])
        IN  results[1][2] = RankedBy(c, [key \in Keys |-> RefScore(key, c)])

(***************************************************************************)
(* Two calls of select_redundant_keys on the same nodes return the same   *)
(* list: the order is a function of the subgraphs.  compute_overlap_counts *)
(* adds into the shared CheckNodes instead of recomputing, so every call  *)
(* inflates the scores of overlapping checks again.                       *)
(***************************************************************************)
SelectIsRepeatable ==
    \A i, j \in DOMAIN results :
        results[i][1] = "select" /\ results[j][1] = "select" =>
            results[i][2] = results[j][2]


=============================================================================
