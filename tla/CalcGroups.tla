----------------------------- MODULE CalcGroups -----------------------------
(***************************************************************************)
(* scripts/analysis/calc_groups.py: choose how many agreement groups to  *)
(* place on which replica combinations.  A group is a combination of k of *)
(* the n replicas (gen_permutations); a constellation gives each group a   *)
(* weight, the load it puts on every replica it contains, and must keep   *)
(* each replica within its limit (check_constellation).  solve() searches *)
(* the constellations that use at most group_count groups and keeps all   *)
(* of the most valuable ones.                                              *)
(*                                                                          *)
(* Replicas are numbered from 0, as in the code; limits, groups and       *)
(* weights are sequences, so limit p is limits[p + 1].  group_value is     *)
(* the float 1 / (1 + 0.15 * non_collocation) = 20 / (20 + 3 * nc); it is  *)
(* scaled by ValueScale, which every denominator 20 + 3 * nc (nc in 0..3)  *)
(* divides, so values compare exactly.                                     *)
(***************************************************************************)
EXTENDS Integers, Sequences, SequencesExt, FiniteSets

\* A variant whose recursive call continues from start + 1 instead of i + 1.
RECURSIVE GetPermutationsHelperFromStart(_, _, _, _, _, _)
GetPermutationsHelperFromStart(k, n, start, depth, parts, results) ==
    IF depth >= k
    THEN Append(results, parts)
    ELSE LET RECURSIVE Loop(_, _)
             Loop(i, res) ==
                 IF i >= n THEN res
                 ELSE Loop(i + 1, GetPermutationsHelperFromStart(k, n, start + 1,
                                                   depth + 1, Append(parts, i), res))
         IN  Loop(start, results)

\* get_permutations_helper: depth-first, the element i of the next position
\* ranges from start to n - 1; a full combination is appended to results.
RECURSIVE GetPermutationsHelper(_, _, _, _, _, _)
GetPermutationsHelper(k, n, start, depth, parts, results) ==
    IF depth >= k
    THEN Append(results, parts)
    ELSE LET RECURSIVE Loop(_, _)
             Loop(i, res) ==
                 IF i >= n THEN res
                 ELSE Loop(i + 1, GetPermutationsHelper(k, n, i + 1, depth + 1,
                                                        Append(parts, i), res))
         IN  Loop(start, results)

GenPermutations(k, n) == GetPermutationsHelper(k, n, 0, 0, <<>>, <<>>)

\* How often replica p occurs in a group (the inner loop adds the weight
\* once per occurrence).
Occurrences(group, p) == Cardinality({j \in DOMAIN group : group[j] = p})

\* check_constellation: the load used_limit[p] sums the weights of the
\* groups 1..Len(weights) holding p; any replica over its limit fails.  The
\* code returns at the first replica that goes over; as weights are never
\* negative, that is the case exactly when a final load is over.
CheckConstellation(groups, weights, limits) ==
    \A p \in 0..(Len(limits) - 1) :
        LET used[i \in 0..Len(weights)] ==
                IF i = 0 THEN 0
                ELSE used[i - 1] + weights[i] * Occurrences(groups[i], p)
        IN  used[Len(weights)] <= limits[p + 1]

ValueScale == 23 * 26 * 29

\* group_value: non_collocation starts at 3 and drops for every member
\* below 3 (the replicas that also run an agreement group).
GroupValue(group) ==
    LET nc == 3 - Cardinality({j \in DOMAIN group : group[j] < 3})
    IN  (20 * ValueScale) \div (20 + 3 * nc)

\* groups_value: the weighted sum over the groups of positive weight.
GroupsValue(groups, weights) ==
    LET s[i \in 0..Len(weights)] ==
            IF i = 0 THEN 0
            ELSE s[i - 1] + (IF weights[i] > 0
                             THEN weights[i] * GroupValue(groups[i])
                             ELSE 0)
    IN  s[Len(weights)]

(***************************************************************************)
(* solve_rec.  The Python list results is shared by all calls and is     *)
(* read and changed only where a call ends: the call's constellation,     *)
(* part_weights padded with a 0 for every position of the for loop, is    *)
(* kept if it is within the limits (KeepBest).  So a call returns the     *)
(* constellations it and its callees record, in the order they record     *)
(* them (Visits), and solve() applies KeepBest to them in that order.     *)
(* Position i is tried with the weights 1, 2, ... after                   *)
(* Len(part_weights) = i - 1 positions.                                    *)
(***************************************************************************)

\* A variant that never empties results when a better constellation comes.
KeepBestNoReset(groups, results, part_weights) ==
    IF GroupsValue(groups, part_weights) >=
           (IF Len(results) > 0 THEN GroupsValue(groups, results[1]) ELSE 0)
    THEN Append(results, part_weights) ELSE results

\* The end of solve_rec: the best value so far is that of results[0] (0 for
\* an empty list); a better constellation empties the list, an equal or
\* better one is appended.
KeepBest(groups, results, part_weights) ==
    LET cur_value == IF Len(results) > 0
                     THEN GroupsValue(groups, results[1]) ELSE 0
        my_value == GroupsValue(groups, part_weights)
        kept == IF my_value > cur_value THEN <<>> ELSE results
    IN  IF my_value >= cur_value THEN Append(kept, part_weights) ELSE kept

RECURSIVE SolveRec(_, _, _, _)
SolveRec(groups, limits, remaining_group_count, part_weights) ==
    LET RECURSIVE Weights(_, _)
        \* while remaining_group_count > 0: weight, weight + 1, ... until a
        \* constellation fails the limits or the recursive call fails
        Weights(weight, pw) ==
            LET next_part == Append(pw, weight)
            IN  IF /\ remaining_group_count > 0
                   /\ CheckConstellation(groups, next_part, limits)
                THEN LET r == SolveRec(groups, limits, remaining_group_count - 1,
                                       next_part)
                     IN  IF r.ok THEN r.visits \o Weights(weight + 1, pw)
                         ELSE r.visits
                ELSE <<>>
        RECURSIVE Positions(_, _)
        Positions(i, pw) ==
            IF i > Len(groups) THEN <<>>
            ELSE Weights(1, pw) \o Positions(i + 1, Append(pw, 0))
        padded == part_weights \o [i \in 1..(Len(groups) - Len(part_weights)) |-> 0]
        ok == CheckConstellation(groups, padded, limits)
    IN  [ok |-> ok,
         visits |-> Positions(Len(part_weights) + 1, part_weights)
                    \o (IF ok THEN <<padded>> ELSE <<>>)]

Solve(groups, limits, group_count) ==
    LET visits == SolveRec(groups, limits, group_count, <<>>).visits
        results[i \in 0..Len(visits)] ==
            IF i = 0 THEN <<>> ELSE KeepBest(groups, results[i - 1], visits[i])
    IN  results[Len(visits)]

(***************************************************************************)
(* The reference the search is checked against: every k-subset of the    *)
(* replicas as an ascending sequence, and, by enumeration, every          *)
(* constellation of at most group_count groups within the limits whose    *)
(* value no other such constellation exceeds.  A weight above the largest *)
(* limit always breaks a limit, so weights range up to that limit.        *)
(***************************************************************************)
Combinations(k, n) ==
    {s \in [1..k -> 0..(n - 1)] : \A j \in 1..(k - 1) : s[j] < s[j + 1]}

Constellations(nGroups, group_count, maxWeight) ==
    {[j \in 1..nGroups |-> IF j \in DOMAIN f THEN f[j] ELSE 0] :
        f \in UNION {[S -> 1..maxWeight] :
                        S \in {S \in SUBSET (1..nGroups) : Cardinality(S) <= group_count}}}

Optimal(groups, limits, group_count) ==
    LET ok == {v \in Constellations(Len(groups), group_count, Max(Range(limits))) :
                   CheckConstellation(groups, v, limits)}
    IN  {v \in ok : \A u \in ok : GroupsValue(groups, u) <= GroupsValue(groups, v)}

\* Small instances: every limit vector over three or four replicas with
\* limits 0..2 and groups of two or three; and main's shape, groups of 4
\* of 5 replicas, with limits 0, 2 or 3; one or two groups each.  (main's
\* own limits of 5 and 10 nest the search deeper than TLC's evaluator
\* stack allows.)
CalcInstances ==
    {[groups |-> GenPermutations(4, 5), limits |-> l, group_count |-> gc] :
        gc \in {1, 2}, l \in [1..5 -> {0, 2, 3}]} \cup
    UNION {{[groups |-> GenPermutations(k, n), limits |-> l, group_count |-> gc] :
                k \in {2, 3}, gc \in {1, 2}, l \in [1..n -> 0..2]} : n \in {3, 4}}

\* gen_permutations(k, n) lists every ascending k-subset of 0..n-1, each
\* exactly once (solve relies on it to try every placement of a group).
PermutationsAgree ==
    \A k \in 1..4, n \in 0..5 :
        \A g \in {GenPermutations(k, n)} :
            IsInjective(g) /\ Range(g) = Combinations(k, n)

\* solve() returns every most valuable constellation within the limits of
\* at most group_count groups, each once, and no other: the depth-first
\* search of solve_rec, with its early breaks and its in-place reset of the
\* shared result list, misses no optimum and keeps no beaten one.
\* The instances take their groups from gen_permutations, as main does, so
\* the search is judged only where gen_permutations is.
SolveAgree ==
    PermutationsAgree =>
    \A i \in CalcInstances :
        \A r \in {Solve(i.groups, i.limits, i.group_count)} :
            IsInjective(r) /\ Range(r) = Optimal(i.groups, i.limits, i.group_count)

=============================================================================
