----------------------------- MODULE Statistics -----------------------------
(***************************************************************************)
(* The statistics primitives of scripts/analysis/common/statistics.py, on *)
(* integer samples.  median() of an even-sized list is the mean of two     *)
(* values, so it is returned doubled (Median2) to stay exact; callers      *)
(* compare against it with the factor 2 made explicit.                     *)
(***************************************************************************)
EXTENDS Integers, Sequences, SequencesExt, FiniteSets, TLC

\* median(value_list): sorted(); the middle element, or the mean of the
\* two middle ones (here: their sum, i.e. twice the median).  The caller
\* must not pass an empty list (the code raises AttributeError).
Median2(xs) ==
    LET s == SortSeq(xs, <)
        n == Len(s)
    IN  IF n % 2 = 0
        THEN s[n \div 2] + s[n \div 2 + 1]
        ELSE 2 * s[n \div 2 + 1]

\* math.ceil(a / b) for a >= 0, b > 0
CeilDiv(a, b) == (a + b - 1) \div b

\* A variant that takes the index floor(n * pct) - 1.
PercentileFloor(xs, num, den) ==
    IF Len(xs) = 0 THEN -1
    ELSE LET s == SortSeq(xs, <)
             i == (Len(s) * num) \div den - 1
         IN  s[IF i < 0 THEN Len(s) + i + 1 ELSE i + 1]

\* percentile(value_list, pct) with pct = num / den: sorted(), then the
\* 0-based index ceil(n * pct) - 1, where Python's index -1 is the last
\* element; -1 for an empty list.  The code multiplies by a float pct; for
\* the pcts the transformers pass (0.25, 0.5, 0.75, 0.9, 0.99) and every n
\* up to 2000, the float product has the same ceiling as the exact one.
Percentile(xs, num, den) ==
    IF Len(xs) = 0 THEN -1
    ELSE LET s == SortSeq(xs, <)
             i == CeilDiv(Len(s) * num, den) - 1
         IN  s[IF i < 0 THEN Len(s) + i + 1 ELSE i + 1]

(* The reference definition the code is checked against: the k-th smallest *)
(* sample by counting, without sorting, and the median as the mean of the  *)
(* ceil(n/2)-th and (floor(n/2)+1)-th smallest samples (spec.md 4.1).      *)

KthSmallest(xs, k) ==
    CHOOSE v \in Range(xs) :
        /\ Cardinality({i \in 1..Len(xs) : xs[i] < v}) < k
        /\ Cardinality({i \in 1..Len(xs) : xs[i] <= v}) >= k

RefMedian2(xs) ==
    KthSmallest(xs, (Len(xs) + 1) \div 2) + KthSmallest(xs, Len(xs) \div 2 + 1)

=============================================================================
