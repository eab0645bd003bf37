-------------------------- MODULE MCPatternChecker --------------------------
(***************************************************************************)
(* A rule list shaped like the client rules of bench/refit.py: a specific *)
(* rule with a budget that is exempt during startup, layered above a       *)
(* catch-all rule with budget 0 that is exempt during shutdown, and an     *)
(* unbounded rule.  The window is [1, 2); timestamps 0..3 put one call     *)
(* before the window, one inside, one exactly at its end and one after.    *)
(***************************************************************************)
EXTENDS PatternChecker

MCMatchSet == [p \in Patterns |->
                 CASE p = "pRetry" -> {"lRetry"}
                   [] p = "pConn"  -> {"lRetry", "lConn"}
                   [] p = "pGc"    -> {"lGc"}]

MCRules ==
    << [pattern |-> "pRetry", count |-> 1,
        ok_during_startup |-> TRUE, ok_during_shutdown |-> FALSE],
       [pattern |-> "pConn", count |-> 0,
        ok_during_startup |-> TRUE, ok_during_shutdown |-> TRUE],
       [pattern |-> "pGc", count |-> Inf,
        ok_during_startup |-> FALSE, ok_during_shutdown |-> FALSE] >>

\* The boundary the code tests: `timestamp > self.end_time`.
CodeAfter(ts) == ts > EndTime

\* The boundary of the half-open window [start, end) of spec.md 4.2.
WindowAfter(ts) == ts >= EndTime

CodePromise == INSTANCE RuleBudget WITH AfterWindow <- CodeAfter
WindowPromise == INSTANCE RuleBudget WITH AfterWindow <- WindowAfter

\* Every answer matches() gives is the one the budget semantics prescribes:
\* a rule absorbs exactly its first `count` non-exempt matches (counted per
\* owning rule over the whole history), later ones are surfaced, exempt
\* matches never consume budget, and a line no rule matches is surfaced.
\* This is the counter `self.ignored[rule.pattern]` of matches() refining
\* the history-based definition.
BudgetRefinement == CodePromise!Spec

\* The same promise with the specification's window [start, end): a match
\* at exactly the window end, by a rule that is exempt during shutdown,
\* must not consume budget.
WindowEndExempt == WindowPromise!Spec

=============================================================================
