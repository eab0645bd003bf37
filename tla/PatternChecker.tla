--------------------------- MODULE PatternChecker ---------------------------
(***************************************************************************)
(* The warning classifier of scripts/analysis/transformer/base.py:        *)
(* class Rule and class PatternChecker.                                    *)
(*                                                                         *)
(* A PatternChecker is bound to a rule list and an analysis window         *)
(* [StartTime, EndTime).  Each call matches(timestamp, line) scans the     *)
(* rules in declaration order; the first rule whose regular expression     *)
(* matches the line decides.  A rule that is "ok during startup" absorbs   *)
(* matches before the window, one that is "ok during shutdown" absorbs     *)
(* matches after it; otherwise the match increments the counter            *)
(* ignored[rule.pattern] and is absorbed while that counter is <= count.   *)
(*                                                                         *)
(* Regular expressions are abstracted to the set of lines each pattern     *)
(* matches (MatchSet); float("inf") budgets are the model value Inf.       *)
(* The checker's state is the counter map `ignored`; `verdicts` records    *)
(* every call and its answer, so that properties can compare the counter  *)
(* mechanism with the history of calls.                                    *)
(***************************************************************************)
EXTENDS Naturals, Sequences, FiniteSets

CONSTANTS
    Patterns,     \* compiled patterns (rule.pattern), as model values
    Lines,        \* warning texts, as model values
    MatchSet,     \* [Patterns -> SUBSET Lines]: lines pattern.match() accepts
    Inf,          \* float("inf"), a budget that is never exhausted
    Rules,        \* the rule list, a sequence of RuleRecord values
    StartTime,    \* the window start given to PatternChecker.__init__
    EndTime,      \* the window end given to PatternChecker.__init__
    Times,        \* timestamps a caller may pass
    MaxCalls      \* bound on the number of matches() calls explored

VARIABLES ignored, verdicts

vars == <<ignored, verdicts>>

\* Rule(pattern, count=0, ok_during_startup=False, ok_during_shutdown=False)
RuleRecord ==
    [pattern : Patterns, count : Nat \cup {Inf},
     ok_during_startup : BOOLEAN, ok_during_shutdown : BOOLEAN]

\* `self.ignored[rule.pattern] <= rule.count`, where count may be inf
WithinBudget(n, count) == count = Inf \/ n <= count

\* The index of the first rule whose pattern matches `line`, 0 if none:
\* the `for rule in self.rules: if rule.pattern.match(line): ... break` scan.
FirstMatch(rules, line) ==
    IF \E i \in 1..Len(rules) : line \in MatchSet[rules[i].pattern]
    THEN CHOOSE i \in 1..Len(rules) :
            /\ line \in MatchSet[rules[i].pattern]
            /\ \A j \in 1..(i - 1) : line \notin MatchSet[rules[j].pattern]
    ELSE 0

\* The startup / shutdown exemption test of matches().
Exempt(rule, ts, start, end) ==
    \/ ts < start /\ rule.ok_during_startup
    \/ ts > end /\ rule.ok_during_shutdown

\* A variant of matches() that increments the counter before testing the
\* startup / shutdown exemption, so exempt matches consume the budget.
MatchResultExemptConsumes(rules, start, end, ign, ts, line) ==
    LET i == FirstMatch(rules, line)
    IN  IF i = 0
        THEN [ignore |-> FALSE, ignored |-> ign]
        ELSE LET r == rules[i]
                 n == ign[r.pattern] + 1
             IN  [ignore |-> Exempt(r, ts, start, end) \/ WithinBudget(n, r.count),
                  ignored |-> [ign EXCEPT ![r.pattern] = n]]

\* PatternChecker.matches(timestamp, line): the answer (True = ignore the
\* line) together with the counter map after the call.
MatchResult(rules, start, end, ign, ts, line) ==
    LET i == FirstMatch(rules, line)
    IN  IF i = 0
        THEN [ignore |-> FALSE, ignored |-> ign]
        ELSE LET r == rules[i]
                 n == ign[r.pattern] + 1
             IN  IF Exempt(r, ts, start, end)
                 THEN [ignore |-> TRUE, ignored |-> ign]
                 ELSE [ignore |-> WithinBudget(n, r.count),
                       ignored |-> [ign EXCEPT ![r.pattern] = n]]

\* PatternChecker.unmatched_rules(): the indices of the rules whose counter
\* is still within budget.
UnmatchedRules(rules, ign) ==
    {i \in 1..Len(rules) : WithinBudget(ign[rules[i].pattern], rules[i].count)}

\* PatternChecker.__init__: `defaultdict(lambda: 0)`
NoneIgnored == [p \in Patterns |-> 0]

-----------------------------------------------------------------------------
(* The checker as a component of its own: a caller invokes matches() with  *)
(* any timestamp and line.                                                 *)

Init ==
    /\ ignored = NoneIgnored
    /\ verdicts = <<>>

\* One call of matches(ts, line).
Match(ts, line) ==
    LET res == MatchResult(Rules, StartTime, EndTime, ignored, ts, line)
    IN  /\ Len(verdicts) < MaxCalls
        /\ ignored' = res.ignored
        /\ verdicts' = Append(verdicts, [ts |-> ts, line |-> line,
                                         ignore |-> res.ignore])

Next == \E ts \in Times, line \in Lines : Match(ts, line)

Spec == Init /\ [][Next]_vars

-----------------------------------------------------------------------------

TypeOK ==
    /\ ignored \in [Patterns -> 0..MaxCalls]
    /\ verdicts \in Seq([ts : Times, line : Lines, ignore : BOOLEAN])
    /\ Len(verdicts) <= MaxCalls

=============================================================================
