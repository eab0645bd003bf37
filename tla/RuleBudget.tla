----------------------------- MODULE RuleBudget -----------------------------
(***************************************************************************)
(* What the rule classifier promises (spec.md 4.2 and 8), stated over the *)
(* history of calls rather than over a counter: the first rule in          *)
(* declaration order whose pattern matches a line owns it; an exempt match *)
(* is absorbed; otherwise the line is absorbed exactly when it is among    *)
(* the first `count` non-exempt matches owned by that rule.                *)
(*                                                                         *)
(* Which timestamps lie after the window is the parameter AfterWindow, so *)
(* the same promise can be instantiated with the boundary the code uses    *)
(* and with the half-open window [start, end) the specification names.    *)
(***************************************************************************)
EXTENDS Naturals, Sequences, FiniteSets

CONSTANTS Patterns, Lines, MatchSet, Inf, Rules, StartTime, Times, MaxCalls

\* TRUE for a timestamp on the shutdown side of the window.
CONSTANT AfterWindow(_)

VARIABLE verdicts

Owner(line) ==
    IF \E i \in 1..Len(Rules) : line \in MatchSet[Rules[i].pattern]
    THEN CHOOSE i \in 1..Len(Rules) :
            /\ line \in MatchSet[Rules[i].pattern]
            /\ \A j \in 1..(i - 1) : line \notin MatchSet[Rules[j].pattern]
    ELSE 0

IsExemptFor(i, ts) ==
    \/ ts < StartTime /\ Rules[i].ok_during_startup
    \/ AfterWindow(ts) /\ Rules[i].ok_during_shutdown

\* The positions of the history that consume the budget of rule i.
Consuming(h, i) ==
    {k \in 1..Len(h) : Owner(h[k].line) = i /\ ~IsExemptFor(i, h[k].ts)}

\* The answer the specification requires for the next call, given history h.
Promised(h, ts, line) ==
    LET i == Owner(line)
    IN  /\ i # 0
        /\ \/ IsExemptFor(i, ts)
           \/ Rules[i].count = Inf
           \/ Cardinality(Consuming(h, i)) + 1 <= Rules[i].count

Init == verdicts = <<>>

Classify(ts, line) ==
    /\ Len(verdicts) < MaxCalls
    /\ verdicts' = Append(verdicts, [ts |-> ts, line |-> line,
                                     ignore |-> Promised(verdicts, ts, line)])

Next == \E ts \in Times, line \in Lines : Classify(ts, line)

Spec == Init /\ [][Next]_verdicts

=============================================================================
