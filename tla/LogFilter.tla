------------------------------ MODULE LogFilter ------------------------------
(***************************************************************************)
(* The per-log filters of scripts/analysis/transformer: ClientLogFilter   *)
(* (client.py) and ServerLogFilter (server.py), each run on one parsed     *)
(* log through Filter.transform (base.py).                                 *)
(*                                                                         *)
(* The filter walks the log's entries in order.  A warning entry is kept   *)
(* unless the ignore-rule PatternChecker absorbs it (the server filter     *)
(* first feeds it to a second, must-have PatternChecker); any other entry  *)
(* is kept, and notes whether the log's "started" marker came before the   *)
(* window and (client) how many throughput samples fall inside it.  After *)
(* the loop the filter raises FatalLogIssue for a missing or late start,   *)
(* (client) a sample count more than 1 away from the window length, or     *)
(* (server) a must-have rule that unmatched_rules() still reports.         *)
(*                                                                         *)
(* Timestamps are integers in ticks of 1/TicksPerSecond seconds, so that  *)
(* `int(math.ceil(end_time - start_time))` is a real rounding.             *)
(***************************************************************************)
EXTENDS Naturals, Sequences, FiniteSets, SequencesExt

CONSTANTS
    Patterns, Lines, MatchSet, Inf,   \* as in PatternChecker
    ClientIgnores,    \* the ignore rules ClientLogFilter is constructed with
    ServerIgnores,    \* the ignore rules ServerLogFilter is constructed with
    MustHaveLines,    \* the must-have rules (ServerLogFilter only)
    StartTime,        \* window start, in ticks
    EndTime,          \* window end, in ticks
    TicksPerSecond,
    Times,            \* timestamps an entry may carry
    MaxBody           \* bound on the entries after the start marker

VARIABLES
    logType,      \* log.logtype: "client" or "server"
    entries,      \* log.entries(): the parsed log being filtered
    pos,          \* index of the next entry the loop visits
    out,          \* out = log.derive(): the kept entries, as input indices
    ign,          \* counters of the `ignores` PatternChecker
    must,         \* counters of the `must_haves` PatternChecker
    hasStart,     \* has_start
    dataPoints,   \* data_points (client)
    result        \* "filtering", "ok", or the FatalLogIssue raised

vars == <<logType, entries, pos, out, ign, must, hasStart, dataPoints, result>>

PC(rules) == INSTANCE PatternChecker
    WITH Rules <- rules, ignored <- ign, verdicts <- <<>>, MaxCalls <- 0

Fatals == {"no_start", "bad_length", "missing_patterns"}

\* Filter.transform hands the log to the filter whose can_handle() accepts
\* its logtype; that filter's ignore rules apply.
IgnoreLines == IF logType = "client" THEN ClientIgnores ELSE ServerIgnores

-----------------------------------------------------------------------------
(* Entries as the parsers build them.  Client and server parsers emit the  *)
(* "started" data point first (add_data(timestamp, started=1)) and then, in *)
(* file order, warnings (add_warning) and, for clients, measurement points *)
(* carrying a throughput.  A log whose start marker never appeared has no  *)
(* entries at all.                                                          *)

Started(t) == [kind |-> "started", ts |-> t]
Measure(t) == [kind |-> "throughput", ts |-> t]
Warning(t, l) == [kind |-> "warning", ts |-> t, line |-> l]

BodyEntries(type) ==
    {Warning(t, l) : t \in Times, l \in Lines}
        \cup (IF type = "client" THEN {Measure(t) : t \in Times} ELSE {})

ParsedLogs(type) ==
    {<<>>} \cup {<<Started(t)>> \o b : t \in Times, b \in BoundedSeq(BodyEntries(type), MaxBody)}

-----------------------------------------------------------------------------

\* int(math.ceil(end_time - start_time)), in seconds.
ExpectedData == (EndTime - StartTime + TicksPerSecond - 1) \div TicksPerSecond

\* abs(expected_data - data_points) > 1
LengthMismatch(points) ==
    \/ ExpectedData - points > 1
    \/ points - ExpectedData > 1

Init ==
    /\ logType \in {"client", "server"}
    /\ entries \in ParsedLogs(logType)
    /\ pos = 1
    /\ out = <<>>
    /\ ign = PC(IgnoreLines)!NoneIgnored
    /\ must = PC(MustHaveLines)!NoneIgnored
    /\ hasStart = FALSE
    /\ dataPoints = 0
    /\ result = "filtering"

\* A variant of the data loop body that accepts a start marker at the
\* window start itself.
FilterDataStartInclusive ==
    /\ result = "filtering"
    /\ pos <= Len(entries)
    /\ entries[pos].kind # "warning"
    /\ LET e == entries[pos]
       IN  /\ hasStart' = (hasStart \/ (e.kind = "started" /\ e.ts <= StartTime))
           /\ dataPoints' =
                IF /\ logType = "client"
                   /\ e.kind = "throughput"
                   /\ StartTime <= e.ts /\ e.ts < EndTime
                THEN dataPoints + 1 ELSE dataPoints
    /\ out' = Append(out, pos)
    /\ pos' = pos + 1
    /\ UNCHANGED <<logType, entries, ign, must, result>>

\* Loop body for a warning entry.  The server filter calls
\* must_haves.matches() before ignores.matches(); the client filter has no
\* must-have checker.  The entry is kept unless ignores.matches() is True.
FilterWarning ==
    /\ result = "filtering"
    /\ pos <= Len(entries)
    /\ entries[pos].kind = "warning"
    /\ LET e == entries[pos]
           r == PC(IgnoreLines)!MatchResult(IgnoreLines, StartTime, EndTime,
                                            ign, e.ts, e.line)
       IN  /\ ign' = r.ignored
           /\ must' = IF logType = "server"
                      THEN PC(MustHaveLines)!MatchResult(MustHaveLines, StartTime,
                                EndTime, must, e.ts, e.line).ignored
                      ELSE must
           /\ out' = IF r.ignore THEN out ELSE Append(out, pos)
    /\ pos' = pos + 1
    /\ UNCHANGED <<logType, entries, hasStart, dataPoints, result>>

\* Loop body for any other entry: kept; a start marker before the window
\* sets has_start; (client) a throughput sample inside [start, end) counts.
FilterData ==
    /\ result = "filtering"
    /\ pos <= Len(entries)
    /\ entries[pos].kind # "warning"
    /\ LET e == entries[pos]
       IN  /\ hasStart' = (hasStart \/ (e.kind = "started" /\ e.ts < StartTime))
           /\ dataPoints' =
                IF /\ logType = "client"
                   /\ e.kind = "throughput"
                   /\ StartTime <= e.ts /\ e.ts < EndTime
                THEN dataPoints + 1 ELSE dataPoints
    /\ out' = Append(out, pos)
    /\ pos' = pos + 1
    /\ UNCHANGED <<logType, entries, ign, must, result>>

\* After the loop: the FatalLogIssue checks in the order the code makes them.
FinishFilter ==
    /\ result = "filtering"
    /\ pos > Len(entries)
    /\ result' =
         CASE ~hasStart -> "no_start"
           [] logType = "client" /\ LengthMismatch(dataPoints) -> "bad_length"
           [] logType = "server"
                /\ PC(MustHaveLines)!UnmatchedRules(MustHaveLines, must) # {}
                -> "missing_patterns"
           [] OTHER -> "ok"
    /\ UNCHANGED <<logType, entries, pos, out, ign, must, hasStart, dataPoints>>

\* Filter.transform: the exception reaches the caller, which aborts the run;
\* a finished filter takes no further steps.
Done == result # "filtering" /\ UNCHANGED vars

Next == FilterWarning \/ FilterData \/ FinishFilter \/ Done

Spec == Init /\ [][Next]_vars /\ WF_vars(FilterWarning \/ FilterData \/ FinishFilter)

-----------------------------------------------------------------------------

TypeOK ==
    /\ logType \in {"client", "server"}
    /\ entries \in ParsedLogs(logType)
    /\ pos \in 1..(Len(entries) + 1)
    /\ out \in Seq(1..Len(entries))
    /\ ign \in [Patterns -> Nat]
    /\ must \in [Patterns -> Nat]
    /\ hasStart \in BOOLEAN
    /\ dataPoints \in Nat
    /\ result \in {"filtering", "ok"} \cup Fatals

(* What spec.md 4.3 requires the filter to decide for the whole log: fatal *)
(* when no "process started" signal precedes the window start, when the   *)
(* number of measurements inside [start, end) is more than 1 away from the *)
(* window length, and when a declared must-have pattern never occurred     *)
(* (outside the exemption windows of its rule); otherwise the log passes.  *)

StartSignalled ==
    \E i \in 1..Len(entries) :
        entries[i].kind = "started" /\ entries[i].ts < StartTime

SamplesInWindow ==
    Cardinality({i \in 1..Len(entries) :
                    /\ entries[i].kind = "throughput"
                    /\ StartTime <= entries[i].ts /\ entries[i].ts < EndTime})

Occurred(rule) ==
    \E i \in 1..Len(entries) :
        /\ entries[i].kind = "warning"
        /\ entries[i].line \in MatchSet[rule.pattern]
        /\ ~PC(MustHaveLines)!Exempt(rule, entries[i].ts, StartTime, EndTime)

SpecVerdict ==
    CASE ~StartSignalled -> "no_start"
      [] logType = "client" /\ LengthMismatch(SamplesInWindow) -> "bad_length"
      [] logType = "server"
           /\ \E i \in 1..Len(MustHaveLines) : ~Occurred(MustHaveLines[i])
           -> "missing_patterns"
      [] OTHER -> "ok"

\* Once ClientLogFilter.filter / ServerLogFilter.filter has returned or
\* raised, its outcome is the one spec.md 4.3 prescribes for the whole log:
\* the per-entry bookkeeping (has_start, data_points, the must-have
\* counters) must add up to the conditions on the complete input.
FilterVerdict == result # "filtering" => result = SpecVerdict

=============================================================================
