------------------------------ MODULE AutoRange ------------------------------
(***************************************************************************)
(* The auto-range detector of scripts/analysis/parse-logs.py: auto_range, *)
(* find_start and merge_time_range, as range_and_transform calls them for *)
(* one run before any filter sees its logs.                                *)
(*                                                                         *)
(* A log is its logtype and its entries; an entry is a timestamp and, for  *)
(* measurement points, a throughput.  Timestamps are whole seconds.  The   *)
(* Python floats inf and -inf are the integers Infinity and -Infinity,     *)
(* which dominate every sum of timestamps the model forms (see ASSUME).    *)
(* bench.is_auto_range_log(log) is `log.logtype == ReferenceType` in every *)
(* benchmark of scripts/analysis/bench.                                    *)
(***************************************************************************)
EXTENDS Statistics

CONSTANTS
    Times,          \* absolute timestamps an entry may carry
    Throughputs,    \* throughput values of measurement points
    LogTypes,       \* logtypes of the parsed logs of a run
    ReferenceType,  \* the logtype is_auto_range_log() selects
    MinEntries,     \* 0, or 1 for runs in which every process logged
    MaxEntries,     \* bound on the entries of one log
    MaxLogs,        \* bound on the logs of one run
    None,           \* relative_time_range = None: no explicit window
    Requested       \* windows a caller may pass: None or <<start, end>>

ASSUME \A t \in Times : 0 <= t /\ t < 100

AUTO_RANGE_SLACK_AT_END == 5

\* float("inf")
Infinity == 1000

VARIABLES
    logs,     \* the run's parsed logs, in os.walk order of the run folder
    useMin,   \* use_min_log_start
    requested,\* relative_time_range
    window    \* "pending", a LogError raised, or <<base, start, end>>

vars == <<logs, useMin, requested, window>>

-----------------------------------------------------------------------------

Point(t) == [timestamp |-> t]
Measurement(t, v) == [timestamp |-> t, throughput |-> v]

Entries == {Point(t) : t \in Times} \cup {Measurement(t, v) : t \in Times, v \in Throughputs}

LogRecords == {r \in [logtype : LogTypes, entries : BoundedSeq(Entries, MaxEntries)] :
                  Len(r.entries) >= MinEntries}

Runs == {r \in BoundedSeq(LogRecords, MaxLogs) : r # <<>>}

HasThroughput(e) == "throughput" \in DOMAIN e

\* [e["throughput"] for e in log.entries() if "throughput" in e]
ThroughputData(log) ==
    LET m == SelectSeq(log.entries, HasThroughput)
    IN  [i \in 1..Len(m) |-> m[i].throughput]

IsAutoRangeLog(log) == log.logtype = ReferenceType

Fatal == {"no_start", "outside_range", "too_short"}

\* find_start's None; never a timestamp (ASSUME above)
NoStart == -1

\* merge_func: min in use_min_log_start mode, max otherwise
MergeStart(minMode, a, b) == IF minMode THEN IF a <= b THEN a ELSE b
                                        ELSE IF a >= b THEN a ELSE b

-----------------------------------------------------------------------------

\* A variant of find_start that accepts the first sample at or above
\* 90% of the median.
FindStartAtLeast(log) ==
    LET data == ThroughputData(log)
        warm == {i \in 1..Len(log.entries) :
                    /\ HasThroughput(log.entries[i])
                    /\ 20 * log.entries[i].throughput >= 9 * Median2(data)}
    IN  IF data = <<>> \/ warm = {} THEN NoStart
        ELSE log.entries[Min(warm)].timestamp

\* find_start(log): the timestamp of the first measurement whose
\* throughput exceeds median(data) * 0.9 (compared as 20v > 9 * 2median),
\* None when the log has no measurement or none exceeds it.
FindStart(log) ==
    LET data == ThroughputData(log)
        warm == {i \in 1..Len(log.entries) :
                    /\ HasThroughput(log.entries[i])
                    /\ 20 * log.entries[i].throughput > 9 * Median2(data)}
    IN  IF data = <<>> \/ warm = {} THEN NoStart
        ELSE log.entries[Min(warm)].timestamp

\* One iteration of the loop of auto_range over the logs: base and end
\* follow the entries of every reference log so far; a client reference
\* log contributes its warm-up start, any other reference log the running
\* base + 5.  acc.error is the LogError that ends the loop.
AutoRangeStep(minMode, acc, log) ==
    IF acc.error \/ ~IsAutoRangeLog(log) THEN acc
    ELSE LET ts == {log.entries[i].timestamp : i \in 1..Len(log.entries)}
             base == IF ts = {} THEN acc.base ELSE Min(ts \cup {acc.base})
             end == IF ts = {} THEN acc.end ELSE Max(ts \cup {acc.end})
         IN  IF log.logtype = "client"
             THEN IF FindStart(log) = NoStart
                  THEN [acc EXCEPT !.error = TRUE]
                  ELSE [acc EXCEPT !.base = base, !.end = end,
                                   !.start = MergeStart(minMode, acc.start, FindStart(log))]
             ELSE [acc EXCEPT !.base = base, !.end = end,
                              !.start = MergeStart(minMode, acc.start, base + 5)]

\* auto_range(bench, logs, use_min_log_start): <<base, start - base,
\* end - AUTO_RANGE_SLACK_AT_END - base>>, or "no_start" for the LogError.
AutoRangeOf(l, minMode) ==
    LET acc == FoldLeft(LAMBDA a, log : AutoRangeStep(minMode, a, log),
                        [base |-> Infinity, end |-> -Infinity, error |-> FALSE,
                         start |-> IF minMode THEN Infinity ELSE 0], l)
    IN  IF acc.error THEN "no_start"
        ELSE <<acc.base, acc.start - acc.base,
               acc.end - AUTO_RANGE_SLACK_AT_END - acc.base>>

\* merge_time_range(auto_start, auto_end, relative_time_range): the
\* requested window, or the auto window when none is requested; it must
\* lie inside the auto window and span at least 10 seconds.
MergeTimeRange(autoStart, autoEnd, req) ==
    LET s == IF req = None THEN autoStart ELSE req[1]
        e == IF req = None THEN autoEnd ELSE req[2]
    IN  IF ~(autoStart <= s /\ s < autoEnd /\ autoStart < e /\ e <= autoEnd)
        THEN "outside_range"
        ELSE IF e < s + 10 THEN "too_short"
        ELSE <<s, e>>

-----------------------------------------------------------------------------

Init ==
    /\ logs \in Runs
    /\ useMin \in BOOLEAN
    /\ requested \in Requested
    /\ window = "pending"

\* range_and_transform, up to the filters: auto_range, then (set_base_time
\* on every log) merge_time_range; a LogError propagates to the caller.
RangeRun ==
    /\ window = "pending"
    /\ window' =
        LET auto == AutoRangeOf(logs, useMin)
        IN  IF auto \in Fatal THEN auto
            ELSE LET w == MergeTimeRange(auto[2], auto[3], requested)
                 IN  IF w \in Fatal THEN w ELSE <<auto[1], w[1], w[2]>>
    /\ UNCHANGED <<logs, useMin, requested>>

\* The run's window is final; the coordinator moves on.
Done == window # "pending" /\ UNCHANGED vars

Next == RangeRun \/ Done

Spec == Init /\ [][Next]_vars /\ WF_vars(RangeRun)

-----------------------------------------------------------------------------
(* The window spec.md 4.5 prescribes.  base and raw_end range over all     *)
(* entries of all reference records; a client reference record starts at  *)
(* its warm-up point (the first sample above 90% of its median), any other *)
(* at base + 5 for that global base; the starts merge with max, or min in  *)
(* minimal-start mode.  An explicit window replaces the detected start and *)
(* end, and must satisfy base <= start < end_auto, start < end <= end_auto *)
(* and end - start >= 10.                                                  *)

WarmUp(log) ==
    LET data == ThroughputData(log)
        above == {i \in 1..Len(log.entries) :
                    HasThroughput(log.entries[i])
                    /\ 20 * log.entries[i].throughput > 9 * RefMedian2(data)}
    IN  IF above = {} THEN NoStart ELSE log.entries[Min(above)].timestamp

SpecWindow(l, minMode, req) ==
    LET ref == SelectSeq(l, IsAutoRangeLog)
        ts == UNION {{ref[i].entries[j].timestamp : j \in 1..Len(ref[i].entries)}
                        : i \in 1..Len(ref)}
        base == Min(ts)
        endAuto == Max(ts) - AUTO_RANGE_SLACK_AT_END - base
        starts == {IF ref[i].logtype = "client" THEN WarmUp(ref[i]) ELSE base + 5
                      : i \in 1..Len(ref)}
        startAuto == (IF minMode THEN Min(starts) ELSE Max(starts)) - base
        s == IF req = None THEN startAuto ELSE req[1]
        e == IF req = None THEN endAuto ELSE req[2]
    IN  CASE req = None /\ \E i \in 1..Len(ref) :
                 ref[i].logtype = "client" /\ WarmUp(ref[i]) = NoStart -> "no_start"
          [] ts = {} -> "outside_range"
          [] ~(0 <= s /\ s < endAuto /\ s < e /\ e <= endAuto) -> "outside_range"
          [] e < s + 10 -> "too_short"
          [] OTHER -> <<base, s, e>>

\* Once range_and_transform has derived the run's window (or raised), the
\* outcome is the one spec.md 4.5 prescribes for the run's logs: the fold
\* of auto_range over the logs in completion order, with its running base,
\* its inf/-inf seeds and find_start's float threshold, must agree with
\* the order-free definition over all reference records.
WindowAsSpecified == window # "pending" => window = SpecWindow(logs, useMin, requested)

=============================================================================
