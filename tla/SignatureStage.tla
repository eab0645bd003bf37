--------------------------- MODULE SignatureStage ---------------------------
(***************************************************************************)
(* The per-run stage of the signature benchmark (bench/sign_bench.py):     *)
(* SignatureBenchLogParser reads one host-N.log per host, auto_range takes  *)
(* the signature logs as reference logs, merge_time_range checks the       *)
(* window, and range_and_transform applies ApplyBaseTimeFilter,            *)
(* SignatureAveragesTransformer and PrintWarningsFilter (which only        *)
(* prints).  Any exception of the stage (a parse IndexError, the LogError  *)
(* of the range, a KeyError, AttributeError or IndexError in _average)     *)
(* aborts the run; they are told apart only as parse error, log error and  *)
(* Crash.                                                                   *)
(*                                                                          *)
(* A line of a perf log is abstracted to its second word (tag) and its     *)
(* third, the duration; "short" stands for a line of fewer than two words. *)
(* The duration is parsed with int() and scaled by 1e-9 from ns to s.      *)
(* TLC's integers cannot hold whole seconds in nanoseconds, so a line's    *)
(* duration is written in units of 10^9 ns, and the scaling is that unit.  *)
(***************************************************************************)
EXTENDS GroupStage, Statistics

AR == INSTANCE AutoRange WITH
        Times <- 0..99, Throughputs <- {}, LogTypes <- {"signature"},
        ReferenceType <- "signature", MinEntries <- 0, MaxEntries <- 0,
        MaxLogs <- 0, None <- "none", Requested <- {"none"},
        logs <- <<>>, useMin <- FALSE, requested <- "none", window <- "pending"

SignatureTags == {"Sign/s", "Verify/s"}

\* parts[1].split("/")[0].lower() of the two tags
Operation(tag) == IF tag = "Sign/s" THEN "sign" ELSE "verify"

HasOperation(d) == "operation" \in DOMAIN d

\* _parse_file: the timestamp starts at 0 and grows by the duration of
\* every measurement line; any other line is a warning at the current
\* timestamp.  A line without a second word raises IndexError (parts[1])
\* and the run ends with ParseError.
\* The log's client_count is the 0 of parse_folder_name.
SignatureParse(logid, lines) ==
    LET step[i \in 0..Len(lines)] ==
            IF i = 0 THEN [timestamp |-> 0, entries |-> <<>>]
            ELSE LET acc == step[i - 1]
                     l == lines[i]
                 IN  IF l.tag \in SignatureTags
                     THEN [timestamp |-> acc.timestamp + l.n,
                           entries |-> Append(acc.entries,
                                          [timestamp |-> acc.timestamp,
                                           operation |-> Operation(l.tag),
                                           duration |-> l.n, count |-> 1000])]
                     ELSE [acc EXCEPT !.entries =
                              Append(@, [timestamp |-> acc.timestamp,
                                         warning |-> "Unknown line"])]
    IN  [logtype |-> "signature", logid |-> logid, cc |-> 0,
         entries |-> step[Len(lines)].entries]

ParseError == [status |-> "parse_error", logs |-> <<>>]
LogError == [status |-> "log_error", logs |-> <<>>]

\* ApplyBaseTimeFilter: every entry's timestamp less the run's base time.
ApplyBaseTime(logs, base) ==
    [i \in DOMAIN logs |->
        [logs[i] EXCEPT !.entries =
            [j \in DOMAIN @ |-> [@[j] EXCEPT !.timestamp = @ - base]]]]

\* The durations of one operation over all entries of the log.
Durations(log, op) ==
    LET m == SelectSeq(log.entries, LAMBDA d : d.operation = op)
    IN  [i \in DOMAIN m |-> m[i].duration]

\* SignatureAveragesTransformer._average: data are the entries with an
\* operation inside [start, end); the sign and verify lists read
\* d["operation"] of every entry, raising KeyError on a warning; median()
\* raises on an empty list; data[0] raises IndexError when no measurement
\* lies in the window.  Both entries take timestamp and count from data[0]
\* and their statistics from all durations of their operation.  The median
\* of whole-second durations is a multiple of 0.5, which round(_, 3)
\* keeps; it is carried doubled (Median2).
SignatureAverage(log, s, e) ==
    LET data == SelectSeq(log.entries,
                          LAMBDA d : HasOperation(d) /\ InWindow(d, s, e))
        OpSummary(op) ==
            LET xs == Durations(log, op)
            IN  [timestamp |-> data[1].timestamp, operation |-> op,
                 count |-> data[1].count, median2 |-> Median2(xs),
                 lower_quartile |-> Percentile(xs, 1, 4),
                 upper_quartile |-> Percentile(xs, 3, 4)]
    IN  IF \/ \E i \in DOMAIN log.entries : ~HasOperation(log.entries[i])
           \/ Durations(log, "sign") = <<>> \/ Durations(log, "verify") = <<>>
           \/ data = <<>>
        THEN Crash
        ELSE [status |-> "ok", logs |-> <<OpSummary("sign"), OpSummary("verify")>>]

\* SignatureAveragesTransformer: an AverageTransformer of the signature logs.
SignatureAverages(logs, s, e) ==
    AverageTransform("signature", "signature-averages",
                     [l \in OfType("signature", logs) |-> SignatureAverage(l, s, e)],
                     logs)

\* range_and_transform for a signature run whose host logs are parsed from
\* hostLines[1], hostLines[2], ... (in os.walk order): auto_range, the base
\* time, merge_time_range without a requested window, then the transformers.
SignatureRun(hostLines) ==
    LET parsed == [i \in DOMAIN hostLines |->
                      SignatureParse("host-" \o ToString(i - 1), hostLines[i])]
    IN  IF \E i \in DOMAIN hostLines :
                \E j \in DOMAIN hostLines[i] : hostLines[i][j].tag = "short"
        THEN ParseError
        ELSE LET ar == AR!AutoRangeOf(parsed, FALSE)
                 w == AR!MergeTimeRange(ar[2], ar[3], "none")
             IN  IF w \in AR!Fatal THEN LogError
                 ELSE SignatureAverages(ApplyBaseTime(parsed, ar[1]), w[1], w[2])

(***************************************************************************)
(* The outcome of a signature run, written over the lines of the perf     *)
(* logs rather than over parsed entries.  A line's time is the sum of the *)
(* durations of the measurement lines before it.  The window is           *)
(* [5, span - 5) for the latest line time span, and must be at least 10    *)
(* seconds long.  Every host must have only measurement lines, of both     *)
(* operations, one of them inside the window.  Each host then gets one     *)
(* summary per operation: the time of its first measurement in the        *)
(* window, and the median and nearest-rank quartiles (spec.md 4.1) of all *)
(* of that operation's durations in the log, in or out of the window.     *)
(***************************************************************************)
LineTime(lines, j) ==
    LET d[i \in 0..(j - 1)] ==
            IF i = 0 THEN 0
            ELSE d[i - 1] + (IF lines[i].tag \in SignatureTags THEN lines[i].n ELSE 0)
    IN  d[j - 1]

SpecSamples(lines, op) ==
    LET m == SelectSeq(lines, LAMBDA l : l.tag \in SignatureTags /\ Operation(l.tag) = op)
    IN  [i \in DOMAIN m |-> m[i].n]

SpecSummary(lines, op, s, e) ==
    LET xs == SpecSamples(lines, op)
        n == Len(xs)
    IN  [timestamp |-> Min({LineTime(lines, j) : j \in
                               {j \in DOMAIN lines : s <= LineTime(lines, j) /\ LineTime(lines, j) < e}}),
         operation |-> op, count |-> 1000, median2 |-> RefMedian2(xs),
         lower_quartile |-> KthSmallest(xs, CeilDiv(n, 4)),
         upper_quartile |-> KthSmallest(xs, CeilDiv(3 * n, 4))]

SpecSignatureRun(hostLines) ==
    LET times == UNION {{LineTime(hostLines[i], j) : j \in DOMAIN hostLines[i]} :
                           i \in DOMAIN hostLines}
        span == Max(times)
        s == 5
        e == span - 5
        HostOk(lines) ==
            /\ \A j \in DOMAIN lines : lines[j].tag \in SignatureTags
            /\ SpecSamples(lines, "sign") # <<>> /\ SpecSamples(lines, "verify") # <<>>
            /\ \E j \in DOMAIN lines : s <= LineTime(lines, j) /\ LineTime(lines, j) < e
    IN  CASE \E i \in DOMAIN hostLines :
                \E j \in DOMAIN hostLines[i] : hostLines[i][j].tag = "short" -> ParseError
          [] times = {} \/ e - s < 10 -> LogError
          [] \E i \in DOMAIN hostLines : ~HostOk(hostLines[i]) -> Crash
          [] OTHER -> [status |-> "ok",
                       summaries |-> [i \in DOMAIN hostLines |->
                                         <<SpecSummary(hostLines[i], "sign", s, e),
                                           SpecSummary(hostLines[i], "verify", s, e)>>]]

\* Runs of one host with up to four lines of any kind, and of two hosts
\* with one to three measurement lines each.  Durations of 6 and 36 seconds
\* give runs that are too short, windows that hold no measurement of a
\* host, and quartiles of distinct samples.  An empty host log walked
\* before the others sets auto_range's start to inf + 5 through the
\* running base (parse-logs.py:213), the defect autorange_server_ref shows;
\* the two-host runs leave it out.
MeasurementLines == {[tag |-> t, n |-> d] : t \in SignatureTags, d \in {6, 36}}

SignatureRuns ==
    {<<l>> : l \in BoundedSeq(MeasurementLines \cup
                              {[tag |-> "Other", n |-> 0], [tag |-> "short", n |-> 0]}, 4)}
    \cup {<<a, b>> : a, b \in BoundedSeq(MeasurementLines, 3) \ {<<>>}}

SignatureAgree ==
    \A hl \in SignatureRuns :
        \A r \in {SignatureRun(hl)}, spec \in {SpecSignatureRun(hl)} :
            /\ r.status = spec.status
            /\ r.status = "ok" =>
                  LET d == SelectSeq(r.logs, LAMBDA l : l.logtype = "signature-averages")
                  IN  /\ Len(d) = Len(hl)
                      /\ \A k \in DOMAIN d : d[k].logid = "host-" \o ToString(k - 1)
                                              /\ d[k].entries = spec.summaries[k]

=============================================================================
