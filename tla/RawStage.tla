------------------------------- MODULE RawStage -------------------------------
(***************************************************************************)
(* The raw-latency transformers of the REFIT group stage, in the order     *)
(* setup_group_transformers lists them: ClientRawLatenciesTransformer,      *)
(* ClientRawThroughputTransformer and ClientRawAvgThroughputTransformer     *)
(* (scripts/analysis/transformer/client_raw_*.py).                          *)
(*                                                                          *)
(* A raw latency entry is [timestamp, client, latency, tag], as            *)
(* LatencyLogParser emits it.  Timestamps and the window are counted in    *)
(* half seconds, so that int() of a time, Sec, can differ from the time:   *)
(* the second i is the time 2 * i.  A client-raw-latencies entry keeps the *)
(* per-second counts and the latency list that its averages and           *)
(* percentiles are taken of; a client-raw-throughput entry keeps the count *)
(* and the latency sum of one second, of which the average is the quotient.*)
(***************************************************************************)
EXTENDS GroupStage

\* int() of a non-negative time.
Sec(t) == t \div 2

\* int_start_time <= int(e["timestamp"]) < int_end_time
Counts(x, s, e) == Sec(s) <= Sec(x.timestamp) /\ Sec(x.timestamp) < Sec(e)

\* The tags of a list of entries in the order they first occur: the key
\* order of a defaultdict filled in that order.
TagOrder(xs) == FoldLeftSeq(LAMBDA acc, x : IF x.tag \in Range(acc) THEN acc ELSE Append(acc, x.tag), <<>>, xs)

-----------------------------------------------------------------------------

\* A variant of the loop of ClientRawLatenciesTransformer._average that
\* also counts replies in the second int_end_time.
LatenciesStepEndInclusive(s, e, acc, x) ==
    IF x.client \notin acc.seen THEN [acc EXCEPT !.seen = @ \cup {x.client}]
    ELSE IF Sec(s) <= Sec(x.timestamp) /\ Sec(x.timestamp) <= Sec(e)
    THEN [acc EXCEPT !.counted = Append(@, x)]
    ELSE acc

\* One iteration of the loop of ClientRawLatenciesTransformer._average: the
\* first request of each client is skipped; a later one is counted for its
\* tag and second if it lies in the window.
LatenciesStep(s, e, acc, x) ==
    IF x.client \notin acc.seen THEN [acc EXCEPT !.seen = @ \cup {x.client}]
    ELSE IF Counts(x, s, e) THEN [acc EXCEPT !.counted = Append(@, x)]
    ELSE acc

\* ClientRawLatenciesTransformer._average: one entry per tag, with the
\* throughput of every second of range(int_start_time, int_end_time) and
\* the latencies of the tag in entry order.
RawLatenciesAverage(log, s, e) ==
    LET c == FoldLeftSeq(LAMBDA acc, x : LatenciesStep(s, e, acc, x),
                      [seen |-> {}, counted |-> <<>>], log.entries).counted
        Of(tag) == SelectSeq(c, LAMBDA x : x.tag = tag)
        tags == TagOrder(c)
    IN  Transformed([k \in 1..Len(tags) |->
            [timestamp |-> s, cc |-> log.cc, tag |-> tags[k],
             perSec |-> [j \in 1..(Sec(e) - Sec(s)) |->
                            Len(SelectSeq(Of(tags[k]), LAMBDA x : Sec(x.timestamp) = Sec(s) + j - 1))],
             latencies |-> [j \in 1..Len(Of(tags[k])) |-> Of(tags[k])[j].latency]]])

\* ClientRawLatenciesTransformer: AverageTransformer("latency", "client-raw-latencies").
ClientRawLatencies(logs, s, e) ==
    AverageTransform("latency", "client-raw-latencies",
                     [l \in OfType("latency", logs) |-> RawLatenciesAverage(l, s, e)], logs)

-----------------------------------------------------------------------------

\* One iteration of the loop of ClientRawThroughputTransformer._average.
ThroughputStep(s, e, acc, x) ==
    IF x.client \notin acc.seen THEN [acc EXCEPT !.seen = @ \cup {x.client}]
    ELSE IF Counts(x, s, e) THEN [acc EXCEPT !.hits = Append(@, x)]
    ELSE acc

\* ClientRawThroughputTransformer._average: for every tag and every second
\* of range(int_start_time, int_end_time), the replies and their latency sum.
RawThroughputAverage(log, s, e) ==
    LET h == FoldLeftSeq(LAMBDA acc, x : ThroughputStep(s, e, acc, x),
                      [seen |-> {}, hits |-> <<>>], log.entries).hits
        tags == TagOrder(h)
        n == Sec(e) - Sec(s)
        At(k, j) == SelectSeq(h, LAMBDA x : x.tag = tags[k] /\ Sec(x.timestamp) = Sec(s) + j - 1)
    IN  [i \in 1..(Len(tags) * n) |->
            LET k == (i - 1) \div n + 1
                j == ((i - 1) % n) + 1
            IN  [timestamp |-> 2 * (Sec(s) + j - 1), tag |-> tags[k],
                 throughput |-> Len(At(k, j)),
                 latencySum |-> FoldLeftSeq(LAMBDA a, x : a + x.latency, 0, At(k, j))]]

\* The derived client-raw-throughput record of one latency log.
RawThroughputLog(log, s, e) ==
    [DeriveLog(log, "client-raw-throughput", log.cc) EXCEPT !.entries = RawThroughputAverage(log, s, e)]

\* ClientRawThroughputTransformer.transform: one derived record per latency
\* log, appended in bundle order.
ClientRawThroughput(logs, s, e) ==
    LET lat == SelectSeq(logs, LAMBDA l : l.logtype = "latency")
    IN  Transformed(logs \o [i \in 1..Len(lat) |-> RawThroughputLog(lat[i], s, e)])

\* A variant that fills tmp from the entries of the first log only.
ClientRawAvgThroughputFirstOnly(logs, s, e) ==
    LET group == SelectSeq(logs, LAMBDA l : l.logtype = "latency")
    IN  IF Len(group) <= 1 THEN Transformed(logs)
        ELSE Transformed(Append(logs,
                 [DeriveLog(group[1], "client-raw-avg-throughput", group[1].cc) EXCEPT
                     !.logid = "client-avg", !.entries = RawThroughputAverage(group[1], s, e)]))

\* ClientRawAvgThroughputTransformer.transform: the latency logs of the
\* scenario (all logs of the bundle share it), if more than one, merged log
\* after log and counted by ClientRawThroughputTransformer._average into
\* one record derived from the first, under logid client-avg.
ClientRawAvgThroughput(logs, s, e) ==
    LET group == SelectSeq(logs, LAMBDA l : l.logtype = "latency")
        tmp == [logtype |-> "latency", logid |-> "client-avg", cc |-> 0,
                entries |-> FlattenSeq([i \in 1..Len(group) |-> group[i].entries])]
    IN  IF Len(group) <= 1 THEN Transformed(logs)
        ELSE Transformed(Append(logs,
                 [DeriveLog(group[1], "client-raw-avg-throughput", group[1].cc) EXCEPT
                     !.logid = "client-avg", !.entries = RawThroughputAverage(tmp, s, e)]))

\* The three transformers in turn; an exception ends the stage.
RawChain(bundle, s, e) ==
    LET r1 == ClientRawLatencies(bundle, s, e)
        r2 == ClientRawThroughput(r1.logs, s, e)
    IN  IF r1.status # "ok" THEN r1 ELSE ClientRawAvgThroughput(r2.logs, s, e)

-----------------------------------------------------------------------------

\* The latency logs of a bundle.
LatencyEntry(t, c, lat) == [timestamp |-> t, client |-> c, latency |-> lat, tag |-> "t"]

LatencyLogs(LogIds, ClientCounts, Entries, MaxEntries) ==
    [logtype : {"latency"}, logid : LogIds, cc : ClientCounts, entries : BoundedSeq(Entries, MaxEntries)]

=============================================================================
