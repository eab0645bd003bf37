----------------------------- MODULE Aggregators -----------------------------
(***************************************************************************)
(* The raw-latency averager of the group stage: ClientRawAveragesTransformer *)
(* (scripts/analysis/transformer/client_raw_averages.py), run by            *)
(* walk_folders_of_group over the bundle of a scenario group and the group  *)
(* window.                                                                  *)
(*                                                                          *)
(* The bundle is the list of parsed and filtered logs of all runs of the    *)
(* group, in the order the parse futures were collected, i.e. the os.walk   *)
(* order of each run folder.  A raw latency entry is the parsers' dict      *)
(* {client, timestamp, latency, tag}; LatencyLogFilter has already rejected *)
(* logs with warnings, so every entry carries these four fields.            *)
(*                                                                          *)
(* A summary entry holds throughput_data[tag] / (end - start) and           *)
(* latencies[tag] / throughput_data[tag]; the model keeps the count and    *)
(* the latency sum, from which both quotients follow, and compares          *)
(* averages by cross-multiplying.  The order of summary entries inside the  *)
(* derived record is not modelled: every entry carries its client_count     *)
(* and tag.                                                                 *)
(***************************************************************************)
EXTENDS Integers, Sequences, SequencesExt, FiniteSets, TLC

CONSTANTS
    LogTypes,       \* logtypes in the bundle; only "latency" is averaged
    LogIds,         \* logids of raw latency logs (client-N)
    ClientCounts,   \* client counts of the runs of the group
    ClientIds,      \* values of an entry's "client" field
    Times,          \* entry timestamps, already relative to the base time
    Latencies,      \* latency values
    Tags,           \* operation tags
    StartTime,      \* the group window [StartTime, EndTime)
    EndTime,
    MaxEntries,     \* bound on the entries of one log
    MaxLogs         \* bound on the logs of the bundle

VARIABLES
    bundle,   \* the logs handed to transform(), in bundle order
    done,     \* transform() has returned or raised
    out       \* [fatal, entries]: FatalLogIssue raised, or the summary entries

vars == <<bundle, done, out>>

-----------------------------------------------------------------------------

Entry == [client : ClientIds, timestamp : Times, latency : Latencies, tag : Tags]

LogRecords == [logtype : LogTypes, logid : LogIds, cc : ClientCounts,
               entries : BoundedSeq(Entry, MaxEntries)]

IsLatency(log) == log.logtype = "latency"

\* The `for log in logs` loop of transform() raises FatalLogIssue when a
\* logid occurs twice for one client count of the scenario.
DuplicateLog(l) ==
    LET lat == SelectSeq(l, IsLatency)
    IN  \E i, j \in 1..Len(lat) :
            i < j /\ lat[i].cc = lat[j].cc /\ lat[i].logid = lat[j].logid

\* grouped_logs[scenario][client_count], in bundle order.
GroupOf(l, c) == SelectSeq(l, LAMBDA log : IsLatency(log) /\ log.cc = c)

\* tmp: the entries of all logs of one client count, log after log.
Merged(l, c) == FlattenSeq([i \in 1..Len(GroupOf(l, c)) |-> GroupOf(l, c)[i].entries])

\* One iteration of the loop of _average: the first entry of every value
\* of e["client"] is skipped; a later one counts for its tag if
\* int(timestamp) lies in [start_time, end_time).
AverageStep(acc, e) ==
    IF e.client \notin acc.seen
    THEN [acc EXCEPT !.seen = @ \cup {e.client}]
    ELSE IF StartTime <= e.timestamp /\ e.timestamp < EndTime
         THEN [acc EXCEPT !.count[e.tag] = @ + 1, !.sum[e.tag] = @ + e.latency]
         ELSE acc

\* _average(tmp, start, end): one summary entry per tag that counted.
Average(c, es) ==
    LET acc == FoldLeft(AverageStep,
                        [seen |-> {}, count |-> [t \in Tags |-> 0], sum |-> [t \in Tags |-> 0]],
                        es)
    IN  {[cc |-> c, tag |-> t, count |-> acc.count[t], sum |-> acc.sum[t]]
            : t \in {t \in Tags : acc.count[t] > 0}}

\* ClientRawAveragesTransformer.transform(logs, start, end).
ClientRawAverages(l) ==
    IF DuplicateLog(l) THEN [fatal |-> TRUE, entries |-> {}]
    ELSE [fatal |-> FALSE,
          entries |-> UNION {Average(c, Merged(l, c)) : c \in {c \in ClientCounts : GroupOf(l, c) # <<>>}}]

-----------------------------------------------------------------------------

Init ==
    /\ bundle \in {l \in BoundedSeq(LogRecords, MaxLogs) : l # <<>>}
    /\ done = FALSE
    /\ out = [fatal |-> FALSE, entries |-> {}]

\* The group stage applies the transformer to the bundle.
Transform ==
    /\ ~done
    /\ done' = TRUE
    /\ out' = ClientRawAverages(bundle)
    /\ UNCHANGED bundle

\* The group's remaining transformers and writers follow.
Done == done /\ UNCHANGED vars

Next == Transform \/ Done

Spec == Init /\ [][Next]_vars /\ WF_vars(Transform)

-----------------------------------------------------------------------------

\* Two results report the same statistics: the same entries up to the
\* value of the latency average sum / count.
SameSummary(r1, r2) ==
    /\ r1.fatal = r2.fatal
    /\ {<<e.cc, e.tag, e.count>> : e \in r1.entries} = {<<e.cc, e.tag, e.count>> : e \in r2.entries}
    /\ \A e1 \in r1.entries, e2 \in r2.entries :
                (e1.cc = e2.cc /\ e1.tag = e2.tag) => e1.sum * e2.count = e2.sum * e1.count

\* spec.md 5: aggregators must not depend on input record order, only on
\* the grouping key.  The summary transform() computes for the bundle in
\* the order the parse futures delivered it is the one it computes for
\* every other order of the same logs.
OrderIndependent ==
    done =>
        \A p \in Permutations(1..Len(bundle)) :
            SameSummary(out, ClientRawAverages([i \in 1..Len(bundle) |-> bundle[p[i]]]))

=============================================================================
