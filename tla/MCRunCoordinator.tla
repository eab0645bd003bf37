--------------------------- MODULE MCRunCoordinator ---------------------------
(***************************************************************************)
(* Two scenario groups: the first with two run folders, the second with   *)
(* one; two log files per run; a pool of two workers.  Of three windows,   *)
(* two overlap only partly, so the intersection differs from either, and   *)
(* the third meets one of them in a short range and misses the other.     *)
(*                                                                          *)
(* The group stage (GroupStage) is checked for every window the group can  *)
(* reach: bundles of up to two client logs, of two logids and two client   *)
(* counts, each with up to two measurements just inside and just outside  *)
(* either end of the window.                                                *)
(***************************************************************************)
EXTENDS RunCoordinator, RawStage, FolderNames, CalcGroups, SignatureStage

MCGroups == <<"gA", "gB">>

MCWindows == {<<3, 11>>, <<4, 8>>, <<9, 13>>}

MCRunsOf == [g \in {"gA", "gB"} |-> IF g = "gA" THEN 2 ELSE 1]

\* The windows a group can reach: the intersection of the windows of its
\* one or two runs (the latest start and the earliest end, as GroupBarrier
\* states it).
GroupWindows == {<<Max({a[1], b[1]}), Min({a[2], b[2]})>> : a, b \in MCWindows}

EdgeTimes(w) == {w[1] - 1, w[1], w[2] - 1, w[2]}

Bundles(w) == BoundedSeq(ClientLogs({"client-0", "client-1"}, {1, 2}, EdgeTimes(w), 2), 2)

\* The bundles of each window on which the group stage breaks its promise.
GroupStageFailures ==
    [w \in GroupWindows |->
        {b \in Bundles(w) :
            \E r \in {GroupTransform(b, w[1], w[2])}, spec \in {SpecGroupTransform(b, w[1], w[2])} :
                ~MeetsSpec(r, spec, Len(b))}]

\* When walk_folders_of_group runs the group transformers over the bundle
\* and effective_time_range_inner, the stage raises FatalLogIssue exactly
\* for duplicate data of one configuration, raises exactly when a client log
\* has fewer than two measurements left in the window, and otherwise
\* returns the cut logs followed by one summary per logid, its entries by
\* increasing client count.
GroupStageAsSpecified == pc = "aggregate" => GroupStageFailures[groupWindow] = {}

\* Raw latency entries of the given clients at the edge times.
LatEntries(Times, Clients, Lats) == {LatencyEntry(t, c, l) : t \in Times, c \in Clients, l \in Lats}

\* The derived records of one type in the output of the raw stage.
Records(r, type) == SelectSeq(r.logs, LAMBDA l : l.logtype = type)

SumOf(xs, F(_)) == FoldLeftSeq(LAMBDA a, x : a + F(x), 0, xs)

\* For one log, the client-raw-latencies entry and the client-raw-throughput
\* entries of each tag count the same replies in every second and the same
\* latency total.
RawRecordsAgree(log, s, e) ==
    \A r \in {RawChain(<<log>>, s, e)} :
    \A lat \in {Records(r, "client-raw-latencies")[1].entries},
      thr \in {Records(r, "client-raw-throughput")[1].entries} :
        /\ {x.tag : x \in Range(thr)} = {x.tag : x \in Range(lat)}
        /\ \A k \in DOMAIN lat :
              \A T \in {SelectSeq(thr, LAMBDA x : x.tag = lat[k].tag)} :
                  /\ [j \in DOMAIN T |-> T[j].throughput] = lat[k].perSec
                  /\ SumOf(T, LAMBDA x : x.latencySum) = SumOf(lat[k].latencies, LAMBDA x : x)

\* Logs of two clients, each answered in its own latency, at times one tick
\* on each side of both window ends.
RawAgree ==
    [w \in GroupWindows |->
        \A l \in LatencyLogs({"client-0"}, {1}, {LatencyEntry(t, c, c + 1) : t \in EdgeTimes(w), c \in {0, 1}}, 3) :
            RawRecordsAgree(l, w[1], w[2])]

\* When ClientRawLatencies and ClientRawThroughput run over a raw latency
\* log in the group window, both skip the first request of each client and
\* count by int() of the times: for every tag they report the same replies
\* per second of range(int(start), int(end)) and the same latency total.
RawRecordsConsistent == pc = "aggregate" => RawAgree[groupWindow]

\* Two raw latency logs at the edge times: the first of client-0 at one
\* client count, with the requests of two clients; the second of the
\* same configuration, of another logid, or of another client count, with
\* the requests of a client of its own.
LatPairs(w) ==
    LET ts == EdgeTimes(w)
    IN  {<<a, b>> : a \in LatencyLogs({"client-0"}, {1}, LatEntries(ts, {0, 1}, {1}), 2),
                    b \in LatencyLogs({"client-0"}, {1, 2}, LatEntries(ts, {2}, {1}), 2)
                         \cup LatencyLogs({"client-1"}, {1}, LatEntries(ts, {2}, {1}), 2)}

ClientsOf(log) == {log.entries[i].client : i \in DOMAIN log.entries}

\* The output of the raw stage for two logs: FatalLogIssue if they are one
\* configuration twice; otherwise, if their clients are distinct, every
\* second of client-raw-avg-throughput holds the sum of the two logs'
\* client-raw-throughput entries for that tag and second.
AvgSumsLogs(b, s, e) ==
    \A r \in {RawChain(b, s, e)} :
        IF b[1].logid = b[2].logid /\ b[1].cc = b[2].cc THEN r.status = "fatal"
        ELSE ClientsOf(b[1]) \cap ClientsOf(b[2]) = {} =>
           \A thr \in {FlattenSeq([i \in 1..2 |-> Records(r, "client-raw-throughput")[i].entries])},
             avg \in {Records(r, "client-raw-avg-throughput")[1].entries} :
               LET Same(x, a) == x.tag = a.tag /\ x.timestamp = a.timestamp
               IN  /\ \A k \in DOMAIN avg :
                         \A T \in {SelectSeq(thr, LAMBDA x : Same(x, avg[k]))} :
                           /\ avg[k].throughput = SumOf(T, LAMBDA x : x.throughput)
                           /\ avg[k].latencySum = SumOf(T, LAMBDA x : x.latencySum)
                   /\ \A j \in DOMAIN thr :
                         thr[j].throughput > 0 => \E k \in DOMAIN avg : Same(thr[j], avg[k])

AvgAgree == [w \in GroupWindows |-> \A b \in LatPairs(w) : AvgSumsLogs(b, w[1], w[2])]

\* When ClientRawAvgThroughput merges the latency logs of the group, which it
\* does without a duplicate check of its own, ClientRawLatencies has already
\* raised FatalLogIssue for two logs of one logid and client count; and for
\* logs of distinct clients the merged record adds up the per-log records.
AvgThroughputMergesLogs == pc = "aggregate" => AvgAgree[groupWindow]

\* int() on the chunks that parse as an integer: client counts, a leading
\* zero, the duration, and the timestamp chunks (int() accepts "_").
MCIntOf == ("5" :> 5) @@ ("05" :> 5) @@ ("50" :> 50) @@ ("60" :> 60)
               @@ ("2024_01_01" :> 20240101) @@ ("12_00_00" :> 120000)

MCRefitRuns == RefitRuns({"bft", "lan"}, {"5", "05", "50"}, {"60"})

\* walk_folders, over the folders of REFIT runs and of ping measurements,
\* assigns every REFIT folder to REFITBenchmark with the client count of its
\* <clients> chunk, puts two of them in one group exactly when their
\* scenarios without that chunk agree, and leaves the ping folders to
\* PingBenchmark.
FolderGroupsAsSpecified ==
    /\ \A r \in MCRefitRuns : Claim(r.name).parsed.cc = r.cc
    /\ \A n \in PingRuns({"bft", "lan"}, {"60"}) : Claim(n).bench = "ping"
    /\ LET groups == WalkGroups({r.name : r \in MCRefitRuns})
       IN  groups = [k \in {r.group : r \in MCRefitRuns} |->
                        {r.name : r \in {x \in MCRefitRuns : x.group = k}}]

\* The groups the coordinator works on are those walk_folders formed.
FolderGroupsChecked == pc = "submit_parse" => FolderGroupsAsSpecified

\* The range task of a signature run (sign_bench.py) ends, over every run
\* of up to two host logs, as the lines of its perf logs prescribe: a parse
\* error for a line without a second word, a LogError for a window shorter
\* than 10 seconds, an exception for a warning line, a missing operation or
\* a host without a measurement in the window, and otherwise one summary
\* per host and operation stamped with its first measurement in the window
\* and holding the median and nearest-rank quartiles of its durations.
\* It is stated for the states in which the main process collects range
\* tasks; the comparison itself is a constant TLC evaluates once.
SignatureStageAsSpecified == pc = "collect_range" => SignatureAgree

(* calc_groups.py is a helper of the analysis scripts with no state of    *)
(* its own; its search is checked here, once, over its bounded inputs,  *)
(* stated for the states in which the batch starts.                       *)

\* gen_permutations(k, n) yields each k-subset of the replicas 0..n-1 once
\* (get_permutations_helper's recursion continues after the element taken).
PermutationsAsSpecified == pc = "submit_parse" => PermutationsAgree

\* solve() returns exactly the most valuable constellations within the
\* replica limits, each once: solve_rec's search with its early breaks
\* and the reset of the shared result list on a better value.
SolveFindsAllOptima == pc = "submit_parse" => SolveAgree
=============================================================================
