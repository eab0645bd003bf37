------------------------------ MODULE GroupStage ------------------------------
(***************************************************************************)
(* The group stage of scripts/analysis/parse-logs.py for client logs: the  *)
(* group transformers of REFITBenchmark (bench/refit.py) and CutLogFilter, *)
(* applied by walk_folders_of_group to the bundle of a scenario group and  *)
(* the group window [s, e).                                                 *)
(*                                                                          *)
(* A log is [logtype, logid, cc, entries].  A measurement entry of a client *)
(* log is [timestamp, cc |-> NoCount, samples |-> <<>>]; every entry the    *)
(* client parser emits carries throughput and latency.  A summary entry of *)
(* client-log-averages is [timestamp, cc, samples]: samples lists the       *)
(* in-window measurements (by timestamp) whose throughput and latency the  *)
(* average, median and stddev are taken of.  The bundle holds no latency  *)
(* log, so ClientRawLatencies (an AverageTransformer with no data set),     *)
(* ClientRawThroughput, ClientRawAvgThroughput and ClientRawAverages (no    *)
(* latency log to group) hand it on unchanged.  The output transformers,   *)
(* which only write files, are not modelled.                                *)
(***************************************************************************)
EXTENDS Integers, Sequences, SequencesExt, FiniteSets

NoCount == -2   \* an entry without a client_count field

Measurement(t) == [timestamp |-> t, cc |-> NoCount, samples |-> <<>>]

InWindow(entry, s, e) == s <= entry.timestamp /\ entry.timestamp < e

\* LogData.derive(logtype) followed by set_scenario(scenario, client_count):
\* the logid of the log, no entries yet.
DeriveLog(log, logtype, cc) == [logtype |-> logtype, logid |-> log.logid, cc |-> cc, entries |-> <<>>]

\* The result of a transform: it returned logs, raised FatalLogIssue, or
\* raised another exception (ZeroDivisionError, AttributeError).
Transformed(logs) == [status |-> "ok", logs |-> logs]
Fatal == [status |-> "fatal", logs |-> <<>>]
Crash == [status |-> "crash", logs |-> <<>>]

\* FoldLeft of SequencesExt, as a recursive function: op applied from the
\* left, starting with base.  TLC evaluates a constant built from it once,
\* where it evaluates one built from FoldLeft again in every state.
FoldLeftSeq(op(_, _), base, xs) ==
    LET f[i \in 0..Len(xs)] == IF i = 0 THEN base ELSE op(f[i - 1], xs[i])
    IN  f[Len(xs)]

-----------------------------------------------------------------------------
(* statistics.py: when a statistic returns rather than raises.            *)

\* average: sum(value_list) / len(value_list).
AverageDefined(xs) == Len(xs) > 0

\* median raises AttributeError on an empty list.
MedianDefined(xs) == Len(xs) > 0

\* A variant of stddev that divides by len(var).
StddevPopulationDefined(xs) == AverageDefined(xs) /\ Len(xs) # 0

\* stddev: average(value_list), then sum(var) / (len(var) - 1).
StddevDefined(xs) == AverageDefined(xs) /\ Len(xs) - 1 # 0

-----------------------------------------------------------------------------

\* ClientLogAveragesTransformer._average: the measurements in [s, e), their
\* averages, medians and stddevs, and the timestamp of the first of them.
LogAverage(log, s, e) ==
    LET data == SelectSeq(log.entries, LAMBDA x : InWindow(x, s, e))
    IN  IF AverageDefined(data) /\ MedianDefined(data) /\ StddevDefined(data)
        THEN Transformed(<<[timestamp |-> data[1].timestamp, cc |-> log.cc,
                         samples |-> [i \in 1..Len(data) |-> data[i].timestamp]]>>)
        ELSE Crash

\* A variant of the loop that keeps the later of two logs of one client count.
CollectNoDuplicateCheck(logtype, acc, log) ==
    IF acc.fatal \/ log.logtype # logtype THEN acc
    ELSE [acc EXCEPT !.taken = {l \in @ : l.logid # log.logid \/ l.cc # log.cc} \cup {log},
                     !.ids = IF log.logid \in Range(@) THEN @ ELSE Append(@, log.logid)]

\* One iteration of the `for log in logs` loop of AverageTransformer.transform:
\* data_sets as the set of logs taken, with its logids in insertion order.
Collect(logtype, acc, log) ==
    IF acc.fatal \/ log.logtype # logtype THEN acc
    ELSE IF \E l \in acc.taken : l.logid = log.logid /\ l.cc = log.cc
    THEN [acc EXCEPT !.fatal = TRUE]
    ELSE [acc EXCEPT !.taken = @ \cup {log},
                     !.ids = IF log.logid \in Range(@) THEN @ ELSE Append(@, log.logid)]

\* A variant that takes the client counts in insertion (bundle) order.
KeysInBundleOrder(taken, id, logs) ==
    SelectSeq(logs, LAMBDA l : l \in taken /\ l.logid = id)

\* keys = sorted(subset.keys()): the logs of one logid by client count.
Keys(taken, id, logs) ==
    SortSeq(SetToSeq({l \in taken : l.logid = id}), LAMBDA a, b : a.cc < b.cc)

\* The derived record of one logid: the _average entries of its logs, key
\* after key, with client_count -1; or the exception one of them raised.
\* avgOf maps each log of the type to what _average returns for it.
Derived(derivedType, avgOf, taken, id, logs) ==
    LET ks == Keys(taken, id, logs)
        rs == [k \in 1..Len(ks) |-> avgOf[ks[k]]]
    IN  IF \E k \in 1..Len(ks) : rs[k].status # "ok" THEN Crash
        ELSE Transformed(<<[DeriveLog(ks[1], derivedType, -1) EXCEPT
                            !.entries = FlattenSeq([k \in 1..Len(ks) |-> rs[k].logs])]>>)

\* AverageTransformer.transform with the _average of a subclass: a duplicate
\* (logid, client_count) raises FatalLogIssue; without a log of the type
\* the input is returned; otherwise one derived record per logid is appended.
AverageTransform(logtype, derivedType, avgOf, logs) ==
    LET acc == FoldLeftSeq(LAMBDA a, l : Collect(logtype, a, l),
                           [fatal |-> FALSE, taken |-> {}, ids |-> <<>>], logs)
        ds == [i \in 1..Len(acc.ids) |->
                  Derived(derivedType, avgOf, acc.taken, acc.ids[i], logs)]
    IN  IF acc.fatal THEN Fatal
        ELSE IF acc.ids = <<>> THEN Transformed(logs)
        ELSE IF \E i \in 1..Len(ds) : ds[i].status # "ok" THEN Crash
        ELSE Transformed(logs \o FlattenSeq([i \in 1..Len(ds) |-> ds[i].logs]))

\* The logs of one type in a bundle, the data sets _average is called on.
OfType(logtype, logs) == {l \in Range(logs) : l.logtype = logtype}

\* ClientLogAveragesTransformer: AverageTransformer("client", "client-log-averages").
ClientLogAverages(logs, s, e) ==
    AverageTransform("client", "client-log-averages",
                     [l \in OfType("client", logs) |-> LogAverage(l, s, e)], logs)

\* CutLogFilter.filter: a derived log with the entries in [s, e).
CutLog(log, s, e) ==
    [DeriveLog(log, log.logtype, log.cc) EXCEPT
        !.entries = SelectSeq(log.entries, LAMBDA x : InWindow(x, s, e))]

\* Filter.transform for CutLogFilter, whose can_handle accepts every log.
CutLogFilter(logs, s, e) == [i \in 1..Len(logs) |-> CutLog(logs[i], s, e)]

\* The loop over group_transformers in walk_folders_of_group, up to and
\* including CutLogFilter.
GroupTransform(bundle, s, e) ==
    LET r == ClientLogAverages(bundle, s, e)
    IN  IF r.status # "ok" THEN r
        ELSE Transformed(CutLogFilter(r.logs, s, e))

-----------------------------------------------------------------------------
(* What spec.md 4.4 and 5 say of this stage, without loops.               *)

ClientIdx(bundle) == {i \in DOMAIN bundle : bundle[i].logtype = "client"}

Cut(entries, s, e) == SelectSeq(entries, LAMBDA x : InWindow(x, s, e))

\* The summary of one log: its first measurement in the window and all of
\* them; sample_stddev fails when fewer than two are left.
Summary(log, s, e) ==
    LET d == Cut(log.entries, s, e)
    IN  [timestamp |-> d[1].timestamp, cc |-> log.cc, samples |-> [i \in DOMAIN d |-> d[i].timestamp]]

\* One derived record per logid, summarising its logs by increasing
\* client count under client_count -1.
SpecDerived(bundle, s, e) ==
    LET ls == {bundle[i] : i \in ClientIdx(bundle)}
        Of(id) == {l \in ls : l.logid = id}
        Rank(l) == Cardinality({m \in Of(l.logid) : m.cc < l.cc}) + 1
    IN  {[logtype |-> "client-log-averages", logid |-> id, cc |-> -1,
          entries |-> [k \in 1..Cardinality(Of(id)) |->
                          Summary(CHOOSE l \in Of(id) : Rank(l) = k, s, e)]]
            : id \in {l.logid : l \in ls}}

\* The group stage promises: FatalLogIssue for duplicate data of one
\* configuration, an exception if a statistic is undefined, and otherwise
\* the cut input records followed by the derived summaries.
SpecGroupTransform(bundle, s, e) ==
    IF \E i, j \in ClientIdx(bundle) :
            i # j /\ bundle[i].logid = bundle[j].logid /\ bundle[i].cc = bundle[j].cc
    THEN Fatal
    ELSE IF \E i \in ClientIdx(bundle) : Len(Cut(bundle[i].entries, s, e)) < 2
    THEN Crash
    ELSE [status |-> "ok",
          logs |-> [i \in DOMAIN bundle |-> [bundle[i] EXCEPT !.entries = Cut(@, s, e)]],
          derived |-> SpecDerived(bundle, s, e)]

\* A result of GroupTransform meets the promise: the same outcome, and the
\* cut input records followed by the derived ones in some order.
MeetsSpec(r, spec, n) ==
    /\ r.status = spec.status
    /\ r.status = "ok" =>
          /\ SubSeq(r.logs, 1, n) = spec.logs
          /\ Len(r.logs) - n = Cardinality(spec.derived)
          /\ {r.logs[i] : i \in (n + 1)..Len(r.logs)} = spec.derived

\* The client logs of a bundle: every logtype, logid and client count of
\* the small sets, with up to MaxEntries measurements at the given times.
ClientLogs(LogIds, Counts, Times, MaxEntries) ==
    [logtype : {"client"}, logid : LogIds, cc : Counts,
     entries : BoundedSeq({Measurement(t) : t \in Times}, MaxEntries)]

=============================================================================
