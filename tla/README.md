# TLA+ models of the IDEM benchmark analysis pipeline

This directory holds TLA+ models of `src/scripts`, checked with TLC. The
models cover the log analysis pipeline of `src/scripts/analysis` (the core
that `spec.md` describes), the experiment queue of `src/scripts/queue`,
the PBFT latency simulator `analysis/latency_sim.py`, and the control of
one benchmark run in `test/benchmark.py` with the `exp result` poller.

## The system

`parse-logs.py` walks a results folder. Each run folder belongs to a
scenario group `(benchmark, scenario)`. The parts that matter for
correctness, and how they interact:

| Part | Source | What it does |
|---|---|---|
| Log parsers | `analysis/parser/*.py` | Turn one file into a `LogData`: a start marker, then warnings and measurements in file order. If the start line never appears, the log has no entries. |
| Log record model | `analysis/common/log.py` | `LogData` holds entries (dicts with `timestamp` plus `warning`, `throughput`, ...). `derive()` gives the fresh output record of a filter. |
| Statistics | `analysis/common/statistics.py` | `median`, `percentile`, `average`, `stddev`. |
| Group placement search | `analysis/calc_groups.py` | Enumerates replica combinations and searches, depth first, every most valuable placement of agreement groups within the replicas' limits. |
| Auto-range detector | `parse-logs.py` `auto_range`, `find_start`, `merge_time_range` | Infers a run's window `[start, end)` from its reference logs (`bench.is_auto_range_log`). |
| Rule classifier | `analysis/transformer/base.py` `Rule`, `PatternChecker` | First-match-wins rules with budgets and startup/shutdown exemptions. |
| Per-log filters | `transformer/client.py`, `transformer/server.py`, `Filter.transform` | Drop absorbed warnings. Raise `FatalLogIssue` on a missing start, a bad sample count or a missing must-have line. |
| Cross-log aggregators | `transformer/client_*`, `signature_average.py`, `AverageTransformer` | Group logs and compute statistics over the group window. |
| Run coordinator | `parse-logs.py` `walk_folders*`, `parse_logs` | Drives all of the above on a `ProcessPoolExecutor`: parse tasks per file, one `range_and_transform` task per run, joins per group, group transformers, and the cross-group window. |
| Experiment queue | `queue/queue_runner.py`, `queue/upload.py` | Runs uploaded archives command by command, with priority preemption and a progress marker. |
| Latency simulator | `analysis/latency_sim.py` | Discrete-event simulation of PBFT's normal case over measured pings. |
| Benchmark runner | `test/benchmark.py` | Stage machine per test run (build, distribute, bench, store, check). |
| Signature stage | `parser/signature.py`, `signature_average.py`, `apply_base_time.py`, `range_and_transform` | Parses the perf logs of sign_bench and summarises sign and verify durations per host. |

Data flow for one run: parse tasks (in parallel) → `auto_range` →
`merge_time_range` → `ApplyBaseTime` → the benchmark's filters (client and
server filters, using `PatternChecker`) → `PrintWarnings`. For one group,
after every run has finished, the run windows are intersected and the group
transformers (the aggregators) run over that intersection.

## Modules

| Module | Models | State and actions |
|---|---|---|
| `PatternChecker` | `Rule`, `PatternChecker` (base.py 99-136) | `ignored` is the counter map `self.ignored`, and `verdicts` is the call history. `Match(ts, line)` is one `matches()` call. `MatchResult` is the whole method as an operator, so the filters reuse it. `UnmatchedRules` is `unmatched_rules()`. |
| `RuleBudget` | the promise of spec.md 4.2 | An abstract classifier without counters. The answer to a call is computed from the history: the owning rule is the first match, exempt matches are absorbed, and otherwise the line is absorbed iff fewer than `count` earlier non-exempt matches are owned by the same rule. The constant operator `AfterWindow` fixes the shutdown boundary. |
| `MCPatternChecker` | — | Layered rules shaped like refit.py's `client_ignores`. It instantiates `RuleBudget` twice: with the code's boundary (`ts > end`) and with the spec's window (`ts >= end`). |
| `LogFilter` | `Filter.transform`, `ClientLogFilter.filter`, `ServerLogFilter.filter` | The loop is a step per entry: `FilterWarning` and `FilterData`. `FinishFilter` is the post-loop checks in code order. `Done` is the stutter after the filter returns or raises. The variables mirror the locals (`out`, `has_start`, `data_points`, both checkers' counters). The checkers come from `PatternChecker` by `INSTANCE`. The log type is chosen in `Init`, which is how `can_handle` picks the filter. |
| `MCLogFilter` | — | Client rules (a budgeted retry rule above a catch-all), server ignore rules, and a must-have list. |
| `Statistics` | `median`, `percentile` | `Median2` is twice the median, so an even-sized median stays an integer. `RefMedian2` is a counting reference that does not sort. `Percentile(xs, num, den)` is `percentile` at `num/den`, with the index `ceil(n * pct) - 1` computed exactly by `CeilDiv` and Python's negative index for an empty-window `-1`. For the percentages the code uses (0.25 to 0.99) and every n up to 2000, the float ceiling equals the exact one. |
| `CalcGroups` | `calc_groups.py`: `get_permutations_helper`, `gen_permutations`, `check_constellation`, `group_value`, `groups_value`, `solve_rec`, `solve` | Pure operators. `GetPermutationsHelper` is the recursion with its `for` loop as a local recursive `Loop`. `SolveRec` returns, besides its success, the constellations it and its callees reach in the order they reach the end of the function (`visits`); `Solve` then folds `KeepBest` (the end of `solve_rec`, which reads and resets the shared `results` list) over them. This is the code's evaluation order, because `results` is touched only there. `GroupValue` scales the float `1/(1+0.15 nc)` to exact integers. `Optimal` is the reference by enumeration. |
| `SignatureStage` | `SignatureBenchLogParser`, `SignatureAveragesTransformer`, `ApplyBaseTimeFilter`, `range_and_transform` for sign_bench | Pure operators over abstract perf-log lines (tag and duration). `SignatureParse` is `_parse_file`, `SignatureAverage` is `_average` with its `KeyError`, `median()` and `data[0]` crashes. `SignatureRun` composes the parser, `AutoRange` (by `INSTANCE`), the base time and the transformer. `SpecSignatureRun` is the reference over line times. |
| `AutoRange` | `auto_range`, `find_start`, `merge_time_range`, and the range part of `range_and_transform` | `AutoRangeOf` is a `FoldLeft` of `AutoRangeStep` (one loop iteration) over the run's logs. `inf` is `Infinity`, and `find_start`'s `None` is `NoStart`. `RangeRun` computes the run's window or its `LogError`. `SpecWindow` is the order-free definition of spec.md 4.5. |
| `RunCoordinator` | `walk_folders`, `walk_folders_of_group`, `parse_logs`, and the executor | The main process is a pc with three actions (`SubmitParse`, `CollectParse`, `CollectRange`), then `Aggregate` and `Abort` (the `with` block waiting for pending tasks). The pool is `StartTask` (FIFO, at most `Workers` running) and `CompleteTask` (a task returns or raises). Task results are futures: `Pending`, `Raised` or `Returned(window)`. |
| `MCRunCoordinator` | — | Two groups (two runs and one run), two files per run, two workers. The windows (`MCWindows`, in half seconds) overlap only partly. It also composes the pure group-stage modules below, `CalcGroups` and `SignatureStage` with the coordinator: the grouping of `walk_folders` is checked when the parse tasks are submitted, and the group transformers over every small bundle and every group window the coordinator can reach are checked at `Aggregate`. Each comparison is a constant function of the window that TLC evaluates once. |
| `GroupStage` | `AverageTransformer.transform`, `ClientLogAveragesTransformer`, `CutLogFilter`, `statistics.py`, `LogData.derive`, the group-transformer loop of `walk_folders_of_group` | Pure operators. `Collect` is one iteration of the `for log in logs` loop, with its duplicate `(logid, client_count)` check. `Keys` is `sorted(subset.keys())`. `Derived` and `AverageTransform` build the appended records from `avgOf`, which maps each log of the type to what the subclass's `_average` returns for it. `FoldLeftSeq` is `FoldLeft` written as a recursive function: TLC evaluates a constant built from it once, but re-evaluates one built from `FoldLeft` in every state. `LogAverage` is `_average`. `AverageDefined`, `MedianDefined` and `StddevDefined` say when a statistic returns instead of raising. `GroupTransform` is the loop up to `CutLogFilter`. `SpecGroupTransform` is the reference from spec.md 4.4 and 5, written without loops. |
| `RawStage` | `ClientRawLatenciesTransformer`, `ClientRawThroughputTransformer`, `ClientRawAvgThroughputTransformer` | Pure operators. Times are half seconds, so `Sec` (`int()`) is not the identity. `LatenciesStep` and `ThroughputStep` are one iteration of the `_average` loops: the first request of every client is skipped. `RawChain` is the three transformers in the order `setup_group_transformers` lists them. |
| `FolderNames` | `build_test_run_name` (benchmark.py), `parse_folder_name` of refit.py, ping.py and sign_bench.py, the benchmark loop of `walk_folders` | A folder name is the sequence of its `-`-separated chunks, and `int()` is the constant map `IntOf`. `ClientIndex` is the reversed `try int()` loop. `Claim` is the first benchmark that recognises a folder. `WalkGroups` is the `groups` dict. `RefitRuns` lists the folders `refit.py run` creates, with the group and client count spec.md 6 gives them. |
| `Aggregators` | `ClientRawAveragesTransformer.transform` and `_average` | `bundle` is the group's log list in bundle order. `Transform` is one call of `transform()`, and `out` is its result: the fatal duplicate, or per client count and tag the count and latency sum of the window. `AverageStep` is one iteration of `_average`'s loop, folded over the merged entries of a client count with `FoldLeft`. |
| `MCAggregators` | — | Client ids as `YCSBRawLogParser` emits them (`-1` for every entry). |
| `QueueRunner` | `queue_runner.py` (`main_loop`, `execute`, `run_experiments`, `find_oldest_file*`) and `upload.py` `queue()` | The queue directories are functions from slots `<<dir, name>>` to the upload that wrote each file (`archive`, `whole`, `commands`, `marker`). Each upload is `TarStart`, `TarEnd`, `Copy` and `Touch`: the `&&`-chained shell commands. The runner is a pc (`rpc`) with one action per step: `Poll`/`Idle` (`wait_for_file`), `Unpack`, `Load`, `NextCommand` (loop head and preemption check), `RunCommand`, `SaveProgress`, `Cleanup` and the three unlinks. `Crash` restarts the runner at `main_loop` with only the files kept. `executed` is a history of the commands started, with the unpacked archive they ran against. |
| `MCQueueRunner` | — | A priority and a normal directory. Name `b` sorts before `a`. There are two target lists. `MCMixed` has three uploads to distinct entries plus a re-queue of the first. `MCRequeue` has just a re-queue under the same name. |
| `LatencySim` | `latency_sim.py`: `Replica.handle`, `Client.handle`, `message_loop`, `insert_message`, `run` | `heap` is the message heap as a set of `[t, m]` entries, and `Top` is the set of entries `heappop` may return: the least `(time, msgtype)`, with the string order of `Message.__lt__` as `TypeRank`. `ping` is a symmetric table over node ids, chosen in `Init`. `Deliver` is one loop iteration, and dispatches to `PassiveDrop`, `LeaderRequest`, `ReplicaHandle` (record the message, then the step chain PREPREPARE → PREPARE → COMMIT → REPLY with its broadcasts, or `InvalidMessage`) and `ClientHandle`. `finish` lists the values assigned to `time_to_finish`. `replyTimes` is a history of reply arrivals. |
| `MCLatencySim` | — | Four replicas with the code's quorums (3, 3, 2). Client id `-1`. `PASSIVE_REPLICA` is `None` or any non-leader. |
| `BenchmarkRun` | `benchmark.py`: `execute` (`run` command), `run`, `TestRun.run`, `run_stage`, `wait_procs`, `GenericTestRun.stage_distr` and `stage_store`, `poll_results` | Three processes. The outer process (`opc`) is `OuterPrepare` (empty `EXIT_CODE`), `TmuxStart`/`TmuxBusy` and `OuterRead` (`int(exit_val[0])` or 1). The inner process (`ipc`) runs `RunBegin`, `RunSetup` and one action per stage of `TestRun.run`. Only the outcome of a stage is kept, except for `Distr`, which sets `has_distributed`, and the store: `StorePrep` writes `.rsync-filter`, `StoreCollect` is one iteration of the two-try rsync loop, with `WaitProcs` as a `FoldLeft` of `WaitStep` over the servers, `StoreRunner` copies `tmp/`, and `StoreEnd` is the `finally` unlink. `Raise` is an exception at any step, with `execute` appending the traceback. The poller is `Poll` (rsync `-F`, which skips a directory holding `.rsync-filter`) and `PollFail`. `EXIT_CODE` is its list of lines. |
| `Flatten` | `flatten_directory`, `ensure_safe_flatten`, `try_rmdir` (benchmark.py 37-79) | Pure operators over a directory: a function from names to files or subdirectories. `Collisions` is `ensure_safe_flatten`, a `FoldLeft` of `CollisionStep` over the walk groups. `FlattenDirectory` folds `FlattenSubdir` (moves with `MoveChild`, which is `os.rename`, then `TryRmdir`) over the order `os.walk` lists the subdirectories in. `SpecFlatten` is the reference: the same result without any order. |
| `MCBenchmarkRun` | — | Two servers, waited for in a fixed order. Directory entries are named from `{a, b, c}`. |

Each module also contains, before the definition it mutates, a variant that
differs by one plausible bug: `MatchResultExemptConsumes`,
`FilterDataStartInclusive`, `FindStartAtLeast`, `CollectParseNoSubmit`,
`CollectRangeUnion`, `ReadyArchiveOnly`, `LoadFromStart`,
`NextCommandPreemptCompletes`, `SaveProgressAhead`,
`PrepareBroadcastLeaderToo`, `CompletesAtLeast`,
`PrepareSendersNoPrePrepare`, `DistrIgnoresFailure`, `WaitStepLastWins`,
`RaiseKeepsFilter`, `CollisionsSubdirsOnly`, `KeysInBundleOrder`,
`ClientIndexFirst`, `LatenciesStepEndInclusive`,
`ClientRawAvgThroughputFirstOnly`, `GetPermutationsHelperFromStart`,
`KeepBestNoReset` and `PercentileFloor`. Each variant is used
to confirm that the property it is listed against in `PROJECT.json` can
fail.

## Runs

| Run | Cfg | Expect | What it shows |
|---|---|---|---|
| pattern_budget | `MCPatternChecker.cfg` | pass | `BudgetRefinement`: every `matches()` answer over up to 4 calls (times before, inside, at the end of and after the window; lines owned by three rules, one with budget inf) equals the history-based answer. So the counter keyed by `rule.pattern`, incremented after the exemption test, implements the budget semantics. |
| pattern_window_end | `MCPatternCheckerWindowEnd.cfg` | violation | `WindowEndExempt`: a line at exactly `end_time` under a shutdown-exempt rule consumes its budget. spec.md 4.2 exempts `timestamp >= end`, but the code tests `>` (base.py:121). |
| filter_logs | `MCLogFilter.cfg` | pass | `FilterVerdict`: for every client or server log the parsers can produce (start marker at any time, then up to 3 warnings or measurements at 6 timestamps), the per-entry bookkeeping raises exactly the fatal issue spec.md 4.3 prescribes for the whole log, or passes it. |
| autorange_client_ref | `MCAutoRange.cfg` | pass | `WindowAsSpecified`: with client logs as reference logs (REFIT), the fold over the logs gives the window of spec.md 4.5 in both merge modes. This covers empty logs, logs without a start, ties at 90% of the median and windows under 10 s. |
| autorange_server_ref | `MCAutoRangeServerRef.cfg` | violation | `WindowAsSpecified` with server reference logs (channel-micro): `base + 5` is taken of the running base, so the start depends on the order of the logs (parse-logs.py:213). |
| coordinator | `MCRunCoordinator.cfg` | pass | `BatchEnds`: under every failure pattern and pool schedule, the program terminates. `GroupBarrier`: a group is aggregated only after all its runs reported, and over exactly the intersection of their windows. `GroupStageAsSpecified`: for every bundle of up to two client logs (two logids, two client counts, up to two measurements at times one tick on each side of both window ends) and the window the group reached, the group stage raises `FatalLogIssue` for a duplicate configuration, raises when a statistic is undefined, and otherwise returns the cut input followed by one summary per logid, ordered by client count (spec.md 4.4, 5). `FolderGroupsChecked`: every folder `refit.py run` creates lands in the group of its scenario with its client count, also when the scenario holds integers (spec.md 6). `RawRecordsConsistent`: for a single latency log, the per-second counts of client-raw-latencies and client-raw-throughput agree with each other and with the latencies kept. `AvgThroughputMergesLogs`: client-raw-avg-throughput counts, per second, the replies of all latency logs of the group. `PermutationsAsSpecified`: `gen_permutations(k, n)` lists every ascending k-subset exactly once, for k ≤ 4, n ≤ 5. These last three are constants that TLC evaluates once, stated for the states where the batch starts or the range tasks are collected. `SolveFindsAllOptima`: on 918 small instances (432 over three or four replicas, 486 of main's 4-of-5 groups with limits 0, 2 or 3), `solve()` returns every most valuable constellation once and nothing else, despite the early breaks and the in-place reset of the shared list. `SignatureStageAsSpecified`: for every sign_bench run of one host (up to 4 lines of any kind) or two hosts (up to 3 measurements each), the stage parses, ranges and summarises as the reference says: a parse error for a short line, a log error for a window under 10 s, a crash for a warning, a missing operation or no measurement in the window, and otherwise per host the first in-window time and the median and nearest-rank quartiles of each operation. |
| coordinator_isolation | `MCRunCoordinatorIsolation.cfg` | violation | `GroupIsolation`: one failing parse task of the first group ends the program before the second group is processed. spec.md 7 says other groups are unaffected (parse-logs.py:100). |
| aggregators_ycsb | `MCAggregatorsYcsb.cfg` | violation | `OrderIndependent`: YCSB logs give every entry client `-1`, so `_average` skips one first entry for all logs of a client count together: that of the log that comes first in the bundle. Counts and averages then depend on the order of the logs, but spec.md 5 forbids that (client_raw_averages.py:58). |
| queue | `MCQueueRunner.cfg` | pass | Three uploads to distinct entries (one preempting another, one in the priority queue) and a re-queue of the first entry, with a runner crash at any step. The first three properties are about the uploads that own their entry (`Sole`), whatever the re-queue does around them. `ConsistentSole`: every command runs against the completely written archive of its own upload. `CompleteExecution`: no such entry is deleted before all its commands ran. `EveryUploadRuns`: every such queued upload eventually has all its commands run. `NoRerunWithoutCrash`, for all uploads: a command runs twice only across a runner restart. This run also reaches the unpack of a half-written archive (both `ReadError` and a partial unpack). |
| latency_sim | `MCLatencySim.cfg` | pass | For every ping table with round-trip times {2, 4, 6} between replicas, and every choice of passive replica: `NoInvalidMessage` shows that no replica gets a message its if/elif chain rejects: the chain tests only type and sender, so this checks that only the leader receives the request and sends PREPREPARE, and that it sends no PREPARE (latency_sim.py:130). `FinishAtQuorum` shows that the printed agreement time is the arrival of the second reply and is set once. `ClientFinishes` shows that the client always finishes. |
| benchmark | `MCBenchmarkRun.cfg` | pass | Every outcome of every stage, every rsync result of both store tries, an exception at any step, and a poller that may fail up to its retry limit. `ExitCodeFaithful`: the outer process returns 0 exactly when the inner one ended normally after BUILD, DISTR and BENCH passed, whatever `EXIT_CODE` held when it raised. `StoreComplete`: when `stage_store` returns True, the runner data was copied, and if the run distributed, so was every server's data. `ResultsPublished`: after the outer process returns, the poller ends up with the final results or has died of rsync errors, so `.rsync-filter` never stays behind. `FlattenAsSpecified` (stated for every state in which `stage_store` has returned True; the comparison itself is a constant that TLC evaluates once): for every directory over three names and every walk order, `flatten_directory` refuses a collision and leaves the directory alone, or lifts every entry without `os.rename` replacing one. |
| queue_requeue | `MCQueueRunnerRequeue.cfg` | violation | `ConsistentExecution` (for all uploads): re-queuing under a name whose marker still exists makes the entry ready while `tar` rewrites it. The runner then unpacks the old or half-written archive and runs the new command list (upload.py:54), although the header of queue_runner.py says the marker ensures atomicity of queueing. |

`PROJECT.json` records the findings, the source lines each definition
translates (`map`), and the hazards: what is hard to test in this code, and
which property covers each hazard.

## Bounds, and why they suffice

- **Classifier.** 4 calls, 4 timestamps (one on each side of the window and
  one on each boundary), and 4 lines: one owned by a budgeted rule, one
  shadowing two rules, one unbounded, and one unmatched. Every rule can
  exhaust its budget (count 0 and 1), and every exemption branch is reached.
- **Filters.** Window [2, 5) in half-second ticks, so `ceil` rounds:
  expected count is 2. Up to 3 entries after the start marker lets a log be
  short, exact or long by more than one. Timestamps 0..5 put markers and
  samples before, at and after both boundaries.
- **Auto-range.** Runs of 1-2 logs with up to 2 entries. Timestamps
  {0, 3, 15, 30} give windows both shorter and longer than 10 s.
  Throughputs {0, 1, 2} make `v > 0.9 * median` true, false and, at median
  0, an equality.
- **Coordinator.** 2 groups, so isolation between groups is visible. Two
  runs in a group, so the intersection is not just one window. Two files per
  run and two workers, so tasks overlap and finish in any order. The three
  windows give group windows whose ends fall on whole and on half seconds.
  The group-stage bundles are checked at entry times one tick on each side
  of both window ends (`EdgeTimes`). A client log has up to two entries,
  so it can have zero, one or two samples in the window: these are the
  cases where the statistics raise. A single latency log has up to three
  entries of two clients, so skipping the first request of each client
  leaves replies to count. Pairs of latency logs have up to two entries
  each. Folder names use two words and the integers `5`, `05`
  and `50`, so a scenario can contain an integer chunk and two spellings
  can name one count.
- **Aggregators.** Up to 2 logs of 2 entries with timestamps on both sides
  of the window start: enough for two logs of one client count to compete
  for the single skipped first entry.
- **Queue.** 2 directories × 2 names, 2 commands per list (so preemption
  and crashes can fall between commands), 4 uploads of which two share an
  entry, 1 runner crash. The
  crash can hit any runner step, and each of the runner's steps is an
  interleaving point with the uploads' three steps.
- **Latency simulator.** The code fixes 4 replicas and the quorums. The
  six replica-to-replica links each take a round-trip time from {2, 4, 6}
  (729 tables). Sums of these delays both tie and differ along the
  PREPREPARE, PREPARE and COMMIT paths, so every message type can arrive
  before, with or after another. The client's four links share one time
  (`ClientPings = {2}`). That only shifts the request and the replies, and
  varying them multiplies the state space by 16.
- **Benchmark run.** Two servers, so `wait_procs` can fail at the first
  and leave the second unwaited, or fail only at the last. Both store tries
  and every rsync result of each are explored. `PollRetries = 3` as in
  the code, so the poller can fail up to four times in a row and die.
  Flattening is checked for every directory over three names (1000
  directories): enough for a file at the top and in a subdirectory, for
  two subdirectories holding the same name, and for a subdirectory holding
  its own name.
- **Group placement search.** Every limit vector over 0..2 for three or
  four replicas with groups of two or three, and every vector over
  {0, 2, 3} for main's groups of four of five replicas; one or two groups.
  Limits 0 exclude a replica, and limits of 2 and 3 allow weights above 1,
  so the weight loop both breaks on a limit and continues, and optima tie.
  main's own limits (5 and 10) nest the search deeper than TLC's evaluator
  stack allows, so that instance is not evaluated. gen_permutations is
  checked for every k ≤ 4 and n ≤ 5, including k > n.
- **Signature stage.** Durations of 6 and 36 seconds, so runs fall both
  under and over the 10 s window, and a host can have no measurement in
  the window. One host gets up to four lines of any kind (measurements,
  an unknown line, a short line); two hosts get up to three measurements
  each. Empty host logs are left out of the two-host runs: an empty log
  walked first hits the running-base defect that `autorange_server_ref`
  already shows.

## Fairness

`LogFilter` and `AutoRange` are sequential functions, and weak fairness
only makes them finish. In `RunCoordinator`, weak fairness is assumed for:

- the main process;
- a free worker taking a queued task (`ProcessPoolExecutor` workers poll
  the call queue);
- each running task finishing (a parse or range task reads a finite folder
  and never waits on another task).

In `QueueRunner`, weak fairness is assumed for the runner, which runs in an
endless loop, and for the `tar`/`cp`/`touch` steps of an upload that has
started (one ssh command line). Neither the start of an upload nor a crash
is fair: users upload when they like, and `EveryUploadRuns` must hold with
or without crashes. In `LatencySim`, weak fairness on `Deliver` is the
`while len(messages) > 0` loop of `message_loop`, which runs until the
heap is empty. In `BenchmarkRun`, weak fairness is assumed for the outer
process, the inner process (`run()` is sequential and every stage
returns), and a successful poll (the poller loops forever, sleeping 60 s).
A poll failure, an exception and a busy tmux server are not fair: they may
happen or not. `Oldest` breaks ties between equal prefixes with
`CHOOSE`, which stands for `os.listdir` returning a fixed order for an
unchanged directory. A nondeterministic tie-break would let the runner
alternate between two entries forever, which the real directory listing
does not do.

`MCPatternChecker.cfg` sets `CHECK_DEADLOCK FALSE`, because after `MaxCalls`
calls the caller simply stops calling `matches()`. The other models end in an
explicit stuttering step (`Done`, `Terminated`) for a program that has
returned.

## Not modelled, and why

- **Latency simulator: passive leader, measured pings, LaTeX.** With
  `PASSIVE_REPLICA = LEADER_ID`, no PREPREPARE is sent and the run prints
  `Agreement in None ms`. Nothing in the repository sets it that way, so
  this is a hazard in PROJECT.json and not a run. The concrete ping
  measurements are replaced by all tables over small times. The
  `GENERATE_LATEX` output and `leader_passive_permutation`, which `run()`
  does not use, are presentation only.
- **Type invariants.** They are not in the cfgs, because no plausible change
  of the code could break them in these models. The properties above are
  the ones the runs spend their time on.
- **Parsers' text handling, output writers, pickle/JSON encoding.** These
  are string processing and I/O with no control state. The filters consume
  the parsers' output shape. `parse_folder_name` is modelled over chunks
  (`FolderNames`), but only the REFIT naming convention is checked against
  a reference. The ping and signature conventions have no stated contract.
- **Group stage, beyond client logs and single raw logs.**
  The server-channel transformers are not modelled (`SignatureStage`
  models the signature transformer). `ClientRawAveragesTransformer` has its own module
  (`Aggregators`) and is not composed into `RawChain`. Three divergences in
  the raw transformers have no run left to show them, so PROJECT.json lists
  them as hazards: `int()` truncation of the window, the first bucket lost
  to the later cut, and the single skipped first request over the merged
  streams of client-raw-avg-throughput.
- **Explicit windows (`relative_time_range`).** `MergeTimeRange` models
  them, but the runs pass `None`. With an explicit window the code still
  requires a warm-up start, and it checks the window against the auto start.
  spec.md 4.5 says an explicit window overrides the start detection. This
  is a divergence left for a later run.
- **`setup-network.py`, `collect-log.py`, `group-results.py`.** These are
  one-shot file-system or network configuration scripts. Of
  `calc_groups.py`, `main()`'s printing and its own instance are left out
  (see the bounds).
- **Signature quartiles over the window.** `SignatureAveragesTransformer`
  takes the median and quartiles of all durations of the log, not only of
  those in the window, while spec.md 2 and 4.4 speak of summaries over the
  window. The reference follows the code, so `SignatureStageAsSpecified`
  checks the code's choice; every run slot is used, so no violation run
  shows the difference.

- **Benchmark run: stage internals and concurrency outside one run.** What
  BUILD, BENCH and CHECK do is reduced to their outcome. A hard kill of the
  inner process, which skips the `finally` and leaves `.rsync-filter`
  behind, is not modelled: the model's exceptions are those Python can
  handle. Two invocations started at once, and the poller reading the
  directory while an rsync of the store is mid-transfer, are hazards in
  PROJECT.json without a run.
- **Overlapping must-have rules.** `ServerLogFilter` counts a line that
  matches two must-have rules only for the first. The only must-have list
  in the repository (refit.py:206) is empty, so this is a hazard and not a
  run.
- **Queue details.** The `ret != 0` branch, where Ctrl-C during the sleep
  marks an entry completed, is a user action. The transport of `upload.py`
  (ssh, rsync) is outside the queue host. The header of the derived record
  of `ClientRawAverages` (its `client_count`) is not part of the
  aggregator's result; PROJECT.json lists it as a hazard.

## Plan for the remaining parts

1. The server-channel transformers in `GroupStage`, with the percentiles
   `Statistics` now models.
2. Composing `ClientRawAverages` into `RawChain` over several latency logs,
   which needs the run slot of a violation run to show the merged-stream
   divergences.
