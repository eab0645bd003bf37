----------------------------- MODULE FolderNames -----------------------------
(***************************************************************************)
(* How a run folder is named by `benchmark.py run` (build_test_run_name)   *)
(* and how walk_folders of parse-logs.py assigns it to a benchmark, a      *)
(* scenario group and a client count (parse_folder_name of bench/refit.py, *)
(* bench/ping.py and bench/sign_bench.py).                                 *)
(*                                                                          *)
(* A name is the sequence of its "-"-separated chunks; no chunk contains   *)
(* "-".  int() is the constant function IntOf from the chunks that Python *)
(* parses as an integer to their value.                                    *)
(***************************************************************************)
EXTENDS Integers, Sequences, SequencesExt, FiniteSets, FiniteSetsExt

CONSTANT IntOf

\* datetime.now().strftime("%Y_%m_%d-%H_%M_%S"): two chunks.
Timestamp == <<"2024_01_01", "12_00_00">>

\* build_test_run_name: the timestamp, then testfile, scenario and the
\* remaining arguments joined by "-".
BuildTestRunName(testfile, scenario, args) == Timestamp \o testfile \o scenario \o args

\* name.split(marker, 1): the chunks after the first "-marker-", or the
\* empty set when there is none.
SplitAfter(name, marker) ==
    LET at == {i \in 2..(Len(name) - Len(marker)) : SubSeq(name, i, i + Len(marker) - 1) = marker}
    IN  IF at = {} THEN {} ELSE {SubSeq(name, Min(at) + Len(marker), Len(name))}

NotMine == [scenario |-> <<>>, cc |-> 0, mine |-> FALSE]

Mine(scenario, cc) == [scenario |-> scenario, cc |-> cc, mine |-> TRUE]

\* A variant that takes the first integer chunk instead of the last.
ClientIndexFirst(chunks) ==
    LET ints == {i \in DOMAIN chunks : chunks[i] \in DOMAIN IntOf}
    IN  IF ints = {} THEN -1 ELSE Min(ints)

\* The reversed loop of try int(chunks[i]): the last integer chunk, or -1.
ClientIndex(chunks) ==
    LET ints == {i \in DOMAIN chunks : chunks[i] \in DOMAIN IntOf}
    IN  IF ints = {} THEN -1 ELSE Max(ints)

\* REFITBenchmark.parse_folder_name: drop the last chunk (the duration),
\* then take the last integer chunk out as the client count.
ParseRefit(name) ==
    IF SplitAfter(name, <<"refit">>) = {} THEN NotMine
    ELSE LET chunks == Front(CHOOSE r \in SplitAfter(name, <<"refit">>) : TRUE)
             k == ClientIndex(chunks)
         IN  IF k >= 0 THEN Mine(RemoveAt(chunks, k), IntOf[chunks[k]])
             ELSE Mine(chunks, 0)

\* PingBenchmark and SignatureBenchmark.parse_folder_name:
\* name_chunks[1].rsplit("-", 2)[0], client count 0.
ParseRsplit(name, marker) ==
    IF SplitAfter(name, marker) = {} THEN NotMine
    ELSE LET r == CHOOSE r \in SplitAfter(name, marker) : TRUE
         IN  Mine(IF Len(r) >= 3 THEN SubSeq(r, 1, Len(r) - 2) ELSE <<r[1]>>, 0)

\* The module-level benchmarks list, in order.
Benchmarks == <<"refit", "ping", "signature">>

ParseFolderName(bench, name) ==
    CASE bench = "refit" -> ParseRefit(name)
      [] bench = "ping" -> ParseRsplit(name, <<"measure_server_pings">>)
      [] bench = "signature" -> ParseRsplit(name, <<"signature", "perf">>)

\* The inner loop of walk_folders: the first benchmark that recognises the
\* folder, with its answer; "none" for a skipped folder.
Claim(name) ==
    LET at == {i \in DOMAIN Benchmarks : ParseFolderName(Benchmarks[i], name).mine}
    IN  IF at = {} THEN [bench |-> "none", parsed |-> NotMine]
        ELSE [bench |-> Benchmarks[Min(at)], parsed |-> ParseFolderName(Benchmarks[Min(at)], name)]

\* groups[(bench, scenario)].append(dirname) over a set of folder names.
WalkGroups(dirnames) ==
    LET claimed == {d \in dirnames : Claim(d).bench # "none"}
        keys == {<<Claim(d).bench, Claim(d).parsed.scenario>> : d \in claimed}
    IN  [k \in keys |-> {d \in claimed : <<Claim(d).bench, Claim(d).parsed.scenario>> = k}]

-----------------------------------------------------------------------------
(* What the comment of REFITBenchmark.parse_folder_name and the benchmark  *)
(* contract of spec.md 6 say.                                               *)

\* The folders `refit.py run` creates: the arguments are the duration only,
\* and the scenario is <scenario>-<clients> or <scenario>-<clients>-<scenario2>,
\* where scenario2 holds no integer chunk.  Each with the group and client
\* count the analysis should give it.
RefitRuns(Words, Ints, Durations) ==
    {[name |-> BuildTestRunName(<<"refit">>, p \o <<c>> \o q, <<d>>),
      group |-> <<"refit", p \o q>>, cc |-> IntOf[c]] :
        p \in BoundedSeq(Words \cup Ints, 2) \ {<<>>}, c \in Ints,
        q \in BoundedSeq(Words, 1), d \in Durations}

\* The folders `measure_server_pings.py run` creates.
PingRuns(Words, Durations) ==
    {BuildTestRunName(<<"measure_server_pings">>, s, <<d>>) :
        s \in BoundedSeq(Words, 2) \ {<<>>}, d \in Durations}

=============================================================================
