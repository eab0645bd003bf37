---------------------------- MODULE MCQueueRunner ----------------------------
EXTENDS QueueRunner

\* Two names: "b" has the smaller numeric prefix (e.g. 0-x.tgz against
\* 1-y.tgz), so an upload to it preempts a run of "a" in the same directory.
MCDirs == <<"prio", "normal">>
MCPrefix == [n \in {"a", "b"} |-> IF n = "a" THEN 1 ELSE 0]

\* Two uploads of the same experiment name to the normal queue.
MCRequeue == << <<"normal", "a">>, <<"normal", "a">> >>

\* Three uploads to distinct entries (the normal queue, the priority queue,
\* and the normal entry that sorts first) and a re-queue of the first entry
\* behind them: the priority upload of "a" preempts the run of the normal
\* one, and the re-queue lands while that run is pending or in progress.
MCMixed == << <<"normal", "a">>, <<"prio", "a">>, <<"normal", "b">>, <<"normal", "a">> >>
=============================================================================
