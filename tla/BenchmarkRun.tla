---------------------------- MODULE BenchmarkRun ----------------------------
(***************************************************************************)
(* One `benchmark.py run` (scripts/test/benchmark.py) and the `exp result` *)
(* poller that copies the results directory meanwhile.                     *)
(*                                                                          *)
(*  - The outer process (execute, not --tmuxed) empties EXIT_CODE, starts  *)
(*    tmux with the inner process and blocks until the session ends, then  *)
(*    reads EXIT_CODE.                                                     *)
(*  - The inner process (--tmuxed) runs run(): the header lines of         *)
(*    EXIT_CODE, the results directory and test.log, TestRun.run's stages  *)
(*    PARAM BUILD [DISTR BENCH] STORE [CHECK], the `latest` symlink and    *)
(*    the exit code; any exception appends its traceback to EXIT_CODE.     *)
(*  - poll_results rsyncs with -F, so a results directory that holds       *)
(*    .rsync-filter ("- *") is skipped.                                    *)
(*                                                                          *)
(* What a stage does besides STORE is abstracted to its outcome.  EXIT_CODE *)
(* is the list of its lines (content.split("\n")): "" an empty line, "0"   *)
(* and "1" exit codes, "out" the path of test.log, "tb" a traceback.  The  *)
(* results directory is the set of what it holds: "log" (test.log), the    *)
(* data collected from each server, and "runner" (the copy of tmp/).       *)
(***************************************************************************)
EXTENDS Integers, Sequences, SequencesExt, FiniteSets

CONSTANTS
    ServerOrder,  \* get_unique_real_servers() in the order wait_procs waits
    PollRetries   \* poll_results raises when error_count exceeds it (3)

VARIABLES
    opc,        \* outer process: "init", "tmux", "attached", "read", "returned"
    ret,        \* the outer process's return value
    ipc,        \* inner process: "off" (not started) ... "ended"
    exitFile,   \* EXIT_CODE as its list of lines
    passed,     \* the stages whose run_stage returned True
    hasDist,    \* GenericTestRun.has_distributed
    attempt,    \* the retry loop index i of stage_store
    stored,     \* the value stage_store returned, or "none"
    filter,     \* results_dir/.rsync-filter exists
    results,    \* what the run's results directory holds
    copied,     \* the poller's copy of the run's results directory
    pollErrors, \* error_count of poll_results
    pollDead,   \* poll_results has raised
    raised      \* an exception escaped run()

vars == <<opc, ret, ipc, exitFile, passed, hasDist, attempt, stored, filter,
          results, copied, pollErrors, pollDead, raised>>

innerVars == <<ipc, exitFile, passed, hasDist, attempt, stored, filter, results, raised>>

-----------------------------------------------------------------------------

Servers == Range(ServerOrder)

\* content.split("\n") after content + "\n\n" + traceback.
AppendTraceback(lines) == lines \o <<"", "tb">>

\* int() of an exit code line, and str() of an exit code.
CodeOf == [c \in {"0", "1"} |-> IF c = "0" THEN 0 ELSE 1]
CodeLine(code) == IF code = 0 THEN "0" ELSE "1"

\* exit_val = exit_data.split("\n", 2); int(exit_val[0]) if it is not
\* empty, else the error log and messages are printed and 1 is returned.
ExitValue(lines) == IF lines[1] # "" THEN CodeOf[lines[1]] ELSE 1

\* A variant of one wait that keeps waiting after a failure, so that only
\* the last process decides the result.
WaitStepLastWins(rets, acc, s) ==
    IF rets[s] = "ok" THEN [acc EXCEPT !.done = @ \cup {s}, !.error = FALSE]
    ELSE [acc EXCEPT !.error = TRUE]

\* wait_procs(procs): wait for each process in order; on the first non-zero
\* exit stop waiting and kill all.  done is the processes that were waited
\* for and exited 0.
WaitStep(rets, acc, s) ==
    IF acc.stop THEN acc
    ELSE IF rets[s] = "ok" THEN [acc EXCEPT !.done = @ \cup {s}]
    ELSE [acc EXCEPT !.error = TRUE, !.stop = TRUE]

WaitProcs(order, rets) ==
    FoldLeft(LAMBDA acc, s : WaitStep(rets, acc, s),
             [error |-> FALSE, stop |-> FALSE, done |-> {}], order)

\* The steps at which an exception can escape run(), and those of them
\* that lie inside the try/finally around run_stage("STORE").
RaisingSteps == {"setup", "param", "build", "distr", "bench", "store", "runner", "check", "link"}
StoreSteps == {"store", "runner"}

-----------------------------------------------------------------------------

Init ==
    /\ opc = "init"
    /\ ret = -1
    /\ ipc = "off"
    /\ exitFile = <<"">>
    /\ passed = {}
    /\ hasDist = FALSE
    /\ attempt = 0
    /\ stored = "none"
    /\ filter = FALSE
    /\ results = {}
    /\ copied = {}
    /\ pollErrors = 0
    /\ pollDead = FALSE
    /\ raised = FALSE

\* execute(): unlink EXIT_CODE, makedirs, write "".
OuterPrepare ==
    /\ opc = "init"
    /\ opc' = "tmux"
    /\ exitFile' = <<"">>
    /\ UNCHANGED <<ret, ipc, passed, hasDist, attempt, stored, filter, results, copied,
                   pollErrors, pollDead, raised>>

\* tmux new-session runs the inner process and blocks until it ends.
TmuxStart ==
    /\ opc = "tmux"
    /\ opc' = "attached"
    /\ ipc' = "start"
    /\ UNCHANGED <<ret, exitFile, passed, hasDist, attempt, stored, filter, results, copied,
                   pollErrors, pollDead, raised>>

\* tmux exits non-zero at once: a session "bench" is still there.
TmuxBusy ==
    /\ opc = "tmux"
    /\ opc' = "read"
    /\ UNCHANGED <<ret, innerVars, copied, pollErrors, pollDead>>

\* The outer process reads EXIT_CODE once tmux has returned.
OuterRead ==
    /\ \/ opc = "read"
       \/ opc = "attached" /\ ipc = "ended"
    /\ opc' = "returned"
    /\ ret' = ExitValue(exitFile)
    /\ UNCHANGED <<innerVars, copied, pollErrors, pollDead>>

\* run(): EXIT_CODE gets "\n\n" before anything else.
RunBegin ==
    /\ ipc = "start"
    /\ ipc' = "setup"
    /\ exitFile' = <<"", "", "">>
    /\ UNCHANGED <<opc, ret, passed, hasDist, attempt, stored, filter, results, copied,
                   pollErrors, pollDead, raised>>

\* run(): makedirs(results_dir), test.log through tee, then EXIT_CODE
\* gets "\n" + output_fn + "\n".
RunSetup ==
    /\ ipc = "setup"
    /\ ipc' = "param"
    /\ results' = results \cup {"log"}
    /\ exitFile' = <<"", "out", "">>
    /\ UNCHANGED <<opc, ret, passed, hasDist, attempt, stored, filter, copied,
                   pollErrors, pollDead, raised>>

\* run_stage("PARAM"); on success tmp/ is emptied and the configs loaded.
\* A failed PARAM returns False at once, without STORE.
Param ==
    /\ ipc = "param"
    /\ \/ ipc' = "build" /\ passed' = passed \cup {"PARAM"}
       \/ ipc' = "link" /\ UNCHANGED passed
    /\ UNCHANGED <<opc, ret, exitFile, hasDist, attempt, stored, filter, results, copied,
                   pollErrors, pollDead, raised>>

\* run_stage("BUILD"); a failed build goes straight to STORE.
Build ==
    /\ ipc = "build"
    /\ \/ ipc' = "distr" /\ passed' = passed \cup {"BUILD"}
       \/ ipc' = "storeprep" /\ UNCHANGED passed
    /\ UNCHANGED <<opc, ret, exitFile, hasDist, attempt, stored, filter, results, copied,
                   pollErrors, pollDead, raised>>

\* A variant that runs BENCH whatever DISTR returned.
DistrIgnoresFailure ==
    /\ ipc = "distr"
    /\ ipc' = "bench"
    /\ \/ UNCHANGED <<passed, hasDist>>
       \/ hasDist' = TRUE /\ UNCHANGED passed
       \/ hasDist' = TRUE /\ passed' = passed \cup {"DISTR"}
    /\ UNCHANGED <<opc, ret, exitFile, attempt, stored, filter, results, copied,
                   pollErrors, pollDead, raised>>

\* run_stage("DISTR"): the parallel mkdirs, then has_distributed is set
\* and the parallel rsyncs are waited for.  BENCH runs only if it returned
\* True.
Distr ==
    /\ ipc = "distr"
    /\ \/ ipc' = "storeprep" /\ UNCHANGED <<passed, hasDist>>
       \/ ipc' = "storeprep" /\ hasDist' = TRUE /\ UNCHANGED passed
       \/ ipc' = "bench" /\ hasDist' = TRUE /\ passed' = passed \cup {"DISTR"}
    /\ UNCHANGED <<opc, ret, exitFile, attempt, stored, filter, results, copied,
                   pollErrors, pollDead, raised>>

\* run_stage("BENCH").
Bench ==
    /\ ipc = "bench"
    /\ ipc' = "storeprep"
    /\ \/ passed' = passed \cup {"BENCH"}
       \/ UNCHANGED passed
    /\ UNCHANGED <<opc, ret, exitFile, hasDist, attempt, stored, filter, results, copied,
                   pollErrors, pollDead, raised>>

\* makedirs(results_dir) and .rsync-filter written before STORE.
StorePrep ==
    /\ ipc = "storeprep"
    /\ ipc' = "store"
    /\ filter' = TRUE
    /\ UNCHANGED <<opc, ret, exitFile, passed, hasDist, attempt, stored, results, copied,
                   pollErrors, pollDead, raised>>

\* One iteration of stage_store's retry loop: an rsync from every server,
\* waited for by wait_procs.  Success leaves the loop; a second failure
\* returns False.  Without has_distributed no server data is collected.
StoreCollect ==
    /\ ipc = "store"
    /\ IF hasDist
       THEN \E rets \in [Servers -> {"ok", "fail"}] :
                LET w == WaitProcs(ServerOrder, rets)
                IN  /\ results' = results \cup w.done
                    /\ IF ~w.error THEN ipc' = "runner" /\ UNCHANGED <<attempt, stored>>
                       ELSE IF attempt = 1 THEN ipc' = "storeend" /\ stored' = "False" /\ UNCHANGED attempt
                       ELSE attempt' = attempt + 1 /\ UNCHANGED <<ipc, stored>>
       ELSE ipc' = "runner" /\ UNCHANGED <<results, attempt, stored>>
    /\ UNCHANGED <<opc, ret, exitFile, passed, hasDist, filter, copied,
                   pollErrors, pollDead, raised>>

\* stage_store: the rsync of tmp/ last, then flatten_directory (whose
\* FlattenException is printed), returning True; a failed rsync returns
\* False.
StoreRunner ==
    /\ ipc = "runner"
    /\ ipc' = "storeend"
    /\ \/ results' = results \cup {"runner"} /\ stored' = "True"
       \/ stored' = "False" /\ UNCHANGED results
    /\ UNCHANGED <<opc, ret, exitFile, passed, hasDist, attempt, filter, copied,
                   pollErrors, pollDead, raised>>

\* The finally of run(): .rsync-filter is unlinked, tmp/ removed; CHECK
\* runs if BENCH succeeded.
StoreEnd ==
    /\ ipc = "storeend"
    /\ filter' = FALSE
    /\ ipc' = IF "BENCH" \in passed THEN "check" ELSE "link"
    /\ UNCHANGED <<opc, ret, exitFile, passed, hasDist, attempt, stored, results, copied,
                   pollErrors, pollDead, raised>>

\* run_stage("CHECK"); its result is not used.
Check ==
    /\ ipc = "check"
    /\ ipc' = "link"
    /\ UNCHANGED <<opc, ret, exitFile, passed, hasDist, attempt, stored, filter, results, copied,
                   pollErrors, pollDead, raised>>

\* run(): the `latest` symlink is replaced; then the --tmuxed branch writes
\* str(int(not successful)), successful being bench_successful.
WriteCode ==
    /\ ipc = "link"
    /\ ipc' = "ended"
    /\ exitFile' = <<CodeLine(IF "BENCH" \in passed THEN 0 ELSE 1)>>
    /\ UNCHANGED <<opc, ret, passed, hasDist, attempt, stored, filter, results, copied,
                   pollErrors, pollDead, raised>>

\* A variant in which .rsync-filter is unlinked after STORE returns, not in
\* a finally.
RaiseKeepsFilter ==
    /\ ipc \in RaisingSteps
    /\ ipc' = "ended"
    /\ raised' = TRUE
    /\ exitFile' = AppendTraceback(exitFile)
    /\ UNCHANGED <<opc, ret, passed, hasDist, attempt, stored, filter, results, copied,
                   pollErrors, pollDead>>

\* An exception escapes run() (a stage other than by KeyboardInterrupt,
\* the config loading, the symlink): a raise inside STORE passes the
\* finally that unlinks .rsync-filter; the --tmuxed branch appends the
\* traceback to EXIT_CODE and the process ends.
Raise ==
    /\ ipc \in RaisingSteps
    /\ ipc' = "ended"
    /\ raised' = TRUE
    /\ exitFile' = AppendTraceback(exitFile)
    /\ filter' = IF ipc \in StoreSteps THEN FALSE ELSE filter
    /\ UNCHANGED <<opc, ret, passed, hasDist, attempt, stored, results, copied,
                   pollErrors, pollDead>>

\* One round of poll_results: rsync -F copies the results directory unless
\* it holds .rsync-filter.
Poll ==
    /\ ~pollDead
    /\ copied' = IF filter THEN copied ELSE results
    /\ pollErrors' = 0
    /\ UNCHANGED <<opc, ret, innerVars, pollDead>>

\* The rsync of a round fails; after more than PollRetries failures in a
\* row poll_results raises.
PollFail ==
    /\ ~pollDead
    /\ pollErrors' = pollErrors + 1
    /\ pollDead' = (pollErrors + 1 > PollRetries)
    /\ UNCHANGED <<opc, ret, innerVars, copied>>

Outer == OuterPrepare \/ TmuxStart \/ OuterRead

Inner == RunBegin \/ RunSetup \/ Param \/ Build \/ Distr \/ Bench \/ StorePrep
         \/ StoreCollect \/ StoreRunner \/ StoreEnd \/ Check \/ WriteCode

\* Both processes have ended and the poller has given up.
Terminated ==
    /\ opc = "returned" /\ pollDead
    /\ UNCHANGED vars

Next == Outer \/ TmuxBusy \/ Inner \/ Raise \/ Poll \/ PollFail \/ Terminated

\* The two processes run to completion and the poller loops; whether tmux
\* finds a stale session, a step raises or an rsync of the poller fails is
\* not assumed.
Spec == Init /\ [][Next]_vars /\ WF_vars(Outer) /\ WF_vars(Inner) /\ WF_vars(Poll)

-----------------------------------------------------------------------------

\* The exit code the outer process returns, which is what the queue runner
\* sees of the run, passes through tmux only as the first line of
\* EXIT_CODE.  It is 0 exactly when BUILD, DISTR and BENCH returned True
\* and no exception escaped run(), and 1 when a stage failed, anything
\* raised (before or after the header lines were written) or tmux could
\* not start.
ExitCodeFaithful ==
    opc = "returned" =>
        (ret = 0 <=> /\ ipc = "ended" /\ ~raised
                     /\ {"BUILD", "DISTR", "BENCH"} \subseteq passed)

\* stage_store returns True only when, in one round of its retry loop,
\* the rsync from every server exited 0, and the copy of tmp/ succeeded:
\* the results directory then holds the data of every server.
StoreComplete ==
    stored = "True" =>
        /\ "runner" \in results
        /\ hasDist => Servers \subseteq results

\* .rsync-filter hides the results from `exp result` only while STORE is
\* in progress: once the run has ended, however it ended, the poller
\* eventually holds everything the results directory holds, unless it
\* gave up after repeated rsync failures.
ResultsPublished ==
    (opc = "returned") ~> (copied = results \/ pollDead)
=============================================================================
