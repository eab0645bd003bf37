---------------------------- MODULE RunCoordinator ----------------------------
(***************************************************************************)
(* The run coordinator of scripts/analysis/parse-logs.py: walk_folders,   *)
(* walk_folders_of_group and parse_logs, driving a ProcessPoolExecutor.    *)
(*                                                                         *)
(* The main process visits the scenario groups one after the other.  For  *)
(* a group it submits one parse task per file of every run, then, run by   *)
(* run in sorted order, blocks on each parse future and submits the run's  *)
(* range_and_transform task, then blocks on each of those, intersects     *)
(* their windows and runs the group transformers over the intersection.    *)
(* ft.result() re-raises a task's exception in the main process; leaving   *)
(* the `with ProcessPoolExecutor()` block then waits for every task still  *)
(* queued or running, and the exception ends the program.                  *)
(*                                                                         *)
(* A worker takes the oldest queued task.  What a task computes is          *)
(* abstracted to its outcome: a parse task yields a log or raises, a range *)
(* task yields its (start, end) window or raises LogError/FatalLogIssue    *)
(* (module AutoRange and LogFilter model those computations).              *)
(***************************************************************************)
EXTENDS Integers, Sequences, FiniteSets, FiniteSetsExt

CONSTANTS
    Groups,     \* the scenario groups, in the insertion order of `groups`
    RunsOf,     \* [group -> number of run folders of the group]
    Files,      \* files per run folder
    Workers,    \* size of the process pool
    Windows     \* windows <<start, end>> a successful run may report

VARIABLES
    pc,          \* where the main process is
    grp,         \* index of the group being processed
    run,         \* index of the run whose futures are being collected
    file,        \* index of the parse future being collected
    queue,       \* submitted tasks no worker has taken, oldest first
    running,     \* tasks a worker is executing
    result,      \* [task -> what its future holds]
    groupWindow, \* effective_time_range_inner
    effective,   \* effective_time_range
    aggregated,  \* groups whose group transformers completed
    aggFailed    \* groups whose group transformers raised

vars == <<pc, grp, run, file, queue, running, result, groupWindow,
          effective, aggregated, aggFailed>>

NoWindow == <<>>

\* The state of a future: not done, done with an exception, or done with
\* a return value (a range task's window; a parse task's log).
Pending == [status |-> "pending", window |-> NoWindow]
Raised == [status |-> "raised", window |-> NoWindow]
Returned(w) == [status |-> "returned", window |-> w]

ParseTask(g, r, f) == [kind |-> "parse", g |-> g, r |-> r, f |-> f]
RangeTask(g, r) == [kind |-> "range", g |-> g, r |-> r]

G(i) == Groups[i]

TaskIds ==
    UNION {{ParseTask(g, r, f) : r \in 1..RunsOf[G(g)], f \in 1..Files}
              \cup {RangeTask(g, r) : r \in 1..RunsOf[G(g)]} : g \in 1..Len(Groups)}

\* What a finished task reports through its future.
Outcomes(t) ==
    IF t.kind = "parse" THEN {Returned(NoWindow), Raised}
    ELSE {Returned(w) : w \in Windows} \cup {Raised}

\* (max of the starts, min of the ends), or the first window
Intersect(acc, w) ==
    IF acc = NoWindow THEN w
    ELSE << IF w[1] >= acc[1] THEN w[1] ELSE acc[1],
            IF w[2] <= acc[2] THEN w[2] ELSE acc[2] >>

\* All parse tasks of group g, run by run in sorted order, file by file.
ParseTasksOf(g) ==
    [k \in 1..(RunsOf[G(g)] * Files) |-> ParseTask(g, (k - 1) \div Files + 1, ((k - 1) % Files) + 1)]

-----------------------------------------------------------------------------

Init ==
    /\ pc = "submit_parse"
    /\ grp = 1
    /\ run = 1
    /\ file = 1
    /\ queue = <<>>
    /\ running = {}
    /\ result = [t \in TaskIds |-> Pending]
    /\ groupWindow = NoWindow
    /\ effective = NoWindow
    /\ aggregated = {}
    /\ aggFailed = {}

\* walk_folders_of_group, first loop: parse_logs submits one
\* _parse_single_log task per file of every run folder of the group.
SubmitParse ==
    /\ pc = "submit_parse"
    /\ queue' = queue \o ParseTasksOf(grp)
    /\ pc' = "collect_parse"
    /\ run' = 1
    /\ file' = 1
    /\ groupWindow' = NoWindow
    /\ UNCHANGED <<grp, running, result, effective, aggregated, aggFailed>>

\* A variant of the second loop that moves on to the next run without
\* submitting range_and_transform for the run just collected.
CollectParseNoSubmit ==
    /\ pc = "collect_parse"
    /\ result[ParseTask(grp, run, file)] # Pending
    /\ IF result[ParseTask(grp, run, file)] = Raised
       THEN /\ pc' = "shutdown"
            /\ UNCHANGED <<run, file, queue>>
       ELSE /\ file' = IF file = Files THEN 1 ELSE file + 1
            /\ run' = IF file = Files /\ run < RunsOf[G(grp)] THEN run + 1
                      ELSE IF file = Files THEN 1 ELSE run
            /\ pc' = IF file = Files /\ run = RunsOf[G(grp)] THEN "collect_range"
                     ELSE "collect_parse"
            /\ UNCHANGED queue
    /\ UNCHANGED <<grp, running, result, groupWindow, effective, aggregated, aggFailed>>

\* Second loop: `log = ft.result()` for each parse future of the run (a
\* raised exception leaves the group); after the run's last file,
\* executor.submit(range_and_transform, logs, ...) for that run.
CollectParse ==
    /\ pc = "collect_parse"
    /\ result[ParseTask(grp, run, file)] # Pending
    /\ IF result[ParseTask(grp, run, file)] = Raised
       THEN /\ pc' = "shutdown"
            /\ UNCHANGED <<run, file, queue>>
       ELSE /\ file' = IF file = Files THEN 1 ELSE file + 1
            /\ run' = IF file = Files /\ run < RunsOf[G(grp)] THEN run + 1
                      ELSE IF file = Files THEN 1 ELSE run
            /\ pc' = IF file = Files /\ run = RunsOf[G(grp)] THEN "collect_range"
                     ELSE "collect_parse"
            /\ queue' = IF file = Files THEN Append(queue, RangeTask(grp, run)) ELSE queue
    /\ UNCHANGED <<grp, running, result, groupWindow, effective, aggregated, aggFailed>>

\* A variant of the third loop that widens the group window: the minimum
\* of the starts and the maximum of the ends.
CollectRangeUnion ==
    /\ pc = "collect_range"
    /\ result[RangeTask(grp, run)] # Pending
    /\ LET w == result[RangeTask(grp, run)].window
       IN  IF result[RangeTask(grp, run)] = Raised
           THEN /\ pc' = "shutdown"
                /\ UNCHANGED <<run, groupWindow>>
           ELSE /\ groupWindow' =
                     IF groupWindow = NoWindow THEN w
                     ELSE << IF w[1] <= groupWindow[1] THEN w[1] ELSE groupWindow[1],
                             IF w[2] >= groupWindow[2] THEN w[2] ELSE groupWindow[2] >>
                /\ run' = IF run < RunsOf[G(grp)] THEN run + 1 ELSE 1
                /\ pc' = IF run < RunsOf[G(grp)] THEN "collect_range" ELSE "aggregate"
    /\ UNCHANGED <<grp, file, queue, running, result, effective, aggregated, aggFailed>>

\* Third loop: `log_bundle, used_time_range = ft.result()` for each run,
\* intersecting the used ranges into effective_time_range_inner.
CollectRange ==
    /\ pc = "collect_range"
    /\ result[RangeTask(grp, run)] # Pending
    /\ LET w == result[RangeTask(grp, run)].window
       IN  IF result[RangeTask(grp, run)] = Raised
           THEN /\ pc' = "shutdown"
                /\ UNCHANGED <<run, groupWindow>>
           ELSE /\ groupWindow' = Intersect(groupWindow, w)
                /\ run' = IF run < RunsOf[G(grp)] THEN run + 1 ELSE 1
                /\ pc' = IF run < RunsOf[G(grp)] THEN "collect_range" ELSE "aggregate"
    /\ UNCHANGED <<grp, file, queue, running, result, effective, aggregated, aggFailed>>

\* The group transformers, CutLogFilter and the output transformers over
\* the bundle and the group window; a FatalLogIssue (duplicate data for one
\* configuration) leaves walk_folders.  On success walk_folders intersects
\* the group window into effective_time_range and takes the next group.
Aggregate ==
    /\ pc = "aggregate"
    /\ \/ /\ aggregated' = aggregated \cup {grp}
          /\ effective' = Intersect(effective, groupWindow)
          /\ pc' = IF grp < Len(Groups) THEN "submit_parse" ELSE "finished"
          /\ grp' = IF grp < Len(Groups) THEN grp + 1 ELSE grp
          /\ UNCHANGED aggFailed
       \/ /\ aggFailed' = aggFailed \cup {grp}
          /\ pc' = "shutdown"
          /\ UNCHANGED <<aggregated, effective, grp>>
    /\ UNCHANGED <<run, file, queue, running, result, groupWindow>>

\* Leaving `with ProcessPoolExecutor()` on an exception: shutdown(wait=True)
\* lets every queued and running task finish, then the exception ends
\* the program.
Abort ==
    /\ pc = "shutdown"
    /\ queue = <<>>
    /\ running = {}
    /\ pc' = "aborted"
    /\ UNCHANGED <<grp, run, file, queue, running, result, groupWindow,
                   effective, aggregated, aggFailed>>

\* A free worker process takes the oldest queued task.
StartTask ==
    /\ queue # <<>>
    /\ Cardinality(running) < Workers
    /\ running' = running \cup {Head(queue)}
    /\ queue' = Tail(queue)
    /\ UNCHANGED <<pc, grp, run, file, result, groupWindow, effective, aggregated, aggFailed>>

\* A task finishes with one of its outcomes.
CompleteTask(t) ==
    /\ t \in running
    /\ \E o \in Outcomes(t) : result' = [result EXCEPT ![t] = o]
    /\ running' = running \ {t}
    /\ UNCHANGED <<pc, grp, run, file, queue, groupWindow, effective, aggregated, aggFailed>>

\* The program has printed the recommended range or died of the exception.
Terminated == pc \in {"finished", "aborted"} /\ UNCHANGED vars

Main == SubmitParse \/ CollectParse \/ CollectRange \/ Aggregate \/ Abort

Pool == StartTask \/ \E t \in TaskIds : CompleteTask(t)

Next == Main \/ Pool \/ Terminated

\* The main process and every worker process run until they block; a
\* parse or range task on a finite folder finishes.
Spec == Init /\ [][Next]_vars /\ WF_vars(Main) /\ WF_vars(StartTask)
            /\ \A t \in TaskIds : WF_vars(CompleteTask(t))

-----------------------------------------------------------------------------

\* Every blocking ft.result() of the main process is eventually answered:
\* each future it waits on was submitted before, so with the pool's workers
\* running, the program always gets to print its range or to die of the
\* exception, whichever runs and files fail.
BatchEnds == <>(pc \in {"finished", "aborted"})

\* The group transformers run only after every run of the group has
\* reported its window (the post-run join of spec.md 5), and over the
\* intersection of exactly those windows: the latest start and the
\* earliest end of the group's runs.
GroupBarrier ==
    pc = "aggregate" =>
        LET ws == {result[RangeTask(grp, r)].window : r \in 1..RunsOf[G(grp)]}
        IN  /\ ws \subseteq Windows
            /\ groupWindow = << Max({w[1] : w \in ws}), Min({w[2] : w \in ws}) >>

\* A group failed when one of its tasks raised or its group transformers did.
Failed(g) ==
    \/ g \in aggFailed
    \/ \E t \in TaskIds : t.g = g /\ result[t] = Raised

\* spec.md 7: a fatal condition propagates to its run's boundary and blocks
\* only that scenario group; "other scenario groups are unaffected".  When
\* the program ends, every group none of whose runs failed has been
\* aggregated.
GroupIsolation ==
    pc \in {"finished", "aborted"} =>
        \A g \in 1..Len(Groups) : ~Failed(g) => g \in aggregated

=============================================================================
