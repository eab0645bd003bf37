----------------------------- MODULE QueueRunner -----------------------------
(***************************************************************************)
(* The experiment queue: scripts/queue/queue_runner.py executing archives  *)
(* that scripts/queue/upload.py places in the queue directories.           *)
(*                                                                         *)
(* A queue entry is a slot <<directory, name>> holding up to three files:  *)
(* the archive NAME.tgz, NAME.tgz.commands and NAME.tgz.marker.  An upload *)
(* writes them with `tar -cf ARCHIVE && cp COMMANDS && touch MARKER`, one  *)
(* shell command after the other, on the queue host.  The runner polls    *)
(* the priority directory, then the normal one, for the entry with the     *)
(* smallest numeric name prefix that has all three files; it unpacks the   *)
(* archive, reads the progress from the marker and the command list, and  *)
(* runs the remaining commands, asking before each one whether that entry *)
(* is still the one to run.  After each command it writes the progress to *)
(* the marker; after the last it deletes the three files.  The runner may *)
(* be killed at any point and is restarted at its main loop.               *)
(*                                                                         *)
(* Uploads are numbered 1..Len(Target); a file records which upload wrote *)
(* it.  The runner's `executed` history records every command it started, *)
(* with the command list and the unpacked archive it belonged to.          *)
(***************************************************************************)
EXTENDS Integers, Sequences, FiniteSets

CONSTANTS
    Dirs,         \* <<PRIO_DIRECTORY, QUEUE_DIRECTORY>>, in search order
    Names,        \* archive file names
    Prefix,       \* [Names -> Nat]: int_prefix(fn)
    Target,       \* [upload -> <<dir, name>>]: where each upload is queued
    NCmds,        \* commands per command list
    MaxCrashes    \* bound on runner restarts

Uploads == 1..Len(Target)

Slots == {<<d, n>> : d \in {Dirs[i] : i \in 1..Len(Dirs)}, n \in Names}

NoFile == 0          \* an absent archive or command file
NoMarker == -1       \* an absent marker file

VARIABLES
    archive,      \* [Slots -> upload whose archive is there, or NoFile]
    whole,        \* [Slots -> BOOLEAN]: tar has finished writing the archive
    commands,     \* [Slots -> upload whose command list is there, or NoFile]
    marker,       \* [Slots -> progress stored in the marker, or NoMarker]
    ustep,        \* [Uploads -> "waiting", "tar", "tarred", "copied", "done"]
    rpc,          \* the runner's position in main_loop / execute
    cur,          \* full_fn: the slot being executed
    unpacked,     \* [u, whole] of the archive unpacked into the execution dir
    cmdsOf,       \* the upload whose command list run_experiments read
    progress,     \* run_experiments' progress
    completed,    \* has_completed
    executed,     \* commands started: [u, i, archive]
    finished,     \* command lists whose entry the runner deleted as completed
    rerun,        \* a command was started again without a restart in between
    crashes

vars == <<archive, whole, commands, marker, ustep, rpc, cur, unpacked,
          cmdsOf, progress, completed, executed, finished, rerun, crashes>>

uploadVars == <<ustep>>
fileVars == <<archive, whole, commands, marker>>
runnerVars == <<rpc, cur, unpacked, cmdsOf, progress, completed, executed, finished, rerun, crashes>>

-----------------------------------------------------------------------------

\* A variant of find_oldest_file that takes every file matching the
\* pattern, without looking for the marker and the command file.
ReadyArchiveOnly(d) == {s \in Slots : s[1] = d /\ archive[s] # NoFile}

\* find_oldest_file(queue_dir): among the entries with archive, marker and
\* command file, one whose prefix is smallest.  Between equal prefixes
\* os.listdir order decides; it is stable for a directory, and is fixed
\* here by CHOOSE.
Ready(d) ==
    {s \in Slots : s[1] = d /\ archive[s] # NoFile /\ marker[s] # NoMarker
                   /\ commands[s] # NoFile}

Oldest(d) == CHOOSE s \in Ready(d) : \A o \in Ready(d) : Prefix[s[2]] <= Prefix[o[2]]

\* find_oldest_file_multi: the first directory with an entry wins; <<>>
\* stands for None.
OldestMulti ==
    LET ds == {i \in 1..Len(Dirs) : Ready(Dirs[i]) # {}}
    IN  IF ds = {} THEN <<>>
        ELSE Oldest(Dirs[CHOOSE i \in ds : \A j \in ds : i <= j])

Init ==
    /\ archive = [s \in Slots |-> NoFile]
    /\ whole = [s \in Slots |-> FALSE]
    /\ commands = [s \in Slots |-> NoFile]
    /\ marker = [s \in Slots |-> NoMarker]
    /\ ustep = [u \in Uploads |-> "waiting"]
    /\ rpc = "poll"
    /\ cur = <<>>
    /\ unpacked = [u |-> NoFile, whole |-> FALSE]
    /\ cmdsOf = NoFile
    /\ progress = 0
    /\ completed = FALSE
    /\ executed = {}
    /\ finished = {}
    /\ rerun = FALSE
    /\ crashes = 0

-----------------------------------------------------------------------------
(* upload.py queue(): one user uploads one experiment at a time under a    *)
(* given name; the three shell commands run in order.                      *)

\* tar -cf NAME.tgz: the archive is truncated and rewritten in place.
TarStart(u) ==
    /\ ustep[u] = "waiting"
    /\ \A v \in 1..(u - 1) : Target[v] = Target[u] => ustep[v] = "done"
    /\ archive' = [archive EXCEPT ![Target[u]] = u]
    /\ whole' = [whole EXCEPT ![Target[u]] = FALSE]
    /\ ustep' = [ustep EXCEPT ![u] = "tar"]
    /\ UNCHANGED <<commands, marker, runnerVars>>

TarEnd(u) ==
    /\ ustep[u] = "tar"
    /\ whole' = [whole EXCEPT ![Target[u]] = archive[Target[u]] = u]
    /\ ustep' = [ustep EXCEPT ![u] = "tarred"]
    /\ UNCHANGED <<archive, commands, marker, runnerVars>>

\* cp .../commands NAME.tgz.commands
Copy(u) ==
    /\ ustep[u] = "tarred"
    /\ commands' = [commands EXCEPT ![Target[u]] = u]
    /\ ustep' = [ustep EXCEPT ![u] = "copied"]
    /\ UNCHANGED <<archive, whole, marker, runnerVars>>

\* touch NAME.tgz.marker: creates an empty marker (progress 0 for
\* load_progress), and leaves an existing marker's content alone.
Touch(u) ==
    /\ ustep[u] = "copied"
    /\ marker' = [marker EXCEPT ![Target[u]] = IF @ = NoMarker THEN 0 ELSE @]
    /\ ustep' = [ustep EXCEPT ![u] = "done"]
    /\ UNCHANGED <<archive, whole, commands, runnerVars>>

Upload(u) == TarStart(u) \/ TarEnd(u) \/ Copy(u) \/ Touch(u)

-----------------------------------------------------------------------------
(* queue_runner.py: main_loop, execute and run_experiments.                *)

\* wait_for_file: query() until it returns an entry.
Poll ==
    /\ rpc = "poll"
    /\ OldestMulti # <<>>
    /\ cur' = OldestMulti
    /\ rpc' = "unpack"
    /\ completed' = FALSE
    /\ UNCHANGED <<fileVars, uploadVars, unpacked, cmdsOf, progress, executed,
                   finished, rerun, crashes>>

\* The sleep between two empty polls.
Idle == rpc = "poll" /\ OldestMulti = <<>> /\ UNCHANGED vars

\* execute: rmtree and mkdir the execution directory, unpack_archive.  A
\* partly written archive either raises shutil.ReadError, which counts as
\* completed, or unpacks what has been written so far.
Unpack ==
    /\ rpc = "unpack"
    /\ \/ /\ whole[cur]
          /\ unpacked' = [u |-> archive[cur], whole |-> TRUE]
          /\ rpc' = "load"
          /\ UNCHANGED completed
       \/ /\ ~whole[cur]
          /\ unpacked' = [u |-> archive[cur], whole |-> FALSE]
          /\ rpc' = "load"
          /\ UNCHANGED completed
       \/ /\ ~whole[cur]
          /\ completed' = TRUE
          /\ rpc' = "cleanup"
          /\ UNCHANGED unpacked
    /\ UNCHANGED <<fileVars, uploadVars, cur, cmdsOf, progress, executed, finished, rerun, crashes>>

\* A variant that ignores the stored progress.
LoadFromStart ==
    /\ rpc = "load"
    /\ progress' = 0
    /\ cmdsOf' = commands[cur]
    /\ rpc' = "next"
    /\ UNCHANGED <<fileVars, uploadVars, cur, unpacked, completed, executed, finished, rerun, crashes>>

\* run_experiments: load_progress (an empty marker reads as 0), then the
\* command list.
Load ==
    /\ rpc = "load"
    /\ progress' = marker[cur]
    /\ cmdsOf' = commands[cur]
    /\ rpc' = "next"
    /\ UNCHANGED <<fileVars, uploadVars, cur, unpacked, completed, executed, finished, rerun, crashes>>

\* A variant that reports a preempted entry as completed.
NextCommandPreemptCompletes ==
    /\ rpc = "next"
    /\ \/ /\ progress >= NCmds
          /\ completed' = TRUE
          /\ rpc' = "cleanup"
       \/ /\ progress < NCmds
          /\ OldestMulti = cur
          /\ rpc' = "run"
          /\ UNCHANGED completed
       \/ /\ progress < NCmds
          /\ OldestMulti # cur
          /\ completed' = TRUE
          /\ rpc' = "cleanup"
    /\ UNCHANGED <<fileVars, uploadVars, cur, unpacked, cmdsOf, progress, executed, finished, rerun, crashes>>

\* Head of `for cmd in commands[progress:]`: stop after the last command;
\* otherwise return False if query() names another entry.
NextCommand ==
    /\ rpc = "next"
    /\ \/ /\ progress >= NCmds
          /\ completed' = TRUE
          /\ rpc' = "cleanup"
       \/ /\ progress < NCmds
          /\ OldestMulti = cur
          /\ rpc' = "run"
          /\ UNCHANGED completed
       \/ /\ progress < NCmds
          /\ OldestMulti # cur
          /\ completed' = FALSE
          /\ rpc' = "cleanup"
    /\ UNCHANGED <<fileVars, uploadVars, cur, unpacked, cmdsOf, progress, executed, finished, rerun, crashes>>

\* subprocess.call(cmd) and progress += 1.
RunCommand ==
    /\ rpc = "run"
    /\ executed' = executed \cup {[u |-> cmdsOf, i |-> progress, archive |-> unpacked, c |-> crashes]}
    /\ rerun' = (rerun \/ \E e \in executed : e.u = cmdsOf /\ e.i = progress /\ e.c = crashes)
    /\ progress' = progress + 1
    /\ rpc' = "save"
    /\ UNCHANGED <<fileVars, uploadVars, cur, unpacked, cmdsOf, completed, finished, crashes>>

\* A variant that stores the index after the next command.
SaveProgressAhead ==
    /\ rpc = "save"
    /\ marker' = IF archive[cur] # NoFile THEN [marker EXCEPT ![cur] = progress + 1] ELSE marker
    /\ rpc' = "next"
    /\ UNCHANGED <<archive, whole, commands, uploadVars, cur, unpacked, cmdsOf, progress,
                   completed, executed, finished, rerun, crashes>>

\* save_progress, unless the archive was already deleted.
SaveProgress ==
    /\ rpc = "save"
    /\ marker' = IF archive[cur] # NoFile THEN [marker EXCEPT ![cur] = progress] ELSE marker
    /\ rpc' = "next"
    /\ UNCHANGED <<archive, whole, commands, uploadVars, cur, unpacked, cmdsOf, progress,
                   completed, executed, finished, rerun, crashes>>

\* rmtree(execution_dir); a completed entry goes on to the unlinks.
Cleanup ==
    /\ rpc = "cleanup"
    /\ rpc' = IF completed THEN "unlink_archive" ELSE "poll"
    /\ UNCHANGED <<fileVars, uploadVars, cur, unpacked, cmdsOf, progress, completed,
                   executed, finished, rerun, crashes>>

\* try_unlink(full_fn), try_unlink(.marker), try_unlink(.commands).
UnlinkArchive ==
    /\ rpc = "unlink_archive"
    /\ archive' = [archive EXCEPT ![cur] = NoFile]
    /\ whole' = [whole EXCEPT ![cur] = FALSE]
    /\ rpc' = "unlink_marker"
    /\ UNCHANGED <<commands, marker, uploadVars, cur, unpacked, cmdsOf, progress, completed,
                   executed, finished, rerun, crashes>>

UnlinkMarker ==
    /\ rpc = "unlink_marker"
    /\ marker' = [marker EXCEPT ![cur] = NoMarker]
    /\ rpc' = "unlink_commands"
    /\ UNCHANGED <<archive, whole, commands, uploadVars, cur, unpacked, cmdsOf, progress,
                   completed, executed, finished, rerun, crashes>>

UnlinkCommands ==
    /\ rpc = "unlink_commands"
    /\ commands' = [commands EXCEPT ![cur] = NoFile]
    /\ finished' = finished \cup {cmdsOf}
    /\ rpc' = "poll"
    /\ UNCHANGED <<archive, whole, marker, uploadVars, cur, unpacked, cmdsOf, progress,
                   completed, executed, rerun, crashes>>

\* The runner process is killed and started again at main_loop; only the
\* files survive.
Crash ==
    /\ rpc # "poll"
    /\ crashes < MaxCrashes
    /\ rpc' = "poll"
    /\ crashes' = crashes + 1
    /\ UNCHANGED <<fileVars, uploadVars, cur, unpacked, cmdsOf, progress, completed,
                   executed, finished, rerun>>

Runner ==
    \/ Poll \/ Idle \/ Unpack \/ Load \/ NextCommand \/ RunCommand \/ SaveProgress
    \/ Cleanup \/ UnlinkArchive \/ UnlinkMarker \/ UnlinkCommands

Next == Runner \/ Crash \/ \E u \in Uploads : Upload(u)

\* The runner runs continuously; an upload that has started runs its
\* shell commands to the end.  Whether a user starts an upload, and
\* whether the runner crashes, is not assumed.
Spec == Init /\ [][Next]_vars /\ WF_vars(Runner)
            /\ \A u \in Uploads : WF_vars(TarEnd(u) \/ Copy(u) \/ Touch(u))

-----------------------------------------------------------------------------

\* All commands of upload u's command list were started at least once.
AllRun(u) == \A i \in 0..(NCmds - 1) : \E e \in executed : e.u = u /\ e.i = i

\* Upload u writes to a queue entry that another upload also writes to:
\* the experiment is re-queued under the same name and directory.
Requeued(u) == \E v \in Uploads : v # u /\ Target[v] = Target[u]

\* The uploads of the bundle that own their queue entry alone.
Sole == {u \in Uploads : ~Requeued(u)}

\* The marker is written last "to ensure atomicity of queueing" (header of
\* queue_runner.py): every command the runner starts for an upload in U
\* belongs to the command list of the upload whose archive it unpacked,
\* and that archive had been written completely.
ConsistentFor(U) ==
    \A e \in executed : e.u \in U => e.archive.u = e.u /\ e.archive.whole

\* ... for every upload.
ConsistentExecution == ConsistentFor(Uploads)

\* ... for every upload that owns its entry, while other uploads re-queue
\* and preempt around it.
ConsistentSole == ConsistentFor(Sole)

\* Progress is saved only after a command ran, and a preempted or
\* restarted entry resumes from its marker: an entry of an upload that
\* owns it is deleted as completed only after every command of its list
\* was started.
CompleteExecution == \A u \in finished \cap Sole : AllRun(u)

\* Every upload that owns its entry and has been queued completely
\* eventually has all its commands run, whatever the priorities of later
\* uploads, re-queues of other entries, preemptions and (bounded) runner
\* crashes.
EveryUploadRuns == \A u \in Sole : ustep[u] = "done" ~> AllRun(u)

\* Progress is saved after every command while the archive exists, and
\* the preemption check comes before a command, not after it: a command
\* of a command list is started a second time only across a restart of
\* the runner, also when an experiment is re-queued under a name that is
\* still in the queue.
NoRerunWithoutCrash == ~rerun

=============================================================================
