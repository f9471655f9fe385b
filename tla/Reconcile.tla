----------------------------- MODULE Reconcile -----------------------------
(***************************************************************************)
(* The scans that keep the index in step with the disk when events are     *)
(* lost, composed with the indexing pipeline of IndexWorkers: the initial  *)
(* scan of src/indexer/event_processor.rs, the rescans the reconcile cron  *)
(* asks for (rescan_workspace), and the stale-cleanup cron.  All paths are *)
(* in one workspace.                                                       *)
(*                                                                         *)
(* A scan is two threads: a walk that visits each path once and yields the *)
(* files it finds, and a scanner that loads the tables, takes the paths    *)
(* the walk yields, skips, submits, and at the end prunes the rows of the  *)
(* paths it has not seen.  The initial scan loads the metadata before it   *)
(* starts the walk, a rescan afterwards.                                   *)
(***************************************************************************)
EXTENDS IndexWorkers

VARIABLES
  spc,         \* the scanner's program counter
  mode,        \* "initial" or "rescan"
  unvisited,   \* paths the walk has still to visit
  yielded,     \* paths in the walk's channel
  meta,        \* the metadata map
  bounded,     \* the bounded-failure set
  seen,        \* paths the scanner has taken
  sending,     \* the path being submitted
  cpc,         \* the stale-cleanup cron's program counter
  missing,     \* the paths it found missing
  stopping     \* SIGTERM has been received

scanner == <<spc, mode, unvisited, yielded, meta, bounded, seen, sending>>
cleanup == <<cpc, missing>>
rvars   == <<vars, scanner, cleanup, stopping>>

SomePath == CHOOSE p \in Paths : TRUE
BeforeProject == {"idle", "remove", "stat", "gone", "project"}
Empty    == [p \in {} |-> 0]

RTypeOK ==
  /\ TypeOK
  /\ spc \in {"off", "meta", "bounded", "loop", "send", "prune", "cleanup"}
  /\ mode \in {"initial", "rescan"}
  /\ unvisited \subseteq Paths /\ yielded \subseteq Paths /\ seen \subseteq Paths
  /\ DOMAIN meta \subseteq Paths /\ DOMAIN bounded \subseteq Paths
  /\ sending \in Paths /\ stopping \in BOOLEAN
  /\ cpc \in {"off", "delete", "orphans"} /\ missing \subseteq Paths

\* A daemon starts with the initial scan.
RInit ==
  /\ Init
  /\ spc = "meta" /\ mode = "initial" /\ unvisited = {} /\ yielded = {}
  /\ meta = Empty /\ bounded = Empty /\ seen = {} /\ sending = SomePath
  /\ cpc = "off" /\ missing = {} /\ stopping = FALSE

-----------------------------------------------------------------------------
(* The walk.                                                               *)

Visit(p) ==
  /\ p \in unvisited /\ unvisited' = unvisited \ {p}
  /\ yielded' = IF OnDisk(p) THEN yielded \cup {p} ELSE yielded
  /\ UNCHANGED <<vars, spc, mode, meta, bounded, seen, sending, cleanup, stopping>>

\* A directory that cannot be read is logged, and the walk goes on.
VisitFails(p) ==
  /\ p \in unvisited /\ unvisited' = unvisited \ {p} /\ Fault
  /\ UNCHANGED <<world, pending, queue, tables, wk, spc, mode, yielded, meta,
                 bounded, seen, sending, cleanup, stopping>>

-----------------------------------------------------------------------------
(* The scanner.                                                            *)

\* The reconcile cron's WatcherCommand::Rescan.
StartRescan ==
  /\ spc = "off" /\ ~stopping
  /\ spc' = "meta" /\ mode' = "rescan"
  /\ unvisited' = Paths
  /\ UNCHANGED <<vars, yielded, meta, bounded, seen, sending, cleanup, stopping>>

\* A failure to load the metadata leaves the map empty.
LoadMetadata ==
  /\ spc = "meta" /\ spc' = "bounded"
  /\ unvisited' = IF mode = "initial" THEN Paths ELSE unvisited
  /\ \/ meta' = GetAllFileMetadata(files) /\ UNCHANGED faults
     \/ meta' = Empty /\ Fault
  /\ UNCHANGED <<world, pending, queue, tables, wk, mode, yielded, bounded, seen,
                 sending, cleanup, stopping>>

LoadBounded ==
  /\ spc = "bounded" /\ spc' = "loop"
  /\ \/ bounded' = GetBoundedFailurePaths(failures) /\ UNCHANGED faults
     \/ bounded' = Empty /\ Fault
  /\ UNCHANGED <<world, pending, queue, tables, wk, mode, unvisited, yielded, meta,
                 seen, sending, cleanup, stopping>>

\* The Level-1 test without its mtime comparison.
Level1SkipOnSize(p) ==
  p \in DOMAIN meta /\ OnDisk(p) /\ SizeOf[disk[p].content] = meta[p].size

Level1Skip(p) ==
  p \in DOMAIN meta /\ OnDisk(p) /\ Level1Unchanged(meta[p], disk[p])

Level0Skip(p) ==
  p \in DOMAIN bounded /\ OnDisk(p) /\ disk[p].mtime <= bounded[p]

\* The initial scan stops taking paths when the daemon is stopping.
Examine(p) ==
  /\ spc = "loop" /\ p \in yielded
  /\ ~(mode = "initial" /\ stopping)
  /\ yielded' = yielded \ {p} /\ seen' = seen \cup {p}
  /\ IF Level1Skip(p) \/ Level0Skip(p)
     THEN UNCHANGED <<spc, sending>>
     ELSE spc' = "send" /\ sending' = p
  /\ UNCHANGED <<vars, mode, unvisited, meta, bounded, cleanup, stopping>>

\* A submission that does not wait for room in the channel.
SubmitUnbounded ==
  /\ spc = "send"
  /\ queue' = Append(queue, <<sending, "Index">>)
  /\ spc' = "loop" /\ sending' = SomePath
  /\ UNCHANGED <<world, pending, tables, wk, faults, mode, unvisited, yielded, meta,
                 bounded, seen, cleanup, stopping>>

Submit ==
  /\ spc = "send" /\ Len(queue) < QueueCap
  /\ queue' = Append(queue, <<sending, "Index">>)
  /\ spc' = "loop" /\ sending' = SomePath
  /\ UNCHANGED <<world, pending, tables, wk, faults, mode, unvisited, yielded, meta,
                 bounded, seen, cleanup, stopping>>

\* The workers of a stopping daemon have gone, and with them the channel.
SubmitFails ==
  /\ spc = "send" /\ stopping
  /\ spc' = "prune" /\ sending' = SomePath /\ unvisited' = {} /\ yielded' = {}
  /\ UNCHANGED <<vars, mode, meta, bounded, seen, cleanup, stopping>>

\* The walk is over and its channel empty, or the initial scan breaks off.
EndLoop ==
  /\ spc = "loop" /\ spc' = "prune"
  /\ \/ unvisited = {} /\ yielded = {}
     \/ mode = "initial" /\ stopping /\ yielded # {}
  /\ unvisited' = {} /\ yielded' = {}
  /\ UNCHANGED <<vars, mode, meta, bounded, seen, sending, cleanup, stopping>>

Rest ==
  /\ mode' = "rescan" /\ meta' = Empty /\ bounded' = Empty /\ seen' = {}
  /\ UNCHANGED <<unvisited, yielded, sending, cleanup, stopping>>

Stale == IF mode = "initial" \/ seen # {} THEN DOMAIN meta \ seen ELSE {}

\* Delete the rows of the paths not seen; a rescan that saw nothing deletes
\* nothing.
Prune ==
  /\ spc = "prune"
  /\ \/ /\ files' = DeleteFiles(files, Stale) /\ UNCHANGED faults
        /\ spc' = IF Stale # {} THEN "cleanup" ELSE "off"
     \/ /\ Stale # {} /\ Fault /\ UNCHANGED files
        /\ spc' = IF mode = "initial" THEN "cleanup" ELSE "off"
  /\ Rest
  /\ UNCHANGED <<world, pending, queue, next_id, projects, failures, wk>>

\* Delete the projects without files.  That a task is under way in one of them
\* (its foreign key will then fail) counts as a fault: the sweeps are minutes
\* or hours apart and the task takes seconds, so it does not recur for ever.
DropEmptyProjects ==
  LET empty == projects \ {ProjectOf[files[i].path] : i \in DOMAIN files}
      raced == \E w \in Workers :
                 wk[w].pc \notin BeforeProject /\ ProjectOf[wk[w].path] \in empty
  IN
  /\ projects' = projects \ empty
  /\ IF raced THEN Fault ELSE UNCHANGED faults

CleanupOrphanedProjects ==
  /\ spc = "cleanup" /\ spc' = "off"
  /\ DropEmptyProjects
  /\ UNCHANGED <<world, pending, queue, files, next_id, failures, wk, mode,
                 unvisited, yielded, meta, bounded, seen, sending, cleanup, stopping>>

-----------------------------------------------------------------------------
(* The stale-cleanup cron: collect the indexed paths that are not on disk, *)
(* delete their rows, delete the projects left empty.                      *)

CollectMissing ==
  /\ cpc = "off" /\ ~stopping
  /\ missing' = {p \in {files[i].path : i \in DOMAIN files} : ~OnDisk(p)}
  /\ cpc' = IF missing' = {} THEN "orphans" ELSE "delete"
  /\ UNCHANGED <<vars, scanner, stopping>>

DeleteMissing ==
  /\ cpc = "delete" /\ cpc' = "orphans" /\ missing' = {}
  /\ \/ files' = DeleteFiles(files, missing) /\ UNCHANGED faults
     \/ Fault /\ UNCHANGED files
  /\ UNCHANGED <<world, pending, queue, next_id, projects, failures, wk, scanner,
                 stopping>>

CleanupAfterStale ==
  /\ cpc = "orphans" /\ cpc' = "off"
  /\ DropEmptyProjects
  /\ UNCHANGED <<world, pending, queue, files, next_id, failures, wk, scanner,
                 missing, stopping>>

-----------------------------------------------------------------------------
(* Stopping and starting.                                                  *)

Stop ==
  /\ ~stopping /\ stopping' = TRUE /\ Fault
  /\ UNCHANGED <<world, pending, queue, tables, wk, scanner, cleanup>>

\* A new daemon: the memory is empty and the initial scan begins.
Boot ==
  /\ spc' = "meta" /\ mode' = "initial" /\ unvisited' = {} /\ yielded' = {}
  /\ meta' = Empty /\ bounded' = Empty /\ seen' = {} /\ sending' = SomePath
  /\ cpc' = "off" /\ missing' = {} /\ stopping' = FALSE

\* A crash, or the exit of a daemon that was stopping, and the next start.
Restart ==
  /\ \/ stopping /\ UNCHANGED faults
     \/ Fault
  /\ pending' = [p \in Paths |-> "none"] /\ queue' = <<>>
  /\ wk' = [w \in Workers |-> Idle(SomePath)]
  /\ Boot
  /\ UNCHANGED <<world, tables>>

-----------------------------------------------------------------------------
Scan ==
  \/ StartRescan \/ LoadMetadata \/ LoadBounded \/ Submit \/ SubmitFails \/ EndLoop \/ Prune
  \/ CleanupOrphanedProjects
  \/ \E p \in Paths : Examine(p)

Cleanup == CollectMissing \/ DeleteMissing \/ CleanupAfterStale

\* The pipeline of IndexWorkers; a stopping worker takes no further task.
Pipeline ==
  /\ \/ User
     \/ \E p \in Paths : Emit(p)
     \/ \E w \in Workers :
          (~stopping /\ Take(w)) \/ Process(w) \/ Abandon(w) \/ LookUpFails(w)
  /\ UNCHANGED <<scanner, cleanup, stopping>>

RNext ==
  \/ Pipeline \/ Scan \/ Cleanup \/ Stop \/ Restart
  \/ \E p \in Paths : Visit(p) \/ VisitFails(p)

\* Threads that can run do: the debounce thread, the workers, the walk and
\* the scanner; the scheduler keeps asking for rescans and stale cleanups.  Each
\* of these steps changes the variable it is subscripted with.
RFairness ==
  /\ \A p \in Paths : WF_queue(Emit(p) /\ UNCHANGED <<scanner, cleanup, stopping>>)
  /\ \A w \in Workers :
       WF_wk(((~stopping /\ Take(w)) \/ Process(w)) /\ UNCHANGED <<scanner, cleanup, stopping>>)
  /\ \A p \in Paths : WF_unvisited(Visit(p))
  /\ WF_scanner(Scan) /\ WF_cpc(Cleanup)

RSpec == RInit /\ [][RNext]_rvars /\ RFairness

-----------------------------------------------------------------------------
(* Properties.                                                             *)

\* The scans pass p over: its failures are at the cap and not older than the file.
\* That can be a good file, edited between the last failing read and its record.
BoundedOut(p) ==
  LET capped == GetBoundedFailurePaths(failures)
  IN p \in DOMAIN capped /\ disk[p].mtime <= capped[p]

\* Every indexable file on disk that the scans do not pass over has a row that
\* records and serves its present content, and no other path has a row.
InSync ==
  \A p \in Paths :
    IF OnDisk(p)
    THEN disk[p].content \notin BadContents /\ p \notin NoTool /\ ~BoundedOut(p) =>
           \E i \in RowsAt(files, p) :
             files[i].hash = HashOf(disk[p]) /\ Served(files, i) = Expected(i)
    ELSE RowsAt(files, p) = {}

\* Whatever events are lost and whatever the scans race with, the index comes
\* into step with the disk once the disk is left alone, and stays so, unless
\* the daemon is stopped for good.
SelfHeal == (<>[]InSync) \/ (<>[]stopping)

\* A file the reader or extractor rejects is not read again and again: once the
\* disk is left alone its failures reach the cap and the scans pass it over.
BadFilesRest == (<>[](\A w \in Workers : ~At(w, "bad"))) \/ (<>[]stopping)

\* The file whose row a scan loaded is still there, untouched.
StillThere(p) == OnDisk(p) /\ disk[p].mtime = meta[p].mtime

\* "A path indexed under THIS workspace that the just-completed walk did not
\* yield is gone from disk": what a scan is about to prune is not the row of a
\* file that is still there as it was when the row was loaded.
PruneSound == spc = "prune" => \A p \in Stale : ~StillThere(p)
=============================================================================
