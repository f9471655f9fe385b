---------------------------- MODULE IndexWorkers ----------------------------
(***************************************************************************)
(* The indexing pipeline: files change on disk, the watcher's debounce     *)
(* buffer turns changes into tasks on the bounded index channel, and the   *)
(* inference workers run process_index_file_task (src/embed/pool.rs) on    *)
(* them.  Each access a worker makes to the file system or the database is *)
(* one step, so the disk and the other workers move in between.            *)
(*                                                                         *)
(* Losing an event, an error of the database, the file system or the       *)
(* model, a panic in a task and a crash of the daemon each spend one of    *)
(* MaxFaults.  Every path has a configured extension.                      *)
(***************************************************************************)
EXTENDS IndexStore, Sequences

CONSTANTS
  Workers,       \* inference workers
  Moves,         \* pairs of paths <<from, to>> the user may rename
  BadContents,   \* contents the reader or extractor rejects
  Documents,     \* paths of a document language, read through an extractor
  NoTool,        \* those whose extractor is not installed
  MaxFileSize,   \* larger files are registered without content
  NoFile,        \* nothing on disk at a path
  NoContent,     \* a worker has not read yet
  QueueCap,      \* capacity of the index channel
  MaxOps,        \* bound: changes to the disk
  MaxFaults      \* bound: faults

ASSUME WorkerConstants ==
  /\ Moves \subseteq Paths \X Paths
  /\ BadContents \subseteq Contents
  /\ Documents \subseteq Paths /\ NoTool \subseteq Documents
  /\ MaxFileSize \in Nat /\ MaxOps \in Nat /\ MaxFaults \in Nat
  /\ QueueCap \in Nat \ {0}
  /\ NoContent \notin Contents
  /\ \A c \in Contents : c \notin Nat \X Nat
  /\ NoFile \notin [content : Contents, mtime : Nat]

VARIABLES
  disk,      \* path -> NoFile or [content, mtime]
  now,       \* the clock: one unit per change to the disk
  pending,   \* debounce buffer: path -> kind of its last event, or "none"
  queue,     \* the index channel
  files,     \* table indexed_files with its chunks
  next_id,   \* its sequence
  projects,  \* table projects
  failures,  \* table index_failures
  wk,        \* worker -> its program counter and locals
  faults,    \* faults so far
  had        \* history: path -> contents its file has ever had

world  == <<disk, now, had>>
tables == <<files, next_id, projects, failures>>
vars == <<disk, now, pending, queue, files, next_id, projects, failures, wk,
          faults, had>>

Kinds == {"none", "Index", "Remove"}

PCs == {"idle", "remove", "stat", "gone", "project", "oversize", "read", "bad",
        "hash", "canonical", "exists", "rename", "duplicate", "cleared",
        "recheck", "replace"}

Times   == 0..MaxOps
Hashes  == Contents \cup (Nat \X Times)
Files   == [content : Contents, mtime : Times]
Rows    == [path : Paths, hash : Hashes, mtime : Times, size : Nat,
            chunks : Contents \cup {NoChunks}, duplicate_of : Nat]
Idle(p) == [pc |-> "idle", path |-> p, mtime |-> 0, size |-> 0,
            hash |-> NoContent, canonical |-> 0, old_path |-> p]

TypeOK ==
  /\ disk \in [Paths -> Files \cup {NoFile}] /\ now \in Times
  /\ pending \in [Paths -> Kinds]
  /\ queue \in Seq(Paths \X (Kinds \ {"none"})) /\ Len(queue) <= QueueCap
  /\ next_id \in Nat \ {0} /\ DOMAIN files \subseteq 1..next_id - 1
  /\ \A i \in DOMAIN files : files[i] \in Rows
  /\ projects \subseteq Projects
  /\ DOMAIN failures \subseteq Paths
  /\ \A p \in DOMAIN failures :
       failures[p] \in [count : 1..MaxIndexRetries, at : Times]
  /\ wk \in [Workers -> [pc : PCs, path : Paths, mtime : Times, size : Nat,
                         hash : Hashes \cup {NoContent}, canonical : Nat,
                         old_path : Paths]]
  /\ faults \in 0..MaxFaults /\ had \in [Paths -> SUBSET Contents]

Init ==
  /\ disk = [p \in Paths |-> NoFile] /\ now = 0
  /\ pending = [p \in Paths |-> "none"] /\ queue = <<>>
  /\ files = [i \in {} |-> 0] /\ next_id = 1 /\ projects = {} /\ failures = NoFailures
  /\ wk = [w \in Workers |-> Idle(CHOOSE p \in Paths : TRUE)]
  /\ faults = 0 /\ had = [p \in Paths |-> {}]

OnDisk(p) == disk[p] # NoFile

-----------------------------------------------------------------------------
(* The file system and the watcher.                                        *)

\* The callback's event replaces the path's pending one, or is lost.
Notify(p, kind) ==
  \/ pending' = [pending EXCEPT ![p] = kind] /\ UNCHANGED faults
  \/ faults < MaxFaults /\ faults' = faults + 1 /\ UNCHANGED pending

Write(p, c) ==
  /\ now < MaxOps /\ now' = now + 1
  /\ disk' = [disk EXCEPT ![p] = [content |-> c, mtime |-> now + 1]]
  /\ had' = [had EXCEPT ![p] = @ \cup {c}]
  /\ Notify(p, "Index")
  /\ UNCHANGED <<queue, tables, wk>>

Unlink(p) ==
  /\ now < MaxOps /\ now' = now + 1
  /\ OnDisk(p) /\ disk' = [disk EXCEPT ![p] = NoFile] /\ UNCHANGED had
  /\ Notify(p, "Remove")
  /\ UNCHANGED <<queue, tables, wk>>

\* A rename keeps the mtime.  It arrives as a Modify of both paths, and the
\* callback drops the one whose path is no longer a file.
Rename(p, q) ==
  /\ now < MaxOps /\ now' = now + 1
  /\ OnDisk(p) /\ disk' = [disk EXCEPT ![p] = NoFile, ![q] = disk[p]]
  /\ had' = [had EXCEPT ![q] = @ \cup {disk[p].content}]
  /\ Notify(q, "Index")
  /\ UNCHANGED <<queue, tables, wk>>

\* The channel without its bound.
EmitUnbounded(p) ==
  /\ pending[p] # "none"
  /\ queue' = Append(queue, <<p, pending[p]>>)
  /\ pending' = [pending EXCEPT ![p] = "none"]
  /\ UNCHANGED <<world, tables, wk, faults>>

\* The debounce time of a path passes; the subscriber's send blocks while the
\* channel is full.
Emit(p) ==
  /\ pending[p] # "none" /\ Len(queue) < QueueCap
  /\ queue' = Append(queue, <<p, pending[p]>>)
  /\ pending' = [pending EXCEPT ![p] = "none"]
  /\ UNCHANGED <<world, tables, wk, faults>>

-----------------------------------------------------------------------------
(* process_index_file_task.                                                *)

At(w, pc)   == wk[w].pc = pc
Goto(w, pc) == wk' = [wk EXCEPT ![w].pc = pc]
Done(w)     == wk' = [wk EXCEPT ![w] = Idle(CHOOSE p \in Paths : TRUE)]

\* An upsert takes an id only when the path has no row.
NewId(path) == next_id' = IF RowsAt(files, path) = {} THEN next_id + 1 ELSE next_id

Take(w) ==
  /\ At(w, "idle") /\ queue # <<>>
  /\ queue' = Tail(queue)
  /\ wk' = [wk EXCEPT ![w].path = Head(queue)[1],
                      ![w].pc = IF Head(queue)[2] = "Remove" THEN "remove" ELSE "stat"]
  /\ UNCHANGED <<world, pending, tables, faults>>

\* A Remove task, or a file that has gone by the time it is looked at.
Delete(w) ==
  /\ At(w, "remove") \/ At(w, "gone")
  /\ files' = DeleteFile(files, wk[w].path)
  /\ Done(w)
  /\ UNCHANGED <<world, pending, queue, next_id, projects, failures, faults>>

Stat(w) ==
  LET f == disk[wk[w].path] IN
  /\ At(w, "stat")
  /\ IF f = NoFile
     THEN Goto(w, "gone")
     ELSE wk' = [wk EXCEPT ![w].pc = "project", ![w].mtime = f.mtime,
                           ![w].size = SizeOf[f.content]]
  /\ UNCHANGED <<world, pending, queue, tables, faults>>

UpsertProject(w) ==
  /\ At(w, "project")
  /\ projects' = projects \cup {ProjectOf[wk[w].path]}
  /\ Goto(w, IF wk[w].size > MaxFileSize THEN "oversize" ELSE "read")
  /\ UNCHANGED <<world, pending, queue, files, next_id, failures, faults>>

\* The pre-read gate: a file too large is known by its size and mtime.
Oversize(w) ==
  LET hash == <<wk[w].size, wk[w].mtime>> IN
  /\ At(w, "oversize")
  /\ IF hash \in GetContentHash(files, wk[w].path)
     THEN Done(w)
     ELSE wk' = [wk EXCEPT ![w].pc = "replace", ![w].hash = hash]
  /\ UNCHANGED <<world, pending, queue, tables, faults>>

\* An extractor that is not installed is no failure of the file.  One that
\* rejects the file, or does not find it, is; a source file that has gone is
\* not ("transient I/O").
Read(w) ==
  LET p == wk[w].path
      f == disk[p]
  IN
  /\ At(w, "read")
  /\ IF p \in NoTool \/ (f = NoFile /\ p \notin Documents) THEN Done(w)
     ELSE IF f = NoFile \/ f.content \in BadContents THEN Goto(w, "bad")
     ELSE wk' = [wk EXCEPT ![w].pc = "hash", ![w].hash = f.content]
  /\ UNCHANGED <<world, pending, queue, tables, faults>>

Ledger(w) ==
  /\ At(w, "bad")
  /\ failures' = RecordIndexFailure(failures, wk[w].path, now)
  /\ Done(w)
  /\ UNCHANGED <<world, pending, queue, files, next_id, projects, faults>>

\* Level 2: the row of this path already has this content.
Level2(w) ==
  /\ At(w, "hash")
  /\ IF wk[w].hash \in GetContentHash(files, wk[w].path)
     THEN Done(w) ELSE Goto(w, "canonical")
  /\ UNCHANGED <<world, pending, queue, tables, faults>>

LookUpCanonical(w) ==
  LET found == {i \in FindCanonicalByContentHash(files, ProjectOf[wk[w].path],
                                                 wk[w].hash) :
                  files[i].path # wk[w].path}
  IN
  /\ At(w, "canonical")
  /\ \/ found = {} /\ Goto(w, "recheck")
     \/ \E i \in found :
          wk' = [wk EXCEPT ![w].pc = "exists", ![w].canonical = i,
                           ![w].old_path = files[i].path]
  /\ UNCHANGED <<world, pending, queue, tables, faults>>

OldExists(w) ==
  /\ At(w, "exists")
  /\ Goto(w, IF OnDisk(wk[w].old_path) THEN "duplicate" ELSE "rename")
  /\ UNCHANGED <<world, pending, queue, tables, faults>>

\* UNIQUE (path) rejects the update when another row has the path; when the
\* canonical row has gone, the update of no row succeeds.
RenameRow(w) ==
  /\ At(w, "rename")
  /\ IF /\ wk[w].canonical \in DOMAIN files
        /\ PathTaken(files, wk[w].canonical, wk[w].path)
     THEN Done(w) /\ UNCHANGED files
     ELSE /\ files' = UpdateFilePathInPlace(files, wk[w].canonical, wk[w].path,
                                            wk[w].mtime)
          /\ Goto(w, "cleared")
  /\ UNCHANGED <<world, pending, queue, next_id, projects, failures, faults>>

\* The row with the mtime taken when it is written, after the content was read.
ReplacementStatLate(w) ==
  [path |-> wk[w].path, hash |-> wk[w].hash,
   mtime |-> IF OnDisk(wk[w].path) THEN disk[wk[w].path].mtime ELSE wk[w].mtime,
   size |-> wk[w].size,
   chunks |-> IF wk[w].hash \in Contents THEN wk[w].hash ELSE NoChunks]

\* The row the worker is about to write.
Replacement(w) ==
  [path |-> wk[w].path, hash |-> wk[w].hash, mtime |-> wk[w].mtime,
   size |-> wk[w].size,
   chunks |-> IF wk[w].hash \in Contents THEN wk[w].hash ELSE NoChunks]

\* The foreign keys want the project and the canonical row.
InsertDuplicate(w) ==
  /\ At(w, "duplicate")
  /\ IF ProjectOf[wk[w].path] \in projects /\ wk[w].canonical \in DOMAIN files
     THEN /\ files' = InsertDuplicateFile(files, next_id, Replacement(w),
                                          wk[w].canonical)
          /\ NewId(wk[w].path)
          /\ Goto(w, "cleared")
     ELSE Done(w) /\ UNCHANGED <<files, next_id>>
  /\ UNCHANGED <<world, pending, queue, projects, failures, faults>>

\* The second statement of a rename or a duplicate.
ClearLedger(w) ==
  /\ At(w, "cleared")
  /\ failures' = ClearIndexFailure(failures, wk[w].path)
  /\ Done(w)
  /\ UNCHANGED <<world, pending, queue, files, next_id, projects, faults>>

Level2Again(w) ==
  /\ At(w, "recheck")
  /\ IF wk[w].hash \in GetContentHash(files, wk[w].path)
     THEN Done(w) ELSE Goto(w, "replace")
  /\ UNCHANGED <<world, pending, queue, tables, faults>>

\* Chunk, embed, and replace the row in one transaction, which the project's
\* foreign key rejects if the project has gone.
Replace(w) ==
  /\ At(w, "replace")
  /\ IF ProjectOf[wk[w].path] \in projects
     THEN /\ files' = ReplaceIndexedFile(files, next_id, Replacement(w))
          /\ NewId(wk[w].path)
          /\ failures' = ClearIndexFailure(failures, wk[w].path)
     ELSE UNCHANGED <<files, next_id, failures>>
  /\ Done(w)
  /\ UNCHANGED <<world, pending, queue, projects, faults>>

-----------------------------------------------------------------------------
(* Faults.                                                                 *)

Fault == faults < MaxFaults /\ faults' = faults + 1

\* An error that ends the task, or a panic in it, which the event loop
\* catches: the task is dropped.
Abandon(w) ==
  /\ ~At(w, "idle") /\ Fault
  /\ Done(w)
  /\ UNCHANGED <<world, pending, queue, tables>>

\* A lookup that fails is logged and taken for "not found".
LookUpFails(w) ==
  /\ Fault
  /\ \/ At(w, "hash") /\ Goto(w, "canonical")
     \/ At(w, "canonical") /\ Goto(w, "recheck")
     \/ At(w, "recheck") /\ Goto(w, "replace")
     \/ /\ At(w, "oversize")
        /\ wk' = [wk EXCEPT ![w].pc = "replace",
                            ![w].hash = <<wk[w].size, wk[w].mtime>>]
  /\ UNCHANGED <<world, pending, queue, tables>>

\* The daemon dies; what was in memory is gone.
Crash ==
  /\ Fault
  /\ pending' = [p \in Paths |-> "none"] /\ queue' = <<>>
  /\ wk' = [w \in Workers |-> Idle(CHOOSE p \in Paths : TRUE)]
  /\ UNCHANGED <<world, tables>>

-----------------------------------------------------------------------------
User ==
  \/ \E p \in Paths, c \in Contents : Write(p, c)
  \/ \E p \in Paths : Unlink(p)
  \/ \E m \in Moves : Rename(m[1], m[2])

Process(w) ==
  \/ Delete(w) \/ Stat(w) \/ UpsertProject(w) \/ Oversize(w)
  \/ Read(w) \/ Ledger(w) \/ Level2(w) \/ LookUpCanonical(w) \/ OldExists(w)
  \/ RenameRow(w) \/ InsertDuplicate(w) \/ ClearLedger(w) \/ Level2Again(w)
  \/ Replace(w)

Next ==
  \/ User
  \/ \E p \in Paths : Emit(p)
  \/ \E w \in Workers : Take(w) \/ Process(w) \/ Abandon(w) \/ LookUpFails(w)
  \/ Crash

Spec == Init /\ [][Next]_vars

-----------------------------------------------------------------------------
(* Properties.                                                             *)

\* The hash the indexer would store for what is on disk.
HashOf(f) == IF SizeOf[f.content] > MaxFileSize
             THEN <<SizeOf[f.content], f.mtime>> ELSE f.content

\* The scanner's Level-1 test (event_processor.rs:403, :857): it takes an
\* indexed file for unchanged.
Level1Unchanged(meta, f) == SizeOf[f.content] = meta.size /\ f.mtime <= meta.mtime

\* A row whose file the Level-1 test would skip records the file's content.
SkipSoundAt(i) ==
  LET f == disk[files[i].path] IN
  f # NoFile /\ Level1Unchanged(files[i], f) => files[i].hash = HashOf(f)

\* A file the Level-1 test would skip is indexed with the content it has now.
SkipSound == \A i \in DOMAIN files : SkipSoundAt(i)

\* No content the path's file has had was ever that of another file.
Unshared(p) == \A q \in Paths \ {p} : had[p] \cap had[q] = {}

\* As long as a file shares no content with another, and so is not renamed, a
\* skip of it is sound: stat comes before read, so a stored mtime is never
\* newer than the stored content, whatever the user and the other workers do
\* in between, and whatever they do to the rows of other files.
UnsharedSkipSound ==
  \A i \in DOMAIN files : Unshared(files[i].path) => SkipSoundAt(i)

Expected(i) == IF files[i].hash \in Contents THEN files[i].hash ELSE NoChunks

\* What chunk-bearing queries return for a path, through
\* COALESCE(duplicate_of_file_id, id), is the content whose hash the path's
\* row records, for a file that shares no content with another: no lookup of
\* another file's content finds its row, and none of its own finds another's.
UnsharedServedMatchesHash ==
  \A i \in DOMAIN files : Unshared(files[i].path) => Served(files, i) = Expected(i)

\* Following the pointer of a duplicate row leads to the content the row
\* records.
PointersServeTheirHash ==
  \A i \in DOMAIN files :
    files[i].duplicate_of # 0 => Served(files, i) = Expected(i)

\* The contents the files of a project have ever had.
held == [r \in Projects |-> UNION {had[p] : p \in {q \in Paths : ProjectOf[q] = r}}]

\* Content is shared within a project only: what a query returns for a file
\* has been, at some time, the content of a file of the same project, however
\* rows are renamed, pointed at one another, re-indexed and deleted.
ProjectIsolation ==
  \A i \in DOMAIN files :
    Served(files, i) \in held[ProjectOf[files[i].path]] \cup {NoChunks}
=============================================================================
