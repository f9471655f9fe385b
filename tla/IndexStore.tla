----------------------------- MODULE IndexStore -----------------------------
(***************************************************************************)
(* The PostgreSQL side of the file index: the rows of indexed_files with   *)
(* their file_chunks, and the failure ledger index_failures.  A table is a *)
(* function from the ids of its live rows; every query of                  *)
(* src/db/queries/{files,chunks,index_failures}.rs that the indexer issues *)
(* is an operator on it, one transaction each.                             *)
(*                                                                         *)
(* A content stands for the bytes of a file, for its xxh3 hash and for the *)
(* chunks cut from it; the hash of a file too large to be read is the pair *)
(* of its size and mtime.  A committed row always has a hash: the NULL     *)
(* that replace_indexed_file writes first is gone when it commits.         *)
(***************************************************************************)
EXTENDS Integers, FiniteSets

CONSTANTS
  Paths,            \* files under the workspaces
  Contents,         \* what a file can hold
  ProjectOf,        \* Paths -> project, the project a path resolves to
  SizeOf,           \* Contents -> size in bytes
  NoChunks,         \* no row of file_chunks
  MaxIndexRetries,  \* [indexer] max_index_retries
  Grain             \* clock units per microsecond, PostgreSQL's resolution

ASSUME StoreConstants ==
  /\ \A c \in Contents : SizeOf[c] \in Nat
  /\ Paths # {} /\ Paths \subseteq DOMAIN ProjectOf
  /\ NoChunks \notin Contents
  /\ MaxIndexRetries \in Nat \ {0} /\ Grain \in Nat \ {0}

Projects == {ProjectOf[p] : p \in Paths}

\* A timestamptz holds microseconds; a file's mtime holds nanoseconds.
Timestamptz(t) == t - (t % Grain)

RowsAt(tbl, path) == {i \in DOMAIN tbl : tbl[i].path = path}

\* The hash stored for a path, as a set of at most one.
GetContentHash(tbl, path) == {tbl[i].hash : i \in RowsAt(tbl, path)}

\* Chunks go with their row (CASCADE); pointers to it become NULL.
DeleteFiles(tbl, paths) ==
  LET live == {i \in DOMAIN tbl : tbl[i].path \notin paths}
  IN  [i \in live |->
         [tbl[i] EXCEPT !.duplicate_of = IF @ \in live THEN @ ELSE 0]]

DeleteFile(tbl, path) == DeleteFiles(tbl, {path})

\* The lookup without its project.
FindCanonicalAnywhere(tbl, project, hash) ==
  LET matches == {i \in DOMAIN tbl : /\ tbl[i].hash = hash
                                     /\ tbl[i].duplicate_of = 0}
  IN  {i \in matches : \A j \in matches : i <= j}

\* The canonical row of a content in a project, as a set of at most one.
FindCanonicalByContentHash(tbl, project, hash) ==
  LET matches == {i \in DOMAIN tbl : /\ ProjectOf[tbl[i].path] = project
                                     /\ tbl[i].hash = hash
                                     /\ tbl[i].duplicate_of = 0}
  IN  {i \in matches : \A j \in matches : i <= j}

With(f, k, v) == [i \in DOMAIN f \cup {k} |-> IF i = k THEN v ELSE f[i]]

\* The row a worker's values make, with these chunks and this pointer.
Row(f, chunks, duplicate_of) ==
  [path |-> f.path, hash |-> f.hash, mtime |-> Timestamptz(f.mtime), size |-> f.size,
   chunks |-> chunks, duplicate_of |-> duplicate_of]

\* Replacing a row but not its chunks.
ReplaceMetadataOnly(tbl, id, f) ==
  IF RowsAt(tbl, f.path) = {}
  THEN With(tbl, id, Row(f, f.chunks, 0))
  ELSE [i \in DOMAIN tbl |->
          IF tbl[i].path = f.path THEN Row(f, tbl[i].chunks, tbl[i].duplicate_of)
                                  ELSE tbl[i]]

\* Upsert by path: metadata, chunks and hash in one transaction.  An updated
\* row keeps its duplicate_of_file_id.
ReplaceIndexedFile(tbl, id, f) ==
  IF RowsAt(tbl, f.path) = {}
  THEN With(tbl, id, Row(f, f.chunks, 0))
  ELSE [i \in DOMAIN tbl |->
          IF tbl[i].path = f.path THEN Row(f, f.chunks, tbl[i].duplicate_of)
                                  ELSE tbl[i]]

\* Upsert by path of a pointer to a canonical row.  An updated row keeps the
\* chunks it had.
InsertDuplicateFile(tbl, id, f, canonical) ==
  IF RowsAt(tbl, f.path) = {}
  THEN With(tbl, id, Row(f, NoChunks, canonical))
  ELSE [i \in DOMAIN tbl |->
          IF tbl[i].path = f.path THEN Row(f, tbl[i].chunks, canonical)
                                  ELSE tbl[i]]

\* UNIQUE (path): another row holds the path.
PathTaken(tbl, id, path) == \E i \in DOMAIN tbl \ {id} : tbl[i].path = path

\* A rename; no row is updated when the id is gone.
UpdateFilePathInPlace(tbl, id, path, mtime) ==
  [i \in DOMAIN tbl |->
     IF i = id THEN [tbl[i] EXCEPT !.path = path, !.mtime = Timestamptz(mtime)]
               ELSE tbl[i]]

\* (path, size, mtime) of every indexed file, keyed by path.
GetAllFileMetadata(tbl) ==
  [p \in {tbl[i].path : i \in DOMAIN tbl} |->
     LET i == CHOOSE j \in DOMAIN tbl : tbl[j].path = p
     IN  [size |-> tbl[i].size, mtime |-> tbl[i].mtime]]

\* What a chunk-bearing query returns for a row:
\* JOIN file_chunks ON file_id = COALESCE(duplicate_of_file_id, id).
Served(tbl, i) ==
  tbl[IF tbl[i].duplicate_of = 0 THEN i ELSE tbl[i].duplicate_of].chunks

NoFailures == [p \in {} |-> 0]

\* The upsert without its increment: a repeated failure counts as the first.
RecordIndexFailureAnew(ledger, path, time) ==
  With(ledger, path, [count |-> 1, at |-> Timestamptz(time)])

\* The count saturates: it is only ever compared with max_index_retries.
RecordIndexFailure(ledger, path, time) ==
  LET count == IF path \in DOMAIN ledger THEN ledger[path].count ELSE 0
      bumped == IF count < MaxIndexRetries THEN count + 1 ELSE count
  IN  With(ledger, path, [count |-> bumped, at |-> Timestamptz(time)])

ClearIndexFailure(ledger, path) ==
  [p \in DOMAIN ledger \ {path} |-> ledger[p]]

\* Paths at the retry cap, with the time of the last failure.
GetBoundedFailurePaths(ledger) ==
  [p \in {q \in DOMAIN ledger : ledger[q].count >= MaxIndexRetries} |-> ledger[p].at]
=============================================================================
