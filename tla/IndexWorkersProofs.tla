------------------------- MODULE IndexWorkersProofs -------------------------
(***************************************************************************)
(* Proofs about the indexing pipeline, for every set of paths, projects,   *)
(* contents and workers, and every number of changes and faults.           *)
(***************************************************************************)
EXTENDS IndexWorkers, TLAPS

-----------------------------------------------------------------------------
(* The store *)

\* A table of indexed files whose sequence stands at n.
Table(tbl, n) ==
  DOMAIN tbl \subseteq 1..n - 1 /\ \A i \in DOMAIN tbl : tbl[i] \in Rows

\* What a worker writes.
NewRow == [path : Paths, hash : Hashes, mtime : Times, size : Nat,
           chunks : Contents \cup {NoChunks}]

\* Cutting a time to microseconds never makes it later.
LEMMA TimestamptzType ==
  ASSUME NEW t \in Times
  PROVE  Timestamptz(t) \in Times /\ Timestamptz(t) <= t
<1>1. Grain \in Nat /\ Grain > 0 /\ t \in Nat /\ MaxOps \in Nat /\ t <= MaxOps
  BY StoreConstants, WorkerConstants DEF Times
<1>2. t % Grain \in 0..Grain - 1
  BY <1>1
<1>3. t % Grain <= t
  <2>1. CASE t < Grain
    BY <2>1, <1>1, <1>2
  <2>2. CASE t >= Grain
    BY <2>2, <1>1, <1>2
  <2> QED BY <2>1, <2>2, <1>1
<1> QED BY <1>1, <1>2, <1>3 DEF Timestamptz, Times

\* replace_indexed_file keeps the rows there are, and adds one if the path had
\* none.
LEMMA ReplaceDomain ==
  ASSUME NEW tbl, NEW n, NEW f
  PROVE  DOMAIN ReplaceIndexedFile(tbl, n, f)
           = IF RowsAt(tbl, f.path) = {} THEN DOMAIN tbl \cup {n} ELSE DOMAIN tbl
BY Zenon DEF ReplaceIndexedFile, With

\* So does insert_duplicate_file.
LEMMA DuplicateDomain ==
  ASSUME NEW tbl, NEW n, NEW f, NEW canonical
  PROVE  DOMAIN InsertDuplicateFile(tbl, n, f, canonical)
           = IF RowsAt(tbl, f.path) = {} THEN DOMAIN tbl \cup {n} ELSE DOMAIN tbl
BY Zenon DEF InsertDuplicateFile, With

\* What replace_indexed_file makes of a table.
Replaced(tbl, new, f) ==
  \A i \in DOMAIN new :
       \/ i \in DOMAIN tbl /\ tbl[i].path # f.path /\ new[i] = tbl[i]
       \/ /\ new[i] \in Rows
          /\ (i \in DOMAIN tbl => tbl[i].path = f.path)
          /\ new[i].path = f.path /\ new[i].hash = f.hash
          /\ new[i].mtime = Timestamptz(f.mtime) /\ new[i].chunks = f.chunks
          /\ \/ new[i].duplicate_of = 0
             \/ /\ i \in DOMAIN tbl /\ tbl[i].path = f.path
                /\ new[i].duplicate_of = tbl[i].duplicate_of

\* What insert_duplicate_file makes of it.
Duplicated(tbl, new, f, canonical) ==
  \A i \in DOMAIN new :
       \/ i \in DOMAIN tbl /\ tbl[i].path # f.path /\ new[i] = tbl[i]
       \/ /\ new[i] \in Rows
          /\ (i \in DOMAIN tbl => tbl[i].path = f.path)
          /\ new[i].path = f.path /\ new[i].hash = f.hash
          /\ new[i].mtime = Timestamptz(f.mtime)
          /\ new[i].duplicate_of = canonical
          /\ \/ new[i].chunks = NoChunks
             \/ /\ i \in DOMAIN tbl /\ tbl[i].path = f.path
                /\ new[i].chunks = tbl[i].chunks

\* What update_file_path_in_place makes of it.
Renamed(tbl, new, id, path) ==
  /\ DOMAIN new = DOMAIN tbl
  /\ \A i \in DOMAIN new :
       /\ new[i] \in Rows
       /\ i # id => new[i] = tbl[i]
       /\ i = id => new[i].path = path
       /\ new[i].hash = tbl[i].hash /\ new[i].chunks = tbl[i].chunks
       /\ new[i].duplicate_of = tbl[i].duplicate_of

\* replace_indexed_file: one row of the path, with the new hash and chunks.
LEMMA ReplaceFacts ==
  ASSUME NEW tbl, NEW n \in Nat \ {0}, Table(tbl, n), NEW f \in NewRow
  PROVE  Replaced(tbl, ReplaceIndexedFile(tbl, n, f), f)
<1> DEFINE new == ReplaceIndexedFile(tbl, n, f)
<1>0. /\ Row(f, f.chunks, 0) \in Rows
      /\ \A i \in DOMAIN tbl : Row(f, f.chunks, tbl[i].duplicate_of) \in Rows
  BY Zenon, TimestamptzType DEF NewRow, Rows, Row, Table
<1>1. CASE RowsAt(tbl, f.path) = {}
  <2>1. new = With(tbl, n, Row(f, f.chunks, 0))
    BY Zenon, <1>1 DEF ReplaceIndexedFile
  <2>2. n \notin DOMAIN tbl /\ \A i \in DOMAIN tbl : tbl[i].path # f.path
    BY <1>1 DEF Table, RowsAt
  <2> QED BY <1>0, <1>1, <2>1, <2>2 DEF With, Row, Replaced
<1>2. CASE RowsAt(tbl, f.path) # {}
  <2>1. new = [i \in DOMAIN tbl |->
                 IF tbl[i].path = f.path THEN Row(f, f.chunks, tbl[i].duplicate_of)
                                         ELSE tbl[i]]
    BY Zenon, <1>2 DEF ReplaceIndexedFile
  <2> QED BY <1>0, <1>2, <2>1 DEF Row, Replaced
<1> QED BY Zenon, <1>1, <1>2

\* replace_indexed_file keeps the types of the rows.
LEMMA ReplaceRows ==
  ASSUME NEW tbl, NEW n \in Nat \ {0}, Table(tbl, n), NEW f \in NewRow
  PROVE  \A i \in DOMAIN ReplaceIndexedFile(tbl, n, f) :
           ReplaceIndexedFile(tbl, n, f)[i] \in Rows
<1> DEFINE new == ReplaceIndexedFile(tbl, n, f)
<1>1. Replaced(tbl, new, f)
  BY Zenon, ReplaceFacts
<1>2. \A i \in DOMAIN tbl : tbl[i] \in Rows
  BY Zenon DEF Table
<1> HIDE DEF new
<1>3. \A i \in DOMAIN new : new[i] \in Rows
  BY Zenon, <1>1, <1>2 DEF Replaced
<1> QED BY Zenon, <1>3 DEF new

\* insert_duplicate_file: one row of the path, pointing at the canonical row.
LEMMA DuplicateFacts ==
  ASSUME NEW tbl, NEW n \in Nat \ {0}, Table(tbl, n), NEW f \in NewRow,
         NEW canonical \in Nat
  PROVE  Duplicated(tbl, InsertDuplicateFile(tbl, n, f, canonical), f, canonical)
<1> DEFINE new == InsertDuplicateFile(tbl, n, f, canonical)
<1>0. /\ Row(f, NoChunks, canonical) \in Rows
      /\ \A i \in DOMAIN tbl : Row(f, tbl[i].chunks, canonical) \in Rows
  BY Zenon, TimestamptzType DEF NewRow, Rows, Row, Table
<1>1. CASE RowsAt(tbl, f.path) = {}
  <2>1. new = With(tbl, n, Row(f, NoChunks, canonical))
    BY Zenon, <1>1 DEF InsertDuplicateFile
  <2>2. n \notin DOMAIN tbl /\ \A i \in DOMAIN tbl : tbl[i].path # f.path
    BY <1>1 DEF Table, RowsAt
  <2> QED BY <1>0, <1>1, <2>1, <2>2 DEF With, Row, Duplicated
<1>2. CASE RowsAt(tbl, f.path) # {}
  <2>1. new = [i \in DOMAIN tbl |->
                 IF tbl[i].path = f.path THEN Row(f, tbl[i].chunks, canonical)
                                         ELSE tbl[i]]
    BY Zenon, <1>2 DEF InsertDuplicateFile
  <2> QED BY <1>0, <1>2, <2>1 DEF Row, Duplicated
<1> QED BY Zenon, <1>1, <1>2

\* insert_duplicate_file keeps the types of the rows.
LEMMA DuplicateRows ==
  ASSUME NEW tbl, NEW n \in Nat \ {0}, Table(tbl, n), NEW f \in NewRow,
         NEW canonical \in Nat
  PROVE  \A i \in DOMAIN InsertDuplicateFile(tbl, n, f, canonical) :
           InsertDuplicateFile(tbl, n, f, canonical)[i] \in Rows
<1> DEFINE new == InsertDuplicateFile(tbl, n, f, canonical)
<1>1. Duplicated(tbl, new, f, canonical)
  BY Zenon, DuplicateFacts
<1>2. \A i \in DOMAIN tbl : tbl[i] \in Rows
  BY Zenon DEF Table
<1> HIDE DEF new
<1>3. \A i \in DOMAIN new : new[i] \in Rows
  BY Zenon, <1>1, <1>2 DEF Duplicated
<1> QED BY Zenon, <1>3 DEF new

\* delete_files_batch: no new rows, and the others change in their pointer only.
LEMMA DeleteFacts ==
  ASSUME NEW tbl, NEW n \in Nat \ {0}, Table(tbl, n), NEW gone
  PROVE  LET new == DeleteFiles(tbl, gone) IN
         /\ DOMAIN new \subseteq DOMAIN tbl
         /\ \A i \in DOMAIN tbl : i \in DOMAIN new <=> tbl[i].path \notin gone
         /\ \A i \in DOMAIN new :
              /\ new[i] \in Rows
              /\ new[i].path = tbl[i].path /\ new[i].hash = tbl[i].hash
              /\ new[i].mtime = tbl[i].mtime /\ new[i].chunks = tbl[i].chunks
              /\ \/ new[i].duplicate_of = 0
                 \/ /\ new[i].duplicate_of = tbl[i].duplicate_of
                    /\ new[i].duplicate_of \in DOMAIN new
<1> DEFINE live == {i \in DOMAIN tbl : tbl[i].path \notin gone}
           new  == DeleteFiles(tbl, gone)
<1>1. new = [i \in live |->
               [tbl[i] EXCEPT !.duplicate_of = IF @ \in live THEN @ ELSE 0]]
  BY Zenon DEF DeleteFiles
<1> HIDE DEF live, new
<1>2. ASSUME NEW i \in live
      PROVE  /\ new[i] \in Rows
             /\ new[i].path = tbl[i].path /\ new[i].hash = tbl[i].hash
             /\ new[i].mtime = tbl[i].mtime /\ new[i].chunks = tbl[i].chunks
             /\ \/ new[i].duplicate_of = 0
                \/ /\ new[i].duplicate_of = tbl[i].duplicate_of
                   /\ new[i].duplicate_of \in live
  <2>1. tbl[i] \in Rows
    BY Zenon DEF Table, live
  <2> QED BY Zenon, <1>1, <2>1 DEF Rows
<1>3. DOMAIN new = live
  BY Zenon, <1>1
<1> QED BY Zenon, <1>2, <1>3 DEF live, new

\* update_file_path_in_place: the row of the id, if there is one, takes the
\* path and the mtime.
LEMMA RenameFacts ==
  ASSUME NEW tbl, NEW n \in Nat \ {0}, Table(tbl, n), NEW id, NEW path \in Paths,
         NEW t \in Times
  PROVE  Renamed(tbl, UpdateFilePathInPlace(tbl, id, path, t), id, path)
<1> DEFINE new == UpdateFilePathInPlace(tbl, id, path, t)
<1>0. Timestamptz(t) \in Times
  BY Zenon, TimestamptzType
<1>1. new = [i \in DOMAIN tbl |->
               IF i = id
               THEN [tbl[i] EXCEPT !.path = path, !.mtime = Timestamptz(t)]
               ELSE tbl[i]]
  BY Zenon DEF UpdateFilePathInPlace
<1> HIDE DEF new
<1>2. ASSUME NEW i \in DOMAIN tbl
      PROVE  /\ new[i] \in Rows
             /\ i # id => new[i] = tbl[i]
             /\ i = id => new[i].path = path
             /\ new[i].hash = tbl[i].hash /\ new[i].chunks = tbl[i].chunks
             /\ new[i].duplicate_of = tbl[i].duplicate_of
  <2>1. tbl[i] \in Rows
    BY Zenon DEF Table
  <2> QED BY Zenon, <1>0, <1>1, <2>1 DEF Rows
<1>3. Renamed(tbl, new, id, path)
  BY Zenon, <1>1, <1>2 DEF Renamed
<1> QED BY Zenon, <1>3 DEF new

-----------------------------------------------------------------------------
(* Types *)

Locals == [pc : PCs, path : Paths, mtime : Times, size : Nat,
           hash : Hashes \cup {NoContent}, canonical : Nat, old_path : Paths]

WorldOK ==
  /\ disk \in [Paths -> Files \cup {NoFile}] /\ now \in Times
  /\ had \in [Paths -> SUBSET Contents]

ChannelOK ==
  /\ pending \in [Paths -> Kinds]
  /\ queue \in Seq(Paths \X (Kinds \ {"none"})) /\ Len(queue) <= QueueCap

FilesOK == next_id \in Nat \ {0} /\ Table(files, next_id)

LedgerOK ==
  /\ DOMAIN failures \subseteq Paths
  /\ \A p \in DOMAIN failures :
       failures[p] \in [count : 1..MaxIndexRetries, at : Times]

WkOK == wk \in [Workers -> Locals]

\* TypeOK in parts.
LEMMA TypeParts ==
  TypeOK <=> /\ WorldOK /\ ChannelOK /\ FilesOK /\ LedgerOK /\ WkOK
             /\ projects \subseteq Projects /\ faults \in 0..MaxFaults
BY Zenon DEF TypeOK, WorldOK, ChannelOK, FilesOK, Table, LedgerOK, WkOK, Locals

\* The locals of an idle worker.
LEMMA IdleType == Idle(CHOOSE p \in Paths : TRUE) \in Locals
<1>1. (CHOOSE p \in Paths : TRUE) \in Paths
  BY Zenon, StoreConstants
<1>2. 0 \in Times
  BY WorkerConstants DEF Times
<1> QED BY Zenon, <1>1, <1>2 DEF Idle, Locals, PCs

\* Setting one local of one worker.
LEMMA SetLocal ==
  ASSUME NEW f \in [Workers -> Locals], NEW w \in Workers
  PROVE  /\ \A v \in PCs : [f EXCEPT ![w].pc = v] \in [Workers -> Locals]
         /\ \A v \in Paths : /\ [f EXCEPT ![w].path = v] \in [Workers -> Locals]
                             /\ [f EXCEPT ![w].old_path = v] \in [Workers -> Locals]
         /\ \A v \in Times : [f EXCEPT ![w].mtime = v] \in [Workers -> Locals]
         /\ \A v \in Nat : /\ [f EXCEPT ![w].size = v] \in [Workers -> Locals]
                           /\ [f EXCEPT ![w].canonical = v] \in [Workers -> Locals]
         /\ \A v \in Hashes : [f EXCEPT ![w].hash = v] \in [Workers -> Locals]
<1>1. f[w] \in Locals
  BY Zenon
<1>2. \A v \in PCs : [f[w] EXCEPT !.pc = v] \in Locals
  BY Zenon, <1>1 DEF Locals
<1>3. \A v \in Paths : [f[w] EXCEPT !.path = v] \in Locals /\ [f[w] EXCEPT !.old_path = v] \in Locals
  BY Zenon, <1>1 DEF Locals
<1>4. \A v \in Times : [f[w] EXCEPT !.mtime = v] \in Locals
  BY Zenon, <1>1 DEF Locals
<1>5. \A v \in Nat : [f[w] EXCEPT !.size = v] \in Locals /\ [f[w] EXCEPT !.canonical = v] \in Locals
  BY Zenon, <1>1 DEF Locals
<1>6. \A v \in Hashes : [f[w] EXCEPT !.hash = v] \in Locals
  BY Zenon, <1>1 DEF Locals
<1> QED BY Zenon, <1>2, <1>3, <1>4, <1>5, <1>6

\* A worker moves on, or ends its task.
LEMMA GotoType ==
  ASSUME WkOK, NEW w \in Workers, NEW pc \in PCs, Goto(w, pc)
  PROVE  WkOK'
<1>1. wk[w] \in Locals
  BY Zenon DEF WkOK
<1>2. [wk[w] EXCEPT !.pc = pc] \in Locals
  BY Zenon, <1>1 DEF Locals
<1> QED BY Zenon, <1>2 DEF WkOK, Goto

LEMMA DoneType ==
  ASSUME WkOK, NEW w \in Workers, Done(w)
  PROVE  WkOK'
BY Zenon, IdleType DEF WkOK, Done

\* From the read on a worker has a hash.
WithHash == {"hash", "canonical", "exists", "rename", "duplicate", "recheck", "replace"}

HashKnown == \A w \in Workers : wk[w].pc \in WithHash => wk[w].hash \in Hashes

\* The inductive form of the type invariant.
TInv == TypeOK /\ HashKnown

\* The row a worker writes is well typed once it has a hash.
LEMMA ReplacementType ==
  ASSUME WkOK, NEW w \in Workers, wk[w].hash \in Hashes
  PROVE  Replacement(w) \in NewRow
BY Zenon DEF WkOK, Locals, Replacement, NewRow

\* Moving on without a hash, or with the one already there, and ending a task
\* keep HashKnown.
LEMMA HashKnownGoto ==
  ASSUME WkOK, HashKnown, NEW w \in Workers, NEW pc \in PCs, Goto(w, pc),
         pc \in WithHash => wk[w].hash \in Hashes
  PROVE  HashKnown'
<1> SUFFICES ASSUME NEW v \in Workers, wk'[v].pc \in WithHash
             PROVE  wk'[v].hash \in Hashes
  BY Zenon DEF HashKnown
<1>1. CASE v = w
  BY Zenon, <1>1 DEF Goto, WkOK, Locals
<1>2. CASE v # w
  BY Zenon, <1>2 DEF Goto, WkOK, HashKnown
<1> QED BY Zenon, <1>1, <1>2

LEMMA HashKnownDone ==
  ASSUME WkOK, HashKnown, NEW w \in Workers, Done(w)
  PROVE  HashKnown'
<1> SUFFICES ASSUME NEW v \in Workers, wk'[v].pc \in WithHash
             PROVE  wk'[v].hash \in Hashes
  BY Zenon DEF HashKnown
<1>1. CASE v = w
  BY Zenon, <1>1 DEF Done, WkOK, Idle, WithHash
<1>2. CASE v # w
  BY Zenon, <1>2 DEF Done, WkOK, HashKnown
<1> QED BY Zenon, <1>1, <1>2

\* A move to a state that needs no hash, or from one that has it, and the end
\* of a task, seen together.
LEMMA MoveOn ==
  ASSUME WkOK, HashKnown, NEW w \in Workers,
         \/ Done(w)
         \/ \E pc \in PCs : /\ Goto(w, pc)
                             /\ (pc \in WithHash => wk[w].hash \in Hashes)
  PROVE  WkOK' /\ HashKnown'
<1>1. CASE Done(w)
  BY Zenon, <1>1, DoneType, HashKnownDone
<1>2. CASE \E pc \in PCs : Goto(w, pc) /\ (pc \in WithHash => wk[w].hash \in Hashes)
  <2>1. PICK pc \in PCs : Goto(w, pc) /\ (pc \in WithHash => wk[w].hash \in Hashes)
    BY Zenon, <1>2
  <2> QED BY Zenon, <2>1, GotoType, HashKnownGoto
<1> QED BY Zenon, <1>1, <1>2

\* The ledger's updates.
LEMMA LedgerTypes ==
  ASSUME LedgerOK, NEW p \in Paths, NEW t \in Times
  PROVE  /\ failures' = RecordIndexFailure(failures, p, t) => LedgerOK'
         /\ failures' = ClearIndexFailure(failures, p) => LedgerOK'
<1> DEFINE count  == IF p \in DOMAIN failures THEN failures[p].count ELSE 0
           bumped == IF count < MaxIndexRetries THEN count + 1 ELSE count
           entry  == [count |-> bumped, at |-> Timestamptz(t)]
<1>1. count \in 0..MaxIndexRetries /\ MaxIndexRetries \in Nat /\ MaxIndexRetries > 0
  BY StoreConstants DEF LedgerOK
<1>2. bumped \in 1..MaxIndexRetries
  BY <1>1
<1>3. entry \in [count : 1..MaxIndexRetries, at : Times]
  BY Zenon, <1>2, TimestamptzType
<1>4. RecordIndexFailure(failures, p, t) = With(failures, p, entry)
  BY Zenon DEF RecordIndexFailure
<1> HIDE DEF entry
<1> QED BY <1>3, <1>4 DEF LedgerOK, With, ClearIndexFailure

\* The pipeline starts well typed.
LEMMA TypeInit == Init => TInv
<1> SUFFICES ASSUME Init PROVE TInv
  BY Zenon
<1>1. WorldOK
  BY WorkerConstants DEF Init, WorldOK, Times
<1>2. ChannelOK
  BY WorkerConstants DEF Init, ChannelOK, Kinds
<1>3. FilesOK /\ LedgerOK
  BY DEF Init, FilesOK, Table, LedgerOK, NoFailures
<1>4. WkOK
  BY Zenon, IdleType DEF Init, WkOK
<1>5. projects \subseteq Projects /\ faults \in 0..MaxFaults
  BY WorkerConstants DEF Init
<1>6. HashKnown
  BY Zenon DEF Init, HashKnown, Idle, WithHash
<1> QED BY Zenon, <1>1, <1>2, <1>3, <1>4, <1>5, <1>6, TypeParts DEF TInv

\* What is left alone keeps its type.
LEMMA Frame ==
  ASSUME TInv
  PROVE  /\ UNCHANGED world => WorldOK'
         /\ UNCHANGED <<pending, queue>> => ChannelOK'
         /\ UNCHANGED <<files, next_id>> => FilesOK'
         /\ UNCHANGED failures => LedgerOK'
         /\ UNCHANGED wk => WkOK' /\ HashKnown'
         /\ UNCHANGED projects => projects' \subseteq Projects
         /\ UNCHANGED faults => faults' \in 0..MaxFaults
         /\ Fault => faults' \in 0..MaxFaults
<1>1. UNCHANGED world => WorldOK'
  BY Zenon, TypeParts DEF TInv, world, WorldOK
<1>2. UNCHANGED <<pending, queue>> => ChannelOK'
  BY Zenon, TypeParts DEF TInv, ChannelOK
<1>3. UNCHANGED <<files, next_id>> => FilesOK'
  BY Zenon, TypeParts DEF TInv, FilesOK, Table
<1>4. UNCHANGED failures => LedgerOK'
  BY Zenon, TypeParts DEF TInv, LedgerOK
<1>5. UNCHANGED wk => WkOK' /\ HashKnown'
  BY Zenon, TypeParts DEF TInv, WkOK, HashKnown
<1>6. UNCHANGED projects => projects' \subseteq Projects
  BY Zenon, TypeParts DEF TInv
<1>7. UNCHANGED faults => faults' \in 0..MaxFaults
  BY Zenon, TypeParts DEF TInv
<1>8. Fault => faults' \in 0..MaxFaults
  BY TypeParts, WorkerConstants DEF TInv, Fault
<1> QED BY Zenon, <1>1, <1>2, <1>3, <1>4, <1>5, <1>6, <1>7, <1>8

\* The types after a step, in parts.
TypesNext ==
  /\ WorldOK' /\ ChannelOK' /\ FilesOK' /\ LedgerOK' /\ WkOK' /\ HashKnown'
  /\ projects' \subseteq Projects /\ faults' \in 0..MaxFaults

\* The user's changes to the disk keep the types.
LEMMA UserType == TInv /\ User => TypesNext
<1> SUFFICES ASSUME TInv, User PROVE TypesNext
  BY Zenon
<1>1. WorldOK /\ ChannelOK /\ faults \in 0..MaxFaults /\ MaxOps \in Nat /\ MaxFaults \in Nat
  BY Zenon, TypeParts, WorkerConstants DEF TInv
<1>2. ASSUME NEW p \in Paths, NEW k \in Kinds, Notify(p, k), UNCHANGED queue
      PROVE  ChannelOK' /\ faults' \in 0..MaxFaults
  BY <1>1, <1>2 DEF Notify, ChannelOK
<1>3. ASSUME NEW p \in Paths, NEW c \in Contents, Write(p, c)
      PROVE  TypesNext
  <2>1. ChannelOK' /\ faults' \in 0..MaxFaults
    BY Zenon, <1>2, <1>3 DEF Write, Kinds
  <2>2. now' \in Times /\ [content |-> c, mtime |-> now + 1] \in Files
    BY <1>1, <1>3 DEF Write, WorldOK, Times, Files
  <2>4. WorldOK'
    BY Zenon, <1>1, <1>3, <2>2 DEF Write, WorldOK
  <2> QED BY Zenon, <1>3, <2>1, <2>4, Frame DEF Write, tables, TypesNext
<1>4. ASSUME NEW p \in Paths, Unlink(p)
      PROVE  TypesNext
  <2>1. ChannelOK' /\ faults' \in 0..MaxFaults
    BY Zenon, <1>2, <1>4 DEF Unlink, Kinds
  <2>2. WorldOK'
    BY <1>1, <1>4 DEF Unlink, WorldOK, Times
  <2> QED BY Zenon, <1>4, <2>1, <2>2, Frame DEF Unlink, tables, TypesNext
<1>5. ASSUME NEW p \in Paths, NEW q \in Paths, Rename(p, q)
      PROVE  TypesNext
  <2>1. ChannelOK' /\ faults' \in 0..MaxFaults
    BY Zenon, <1>2, <1>5 DEF Rename, Kinds
  <2>2. disk[p] \in Files /\ disk[p].content \in Contents
    BY Zenon, <1>1, <1>5 DEF Rename, WorldOK, OnDisk, Files
  <2>4. WorldOK'
    BY <1>1, <1>5, <2>2 DEF Rename, WorldOK, Times
  <2> QED BY Zenon, <1>5, <2>1, <2>4, Frame DEF Rename, tables, TypesNext
<1>6. \A mv \in Moves : mv[1] \in Paths /\ mv[2] \in Paths
  BY Zenon, WorkerConstants
<1> QED BY Zenon, <1>3, <1>4, <1>5, <1>6 DEF User

\* The debounce thread and the intake of a task keep the types.
LEMMA IntakeType ==
  ASSUME TInv, \/ \E p \in Paths : Emit(p)
               \/ \E w \in Workers : Take(w)
  PROVE  TypesNext
<1>1. ChannelOK /\ WkOK /\ HashKnown /\ QueueCap \in Nat
  BY Zenon, TypeParts, WorkerConstants DEF TInv
<1>2. ASSUME NEW p \in Paths, Emit(p)
      PROVE  TypesNext
  <2>1. <<p, pending[p]>> \in Paths \X (Kinds \ {"none"})
    BY Zenon, <1>1, <1>2 DEF Emit, ChannelOK
  <2>2. Len(Append(queue, <<p, pending[p]>>)) = Len(queue) + 1 /\ Len(queue) \in Nat
    BY <1>1, <2>1 DEF ChannelOK
  <2>3. ChannelOK'
    BY <1>1, <1>2, <2>1, <2>2 DEF Emit, ChannelOK, Kinds
  <2> QED BY Zenon, <1>2, <2>3, Frame DEF Emit, tables, TypesNext
<1>3. ASSUME NEW w \in Workers, Take(w)
      PROVE  TypesNext
  <2>1. Head(queue) \in Paths \X (Kinds \ {"none"}) /\ Len(Tail(queue)) <= QueueCap
    BY <1>1, <1>3 DEF Take, ChannelOK
  <2>2. ChannelOK'
    BY <1>1, <1>3, <2>1 DEF Take, ChannelOK
  <2>3. PICK pc \in {"remove", "stat"} :
          wk' = [wk EXCEPT ![w].path = Head(queue)[1], ![w].pc = pc]
    BY Zenon, <1>3 DEF Take
  <2>4. wk'[w].pc = pc /\ \A v \in Workers \ {w} : wk'[v] = wk[v]
    BY Zenon, <1>1, <2>3 DEF WkOK, Locals
  <2>5. WkOK'
    <3> DEFINE moved == [wk EXCEPT ![w].path = Head(queue)[1]]
    <3>1. moved \in [Workers -> Locals]
      BY Zenon, <1>1, <2>1, SetLocal DEF WkOK
    <3>2. wk' = [moved EXCEPT ![w].pc = pc] /\ pc \in PCs
      BY Zenon, <2>3 DEF PCs
    <3> HIDE DEF moved
    <3> QED BY Zenon, <3>1, <3>2, SetLocal DEF WkOK
  <2>6. HashKnown'
    BY Zenon, <1>1, <2>4 DEF HashKnown, WithHash
  <2> QED BY Zenon, <1>3, <2>2, <2>5, <2>6, Frame DEF Take, tables, TypesNext
<1> QED BY Zenon, <1>2, <1>3

\* A worker takes a hash with it to a later step.
LEMMA TakeHashType ==
  ASSUME WkOK, HashKnown, NEW w \in Workers, NEW pc \in PCs, NEW h \in Hashes,
         wk' = [wk EXCEPT ![w].pc = pc, ![w].hash = h]
  PROVE  WkOK' /\ HashKnown' /\ wk'[w].hash = h
<1> DEFINE moved == [wk EXCEPT ![w].pc = pc]
<1>1. moved \in [Workers -> Locals]
  BY Zenon, SetLocal DEF WkOK
<1>2. wk' = [moved EXCEPT ![w].hash = h]
  BY Zenon
<1>3. \A v \in Workers : moved[v] \in Locals
  BY Zenon, <1>1
<1> HIDE DEF moved
<1>4. WkOK'
  <2>1. [moved EXCEPT ![w].hash = h] \in [Workers -> Locals]
    BY Zenon, <1>1, SetLocal
  <2> QED BY Zenon, <1>2, <2>1 DEF WkOK
<1>5. wk'[w].hash = h
  BY Zenon, <1>1, <1>2, <1>3 DEF Locals
<1>6. \A v \in Workers \ {w} : wk'[v] = wk[v]
  BY Zenon DEF WkOK
<1>7. ASSUME NEW v \in Workers, wk'[v].pc \in WithHash
      PROVE  wk'[v].hash \in Hashes
  <2>1. CASE v = w
    BY Zenon, <1>5, <2>1
  <2>2. CASE v # w
    BY Zenon, <1>6, <1>7, <2>2 DEF HashKnown
  <2> QED BY Zenon, <2>1, <2>2
<1> QED BY Zenon, <1>4, <1>5, <1>7 DEF HashKnown

\* The steps of process_index_file_task that read only.
LEMMA LookType ==
  ASSUME TInv, NEW w \in Workers,
         \/ Stat(w) \/ Oversize(w) \/ Read(w) \/ Level2(w) \/ LookUpCanonical(w)
         \/ OldExists(w) \/ Level2Again(w)
  PROVE  TypesNext
<1>1. WkOK /\ HashKnown /\ WorldOK /\ FilesOK /\ wk[w] \in Locals
  BY Zenon, TypeParts DEF TInv, WkOK
<1>2. UNCHANGED <<world, pending, queue, tables, faults>>
  BY Zenon DEF Stat, Oversize, Read, Level2, LookUpCanonical, OldExists, Level2Again
<1> SUFFICES WkOK' /\ HashKnown'
  BY Zenon, <1>2, Frame DEF tables, TypesNext
<1>3. CASE Stat(w)
  <2> DEFINE f == disk[wk[w].path]
  <2>1. CASE f = NoFile
    BY Zenon, <1>1, <1>3, <2>1, MoveOn DEF Stat, PCs, WithHash
  <2>2. CASE f # NoFile
    <3>1. f.mtime \in Times /\ SizeOf[f.content] \in Nat
      BY Zenon, <1>1, <2>2, StoreConstants DEF WorldOK, Files, Locals
    <3>2. wk' = [wk EXCEPT ![w].pc = "project", ![w].mtime = f.mtime,
                           ![w].size = SizeOf[f.content]]
      BY Zenon, <1>3, <2>2 DEF Stat
    <3> HIDE DEF f
    <3> DEFINE one == [wk EXCEPT ![w].pc = "project"]
               two == [one EXCEPT ![w].mtime = f.mtime]
    <3>3. one \in [Workers -> Locals]
      BY Zenon, <1>1, SetLocal DEF WkOK, PCs
    <3>4. two \in [Workers -> Locals]
      BY Zenon, <3>1, <3>3, SetLocal
    <3>5. wk' = [two EXCEPT ![w].size = SizeOf[f.content]]
      BY Zenon, <3>2
    <3>6. \A v \in Workers : wk'[v].pc = IF v = w THEN "project" ELSE wk[v].pc
      BY Zenon, <1>1, <3>2 DEF WkOK, Locals
    <3>7. \A v \in Workers \ {w} : wk'[v] = wk[v]
      BY Zenon, <1>1, <3>2 DEF WkOK
    <3> HIDE DEF one, two
    <3>8. WkOK'
      BY Zenon, <3>1, <3>4, <3>5, SetLocal DEF WkOK
    <3>9. HashKnown'
      BY Zenon, <1>1, <3>6, <3>7 DEF HashKnown, WithHash
    <3> QED BY Zenon, <3>8, <3>9
  <2> QED BY Zenon, <2>1, <2>2
<1>4. CASE Oversize(w)
  <2>1. <<wk[w].size, wk[w].mtime>> \in Hashes
    BY Zenon, <1>1 DEF Locals, Hashes
  <2> QED BY Zenon, <1>1, <1>4, <2>1, MoveOn, TakeHashType DEF Oversize, PCs
<1>5. CASE Read(w)
  <2> DEFINE f == disk[wk[w].path]
  <2>1. CASE Done(w) \/ Goto(w, "bad")
    BY Zenon, <1>1, <2>1, MoveOn DEF PCs, WithHash
  <2>2. CASE f # NoFile /\ wk' = [wk EXCEPT ![w].pc = "hash", ![w].hash = f.content]
    <3>1. f.content \in Hashes
      BY Zenon, <1>1, <2>2 DEF WorldOK, Files, Locals, Hashes
    <3> QED BY Zenon, <1>1, <2>2, <3>1, TakeHashType DEF PCs
  <2> QED BY Zenon, <1>5, <2>1, <2>2 DEF Read
<1>6. CASE Level2(w) \/ OldExists(w) \/ Level2Again(w)
  <2>1. wk[w].hash \in Hashes
    BY Zenon, <1>1, <1>6 DEF HashKnown, WithHash, Level2, OldExists, Level2Again, At
  <2> QED BY Zenon, <1>1, <1>6, <2>1, MoveOn DEF Level2, OldExists, Level2Again, PCs
<1>7. CASE LookUpCanonical(w)
  <2>1. wk[w].hash \in Hashes
    BY Zenon, <1>1, <1>7 DEF HashKnown, WithHash, LookUpCanonical, At
  <2>2. CASE Goto(w, "recheck")
    BY Zenon, <1>1, <2>1, <2>2, MoveOn DEF PCs
  <2>3. ASSUME NEW i \in DOMAIN files,
               wk' = [wk EXCEPT ![w].pc = "exists", ![w].canonical = i,
                                ![w].old_path = files[i].path]
        PROVE  WkOK' /\ HashKnown'
    <3> DEFINE one == [wk EXCEPT ![w].pc = "exists"]
               two == [one EXCEPT ![w].canonical = i]
    <3>1. i \in Nat /\ files[i].path \in Paths
      BY SMTT(40), <1>1 DEF FilesOK, Table, Rows
    <3>2. one \in [Workers -> Locals]
      BY Zenon, <1>1, SetLocal DEF WkOK, PCs
    <3>3. two \in [Workers -> Locals]
      BY Zenon, <3>1, <3>2, SetLocal
    <3>4. wk' = [two EXCEPT ![w].old_path = files[i].path]
      BY Zenon, <2>3
    <3>5. \A v \in Workers : wk'[v].hash = wk[v].hash
      BY Zenon, <1>1, <2>3 DEF WkOK, Locals
    <3>6. \A v \in Workers \ {w} : wk'[v] = wk[v]
      BY Zenon, <1>1, <2>3 DEF WkOK
    <3> HIDE DEF one, two
    <3>7. WkOK'
      BY Zenon, <3>1, <3>3, <3>4, SetLocal DEF WkOK
    <3>8. HashKnown'
      BY Zenon, <1>1, <2>1, <3>5, <3>6 DEF HashKnown
    <3> QED BY Zenon, <3>7, <3>8
  <2>4. \A i \in FindCanonicalByContentHash(files, ProjectOf[wk[w].path], wk[w].hash) :
          i \in DOMAIN files
    BY Zenon DEF FindCanonicalByContentHash
  <2> QED BY Zenon, ZenonT(40), <1>7, <2>2, <2>3, <2>4 DEF LookUpCanonical
<1> QED BY Zenon, <1>3, <1>4, <1>5, <1>6, <1>7

\* The steps of process_index_file_task that write, and the faults.
LEMMA WriteType ==
  ASSUME TInv, NEW w \in Workers,
         \/ Delete(w) \/ UpsertProject(w) \/ Ledger(w) \/ RenameRow(w)
         \/ InsertDuplicate(w) \/ ClearLedger(w) \/ Replace(w)
         \/ Abandon(w) \/ LookUpFails(w)
  PROVE  TypesNext
<1>1. /\ WkOK /\ HashKnown /\ WorldOK /\ FilesOK /\ LedgerOK /\ wk[w] \in Locals
      /\ projects \subseteq Projects
  BY Zenon, TypeParts DEF TInv, WkOK
<1>2. /\ wk[w].path \in Paths /\ wk[w].mtime \in Times /\ wk[w].canonical \in Nat
      /\ now \in Times /\ next_id \in Nat \ {0} /\ Table(files, next_id)
  BY Zenon, <1>1 DEF Locals, WorldOK, FilesOK
<1>3. CASE Delete(w)
  <2>1. FilesOK'
    <3>1. files' = DeleteFiles(files, {wk[w].path}) /\ next_id' = next_id
      BY Zenon, <1>3 DEF Delete, DeleteFile
    <3>2. DOMAIN files' \subseteq DOMAIN files /\ \A i \in DOMAIN files' : files'[i] \in Rows
      BY <1>2, <3>1, DeleteFacts
    <3> QED BY Zenon, ZenonT(40), <1>2, <3>1, <3>2 DEF FilesOK, Table
  <2>2. WkOK' /\ HashKnown'
    BY Zenon, <1>1, <1>3, MoveOn DEF Delete
  <2> QED BY Zenon, <1>3, <2>1, <2>2, Frame DEF Delete, TypesNext
<1>4. CASE UpsertProject(w)
  <2>1. WkOK' /\ HashKnown'
    BY Zenon, ZenonT(40), <1>1, <1>4, MoveOn DEF UpsertProject, PCs, WithHash
  <2>2. projects' \subseteq Projects
    BY Zenon, <1>1, <1>2, <1>4 DEF UpsertProject, Projects
  <2> QED BY Zenon, <1>4, <2>1, <2>2, Frame DEF UpsertProject, TypesNext
<1>5. CASE Ledger(w)
  <2>1. LedgerOK'
    BY Zenon, <1>1, <1>2, <1>5, LedgerTypes DEF Ledger
  <2>2. WkOK' /\ HashKnown'
    BY Zenon, <1>1, <1>5, MoveOn DEF Ledger
  <2> QED BY Zenon, <1>5, <2>1, <2>2, Frame DEF Ledger, TypesNext
<1>6. CASE ClearLedger(w)
  <2>1. LedgerOK'
    BY Zenon, <1>1, <1>2, <1>6, LedgerTypes DEF ClearLedger
  <2>2. WkOK' /\ HashKnown'
    BY Zenon, <1>1, <1>6, MoveOn DEF ClearLedger
  <2> QED BY Zenon, <1>6, <2>1, <2>2, Frame DEF ClearLedger, TypesNext
<1>7. CASE RenameRow(w)
  <2>1. FilesOK'
    <3>1. CASE UNCHANGED files
      BY Zenon, <1>7, <3>1, Frame DEF RenameRow
    <3>2. CASE files' = UpdateFilePathInPlace(files, wk[w].canonical, wk[w].path,
                                             wk[w].mtime)
      <4> DEFINE new == UpdateFilePathInPlace(files, wk[w].canonical, wk[w].path, wk[w].mtime)
      <4>1. Renamed(files, new, wk[w].canonical, wk[w].path)
        BY Zenon, <1>2, RenameFacts
      <4>2. files' = new /\ next_id' = next_id
        BY Zenon, <1>7, <3>2 DEF RenameRow
      <4> HIDE DEF new
      <4> QED BY Zenon, <1>2, <4>1, <4>2 DEF FilesOK, Table, Renamed
    <3> QED BY Zenon, <1>7, <3>1, <3>2 DEF RenameRow
  <2>2. WkOK' /\ HashKnown'
    BY Zenon, <1>1, <1>7, MoveOn DEF RenameRow, PCs, WithHash
  <2> QED BY Zenon, <1>7, <2>1, <2>2, Frame DEF RenameRow, TypesNext
<1>8. CASE InsertDuplicate(w)
  <2>1. Replacement(w) \in NewRow /\ Replacement(w).path = wk[w].path
    BY Zenon, ZenonT(40), <1>1, <1>8, ReplacementType DEF InsertDuplicate, At, HashKnown, WithHash, Replacement
  <2>2. FilesOK'
    <3>1. CASE UNCHANGED <<files, next_id>>
      BY Zenon, <3>1, Frame
    <3>2. CASE /\ files' = InsertDuplicateFile(files, next_id, Replacement(w),
                                              wk[w].canonical)
               /\ NewId(wk[w].path)
      <4> DEFINE new == InsertDuplicateFile(files, next_id, Replacement(w), wk[w].canonical)
      <4>1. /\ \A i \in DOMAIN new :
                  i \in DOMAIN files \/ (i = next_id /\ RowsAt(files, wk[w].path) = {})
            /\ \A i \in DOMAIN new : new[i] \in Rows
        <5>1. \A i \in DOMAIN new :
                 \/ i \in DOMAIN files
                 \/ i = next_id /\ RowsAt(files, Replacement(w).path) = {}
          <6>1. DOMAIN new = IF RowsAt(files, Replacement(w).path) = {}
                               THEN DOMAIN files \cup {next_id} ELSE DOMAIN files
            BY Zenon, DuplicateDomain
          <6> HIDE DEF new
          <6> QED BY Zenon, <6>1
        <5>2. \A i \in DOMAIN new : new[i] \in Rows
          BY Zenon, <1>2, <2>1, DuplicateRows
        <5> HIDE DEF new
        <5> QED BY Zenon, <2>1, <5>1, <5>2
      <4>2. files' = new /\ NewId(wk[w].path)
        BY Zenon, <3>2
      <4> HIDE DEF new
      <4>3. /\ \A i \in DOMAIN files' :
                  i \in DOMAIN files \/ (i = next_id /\ RowsAt(files, wk[w].path) = {})
            /\ \A i \in DOMAIN files' : files'[i] \in Rows
        BY Zenon, <4>1, <4>2
      <4>4. next_id' \in Nat \ {0} /\ next_id' >= next_id
        BY <1>2, <4>2 DEF NewId
      <4>5. DOMAIN files' \subseteq 1..next_id' - 1
        BY SMTT(40), <1>2, <4>2, <4>3, <4>4 DEF NewId, Table
      <4> QED BY Zenon, <4>3, <4>4, <4>5 DEF FilesOK, Table
    <3> QED BY Zenon, <1>8, <3>1, <3>2 DEF InsertDuplicate
  <2>3. WkOK' /\ HashKnown'
    BY Zenon, ZenonT(40), <1>1, <1>8, MoveOn DEF InsertDuplicate, PCs, WithHash
  <2> QED BY Zenon, <1>8, <2>2, <2>3, Frame DEF InsertDuplicate, TypesNext
<1>9. CASE Replace(w)
  <2>1. Replacement(w) \in NewRow /\ Replacement(w).path = wk[w].path
    BY Zenon, ZenonT(40), <1>1, <1>9, ReplacementType DEF Replace, At, HashKnown, WithHash, Replacement
  <2>2. FilesOK' /\ LedgerOK'
    <3>1. CASE UNCHANGED <<files, next_id, failures>>
      BY Zenon, <3>1, Frame
    <3>2. CASE /\ files' = ReplaceIndexedFile(files, next_id, Replacement(w))
               /\ NewId(wk[w].path)
               /\ failures' = ClearIndexFailure(failures, wk[w].path)
      <4> DEFINE new == ReplaceIndexedFile(files, next_id, Replacement(w))
      <4>1. /\ \A i \in DOMAIN new :
                  i \in DOMAIN files \/ (i = next_id /\ RowsAt(files, wk[w].path) = {})
            /\ \A i \in DOMAIN new : new[i] \in Rows
        <5>1. \A i \in DOMAIN new :
                 \/ i \in DOMAIN files
                 \/ i = next_id /\ RowsAt(files, Replacement(w).path) = {}
          <6>1. DOMAIN new = IF RowsAt(files, Replacement(w).path) = {}
                               THEN DOMAIN files \cup {next_id} ELSE DOMAIN files
            BY Zenon, ZenonT(40), ReplaceDomain
          <6> HIDE DEF new
          <6> QED BY Zenon, <6>1
        <5>2. \A i \in DOMAIN new : new[i] \in Rows
          BY Zenon, <1>2, <2>1, ReplaceRows
        <5> HIDE DEF new
        <5> QED BY Zenon, <2>1, <5>1, <5>2
      <4>2. files' = new /\ NewId(wk[w].path)
        BY Zenon, <3>2
      <4> HIDE DEF new
      <4>3. /\ \A i \in DOMAIN files' :
                  i \in DOMAIN files \/ (i = next_id /\ RowsAt(files, wk[w].path) = {})
            /\ \A i \in DOMAIN files' : files'[i] \in Rows
        BY Zenon, <4>1, <4>2
      <4>4. next_id' \in Nat \ {0} /\ next_id' >= next_id
        BY <1>2, <4>2 DEF NewId
      <4>5. DOMAIN files' \subseteq 1..next_id' - 1
        BY <1>2, <4>2, <4>3, <4>4 DEF NewId, Table
      <4>6. LedgerOK'
        BY Zenon, <1>1, <1>2, <3>2, LedgerTypes
      <4> QED BY Zenon, <4>3, <4>4, <4>5, <4>6 DEF FilesOK, Table
    <3> QED BY Zenon, <1>9, <3>1, <3>2 DEF Replace
  <2>3. WkOK' /\ HashKnown'
    BY Zenon, <1>1, <1>9, MoveOn DEF Replace
  <2> QED BY Zenon, ZenonT(40), <1>9, <2>2, <2>3, Frame DEF Replace, TypesNext
<1>10. CASE Abandon(w)
  <2>1. WkOK' /\ HashKnown'
    BY Zenon, <1>1, <1>10, MoveOn DEF Abandon
  <2> QED BY Zenon, <1>10, <2>1, Frame DEF Abandon, tables, TypesNext
<1>11. CASE LookUpFails(w)
  <2>1. CASE At(w, "oversize")
    <3>1. <<wk[w].size, wk[w].mtime>> \in Hashes
      BY Zenon, <1>1 DEF Locals, Hashes
    <3>2. wk' = [wk EXCEPT ![w].pc = "replace", ![w].hash = <<wk[w].size, wk[w].mtime>>]
      BY Zenon, <1>11, <2>1 DEF LookUpFails, At
    <3>3. WkOK' /\ HashKnown'
      BY Zenon, <1>1, <3>1, <3>2, TakeHashType DEF PCs
    <3> QED BY Zenon, <1>11, <3>3, Frame DEF LookUpFails, tables, TypesNext
  <2>2. CASE ~At(w, "oversize")
    <3>1. wk[w].hash \in Hashes
      BY Zenon, <1>1, <1>11, <2>2 DEF LookUpFails, At, HashKnown, WithHash
    <3>2. WkOK' /\ HashKnown'
      BY Zenon, <1>1, <1>11, <2>2, <3>1, MoveOn DEF LookUpFails, PCs
    <3> QED BY Zenon, <1>11, <3>2, Frame DEF LookUpFails, tables, TypesNext
  <2> QED BY Zenon, <2>1, <2>2
<1> QED BY Zenon, <1>3, <1>4, <1>5, <1>6, <1>7, <1>8, <1>9, <1>10, <1>11

\* Every step of the pipeline keeps the types.
LEMMA TypeStep == TInv /\ [Next]_vars => TInv'
<1> SUFFICES ASSUME TInv, [Next]_vars PROVE TypesNext
  BY Zenon, TypeParts DEF TInv, TypesNext, TypeOK, WorldOK, ChannelOK, FilesOK, Table,
     LedgerOK, WkOK, Locals
<1>1. CASE User
  BY Zenon, <1>1, UserType
<1>2. CASE \E p \in Paths : Emit(p)
  BY Zenon, <1>2, IntakeType
<1>3. ASSUME NEW w \in Workers, Take(w) \/ Process(w) \/ Abandon(w) \/ LookUpFails(w)
      PROVE  TypesNext
  BY Zenon, <1>3, IntakeType, LookType, WriteType DEF Process
<1>4. CASE Crash
  <2>1. WkOK' /\ HashKnown'
    BY Zenon, <1>4, IdleType DEF Crash, WkOK, HashKnown, Idle, WithHash
  <2>2. ChannelOK'
    BY <1>4, WorkerConstants DEF Crash, ChannelOK, Kinds
  <2> QED BY Zenon, <1>4, <2>1, <2>2, Frame DEF Crash, tables, TypesNext
<1>5. CASE UNCHANGED vars
  BY Zenon, <1>5, Frame DEF vars, world, TypesNext
<1> QED BY Zenon, <1>1, <1>2, <1>3, <1>4, <1>5 DEF Next

\* TypeOK holds in every reachable state.  It is inductive together with
\* HashKnown: a worker writes a row only after it has read or made a hash.
THEOREM TypeCorrect == Spec => []TypeOK
<1>1. TInv => TypeOK
  BY Zenon DEF TInv
<1> QED BY <1>1, TypeInit, TypeStep, PTL DEF Spec

-----------------------------------------------------------------------------
(* Content stays within its project: ProjectIsolation for every set of     *)
(* paths, projects, contents, moves and workers.                           *)


ProjectAt(i) == ProjectOf[files[i].path]

\* What a file has had its project has held, and what is had stays so.
LEMMA HeldHad ==
  ASSUME NEW p \in Paths
  PROVE  had[p] \subseteq held[ProjectOf[p]]
<1>1. ProjectOf[p] \in Projects
  BY Zenon DEF Projects
<1> QED BY Zenon, <1>1 DEF held

LEMMA HeldGrows ==
  ASSUME \A p \in Paths : had[p] \subseteq had'[p]
  PROVE  \A r \in Projects : held[r] \subseteq held'[r]
BY ZenonT(40) DEF held

WithCanonical == {"exists", "rename", "duplicate"}

\* Rows hold content of their project and point within it.
RowsIsolated ==
  \A i \in DOMAIN files :
    /\ files[i].chunks \in held[ProjectAt(i)] \cup {NoChunks}
    /\ files[i].duplicate_of # 0 =>
         /\ files[i].duplicate_of \in DOMAIN files
         /\ ProjectAt(files[i].duplicate_of) = ProjectAt(i)

\* What a worker carries belongs to the project of its path: the hash it has
\* read, and the canonical row it has found, as long as that row lives.
LocalsIsolated(w) ==
  /\ wk[w].pc = "idle" => wk[w].hash = NoContent
  /\ wk[w].hash \in Contents => wk[w].hash \in held[ProjectOf[wk[w].path]]
  /\ wk[w].pc \in WithCanonical =>
       /\ wk[w].canonical \in 1..next_id - 1
       /\ wk[w].canonical \in DOMAIN files =>
            ProjectAt(wk[w].canonical) = ProjectOf[wk[w].path]

\* held records what is on disk.
DiskHeld == \A p \in Paths : OnDisk(p) => disk[p].content \in held[ProjectOf[p]]

\* The inductive invariant.
IsoInv == TInv /\ DiskHeld /\ RowsIsolated /\ \A w \in Workers : LocalsIsolated(w)

\* A step in which no content is forgotten and no row changes project; a new
\* row takes an id that no worker can have seen.
Stable ==
  /\ \A r \in Projects : held[r] \subseteq held'[r]
  /\ next_id' \in Nat /\ next_id' >= next_id
  /\ \A i \in DOMAIN files' :
       i < next_id => i \in DOMAIN files /\ ProjectAt(i)' = ProjectAt(i)

\* The invariant implies the property: a query follows at most one pointer.
LEMMA IsoImplies == IsoInv => ProjectIsolation
BY Zenon DEF IsoInv, RowsIsolated, ProjectAt, ProjectIsolation, Served

\* The pipeline starts isolated.
LEMMA IsoInit == Init => IsoInv
<1> SUFFICES ASSUME Init PROVE IsoInv
  BY Zenon
<1>1. TInv
  BY Zenon, TypeInit
<1>2. RowsIsolated
  BY Zenon DEF Init, RowsIsolated
<1>3. ASSUME NEW w \in Workers PROVE LocalsIsolated(w)
  BY Zenon, WorkerConstants DEF Init, LocalsIsolated, Idle, WithCanonical
<1>4. DiskHeld
  BY Zenon DEF Init, DiskHeld, OnDisk
<1> QED BY Zenon, <1>1, <1>2, <1>3, <1>4 DEF IsoInv

\* The paths of rows and workers resolve to projects.
LEMMA Resolved ==
  ASSUME TInv
  PROVE  /\ \A i \in DOMAIN files : files[i] \in Rows /\ ProjectAt(i) \in Projects
         /\ \A w \in Workers : wk[w] \in Locals /\ ProjectOf[wk[w].path] \in Projects
         /\ next_id \in Nat \ {0} /\ Table(files, next_id)
         /\ \A i \in DOMAIN files : i \in Nat /\ i < next_id /\ i # 0
<1>1. FilesOK /\ WkOK
  BY Zenon, TypeParts DEF TInv
<1>2. \A i \in DOMAIN files : files[i] \in Rows /\ files[i].path \in Paths
  BY Zenon, <1>1 DEF FilesOK, Table, Rows
<1>3. \A w \in Workers : wk[w] \in Locals /\ wk[w].path \in Paths
  BY Zenon, <1>1 DEF WkOK, Locals
<1>4. next_id \in Nat \ {0} /\ Table(files, next_id)
  BY Zenon, <1>1 DEF FilesOK
<1>5. \A i \in DOMAIN files : i \in Nat /\ i < next_id /\ i # 0
  BY <1>4 DEF Table
<1> QED BY Zenon, <1>2, <1>3, <1>4, <1>5 DEF ProjectAt, Projects

\* A step that leaves the table alone is stable, and keeps the rows isolated.
LEMMA RowsFrame ==
  ASSUME IsoInv, UNCHANGED <<files, next_id>>,
         \A r \in Projects : held[r] \subseteq held'[r]
  PROVE  Stable /\ RowsIsolated'
<1>1. TInv /\ RowsIsolated
  BY Zenon DEF IsoInv
<1>2. Stable
  BY <1>1, Resolved DEF Stable, ProjectAt
<1>3. RowsIsolated'
  BY Zenon, <1>1, Resolved DEF RowsIsolated, ProjectAt
<1> QED BY Zenon, <1>2, <1>3

\* A stable step keeps isolated a worker that it leaves alone.
LEMMA LocalsFrame ==
  ASSUME IsoInv, Stable, NEW v \in Workers, wk'[v] = wk[v]
  PROVE  LocalsIsolated(v)'
<1>1. TInv /\ LocalsIsolated(v)
  BY Zenon DEF IsoInv
<1>2. ProjectOf[wk[v].path] \in Projects /\ next_id \in Nat
  BY Zenon, <1>1, Resolved
<1> QED BY <1>1, <1>2 DEF LocalsIsolated, Stable

\* A worker that moves on, or ends its task, in a stable step stays isolated.
LEMMA LocalsMove ==
  ASSUME IsoInv, Stable, NEW w \in Workers,
         \/ Done(w)
         \/ \E pc \in PCs \ {"idle"} :
              /\ Goto(w, pc)
              /\ (pc \in WithCanonical => wk[w].pc \in WithCanonical)
  PROVE  \A v \in Workers : LocalsIsolated(v)'
<1>1. TInv /\ LocalsIsolated(w) /\ wk \in [Workers -> Locals]
  BY Zenon, TypeParts DEF IsoInv, TInv, WkOK
<1>2. ProjectOf[wk[w].path] \in Projects /\ next_id \in Nat
  BY Zenon, <1>1, Resolved
<1>3. CASE Done(w)
  <2>1. wk'[w] = Idle(CHOOSE p \in Paths : TRUE) /\ \A v \in Workers \ {w} : wk'[v] = wk[v]
    BY Zenon, <1>1, <1>3 DEF Done
  <2>2. LocalsIsolated(w)'
    BY <2>1, WorkerConstants DEF LocalsIsolated, Idle, WithCanonical
  <2> QED BY Zenon, <2>1, <2>2, LocalsFrame
<1>4. CASE \E pc \in PCs \ {"idle"} :
             Goto(w, pc) /\ (pc \in WithCanonical => wk[w].pc \in WithCanonical)
  <2>1. PICK pc \in PCs \ {"idle"} :
          Goto(w, pc) /\ (pc \in WithCanonical => wk[w].pc \in WithCanonical)
    BY Zenon, <1>4
  <2>2. /\ wk'[w].pc = pc /\ wk'[w].hash = wk[w].hash /\ wk'[w].path = wk[w].path
        /\ wk'[w].canonical = wk[w].canonical
        /\ \A v \in Workers \ {w} : wk'[v] = wk[v]
    BY Zenon, <1>1, <2>1 DEF Goto, Locals
  <2>3. LocalsIsolated(w)'
    BY <1>1, <1>2, <2>1, <2>2 DEF LocalsIsolated, Stable
  <2> QED BY Zenon, <2>2, <2>3, LocalsFrame
<1> QED BY Zenon, <1>3, <1>4

\* What a step must establish beyond the types.
IsoNext == DiskHeld' /\ RowsIsolated' /\ \A w \in Workers : LocalsIsolated(w)'

\* A step that leaves the disk alone keeps DiskHeld.
LEMMA DiskFrame ==
  ASSUME IsoInv, UNCHANGED world
  PROVE  DiskHeld' /\ \A r \in Projects : held[r] \subseteq held'[r]
<1>1. held' = held
  BY Zenon DEF world, held
<1> QED BY Zenon, <1>1 DEF IsoInv, DiskHeld, OnDisk, world

\* The user's changes to the disk.
LEMMA IsoUser ==
  ASSUME IsoInv, User
  PROVE  IsoNext
<1>1. WorldOK /\ DiskHeld /\ \A p \in Paths : ProjectOf[p] \in Projects
  BY Zenon, TypeParts DEF IsoInv, TInv, Projects
<1>2. UNCHANGED <<files, next_id, wk>>
  BY Zenon DEF User, Write, Unlink, Rename, tables
<1>3. \A p \in Paths : had[p] \subseteq had'[p]
  BY <1>1 DEF User, Write, Unlink, Rename, WorldOK
<1>4. \A r \in Projects : held[r] \subseteq held'[r]
  BY Zenon, <1>3, HeldGrows
<1>5. \A p \in Paths : had'[p] \subseteq held'[ProjectOf[p]]
  BY Zenon, <1>1 DEF held
<1>6. DiskHeld'
  <2>1. ASSUME NEW p \in Paths, NEW c \in Contents, Write(p, c)
        PROVE  \A q \in Paths : disk'[q] # NoFile =>
                 disk'[q] = disk[q] \/ disk'[q].content \in had'[q]
    BY Zenon, <1>1, <2>1 DEF Write, WorldOK
  <2>2. ASSUME NEW p \in Paths, Unlink(p)
        PROVE  \A q \in Paths : disk'[q] # NoFile =>
                 disk'[q] = disk[q] \/ disk'[q].content \in had'[q]
    BY Zenon, <1>1, <2>2 DEF Unlink, WorldOK
  <2>3. ASSUME NEW p \in Paths, NEW q \in Paths, Rename(p, q)
        PROVE  \A z \in Paths : disk'[z] # NoFile =>
                 disk'[z] = disk[z] \/ disk'[z].content \in had'[z]
    BY Zenon, <1>1, <2>3 DEF Rename, WorldOK
  <2>4. \A mv \in Moves : mv[1] \in Paths /\ mv[2] \in Paths
    BY Zenon, WorkerConstants
  <2>5. \A q \in Paths : disk'[q] # NoFile =>
          disk'[q] = disk[q] \/ disk'[q].content \in had'[q]
    BY Zenon, <2>1, <2>2, <2>3, <2>4 DEF User
  <2> QED BY Zenon, <1>1, <1>4, <1>5, <2>5 DEF DiskHeld, OnDisk
<1> QED BY Zenon, <1>2, <1>4, <1>6, RowsFrame, LocalsFrame DEF IsoNext

\* A task is taken by a worker that carries nothing.
LEMMA IsoTake ==
  ASSUME IsoInv, NEW w \in Workers, Take(w)
  PROVE  IsoNext
<1>1. wk \in [Workers -> Locals] /\ LocalsIsolated(w)
  BY Zenon, TypeParts DEF IsoInv, TInv, WkOK
<1>2. UNCHANGED <<world, files, next_id>>
  BY Zenon DEF Take, tables
<1>3. Stable /\ RowsIsolated' /\ DiskHeld'
  BY Zenon, <1>2, DiskFrame, RowsFrame
<1>4. PICK pc \in {"remove", "stat"} :
        wk' = [wk EXCEPT ![w].path = Head(queue)[1], ![w].pc = pc]
  BY Zenon DEF Take
<1>5. wk'[w].pc = pc /\ wk'[w].hash = wk[w].hash /\ \A v \in Workers \ {w} : wk'[v] = wk[v]
  BY Zenon, <1>1, <1>4 DEF Locals
<1>6. wk'[w].hash = NoContent
  BY Zenon, <1>1, <1>5 DEF LocalsIsolated, Take, At
<1>7. LocalsIsolated(w)'
  BY Zenon, <1>5, <1>6, WorkerConstants DEF LocalsIsolated, WithCanonical
<1> QED BY Zenon, <1>3, <1>5, <1>7, LocalsFrame DEF IsoNext

\* A worker takes a hash with it that is no content, or one of its project's.
LEMMA IsoTakeHash ==
  ASSUME IsoInv, Stable, NEW w \in Workers, NEW pc \in PCs \ {"idle"}, NEW h,
         pc \notin WithCanonical,
         \A v \in Workers \ {w} : wk'[v] = wk[v],
         wk'[w].pc = pc, wk'[w].hash = h, wk'[w].path = wk[w].path,
         h \in Contents => h \in held[ProjectOf[wk[w].path]]
  PROVE  \A v \in Workers : LocalsIsolated(v)'
<1>1. ProjectOf[wk[w].path] \in Projects
  BY Zenon, Resolved DEF IsoInv
<1>2. LocalsIsolated(w)'
  BY Zenon, <1>1 DEF LocalsIsolated, Stable
<1> QED BY Zenon, <1>2, LocalsFrame

\* The steps of process_index_file_task that read only.
LEMMA IsoLook ==
  ASSUME IsoInv, NEW w \in Workers,
         \/ Stat(w) \/ Oversize(w) \/ Read(w) \/ Level2(w) \/ LookUpCanonical(w)
         \/ OldExists(w) \/ Level2Again(w)
  PROVE  IsoNext
<1>1. /\ wk \in [Workers -> Locals] /\ LocalsIsolated(w) /\ DiskHeld /\ TInv
      /\ ProjectOf[wk[w].path] \in Projects /\ wk[w].path \in Paths /\ WorldOK
  BY Zenon, TypeParts, Resolved DEF IsoInv, TInv, WkOK, Locals
<1>2. UNCHANGED <<world, files, next_id>>
  BY Zenon DEF Stat, Oversize, Read, Level2, LookUpCanonical, OldExists, Level2Again, tables
<1>3. Stable /\ RowsIsolated' /\ DiskHeld'
  BY Zenon, <1>2, DiskFrame, RowsFrame
<1> SUFFICES \A v \in Workers : LocalsIsolated(v)'
  BY Zenon, <1>3 DEF IsoNext
<1> DEFINE f == disk[wk[w].path]
<1>4. CASE Stat(w)
  <2>1. CASE f = NoFile
    BY SMTT(40), <1>3, <1>4, <2>1, LocalsMove DEF Stat, PCs, WithCanonical
  <2>2. CASE f # NoFile
    <3>1. wk' = [wk EXCEPT ![w].pc = "project", ![w].mtime = f.mtime,
                           ![w].size = SizeOf[f.content]]
      BY Zenon, <1>4, <2>2 DEF Stat
    <3> HIDE DEF f
    <3>2. /\ wk'[w].pc = "project" /\ wk'[w].hash = wk[w].hash
          /\ wk'[w].path = wk[w].path /\ \A v \in Workers \ {w} : wk'[v] = wk[v]
      BY Zenon, <1>1, <3>1 DEF Locals
    <3>3. LocalsIsolated(w)'
      BY Zenon, <1>1, <1>3, <3>2 DEF LocalsIsolated, Stable, WithCanonical
    <3> QED BY Zenon, <1>3, <3>2, <3>3, LocalsFrame
  <2> QED BY Zenon, <2>1, <2>2
<1>5. CASE Oversize(w)
  <2>1. <<wk[w].size, wk[w].mtime>> \notin Contents
    <3>1. wk[w].size \in Nat /\ wk[w].mtime \in Nat
      BY <1>1 DEF Locals, Times
    <3> QED BY Zenon, <3>1, WorkerConstants
  <2>2. CASE Done(w)
    BY Zenon, <1>3, <2>2, LocalsMove
  <2>3. CASE wk' = [wk EXCEPT ![w].pc = "replace", ![w].hash = <<wk[w].size, wk[w].mtime>>]
    <3>1. /\ wk'[w].pc = "replace" /\ wk'[w].hash = <<wk[w].size, wk[w].mtime>>
          /\ wk'[w].path = wk[w].path /\ \A v \in Workers \ {w} : wk'[v] = wk[v]
      BY Zenon, <1>1, <2>3 DEF Locals
    <3> QED BY Zenon, <1>3, <2>1, <3>1, IsoTakeHash DEF PCs, WithCanonical
  <2> QED BY Zenon, <1>5, <2>2, <2>3 DEF Oversize
<1>6. CASE Read(w)
  <2>1. CASE Done(w) \/ Goto(w, "bad")
    BY SMTT(40), <1>3, <2>1, LocalsMove DEF PCs, WithCanonical
  <2>2. CASE f # NoFile /\ wk' = [wk EXCEPT ![w].pc = "hash", ![w].hash = f.content]
    <3>1. f.content \in held[ProjectOf[wk[w].path]]
      BY Zenon, <1>1, <2>2 DEF DiskHeld, OnDisk
    <3> HIDE DEF f
    <3>2. /\ wk'[w].pc = "hash" /\ wk'[w].hash = f.content
          /\ wk'[w].path = wk[w].path /\ \A v \in Workers \ {w} : wk'[v] = wk[v]
      BY Zenon, <1>1, <2>2 DEF Locals
    <3> QED BY Zenon, <1>3, <3>1, <3>2, IsoTakeHash DEF PCs, WithCanonical
  <2> QED BY Zenon, <1>6, <2>1, <2>2 DEF Read
<1>7. CASE Level2(w) \/ OldExists(w) \/ Level2Again(w)
  BY SMTT(40), <1>3, <1>7, LocalsMove DEF Level2, OldExists, Level2Again, At, PCs, WithCanonical
<1>8. CASE LookUpCanonical(w)
  <2>1. CASE Goto(w, "recheck")
    BY SMTT(40), <1>3, <2>1, LocalsMove DEF PCs, WithCanonical
  <2>2. ASSUME NEW i \in FindCanonicalByContentHash(files, ProjectOf[wk[w].path], wk[w].hash),
               wk' = [wk EXCEPT ![w].pc = "exists", ![w].canonical = i,
                                ![w].old_path = files[i].path]
        PROVE  \A v \in Workers : LocalsIsolated(v)'
    <3>1. i \in DOMAIN files /\ ProjectAt(i) = ProjectOf[wk[w].path]
      BY Zenon DEF FindCanonicalByContentHash, ProjectAt
    <3>2. i \in 1..next_id - 1
      BY <1>1, <3>1, Resolved
    <3>3. /\ wk'[w].pc = "exists" /\ wk'[w].hash = wk[w].hash
          /\ wk'[w].path = wk[w].path /\ wk'[w].canonical = i
          /\ \A v \in Workers \ {w} : wk'[v] = wk[v]
      BY Zenon, <1>1, <2>2 DEF Locals
    <3>4. LocalsIsolated(w)'
      BY Zenon, <1>1, <1>2, <1>3, <3>1, <3>2, <3>3 DEF LocalsIsolated, Stable, ProjectAt
    <3> QED BY Zenon, <1>3, <3>3, <3>4, LocalsFrame
  <2> QED BY Zenon, ZenonT(40), <1>8, <2>1, <2>2 DEF LookUpCanonical
<1> QED BY Zenon, <1>4, <1>5, <1>6, <1>7, <1>8

\* Deleting a path's row takes the pointers to it along.
LEMMA IsoDelete ==
  ASSUME IsoInv, NEW w \in Workers, Delete(w)
  PROVE  Stable /\ RowsIsolated'
<1>1. TInv /\ RowsIsolated
  BY Zenon DEF IsoInv
<1>2. next_id \in Nat \ {0} /\ Table(files, next_id)
  BY Zenon, <1>1, Resolved
<1>0. files' = DeleteFiles(files, {wk[w].path})
  BY Zenon DEF Delete, DeleteFile
<1>3. next_id' = next_id /\ held' = held
  BY Zenon DEF Delete, world, held
<1>4. /\ DOMAIN files' \subseteq DOMAIN files
      /\ \A i \in DOMAIN files' :
           /\ files'[i].path = files[i].path /\ files'[i].chunks = files[i].chunks
           /\ \/ files'[i].duplicate_of = 0
              \/ /\ files'[i].duplicate_of = files[i].duplicate_of
                 /\ files'[i].duplicate_of \in DOMAIN files'
  BY SMTT(40), <1>0, <1>2, DeleteFacts
<1>5. Stable
  BY SMTT(40), <1>2, <1>3, <1>4 DEF Stable, ProjectAt
<1>6. ASSUME NEW i \in DOMAIN files'
      PROVE  /\ files'[i].chunks \in held'[ProjectOf[files'[i].path]] \cup {NoChunks}
             /\ files'[i].duplicate_of # 0 =>
                  /\ files'[i].duplicate_of \in DOMAIN files'
                  /\ ProjectOf[files'[files'[i].duplicate_of].path]
                       = ProjectOf[files'[i].path]
  BY SMTT(40), <1>1, <1>3, <1>4 DEF RowsIsolated, ProjectAt
<1>7. RowsIsolated'
  BY Zenon, <1>6 DEF RowsIsolated, ProjectAt
<1> QED BY Zenon, <1>5, <1>7

\* A rename moves a row within the project of the path it was found for.
LEMMA IsoRename ==
  ASSUME IsoInv, NEW w \in Workers, RenameRow(w)
  PROVE  Stable /\ RowsIsolated'
<1>1. TInv /\ RowsIsolated /\ LocalsIsolated(w) /\ wk[w].pc = "rename"
  BY Zenon DEF IsoInv, RenameRow, At
<1>2. /\ next_id \in Nat \ {0} /\ Table(files, next_id)
      /\ wk[w].path \in Paths /\ wk[w].mtime \in Times
  BY Zenon, <1>1, Resolved DEF Locals
<1>3. next_id' = next_id /\ held' = held
  BY Zenon DEF RenameRow, world, held
<1>4. CASE UNCHANGED files
  BY Zenon, <1>3, <1>4, RowsFrame
<1>5. CASE files' = UpdateFilePathInPlace(files, wk[w].canonical, wk[w].path, wk[w].mtime)
  <2>1. /\ DOMAIN files' = DOMAIN files
        /\ \A i \in DOMAIN files' :
             /\ i # wk[w].canonical => files'[i] = files[i]
             /\ i = wk[w].canonical => files'[i].path = wk[w].path
             /\ files'[i].chunks = files[i].chunks
             /\ files'[i].duplicate_of = files[i].duplicate_of
    <3> DEFINE new == UpdateFilePathInPlace(files, wk[w].canonical, wk[w].path, wk[w].mtime)
    <3>1. Renamed(files, new, wk[w].canonical, wk[w].path)
      BY Zenon, <1>2, RenameFacts
    <3>2. files' = new
      BY Zenon, <1>5
    <3> HIDE DEF new
    <3> QED BY Zenon, <3>1, <3>2 DEF Renamed
  <2>2. \A i \in DOMAIN files' : ProjectAt(i)' = ProjectAt(i)
    BY Zenon, <1>1, <2>1 DEF ProjectAt, LocalsIsolated, WithCanonical
  <2>3. Stable
    BY SMTT(40), <1>2, <1>3, <2>1, <2>2 DEF Stable
  <2>4. RowsIsolated'
    BY <1>1, <1>3, <2>1, <2>2 DEF RowsIsolated
  <2> QED BY Zenon, <2>3, <2>4
<1> QED BY Zenon, <1>4, <1>5 DEF RenameRow

\* An upsert gives a path's row, or a new one, chunks and a pointer of its
\* project.
LEMMA IsoUpsert ==
  ASSUME IsoInv, NEW path \in Paths, held' = held, NewId(path),
         DOMAIN files \subseteq DOMAIN files',
         \A i \in DOMAIN files' :
           i \in DOMAIN files \/ (i = next_id /\ RowsAt(files, path) = {}),
         \A i \in DOMAIN files' :
           \/ i \in DOMAIN files /\ files'[i] = files[i]
           \/ /\ files'[i].path = path
              /\ (i \in DOMAIN files => files[i].path = path)
              /\ files'[i].chunks \in held[ProjectOf[path]] \cup {NoChunks}
              /\ (files'[i].duplicate_of # 0 =>
                    /\ files'[i].duplicate_of \in DOMAIN files
                    /\ ProjectAt(files'[i].duplicate_of) = ProjectOf[path])
  PROVE  Stable /\ RowsIsolated'
<1>1. TInv /\ RowsIsolated
  BY Zenon DEF IsoInv
<1>2. next_id \in Nat \ {0} /\ \A i \in DOMAIN files : i \in Nat /\ i < next_id
  BY Zenon, <1>1, Resolved
<1>3. next_id' \in Nat /\ next_id' >= next_id
  BY SMTT(40), <1>2 DEF NewId
<1>4. \A i \in DOMAIN files : i \in DOMAIN files' /\ ProjectAt(i)' = ProjectAt(i)
  BY Zenon DEF ProjectAt
<1>5. Stable
  BY SMTT(40), <1>2, <1>3, <1>4 DEF Stable
<1>6. ASSUME NEW i \in DOMAIN files'
      PROVE  /\ files'[i].chunks \in held'[ProjectOf[files'[i].path]] \cup {NoChunks}
             /\ files'[i].duplicate_of # 0 =>
                  /\ files'[i].duplicate_of \in DOMAIN files'
                  /\ ProjectOf[files'[files'[i].duplicate_of].path]
                       = ProjectOf[files'[i].path]
  <2>1. CASE i \in DOMAIN files /\ files'[i] = files[i]
    BY SMTT(40), <1>1, <1>4, <2>1 DEF RowsIsolated, ProjectAt
  <2>2. CASE ~(i \in DOMAIN files /\ files'[i] = files[i])
    BY Zenon, <1>4, <2>2 DEF ProjectAt
  <2> QED BY Zenon, <2>1, <2>2
<1>7. RowsIsolated'
  BY Zenon, <1>6 DEF RowsIsolated, ProjectAt
<1> QED BY Zenon, <1>5, <1>7

\* A duplicate points at the row found in its own project.
LEMMA IsoDuplicate ==
  ASSUME IsoInv, NEW w \in Workers, InsertDuplicate(w)
  PROVE  Stable /\ RowsIsolated'
<1>1. /\ TInv /\ RowsIsolated /\ LocalsIsolated(w) /\ wk[w].pc = "duplicate"
      /\ WkOK /\ HashKnown
  BY Zenon, TypeParts DEF IsoInv, TInv, InsertDuplicate, At
<1>2. /\ next_id \in Nat \ {0} /\ Table(files, next_id)
      /\ wk[w].path \in Paths /\ wk[w].canonical \in Nat
  BY Zenon, <1>1, Resolved DEF Locals
<1>3. held' = held
  BY Zenon DEF InsertDuplicate, world, held
<1>4. CASE UNCHANGED <<files, next_id>>
  BY Zenon, <1>3, <1>4, RowsFrame
<1>5. CASE /\ wk[w].canonical \in DOMAIN files
           /\ files' = InsertDuplicateFile(files, next_id, Replacement(w), wk[w].canonical)
           /\ NewId(wk[w].path)
  <2>1. Replacement(w) \in NewRow /\ Replacement(w).path = wk[w].path
    BY Zenon, <1>1, ReplacementType DEF HashKnown, WithHash, Replacement
  <2> DEFINE new == InsertDuplicateFile(files, next_id, Replacement(w), wk[w].canonical)
  <2>2. /\ DOMAIN files \subseteq DOMAIN new
        /\ \A i \in DOMAIN new :
             i \in DOMAIN files \/ (i = next_id /\ RowsAt(files, Replacement(w).path) = {})
    <3>1. DOMAIN new = IF RowsAt(files, Replacement(w).path) = {}
                         THEN DOMAIN files \cup {next_id} ELSE DOMAIN files
      BY ZenonT(40), ZenonT(40), DuplicateDomain
    <3> HIDE DEF new
    <3> QED BY Zenon, <3>1
  <2>6. \A i \in DOMAIN new :
          \/ i \in DOMAIN files /\ new[i] = files[i]
          \/ /\ new[i].path = Replacement(w).path
             /\ (i \in DOMAIN files => files[i].path = Replacement(w).path)
             /\ new[i].duplicate_of = wk[w].canonical
             /\ \/ new[i].chunks = NoChunks
                \/ /\ i \in DOMAIN files /\ files[i].path = Replacement(w).path
                   /\ new[i].chunks = files[i].chunks
    <3>1. Duplicated(files, new, Replacement(w), wk[w].canonical)
      BY Zenon, <1>2, <2>1, DuplicateFacts
    <3> HIDE DEF new
    <3> QED BY Zenon, <3>1 DEF Duplicated
  <2>3. files' = new /\ NewId(wk[w].path) /\ wk[w].canonical \in DOMAIN files
    BY Zenon, <1>5
  <2>4. ProjectAt(wk[w].canonical) = ProjectOf[wk[w].path]
    BY Zenon, <1>1, <1>5 DEF LocalsIsolated, WithCanonical
  <2>5. \A i \in DOMAIN files : files[i].path = wk[w].path =>
          files[i].chunks \in held[ProjectOf[wk[w].path]] \cup {NoChunks}
    BY Zenon, <1>1 DEF RowsIsolated, ProjectAt
  <2> HIDE DEF new
  <2> QED BY ZenonT(40), ZenonT(40), <1>2, <1>3, <2>1, <2>2, <2>3, <2>4, <2>5, <2>6, IsoUpsert
<1> QED BY Zenon, <1>4, <1>5 DEF InsertDuplicate

\* A replaced row holds what the worker read, and points where it did.
LEMMA IsoReplace ==
  ASSUME IsoInv, NEW w \in Workers, Replace(w)
  PROVE  Stable /\ RowsIsolated'
<1>1. /\ TInv /\ RowsIsolated /\ LocalsIsolated(w) /\ wk[w].pc = "replace"
      /\ WkOK /\ HashKnown
  BY Zenon, TypeParts DEF IsoInv, TInv, Replace, At
<1>2. next_id \in Nat \ {0} /\ Table(files, next_id) /\ wk[w].path \in Paths
  BY Zenon, <1>1, Resolved DEF Locals
<1>3. held' = held
  BY Zenon, ZenonT(40) DEF Replace, world, held
<1>4. CASE UNCHANGED <<files, next_id>>
  BY Zenon, <1>3, <1>4, RowsFrame
<1>5. CASE /\ files' = ReplaceIndexedFile(files, next_id, Replacement(w))
           /\ NewId(wk[w].path)
  <2>1. Replacement(w) \in NewRow /\ Replacement(w).path = wk[w].path
    BY Zenon, <1>1, ReplacementType DEF HashKnown, WithHash, Replacement
  <2>2. Replacement(w).chunks \in held[ProjectOf[wk[w].path]] \cup {NoChunks}
    BY Zenon, <1>1 DEF LocalsIsolated, Replacement
  <2> DEFINE new == ReplaceIndexedFile(files, next_id, Replacement(w))
  <2>3. /\ DOMAIN files \subseteq DOMAIN new
        /\ \A i \in DOMAIN new :
             i \in DOMAIN files \/ (i = next_id /\ RowsAt(files, Replacement(w).path) = {})
    <3>1. DOMAIN new = IF RowsAt(files, Replacement(w).path) = {}
                         THEN DOMAIN files \cup {next_id} ELSE DOMAIN files
      BY Zenon, ZenonT(40), ReplaceDomain
    <3> HIDE DEF new
    <3> QED BY Zenon, <3>1
  <2>4. \A i \in DOMAIN new :
          \/ i \in DOMAIN files /\ new[i] = files[i]
          \/ /\ new[i].path = Replacement(w).path
             /\ (i \in DOMAIN files => files[i].path = Replacement(w).path)
             /\ new[i].chunks = Replacement(w).chunks
             /\ \/ new[i].duplicate_of = 0
                \/ /\ i \in DOMAIN files /\ files[i].path = Replacement(w).path
                   /\ new[i].duplicate_of = files[i].duplicate_of
    <3>1. Replaced(files, new, Replacement(w))
      BY Zenon, <1>2, <2>1, ReplaceFacts
    <3> HIDE DEF new
    <3> QED BY Zenon, <3>1 DEF Replaced
  <2>5. files' = new /\ NewId(wk[w].path)
    BY Zenon, <1>5
  <2>6. \A i \in DOMAIN files : files[i].path = wk[w].path /\ files[i].duplicate_of # 0 =>
          /\ files[i].duplicate_of \in DOMAIN files
          /\ ProjectAt(files[i].duplicate_of) = ProjectOf[wk[w].path]
    BY Zenon, <1>1 DEF RowsIsolated, ProjectAt
  <2> HIDE DEF new
  <2> QED BY SMTT(40), <1>2, <1>3, <2>1, <2>2, <2>3, <2>4, <2>5, <2>6, IsoUpsert
<1> QED BY Zenon, ZenonT(40), <1>4, <1>5 DEF Replace

\* The steps that write, and the faults.
LEMMA IsoWrite ==
  ASSUME IsoInv, NEW w \in Workers,
         \/ Delete(w) \/ UpsertProject(w) \/ Ledger(w) \/ RenameRow(w)
         \/ InsertDuplicate(w) \/ ClearLedger(w) \/ Replace(w)
         \/ Abandon(w) \/ LookUpFails(w)
  PROVE  IsoNext
<1>1. DiskHeld' /\ \A r \in Projects : held[r] \subseteq held'[r]
  BY Zenon, DiskFrame DEF Delete, UpsertProject, Ledger, RenameRow, InsertDuplicate,
     ClearLedger, Replace, Abandon, LookUpFails
<1>2. Stable /\ RowsIsolated'
  BY Zenon, <1>1, IsoDelete, IsoRename, IsoDuplicate, IsoReplace, RowsFrame
     DEF UpsertProject, Ledger, ClearLedger, Abandon, LookUpFails, tables
<1>3. CASE LookUpFails(w) /\ At(w, "oversize")
  <2>1. wk' = [wk EXCEPT ![w].pc = "replace", ![w].hash = <<wk[w].size, wk[w].mtime>>]
    BY Zenon, <1>3 DEF LookUpFails, At
  <2>2. wk \in [Workers -> Locals]
    BY Zenon, TypeParts DEF IsoInv, TInv, WkOK
  <2>3. <<wk[w].size, wk[w].mtime>> \notin Contents
    <3>1. wk[w].size \in Nat /\ wk[w].mtime \in Nat
      BY <2>2 DEF Locals, Times
    <3> QED BY Zenon, <3>1, WorkerConstants
  <2>4. /\ wk'[w].pc = "replace" /\ wk'[w].hash = <<wk[w].size, wk[w].mtime>>
        /\ wk'[w].path = wk[w].path /\ \A v \in Workers \ {w} : wk'[v] = wk[v]
    BY Zenon, <2>1, <2>2 DEF Locals
  <2> QED BY Zenon, <1>1, <1>2, <2>3, <2>4, IsoTakeHash DEF IsoNext, PCs, WithCanonical
<1>4. CASE ~(LookUpFails(w) /\ At(w, "oversize"))
  <2>1. \/ Done(w)
        \/ \E pc \in PCs \ {"idle"} : Goto(w, pc) /\ pc \notin WithCanonical
    BY <1>4 DEF Delete, UpsertProject, Ledger, RenameRow, InsertDuplicate, ClearLedger,
       Replace, Abandon, LookUpFails, PCs, WithCanonical
  <2> QED BY Zenon, <1>1, <1>2, <2>1, LocalsMove DEF IsoNext
<1> QED BY Zenon, <1>3, <1>4

\* Every step keeps the invariant.
LEMMA IsoStep == IsoInv /\ [Next]_vars => IsoInv'
<1> SUFFICES ASSUME IsoInv, [Next]_vars PROVE IsoNext
  BY Zenon, TypeStep DEF IsoInv, IsoNext
<1>1. CASE User
  BY Zenon, <1>1, IsoUser
<1>2. CASE (\E p \in Paths : Emit(p)) \/ UNCHANGED vars
  <2>1. UNCHANGED <<world, files, next_id, wk>>
    BY Zenon, <1>2 DEF Emit, vars, world, tables
  <2> QED BY Zenon, <2>1, DiskFrame, RowsFrame, LocalsFrame DEF IsoNext
<1>3. ASSUME NEW w \in Workers, Take(w) \/ Process(w) \/ Abandon(w) \/ LookUpFails(w)
      PROVE  IsoNext
  BY Zenon, <1>3, IsoTake, IsoLook, IsoWrite DEF Process
<1>4. CASE Crash
  <2>1. UNCHANGED <<world, files, next_id>>
    BY Zenon, <1>4 DEF Crash, tables
  <2>2. ASSUME NEW w \in Workers PROVE LocalsIsolated(w)'
    <3>1. wk'[w] = Idle(CHOOSE p \in Paths : TRUE)
      BY Zenon, <1>4 DEF Crash
    <3> QED BY SMTT(40), <3>1, WorkerConstants DEF LocalsIsolated, Idle, WithCanonical
  <2> QED BY Zenon, <2>1, <2>2, DiskFrame, RowsFrame DEF IsoNext
<1> QED BY Zenon, <1>1, <1>2, <1>3, <1>4 DEF Next

\* What a query returns for a file was once the content of a file of the same
\* project, in every reachable state.  The invariant adds what workers carry:
\* a canonical id found in a project names a row of that project for as long
\* as it names one, because ids are not reused and a rename is within it.
THEOREM Isolation == Spec => []ProjectIsolation
<1> QED BY IsoInit, IsoStep, IsoImplies, PTL DEF Spec
=============================================================================
