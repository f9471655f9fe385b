------------------------- MODULE IndexSharingProofs -------------------------
(***************************************************************************)
(* A file that shares no content with another is skipped soundly and       *)
(* served what its row records (UnsharedSkipSound,                         *)
(* UnsharedServedMatchesHash), for every set of paths, projects, contents, *)
(* moves and workers, and every number of changes and faults.              *)
(***************************************************************************)
EXTENDS IndexWorkersProofs

AfterStat == {"project", "oversize", "read"} \cup WithHash

\* had records what is on disk, and no file is from the future.
DiskHad ==
  \A p \in Paths : OnDisk(p) => disk[p].content \in had[p] /\ disk[p].mtime <= now

HasRead == {"hash", "canonical"}

\* What a worker carries: a time gone by, a content of its own file once it
\* has read one, and a size that the pre-read gate has let through.
LocalsHad(w) ==
  /\ wk[w].mtime <= now
  /\ wk[w].hash \in Contents => wk[w].hash \in had[wk[w].path]
  /\ wk[w].pc \in HasRead => wk[w].hash \in Contents
  /\ wk[w].pc = "read" => wk[w].size <= MaxFileSize
  /\ wk[w].pc = "oversize" => wk[w].size > MaxFileSize

\* The file at a path is not newer than a time.
NotSince(p, t) == OnDisk(p) /\ disk[p].mtime <= t

\* A row of the path, and one of another.
OwnRow(i, p) ==
  /\ files[i].duplicate_of = 0 /\ files[i].chunks = Expected(i)
  /\ files[i].hash \in Contents => files[i].hash \in had[p]
  /\ files[i].mtime <= now
  /\ NotSince(p, files[i].mtime) => files[i].hash = HashOf(disk[p])
OtherRow(i, p) ==
  files[i].hash \in Contents => \E q \in Paths \ {p} : files[i].hash \in had[q]

\* A worker on the path, and one on another.
OwnWorker(w, p) ==
  /\ wk[w].pc \notin WithCanonical
  /\ wk[w].pc \in AfterStat /\ NotSince(p, wk[w].mtime) =>
       disk[p].mtime = wk[w].mtime /\ SizeOf[disk[p].content] = wk[w].size
  /\ wk[w].pc \in WithHash /\ NotSince(p, wk[w].mtime) => wk[w].hash = HashOf(disk[p])
OtherWorker(w, p) ==
  wk[w].pc \in WithCanonical /\ wk[w].canonical \in DOMAIN files =>
    files[wk[w].canonical].path # p

OwnRows(p) == \A i \in DOMAIN files : IF files[i].path = p THEN OwnRow(i, p)
                                                         ELSE OtherRow(i, p)
OwnWorkers(p) == \A w \in Workers : IF wk[w].path = p THEN OwnWorker(w, p)
                                                      ELSE OtherWorker(w, p)

\* The inductive invariant.
ShareInv ==
  /\ IsoInv /\ DiskHad /\ \A w \in Workers : LocalsHad(w)
  /\ \A p \in Paths : Unshared(p) => OwnRows(p) /\ OwnWorkers(p)

\* The types the invariant's times need.
LEMMA ShareTypes ==
  ASSUME ShareInv
  PROVE  /\ now \in Nat /\ had \in [Paths -> SUBSET Contents]
         /\ disk \in [Paths -> Files \cup {NoFile}]
         /\ \A p \in Paths : OnDisk(p) => disk[p] \in Files /\ disk[p].mtime \in Nat
         /\ \A i \in DOMAIN files : /\ files[i] \in Rows /\ files[i].mtime \in Nat
                                    /\ files[i].path \in Paths /\ i \in Nat /\ i < next_id
         /\ wk \in [Workers -> Locals]
         /\ \A w \in Workers : /\ wk[w] \in Locals /\ wk[w].mtime \in Nat
                               /\ wk[w].path \in Paths /\ wk[w].size \in Nat
         /\ next_id \in Nat \ {0} /\ Table(files, next_id) /\ HashKnown
         /\ MaxFileSize \in Nat
<1>1. WorldOK /\ WkOK /\ TInv
  BY Zenon, TypeParts DEF ShareInv, IsoInv, TInv
<1>2. Times \subseteq Nat
  BY WorkerConstants DEF Times
<1>3. /\ now \in Nat /\ had \in [Paths -> SUBSET Contents]
      /\ disk \in [Paths -> Files \cup {NoFile}]
  BY Zenon, <1>1, <1>2 DEF WorldOK
<1>4. \A p \in Paths : OnDisk(p) => disk[p] \in Files /\ disk[p].mtime \in Nat
  BY Zenon, <1>2, <1>3 DEF OnDisk, Files
<1>5. \A i \in DOMAIN files : /\ files[i] \in Rows /\ files[i].mtime \in Nat
                              /\ files[i].path \in Paths /\ i \in Nat /\ i < next_id
  BY Zenon, <1>1, <1>2, Resolved DEF Rows
<1>6. \A w \in Workers : /\ wk[w] \in Locals /\ wk[w].mtime \in Nat
                         /\ wk[w].path \in Paths /\ wk[w].size \in Nat
  BY Zenon, <1>1, <1>2, Resolved DEF Locals
<1>7. next_id \in Nat \ {0} /\ Table(files, next_id)
  BY Zenon, <1>1, Resolved
<1> QED BY Zenon, <1>1, <1>3, <1>4, <1>5, <1>6, <1>7, WorkerConstants DEF WkOK, TInv

\* The invariant implies the two properties.
LEMMA ShareImplies == ShareInv => UnsharedSkipSound /\ UnsharedServedMatchesHash
<1> SUFFICES ASSUME ShareInv, NEW i \in DOMAIN files, Unshared(files[i].path)
             PROVE  SkipSoundAt(i) /\ Served(files, i) = Expected(i)
  BY Zenon DEF UnsharedSkipSound, UnsharedServedMatchesHash
<1>1. files[i].path \in Paths
  BY Zenon, ShareTypes
<1>2. OwnRow(i, files[i].path)
  BY Zenon, <1>1 DEF ShareInv, OwnRows
<1>3. SkipSoundAt(i)
  BY Zenon, <1>2 DEF OwnRow, SkipSoundAt, Level1Unchanged, NotSince, OnDisk
<1>4. Served(files, i) = Expected(i)
  BY Zenon, <1>2 DEF OwnRow, Served
<1> QED BY Zenon, <1>3, <1>4

\* The pipeline starts with an empty table and idle workers.
LEMMA ShareInit == Init => ShareInv
<1> SUFFICES ASSUME Init PROVE ShareInv
  BY Zenon
<1>1. IsoInv /\ DiskHad
  BY Zenon, IsoInit DEF Init, DiskHad, OnDisk
<1>2. ASSUME NEW w \in Workers
      PROVE  /\ LocalsHad(w)
             /\ \A p \in Paths : OwnWorker(w, p) /\ OtherWorker(w, p)
  <2>1. wk[w].pc = "idle" /\ wk[w].hash = NoContent /\ wk[w].mtime = 0 /\ now = 0
    BY Zenon DEF Init, Idle
  <2> QED BY <2>1, WorkerConstants DEF LocalsHad, OwnWorker, OtherWorker,
             HasRead, AfterStat, WithHash, WithCanonical
<1>3. \A p \in Paths : OwnRows(p)
  BY Zenon DEF Init, OwnRows
<1> QED BY Zenon, <1>1, <1>2, <1>3 DEF ShareInv, OwnWorkers

\* What a step must establish beyond IsoInv.
ShareNext ==
  /\ DiskHad' /\ \A w \in Workers : LocalsHad(w)'
  /\ \A p \in Paths : Unshared(p)' => OwnRows(p)' /\ OwnWorkers(p)'

\* The user's changes to the disk: a file is as it was, is new, or has come
\* from another path, whose content it then shares.
LEMMA ShareUser ==
  ASSUME ShareInv, User
  PROVE  ShareNext
<1>1. /\ now \in Nat /\ had \in [Paths -> SUBSET Contents] /\ DiskHad
      /\ disk \in [Paths -> Files \cup {NoFile}]
  BY Zenon, ShareTypes DEF ShareInv
<1>2. UNCHANGED <<files, wk>> /\ now' = now + 1
  BY Zenon DEF User, Write, Unlink, Rename, tables
<1>3. \A p \in Paths : had[p] \subseteq had'[p]
  BY <1>1 DEF User, Write, Unlink, Rename
<1> DEFINE Fresh(z) == disk'[z].mtime = now + 1 /\ disk'[z].content \in had'[z]
           From(q, z) == /\ q # z /\ disk'[z] = disk[q] /\ disk[q] # NoFile
                         /\ disk[q].content \in had'[z]
           Comes(z) == \/ disk'[z] = NoFile \/ disk'[z] = disk[z] \/ Fresh(z)
                       \/ \E q \in Paths : From(q, z)
<1>4. ASSUME NEW z \in Paths PROVE Comes(z)
  <2>1. ASSUME NEW p \in Paths, NEW c \in Contents, Write(p, c) PROVE Comes(z)
    BY Zenon, <1>1, <2>1 DEF Write
  <2>2. ASSUME NEW p \in Paths, Unlink(p) PROVE Comes(z)
    BY Zenon, <1>1, <2>2 DEF Unlink
  <2>3. ASSUME NEW p \in Paths, NEW q \in Paths, Rename(p, q) PROVE Comes(z)
    <3>1. CASE z = q /\ p # q
      <4>1. From(p, z)
        BY Zenon, <1>1, <2>3, <3>1 DEF Rename, OnDisk
      <4> QED BY Zenon, <4>1
    <3>2. CASE ~(z = q /\ p # q)
      BY Zenon, <1>1, <2>3, <3>2 DEF Rename
    <3> QED BY Zenon, <3>1, <3>2
  <2>4. \A mv \in Moves : mv[1] \in Paths /\ mv[2] \in Paths
    BY Zenon, WorkerConstants
  <2> HIDE DEF Comes
  <2> QED BY Zenon, <2>1, <2>2, <2>3, <2>4 DEF User
<1>5. DiskHad'
  <2> SUFFICES ASSUME NEW z \in Paths, disk'[z] # NoFile
               PROVE  disk'[z].content \in had'[z] /\ disk'[z].mtime <= now + 1
    BY Zenon, <1>2 DEF DiskHad, OnDisk
  <2>1. CASE disk'[z] = disk[z]
    BY <1>1, <1>3, <2>1, ShareTypes DEF DiskHad, OnDisk
  <2>2. CASE Fresh(z)
    BY <1>1, <2>2
  <2>3. CASE \E q \in Paths : From(q, z)
    BY <1>1, <2>3, ShareTypes DEF DiskHad, OnDisk
  <2> QED BY Zenon, <1>4, <2>1, <2>2, <2>3
<1>6. \A w \in Workers : LocalsHad(w)'
  BY <1>1, <1>2, <1>3, ShareTypes DEF ShareInv, LocalsHad
<1>7. ASSUME NEW p \in Paths, Unshared(p)' PROVE OwnRows(p)' /\ OwnWorkers(p)'
  <2>1. Unshared(p)
    BY Zenon, <1>3, <1>7 DEF Unshared
  <2>2. OwnRows(p) /\ OwnWorkers(p)
    BY Zenon, <2>1 DEF ShareInv
  <2>3. ~\E q \in Paths : From(q, p)
    BY Zenon, <1>1, <1>3, <1>7 DEF DiskHad, OnDisk, Unshared
  <2>4. ASSUME NEW t \in Nat, t <= now, NotSince(p, t)'
        PROVE  NotSince(p, t) /\ disk'[p] = disk[p]
    BY <1>1, <1>4, <2>3, <2>4 DEF NotSince, OnDisk
  <2> HIDE DEF Comes, From, Fresh
  <2>5. ASSUME NEW i \in DOMAIN files
        PROVE  IF files[i].path = p THEN OwnRow(i, p)' ELSE OtherRow(i, p)'
    <3>1. CASE files[i].path = p
      <4>1. OwnRow(i, p) /\ files[i].mtime \in Nat
        BY Zenon, <2>2, <3>1, ShareTypes DEF OwnRows
      <4>2. NotSince(p, files[i].mtime)' => files[i].hash = HashOf(disk'[p])
        BY Zenon, <1>2, <2>4, <4>1 DEF OwnRow
      <4>3. Expected(i)' = Expected(i) /\ HashOf(disk[p])' = HashOf(disk'[p])
        BY Zenon, <1>2 DEF Expected, HashOf
      <4> QED BY <1>1, <1>2, <1>3, <3>1, <4>1, <4>2, <4>3 DEF OwnRow
    <3>2. CASE files[i].path # p
      BY Zenon, <1>2, <1>3, <2>2, <3>2 DEF OwnRows, OtherRow
    <3> QED BY Zenon, <3>1, <3>2
  <2>6. ASSUME NEW w \in Workers
        PROVE  IF wk[w].path = p THEN OwnWorker(w, p)' ELSE OtherWorker(w, p)'
    <3>1. CASE wk[w].path = p
      <4>1. OwnWorker(w, p) /\ wk[w].mtime \in Nat /\ wk[w].mtime <= now
        BY Zenon, <2>2, <3>1, ShareTypes DEF OwnWorkers, ShareInv, LocalsHad
      <4>2. NotSince(p, wk[w].mtime)' => NotSince(p, wk[w].mtime) /\ disk'[p] = disk[p]
        BY Zenon, <1>2, <2>4, <4>1
      <4>3. HashOf(disk[p])' = HashOf(disk'[p])
        BY Zenon DEF HashOf
      <4> QED BY Zenon, <1>2, <3>1, <4>1, <4>2, <4>3 DEF OwnWorker
    <3>2. CASE wk[w].path # p
      BY Zenon, <1>2, <2>2, <3>2 DEF OwnWorkers, OtherWorker
    <3> QED BY Zenon, <3>1, <3>2
  <2> QED BY Zenon, <1>2, <2>5, <2>6 DEF OwnRows, OwnWorkers
<1> QED BY Zenon, <1>5, <1>6, <1>7 DEF ShareNext

\* No row that there was comes to the path.
RowsStay(p) ==
  \A i \in DOMAIN files' :
    i < next_id => i \in DOMAIN files /\ (files'[i].path = p => files[i].path = p)

\* A step that leaves the disk and the table alone keeps the rows.
LEMMA ShareRowsFrame ==
  ASSUME ShareInv, UNCHANGED <<world, files>>, NEW p \in Paths, Unshared(p)
  PROVE  OwnRows(p)' /\ RowsStay(p)
<1>1. OwnRows(p)
  BY Zenon DEF ShareInv
<1>2. \A i \in DOMAIN files : Expected(i)' = Expected(i)
  BY Zenon DEF Expected
<1>3. HashOf(disk[p])' = HashOf(disk[p])
  BY Zenon DEF HashOf, world
<1>4. \A i \in DOMAIN files : NotSince(p, files[i].mtime)' <=> NotSince(p, files[i].mtime)
  BY Zenon DEF NotSince, OnDisk, world
<1>5. \A i \in DOMAIN files : OwnRow(i, p) => OwnRow(i, p)'
  BY Zenon, <1>2, <1>3, <1>4 DEF OwnRow, world
<1>6. \A i \in DOMAIN files : OtherRow(i, p) => OtherRow(i, p)'
  BY Zenon DEF OtherRow, world
<1> QED BY Zenon, <1>1, <1>5, <1>6 DEF OwnRows, RowsStay

\* A step of one worker that leaves the disk alone.
LEMMA ShareOne ==
  ASSUME ShareInv, UNCHANGED world, NEW w \in Workers,
         \A v \in Workers \ {w} : wk'[v] = wk[v],
         LocalsHad(w)',
         \A p \in Paths : Unshared(p) =>
           /\ OwnRows(p)' /\ RowsStay(p)
           /\ IF wk'[w].path = p THEN OwnWorker(w, p)' ELSE OtherWorker(w, p)'
  PROVE  ShareNext
<1>1. DiskHad'
  BY Zenon DEF ShareInv, DiskHad, OnDisk, world
<1>2. ASSUME NEW v \in Workers PROVE LocalsHad(v)'
  <2>1. CASE v = w
    BY Zenon, <2>1
  <2>2. CASE v # w
    BY Zenon, <2>2 DEF ShareInv, LocalsHad, world
  <2> QED BY Zenon, <2>1, <2>2
<1>3. ASSUME NEW p \in Paths, Unshared(p)' PROVE OwnRows(p)' /\ OwnWorkers(p)'
  <2>1. Unshared(p)
    BY Zenon, <1>3 DEF Unshared, world
  <2>2. OwnWorkers(p) /\ OwnRows(p)' /\ RowsStay(p)
    BY Zenon, <2>1 DEF ShareInv
  <2>3. ASSUME NEW v \in Workers
        PROVE  IF wk'[v].path = p THEN OwnWorker(v, p)' ELSE OtherWorker(v, p)'
    <3>1. CASE v = w
      BY Zenon, <2>1, <3>1
    <3>2. CASE v # w /\ wk[v].path = p
      <4>1. OwnWorker(v, p) /\ wk'[v] = wk[v]
        BY Zenon, <2>2, <3>2 DEF OwnWorkers
      <4>2. /\ HashOf(disk[p])' = HashOf(disk[p])
            /\ NotSince(p, wk[v].mtime)' <=> NotSince(p, wk[v].mtime)
        BY Zenon, <4>1 DEF HashOf, NotSince, OnDisk, world
      <4> QED BY Zenon, <3>2, <4>1, <4>2 DEF OwnWorker, world
    <3>3. CASE v # w /\ wk[v].path # p
      <4>1. OtherWorker(v, p) /\ wk'[v] = wk[v]
        BY Zenon, <2>2, <3>3 DEF OwnWorkers
      <4>2. wk[v].pc \in WithCanonical => wk[v].canonical \in 1..next_id - 1
        BY Zenon DEF ShareInv, IsoInv, LocalsIsolated
      <4>3. next_id \in Nat
        BY Zenon, ShareTypes
      <4> QED BY <2>2, <3>3, <4>1, <4>2, <4>3 DEF OtherWorker, RowsStay
    <3> QED BY Zenon, <3>1, <3>2, <3>3
  <2> QED BY Zenon, <2>2, <2>3 DEF OwnWorkers
<1> QED BY Zenon, <1>1, <1>2, <1>3 DEF ShareNext

\* A worker that moves on with what it carries, or ends its task.
LEMMA ShareMove ==
  ASSUME ShareInv, UNCHANGED world, NEW w \in Workers,
         \/ Done(w)
         \/ \E pc \in PCs \ {"read", "oversize"} :
              /\ Goto(w, pc)
              /\ (pc \in WithCanonical => wk[w].pc \in WithCanonical)
              /\ (pc \in AfterStat => wk[w].pc \in AfterStat)
              /\ (pc \in WithHash => wk[w].pc \in WithHash)
              /\ (pc \in HasRead => wk[w].pc \in HasRead),
         \A p \in Paths : Unshared(p) => OwnRows(p)' /\ RowsStay(p)
  PROVE  ShareNext
<1>1. wk \in [Workers -> Locals] /\ LocalsHad(w) /\ now \in Nat
  BY Zenon, ShareTypes DEF ShareInv
<1>2. CASE Done(w)
  <2>1. wk'[w] = Idle(CHOOSE p \in Paths : TRUE) /\ \A v \in Workers \ {w} : wk'[v] = wk[v]
    BY Zenon, <1>1, <1>2 DEF Done
  <2>2. wk'[w].pc = "idle" /\ wk'[w].hash = NoContent /\ wk'[w].mtime = 0
    BY <2>1 DEF Idle
  <2>3. LocalsHad(w)'
    BY <1>1, <2>2, WorkerConstants DEF LocalsHad, HasRead, world
  <2>4. \A p \in Paths : OwnWorker(w, p)' /\ OtherWorker(w, p)'
    BY Zenon, <2>2 DEF OwnWorker, OtherWorker, AfterStat, WithHash, WithCanonical
  <2> QED BY Zenon, <2>1, <2>3, <2>4, ShareOne
<1>3. CASE ~Done(w)
  <2>1. PICK pc \in PCs \ {"read", "oversize"} :
          /\ Goto(w, pc)
          /\ (pc \in WithCanonical => wk[w].pc \in WithCanonical)
          /\ (pc \in AfterStat => wk[w].pc \in AfterStat)
          /\ (pc \in WithHash => wk[w].pc \in WithHash)
          /\ (pc \in HasRead => wk[w].pc \in HasRead)
    BY Zenon, <1>3
  <2>2. /\ wk'[w].pc = pc /\ wk'[w].hash = wk[w].hash /\ wk'[w].path = wk[w].path
        /\ wk'[w].canonical = wk[w].canonical /\ wk'[w].mtime = wk[w].mtime
        /\ wk'[w].size = wk[w].size
        /\ \A v \in Workers \ {w} : wk'[v] = wk[v]
    BY SMTT(40), <1>1, <2>1 DEF Goto, Locals
  <2>3. LocalsHad(w)'
    BY Zenon, <1>1, <2>1, <2>2 DEF LocalsHad, HasRead, world
  <2>4. ASSUME NEW p \in Paths, Unshared(p)
        PROVE  IF wk'[w].path = p THEN OwnWorker(w, p)' ELSE OtherWorker(w, p)'
    <3>1. OwnWorkers(p) /\ RowsStay(p)
      BY Zenon, <2>4 DEF ShareInv
    <3>2. CASE wk[w].path = p
      <4>1. OwnWorker(w, p)
        BY Zenon, <3>1, <3>2 DEF OwnWorkers
      <4>2. /\ HashOf(disk[p])' = HashOf(disk[p])
            /\ NotSince(p, wk[w].mtime)' <=> NotSince(p, wk[w].mtime)
        BY Zenon, <2>2 DEF HashOf, NotSince, OnDisk, world
      <4> QED BY Zenon, <2>1, <2>2, <3>2, <4>1, <4>2 DEF OwnWorker, world
    <3>3. CASE wk[w].path # p
      <4>1. OtherWorker(w, p)
        BY Zenon, <3>1, <3>3 DEF OwnWorkers
      <4>2. wk[w].pc \in WithCanonical => wk[w].canonical \in 1..next_id - 1
        BY Zenon DEF ShareInv, IsoInv, LocalsIsolated
      <4>3. next_id \in Nat
        BY Zenon, ShareTypes
      <4> QED BY <2>1, <2>2, <3>1, <3>3, <4>1, <4>2, <4>3 DEF OtherWorker, RowsStay
    <3> QED BY Zenon, <3>2, <3>3
  <2> QED BY Zenon, <2>2, <2>3, <2>4, ShareOne
<1> QED BY Zenon, <1>2, <1>3

\* A task is taken by a worker that carries nothing.
LEMMA ShareTake ==
  ASSUME ShareInv, NEW w \in Workers, Take(w)
  PROVE  ShareNext
<1>1. wk \in [Workers -> Locals] /\ LocalsHad(w) /\ LocalsIsolated(w)
  BY Zenon, ShareTypes DEF ShareInv, IsoInv
<1>2. UNCHANGED <<world, files>>
  BY Zenon DEF Take, tables
<1>3. PICK pc \in {"remove", "stat"} :
        wk' = [wk EXCEPT ![w].path = Head(queue)[1], ![w].pc = pc]
  BY Zenon DEF Take
<1>4. /\ wk'[w].pc = pc /\ wk'[w].hash = wk[w].hash /\ wk'[w].mtime = wk[w].mtime
      /\ \A v \in Workers \ {w} : wk'[v] = wk[v]
  BY Zenon, <1>1, <1>3 DEF Locals
<1>5. wk'[w].hash = NoContent
  BY Zenon, <1>1, <1>4 DEF LocalsIsolated, Take, At
<1>6. LocalsHad(w)'
  BY Zenon, <1>1, <1>2, <1>4, <1>5, WorkerConstants DEF LocalsHad, HasRead, world
<1>7. \A p \in Paths : OwnWorker(w, p)' /\ OtherWorker(w, p)'
  BY Zenon, <1>4 DEF OwnWorker, OtherWorker, AfterStat, WithHash, WithCanonical
<1> QED BY Zenon, <1>2, <1>4, <1>6, <1>7, ShareRowsFrame, ShareOne

\* A worker that reads: it keeps its path and has found no canonical row.
LEMMA ShareLook ==
  ASSUME ShareInv, UNCHANGED <<world, files>>, NEW w \in Workers,
         \A v \in Workers \ {w} : wk'[v] = wk[v],
         wk'[w].path = wk[w].path, wk'[w].pc \notin WithCanonical, LocalsHad(w)',
         Unshared(wk[w].path) => OwnWorker(w, wk[w].path)'
  PROVE  ShareNext
<1>1. ASSUME NEW p \in Paths, Unshared(p)
      PROVE  IF wk'[w].path = p THEN OwnWorker(w, p)' ELSE OtherWorker(w, p)'
  BY Zenon, <1>1 DEF OtherWorker
<1> QED BY Zenon, <1>1, ShareRowsFrame, ShareOne

\* Stat: the mtime and size of the file as it is.
LEMMA ShareStat ==
  ASSUME ShareInv, NEW w \in Workers, Stat(w)
  PROVE  ShareNext
<1> DEFINE f == disk[wk[w].path]
<1>1. /\ wk \in [Workers -> Locals] /\ LocalsHad(w) /\ DiskHad /\ wk[w].path \in Paths
  BY Zenon, ShareTypes DEF ShareInv
<1>2. UNCHANGED <<world, files>>
  BY Zenon DEF Stat, tables
<1>3. CASE f = NoFile
  <2>1. Goto(w, "gone")
    BY Zenon, <1>3 DEF Stat
  <2> QED BY <1>2, <2>1, ShareRowsFrame, ShareMove DEF PCs, WithCanonical, AfterStat, WithHash, HasRead
<1>4. CASE f # NoFile
  <2>1. wk' = [wk EXCEPT ![w].pc = "project", ![w].mtime = f.mtime,
                         ![w].size = SizeOf[f.content]]
    BY Zenon, <1>4 DEF Stat
  <2>2. f.mtime <= now /\ disk' = disk /\ now' = now /\ had' = had
    BY Zenon, <1>1, <1>2, <1>4 DEF DiskHad, OnDisk, world
  <2> HIDE DEF f
  <2>3. /\ wk'[w].pc = "project" /\ wk'[w].hash = wk[w].hash /\ wk'[w].mtime = f.mtime
        /\ wk'[w].size = SizeOf[f.content] /\ wk'[w].path = wk[w].path
        /\ \A v \in Workers \ {w} : wk'[v] = wk[v]
    BY Zenon, <1>1, <2>1 DEF Locals
  <2>4. LocalsHad(w)'
    BY Zenon, <1>1, <2>2, <2>3 DEF LocalsHad, HasRead
  <2>5. OwnWorker(w, wk[w].path)'
    BY Zenon, <2>2, <2>3 DEF OwnWorker, f, WithHash, WithCanonical
  <2> QED BY Zenon, <1>2, <2>3, <2>4, <2>5, ShareLook DEF WithCanonical
<1> QED BY Zenon, <1>3, <1>4

\* The pre-read gate parts the sizes.
LEMMA ShareProject ==
  ASSUME ShareInv, NEW w \in Workers, UpsertProject(w)
  PROVE  ShareNext
<1>1. /\ wk \in [Workers -> Locals] /\ LocalsHad(w) /\ wk[w].path \in Paths
      /\ wk[w].size \in Nat /\ MaxFileSize \in Nat /\ wk[w].pc = "project"
  BY Zenon, ShareTypes DEF ShareInv, UpsertProject, At
<1>2. UNCHANGED <<world, files>>
  BY Zenon DEF UpsertProject
<1>3. PICK pc \in {"oversize", "read"} :
        Goto(w, pc) /\ (pc = "oversize" <=> wk[w].size > MaxFileSize)
  BY Zenon DEF UpsertProject
<1>4. /\ wk'[w].pc = pc /\ wk'[w].hash = wk[w].hash /\ wk'[w].mtime = wk[w].mtime
      /\ wk'[w].size = wk[w].size /\ wk'[w].path = wk[w].path
      /\ \A v \in Workers \ {w} : wk'[v] = wk[v]
  BY Zenon, <1>1, <1>3 DEF Goto, Locals
<1>5. LocalsHad(w)'
  BY SMTT(40), <1>1, <1>2, <1>3, <1>4 DEF LocalsHad, HasRead, world
<1>6. ASSUME Unshared(wk[w].path) PROVE OwnWorker(w, wk[w].path)'
  <2>1. OwnWorker(w, wk[w].path)
    BY Zenon, <1>1, <1>6 DEF ShareInv, OwnWorkers
  <2>2. disk' = disk
    BY Zenon, <1>2 DEF world
  <2> QED BY Zenon, <1>1, <1>4, <2>1, <2>2 DEF OwnWorker, NotSince, OnDisk, AfterStat,
             WithHash, WithCanonical
<1> QED BY Zenon, <1>2, <1>4, <1>5, <1>6, ShareLook DEF WithCanonical

\* A worker takes a hash with it, which is that of the file as long as the
\* file is not newer than the worker's stat.
LEMMA ShareTakeHash ==
  ASSUME ShareInv, NEW w \in Workers, UNCHANGED <<world, files>>,
         NEW pc \in {"hash", "replace"}, NEW hash,
         wk' = [wk EXCEPT ![w].pc = pc, ![w].hash = hash],
         wk[w].pc \in AfterStat, hash \in Contents => hash \in had[wk[w].path],
         pc = "hash" => hash \in Contents,
         /\ NotSince(wk[w].path, wk[w].mtime)
         /\ disk[wk[w].path].mtime = wk[w].mtime
         /\ SizeOf[disk[wk[w].path].content] = wk[w].size
         => hash = HashOf(disk[wk[w].path])
  PROVE  ShareNext
<1>1. wk \in [Workers -> Locals] /\ LocalsHad(w) /\ wk[w].path \in Paths
  BY Zenon, ShareTypes DEF ShareInv
<1>2. /\ wk'[w].pc = pc /\ wk'[w].hash = hash /\ wk'[w].mtime = wk[w].mtime
      /\ wk'[w].size = wk[w].size /\ wk'[w].path = wk[w].path
      /\ \A v \in Workers \ {w} : wk'[v] = wk[v]
  BY Zenon, <1>1 DEF Locals
<1>3. LocalsHad(w)'
  BY Zenon, <1>1, <1>2 DEF LocalsHad, HasRead, world
<1>4. ASSUME Unshared(wk[w].path) PROVE OwnWorker(w, wk[w].path)'
  <2>1. OwnWorker(w, wk[w].path)
    BY Zenon, <1>1, <1>4 DEF ShareInv, OwnWorkers
  <2>2. disk' = disk
    BY Zenon DEF world
  <2> QED BY Zenon, <1>2, <2>1, <2>2 DEF OwnWorker, NotSince, OnDisk, WithCanonical, HashOf
<1> QED BY Zenon, <1>2, <1>3, <1>4, ShareLook DEF WithCanonical

\* An oversized file's hash is its size and mtime.
LEMMA ShareOversize ==
  ASSUME ShareInv, NEW w \in Workers, UNCHANGED <<world, files>>, At(w, "oversize"),
         wk' = [wk EXCEPT ![w].pc = "replace", ![w].hash = <<wk[w].size, wk[w].mtime>>]
  PROVE  ShareNext
<1>1. /\ wk[w].pc = "oversize" /\ wk[w].size > MaxFileSize
      /\ wk[w].size \in Nat /\ wk[w].mtime \in Nat
  BY Zenon, ShareTypes DEF ShareInv, LocalsHad, At
<1>2. <<wk[w].size, wk[w].mtime>> \notin Contents
  BY Zenon, <1>1, WorkerConstants
<1> QED BY Zenon, <1>1, <1>2, ShareTakeHash DEF HashOf, AfterStat

\* What is read is the file's content; it is its hash if the file is still as
\* it was at the stat, whose size the gate let through.
LEMMA ShareRead ==
  ASSUME ShareInv, NEW w \in Workers, Read(w)
  PROVE  ShareNext
<1> DEFINE f == disk[wk[w].path]
<1>1. /\ wk[w].pc = "read" /\ wk[w].size <= MaxFileSize /\ DiskHad
      /\ wk[w].size \in Nat /\ MaxFileSize \in Nat /\ wk[w].path \in Paths
  BY Zenon, ShareTypes DEF ShareInv, LocalsHad, Read, At
<1>2. UNCHANGED <<world, files>>
  BY Zenon DEF Read, tables
<1>3. CASE Done(w) \/ Goto(w, "bad")
  BY SMTT(40), <1>2, <1>3, ShareRowsFrame, ShareMove DEF PCs, WithCanonical, AfterStat, WithHash, HasRead
<1>4. CASE f # NoFile /\ wk' = [wk EXCEPT ![w].pc = "hash", ![w].hash = f.content]
  <2>1. f.content \in had[wk[w].path] /\ f.content \in Contents
    BY Zenon, <1>1, <1>4, ShareTypes DEF DiskHad, OnDisk, Files
  <2>2. SizeOf[f.content] = wk[w].size => f.content = HashOf(f)
    BY <1>1 DEF HashOf
  <2> QED BY Zenon, ZenonT(40), <1>1, <1>2, <1>4, <2>1, <2>2, ShareTakeHash DEF AfterStat
<1> QED BY Zenon, <1>3, <1>4 DEF Read

\* A file finds no row of another path that shares no content, and a file that
\* shares no content finds none.
LEMMA ShareLookUp ==
  ASSUME ShareInv, NEW w \in Workers, LookUpCanonical(w)
  PROVE  ShareNext
<1>1. /\ wk \in [Workers -> Locals] /\ LocalsHad(w) /\ wk[w].pc = "canonical"
      /\ wk[w].path \in Paths
  BY Zenon, ZenonT(40), ShareTypes DEF ShareInv, LookUpCanonical, At
<1>2. UNCHANGED <<world, files>>
  BY Zenon DEF LookUpCanonical, tables
<1>3. CASE Goto(w, "recheck")
  BY Zenon, <1>1, <1>2, <1>3, ShareRowsFrame, ShareMove DEF PCs, WithCanonical, AfterStat, WithHash, HasRead
<1>4. ASSUME NEW i \in DOMAIN files, files[i].path # wk[w].path,
             files[i].hash = wk[w].hash,
             wk' = [wk EXCEPT ![w].pc = "exists", ![w].canonical = i,
                              ![w].old_path = files[i].path]
      PROVE  ShareNext
  <2>1. /\ wk'[w].pc = "exists" /\ wk'[w].hash = wk[w].hash /\ wk'[w].mtime = wk[w].mtime
        /\ wk'[w].size = wk[w].size /\ wk'[w].path = wk[w].path /\ wk'[w].canonical = i
        /\ \A v \in Workers \ {w} : wk'[v] = wk[v]
    BY ZenonT(40), <1>1, <1>4 DEF Locals
  <2>2. LocalsHad(w)'
    BY Zenon, <1>1, <1>2, <2>1 DEF LocalsHad, HasRead, world
  <2>3. wk[w].hash \in had[wk[w].path] /\ wk[w].hash \in Contents
    BY Zenon, <1>1 DEF LocalsHad, HasRead
  <2>4. ASSUME NEW p \in Paths, Unshared(p)
        PROVE  IF wk'[w].path = p THEN OwnWorker(w, p)' ELSE OtherWorker(w, p)'
    <3>1. OwnRows(p)
      BY Zenon, <2>4 DEF ShareInv
    <3>2. wk[w].path # p
      BY Zenon, <1>1, <1>4, <2>3, <2>4, <3>1 DEF OwnRows, OtherRow, Unshared
    <3>3. files[i].path # p
      BY Zenon, <1>1, <1>4, <2>3, <2>4, <3>1, <3>2 DEF OwnRows, OwnRow, Unshared
    <3> QED BY Zenon, <1>2, <2>1, <3>2, <3>3 DEF OtherWorker
  <2> QED BY Zenon, <1>2, <2>1, <2>2, <2>4, ShareRowsFrame, ShareOne
<1>5. \A i \in FindCanonicalByContentHash(files, ProjectOf[wk[w].path], wk[w].hash) :
        i \in DOMAIN files /\ files[i].hash = wk[w].hash
  BY Zenon DEF FindCanonicalByContentHash
<1> QED BY Zenon, <1>3, <1>4, <1>5 DEF LookUpCanonical

\* Deleting rows keeps the others.
LEMMA ShareDelete ==
  ASSUME ShareInv, NEW w \in Workers, Delete(w), NEW p \in Paths, Unshared(p)
  PROVE  OwnRows(p)' /\ RowsStay(p)
<1>1. OwnRows(p) /\ next_id \in Nat \ {0} /\ Table(files, next_id)
  BY Zenon, ShareTypes DEF ShareInv
<1>2. files' = DeleteFiles(files, {wk[w].path}) /\ UNCHANGED world
  BY Zenon DEF Delete, DeleteFile
<1>3. /\ DOMAIN files' \subseteq DOMAIN files
      /\ \A i \in DOMAIN files' :
           /\ files'[i].path = files[i].path /\ files'[i].hash = files[i].hash
           /\ files'[i].mtime = files[i].mtime /\ files'[i].chunks = files[i].chunks
           /\ files'[i].duplicate_of = 0 \/ files'[i].duplicate_of = files[i].duplicate_of
  BY <1>1, <1>2, DeleteFacts
<1>4. ASSUME NEW i \in DOMAIN files'
      PROVE  IF files'[i].path = p THEN OwnRow(i, p)' ELSE OtherRow(i, p)'
  <2>1. CASE files'[i].path = p
    <3>1. OwnRow(i, p)
      BY Zenon, <1>1, <1>3, <2>1 DEF OwnRows
    <3>2. /\ Expected(i)' = Expected(i) /\ HashOf(disk[p])' = HashOf(disk[p])
          /\ NotSince(p, files[i].mtime)' <=> NotSince(p, files[i].mtime)
      BY Zenon, <1>2, <1>3 DEF Expected, HashOf, NotSince, OnDisk, world
    <3> QED BY Zenon, <1>2, <1>3, <2>1, <3>1, <3>2 DEF OwnRow, world
  <2>2. CASE files'[i].path # p
    BY Zenon, ZenonT(40), <1>1, <1>2, <1>3, <2>2 DEF OwnRows, OtherRow, world
  <2> QED BY Zenon, <2>1, <2>2
<1>5. RowsStay(p)
  BY Zenon, <1>3 DEF RowsStay
<1> QED BY Zenon, <1>4, <1>5 DEF OwnRows

\* A row that is renamed is not the path's, and goes elsewhere.
LEMMA ShareRename ==
  ASSUME ShareInv, NEW w \in Workers, RenameRow(w), NEW p \in Paths, Unshared(p)
  PROVE  OwnRows(p)' /\ RowsStay(p)
<1>1. /\ OwnRows(p) /\ OwnWorkers(p) /\ next_id \in Nat \ {0} /\ Table(files, next_id)
      /\ wk[w].pc = "rename" /\ UNCHANGED world
      /\ wk[w].path \in Paths /\ wk[w].mtime \in Times
  BY Zenon, ShareTypes DEF ShareInv, RenameRow, At, Locals
<1>2. wk[w].path # p
  BY Zenon, <1>1 DEF OwnWorkers, OwnWorker, WithCanonical
<1>3. wk[w].canonical \in DOMAIN files => files[wk[w].canonical].path # p
  BY Zenon, <1>1, <1>2 DEF OwnWorkers, OtherWorker, WithCanonical
<1>4. CASE UNCHANGED files
  BY Zenon, <1>1, <1>4, ShareRowsFrame
<1>5. CASE files' = UpdateFilePathInPlace(files, wk[w].canonical, wk[w].path, wk[w].mtime)
  <2>1. /\ DOMAIN files' = DOMAIN files
        /\ \A i \in DOMAIN files' :
             /\ i # wk[w].canonical => files'[i] = files[i]
             /\ i = wk[w].canonical => files'[i].path = wk[w].path
             /\ files'[i].hash = files[i].hash
    <3> DEFINE new == UpdateFilePathInPlace(files, wk[w].canonical, wk[w].path, wk[w].mtime)
    <3>1. Renamed(files, new, wk[w].canonical, wk[w].path)
      BY Zenon, <1>1, RenameFacts
    <3>2. files' = new
      BY Zenon, <1>5
    <3> HIDE DEF new
    <3> QED BY Zenon, <3>1, <3>2 DEF Renamed
  <2>2. ASSUME NEW i \in DOMAIN files'
        PROVE  IF files'[i].path = p THEN OwnRow(i, p)' ELSE OtherRow(i, p)'
    <3>1. CASE files'[i].path = p
      <4>1. files'[i] = files[i] /\ OwnRow(i, p)
        BY Zenon, <1>1, <1>2, <2>1, <3>1 DEF OwnRows
      <4>2. /\ Expected(i)' = Expected(i) /\ HashOf(disk[p])' = HashOf(disk[p])
            /\ NotSince(p, files[i].mtime)' <=> NotSince(p, files[i].mtime)
        BY Zenon, <1>1, <4>1 DEF Expected, HashOf, NotSince, OnDisk, world
      <4> QED BY Zenon, <1>1, <3>1, <4>1, <4>2 DEF OwnRow, world
    <3>2. CASE files'[i].path # p
      <4>1. files[i].path # p
        BY Zenon, <1>3, <2>1, <3>2
      <4>2. OtherRow(i, p)
        BY Zenon, <1>1, <2>1, <4>1 DEF OwnRows
      <4> QED BY Zenon, <1>1, <2>1, <3>2, <4>2 DEF OtherRow, world
    <3> QED BY Zenon, <3>1, <3>2
  <2>3. RowsStay(p)
    BY Zenon, <1>2, <2>1 DEF RowsStay
  <2> QED BY Zenon, <2>2, <2>3 DEF OwnRows
<1> QED BY Zenon, <1>4, <1>5 DEF RenameRow

\* An upsert writes a row of the worker's path with the worker's hash; if the
\* path is this one, the row is as OwnRow has it.
LEMMA ShareUpsert ==
  ASSUME ShareInv, NEW w \in Workers, UNCHANGED world, NEW p \in Paths, Unshared(p),
         \A i \in DOMAIN files' : i \in DOMAIN files \/ i = next_id,
         \A i \in DOMAIN files' :
           \/ i \in DOMAIN files /\ files'[i] = files[i]
           \/ /\ i \in DOMAIN files => files[i].path = wk[w].path
              /\ files'[i].path = wk[w].path /\ files'[i].hash = wk[w].hash
              /\ wk[w].path = p => OwnRow(i, p)'
  PROVE  OwnRows(p)' /\ RowsStay(p)
<1>1. OwnRows(p) /\ LocalsHad(w) /\ wk[w].path \in Paths /\ next_id \in Nat
  BY Zenon, ShareTypes DEF ShareInv
<1>2. ASSUME NEW i \in DOMAIN files'
      PROVE  IF files'[i].path = p THEN OwnRow(i, p)' ELSE OtherRow(i, p)'
  <2>1. CASE i \in DOMAIN files /\ files'[i] = files[i] /\ files[i].path = p
    <3>1. /\ Expected(i)' = Expected(i) /\ HashOf(disk[p])' = HashOf(disk[p])
          /\ NotSince(p, files[i].mtime)' <=> NotSince(p, files[i].mtime)
      BY Zenon, ZenonT(40), <2>1 DEF Expected, HashOf, NotSince, OnDisk, world
    <3> QED BY Zenon, ZenonT(40), <1>1, <2>1, <3>1 DEF OwnRows, OwnRow, world
  <2>2. CASE i \in DOMAIN files /\ files'[i] = files[i] /\ files[i].path # p
    BY Zenon, <1>1, <2>2 DEF OwnRows, OtherRow, world
  <2>3. CASE ~(i \in DOMAIN files /\ files'[i] = files[i])
    <3>1. files'[i].path = wk[w].path /\ files'[i].hash = wk[w].hash
      BY Zenon, <2>3
    <3>2. CASE wk[w].path = p
      BY Zenon, <2>3, <3>1, <3>2
    <3>3. CASE wk[w].path # p
      BY Zenon, <1>1, <3>1, <3>3 DEF OtherRow, LocalsHad, world
    <3> QED BY Zenon, <3>2, <3>3
  <2> QED BY Zenon, <2>1, <2>2, <2>3
<1>3. RowsStay(p)
  BY SMTT(40), <1>1 DEF RowsStay
<1> QED BY Zenon, <1>2, <1>3 DEF OwnRows

\* A duplicate is of another path than this one.
LEMMA ShareDuplicate ==
  ASSUME ShareInv, NEW w \in Workers, InsertDuplicate(w), NEW p \in Paths, Unshared(p)
  PROVE  OwnRows(p)' /\ RowsStay(p)
<1>1. /\ OwnWorkers(p) /\ next_id \in Nat \ {0} /\ Table(files, next_id)
      /\ wk[w].pc = "duplicate" /\ UNCHANGED world /\ HashKnown /\ WkOK
      /\ wk[w].canonical \in Nat
  BY Zenon, ZenonT(40), ShareTypes DEF ShareInv, InsertDuplicate, At, Locals, WkOK
<1>2. wk[w].path # p
  BY Zenon, ZenonT(40), <1>1 DEF OwnWorkers, OwnWorker, WithCanonical
<1>3. CASE UNCHANGED files
  BY Zenon, ZenonT(40), <1>1, <1>3, ShareRowsFrame
<1>4. CASE files' = InsertDuplicateFile(files, next_id, Replacement(w), wk[w].canonical)
  <2> DEFINE new == InsertDuplicateFile(files, next_id, Replacement(w), wk[w].canonical)
  <2>1. /\ Replacement(w) \in NewRow /\ Replacement(w).path = wk[w].path
        /\ Replacement(w).hash = wk[w].hash
    BY Zenon, <1>1, ReplacementType DEF HashKnown, WithHash, Replacement
  <2>2. Duplicated(files, new, Replacement(w), wk[w].canonical)
    BY Zenon, <1>1, <2>1, DuplicateFacts
  <2>3. DOMAIN new = IF RowsAt(files, Replacement(w).path) = {}
                     THEN DOMAIN files \cup {next_id} ELSE DOMAIN files
    BY Zenon, ZenonT(40), DuplicateDomain
  <2>4. files' = new
    BY Zenon, <1>4
  <2> HIDE DEF new
  <2>5. \A i \in DOMAIN files' : i \in DOMAIN files \/ i = next_id
    BY Zenon, <2>3, <2>4
  <2>6. \A i \in DOMAIN files' :
          \/ i \in DOMAIN files /\ files'[i] = files[i]
          \/ /\ i \in DOMAIN files => files[i].path = wk[w].path
             /\ files'[i].path = wk[w].path /\ files'[i].hash = wk[w].hash
    BY Zenon, <2>1, <2>2, <2>4 DEF Duplicated
  <2> QED BY Zenon, <1>1, <1>2, <2>5, <2>6, ShareUpsert
<1> QED BY Zenon, ZenonT(40), <1>3, <1>4 DEF InsertDuplicate

\* A replaced row of this path has the worker's hash and the chunks of it, no
\* pointer, and an mtime that is not later than the worker's stat.
LEMMA ShareReplace ==
  ASSUME ShareInv, NEW w \in Workers, Replace(w), NEW p \in Paths, Unshared(p)
  PROVE  OwnRows(p)' /\ RowsStay(p)
<1>1. /\ OwnRows(p) /\ OwnWorkers(p) /\ next_id \in Nat \ {0} /\ Table(files, next_id)
      /\ wk[w].pc = "replace" /\ UNCHANGED world /\ HashKnown /\ WkOK /\ LocalsHad(w)
      /\ wk[w].mtime \in Times /\ wk[w].mtime \in Nat /\ now \in Nat
  BY Zenon, ZenonT(40), ShareTypes DEF ShareInv, Replace, At, Locals, WkOK
<1>2. CASE UNCHANGED files
  BY Zenon, <1>1, <1>2, ShareRowsFrame
<1>3. CASE files' = ReplaceIndexedFile(files, next_id, Replacement(w))
  <2> DEFINE new == ReplaceIndexedFile(files, next_id, Replacement(w))
  <2>1. /\ Replacement(w) \in NewRow /\ Replacement(w).path = wk[w].path
        /\ Replacement(w).hash = wk[w].hash /\ Replacement(w).mtime = wk[w].mtime
        /\ Replacement(w).chunks = IF wk[w].hash \in Contents THEN wk[w].hash ELSE NoChunks
    BY Zenon, ZenonT(40), <1>1, ReplacementType DEF HashKnown, WithHash, Replacement
  <2>2. Replaced(files, new, Replacement(w))
    BY Zenon, ZenonT(40), <1>1, <2>1, ReplaceFacts
  <2>3. DOMAIN new = IF RowsAt(files, Replacement(w).path) = {}
                     THEN DOMAIN files \cup {next_id} ELSE DOMAIN files
    BY Zenon, ReplaceDomain
  <2>4. files' = new
    BY Zenon, <1>3
  <2> HIDE DEF new
  <2>5. \A i \in DOMAIN files' : i \in DOMAIN files \/ i = next_id
    BY Zenon, <2>3, <2>4
  <2>6. ASSUME NEW i \in DOMAIN files', ~(i \in DOMAIN files /\ files'[i] = files[i])
        PROVE  /\ i \in DOMAIN files => files[i].path = wk[w].path
               /\ files'[i].path = wk[w].path /\ files'[i].hash = wk[w].hash
               /\ wk[w].path = p => OwnRow(i, p)'
    <3>1. /\ i \in DOMAIN files => files[i].path = wk[w].path
          /\ files'[i].path = wk[w].path /\ files'[i].hash = wk[w].hash
          /\ files'[i].mtime = Timestamptz(wk[w].mtime)
          /\ files'[i].chunks = IF wk[w].hash \in Contents THEN wk[w].hash ELSE NoChunks
          /\ \/ files'[i].duplicate_of = 0
             \/ i \in DOMAIN files /\ files'[i].duplicate_of = files[i].duplicate_of
      BY Zenon, <2>1, <2>2, <2>4, <2>6 DEF Replaced
    <3>2. ASSUME wk[w].path = p PROVE OwnRow(i, p)'
      <4>1. OwnWorker(w, p) /\ (i \in DOMAIN files => files[i].duplicate_of = 0)
        BY Zenon, ZenonT(40), <1>1, <3>1, <3>2 DEF OwnWorkers, OwnRows, OwnRow
      <4>2. Timestamptz(wk[w].mtime) \in Nat /\ Timestamptz(wk[w].mtime) <= wk[w].mtime
        BY <1>1, TimestamptzType, WorkerConstants DEF Times
      <4>3. disk' = disk /\ now' = now /\ had' = had
        BY Zenon, <1>1 DEF world
      <4>4. files'[i].duplicate_of = 0 /\ files'[i].chunks = Expected(i)'
        BY Zenon, <3>1, <4>1 DEF Expected
      <4>5. files'[i].hash \in Contents => files'[i].hash \in had'[p]
        BY Zenon, <1>1, <3>1, <3>2, <4>3 DEF LocalsHad
      <4>6. files'[i].mtime <= now'
        BY SMTT(40), <1>1, <3>1, <4>2, <4>3 DEF LocalsHad
      <4>7. ASSUME NotSince(p, files[i].mtime)' PROVE files'[i].hash = HashOf(disk'[p])
        <5>1. OnDisk(p) /\ disk[p].mtime <= Timestamptz(wk[w].mtime)
          BY Zenon, <3>1, <4>3, <4>7 DEF NotSince, OnDisk
        <5>2. disk[p].mtime \in Nat
          BY Zenon, <5>1, ShareTypes
        <5>3. NotSince(p, wk[w].mtime)
          BY SMTT(40), <1>1, <4>2, <5>1, <5>2 DEF NotSince
        <5>4. wk[w].hash = HashOf(disk[p])
          BY Zenon, ZenonT(40), <1>1, <4>1, <5>3 DEF OwnWorker, WithHash
        <5> QED BY Zenon, <3>1, <4>3, <5>4
      <4>8. HashOf(disk[p])' = HashOf(disk'[p])
        BY Zenon DEF HashOf
      <4> QED BY Zenon, <4>4, <4>5, <4>6, <4>7, <4>8 DEF OwnRow
    <3> QED BY Zenon, <3>1, <3>2
  <2> QED BY Zenon, ZenonT(40), <1>1, <2>5, <2>6, ShareUpsert
<1> QED BY Zenon, <1>2, <1>3 DEF Replace

\* The steps that write, and the faults.
LEMMA ShareWrite ==
  ASSUME ShareInv, NEW w \in Workers,
         \/ Delete(w) \/ Ledger(w) \/ RenameRow(w) \/ InsertDuplicate(w)
         \/ ClearLedger(w) \/ Replace(w) \/ Abandon(w)
  PROVE  ShareNext
<1>1. UNCHANGED world
  BY Zenon DEF Delete, Ledger, RenameRow, InsertDuplicate, ClearLedger, Replace, Abandon
<1>2. \A p \in Paths : Unshared(p) => OwnRows(p)' /\ RowsStay(p)
  <2>1. CASE Ledger(w) \/ ClearLedger(w) \/ Abandon(w)
    <3>1. UNCHANGED files
      BY Zenon, <2>1 DEF Ledger, ClearLedger, Abandon, tables
    <3> QED BY Zenon, <1>1, <3>1, ShareRowsFrame
  <2> QED BY Zenon, <2>1, ShareDelete, ShareRename, ShareDuplicate, ShareReplace
<1>3. Done(w) \/ Goto(w, "cleared")
  BY Zenon DEF Delete, Ledger, RenameRow, InsertDuplicate, ClearLedger, Replace, Abandon
<1> QED BY SMTT(40), <1>1, <1>2, <1>3, ShareMove DEF PCs, WithCanonical, AfterStat, WithHash, HasRead

\* The other steps that look something up.
LEMMA ShareLookOn ==
  ASSUME ShareInv, NEW w \in Workers,
         Level2(w) \/ OldExists(w) \/ Level2Again(w) \/ Oversize(w) \/ LookUpFails(w)
  PROVE  ShareNext
<1>1. UNCHANGED <<world, files>>
  BY Zenon DEF Level2, OldExists, Level2Again, Oversize, LookUpFails, tables
<1>2. \/ Done(w)
      \/ At(w, "hash") /\ Goto(w, "canonical")
      \/ At(w, "canonical") /\ Goto(w, "recheck")
      \/ At(w, "recheck") /\ Goto(w, "replace")
      \/ At(w, "exists") /\ (Goto(w, "duplicate") \/ Goto(w, "rename"))
      \/ /\ At(w, "oversize")
         /\ wk' = [wk EXCEPT ![w].pc = "replace", ![w].hash = <<wk[w].size, wk[w].mtime>>]
  BY Zenon DEF Level2, OldExists, Level2Again, Oversize, LookUpFails
<1>3. \A p \in Paths : Unshared(p) => OwnRows(p)' /\ RowsStay(p)
  BY Zenon, <1>1, ShareRowsFrame
<1>4. CASE /\ At(w, "oversize")
           /\ wk' = [wk EXCEPT ![w].pc = "replace", ![w].hash = <<wk[w].size, wk[w].mtime>>]
  BY Zenon, ZenonT(40), <1>1, <1>4, ShareOversize
<1>5. CASE Done(w)
  BY Zenon, <1>1, <1>3, <1>5, ShareMove
<1>6. CASE \/ At(w, "hash") /\ Goto(w, "canonical")
           \/ At(w, "canonical") /\ Goto(w, "recheck")
           \/ At(w, "recheck") /\ Goto(w, "replace")
           \/ At(w, "exists") /\ (Goto(w, "duplicate") \/ Goto(w, "rename"))
  BY SMTT(40), <1>1, <1>3, <1>6, ShareMove DEF At, PCs, WithCanonical, AfterStat, WithHash, HasRead
<1> QED BY Zenon, <1>2, <1>4, <1>5, <1>6

\* Every step keeps the invariant.
LEMMA ShareStep == ShareInv /\ [Next]_vars => ShareInv'
<1> SUFFICES ASSUME ShareInv, [Next]_vars PROVE ShareNext
  BY Zenon, IsoStep DEF ShareInv, ShareNext
<1>1. CASE User
  BY Zenon, <1>1, ShareUser
<1>2. CASE (\E p \in Paths : Emit(p)) \/ UNCHANGED vars
  <2>1. UNCHANGED <<world, files, next_id, wk>>
    BY Zenon, <1>2 DEF Emit, vars, world, tables
  <2>2. UNCHANGED <<disk, now, had>>
    BY Zenon, <2>1 DEF world
  <2>3. /\ DiskHad' /\ \A w \in Workers : LocalsHad(w)'
        /\ \A p \in Paths : Unshared(p)' => Unshared(p)
    BY Zenon, <2>1, <2>2 DEF ShareInv, DiskHad, OnDisk, LocalsHad, Unshared
  <2>4. ASSUME NEW p \in Paths, Unshared(p)
        PROVE  OwnRows(p)' /\ OwnWorkers(p)'
    <3>1. OwnWorkers(p) /\ OwnRows(p)'
      BY Zenon, <2>1, <2>4, ShareRowsFrame DEF ShareInv
    <3>2. \A w \in Workers : OwnWorker(w, p) => OwnWorker(w, p)'
      BY Zenon, <2>1, <2>2 DEF OwnWorker, NotSince, OnDisk, HashOf
    <3>3. \A w \in Workers : OtherWorker(w, p) => OtherWorker(w, p)'
      BY Zenon, <2>1 DEF OtherWorker
    <3>4. ASSUME NEW w \in Workers
          PROVE  IF wk'[w].path = p THEN OwnWorker(w, p)' ELSE OtherWorker(w, p)'
      <4>1. wk'[w].path = wk[w].path
        BY Zenon, <2>1
      <4> QED BY Zenon, <3>1, <3>2, <3>3, <4>1 DEF OwnWorkers
    <3> QED BY Zenon, <3>1, <3>4 DEF OwnWorkers
  <2> QED BY Zenon, <2>3, <2>4 DEF ShareNext
<1>3. ASSUME NEW w \in Workers, Take(w) \/ Process(w) \/ Abandon(w) \/ LookUpFails(w)
      PROVE  ShareNext
  BY Zenon, <1>3, ShareTake, ShareStat, ShareProject, ShareRead, ShareLookUp, ShareLookOn,
     ShareWrite DEF Process
<1>4. CASE Crash
  <2>1. UNCHANGED <<world, files>>
    BY Zenon, <1>4 DEF Crash, tables
  <2>2. ASSUME NEW w \in Workers
        PROVE  LocalsHad(w)' /\ \A p \in Paths : OwnWorker(w, p)' /\ OtherWorker(w, p)'
    <3>1. wk'[w] = Idle(CHOOSE p \in Paths : TRUE) /\ now' \in Nat
      BY Zenon, <1>4, <2>1, ShareTypes DEF Crash, world
    <3>2. wk'[w].pc = "idle" /\ wk'[w].hash = NoContent /\ wk'[w].mtime = 0
      BY <3>1 DEF Idle
    <3>3. LocalsHad(w)'
      BY SMTT(40), <3>1, <3>2, WorkerConstants DEF LocalsHad, HasRead
    <3>4. ASSUME NEW p \in Paths PROVE OwnWorker(w, p)' /\ OtherWorker(w, p)'
      BY Zenon, <3>2 DEF OwnWorker, OtherWorker, AfterStat, WithHash, WithCanonical
    <3> QED BY Zenon, <3>3, <3>4
  <2>3. DiskHad' /\ \A p \in Paths : Unshared(p)' => Unshared(p)
    BY Zenon, <2>1 DEF ShareInv, DiskHad, OnDisk, Unshared, world
  <2> QED BY Zenon, <2>1, <2>2, <2>3, ShareRowsFrame DEF ShareNext, OwnWorkers
<1> QED BY Zenon, <1>1, <1>2, <1>3, <1>4 DEF Next

\* A file that shares no content with another is skipped as unchanged only if
\* its row records its content, in every reachable state, whatever happens to
\* the files that do share: a worker's stat comes before its read, every write
\* of the file is later than the stats before it, and no worker on another
\* file finds the row, as the content it looks up is another.
THEOREM UnsharedSkips == Spec => []UnsharedSkipSound
<1>1. ShareInv => UnsharedSkipSound
  BY Zenon, ShareImplies
<1> QED BY <1>1, ShareInit, ShareStep, PTL DEF Spec

\* And the chunks a query gets for it are those of the hash its row records.
THEOREM UnsharedServed == Spec => []UnsharedServedMatchesHash
<1>1. ShareInv => UnsharedServedMatchesHash
  BY Zenon, ShareImplies
<1> QED BY <1>1, ShareInit, ShareStep, PTL DEF Spec
=============================================================================
